CONSTANTS
    Callers = {main, io, simulator}
    NoCaller = NoCaller
    IoThread = io
    MaxCollections = 5
SPECIFICATION MinerSpec
INVARIANTS StoppedIsOutside KillIsKept StartIsSeen
           IdleIsZero
PROPERTY CallsReturn
CHECK_DEADLOCK FALSE
