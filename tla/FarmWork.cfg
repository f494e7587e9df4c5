CONSTANTS
    N = 2
    MaxJobs = 2
    EpochOf <- LastIsNew
    Sequential = FALSE
    SetWorkThread = "io"
    Pauses = TRUE
    Stops = TRUE
SPECIFICATION Spec
INVARIANTS TypeOK PausedIsVoid StaleSearchIsKicked
