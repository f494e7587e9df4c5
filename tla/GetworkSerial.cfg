SPECIFICATION GetworkSpec
CONSTANTS
    MaxEndpoints = 2
    MaxTx = 2
    Malformed = TRUE
    Breaks = TRUE
INVARIANTS GetworkTypeOK OneOperation
CHECK_DEADLOCK FALSE
