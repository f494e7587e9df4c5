CONSTANTS
    N = 2
    MaxJobs = 1
    EpochOf <- OneEpoch
    Sequential = TRUE
    SetWorkThread = "io"
    Pauses = FALSE
    Stops = TRUE
SPECIFICATION LiveSpec
PROPERTY StopEnds
CHECK_DEADLOCK FALSE
