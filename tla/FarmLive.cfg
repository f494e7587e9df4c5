CONSTANTS
    N = 2
    MaxJobs = 2
    EpochOf <- LastIsNew
    Sequential = FALSE
    SetWorkThread = "io"
    Pauses = FALSE
    Stops = TRUE
SPECIFICATION LiveSpec
PROPERTIES StopEnds JobIsPickedUp
