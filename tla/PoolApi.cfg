CONSTANTS
    a = a
    b = b
    c = c
    Pools = {a, b, c}
    InitConns <- AB
    Family <- Families
    Version <- Fixed
    TLS = {a}
    ExitPools = {}
    Reachable = {a, b, c}
    Epochs = {0, 1}
    MaxRetries = 1
    DelayBeforeRetry = TRUE
    FailoverTimeout = TRUE
    ReportHashrate = FALSE
    MaxConns = 3
    MaxQueue = 2
SPECIFICATION ScheduledSpec
INVARIANTS TypeOK ActiveIsConnected MinersRunInSession WorkIsForSession FailoverIsPending NeverStranded
PROPERTIES StopReturns EpochIsRight
CHECK_DEADLOCK FALSE
