CONSTANTS
    a = a
    b = b
    c = c
    Pools = {a, b}
    InitConns <- AB
    Family <- AllStratum
    Version <- Autodetect
    TLS = {b}
    ExitPools = {}
    Reachable = {b}
    Epochs = {0}
    MaxRetries = 2
    DelayBeforeRetry = TRUE
    FailoverTimeout = TRUE
    ReportHashrate = TRUE
    MaxConns = 2
    MaxQueue = 2
SPECIFICATION LiveSpec
PROPERTIES ReachesAPool
CHECK_DEADLOCK FALSE
