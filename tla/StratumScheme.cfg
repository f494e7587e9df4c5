SPECIFICATION Spec
CONSTANTS
    TLS = FALSE
    Version = 0
    MaxEndpoints = 1
    MaxPleas = 2
    Flavours = {0}
    EarlyNotify = FALSE
INVARIANT LastIsDispatched
CHECK_DEADLOCK FALSE
