SPECIFICATION AnsweredSpec
CONSTANTS
    TLS = TRUE
    Version = 4
    MaxEndpoints = 2
    MaxPleas = 2
    Flavours = {0}
    EarlyNotify = FALSE
INVARIANTS TypeOK NeverStranded LinkIsWatched NoNullDereference
PROPERTIES AuthorizedIsKept Settles ImplementsPoolClient
CHECK_DEADLOCK FALSE
