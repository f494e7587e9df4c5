SPECIFICATION ProgramSpec
CONSTANTS
    MaxSessions = 2
    MaxWrites = 2
    Fragments = TRUE
INVARIANTS ReadsDoNotOverlap LiveIsServed ServerListens
PROPERTIES ProgramEnds
CHECK_DEADLOCK FALSE
