SPECIFICATION Spec
CONSTANTS
    N = 2
    Families = {"stratum", "getwork", "simulation"}
    noEval = FALSE
    Timeout = 1
    MaxTime = 3
    MaxFound = 3
    MaxSessions = 2
    MaxStarts = 2
INVARIANTS AnswersAreCredited AccountsAgree PleasAreAwaited LateIsNoticed
CHECK_DEADLOCK FALSE
