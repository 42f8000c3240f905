\* Two steps of one round; no crash is needed.
SPECIFICATION RecoverySpec
CONSTANTS
    MaxSteps = 3
    MaxRepairRounds = 0
    e1 = e1
    Executors = {e1}
    Concurrency = 2
    Inputs <- Forward3
    HasBudget = FALSE
    CanAbort = FALSE
    MaxCrashes = 0
INVARIANTS
    FileKnowsTheEnd
CHECK_DEADLOCK FALSE
