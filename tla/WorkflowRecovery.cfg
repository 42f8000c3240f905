\* One executor, every dag of three steps, one crash at any moment.
SPECIFICATION RecoverySpec
CONSTANTS
    MaxSteps = 3
    MaxRepairRounds = 0
    e1 = e1
    Executors = {e1}
    Concurrency = 2
    Inputs <- Forward3
    HasBudget = FALSE
    CanAbort = FALSE
    MaxCrashes = 1
INVARIANTS
    RecoveredOrder
    FileAccountsForSteps
    NoGhostAfterRestart
PROPERTIES
    HalfFinishedRunSurvives
CHECK_DEADLOCK FALSE
