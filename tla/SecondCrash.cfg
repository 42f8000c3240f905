\* A second crash between mark_interrupted and resume.
SPECIFICATION RecoverySpec
CONSTANTS
    MaxSteps = 3
    MaxRepairRounds = 0
    e1 = e1
    Executors = {e1}
    Concurrency = 2
    Inputs <- Chain
    HasBudget = FALSE
    CanAbort = FALSE
    MaxCrashes = 2
PROPERTIES
    HalfFinishedRunSurvives
CHECK_DEADLOCK FALSE
