\* The execute endpoint called twice on one run.
SPECIFICATION Spec
CONSTANTS
    MaxSteps = 3
    MaxRepairRounds = 0
    e1 = e1
    Executors = {1, 2}
    Concurrency = 2
    Inputs <- SmallGraphs
    HasBudget = FALSE
    CanAbort = FALSE
INVARIANTS
    NoDoubleDispatch
CHECK_DEADLOCK FALSE
