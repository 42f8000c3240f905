\* A review with findings, one repair round.
SPECIFICATION Spec
CONSTANTS
    MaxSteps = 6
    MaxRepairRounds = 1
    e1 = e1
    Executors = {e1}
    Concurrency = 2
    Inputs <- SmallGraphs
    HasBudget = FALSE
    CanAbort = FALSE
INVARIANTS
    ReReviewPromoted
CHECK_DEADLOCK FALSE
