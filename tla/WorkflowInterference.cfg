\* One executor; clients abort and report usage at any moment; reviews ask for repairs.
SPECIFICATION Spec
CONSTANTS
    MaxSteps = 6
    MaxRepairRounds = 2
    e1 = e1
    Executors = {e1}
    Concurrency = 2
    Inputs <- SmallGraphs
    HasBudget = TRUE
    CanAbort = TRUE
INVARIANTS
    DependencyOrder
    SomebodyGoesOn
PROPERTIES
    DoneIsDone
    EndedStaysEnded
    EndComesNearer
CHECK_DEADLOCK FALSE
