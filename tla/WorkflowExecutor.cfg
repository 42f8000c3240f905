\* One executor, every dag of four steps, three-step dags with a review; no client.
SPECIFICATION Spec
CONSTANTS
    MaxSteps = 5
    MaxRepairRounds = 1
    e1 = e1
    Executors = {e1}
    Concurrency = 2
    Inputs <- Dags
    HasBudget = FALSE
    CanAbort = FALSE
INVARIANTS
    ParentsOnBus
    NoLostPromotion
    TruthfulOutcome
    RecordComplete
    ReturnsFinalRun
PROPERTIES
    EventuallyReturns
    KeepsPromise
CHECK_DEADLOCK FALSE
