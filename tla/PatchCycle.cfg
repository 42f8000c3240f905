\* Rewiring through the WebSocket.
SPECIFICATION ClientsSpec
CONSTANTS
    MaxSteps = 3
    MaxRepairRounds = 0
    e1 = e1
    c1 = c1
    Executors = {e1}
    Concurrency = 2
    Inputs <- Shapes
    HasBudget = FALSE
    CanAbort = FALSE
    Editors = {c1}
    Routes = {"ws"}
    Requests = {"patch"}
    Inserted = {FALSE}
    MaxRequests = 1
INVARIANTS
    Acyclic
CHECK_DEADLOCK FALSE
