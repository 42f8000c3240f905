\* One executor and one editor, who makes two requests of any kind.
SPECIFICATION ClientsSpec
CONSTANTS
    MaxSteps = 3
    MaxRepairRounds = 1
    e1 = e1
    c1 = c1
    Executors = {e1}
    Concurrency = 2
    Inputs <- Shapes
    HasBudget = FALSE
    CanAbort = FALSE
    Editors = {c1}
    Routes = {"http"}
    Requests = {"patch", "insert", "rerun", "resume", "post"}
    Inserted = {FALSE}
    MaxRequests = 2
INVARIANTS
    Acyclic
    ListsAgree
PROPERTIES
    EditsKeepWork
CHECK_DEADLOCK FALSE
