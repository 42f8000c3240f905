-------------------------- MODULE WorkflowClients ---------------------------
(***************************************************************************)
(* The operator's live edits of a run that an executor is driving: posting *)
(* step states, rewiring dependencies, inserting steps, rerunning a step   *)
(* and resuming the run (the /api/workflows handlers and the workflow.*    *)
(* WebSocket messages of agent/mod.rs).                                    *)
(*                                                                         *)
(* Every handler looks at a snapshot of the run, lets go of the store's    *)
(* lock, and takes it again to commit: each is a request held between two  *)
(* steps, while the executor and its tasks go on.                          *)
(***************************************************************************)
EXTENDS WorkflowExecutor

CONSTANTS
    Editors,      \* clients that edit the run, one request at a time each
    Routes,       \* the patch routes they use: "http", "ws"
    Requests,     \* the kinds of request they make
    Inserted,     \* auto_repair of the steps they insert
    MaxRequests   \* bound: requests made in all

ASSUME ClientsAssumption ==
    /\ Routes \subseteq {"http", "ws"}
    /\ Requests \subseteq {"patch", "insert", "rerun", "resume", "post"}
    /\ Inserted \subseteq BOOLEAN
    /\ MaxRequests \in Nat

VARIABLES
    req,      \* the request each editor has under way
    clone,    \* resume's clone of the run (no element: none)
    made      \* requests made so far

cvars == <<run, pc, todo, task, bus, recorded, overspent, req, clone, made>>

NoRequest == [op |-> "none", step |-> 1, parents |-> {}, auto |-> FALSE, route |-> "http"]

ClientsInit ==
    /\ Init
    /\ req = [c \in Editors |-> NoRequest]
    /\ clone = [c \in Editors |-> {}]
    /\ made = 0

ExecutorVarsUnchanged == UNCHANGED <<pc, todo, task, bus, recorded, overspent>>

(* The handlers refuse a run that is done or aborted, not one in error.    *)
Editable == run.status \notin {"done", "aborted"}

Ask(c, op, s, parents, auto, route) ==
    /\ op \in Requests
    /\ made < MaxRequests
    /\ req[c] = NoRequest
    /\ req' = [req EXCEPT ![c] = [op |-> op, step |-> s, parents |-> parents,
                                  auto |-> auto, route |-> route]]
    /\ made' = made + 1
    /\ UNCHANGED run
    /\ ExecutorVarsUnchanged

Answer(c, newRun) ==
    /\ run' = newRun
    /\ req' = [req EXCEPT ![c] = NoRequest]
    /\ UNCHANGED made
    /\ ExecutorVarsUnchanged

-----------------------------------------------------------------------------
(* POST /:id/step.  Its check and its effect may lie any time apart (see   *)
(* ReportUsage), so the effect stands for both.                            *)
PostStep(c, s, status, out) ==
    /\ "post" \in Requests
    /\ made < MaxRequests
    /\ run' = StepState(run, s, status, out)
    /\ made' = made + 1
    /\ UNCHANGED <<req, clone>>
    /\ ExecutorVarsUnchanged

(* Rewiring: resolve and check against the snapshot, commit later.  Only   *)
(* the HTTP route looks at the run's status.                               *)
AskPatch(c, s, parents, route) ==
    /\ Ask(c, "patch", s, parents, FALSE, route)
    /\ route \in Routes
    /\ route = "http" => Editable
    /\ s \notin parents
    /\ PatchAccepts(run, s, parents, route)
    /\ UNCHANGED clone

CommitPatch(c) ==
    /\ req[c].op = "patch"
    /\ Answer(c, Reparented(run, req[c].step, req[c].parents, req[c].route))
    /\ UNCHANGED clone

(* One step per request; its parents are steps of the snapshot.            *)
AskInsert(c, parents, auto) ==
    /\ Editable
    /\ Ask(c, "insert", 1, parents, auto, "http")
    /\ UNCHANGED clone

(* Bound: the new step fits, and so do the repairs that may still come.    *)
HasRoom(r, auto) ==
    /\ r.n < MaxSteps
    /\ auto \/ (\E s \in StepId : r.auto[s]) =>
          r.n + 2 * (MaxRepairRounds - r.rounds) < MaxSteps

CommitInsert(c) ==
    /\ req[c].op = "insert"
    /\ HasRoom(run, req[c].auto)
    /\ Answer(c, StepInserted(run, req[c].parents, req[c].auto))
    /\ UNCHANGED clone

(* Rerun: the step is made ready in one critical section, its old result   *)
(* cleared and the run reopened in the next (by the WebSocket route only). *)
AskRerun(c, s, route) ==
    /\ Editable
    /\ run.st[s] # "running"
    /\ Ask(c, "rerun", s, {}, FALSE, route)
    /\ UNCHANGED clone

ReadyAgain(c) ==
    /\ req[c].op = "rerun"
    /\ run' = StepState(run, req[c].step, "ready", "none")
    /\ req' = [req EXCEPT ![c].op = "clear"]
    /\ UNCHANGED <<clone, made>>
    /\ ExecutorVarsUnchanged

ClearResult(c) ==
    /\ req[c].op = "clear"
    /\ Answer(c, IF req[c].route = "ws" THEN Cleared(run, req[c].step) ELSE run)
    /\ UNCHANGED clone

(* POST /:id/resume: resume_sync clones the run, works on the clone, and   *)
(* puts it back whole.  The executor it then spawns is any idle one.       *)
AskResume(c) ==
    /\ ~Ended(run)
    /\ Ask(c, "resume", 1, {}, FALSE, "http")
    /\ clone' = [clone EXCEPT ![c] = {run}]

PutBack(c) ==
    /\ req[c].op = "resume"
    /\ \E r \in clone[c] : Answer(c, Resumed(r))
    /\ clone' = [clone EXCEPT ![c] = {}]

-----------------------------------------------------------------------------
EditorStep(c) ==
    \/ \E s \in Steps(run), out \in {"none", "findings"},
          status \in {"pending", "ready", "running", "done", "error", "skipped"} :
            PostStep(c, s, status, out)
    \/ \E s \in Steps(run), parents \in SUBSET Steps(run), route \in {"http", "ws"} :
            AskPatch(c, s, parents, route)
    \/ \E parents \in SUBSET Steps(run), auto \in Inserted : AskInsert(c, parents, auto)
    \/ \E s \in Steps(run), route \in {"http", "ws"} : AskRerun(c, s, route)
    \/ AskResume(c)
    \/ CommitPatch(c)
    \/ CommitInsert(c)
    \/ ReadyAgain(c)
    \/ ClearResult(c)
    \/ PutBack(c)

ClientsNext ==
    \/ Next /\ UNCHANGED <<req, clone, made>>
    \/ \E c \in Editors : EditorStep(c)

ClientsSpec == ClientsInit /\ [][ClientsNext]_cvars

-----------------------------------------------------------------------------
(* PROPERTIES                                                              *)

(* A re-review follows its repair; step_state does not list it there.      *)
ReReview(r, s) == r.auto[s] /\ r.par[s] = {s - 1}

(* Parents and children lists, kept apart and edited by six operations,    *)
(* describe the same edges, but for those of re-reviews.                   *)
ListsAgree ==
    \A p, s \in Steps(run) :
        /\ s \in run.ch[p] => p \in run.par[s]
        /\ p \in run.par[s] => s \in run.ch[p] \/ ReReview(run, s)

(* A graph edit committed on a run that moved on meanwhile disturbs no     *)
(* step that is under way or has succeeded: it only readies steps.         *)
EditsKeepWork ==
    [][\A c \in Editors :
        req[c].op \in {"patch", "insert"} /\ req'[c] = NoRequest =>
            \A s \in Steps(run) : run'.st[s] # run.st[s] =>
                run.st[s] \in {"pending", "error"} /\ run'.st[s] = "ready"]_cvars
=============================================================================
