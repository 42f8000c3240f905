-------------------------- MODULE WorkflowExecutor --------------------------
(***************************************************************************)
(* run_workflow (workflow_executor.rs): the loop that drives one workflow  *)
(* run of the store to completion, the subagent tasks it spawns, the       *)
(* shared context bus and the run record those tasks fill.                 *)
(*                                                                         *)
(* Every executor is one call of run_workflow.  The pc names the place     *)
(* between two critical sections where the code may be preempted:          *)
(*   idle         not called yet                                           *)
(*   checked      the run was seen not to be terminal                      *)
(*   started      start(), init_run and ContextBus::create are done        *)
(*   polling      top of the loop                                          *)
(*   dispatching  todo holds the ready steps of the snapshot not spawned   *)
(*   draining     the budget is exhausted, todo is still to be skipped     *)
(*   stuck        nothing ready or running; todo holds the pending step    *)
(*                found in the snapshot, if there was one                  *)
(*   joining      waiting for the handles of this round                    *)
(*   returned     run_workflow has returned                                *)
(* A task is queued for a permit of its executor's semaphore, running the  *)
(* subagent, or reported: step_state is done, capture_step is not.         *)
(***************************************************************************)
EXTENDS WorkflowStore

CONSTANTS
    Executors,     \* calls of run_workflow on this run
    Concurrency,   \* permits of each executor's semaphore
    Inputs,        \* the graphs create() may be given
    HasBudget,     \* the run was created with a bounded budget
    CanAbort       \* clients may call abort()

ASSUME ExecutorAssumption ==
    /\ Concurrency \in Nat \ {0}
    /\ HasBudget \in BOOLEAN
    /\ CanAbort \in BOOLEAN

(* Inputs name steps 1..n only, never a step as its own parent, and leave  *)
(* room for every repair round in the bounded step ids.                    *)
ASSUME InputsAssumption ==
    /\ Inputs \subseteq Graph
    /\ \A g \in Inputs :
        /\ (\E s \in StepId : g.auto[s]) => g.n + 2 * MaxRepairRounds <= MaxSteps
        /\ \A s \in StepId : g.par[s] \subseteq (1..g.n) \ {s}
        /\ \A s \in StepId : s > g.n => g.par[s] = {} /\ ~g.auto[s]

VARIABLES
    run,        \* the run in the active map
    pc,         \* where each executor is
    todo,       \* the snapshot of steps each executor still has to handle
    task,       \* the tasks each executor has spawned, by step
    bus,        \* steps whose output is on the run's context bus
    recorded,   \* steps captured in the run's record file
    overspent   \* the usage reported on the steps exceeds the run's budget

vars == <<run, pc, todo, task, bus, recorded, overspent>>

PC == {"idle", "checked", "started", "polling", "dispatching", "draining",
       "stuck", "joining", "returned"}
TaskState == {"none", "queued", "running", "reported"}

TypeOK ==
    /\ run \in Run
    /\ pc \in [Executors -> PC]
    /\ todo \in [Executors -> SUBSET StepId]
    /\ task \in [Executors -> [StepId -> TaskState]]
    /\ bus \subseteq StepId
    /\ recorded \subseteq StepId
    /\ overspent \in BOOLEAN

Init ==
    /\ \E g \in Inputs : CreateAccepts(g) /\ run = NewRun(g)
    /\ pc = [e \in Executors |-> "idle"]
    /\ todo = [e \in Executors |-> {}]
    /\ task = [e \in Executors |-> [s \in StepId |-> "none"]]
    /\ bus = {}
    /\ recorded = {}
    /\ overspent = FALSE

Goto(e, label) == pc' = [pc EXCEPT ![e] = label]
FirstOf(S) == {s \in S : \A t \in S : s <= t}   \* the first step, if any

(* Output of finished steps, as preload_from_run and the end of the loop   *)
(* put it on the bus.                                                      *)
WithOutput(r) ==
    {s \in Steps(r) : r.st[s] \in {"done", "error"} /\ r.out[s] # "none"}

-----------------------------------------------------------------------------
(* run_workflow's entry: a terminal run is returned at once.               *)
Enter(e) ==
    /\ pc[e] = "idle"
    /\ Goto(e, IF Ended(run) THEN "returned" ELSE "checked")
    /\ UNCHANGED <<run, todo, task, bus, recorded, overspent>>

(* workflows::start, run_record::init_run (keeps captured steps),          *)
(* ContextBus::create (replaces any earlier bus of the run).               *)
Start(e) ==
    /\ pc[e] = "checked"
    /\ run' = Started(run)
    /\ bus' = {}
    /\ Goto(e, "started")
    /\ UNCHANGED <<todo, task, recorded, overspent>>

Preload(e) ==
    /\ pc[e] = "started"
    /\ bus' = bus \cup WithOutput(run)
    /\ Goto(e, "polling")
    /\ UNCHANGED <<run, todo, task, recorded, overspent>>

Ready(r) == With(r, "ready") \cup With(r, "interrupted")

(* Top of the loop: the four ways out of a snapshot.  The fifth, nothing   *)
(* ready but some step running, sleeps 200 ms and polls again: no change.  *)
PollEnded(e) ==
    /\ pc[e] = "polling"
    /\ Ended(run)
    /\ Goto(e, "returned")
    /\ UNCHANGED <<run, todo, task, bus, recorded, overspent>>

PollOverBudget(e) ==
    /\ pc[e] = "polling"
    /\ ~Ended(run)
    /\ overspent
    /\ todo' = [todo EXCEPT ![e] = Ready(run)]
    /\ Goto(e, "draining")
    /\ UNCHANGED <<run, task, bus, recorded, overspent>>

PollReady(e) ==
    /\ pc[e] = "polling"
    /\ ~Ended(run)
    /\ ~overspent
    /\ Ready(run) # {}
    /\ todo' = [todo EXCEPT ![e] = Ready(run)]
    /\ Goto(e, "dispatching")
    /\ UNCHANGED <<run, task, bus, recorded, overspent>>

PollStuck(e) ==
    /\ pc[e] = "polling"
    /\ ~Ended(run)
    /\ ~overspent
    /\ Ready(run) \cup With(run, "running") = {}
    /\ todo' = [todo EXCEPT ![e] = FirstOf(With(run, "pending"))]
    /\ Goto(e, "stuck")
    /\ UNCHANGED <<run, task, bus, recorded, overspent>>

(* Over budget: skip the snapshot's ready steps one by one, then abort.    *)
SkipOverBudget(e) ==
    /\ pc[e] = "draining"
    /\ \E s \in FirstOf(todo[e]) :
        /\ run' = StepState(run, s, "skipped", "none")
        /\ todo' = [todo EXCEPT ![e] = @ \ {s}]
    /\ UNCHANGED <<pc, task, bus, recorded, overspent>>

AbortOverBudget(e) ==
    /\ pc[e] = "draining"
    /\ todo[e] = {}
    /\ run' = Aborted(run)
    /\ Goto(e, "returned")
    /\ UNCHANGED <<todo, task, bus, recorded, overspent>>

(* Stuck: the pending step found is marked error.  With none, step_state   *)
(* finds no step with the empty id and changes nothing.                    *)
FailStuck(e) ==
    /\ pc[e] = "stuck"
    /\ \/ todo[e] = {} /\ UNCHANGED run
       \/ \E s \in todo[e] : run' = StepState(run, s, "error", "none")
    /\ todo' = [todo EXCEPT ![e] = {}]
    /\ Goto(e, "returned")
    /\ UNCHANGED <<task, bus, recorded, overspent>>

(* One turn of the dispatch loop: mark the step running, spawn its task.   *)
Dispatch(e) ==
    /\ pc[e] = "dispatching"
    /\ \E s \in FirstOf(todo[e]) :
        /\ run' = StepState(run, s, "running", "none")
        /\ task' = [task EXCEPT ![e][s] = "queued"]
        /\ todo' = [todo EXCEPT ![e] = @ \ {s}]
        /\ Goto(e, IF todo[e] = {s} THEN "joining" ELSE "dispatching")
    /\ UNCHANGED <<bus, recorded, overspent>>

-----------------------------------------------------------------------------
(* The spawned tasks.                                                      *)
(* Mutant: a task waiting for a permit counts as holding one.              *)
HoldingOrWaiting(e) == {s \in StepId : task[e][s] # "none"}

HoldingPermit(e) == {s \in StepId : task[e][s] \in {"running", "reported"}}

Acquire(e, s) ==
    /\ task[e][s] = "queued"
    /\ Cardinality(HoldingPermit(e)) < Concurrency
    /\ task' = [task EXCEPT ![e][s] = "running"]
    /\ UNCHANGED <<run, pc, todo, bus, recorded, overspent>>

(* The subagent succeeded, failed with an output, or hit the timeout.      *)
Report(e, s, status, out) ==
    /\ task[e][s] = "running"
    /\ run' = StepState(run, s, status, out)
    /\ task' = [task EXCEPT ![e][s] = "reported"]
    /\ UNCHANGED <<pc, todo, bus, recorded, overspent>>

Succeed(e, s) == \E out \in {"clean", "findings"} : Report(e, s, "done", out)
Fail(e, s)    == Report(e, s, "error", "clean")
TimeOut(e, s) == Report(e, s, "error", "none")

(* run_record::capture_step, the task's last act: its handle completes.    *)
Capture(e, s) ==
    /\ task[e][s] = "reported"
    /\ recorded' = recorded \cup {s}
    /\ task' = [task EXCEPT ![e][s] = "none"]
    /\ UNCHANGED <<run, pc, todo, bus, overspent>>

(* Mutants: the record is not completed; the handles are not awaited.      *)
CompletedSteps(r) == With(r, "done") \cup With(r, "error")

EndedSteps(r) == {s \in Steps(r) : r.st[s] \in Settled}

JoinEarly(e) ==
    /\ pc[e] = "joining"
    /\ recorded' = recorded \cup EndedSteps(run)
    /\ bus' = bus \cup WithOutput(run)
    /\ Goto(e, "polling")
    /\ UNCHANGED <<run, todo, task, overspent>>

(* All handles joined: capture the ended steps nobody ran, fill the bus.   *)
Join(e) ==
    /\ pc[e] = "joining"
    /\ \A s \in StepId : task[e][s] = "none"
    /\ recorded' = recorded \cup EndedSteps(run)
    /\ bus' = bus \cup WithOutput(run)
    /\ Goto(e, "polling")
    /\ UNCHANGED <<run, todo, task, overspent>>

-----------------------------------------------------------------------------
(* Clients.  POST /:id/abort looks for the run only.  POST /:id/step checks *)
(* that the run has not ended before it calls step_state; the run starts   *)
(* out not ended and a checked request may land at any later time, so its  *)
(* effect needs no guard.  Here the patch carries a usage, and no status:  *)
(* the executor itself never reports any usage.                            *)
Abort ==
    /\ CanAbort
    /\ run' = Aborted(run)
    /\ UNCHANGED <<pc, todo, task, bus, recorded, overspent>>

ReportUsage ==
    /\ HasBudget
    /\ \E s \in Steps(run) : run' = StepState(run, s, "keep", "none")
    /\ overspent' \in BOOLEAN
    /\ UNCHANGED <<pc, todo, task, bus, recorded>>

Poll(e) == PollEnded(e) \/ PollOverBudget(e) \/ PollReady(e) \/ PollStuck(e)

TaskStep(e, s) ==
    Acquire(e, s) \/ Succeed(e, s) \/ Fail(e, s) \/ TimeOut(e, s) \/ Capture(e, s)

ExecutorStep(e) ==
    \/ Enter(e) \/ Start(e) \/ Preload(e) \/ Poll(e)
    \/ SkipOverBudget(e) \/ AbortOverBudget(e) \/ FailStuck(e)
    \/ Dispatch(e) \/ Join(e)

Next ==
    \/ \E e \in Executors : ExecutorStep(e)
    \/ \E e \in Executors, s \in StepId : TaskStep(e, s)
    \/ Abort
    \/ ReportUsage

(* An executor and its tasks are futures the runtime keeps polling, and a  *)
(* subagent ends within the step timeout.  Clients owe nothing.            *)
Fairness ==
    /\ \A e \in Executors : WF_vars(ExecutorStep(e))
    /\ \A e \in Executors, s \in StepId : WF_vars(TaskStep(e, s))

Spec == Init /\ [][Next]_vars /\ Fairness

-----------------------------------------------------------------------------
(* PROPERTIES                                                              *)

InFlight(e, s) == task[e][s] \in {"queued", "running"}

(* A subagent only ever runs with all parents of its step done: the loop   *)
(* dispatches from a stale snapshot while errors, aborts and auto-repair   *)
(* change the run under it, and a done parent is never taken back.         *)
DependencyOrder ==
    \A e \in Executors, s \in StepId :
        InFlight(e, s) => ParentsAll(run, s, {"done"})

(* The next round starts only after the last one joined, so every parent's *)
(* output is on the bus before the prompt of a child is assembled.         *)
ParentsOnBus ==
    \A e \in Executors, s \in StepId :
        InFlight(e, s) => run.par[s] \subseteq bus

(* When a sole executor looks at the run at the top of its loop no step is *)
(* "running": otherwise it would sleep and poll a step nobody drives for   *)
(* ever.  Tasks overwritten by a sweep and finishing late must not leave   *)
(* the status behind.                                                      *)
NoPhantomRunning ==
    \A e \in Executors : pc[e] = "polling" => With(run, "running") = {}

(* No step of an ended run waits for an executor that will never come.     *)
EndedRunHasNoRunnable ==
    Ended(run) => With(run, "pending") \cup With(run, "ready") = {}

(* While the run is open, a pending step has a parent that is not done: no *)
(* order of completions loses a promotion to ready.  (Up to the first      *)
(* auto-repair round: see ReReviewPromoted.)                               *)
NoLostPromotion ==
    ~Ended(run) /\ run.rounds = 0 =>
        \A s \in With(run, "pending") : ~ParentsAll(run, s, {"done"})

(* The same after an auto-repair: once the repair step is done its         *)
(* re-review is ready ("Now the re-review step is ready.").                *)
ReReviewPromoted ==
    ~Ended(run) => \A s \in With(run, "pending") : ~ParentsAll(run, s, {"done"})

(* The outcome tells the truth: "done" means every step is done or was     *)
(* skipped and no subagent is at work, "error" that some step failed.      *)
TruthfulOutcome ==
    /\ run.status = "done" =>
        /\ AllFinished(run)
        /\ \A e \in Executors, s \in StepId : ~InFlight(e, s)
    /\ run.status = "error" => With(run, "error") # {}

(* A record whose executor returned from a finished run holds every step,  *)
(* those a failed sibling kept from ever being dispatched included.        *)
RecordComplete ==
    \A e \in Executors :
        pc[e] = "returned" /\ run.status \in {"done", "error"} /\ run.rounds = 0 =>
            Steps(run) \subseteq recorded

(* "the caller must ensure only one executor drives a run at a time (the   *)
(* REST endpoint does this by returning the running run without            *)
(* re-entering)": no step is carried out by two executors at once.         *)
NoDoubleDispatch ==
    \A d, e \in Executors, s \in StepId :
        InFlight(d, s) /\ InFlight(e, s) => d = e

(* The steps never wait for one another in a circle, whatever a repair adds *)
(* or an editor rewires, inserts and resets ("Returns Err(CycleError) if   *)
(* the proposed parents form a cycle"): every set of steps has one with no *)
(* parent in the set.                                                      *)
Acyclic ==
    \A D \in SUBSET Steps(run) :
        D # {} => \E s \in D : run.par[s] \cap D = {}

(* run_workflow returns the final run.                                     *)
ReturnsFinalRun == \A e \in Executors : pc[e] = "returned" => Ended(run)

(* A step that has succeeded keeps its result: no executor runs it again.  *)
DoneIsDone ==
    [][\A s \in Steps(run) : run.st[s] = "done" => run'.st[s] = "done"]_vars

(* Once its executor has started, a run that ended stays ended: no late    *)
(* result, usage report or auto-repair reopens it.                         *)
EndedStaysEnded ==
    [][Ended(run) /\ (\A e \in Executors : pc[e] # "checked") => Ended(run')]_vars

(* Who waits for somebody else: a task without a permit, an executor that  *)
(* joins the tasks of its round, one that sleeps because some step runs.   *)
AwaitsPermit(e, s) ==
    task[e][s] = "queued" /\ Cardinality(HoldingPermit(e)) >= Concurrency

AwaitsTasks(e) == pc[e] = "joining" /\ \E s \in StepId : task[e][s] # "none"

Sleeps(e) ==
    /\ pc[e] = "polling"
    /\ ~Ended(run) /\ ~overspent
    /\ Ready(run) = {} /\ With(run, "running") # {}

(* Executors and tasks never all wait for one another, be there one        *)
(* execute request on the run or many: until all have returned somebody    *)
(* can go on.                                                              *)
SomebodyGoesOn ==
    \/ \A e \in Executors : pc[e] = "returned"
    \/ \E e \in Executors : pc[e] # "returned" /\ ~AwaitsTasks(e) /\ ~Sleeps(e)
    \/ \E e \in Executors, s \in StepId : task[e][s] # "none" /\ ~AwaitsPermit(e, s)

(* What an executor has before it: the steps it may still start, the       *)
(* stages of its tasks, the places of its loop.                            *)
StepsAhead ==
    {p \in Executors \X StepId :
        \/ p[2] \in todo[p[1]]
        \/ run.st[p[2]] \in {"absent", "pending", "ready", "interrupted"}}

StagesLeft == [none |-> 0, reported |-> 1, running |-> 2, queued |-> 3]
TasksAhead ==
    {p \in Executors \X StepId \X (1..3) : p[3] <= StagesLeft[task[p[1]][p[2]]]}

PlacesLeft == [idle |-> 5, checked |-> 4, started |-> 3, joining |-> 3,
               polling |-> 2, dispatching |-> 1, draining |-> 1, stuck |-> 1,
               returned |-> 0]
PlacesAhead ==
    {p \in Executors \X (1..5) : p[2] <= PlacesLeft[pc[p[1]]]}

(* No loop of run_workflow goes round for nothing: whatever clients and    *)
(* other executors do to the run, no step comes back to be started, and    *)
(* every move of an executor or of a task leaves fewer steps to start, or  *)
(* the same steps and less to do for those at work.                        *)
EndComesNearer ==
    [][/\ StepsAhead' \subseteq StepsAhead
       /\ <<pc, todo, task>>' # <<pc, todo, task>> =>
            \/ StepsAhead' # StepsAhead
            \/ TasksAhead' \subseteq TasksAhead /\ TasksAhead' # TasksAhead
            \/ /\ TasksAhead' = TasksAhead
               /\ PlacesAhead' \subseteq PlacesAhead /\ PlacesAhead' # PlacesAhead
      ]_vars

(* A driven run ends and its executor returns, whatever the graph and      *)
(* whichever steps fail.                                                   *)
EventuallyReturns ==
    \A e \in Executors :
        pc[e] = "checked" ~> (pc[e] = "returned" /\ Ended(run))

-----------------------------------------------------------------------------
(* The executor implements the promise: a step is active while its task is *)
(* in flight, whatever a sweep has written over its status meanwhile.      *)
Active(s) == \E e \in Executors : InFlight(e, s)

Phase(s) ==
    IF Active(s) THEN "active"
    ELSE CASE run.st[s] = "absent"               -> "unknown"
           [] run.st[s] \in {"pending", "ready"} -> "waiting"
           [] run.st[s] = "done"                 -> "succeeded"
           [] run.st[s] = "error"                -> "failed"
           [] OTHER                              -> "dropped"

RunOutcome ==
    CASE run.status = "done"  -> "succeeded"
      [] run.status = "error" -> "failed"
      [] OTHER                -> "open"

Promise == INSTANCE WorkflowPromise WITH
    Step <- StepId, deps <- run.par,
    phase <- [s \in StepId |-> Phase(s)], outcome <- RunOutcome

(* Every step is carried out at most once, after all it depends on, and    *)
(* the run ends once with the outcome its steps justify: run_workflow      *)
(* implements WorkflowPromise, stale dispatch snapshots, late results and  *)
(* auto-repair included.                                                   *)
KeepsPromise == Promise!Spec
=============================================================================
