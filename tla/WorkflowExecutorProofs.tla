----------------------- MODULE WorkflowExecutorProofs -----------------------
(***************************************************************************)
(* Theorems about WorkflowExecutor, for every graph, any number of steps   *)
(* and repair rounds, any concurrency, with aborting and reporting clients.*)
(***************************************************************************)
EXTENDS WorkflowExecutor, WorkflowStoreProofs, WellFoundedInduction

(* Nobody but this call of run_workflow drives the run.                    *)
SoleExecutor == \A d, e \in Executors : d = e

(* Type correctness is inductive only with the structure of the run: an    *)
(* executor's snapshot and tasks name steps the run has, and room is left  *)
(* for the repair rounds still to come.                                    *)
Structure ==
    /\ TypeOK
    /\ WellFormed(run)
    /\ \A e \in Executors : todo[e] \subseteq Steps(run)
    /\ \A e \in Executors, s \in StepId : task[e][s] # "none" => s \in Steps(run)

(* Why an executor's stale snapshot does no harm: since it was taken its   *)
(* steps were at most promoted or swept, never started nor finished, and   *)
(* whoever was ready had, and keeps, all its parents done.                 *)
Order ==
    /\ \A s \in StepId : run.st[s] # "interrupted"
    /\ \A s \in StepId : run.st[s] = "ready" => ParentsAll(run, s, {"done"})
    /\ \A e \in Executors, s \in StepId :
        InFlight(e, s) =>
            run.st[s] \in {"running", "skipped"} /\ ParentsAll(run, s, {"done"})
    /\ \A e \in Executors : \A s \in todo[e] :
        /\ ~InFlight(e, s)
        /\ run.st[s] \in {"pending", "ready", "skipped"}
        /\ pc[e] = "dispatching" =>
            run.st[s] # "pending" /\ ParentsAll(run, s, {"done"})

-----------------------------------------------------------------------------
LEMMA InitStructure == Init => Structure
<1> SUFFICES ASSUME Init PROVE Structure
  OBVIOUS
<1>1. PICK g \in Inputs : run = NewRun(g)
  BY DEF Init
<1>2. GoodGraph(g)
  BY InputsAssumption DEF GoodGraph
<1>3. WellFormed(run)
  BY <1>1, <1>2, NewRunWellFormed
<1>4. TypeOK
  BY <1>3 DEF Init, TypeOK, WellFormed, PC, TaskState
<1> QED
  BY <1>3, <1>4 DEF Init, Structure

(* A step that only lets the run grow and adds no work keeps the structure.*)
LEMMA StepsGrow ==
    ASSUME NEW r, NEW q, WellFormed(r), Kept(r, q)
    PROVE  /\ WellFormed(q) /\ q \in Run
           /\ Steps(r) \subseteq Steps(q)
<1>1. WellFormed(q) /\ r.n <= q.n /\ q \in Run /\ r \in Run
  BY DEF Kept, WellFormed
<1>2. r.n \in Nat /\ q.n \in Nat
  BY <1>1, FieldTypes
<1> QED
  BY <1>1, <1>2 DEF Steps

LEMMA FirstOfSubset ==
    ASSUME NEW S
    PROVE  FirstOf(S) \subseteq S
BY DEF FirstOf

(* The run after each kind of step an executor, a task or a client takes.  *)
LEMMA RunStep ==
    ASSUME Structure, [Next]_vars
    PROVE  WellFormed(run') /\ Steps(run) \subseteq Steps(run')
<1> USE DEF Structure
<1>1. ASSUME NEW s \in Steps(run), NEW status \in StepStatus \cup {"keep"},
             NEW out \in Output, run' = StepState(run, s, status, out)
      PROVE  WellFormed(run') /\ Steps(run) \subseteq Steps(run')
  <2> DEFINE p == Patched(run, s, status, out)
  <2>1. WellFormed(p) /\ SameGraph(run, p) /\ Grown(p, run')
    BY <1>1, PatchedRun, StepStateGrown
  <2> HIDE DEF p
  <2>2. Kept(p, run') /\ Steps(p) = Steps(run)
    BY <2>1, GrownKept DEF SameGraph, Steps
  <2> QED
    BY <2>1, <2>2, StepsGrow
<1>2. ASSUME NEW q, Grown(run, q), run' = q
      PROVE  WellFormed(run') /\ Steps(run) \subseteq Steps(run')
  BY <1>2, GrownKept, StepsGrow
<1>3. CASE UNCHANGED run
  BY <1>3
<1>4. ASSUME NEW e \in Executors, ExecutorStep(e)
      PROVE  WellFormed(run') /\ Steps(run) \subseteq Steps(run')
  <2>1. CASE Start(e)
    BY <2>1, <1>2, StartedGrown DEF Start
  <2>2. CASE SkipOverBudget(e)
    BY <2>2, <1>1, FirstOfSubset DEF SkipOverBudget, StepStatus, Output
  <2>3. CASE AbortOverBudget(e)
    BY <2>3, <1>2, AbortedGrown DEF AbortOverBudget
  <2>4. CASE FailStuck(e)
    BY <2>4, <1>1, <1>3 DEF FailStuck, StepStatus, Output
  <2>5. CASE Dispatch(e)
    BY <2>5, <1>1, FirstOfSubset DEF Dispatch, StepStatus, Output
  <2>6. CASE Enter(e) \/ Preload(e) \/ Poll(e) \/ Join(e)
    BY <2>6, <1>3 DEF Enter, Preload, Poll, PollEnded, PollOverBudget, PollReady,
                      PollStuck, Join
  <2> QED
    BY <1>4, <2>1, <2>2, <2>3, <2>4, <2>5, <2>6 DEF ExecutorStep
<1>5. ASSUME NEW e \in Executors, NEW s \in StepId, TaskStep(e, s)
      PROVE  WellFormed(run') /\ Steps(run) \subseteq Steps(run')
  <2>1. ASSUME NEW status \in {"done", "error"}, NEW out \in Output,
               Report(e, s, status, out)
        PROVE  WellFormed(run') /\ Steps(run) \subseteq Steps(run')
    <3>1. s \in Steps(run)
      BY <2>1 DEF Report
    <3> QED
      BY <2>1, <3>1, <1>1 DEF Report, StepStatus
  <2>2. CASE Acquire(e, s) \/ Capture(e, s)
    BY <2>2, <1>3 DEF Acquire, Capture
  <2> QED
    BY <1>5, <2>1, <2>2 DEF TaskStep, Succeed, Fail, TimeOut, Output
<1>6. CASE Abort
  BY <1>6, <1>2, AbortedGrown DEF Abort
<1>7. CASE ReportUsage
  BY <1>7, <1>1 DEF ReportUsage, Output
<1>8. CASE UNCHANGED vars
  BY <1>8, <1>3 DEF vars
<1> QED
  BY <1>4, <1>5, <1>6, <1>7, <1>8 DEF Next

LEMMA StructureStep == Structure /\ [Next]_vars => Structure'
<1> SUFFICES ASSUME Structure, [Next]_vars PROVE Structure'
  OBVIOUS
<1>1. WellFormed(run') /\ Steps(run) \subseteq Steps(run')
  BY RunStep
<1>2. /\ run' \in Run /\ Steps(run) \subseteq StepId
      /\ \A st \in StepStatus : With(run, st) \subseteq Steps(run)
      /\ Ready(run) \subseteq Steps(run)
      /\ WithOutput(run) \subseteq Steps(run)
      /\ EndedSteps(run) \subseteq Steps(run)
  BY <1>1, FieldTypes DEF Structure, WellFormed, With, Ready, WithOutput, EndedSteps
<1> DEFINE Rest ==
        /\ pc' \in [Executors -> PC]
        /\ todo' \in [Executors -> SUBSET Steps(run)]
        /\ task' \in [Executors -> [StepId -> TaskState]]
        /\ bus' \subseteq StepId /\ recorded' \subseteq StepId
        /\ overspent' \in BOOLEAN
        /\ \A e \in Executors, s \in StepId : task'[e][s] # "none" => s \in Steps(run)
<1>3. ASSUME Rest PROVE Structure'
  BY <1>1, <1>2, <1>3 DEF Structure, TypeOK
<1>4. /\ todo \in [Executors -> SUBSET Steps(run)]
      /\ pc \in [Executors -> PC]
      /\ task \in [Executors -> [StepId -> TaskState]]
      /\ bus \subseteq StepId /\ recorded \subseteq StepId /\ overspent \in BOOLEAN
      /\ \A e \in Executors, s \in StepId : task[e][s] # "none" => s \in Steps(run)
  BY DEF Structure, TypeOK
<1> HIDE DEF Rest
<1>5. ASSUME NEW e \in Executors, ExecutorStep(e)
      PROVE  Rest
  <2>1. CASE Enter(e)
    BY <2>1, <1>4 DEF Enter, Goto, PC, Rest
  <2>2. CASE Start(e)
    BY <2>2, <1>4 DEF Start, Goto, PC, Rest
  <2>3. CASE Preload(e)
    BY <2>3, <1>2, <1>4 DEF Preload, Goto, PC, Rest
  <2>4. CASE PollEnded(e)
    BY <2>4, <1>4 DEF PollEnded, Goto, PC, Rest
  <2>5. CASE PollOverBudget(e)
    BY <2>5, <1>2, <1>4 DEF PollOverBudget, Goto, PC, Rest
  <2>6. CASE PollReady(e)
    BY <2>6, <1>2, <1>4 DEF PollReady, Goto, PC, Rest
  <2>7. CASE PollStuck(e)
    <3>1. FirstOf(With(run, "pending")) \subseteq Steps(run)
      BY <1>2, FirstOfSubset DEF StepStatus
    <3> QED
      BY <2>7, <3>1, <1>4 DEF PollStuck, Goto, PC, Rest
  <2>8. CASE SkipOverBudget(e)
    BY <2>8, <1>4 DEF SkipOverBudget, Rest
  <2>9. CASE AbortOverBudget(e)
    BY <2>9, <1>4 DEF AbortOverBudget, Goto, PC, Rest
  <2>10. CASE FailStuck(e)
    BY <2>10, <1>4 DEF FailStuck, Goto, PC, Rest
  <2>11. CASE Dispatch(e)
    <3>1. PICK s \in FirstOf(todo[e]) :
            /\ task' = [task EXCEPT ![e][s] = "queued"]
            /\ todo' = [todo EXCEPT ![e] = @ \ {s}]
            /\ Goto(e, IF todo[e] = {s} THEN "joining" ELSE "dispatching")
      BY <2>11 DEF Dispatch
    <3>2. s \in Steps(run) /\ s \in StepId
      BY <3>1, <1>2, <1>4, FirstOfSubset
    <3>3. task' \in [Executors -> [StepId -> TaskState]]
      BY <3>1, <3>2, <1>4 DEF TaskState
    <3>4. \A d \in Executors, t \in StepId : task'[d][t] # "none" => t \in Steps(run)
      BY <3>1, <3>2, <1>4
    <3>5. pc' \in [Executors -> PC] /\ todo' \in [Executors -> SUBSET Steps(run)]
      BY <3>1, <1>4 DEF Goto, PC
    <3> QED
      BY <2>11, <3>3, <3>4, <3>5, <1>4 DEF Dispatch, Rest
  <2>12. CASE Join(e)
    BY <2>12, <1>2, <1>4 DEF Join, Goto, PC, Rest
  <2> QED
    BY <1>5, <2>1, <2>2, <2>3, <2>4, <2>5, <2>6, <2>7, <2>8, <2>9, <2>10, <2>11,
       <2>12 DEF ExecutorStep, Poll
<1>6. ASSUME NEW e \in Executors, NEW s \in StepId, TaskStep(e, s)
      PROVE  Rest
  <2>1. ASSUME NEW state \in TaskState, task[e][s] # "none",
               task' = [task EXCEPT ![e][s] = state]
        PROVE  /\ task' \in [Executors -> [StepId -> TaskState]]
               /\ \A d \in Executors, t \in StepId :
                    task'[d][t] # "none" => t \in Steps(run)
    BY <2>1, <1>4
  <2>2. CASE Acquire(e, s)
    BY <2>1, <2>2, <1>4 DEF Acquire, TaskState, Rest
  <2>3. ASSUME NEW status, NEW out, Report(e, s, status, out)
        PROVE  Rest
    BY <2>1, <2>3, <1>4 DEF Report, TaskState, Rest
  <2>4. CASE Capture(e, s)
    BY <2>1, <2>4, <1>4 DEF Capture, TaskState, Rest
  <2> QED
    BY <1>6, <2>2, <2>3, <2>4 DEF TaskStep, Succeed, Fail, TimeOut
<1>7. ASSUME Abort
      PROVE  Rest
  BY <1>7, <1>4 DEF Abort, Rest
<1>8. ASSUME ReportUsage
      PROVE  Rest
  BY <1>8, <1>4 DEF ReportUsage, Rest
<1>9. ASSUME UNCHANGED vars
      PROVE  Rest
  BY <1>9, <1>4 DEF vars, Rest
<1> QED
  BY <1>3, <1>5, <1>6, <1>7, <1>8, <1>9 DEF Next

LEMMA StructureInvariant == Spec => []Structure
<1> QED
  BY InitStructure, StructureStep, PTL DEF Spec

(* Every operation keeps the run and the bookkeeping of its executors in   *)
(* their types, with any number of executors: ids stay within the steps    *)
(* the run has, and the repair rounds never outgrow their cap.             *)
THEOREM TypeCorrect == Spec => []TypeOK
<1>1. Structure => TypeOK
  BY DEF Structure
<1> QED
  BY <1>1, StructureInvariant, PTL

-----------------------------------------------------------------------------
LEMMA InitOrder == Init => Order
<1> SUFFICES ASSUME Init PROVE Order
  OBVIOUS
<1>1. PICK g \in Inputs : run = NewRun(g)
  BY DEF Init
<1>2. GoodGraph(g)
  BY InputsAssumption DEF GoodGraph
<1>3. /\ \A s \in StepId : run.st[s] \in {"absent", "pending", "ready"}
      /\ \A s \in StepId : run.st[s] = "ready" => run.par[s] = {}
  BY <1>1, <1>2, NewRunWellFormed
<1> QED
  BY <1>3 DEF Init, Order, InFlight, ParentsAll

(* The order survives any change of the run that moves every step forward  *)
(* but those of N, which are nobody's business any more or were just       *)
(* dispatched with their parents done.                                     *)
LEMMA OrderKept ==
    ASSUME Structure, Order, Kept(run, run'), NEW N \in SUBSET StepId,
           \A t \in StepId \ N : MovesForward(run.st[t], run'.st[t]),
           \A t \in N : run'.st[t] # "interrupted",
           \A e \in Executors, s \in StepId :
                task'[e][s] \in {"queued", "running"} =>
                    \/ s \notin N /\ InFlight(e, s)
                    \/ /\ s \in N /\ run'.st[s] \in {"running", "skipped"}
                       /\ s \in Steps(run) /\ ParentsAll(run, s, {"done"}),
           \A e \in Executors : \A s \in todo'[e] :
                /\ s \notin N /\ s \in todo[e] /\ s \in StepId
                /\ task'[e][s] \notin {"queued", "running"}
                /\ pc'[e] = "dispatching" => pc[e] = "dispatching"
    PROVE  Order'
<1>1. /\ \A t \in Steps(run) : t \in StepId
      /\ \A t \in StepId : run.st[t] = "ready" => t \in Steps(run)
      /\ \A e \in Executors, s \in StepId : InFlight(e, s) => s \in Steps(run)
      /\ \A e \in Executors : \A s \in todo[e] : s \in Steps(run)
  <2>1. run \in Run /\ run.n \in Nat
    BY FieldTypes DEF Structure, WellFormed
  <2>2. \A t \in StepId : run.st[t] = "ready" => t \in Steps(run)
    BY <2>1, BoundsAssumption DEF Structure, WellFormed, Steps, StepId
  <2> QED
    BY <2>1, <2>2, FieldTypes DEF Structure, InFlight
<1>2. \A t \in StepId : run'.st[t] # "interrupted"
  BY DEF Order, MovesForward
<1>3. \A t \in StepId : run'.st[t] = "ready" => ParentsAll(run', t, {"done"})
  BY <1>1 DEF Order, Kept
<1>4. ASSUME NEW e \in Executors, NEW s \in StepId, task'[e][s] \in {"queued", "running"}
      PROVE  run'.st[s] \in {"running", "skipped"} /\ ParentsAll(run', s, {"done"})
  <2>1. CASE s \notin N /\ InFlight(e, s)
    <3>1. run.st[s] \in {"running", "skipped"} /\ ParentsAll(run, s, {"done"})
      BY <2>1 DEF Order
    <3>2. run'.st[s] \in {"running", "skipped"}
      BY <2>1, <3>1 DEF MovesForward, Sweepable
    <3> QED
      BY <1>1, <2>1, <3>1, <3>2 DEF Kept
  <2>2. CASE s \in N
    BY <1>4, <2>2 DEF Kept
  <2> QED
    BY <1>4, <2>1, <2>2
<1>5. ASSUME NEW e \in Executors, NEW s \in todo'[e]
      PROVE  /\ task'[e][s] \notin {"queued", "running"}
             /\ run'.st[s] \in {"pending", "ready", "skipped"}
             /\ pc'[e] = "dispatching" =>
                    run'.st[s] # "pending" /\ ParentsAll(run', s, {"done"})
  <2>1. /\ s \in StepId \ N /\ s \in todo[e]
        /\ task'[e][s] \notin {"queued", "running"}
        /\ pc'[e] = "dispatching" => pc[e] = "dispatching"
    OBVIOUS
  <2>2. /\ run.st[s] \in {"pending", "ready", "skipped"}
        /\ pc[e] = "dispatching" =>
                run.st[s] # "pending" /\ ParentsAll(run, s, {"done"})
    BY <2>1 DEF Order
  <2>3. /\ run'.st[s] \in {"pending", "ready", "skipped"}
        /\ run.st[s] # "pending" => run'.st[s] # "pending"
    BY <2>1, <2>2 DEF MovesForward, Sweepable
  <2> QED
    BY <1>1, <2>1, <2>2, <2>3 DEF Kept
<1> QED
  BY <1>2, <1>3, <1>4, <1>5 DEF Order, InFlight

LEMMA OrderKeptByGrowth ==
    ASSUME Structure, Order, Kept(run, run'), UNCHANGED <<task, todo>>,
           \A t \in StepId : MovesForward(run.st[t], run'.st[t]),
           \A e \in Executors : pc'[e] = "dispatching" => pc[e] = "dispatching"
    PROVE  Order'
<1> DEFINE N == {}
<1>1. N \in SUBSET StepId /\ StepId \ N = StepId /\ \A s : s \notin N
  OBVIOUS
<1> HIDE DEF N
<1>2. \A t \in StepId \ N : MovesForward(run.st[t], run'.st[t])
  BY <1>1
<1>3. \A e \in Executors, s \in StepId :
        task'[e][s] \in {"queued", "running"} => s \notin N /\ InFlight(e, s)
  BY <1>1 DEF InFlight
<1>4. \A e \in Executors : \A s \in todo'[e] :
            /\ s \notin N /\ s \in todo[e] /\ s \in StepId
            /\ task'[e][s] \notin {"queued", "running"}
            /\ pc'[e] = "dispatching" => pc[e] = "dispatching"
  BY <1>1 DEF Structure, TypeOK, Order, InFlight
<1> QED
  BY <1>1, <1>2, <1>3, <1>4, OrderKept

LEMMA OrderStep ==
    ASSUME SoleExecutor, Structure, Order, [Next]_vars
    PROVE  Order'
<1>1. /\ WellFormed(run) /\ Steps(run) \subseteq StepId
      /\ \A e \in Executors : \A s \in todo[e] : s \in Steps(run)
      /\ todo \in [Executors -> SUBSET StepId]
      /\ pc \in [Executors -> PC]
      /\ task \in [Executors -> [StepId -> TaskState]]
  BY FieldTypes DEF Structure, WellFormed, TypeOK
<1>2. Kept(run, run)
  BY <1>1, GrownItself, GrownKept
<1>3. ASSUME UNCHANGED <<run, task>>,
             \A e \in Executors : \A s \in todo'[e] :
                /\ s \in todo[e]
                /\ pc'[e] = "dispatching" => pc[e] = "dispatching"
      PROVE  Order'
  BY <1>3 DEF Order, InFlight
<1>4. ASSUME Grown(run, run'), UNCHANGED <<task, todo>>,
             \A e \in Executors : pc'[e] = "dispatching" => pc[e] = "dispatching"
      PROVE  Order'
  <2>1. Kept(run, run')
    BY <1>1, <1>4, GrownKept
  <2>2. \A t \in StepId : MovesForward(run.st[t], run'.st[t])
    BY <1>4 DEF Grown
  <2> QED
    BY <1>4, <2>1, <2>2, OrderKeptByGrowth
<1>5. ASSUME NEW e \in Executors, ExecutorStep(e)
      PROVE  Order'
  <2>1. CASE Enter(e)
    BY <1>1, <1>3, <2>1 DEF Enter, Goto
  <2>2. CASE Start(e)
    BY <1>1, <1>4, <2>2, StartedGrown DEF Start, Goto
  <2>3. CASE Preload(e)
    BY <1>1, <1>3, <2>3 DEF Preload, Goto
  <2>4. CASE PollEnded(e)
    BY <1>1, <1>3, <2>4 DEF PollEnded, Goto
  <2>5. CASE PollOverBudget(e) \/ PollReady(e)
    <3>1. UNCHANGED <<run, task>> /\ todo' = [todo EXCEPT ![e] = Ready(run)]
      BY <2>5 DEF PollOverBudget, PollReady
    <3>2. \A s \in Ready(run) : s \in StepId /\ run.st[s] = "ready"
      BY <1>1 DEF Ready, With, Order
    <3>3. \A s \in Ready(run) : ~InFlight(e, s) /\ ParentsAll(run, s, {"done"})
      BY <3>2 DEF Order
    <3>4. \A d \in Executors : todo'[d] = Ready(run) /\ d = e
      BY <1>1, <3>1 DEF SoleExecutor
    <3> QED
      BY <3>1, <3>2, <3>3, <3>4 DEF Order, InFlight
  <2>6. CASE PollStuck(e)
    <3>1. /\ UNCHANGED <<run, task>> /\ pc' = [pc EXCEPT ![e] = "stuck"]
          /\ todo' = [todo EXCEPT ![e] = FirstOf(With(run, "pending"))]
      BY <2>6 DEF PollStuck, Goto
    <3>2. \A s \in FirstOf(With(run, "pending")) : s \in StepId /\ run.st[s] = "pending"
      BY <1>1 DEF FirstOf, With
    <3>3. \A s \in FirstOf(With(run, "pending")) : ~InFlight(e, s)
      BY <3>2 DEF Order
    <3>4. \A d \in Executors : /\ todo'[d] = FirstOf(With(run, "pending")) /\ d = e
                               /\ pc'[d] = "stuck"
      BY <1>1, <3>1 DEF SoleExecutor
    <3> QED
      BY <3>1, <3>2, <3>3, <3>4 DEF Order, InFlight
  <2>7. CASE SkipOverBudget(e)
    <3>1. PICK s \in FirstOf(todo[e]) :
            /\ run' = StepState(run, s, "skipped", "none")
            /\ todo' = [todo EXCEPT ![e] = @ \ {s}]
      BY <2>7 DEF SkipOverBudget
    <3>2. s \in todo[e] /\ s \in Steps(run) /\ s \in StepId
      BY <1>1, <3>1, FirstOfSubset
    <3>3. run.st[s] # "done" /\ ~InFlight(e, s)
      BY <3>2 DEF Order
    <3>4. /\ Kept(run, run') /\ MovesForward("skipped", run'.st[s])
          /\ \A t \in StepId \ {s} : MovesForward(run.st[t], run'.st[t])
      BY <1>1, <3>1, <3>2, <3>3, StepStateKept DEF StepStatus, Output
    <3>5. \A t \in {s} : run'.st[t] # "interrupted"
      BY <3>4 DEF MovesForward
    <3>6. UNCHANGED <<pc, task>>
      BY <2>7 DEF SkipOverBudget
    <3>7. \A d \in Executors, t \in StepId :
            task'[d][t] \in {"queued", "running"} => t \notin {s} /\ InFlight(d, t)
      BY <3>3, <3>6 DEF InFlight, SoleExecutor
    <3>8. \A d \in Executors : \A t \in todo'[d] :
            /\ t \notin {s} /\ t \in todo[d] /\ t \in StepId
            /\ task'[d][t] \notin {"queued", "running"}
      BY <1>1, <3>1, <3>6 DEF SoleExecutor, Order, InFlight
    <3> QED
      BY <3>2, <3>4, <3>5, <3>6, <3>7, <3>8, OrderKept
  <2>8. CASE AbortOverBudget(e)
    BY <1>1, <1>4, <2>8, AbortedGrown DEF AbortOverBudget, Goto
  <2>9. CASE FailStuck(e) /\ UNCHANGED run
    BY <1>1, <1>3, <2>9 DEF FailStuck, Goto
  <2>10. ASSUME NEW s \in todo[e], FailStuck(e), run' = StepState(run, s, "error", "none")
         PROVE  Order'
    <3>1. s \in Steps(run) /\ s \in StepId
      BY <1>1
    <3>2. run.st[s] # "done" /\ ~InFlight(e, s)
      BY DEF Order
    <3>3. /\ Kept(run, run') /\ MovesForward("error", run'.st[s])
          /\ \A t \in StepId \ {s} : MovesForward(run.st[t], run'.st[t])
      BY <1>1, <2>10, <3>1, <3>2, StepStateKept DEF StepStatus, Output
    <3>4. \A t \in {s} : run'.st[t] # "interrupted"
      BY <3>3 DEF MovesForward
    <3>5. UNCHANGED task /\ todo' = [todo EXCEPT ![e] = {}]
      BY <2>10 DEF FailStuck
    <3>6. \A d \in Executors, t \in StepId :
            task'[d][t] \in {"queued", "running"} => t \notin {s} /\ InFlight(d, t)
      BY <3>2, <3>5 DEF InFlight, SoleExecutor
    <3>7. \A d \in Executors : \A t \in todo'[d] :
            /\ t \notin {s} /\ t \in todo[d] /\ t \in StepId
            /\ task'[d][t] \notin {"queued", "running"}
            /\ pc'[d] = "dispatching" => pc[d] = "dispatching"
      BY <1>1, <3>5 DEF SoleExecutor
    <3> QED
      BY <3>1, <3>3, <3>4, <3>6, <3>7, OrderKept
  <2>11. CASE Dispatch(e)
    <3>1. PICK s \in FirstOf(todo[e]) :
            /\ run' = StepState(run, s, "running", "none")
            /\ task' = [task EXCEPT ![e][s] = "queued"]
            /\ todo' = [todo EXCEPT ![e] = @ \ {s}]
      BY <2>11 DEF Dispatch
    <3>2. s \in todo[e] /\ s \in Steps(run) /\ s \in StepId /\ pc[e] = "dispatching"
      BY <1>1, <2>11, <3>1, FirstOfSubset DEF Dispatch
    <3>3. run.st[s] # "done" /\ ParentsAll(run, s, {"done"})
      BY <3>2 DEF Order
    <3>4. /\ Kept(run, run') /\ MovesForward("running", run'.st[s])
          /\ \A t \in StepId \ {s} : MovesForward(run.st[t], run'.st[t])
      BY <1>1, <3>1, <3>2, <3>3, StepStateKept DEF StepStatus, Output
    <3>5. run'.st[s] \in {"running", "skipped"}
      BY <3>4 DEF MovesForward
    <3>6. \A d \in Executors, t \in StepId :
            task'[d][t] \in {"queued", "running"} => t = s \/ InFlight(d, t)
      BY <1>1, <3>1, <3>2 DEF InFlight, SoleExecutor
    <3>7. \A d \in Executors : \A t \in todo'[d] :
            /\ t \notin {s} /\ t \in todo[d] /\ t \in StepId
            /\ task'[d][t] \notin {"queued", "running"}
            /\ pc[d] = "dispatching"
      <4> SUFFICES ASSUME NEW t \in todo'[e]
                   PROVE  /\ t \notin {s} /\ t \in todo[e] /\ t \in StepId
                          /\ task'[e][t] \notin {"queued", "running"}
        BY <3>2 DEF SoleExecutor
      <4>1. t # s /\ t \in todo[e] /\ t \in StepId
        BY <1>1, <3>1
      <4>2. task'[e][t] = task[e][t]
        BY <1>1, <3>1, <3>2, <4>1
      <4> QED
        BY <4>1, <4>2 DEF Order, InFlight
    <3> QED
      BY <3>2, <3>3, <3>4, <3>5, <3>6, <3>7, OrderKept
  <2>12. CASE Join(e)
    BY <1>1, <1>3, <2>12 DEF Join, Goto
  <2> QED
    BY <1>5, <2>1, <2>2, <2>3, <2>4, <2>5, <2>6, <2>7, <2>8, <2>9, <2>10, <2>11,
       <2>12 DEF ExecutorStep, Poll, FailStuck
<1>6. ASSUME NEW e \in Executors, NEW s \in StepId, TaskStep(e, s)
      PROVE  Order'
  <2>1. CASE Acquire(e, s) \/ Capture(e, s)
    <3>1. \A d \in Executors, t \in StepId :
            task'[d][t] \in {"queued", "running"} => InFlight(d, t)
      BY <1>1, <2>1 DEF Acquire, Capture, InFlight
    <3>2. UNCHANGED <<run, pc, todo>>
      BY <2>1 DEF Acquire, Capture
    <3> QED
      BY <1>1, <3>1, <3>2 DEF Order, InFlight
  <2>2. ASSUME NEW status \in {"done", "error"}, NEW out \in Output,
               Report(e, s, status, out)
        PROVE  Order'
    <3>1. /\ s \in Steps(run) /\ InFlight(e, s) /\ UNCHANGED <<pc, todo>>
          /\ run' = StepState(run, s, status, out)
          /\ task' = [task EXCEPT ![e][s] = "reported"]
      BY <2>2 DEF Report, InFlight, Structure
    <3>2. run.st[s] # "done" /\ s \notin todo[e]
      BY <3>1 DEF Order
    <3>3. /\ Kept(run, run') /\ MovesForward(status, run'.st[s])
          /\ \A t \in StepId \ {s} : MovesForward(run.st[t], run'.st[t])
      BY <1>1, <3>1, <3>2, StepStateKept DEF StepStatus
    <3>4. \A t \in {s} : run'.st[t] # "interrupted"
      BY <3>3 DEF MovesForward
    <3>5. \A d \in Executors, t \in StepId :
            task'[d][t] \in {"queued", "running"} => t \notin {s} /\ InFlight(d, t)
      BY <1>1, <3>1 DEF InFlight, SoleExecutor
    <3>6. \A d \in Executors : \A t \in todo'[d] :
            /\ t \notin {s} /\ t \in todo[d] /\ t \in StepId
            /\ task'[d][t] \notin {"queued", "running"}
      BY <1>1, <3>1, <3>2, <3>5 DEF SoleExecutor, Order
    <3> QED
      BY <3>1, <3>3, <3>4, <3>5, <3>6, OrderKept
  <2> QED
    BY <1>6, <2>1, <2>2 DEF TaskStep, Succeed, Fail, TimeOut, Output
<1>7. ASSUME Abort
      PROVE  Order'
  BY <1>1, <1>4, <1>7, AbortedGrown DEF Abort
<1>8. ASSUME ReportUsage
      PROVE  Order'
  <2>1. PICK s \in Steps(run) : run' = StepState(run, s, "keep", "none")
    BY <1>8 DEF ReportUsage
  <2>2. /\ Kept(run, run')
        /\ \A t \in StepId : MovesForward(run.st[t], run'.st[t])
    BY <1>1, <2>1, StepStateKept DEF StepStatus, Output
  <2>3. UNCHANGED <<pc, todo, task>>
    BY <1>8 DEF ReportUsage
  <2> QED
    BY <2>2, <2>3, OrderKeptByGrowth
<1>9. ASSUME UNCHANGED vars
      PROVE  Order'
  BY <1>3, <1>9 DEF vars
<1> QED
  BY <1>5, <1>6, <1>7, <1>8, <1>9 DEF Next

LEMMA OrderInvariant ==
    ASSUME SoleExecutor
    PROVE  Spec => [](Structure /\ Order)
<1>1. Init => Structure /\ Order
  BY InitStructure, InitOrder
<1>2. Structure /\ Order /\ [Next]_vars => (Structure /\ Order)'
  BY StructureStep, OrderStep
<1> QED
  BY <1>1, <1>2, PTL DEF Spec

(* A subagent only ever runs with all parents of its step done, in a graph *)
(* of any shape and size, though the executor dispatches from a snapshot   *)
(* that errors, aborts, usage reports and repairs have outdated: provided  *)
(* it is the run's only executor.                                          *)
THEOREM DispatchedInOrder ==
    ASSUME SoleExecutor
    PROVE  Spec => []DependencyOrder
<1>1. Structure /\ Order => DependencyOrder
  BY DEF Order, DependencyOrder
<1> QED
  BY <1>1, OrderInvariant, PTL

(* A sole executor never runs again a step that has succeeded, nor does    *)
(* any sweep, late report or usage report take its result back.            *)
THEOREM ResultsAreKept ==
    ASSUME SoleExecutor
    PROVE  Spec => DoneIsDone
<1> DEFINE Keeps == \A s \in Steps(run) : run.st[s] = "done" => run'.st[s] = "done"
<1>1. ASSUME Structure, Order, [Next]_vars
      PROVE  [Keeps]_vars
  <2>1. WellFormed(run) /\ Steps(run) \subseteq StepId
    BY <1>1, FieldTypes DEF Structure, WellFormed
  <2>2. ASSUME Kept(run, run') PROVE Keeps
    BY <2>1, <2>2 DEF Kept
  <2>3. ASSUME UNCHANGED run PROVE Keeps
    BY <2>3
  <2>4. ASSUME Grown(run, run') PROVE Keeps
    BY <2>1, <2>2, <2>4, GrownKept
  <2>5. ASSUME NEW s \in Steps(run), NEW status \in StepStatus \cup {"keep"},
               NEW out \in Output, status # "ready",
               run.st[s] = "done" => status \in {"keep", "done"},
               run' = StepState(run, s, status, out)
        PROVE  Keeps
    BY <2>1, <2>2, <2>5, StepStateKept
  <2> HIDE DEF Keeps
  <2>6. ASSUME NEW e \in Executors, ExecutorStep(e)
        PROVE  Keeps
    <3>1. \A s \in todo[e] : s \in Steps(run) /\ run.st[s] # "done"
      BY <1>1 DEF Structure, Order
    <3>2. CASE Start(e)
      BY <2>1, <2>4, <3>2, StartedGrown DEF Start
    <3>3. CASE SkipOverBudget(e)
      BY <2>5, <3>1, <3>3, FirstOfSubset DEF SkipOverBudget, StepStatus, Output
    <3>4. CASE AbortOverBudget(e)
      BY <2>1, <2>4, <3>4, AbortedGrown DEF AbortOverBudget
    <3>5. CASE FailStuck(e)
      BY <2>3, <2>5, <3>1, <3>5 DEF FailStuck, StepStatus, Output
    <3>6. CASE Dispatch(e)
      BY <2>5, <3>1, <3>6, FirstOfSubset DEF Dispatch, StepStatus, Output
    <3>7. CASE Enter(e) \/ Preload(e) \/ Poll(e) \/ Join(e)
      BY <2>3, <3>7 DEF Enter, Preload, Poll, PollEnded, PollOverBudget, PollReady,
                        PollStuck, Join
    <3> QED
      BY <2>6, <3>2, <3>3, <3>4, <3>5, <3>6, <3>7 DEF ExecutorStep
  <2>7. ASSUME NEW e \in Executors, NEW s \in StepId, TaskStep(e, s)
        PROVE  Keeps
    <3>1. ASSUME NEW status \in {"done", "error"}, NEW out \in Output,
                 Report(e, s, status, out)
          PROVE  Keeps
      <4>1. s \in Steps(run) /\ InFlight(e, s) /\ run' = StepState(run, s, status, out)
        BY <1>1, <3>1 DEF Report, InFlight, Structure
      <4>2. run.st[s] # "done"
        BY <1>1, <4>1 DEF Order
      <4> QED
        BY <2>5, <4>1, <4>2 DEF StepStatus
    <3>2. CASE Acquire(e, s) \/ Capture(e, s)
      BY <2>3, <3>2 DEF Acquire, Capture
    <3> QED
      BY <2>7, <3>1, <3>2 DEF TaskStep, Succeed, Fail, TimeOut, Output
  <2>8. ASSUME Abort PROVE Keeps
    BY <2>1, <2>4, <2>8, AbortedGrown DEF Abort
  <2>9. ASSUME ReportUsage PROVE Keeps
    BY <2>5, <2>9 DEF ReportUsage, Output
  <2> QED
    BY <1>1, <2>6, <2>7, <2>8, <2>9 DEF Next
<1> QED
  BY <1>1, OrderInvariant, PTL DEF Spec, DoneIsDone

(* Once no executor is between its check of the run and start(), a run     *)
(* that has ended stays ended, with any number of executors: step_state    *)
(* may still record late results in it but never reopens it.               *)
THEOREM EndedRunsStayEnded == Spec => EndedStaysEnded
<1> DEFINE Stays == Ended(run) /\ (\A e \in Executors : pc[e] # "checked") => Ended(run')
<1>1. ASSUME Structure, [Next]_vars
      PROVE  [Stays]_vars
  <2>1. WellFormed(run) /\ \A e \in Executors : todo[e] \subseteq Steps(run)
    BY <1>1 DEF Structure
  <2>2. ASSUME run'.status \in {run.status, "aborted"} PROVE Stays
    BY <2>2 DEF Ended, Final
  <2>3. ASSUME NEW s \in Steps(run), NEW status \in StepStatus \cup {"keep"},
               NEW out \in Output, run' = StepState(run, s, status, out)
        PROVE  Stays
    BY <2>1, <2>3, StepStateGrown DEF Ended
  <2>4. ASSUME NEW e \in Executors, ExecutorStep(e)
        PROVE  Stays
    <3>1. CASE Start(e)
      BY <3>1 DEF Start
    <3>2. CASE SkipOverBudget(e)
      BY <2>1, <2>3, <3>2, FirstOfSubset DEF SkipOverBudget, StepStatus, Output
    <3>3. CASE AbortOverBudget(e)
      BY <2>1, <2>2, <3>3, AbortedGrown DEF AbortOverBudget
    <3>4. CASE FailStuck(e)
      BY <2>1, <2>2, <2>3, <3>4 DEF FailStuck, StepStatus, Output
    <3>5. CASE Dispatch(e)
      BY <2>1, <2>3, <3>5, FirstOfSubset DEF Dispatch, StepStatus, Output
    <3>6. CASE Enter(e) \/ Preload(e) \/ Poll(e) \/ Join(e)
      BY <2>2, <3>6 DEF Enter, Preload, Poll, PollEnded, PollOverBudget, PollReady,
                        PollStuck, Join
    <3> QED
      BY <2>4, <3>1, <3>2, <3>3, <3>4, <3>5, <3>6 DEF ExecutorStep
  <2>5. ASSUME NEW e \in Executors, NEW s \in StepId, TaskStep(e, s)
        PROVE  Stays
    <3>1. ASSUME NEW status \in {"done", "error"}, NEW out \in Output,
                 Report(e, s, status, out)
          PROVE  Stays
      BY <1>1, <2>3, <3>1 DEF Report, Structure, StepStatus
    <3>2. CASE Acquire(e, s) \/ Capture(e, s)
      BY <2>2, <3>2 DEF Acquire, Capture
    <3> QED
      BY <2>5, <3>1, <3>2 DEF TaskStep, Succeed, Fail, TimeOut, Output
  <2>6. ASSUME Abort PROVE Stays
    BY <2>1, <2>2, <2>6, AbortedGrown DEF Abort
  <2>7. ASSUME ReportUsage PROVE Stays
    BY <2>3, <2>7 DEF ReportUsage, Output
  <2> QED
    BY <1>1, <2>4, <2>5, <2>6, <2>7 DEF Next
<1> QED
  BY <1>1, StructureInvariant, PTL DEF Spec, EndedStaysEnded

-----------------------------------------------------------------------------
(* How a step may change the run: the store operation, and who calls it.   *)
Reported(s, status, out) ==
    /\ run' = StepState(run, s, status, out)
    /\ \/ status = "keep"
       \/ \E e \in Executors :
            /\ s \in todo[e]
            /\ \/ status = "running" /\ pc[e] = "dispatching"
               \/ status = "skipped" /\ pc[e] = "draining"
               \/ status = "error" /\ pc[e] = "stuck"
       \/ /\ status \in {"done", "error"} /\ (status = "done" => out # "none")
          /\ \E e \in Executors : task[e][s] = "running"

LEMMA RunChange ==
    ASSUME Structure, [Next]_vars
    PROVE  \/ UNCHANGED run
           \/ run' = Aborted(run)
           \/ run' = Started(run) /\ \E e \in Executors : pc[e] = "checked"
           \/ \E s \in Steps(run), out \in Output,
                 status \in {"keep", "running", "done", "error", "skipped"} :
                    Reported(s, status, out)
<1> DEFINE Status == {"keep", "running", "done", "error", "skipped"}
           Called == \E s \in Steps(run), out \in Output, status \in Status :
                        Reported(s, status, out)
           Changed == \/ UNCHANGED run
                      \/ run' = Aborted(run)
                      \/ run' = Started(run) /\ \E e \in Executors : pc[e] = "checked"
                      \/ Called
<1>1. \A e \in Executors, s \in StepId : task[e][s] = "running" => s \in Steps(run)
  BY DEF Structure
<1>2. \A e \in Executors : FirstOf(todo[e]) \subseteq todo[e] /\ todo[e] \subseteq Steps(run)
  BY FirstOfSubset DEF Structure
<1>3. ASSUME NEW s \in Steps(run), NEW out \in Output, NEW status \in Status,
             Reported(s, status, out)
      PROVE  Called
  BY <1>3
<1> HIDE DEF Called
<1>4. ASSUME NEW e \in Executors, ExecutorStep(e)
      PROVE  Changed
  <2>1. CASE Start(e)
    BY <2>1 DEF Start
  <2>2. CASE SkipOverBudget(e)
    BY <2>2, <1>2, <1>3 DEF SkipOverBudget, Reported, Output
  <2>3. CASE AbortOverBudget(e)
    BY <2>3 DEF AbortOverBudget
  <2>4. CASE FailStuck(e)
    BY <2>4, <1>2, <1>3 DEF FailStuck, Reported, Output
  <2>5. CASE Dispatch(e)
    BY <2>5, <1>2, <1>3 DEF Dispatch, Reported, Output
  <2>6. CASE Enter(e) \/ Preload(e) \/ Poll(e) \/ Join(e)
    BY <2>6 DEF Enter, Preload, Poll, PollEnded, PollOverBudget, PollReady, PollStuck, Join
  <2> QED
    BY <1>4, <2>1, <2>2, <2>3, <2>4, <2>5, <2>6 DEF ExecutorStep
<1>5. ASSUME NEW e \in Executors, NEW s \in StepId, TaskStep(e, s)
      PROVE  Changed
  <2>1. ASSUME NEW status \in {"done", "error"}, NEW out \in Output,
               status = "done" => out # "none", Report(e, s, status, out)
        PROVE  Called
    BY <2>1, <1>1, <1>3 DEF Report, Reported
  <2>2. CASE Succeed(e, s)
    BY <2>1, <2>2 DEF Succeed, Output
  <2>3. CASE Fail(e, s) \/ TimeOut(e, s)
    BY <2>1, <2>3 DEF Fail, TimeOut, Output
  <2>4. CASE Acquire(e, s) \/ Capture(e, s)
    BY <2>4 DEF Acquire, Capture
  <2> QED
    BY <1>5, <2>2, <2>3, <2>4 DEF TaskStep
<1>6. CASE Abort
  BY <1>6 DEF Abort
<1>7. CASE ReportUsage
  BY <1>7, <1>3 DEF ReportUsage, Reported, Output
<1>8. CASE UNCHANGED vars
  BY <1>8 DEF vars
<1> QED
  BY <1>4, <1>5, <1>6, <1>7, <1>8 DEF Next, Called

-----------------------------------------------------------------------------
(* No step of a run that has ended waits for an executor, with any number  *)
(* of executors and whatever is reported after the end.                    *)
THEOREM NothingWaitsAfterTheEnd == Spec => []EndedRunHasNoRunnable
<1>1. Init => Closed(run)
  BY InputsAssumption, NewRunFacts DEF Init, GoodGraph
<1>2. ASSUME Structure, Closed(run), [Next]_vars
      PROVE  Closed(run')
  <2>1. WellFormed(run)
    BY <1>2 DEF Structure
  <2>2. ASSUME NEW s \in Steps(run), NEW out \in Output,
               NEW status \in {"keep", "running", "done", "error", "skipped"},
               Reported(s, status, out)
        PROVE  Closed(run')
    BY <1>2, <2>1, <2>2, ClosedKept DEF Reported, StepStatus
  <2>3. CASE run' = Aborted(run)
    BY <2>1, <2>3, AbortedFacts
  <2>4. CASE run' = Started(run)
    BY <2>4 DEF Started, Closed, Ended, Final
  <2>5. CASE UNCHANGED run
    BY <1>2, <2>5
  <2> QED
    BY <1>2, <2>2, <2>3, <2>4, <2>5, RunChange
<1>3. Closed(run) => EndedRunHasNoRunnable
  BY DEF Closed, EndedRunHasNoRunnable, With
<1>4. Closed(run) /\ Structure /\ [Next]_vars => Closed(run)'
  BY <1>2
<1> QED
  BY <1>1, <1>3, <1>4, StructureInvariant, PTL DEF Spec

-----------------------------------------------------------------------------
(* An executor has steps to handle only in the loops that handle them, and *)
(* tasks only while it spawns them and until it has joined them.           *)
Phases ==
    \A e \in Executors :
        /\ pc[e] = "dispatching" => todo[e] # {}
        /\ pc[e] \notin {"dispatching", "draining", "stuck"} => todo[e] = {}
        /\ pc[e] \notin {"dispatching", "joining"} =>
                \A s \in StepId : task[e][s] = "none"

LEMMA PhasesStep ==
    ASSUME Structure, Phases, [Next]_vars
    PROVE  Phases'
<1>1. /\ pc \in [Executors -> PC] /\ todo \in [Executors -> SUBSET StepId]
      /\ task \in [Executors -> [StepId -> TaskState]]
  BY DEF Structure, TypeOK
<1>2. ASSUME NEW e \in Executors, ExecutorStep(e)
      PROVE  Phases'
  <2>1. CASE Enter(e)
    BY <1>1, <2>1 DEF Enter, Goto, Phases
  <2>2. CASE Start(e)
    BY <1>1, <2>2 DEF Start, Goto, Phases
  <2>3. CASE Preload(e)
    BY <1>1, <2>3 DEF Preload, Goto, Phases
  <2>4. CASE PollEnded(e)
    BY <1>1, <2>4 DEF PollEnded, Goto, Phases
  <2>5. CASE PollOverBudget(e)
    BY <1>1, <2>5 DEF PollOverBudget, Goto, Phases
  <2>6. CASE PollReady(e)
    BY <1>1, <2>6 DEF PollReady, Goto, Phases
  <2>7. CASE PollStuck(e)
    BY <1>1, <2>7 DEF PollStuck, Goto, Phases
  <2>8. CASE SkipOverBudget(e)
    BY <1>1, <2>8 DEF SkipOverBudget, Phases
  <2>9. CASE AbortOverBudget(e)
    BY <1>1, <2>9 DEF AbortOverBudget, Goto, Phases
  <2>10. CASE FailStuck(e)
    BY <1>1, <2>10 DEF FailStuck, Goto, Phases
  <2>11. CASE Dispatch(e)
    <3>1. PICK s \in todo[e] :
            /\ task' = [task EXCEPT ![e][s] = "queued"]
            /\ todo' = [todo EXCEPT ![e] = @ \ {s}]
            /\ Goto(e, IF todo[e] = {s} THEN "joining" ELSE "dispatching")
      BY <2>11, FirstOfSubset DEF Dispatch
    <3>2. ASSUME NEW d \in Executors, d # e
          PROVE  pc'[d] = pc[d] /\ todo'[d] = todo[d] /\ task'[d] = task[d]
      BY <1>1, <3>1, <3>2 DEF Goto
    <3>3. /\ todo'[e] = todo[e] \ {s}
          /\ pc'[e] = IF todo[e] = {s} THEN "joining" ELSE "dispatching"
      BY <1>1, <3>1 DEF Goto
    <3> QED
      BY <3>1, <3>2, <3>3 DEF Phases
  <2>12. CASE Join(e)
    BY <1>1, <2>12 DEF Join, Goto, Phases
  <2> QED
    BY <1>2, <2>1, <2>2, <2>3, <2>4, <2>5, <2>6, <2>7, <2>8, <2>9, <2>10, <2>11,
       <2>12 DEF ExecutorStep, Poll
<1>3. ASSUME NEW e \in Executors, NEW s \in StepId, TaskStep(e, s)
      PROVE  Phases'
  <2>1. UNCHANGED <<pc, todo>> /\ task[e][s] # "none"
    BY <1>3 DEF TaskStep, Acquire, Succeed, Fail, TimeOut, Report, Capture
  <2>2. \A d \in Executors, t \in StepId : task[d][t] = "none" => task'[d][t] = "none"
    BY <1>1, <1>3, <2>1
       DEF TaskStep, Acquire, Succeed, Fail, TimeOut, Report, Capture
  <2> QED
    BY <2>1, <2>2 DEF Phases
<1>4. CASE Abort \/ ReportUsage \/ UNCHANGED vars
  BY <1>4 DEF Abort, ReportUsage, vars, Phases
<1> QED
  BY <1>2, <1>3, <1>4 DEF Next

LEMMA PhasesInvariant == Spec => []Phases
<1>1. Init => Phases
  BY DEF Init, Phases
<1>2. Structure /\ Phases /\ [Next]_vars => Phases'
  BY PhasesStep
<1> QED
  BY <1>1, <1>2, StructureInvariant, PTL DEF Spec

(* Every running step has a task that will report on it.                   *)
Driven ==
    \A s \in StepId : run.st[s] = "running" => \E e \in Executors : InFlight(e, s)

LEMMA DrivenStep ==
    ASSUME Structure, Driven, [Next]_vars
    PROVE  Driven'
<1>1. /\ WellFormed(run) /\ run.st \in [StepId -> StepStatus]
      /\ task \in [Executors -> [StepId -> TaskState]]
      /\ todo \in [Executors -> SUBSET StepId]
      /\ \A e \in Executors : todo[e] \subseteq Steps(run)
      /\ Steps(run) \subseteq StepId
  BY FieldTypes DEF Structure, TypeOK, WellFormed
<1> DEFINE Still(s) == \A e \in Executors : InFlight(e, s) => InFlight(e, s)'
           Running(s) == run'.st[s] = "running" => run.st[s] = "running"
<1>2. ASSUME \A s \in StepId : Running(s), \A s \in StepId : Still(s)
      PROVE  Driven'
  BY <1>2 DEF Driven
<1>3. ASSUME NEW q, Grown(run, q)
      PROVE  \A s \in StepId : q.st[s] = "running" => run.st[s] = "running"
  BY <1>3 DEF Grown, MovesForward
<1>4. ASSUME NEW s \in Steps(run), NEW status \in StepStatus \cup {"keep"},
             NEW out \in Output
      PROVE  LET q == StepState(run, s, status, out) IN
             /\ \A t \in StepId : t # s /\ q.st[t] = "running" => run.st[t] = "running"
             /\ status \in {"done", "error", "skipped"} => q.st[s] # "running"
             /\ status = "keep" /\ q.st[s] = "running" => run.st[s] = "running"
  <2> DEFINE p == Patched(run, s, status, out)
             q == StepState(run, s, status, out)
  <2>0. WellFormed(run)
    BY <1>1
  <2>1. /\ p.st[s] = IF status = "keep" THEN run.st[s] ELSE status
        /\ \A t \in StepId : t # s => p.st[t] = run.st[t]
    BY <2>0, PatchedFields
  <2>2. Grown(p, q)
    BY <1>1, StepStateGrown
  <2> HIDE DEF p, q
  <2>3. s \in StepId /\ \A t \in StepId : q.st[t] = "running" => p.st[t] = "running"
    BY <1>1, <2>2 DEF Grown, MovesForward
  <2> QED
    BY <2>1, <2>3 DEF q
<1>5. ASSUME NEW e \in Executors, ExecutorStep(e)
      PROVE  Driven'
  <2>1. CASE Start(e)
    BY <1>1, <1>2, <1>3, <2>1, StartedGrown DEF Start, InFlight
  <2>2. CASE SkipOverBudget(e)
    <3>1. PICK s \in todo[e] : run' = StepState(run, s, "skipped", "none")
      BY <2>2, FirstOfSubset DEF SkipOverBudget
    <3>2. \A t \in StepId : Running(t)
      BY <1>1, <1>4, <3>1 DEF StepStatus, Output
    <3> QED
      BY <1>2, <2>2, <3>2 DEF SkipOverBudget, InFlight
  <2>3. CASE AbortOverBudget(e)
    BY <1>1, <1>2, <1>3, <2>3, AbortedGrown DEF AbortOverBudget, InFlight
  <2>4. CASE FailStuck(e)
    <3>1. UNCHANGED run \/ \E s \in todo[e] : run' = StepState(run, s, "error", "none")
      BY <2>4 DEF FailStuck
    <3>2. \A t \in StepId : Running(t)
      BY <1>1, <1>4, <3>1 DEF StepStatus, Output
    <3> QED
      BY <1>2, <2>4, <3>2 DEF FailStuck, InFlight
  <2>5. CASE Dispatch(e)
    <3>1. PICK s \in todo[e] : /\ run' = StepState(run, s, "running", "none")
                               /\ task' = [task EXCEPT ![e][s] = "queued"]
      BY <2>5, FirstOfSubset DEF Dispatch
    <3>2. s \in Steps(run) /\ s \in StepId
      BY <1>1
    <3>3. \A t \in StepId : t # s => Running(t)
      BY <1>4, <3>1, <3>2 DEF StepStatus, Output
    <3>4. \A t \in StepId : Still(t)
      BY <1>1, <3>1, <3>2 DEF InFlight
    <3>5. InFlight(e, s)'
      BY <1>1, <3>1, <3>2 DEF InFlight
    <3> QED
      BY <3>3, <3>4, <3>5 DEF Driven
  <2>6. CASE Enter(e) \/ Preload(e) \/ Poll(e) \/ Join(e)
    BY <1>2, <2>6 DEF Enter, Preload, Poll, PollEnded, PollOverBudget, PollReady,
                      PollStuck, Join, InFlight
  <2> QED
    BY <1>5, <2>1, <2>2, <2>3, <2>4, <2>5, <2>6 DEF ExecutorStep
<1>6. ASSUME NEW e \in Executors, NEW s \in StepId, TaskStep(e, s)
      PROVE  Driven'
  <2>1. ASSUME NEW status \in {"done", "error"}, NEW out \in Output,
               Report(e, s, status, out)
        PROVE  Driven'
    <3>1. /\ s \in Steps(run) /\ run' = StepState(run, s, status, out)
          /\ task' = [task EXCEPT ![e][s] = "reported"]
      BY <2>1 DEF Report, Structure
    <3>2. \A t \in StepId : Running(t) /\ ~(t = s /\ run'.st[t] = "running")
      BY <1>4, <3>1 DEF StepStatus
    <3>3. \A t \in StepId : t # s => Still(t)
      BY <1>1, <3>1 DEF InFlight
    <3> QED
      BY <3>2, <3>3 DEF Driven
  <2>2. CASE Acquire(e, s) \/ Capture(e, s)
    <3>1. UNCHANGED run /\ \A t \in StepId : Still(t)
      BY <1>1, <2>2 DEF Acquire, Capture, InFlight
    <3> QED
      BY <1>2, <3>1
  <2> QED
    BY <1>6, <2>1, <2>2 DEF TaskStep, Succeed, Fail, TimeOut, Output
<1>7. CASE Abort
  BY <1>1, <1>2, <1>3, <1>7, AbortedGrown DEF Abort, InFlight
<1>8. CASE ReportUsage
  <2>1. PICK s \in Steps(run) : run' = StepState(run, s, "keep", "none")
    BY <1>8 DEF ReportUsage
  <2>2. \A t \in StepId : Running(t)
    BY <1>4, <2>1 DEF Output
  <2> QED
    BY <1>2, <1>8, <2>2 DEF ReportUsage, InFlight
<1>9. CASE UNCHANGED vars
  BY <1>2, <1>9 DEF vars, InFlight
<1> QED
  BY <1>5, <1>6, <1>7, <1>8, <1>9 DEF Next

LEMMA DrivenInvariant == Spec => []Driven
<1>1. Init => Driven
  <2> SUFFICES ASSUME Init PROVE Driven
    OBVIOUS
  <2>1. PICK g \in Inputs : run = NewRun(g)
    BY DEF Init
  <2>2. \A s \in StepId : run.st[s] \in {"absent", "pending", "ready"}
    BY <2>1, InputsAssumption, NewRunWellFormed DEF GoodGraph
  <2> QED
    BY <2>2 DEF Driven
<1>2. Structure /\ Driven /\ [Next]_vars => Driven'
  BY DrivenStep
<1> QED
  BY <1>1, <1>2, StructureInvariant, PTL DEF Spec

(* At the top of the loop of a run's only executor no step is running: the *)
(* loop never sleeps and polls for a step that nobody drives, whatever     *)
(* aborts and late reports have done to the run meanwhile.                 *)
THEOREM NobodyPollsForEver ==
    ASSUME SoleExecutor
    PROVE  Spec => []NoPhantomRunning
<1>1. Structure /\ Phases /\ Driven => NoPhantomRunning
  <2> SUFFICES ASSUME Structure, Phases, Driven, NEW e \in Executors,
                      pc[e] = "polling", NEW s \in Steps(run), run.st[s] = "running"
               PROVE  FALSE
    BY DEF NoPhantomRunning, With
  <2>1. s \in StepId
    BY FieldTypes DEF Structure, WellFormed
  <2>2. InFlight(e, s)
    BY <2>1 DEF Driven, SoleExecutor
  <2> QED
    BY <2>1, <2>2 DEF Phases, InFlight
<1> QED
  BY <1>1, StructureInvariant, PhasesInvariant, DrivenInvariant, PTL

-----------------------------------------------------------------------------
(* What a sole executor is told, and tells the store, makes sense: only    *)
(* steps at work are reported done, with their parents done.               *)
LEMMA ReportSound ==
    ASSUME Structure, Order, NEW s \in Steps(run), NEW out,
           NEW status \in {"keep", "running", "done", "error", "skipped"},
           Reported(s, status, out)
    PROVE  /\ run.st[s] = "done" => status \in {"keep", "done"}
           /\ status = "done" => ParentsAll(run, s, {"done"}) /\ out # "none"
<1>1. s \in StepId
  BY FieldTypes DEF Structure, WellFormed
<1>2. \A e \in Executors : s \in todo[e] => run.st[s] # "done"
  BY DEF Order
<1>3. \A e \in Executors : task[e][s] = "running" =>
            run.st[s] # "done" /\ ParentsAll(run, s, {"done"})
  BY <1>1 DEF Order, InFlight
<1> QED
  BY <1>2, <1>3 DEF Reported

(* Before its executor has started, clients can only have aborted the run. *)
Untouched ==
    \/ run.status = "pending" /\ \A s \in Steps(run) : run.st[s] \in {"pending", "ready"}
    \/ run.status = "aborted" /\ \A s \in Steps(run) : run.st[s] = "skipped"

(* The results of steps mean what they say, and a failed step has ended    *)
(* its run.                                                                *)
Settling ==
    /\ Sound(run)
    /\ \A s \in StepId : run.st[s] = "error" => Ended(run)
    /\ \A e \in Executors : pc[e] \in {"idle", "checked"} => Untouched

LEMMA SoundStep ==
    ASSUME Structure, Order, Settling, [Next]_vars
    PROVE  Sound(run)' /\ \A s \in StepId : run'.st[s] = "error" => Ended(run')
<1>1. WellFormed(run) /\ Sound(run) /\ Steps(run) \subseteq StepId
  BY FieldTypes DEF Structure, Settling, WellFormed
<1>2. ASSUME NEW s \in Steps(run), NEW out \in Output,
             NEW status \in {"keep", "running", "done", "error", "skipped"},
             Reported(s, status, out)
      PROVE  Sound(run') /\ \A t \in StepId : run'.st[t] = "error" => Ended(run')
  <2>1. run' = StepState(run, s, status, out) /\ status \in StepStatus \cup {"keep"}
    BY <1>2 DEF Reported, StepStatus
  <2>2. Sound(run')
    BY <1>1, <1>2, <2>1, ReportSound, SoundKept
  <2>3. /\ Ended(run) => run'.status = run.status
        /\ (IF status = "keep" THEN run.st[s] ELSE status) = "error" => Ended(run')
    BY <1>1, <2>1, StepStateJudged
  <2>4. /\ MovesForward(IF status = "keep" THEN run.st[s] ELSE status, run'.st[s])
        /\ \A t \in StepId : t # s => MovesForward(run.st[t], run'.st[t])
    BY <1>1, <2>1, ReportMoves
  <2>5. ASSUME NEW t \in StepId, run'.st[t] = "error"
        PROVE  Ended(run')
    <3>1. CASE t = s
      BY <2>3, <2>4, <2>5, <3>1 DEF MovesForward
    <3>2. CASE t # s
      <4>1. run.st[t] = "error"
        BY <2>4, <2>5, <3>2 DEF MovesForward
      <4> QED
        BY <2>3, <4>1 DEF Settling, Ended
    <3> QED
      BY <3>1, <3>2
  <2> QED
    BY <2>2, <2>5
<1>3. CASE run' = Aborted(run)
  BY <1>1, <1>3, AbortedFacts DEF Ended, Final
<1>4. CASE run' = Started(run) /\ \E e \in Executors : pc[e] = "checked"
  <2>1. Untouched
    BY <1>4 DEF Settling
  <2>2. \A s \in StepId : s \notin Steps(run) => run.st[s] = "absent"
    BY <1>1, FieldTypes, BoundsAssumption DEF WellFormed, Steps, StepId
  <2>3. \A s \in StepId : run.st[s] # "error"
    BY <1>1, <2>1, <2>2 DEF Untouched
  <2>4. Sound(run') /\ run'.st = run.st
    BY <1>1, <1>4, StartedFacts
  <2> QED
    BY <2>3, <2>4
<1>5. CASE UNCHANGED run
  BY <1>1, <1>5 DEF Settling, Ended
<1> QED
  BY <1>2, <1>3, <1>4, <1>5, RunChange

LEMMA UntouchedStep ==
    ASSUME SoleExecutor, Structure, Order, Phases, Settling, [Next]_vars,
           NEW d \in Executors, pc'[d] \in {"idle", "checked"}
    PROVE  Untouched'
<1>1. /\ WellFormed(run) /\ Steps(run) \subseteq StepId
      /\ pc \in [Executors -> PC]
      /\ \A e \in Executors : e = d
  BY FieldTypes DEF Structure, WellFormed, TypeOK, SoleExecutor
<1>2. ASSUME NEW e \in Executors, ExecutorStep(e)
      PROVE  Untouched'
  <2>1. CASE Enter(e)
    BY <1>1, <2>1 DEF Enter, Settling, Untouched
  <2>2. CASE Start(e) \/ Preload(e) \/ Poll(e) \/ AbortOverBudget(e) \/ FailStuck(e)
                \/ Dispatch(e) \/ Join(e)
    <3>1. pc'[e] \notin {"idle", "checked"}
      BY <1>1, <2>2
         DEF Start, Preload, Poll, PollEnded, PollOverBudget, PollReady, PollStuck,
             AbortOverBudget, FailStuck, Dispatch, Join, Goto
    <3> QED
      BY <1>1, <3>1
  <2>3. CASE SkipOverBudget(e)
    BY <1>1, <2>3 DEF SkipOverBudget
  <2> QED
    BY <1>2, <2>1, <2>2, <2>3 DEF ExecutorStep
<1>3. ASSUME NEW e \in Executors, NEW s \in StepId, TaskStep(e, s)
      PROVE  FALSE
  <2>1. task[e][s] # "none" /\ pc'[e] = pc[e]
    BY <1>3 DEF TaskStep, Acquire, Succeed, Fail, TimeOut, Report, Capture
  <2> QED
    BY <1>1, <2>1 DEF Phases
<1>4. ASSUME UNCHANGED pc PROVE Untouched
  BY <1>4 DEF Settling
<1>5. CASE Abort
  <2>1. Untouched /\ run' = Aborted(run)
    BY <1>4, <1>5 DEF Abort
  <2>2. SameGraph(run, run') /\ run'.status = "aborted"
    BY <1>1, <2>1, AbortedFacts
  <2>3. \A t \in StepId :
            run'.st[t] = IF run.st[t] \in Sweepable THEN "skipped" ELSE run.st[t]
    BY <1>1, <2>1, AbortedFacts
  <2>4. Steps(run') = Steps(run)
    BY <2>2 DEF SameGraph, Steps
  <2> QED
    BY <1>1, <2>1, <2>2, <2>3, <2>4 DEF Untouched, Sweepable
<1>6. CASE ReportUsage
  <2>1. PICK s \in Steps(run) : run' = StepState(run, s, "keep", "none")
    BY <1>6 DEF ReportUsage
  <2>2. Untouched
    BY <1>4, <1>6 DEF ReportUsage
  <2>3. "keep" \in StepStatus \cup {"keep"} /\ "none" \in Output
    BY DEF Output
  <2>4. CASE run.status = "pending" /\ \A t \in Steps(run) : run.st[t] \in {"pending", "ready"}
    <3>1. /\ SameGraph(run, run') /\ run'.status = run.status
          /\ run'.st[s] = run.st[s]
          /\ \A t \in StepId : t # s => run'.st[t] = run.st[t]
      BY <1>1, <2>1, <2>3, <2>4, OnlyPatched
    <3>2. Steps(run') = Steps(run)
      BY <3>1 DEF SameGraph, Steps
    <3> QED
      BY <1>1, <2>4, <3>1, <3>2 DEF Untouched
  <2>5. CASE run.status = "aborted" /\ \A t \in Steps(run) : run.st[t] = "skipped"
    <3>1. Ended(run)
      BY <2>5 DEF Ended, Final
    <3>2. run'.status = run.status /\ SameGraph(run, run')
      BY <1>1, <2>1, <2>3, <3>1, StepStateJudged
    <3>3. \A t \in StepId : MovesForward(run.st[t], run'.st[t])
      BY <1>1, <2>1, <2>3, ReportMoves
    <3>4. Steps(run') = Steps(run)
      BY <3>2 DEF SameGraph, Steps
    <3> QED
      BY <1>1, <2>5, <3>2, <3>3, <3>4 DEF Untouched, MovesForward, Sweepable
  <2> QED
    BY <2>2, <2>4, <2>5 DEF Untouched
<1>7. CASE UNCHANGED vars
  BY <1>4, <1>7 DEF vars, Untouched
<1> QED
  BY <1>2, <1>3, <1>5, <1>6, <1>7 DEF Next

LEMMA SettlingInvariant ==
    ASSUME SoleExecutor
    PROVE  Spec => []Settling
<1>1. Init => Settling
  <2> SUFFICES ASSUME Init PROVE Settling
    OBVIOUS
  <2>1. PICK g \in Inputs : run = NewRun(g)
    BY DEF Init
  <2>2. GoodGraph(g)
    BY InputsAssumption DEF GoodGraph
  <2>3. /\ Sound(run) /\ run.status = "pending"
        /\ \A s \in Steps(run) : run.st[s] \in {"pending", "ready"}
    BY <2>1, <2>2, NewRunFacts
  <2>4. \A s \in StepId : run.st[s] \in {"absent", "pending", "ready"}
    BY <2>1, <2>2, NewRunWellFormed
  <2> QED
    BY <2>3, <2>4 DEF Settling, Untouched
<1>2. ASSUME Structure /\ Order, Phases, Settling, [Next]_vars
      PROVE  Settling'
  <2>1. Sound(run)' /\ \A s \in StepId : run'.st[s] = "error" => Ended(run')
    BY <1>2, SoundStep
  <2>2. \A e \in Executors : pc'[e] \in {"idle", "checked"} => Untouched'
    BY <1>2, UntouchedStep
  <2> QED
    BY <2>1, <2>2 DEF Settling
<1>3. Structure /\ Order /\ Phases /\ Settling /\ [Next]_vars => Settling'
  BY <1>2
<1> QED
  BY <1>1, <1>3, OrderInvariant, PhasesInvariant, PTL DEF Spec

-----------------------------------------------------------------------------
(* What an open run's executor has in hand is as it left it: its tasks'    *)
(* steps are running, those it is about to dispatch are ready, the step it *)
(* is about to give up has not been started.                               *)
AtWork ==
    \A e \in Executors :
        /\ \A s \in StepId : InFlight(e, s) => run.st[s] = "running"
        /\ pc[e] = "dispatching" => \A s \in todo[e] : run.st[s] = "ready"
        /\ pc[e] = "stuck" => \A s \in todo[e] : run.st[s] \in {"pending", "ready"}

(* An open run has skipped steps only while its executor drains the budget,*)
(* or because it was aborted before it was started.                        *)
SkipsOnlyAtEnd ==
    ~Ended(run) /\ With(run, "skipped") # {} =>
        \/ \E e \in Executors : pc[e] = "draining"
        \/ \A s \in Steps(run) : run.st[s] = "skipped"

(* The invariants of a sole executor found so far.                         *)
Known == Structure /\ Order /\ Phases /\ Settling

LEMMA KnownInvariant ==
    ASSUME SoleExecutor
    PROVE  Spec => []Known
<1>1. Structure /\ Order /\ Phases /\ Settling => Known
  BY DEF Known
<1> QED
  BY <1>1, OrderInvariant, PhasesInvariant, SettlingInvariant, PTL

LEMMA KnownTypes ==
    ASSUME Known
    PROVE  /\ Structure /\ Order /\ Phases /\ Settling /\ WellFormed(run)
           /\ Steps(run) \subseteq StepId
           /\ pc \in [Executors -> PC]
           /\ task \in [Executors -> [StepId -> TaskState]]
           /\ \A e \in Executors : todo[e] \subseteq Steps(run)
           /\ \A e \in Executors, s \in StepId : InFlight(e, s) => s \in Steps(run)
<1>1. Structure /\ Order /\ Phases /\ Settling /\ WellFormed(run)
  BY DEF Known, Structure
<1>2. Steps(run) \subseteq StepId
  BY <1>1, FieldTypes DEF WellFormed
<1> QED
  BY <1>1, <1>2 DEF Structure, TypeOK, InFlight

(* Steps in hand are spared by any report on another step.                 *)
LEMMA ReportSpares ==
    ASSUME Known, NEW s \in Steps(run), NEW out \in Output,
           NEW status \in {"keep", "running", "done", "error", "skipped"},
           Reported(s, status, out), run'.status # "error",
           NEW t \in Steps(run), t # s, ParentsAll(run, t, {"done"}),
           run.st[t] # "pending"
    PROVE  run'.st[t] = run.st[t]
<1>1. /\ run' = StepState(run, s, status, out) /\ status \in StepStatus \cup {"keep"}
  BY DEF Reported, StepStatus
<1>2. /\ run.st[s] = "done" => status \in {"keep", "done"}
      /\ status = "done" => ParentsAll(run, s, {"done"}) /\ out # "none"
  BY KnownTypes, ReportSound
<1>3. Sound(run) /\ WellFormed(run)
  BY KnownTypes DEF Settling
<1>4. Sound(Patched(run, s, status, out))
  BY <1>2, <1>3, SoundKept
<1> QED
  BY <1>1, <1>2, <1>3, <1>4, OthersSpared

LEMMA AtWorkStep ==
    ASSUME SoleExecutor, Known, SkipsOnlyAtEnd, ~Ended(run), AtWork, [Next]_vars,
           run'.status \notin {"error", "aborted"}
    PROVE  AtWork'
<1>1. /\ Order /\ Phases /\ WellFormed(run) /\ Steps(run) \subseteq StepId
      /\ pc \in [Executors -> PC] /\ todo \in [Executors -> SUBSET StepId]
      /\ task \in [Executors -> [StepId -> TaskState]]
      /\ \A e \in Executors : todo[e] \subseteq Steps(run)
      /\ \A e \in Executors, s \in StepId : InFlight(e, s) => s \in Steps(run)
      /\ \A d, e \in Executors : d = e
  BY KnownTypes DEF Structure, TypeOK, SoleExecutor
<1>2. ASSUME NEW e \in Executors, todo'[e] = {},
             \A s \in StepId : task'[e][s] = "none"
      PROVE  AtWork'
  BY <1>1, <1>2 DEF AtWork, InFlight
<1>3. ASSUME NEW e \in Executors, ExecutorStep(e)
      PROVE  AtWork'
  <2>1. CASE Enter(e) \/ Start(e) \/ Preload(e) \/ PollEnded(e) \/ Join(e)
    <3>1. todo'[e] = {} /\ \A s \in StepId : task'[e][s] = "none"
      BY <1>1, <2>1 DEF Phases, Enter, Start, Preload, PollEnded, Join
    <3> QED
      BY <1>2, <3>1
  <2>2. CASE PollOverBudget(e) \/ SkipOverBudget(e)
    <3>1. pc'[e] = "draining" /\ \A s \in StepId : task'[e][s] = "none"
      BY <1>1, <2>2 DEF Phases, PollOverBudget, SkipOverBudget, Goto
    <3> QED
      BY <1>1, <3>1 DEF AtWork, InFlight
  <2>3. CASE PollReady(e)
    <3>1. /\ pc'[e] = "dispatching" /\ todo'[e] = Ready(run) /\ UNCHANGED run
          /\ \A s \in StepId : task'[e][s] = "none"
      BY <1>1, <2>3 DEF Phases, PollReady, Goto
    <3>2. \A s \in Ready(run) : run.st[s] = "ready"
      BY <1>1 DEF Ready, With, Order
    <3> QED
      BY <1>1, <3>1, <3>2 DEF AtWork, InFlight
  <2>4. CASE PollStuck(e)
    <3>1. /\ pc'[e] = "stuck" /\ todo'[e] = FirstOf(With(run, "pending"))
          /\ UNCHANGED run /\ \A s \in StepId : task'[e][s] = "none"
      BY <1>1, <2>4 DEF Phases, PollStuck, Goto
    <3>2. \A s \in FirstOf(With(run, "pending")) : run.st[s] = "pending"
      BY DEF With, FirstOf
    <3> QED
      BY <1>1, <3>1, <3>2 DEF AtWork, InFlight
  <2>5. CASE AbortOverBudget(e)
    BY <1>1, <2>5, AbortedFacts DEF AbortOverBudget
  <2>6. CASE FailStuck(e)
    <3>1. todo'[e] = {} /\ \A s \in StepId : task'[e][s] = "none"
      BY <1>1, <2>6 DEF Phases, FailStuck
    <3> QED
      BY <1>2, <3>1
  <2>7. CASE Dispatch(e)
    <3>1. PICK s \in todo[e] :
            /\ run' = StepState(run, s, "running", "none")
            /\ task' = [task EXCEPT ![e][s] = "queued"]
            /\ todo' = [todo EXCEPT ![e] = @ \ {s}]
      BY <2>7, FirstOfSubset DEF Dispatch
    <3>2. s \in Steps(run) /\ s \in StepId
      BY <1>1
    <3>3. /\ run'.st[s] = "running"
          /\ \A t \in StepId : t # s => run'.st[t] = run.st[t]
      BY <1>1, <3>1, <3>2, OnlyPatched DEF StepStatus, Output
    <3>4. \A t \in todo'[e] : t # s /\ t \in todo[e] /\ t \in StepId
      BY <1>1, <3>1
    <3>5. \A t \in StepId : InFlight(e, t)' => t = s \/ InFlight(e, t)
      BY <1>1, <3>1, <3>2 DEF InFlight
    <3>6. pc'[e] # "stuck" /\ pc[e] = "dispatching"
      BY <1>1, <2>7 DEF Dispatch, Goto
    <3> QED
      BY <1>1, <3>3, <3>4, <3>5, <3>6 DEF AtWork
  <2> QED
    BY <1>3, <2>1, <2>2, <2>3, <2>4, <2>5, <2>6, <2>7 DEF ExecutorStep, Poll
<1>4. ASSUME NEW e \in Executors, NEW s \in StepId, TaskStep(e, s)
      PROVE  AtWork'
  <2>1. CASE Acquire(e, s) \/ Capture(e, s)
    <3>1. UNCHANGED <<run, pc, todo>> /\ \A t \in StepId : InFlight(e, t)' => InFlight(e, t)
      BY <1>1, <2>1 DEF Acquire, Capture, InFlight
    <3> QED
      BY <1>1, <3>1 DEF AtWork
  <2>2. ASSUME NEW status \in {"done", "error"}, NEW out \in Output,
               status = "done" => out # "none", Report(e, s, status, out)
        PROVE  AtWork'
    <3>1. /\ UNCHANGED <<pc, todo>> /\ run' = StepState(run, s, status, out)
          /\ task' = [task EXCEPT ![e][s] = "reported"]
          /\ InFlight(e, s) /\ s \in Steps(run)
          /\ status \in {"keep", "running", "done", "error", "skipped"}
      BY <1>1, <2>2 DEF Report, InFlight
    <3>2. Reported(s, status, out)
      BY <2>2, <3>1 DEF Reported, Report
    <3>3. ASSUME NEW t \in Steps(run), t # s, ParentsAll(run, t, {"done"}),
                 run.st[t] # "pending"
          PROVE  run'.st[t] = run.st[t]
      BY <3>1, <3>2, <3>3, ReportSpares
    <3>4. ASSUME NEW t \in StepId, InFlight(e, t)'
          PROVE  run'.st[t] = "running"
      <4>1. t # s /\ InFlight(e, t)
        BY <1>1, <3>1, <3>4 DEF InFlight
      <4> QED
        BY <1>1, <3>3, <4>1 DEF AtWork, Order
    <3>5. ASSUME pc[e] = "dispatching", NEW t \in todo[e]
          PROVE  run'.st[t] = "ready"
      BY <1>1, <3>1, <3>3, <3>5 DEF AtWork, Order
    <3>6. pc[e] # "stuck"
      BY <3>1 DEF InFlight, Known, Phases
    <3> QED
      BY <1>1, <3>1, <3>4, <3>5, <3>6 DEF AtWork
  <2> QED
    BY <1>4, <2>1, <2>2 DEF TaskStep, Succeed, Fail, TimeOut, Output
<1>5. CASE Abort
  BY <1>1, <1>5, AbortedFacts DEF Abort
<1>6. CASE ReportUsage
  <2>1. PICK s \in Steps(run) : run' = StepState(run, s, "keep", "none")
    BY <1>6 DEF ReportUsage
  <2>2. /\ UNCHANGED <<pc, todo, task>> /\ Reported(s, "keep", "none")
        /\ "none" \in Output /\ "keep" \in StepStatus \cup {"keep"}
    BY <1>6, <2>1 DEF ReportUsage, Reported, Output
  <2>3. ASSUME NEW t \in Steps(run), ParentsAll(run, t, {"done"}),
               run.st[t] \in {"running", "ready"}
        PROVE  run'.st[t] = run.st[t]
    <3>1. CASE t = s
      BY <1>1, <2>1, <2>2, <2>3, <3>1, OnlyPatched
    <3>2. CASE t # s
      BY <2>2, <2>3, <3>2, ReportSpares
    <3> QED
      BY <3>1, <3>2
  <2>4. ASSUME NEW e \in Executors, pc[e] = "stuck", NEW t \in todo[e]
        PROVE  run'.st[t] \in {"pending", "ready"}
    <3>1. t \in Steps(run) /\ run.st[t] \in {"pending", "ready"}
      BY <1>1, <2>4 DEF AtWork
    <3>2. CASE t = s
      BY <1>1, <2>1, <2>2, <3>1, <3>2, OnlyPatched
    <3>3. CASE t # s
      <4>1. run.st[s] # "error"
        BY <1>1 DEF Known, Settling
      <4>2. run.st[s] # "skipped"
        <5>1. \A d \in Executors : pc[d] # "draining"
          BY <1>1, <2>4
        <5> QED
          BY <3>1, <5>1 DEF SkipsOnlyAtEnd, With
      <4> QED
        BY <1>1, <2>1, <2>2, <3>1, <3>3, <4>1, <4>2, OnlyPromoted
    <3> QED
      BY <3>2, <3>3
  <2>5. \A e \in Executors, t \in StepId :
            InFlight(e, t) => /\ t \in Steps(run) /\ ParentsAll(run, t, {"done"})
                              /\ run.st[t] = "running"
    BY <1>1 DEF AtWork, Order
  <2>6. \A e \in Executors : pc[e] = "dispatching" => \A t \in todo[e] :
            t \in Steps(run) /\ ParentsAll(run, t, {"done"}) /\ run.st[t] = "ready"
    BY <1>1 DEF AtWork, Order
  <2>7. \A e \in Executors, t \in StepId : InFlight(e, t)' => InFlight(e, t)
    BY <2>2 DEF InFlight
  <2> QED
    BY <2>2, <2>3, <2>4, <2>5, <2>6, <2>7 DEF AtWork
<1>7. CASE UNCHANGED vars
  BY <1>7 DEF vars, AtWork, InFlight
<1> QED
  BY <1>3, <1>4, <1>5, <1>6, <1>7 DEF Next

(* A sole executor that has seen the run not terminal, and not started it, *)
(* has nothing in hand before the step and nothing after it.               *)
LEMMA CheckedHandsEmpty ==
    ASSUME SoleExecutor, Known, [Next]_vars, NEW d \in Executors, pc[d] = "checked",
           NEW e \in Executors
    PROVE  todo'[e] = {} /\ \A s \in StepId : task'[e][s] = "none"
<1>1. /\ e = d /\ todo[e] = {} /\ \A s \in StepId : task[e][s] = "none"
      /\ \A c \in Executors : c = e
  BY DEF SoleExecutor, Known, Phases
<1>2. ASSUME NEW c \in Executors, ExecutorStep(c)
      PROVE  UNCHANGED <<todo, task>>
  <2>1. c = d /\ pc[c] = "checked"
    BY <1>1
  <2> QED
    BY <1>2, <2>1
       DEF ExecutorStep, Enter, Start, Preload, Poll, PollEnded, PollOverBudget,
           PollReady, PollStuck, SkipOverBudget, AbortOverBudget, FailStuck, Dispatch,
           Join
<1>3. ASSUME NEW c \in Executors, NEW s \in StepId, TaskStep(c, s)
      PROVE  FALSE
  <2>1. task[c][s] # "none"
    BY <1>3 DEF TaskStep, Acquire, Succeed, Fail, TimeOut, Report, Capture
  <2> QED
    BY <1>1, <2>1
<1>4. CASE Abort \/ ReportUsage \/ UNCHANGED vars
  BY <1>1, <1>4 DEF Abort, ReportUsage, vars
<1> QED
  BY <1>1, <1>2, <1>3, <1>4 DEF Next

(* Draining ends with the abort of the run.                                *)
LEMMA DrainsToTheEnd ==
    ASSUME Known, [Next]_vars, NEW d \in Executors, pc[d] = "draining"
    PROVE  pc'[d] = "draining" \/ run'.status = "aborted"
<1>1. pc \in [Executors -> PC] /\ WellFormed(run)
  BY KnownTypes
<1>2. ASSUME NEW e \in Executors, ExecutorStep(e)
      PROVE  pc'[d] = "draining" \/ run'.status = "aborted"
  <2>1. CASE e # d
    BY <1>1, <1>2, <2>1
       DEF ExecutorStep, Enter, Start, Preload, Poll, PollEnded, PollOverBudget,
           PollReady, PollStuck, SkipOverBudget, AbortOverBudget, FailStuck, Dispatch,
           Join, Goto
  <2>2. CASE e = d
    <3>1. SkipOverBudget(d) \/ AbortOverBudget(d)
      BY <1>2, <2>2
         DEF ExecutorStep, Enter, Start, Preload, Poll, PollEnded, PollOverBudget,
             PollReady, PollStuck, FailStuck, Dispatch, Join
    <3> QED
      BY <1>1, <3>1, AbortedFacts DEF SkipOverBudget, AbortOverBudget
  <2> QED
    BY <2>1, <2>2
<1>3. ASSUME NEW e \in Executors, NEW s \in StepId, TaskStep(e, s)
      PROVE  pc' = pc
  BY <1>3 DEF TaskStep, Acquire, Succeed, Fail, TimeOut, Report, Capture
<1>4. CASE Abort \/ ReportUsage \/ UNCHANGED vars
  BY <1>4 DEF Abort, ReportUsage, vars
<1> QED
  BY <1>2, <1>3, <1>4 DEF Next

LEMMA SkipsStep ==
    ASSUME SoleExecutor, Known, SkipsOnlyAtEnd, ~Ended(run) => AtWork, [Next]_vars
    PROVE  SkipsOnlyAtEnd'
<1>1. /\ Structure /\ Order /\ Phases /\ Settling /\ WellFormed(run)
      /\ Steps(run) \subseteq StepId
      /\ \A e \in Executors, s \in StepId : InFlight(e, s) => s \in Steps(run)
  BY KnownTypes
<1> DEFINE Draining == \E e \in Executors : pc[e] = "draining"
           AllSkipped == \A t \in Steps(run) : run.st[t] = "skipped"
<1>2. ASSUME Draining PROVE SkipsOnlyAtEnd'
  BY <1>2, DrainsToTheEnd DEF SkipsOnlyAtEnd, Ended, Final
<1>3. ASSUME NEW s \in Steps(run), NEW out \in Output,
             NEW status \in {"keep", "running", "done", "error", "skipped"},
             Reported(s, status, out)
      PROVE  SkipsOnlyAtEnd'
  <2> SUFFICES ASSUME ~Ended(run'), ~Draining,
                      NEW t \in Steps(run'), run'.st[t] = "skipped"
               PROVE  \A u \in Steps(run') : run'.st[u] = "skipped"
    BY <1>2 DEF SkipsOnlyAtEnd, With
  <2> DEFINE given == IF status = "keep" THEN run.st[s] ELSE status
  <2>1. run' = StepState(run, s, status, out) /\ status \in StepStatus \cup {"keep"}
    BY <1>3 DEF Reported, StepStatus
  <2>2. /\ Ended(run) => run'.status = run.status
        /\ given = "error" => Ended(run')
        /\ given = "done" => t \in Steps(run) /\ run.st[t] = "skipped"
        /\ given # "done" => SameGraph(run, run')
    BY <1>1, <2>1, StepStateJudged
  <2>3. ~Ended(run) /\ given # "error"
    BY <2>2 DEF Ended
  <2>4. status # "skipped"
    BY <1>3 DEF Reported
  <2>5. given # "skipped" => run.st[t] = "skipped" /\ t \in Steps(run)
    <3>1. CASE given = "done"
      BY <2>2, <3>1
    <3>2. CASE given \notin {"done", "skipped"}
      <4>1. /\ SameGraph(run, run') /\ run'.st[s] = given
            /\ \A u \in StepId : u # s => run'.st[u] = run.st[u]
        BY <1>1, <2>1, <2>3, <3>2, OnlyPatched
      <4> QED
        BY <1>1, <3>2, <4>1 DEF SameGraph, Steps
    <3> QED
      BY <3>1, <3>2
  <2>6. With(run, "skipped") # {}
    BY <2>4, <2>5 DEF With
  <2>7. AllSkipped
    BY <2>3, <2>6 DEF SkipsOnlyAtEnd
  <2>8. status = "keep"
    <3>1. \A e \in Executors : s \in todo[e] => pc[e] \notin {"dispatching", "stuck"}
      BY <1>1, <2>3, <2>7 DEF AtWork
    <3>2. \A e \in Executors : task[e][s] # "running"
      BY <1>1, <2>3, <2>7 DEF AtWork, InFlight
    <3> QED
      BY <1>3, <2>4, <3>1, <3>2 DEF Reported
  <2>9. given = "skipped" /\ SameGraph(run, run')
    BY <2>2, <2>7, <2>8
  <2>10. /\ MovesForward(given, run'.st[s])
         /\ \A u \in StepId : u # s => MovesForward(run.st[u], run'.st[u])
    BY <1>1, <2>1, ReportMoves
  <2>11. Steps(run') = Steps(run)
    BY <2>9 DEF SameGraph, Steps
  <2> QED
    BY <1>1, <2>7, <2>9, <2>10, <2>11 DEF MovesForward, Sweepable
<1>4. CASE run' = Aborted(run)
  BY <1>1, <1>4, AbortedFacts DEF SkipsOnlyAtEnd, Ended, Final
<1>5. CASE run' = Started(run) /\ \E e \in Executors : pc[e] = "checked"
  <2>1. Untouched
    BY <1>1, <1>5 DEF Settling
  <2>2. run'.st = run.st /\ Steps(run') = Steps(run)
    BY <1>1, <1>5, StartedFacts DEF SameGraph, Steps
  <2> QED
    BY <2>1, <2>2 DEF Untouched, SkipsOnlyAtEnd, With
<1>6. CASE UNCHANGED run
  BY <1>2, <1>6 DEF SkipsOnlyAtEnd
<1> QED
  BY <1>1, <1>3, <1>4, <1>5, <1>6, RunChange

(* "done" is the truth, and stays it: a run is done only once nothing is   *)
(* at work, and nothing is put to work on a run that is done.              *)
DoneTruth ==
    run.status = "done" =>
        /\ AllFinished(run)
        /\ \A e \in Executors : /\ \A s \in StepId : ~InFlight(e, s)
                                /\ pc[e] # "draining" => todo[e] = {}

LEMMA NewlyDone ==
    ASSUME Structure', Phases', AtWork', AllFinished(run')
    PROVE  DoneTruth'
<1>1. /\ \A e \in Executors : todo'[e] \subseteq Steps(run')
      /\ \A e \in Executors, s \in StepId : InFlight(e, s)' => s \in Steps(run')
  BY DEF Structure, InFlight
<1>2. \A t \in Steps(run') : run'.st[t] \in {"done", "skipped"}
  BY DEF AllFinished
<1>3. ASSUME NEW e \in Executors, NEW s \in StepId, InFlight(e, s)'
      PROVE  FALSE
  BY <1>1, <1>2, <1>3 DEF AtWork
<1>4. ASSUME NEW e \in Executors, pc'[e] # "draining", todo'[e] # {}
      PROVE  FALSE
  <2>1. pc'[e] \in {"dispatching", "stuck"}
    BY <1>4 DEF Phases
  <2> QED
    BY <1>1, <1>2, <1>4, <2>1 DEF AtWork
<1> QED
  BY <1>3, <1>4 DEF DoneTruth

LEMMA StillDone ==
    ASSUME Known, DoneTruth, run.status = "done", run'.status = "done", [Next]_vars
    PROVE  DoneTruth'
<1>1. /\ Order /\ Phases /\ WellFormed(run) /\ Structure
      /\ Steps(run) \subseteq StepId
      /\ pc \in [Executors -> PC] /\ todo \in [Executors -> SUBSET StepId]
      /\ task \in [Executors -> [StepId -> TaskState]]
  BY KnownTypes DEF Structure, TypeOK
<1>2. /\ Ended(run) /\ \A t \in Steps(run) : run.st[t] \in {"done", "skipped"}
      /\ \A e \in Executors : /\ \A s \in StepId : ~InFlight(e, s)
                              /\ pc[e] # "draining" => todo[e] = {}
  BY DEF DoneTruth, AllFinished, Ended, Final
<1>3. AllFinished(run')
  <2>1. ASSUME NEW s \in Steps(run), NEW out \in Output,
               NEW status \in {"keep", "running", "done", "error", "skipped"},
               Reported(s, status, out)
        PROVE  AllFinished(run')
    <3>1. run' = StepState(run, s, status, out) /\ status \in StepStatus \cup {"keep"}
      BY <2>1 DEF Reported, StepStatus
    <3>2. status \in {"keep", "skipped"}
      <4>1. \A e \in Executors : task[e][s] # "running"
        BY <1>1, <1>2 DEF InFlight
      <4>2. \A e \in Executors : s \in todo[e] => pc[e] \notin {"dispatching", "stuck"}
        BY <1>2
      <4> QED
        BY <2>1, <4>1, <4>2 DEF Reported
    <3>3. SameGraph(run, run')
      BY <1>1, <1>2, <3>1, StepStateJudged
    <3>4. /\ MovesForward(IF status = "keep" THEN run.st[s] ELSE status, run'.st[s])
          /\ \A t \in StepId : t # s => MovesForward(run.st[t], run'.st[t])
      BY <1>1, <3>1, ReportMoves
    <3>5. Steps(run') = Steps(run)
      BY <3>3 DEF SameGraph, Steps
    <3> QED
      BY <1>1, <1>2, <3>2, <3>4, <3>5 DEF AllFinished, MovesForward, Sweepable
  <2>2. run' # Aborted(run) /\ run' # Started(run)
    BY <1>1, AbortedFacts, StartedFacts
  <2> QED
    BY <1>1, <2>1, <2>2, RunChange DEF DoneTruth
<1>4. ASSUME NEW d \in Executors
      PROVE  /\ \A s \in StepId : task'[d][s] \notin {"queued", "running"}
             /\ pc'[d] # "draining" => todo'[d] = {}
  <2>1. ASSUME NEW e \in Executors, ExecutorStep(e)
        PROVE  /\ UNCHANGED task
               /\ pc'[d] # "draining" => todo'[d] = {}
    <3>1. CASE Enter(e) \/ Start(e) \/ Preload(e) \/ PollEnded(e) \/ Join(e)
      <4>1. UNCHANGED <<todo, task>> /\ (pc'[d] = pc[d] \/ (d = e /\ pc[d] # "draining"))
        BY <1>1, <3>1 DEF Enter, Start, Preload, PollEnded, Join, Goto
      <4> QED
        BY <1>2, <4>1
    <3>2. CASE PollOverBudget(e) \/ PollReady(e) \/ PollStuck(e)
      BY <1>2, <3>2 DEF PollOverBudget, PollReady, PollStuck
    <3>3. CASE SkipOverBudget(e)
      <4>1. UNCHANGED <<pc, task>> /\ todo'[d] \subseteq todo[d]
        BY <1>1, <3>3 DEF SkipOverBudget
      <4> QED
        BY <1>2, <4>1
    <3>4. CASE AbortOverBudget(e)
      BY <1>1, <3>4, AbortedFacts DEF AbortOverBudget
    <3>5. CASE FailStuck(e)
      <4>1. /\ UNCHANGED task /\ todo'[d] = IF d = e THEN {} ELSE todo[d]
            /\ d # e => pc'[d] = pc[d]
        BY <1>1, <3>5 DEF FailStuck, Goto
      <4> QED
        BY <1>2, <4>1
    <3>6. CASE Dispatch(e)
      BY <1>2, <3>6, FirstOfSubset DEF Dispatch
    <3> QED
      BY <2>1, <3>1, <3>2, <3>3, <3>4, <3>5, <3>6 DEF ExecutorStep, Poll
  <2>2. ASSUME NEW e \in Executors, NEW s \in StepId, TaskStep(e, s)
        PROVE  /\ UNCHANGED <<pc, todo>>
               /\ \A t \in StepId : task'[d][t] \notin {"queued", "running"}
    <3>1. task[e][s] = "reported" /\ task' = [task EXCEPT ![e][s] = "none"]
          /\ UNCHANGED <<pc, todo>>
      BY <1>2, <2>2 DEF TaskStep, Acquire, Succeed, Fail, TimeOut, Report, Capture, InFlight
    <3> QED
      BY <1>1, <1>2, <3>1 DEF InFlight
  <2>3. Abort \/ ReportUsage \/ UNCHANGED vars => UNCHANGED <<pc, todo, task>>
    BY DEF Abort, ReportUsage, vars
  <2>4. UNCHANGED task => \A s \in StepId : task'[d][s] \notin {"queued", "running"}
    BY <1>2 DEF InFlight
  <2>5. UNCHANGED <<pc, todo>> => (pc'[d] # "draining" => todo'[d] = {})
    BY <1>2
  <2> QED
    BY <2>1, <2>2, <2>3, <2>4, <2>5 DEF Next
<1> QED
  BY <1>3, <1>4 DEF DoneTruth, InFlight

LEMMA ErrorTruthStep ==
    ASSUME Known, run.status = "error" => With(run, "error") # {}, [Next]_vars,
           run'.status = "error"
    PROVE  With(run', "error") # {}
<1>1. /\ Order /\ WellFormed(run) /\ Steps(run) \subseteq StepId
  BY KnownTypes
<1>2. ASSUME NEW s \in Steps(run), NEW out \in Output,
             NEW status \in {"keep", "running", "done", "error", "skipped"},
             Reported(s, status, out)
      PROVE  With(run', "error") # {}
  <2>1. run' = StepState(run, s, status, out) /\ status \in StepStatus \cup {"keep"}
    BY <1>2 DEF Reported, StepStatus
  <2>2. /\ Ended(run) => run'.status = run.status
        /\ ~Ended(run) => run'.st[s] = "error"
    BY <1>1, <2>1, StepStateJudged
  <2>3. /\ MovesForward(IF status = "keep" THEN run.st[s] ELSE status, run'.st[s])
        /\ \A t \in StepId : t # s => MovesForward(run.st[t], run'.st[t])
        /\ Steps(run) \subseteq Steps(run')
    BY <1>1, <2>1, ReportMoves
  <2>4. CASE ~Ended(run)
    BY <2>2, <2>3, <2>4 DEF With
  <2>5. CASE Ended(run)
    <3>1. PICK t \in Steps(run) : run.st[t] = "error"
      BY <2>2, <2>5 DEF With
    <3>2. t = s => status = "keep"
      <4>1. \A e \in Executors : s \in todo[e] => run.st[s] # "error"
        BY <1>1 DEF Order
      <4>2. \A e \in Executors : task[e][s] = "running" => run.st[s] # "error"
        BY <1>1 DEF Order, InFlight
      <4> QED
        BY <1>2, <3>1, <4>1, <4>2 DEF Reported
    <3>3. run'.st[t] = "error"
      BY <1>1, <2>3, <3>1, <3>2 DEF MovesForward, Sweepable
    <3> QED
      BY <2>3, <3>1, <3>3 DEF With
  <2> QED
    BY <2>4, <2>5
<1>3. run' # Aborted(run) /\ run' # Started(run)
  BY <1>1, AbortedFacts, StartedFacts
<1>4. CASE UNCHANGED run
  BY <1>4
<1>5. Structure
  BY DEF Known
<1> QED
  BY <1>2, <1>3, <1>4, <1>5, RunChange

(* The verdict on a run, and what it leaves of the work in hand.           *)
Verdict ==
    /\ ~Ended(run) => AtWork
    /\ SkipsOnlyAtEnd
    /\ DoneTruth
    /\ run.status = "error" => With(run, "error") # {}

LEMMA VerdictStep ==
    ASSUME SoleExecutor, Known, Structure', Phases', Verdict, [Next]_vars
    PROVE  Verdict'
<1>1. WellFormed(run) /\ Structure
  BY KnownTypes
<1>2. ASSUME ~Ended(run') PROVE AtWork'
  <2>1. CASE ~Ended(run)
    BY <1>2, <2>1, AtWorkStep DEF Verdict, Ended, Final
  <2>2. CASE Ended(run)
    <3>1. ASSUME \A e \in Executors : pc[e] # "checked" PROVE FALSE
      <4>1. ASSUME NEW s \in Steps(run), NEW out \in Output,
                   NEW status \in {"keep", "running", "done", "error", "skipped"},
                   Reported(s, status, out)
            PROVE  FALSE
        <5>1. run' = StepState(run, s, status, out) /\ status \in StepStatus \cup {"keep"}
          BY <4>1 DEF Reported, StepStatus
        <5>2. run'.status = run.status
          BY <1>1, <2>2, <5>1, StepStateJudged
        <5> QED
          BY <1>2, <2>2, <5>2 DEF Ended
      <4>2. run' # Aborted(run) /\ run' # run
        BY <1>1, <1>2, <2>2, AbortedFacts DEF Ended, Final
      <4> QED
        BY <1>1, <3>1, <4>1, <4>2, RunChange
    <3>2. PICK d \in Executors : pc[d] = "checked"
      BY <3>1
    <3>3. \A e \in Executors : todo'[e] = {} /\ \A s \in StepId : task'[e][s] = "none"
      BY <3>2, CheckedHandsEmpty
    <3> QED
      BY <3>3 DEF AtWork, InFlight
  <2> QED
    BY <2>1, <2>2
<1>3. SkipsOnlyAtEnd'
  BY SkipsStep DEF Verdict
<1>4. ASSUME run'.status = "done" PROVE DoneTruth'
  <2>1. CASE run.status = "done"
    BY <1>4, <2>1, StillDone DEF Verdict
  <2>2. CASE run.status # "done"
    <3>1. ASSUME NEW s \in Steps(run), NEW out \in Output,
                 NEW status \in {"keep", "running", "done", "error", "skipped"},
                 Reported(s, status, out)
          PROVE  ~Ended(run) /\ AllFinished(run')
      <4>1. run' = StepState(run, s, status, out) /\ status \in StepStatus \cup {"keep"}
        BY <3>1 DEF Reported, StepStatus
      <4> QED
        BY <1>1, <1>4, <2>2, <4>1, StepStateJudged
    <3>2. run' # Aborted(run) /\ run' # Started(run) /\ run' # run
      BY <1>1, <1>4, <2>2, AbortedFacts, StartedFacts
    <3>3. ~Ended(run) /\ AllFinished(run')
      BY <1>1, <3>1, <3>2, RunChange
    <3>4. AtWork'
      BY <1>4, <3>3, AtWorkStep DEF Verdict
    <3> QED
      BY <3>3, <3>4, NewlyDone
  <2> QED
    BY <2>1, <2>2
<1>5. run'.status = "error" => With(run', "error") # {}
  BY ErrorTruthStep DEF Verdict
<1> QED
  BY <1>2, <1>3, <1>4, <1>5 DEF Verdict, DoneTruth

LEMMA VerdictInvariant ==
    ASSUME SoleExecutor
    PROVE  Spec => []Verdict
<1>1. Init => Verdict
  <2> SUFFICES ASSUME Init PROVE Verdict
    OBVIOUS
  <2>1. PICK g \in Inputs : run = NewRun(g)
    BY DEF Init
  <2>2. GoodGraph(g)
    BY InputsAssumption DEF GoodGraph
  <2>3. /\ run.status = "pending"
        /\ \A s \in Steps(run) : run.st[s] \in {"pending", "ready"}
    BY <2>1, <2>2, NewRunFacts
  <2> QED
    BY <2>3 DEF Init, Verdict, AtWork, InFlight, SkipsOnlyAtEnd, With, DoneTruth
<1>2. ASSUME Known, Known', Verdict, [Next]_vars
      PROVE  Verdict'
  BY <1>2, VerdictStep DEF Known
<1>3. Known /\ Known' /\ Verdict /\ [Next]_vars => Verdict'
  BY <1>2
<1> QED
  BY <1>1, <1>3, KnownInvariant, PTL DEF Spec

(* The verdict is the truth, for a run only one executor drives: a "done"  *)
(* run has every step done or skipped and no subagent at work, an "error"  *)
(* run has a failed step, whatever aborts and late reports came between.   *)
THEOREM TheVerdictIsTrue ==
    ASSUME SoleExecutor
    PROVE  Spec => []TruthfulOutcome
<1>1. Verdict => TruthfulOutcome
  BY DEF Verdict, DoneTruth, TruthfulOutcome
<1> QED
  BY <1>1, VerdictInvariant, PTL

-----------------------------------------------------------------------------
(* Steps keep their parents, and only a task makes its step done.          *)
LEMMA OnlyTasksFinish ==
    ASSUME Known, [Next]_vars
    PROVE  /\ Steps(run) \subseteq Steps(run')
           /\ \A t \in Steps(run) : run'.par[t] = run.par[t]
           /\ \A t \in StepId : run'.st[t] = "done" =>
                run.st[t] = "done" \/ \E e \in Executors : task[e][t] = "running"
<1>1. Structure /\ WellFormed(run)
  BY KnownTypes
<1> DEFINE Goal == /\ Steps(run) \subseteq Steps(run')
                   /\ \A t \in Steps(run) : run'.par[t] = run.par[t]
                   /\ \A t \in StepId : run'.st[t] = "done" =>
                        run.st[t] = "done" \/ \E e \in Executors : task[e][t] = "running"
<1>2. ASSUME NEW s \in Steps(run), NEW out \in Output,
             NEW status \in {"keep", "running", "done", "error", "skipped"},
             Reported(s, status, out)
      PROVE  Goal
  <2>1. run' = StepState(run, s, status, out) /\ status \in StepStatus \cup {"keep"}
    BY <1>2 DEF Reported, StepStatus
  <2>2. /\ MovesForward(IF status = "keep" THEN run.st[s] ELSE status, run'.st[s])
        /\ \A t \in StepId : t # s => MovesForward(run.st[t], run'.st[t])
        /\ Steps(run) \subseteq Steps(run')
        /\ \A t \in Steps(run) : run'.par[t] = run.par[t]
    BY <1>1, <2>1, ReportMoves
  <2>3. status = "done" => \E e \in Executors : task[e][s] = "running"
    BY <1>2 DEF Reported
  <2> QED
    BY <2>2, <2>3 DEF MovesForward
<1>3. CASE run' = Aborted(run)
  <2>1. /\ SameGraph(run, run')
        /\ \A t \in StepId :
            run'.st[t] = IF run.st[t] \in Sweepable THEN "skipped" ELSE run.st[t]
    BY <1>1, <1>3, AbortedFacts
  <2> QED
    BY <2>1 DEF SameGraph, Steps
<1>4. CASE run' = Started(run)
  BY <1>1, <1>4, StartedFacts DEF SameGraph, Steps
<1>5. CASE UNCHANGED run
  BY <1>5
<1> QED
  BY <1>1, <1>2, <1>3, <1>4, <1>5, RunChange

(* Whatever a step at work, or about to be, builds on is on the bus.       *)
OnBus ==
    \A e \in Executors :
        /\ pc[e] = "polling" => With(run, "done") \subseteq bus
        /\ pc[e] = "dispatching" => \A s \in todo[e] : run.par[s] \subseteq bus
        /\ \A s \in StepId : InFlight(e, s) => run.par[s] \subseteq bus

LEMMA OnBusStep ==
    ASSUME SoleExecutor, Known, Phases', OnBus, [Next]_vars
    PROVE  OnBus'
<1>1. /\ Order /\ Phases /\ Settling /\ WellFormed(run) /\ Steps(run) \subseteq StepId
      /\ pc \in [Executors -> PC] /\ todo \in [Executors -> SUBSET StepId]
      /\ task \in [Executors -> [StepId -> TaskState]]
      /\ \A e \in Executors : todo[e] \subseteq Steps(run)
      /\ \A e \in Executors, s \in StepId : InFlight(e, s) => s \in Steps(run)
      /\ \A d, e \in Executors : d = e
  BY KnownTypes DEF Structure, TypeOK, SoleExecutor
<1>2. /\ \A t \in Steps(run) : run'.par[t] = run.par[t]
      /\ \A t \in StepId : run'.st[t] = "done" =>
            run.st[t] = "done" \/ \E e \in Executors : task[e][t] = "running"
  BY OnlyTasksFinish
<1>3. ASSUME UNCHANGED pc, bus \subseteq bus',
             \A e \in Executors : todo'[e] \subseteq todo[e],
             \A e \in Executors, s \in StepId : InFlight(e, s)' => InFlight(e, s)
      PROVE  OnBus'
  <2>1. ASSUME NEW e \in Executors, pc[e] = "polling"
        PROVE  With(run', "done") \subseteq bus'
    <3>1. \A s \in StepId : task[e][s] = "none"
      BY <1>1, <2>1 DEF Phases
    <3>2. ASSUME NEW t \in Steps(run'), run'.st[t] = "done"
          PROVE  t \in With(run, "done")
      <4>1. t \in StepId
        BY RunStep, FieldTypes DEF Known, WellFormed
      <4>2. run.st[t] = "done"
        BY <1>1, <1>2, <3>1, <3>2, <4>1
      <4>3. WellFormed(run)
        BY <1>1
      <4>4. t \in Steps(run)
        BY <4>1, <4>2, <4>3, FieldTypes, BoundsAssumption DEF WellFormed, Steps, StepId
      <4> QED
        BY <4>2, <4>4 DEF With
    <3> QED
      BY <1>3, <2>1, <3>2 DEF With, OnBus
  <2> QED
    BY <1>1, <1>2, <1>3, <2>1 DEF OnBus
<1>4. ASSUME NEW e \in Executors, pc'[e] \notin {"polling", "dispatching", "joining"}
      PROVE  OnBus'
  BY <1>1, <1>4 DEF OnBus, Phases, InFlight
<1>5. With(run, "done") \subseteq WithOutput(run)
  BY <1>1 DEF With, WithOutput, Settling, Sound
<1>6. ASSUME NEW e \in Executors, ExecutorStep(e)
      PROVE  OnBus'
  <2>1. CASE Enter(e) \/ Start(e) \/ PollEnded(e) \/ PollOverBudget(e) \/ PollStuck(e)
                \/ AbortOverBudget(e) \/ FailStuck(e) \/ SkipOverBudget(e)
    <3>1. pc'[e] \notin {"polling", "dispatching", "joining"}
      BY <1>1, <2>1
         DEF Enter, Start, PollEnded, PollOverBudget, PollStuck, AbortOverBudget,
             FailStuck, SkipOverBudget, Goto
    <3> QED
      BY <1>4, <3>1
  <2>2. CASE Preload(e) \/ Join(e)
    <3>1. pc'[e] = "polling" /\ UNCHANGED run /\ bus' = bus \cup WithOutput(run)
      BY <1>1, <2>2 DEF Preload, Join, Goto
    <3>2. \A s \in StepId : task'[e][s] = "none"
      BY <3>1 DEF Phases
    <3> QED
      BY <1>1, <1>5, <3>1, <3>2 DEF OnBus, InFlight
  <2>3. CASE PollReady(e)
    <3>1. /\ pc[e] = "polling" /\ pc'[e] = "dispatching" /\ todo'[e] = Ready(run)
          /\ UNCHANGED <<run, bus, task>>
      BY <1>1, <2>3 DEF PollReady, Goto
    <3>2. ASSUME NEW s \in Ready(run)
          PROVE  run.par[s] \subseteq With(run, "done")
      <4>1. s \in Steps(run) /\ s \in StepId /\ run.st[s] = "ready"
        BY <1>1 DEF Ready, With, Order
      <4>2. ParentsAll(run, s, {"done"}) /\ run.par[s] \subseteq Steps(run)
        BY <1>1, <4>1 DEF Order, WellFormed
      <4> QED
        BY <4>2 DEF ParentsAll, With
    <3> QED
      BY <1>1, <3>1, <3>2 DEF OnBus, InFlight
  <2>4. CASE Dispatch(e)
    <3>1. PICK s \in todo[e] :
            /\ task' = [task EXCEPT ![e][s] = "queued"]
            /\ todo' = [todo EXCEPT ![e] = @ \ {s}]
      BY <2>4, FirstOfSubset DEF Dispatch
    <3>2. /\ pc[e] = "dispatching" /\ UNCHANGED bus
          /\ pc'[e] \in {"joining", "dispatching"}
      BY <1>1, <2>4 DEF Dispatch, Goto
    <3>3. todo'[e] \subseteq todo[e] /\ s \in Steps(run)
      BY <1>1, <3>1
    <3>4. \A t \in StepId : InFlight(e, t)' => t = s \/ InFlight(e, t)
      BY <1>1, <3>1 DEF InFlight
    <3>5. /\ \A t \in todo'[e] : run'.par[t] \subseteq bus'
          /\ \A t \in StepId : InFlight(e, t)' => run'.par[t] \subseteq bus'
      BY <1>1, <1>2, <3>2, <3>3, <3>4 DEF OnBus
    <3> QED
      BY <1>1, <3>2, <3>5 DEF OnBus
  <2> QED
    BY <1>6, <2>1, <2>2, <2>3, <2>4 DEF ExecutorStep, Poll
<1>7. ASSUME NEW e \in Executors, NEW s \in StepId, TaskStep(e, s)
      PROVE  OnBus'
  <2>1. /\ UNCHANGED <<pc, todo, bus>>
        /\ \A d \in Executors, t \in StepId : InFlight(d, t)' => InFlight(d, t)
    BY <1>1, <1>7
       DEF TaskStep, Acquire, Succeed, Fail, TimeOut, Report, Capture, InFlight
  <2> QED
    BY <1>3, <2>1
<1>8. CASE Abort \/ ReportUsage \/ UNCHANGED vars
  <2>1. UNCHANGED <<pc, todo, task, bus>>
    BY <1>8 DEF Abort, ReportUsage, vars
  <2> QED
    BY <1>3, <2>1 DEF InFlight
<1> QED
  BY <1>6, <1>7, <1>8 DEF Next

(* A subagent's prompt is assembled from the outputs of all the parents of *)
(* its step: by the time the step is dispatched each of them is on the bus,*)
(* and stays there while the subagent waits for its permit.                *)
THEOREM ParentsAreOnTheBus ==
    ASSUME SoleExecutor
    PROVE  Spec => []ParentsOnBus
<1>1. Init => OnBus
  BY DEF Init, OnBus, InFlight
<1>2. Known /\ Known' /\ OnBus /\ [Next]_vars => OnBus'
  BY OnBusStep DEF Known
<1>3. OnBus => ParentsOnBus
  BY DEF OnBus, ParentsOnBus
<1> QED
  BY <1>1, <1>2, <1>3, KnownInvariant, PTL DEF Spec

-----------------------------------------------------------------------------
(* Until the first repair the children lists are complete, so no promotion *)
(* is lost.                                                                *)
Unrepaired == run.rounds = 0 => Complete(run) /\ Promoted(run)

LEMMA UnrepairedStep ==
    ASSUME Known, Closed(run), Unrepaired, [Next]_vars
    PROVE  Unrepaired'
<1>1. /\ Structure /\ Order /\ WellFormed(run) /\ Sound(run)
      /\ run.rounds \in Nat
  BY KnownTypes, FieldTypes, BoundsAssumption DEF Settling, WellFormed
<1> SUFFICES ASSUME run'.rounds = 0
             PROVE  Complete(run') /\ Promoted(run')
  BY DEF Unrepaired
<1>2. ASSUME NEW s \in Steps(run), NEW out \in Output,
             NEW status \in {"keep", "running", "done", "error", "skipped"},
             Reported(s, status, out)
      PROVE  Complete(run') /\ Promoted(run')
  <2>1. run' = StepState(run, s, status, out) /\ status \in StepStatus \cup {"keep"}
    BY <1>2 DEF Reported, StepStatus
  <2>2. /\ run'.rounds = run.rounds \/ run'.rounds = run.rounds + 1
        /\ run'.rounds = run.rounds => SameGraph(run, run')
    BY <1>1, <2>1, StepStateJudged
  <2>3. run.rounds = 0 /\ run'.rounds = run.rounds /\ SameGraph(run, run')
    BY <1>1, <2>2
  <2>4. Complete(run) /\ Promoted(run)
    BY <2>3 DEF Unrepaired
  <2>5. Promoted(run')
    BY <1>1, <2>1, <2>3, <2>4, PromotedKept
  <2> QED
    BY <2>3, <2>4, <2>5 DEF Complete, SameGraph
<1>3. CASE run' = Aborted(run)
  <2>1. SameGraph(run, run') /\ Promoted(run')
    BY <1>1, <1>3, AbortedFacts
  <2> QED
    BY <2>1 DEF SameGraph, Unrepaired, Complete
<1>4. CASE run' = Started(run)
  <2>1. SameGraph(run, run') /\ (Closed(run) /\ Promoted(run) => Promoted(run'))
    BY <1>1, <1>4, StartedFacts
  <2> QED
    BY <2>1 DEF SameGraph, Unrepaired, Complete
<1>5. CASE UNCHANGED run
  BY <1>5 DEF Unrepaired
<1> QED
  BY <1>1, <1>2, <1>3, <1>4, <1>5, RunChange

LEMMA UnrepairedInvariant ==
    ASSUME SoleExecutor
    PROVE  Spec => []Unrepaired
<1>1. Init => Unrepaired
  BY InputsAssumption, NewRunFacts DEF Init, GoodGraph, Unrepaired
<1>2. EndedRunHasNoRunnable => Closed(run)
  BY DEF EndedRunHasNoRunnable, Closed, With
<1>3. Known /\ EndedRunHasNoRunnable /\ Unrepaired /\ [Next]_vars => Unrepaired'
  BY <1>2, UnrepairedStep
<1> QED
  BY <1>1, <1>3, KnownInvariant, NothingWaitsAfterTheEnd, PTL DEF Spec

(* No order of completions, and no abort or report between them, loses the *)
(* promotion of a step whose last parent is done (until the first repair,  *)
(* which does lose one: see ReReviewPromoted).                             *)
THEOREM NoPromotionIsLost ==
    ASSUME SoleExecutor
    PROVE  Spec => []NoLostPromotion
<1>1. Unrepaired => NoLostPromotion
  BY DEF Unrepaired, Promoted, NoLostPromotion, With
<1> QED
  BY <1>1, UnrepairedInvariant, PTL

-----------------------------------------------------------------------------
(* FirstOf finds the first step of every set that has one.                 *)
LEMMA LessThanWellFounded ==
    \E R : /\ IsWellFoundedOn(R, Nat)
           /\ \A x, y \in Nat : <<x, y>> \in R <=> x < y
<1>1. IsWellFoundedOn(OpToRel(<, Nat), Nat)
  BY NatLessThanWellFounded
<1>2. \A x, y \in Nat : <<x, y>> \in OpToRel(<, Nat) <=> x < y
  BY DEF OpToRel
<1> WITNESS OpToRel(<, Nat)
<1> QED
  BY <1>1, <1>2

LEMMA FirstOfSome ==
    ASSUME NEW S, S \subseteq StepId, S # {}
    PROVE  FirstOf(S) # {}
<1>1. PICK R : /\ IsWellFoundedOn(R, Nat)
               /\ \A x, y \in Nat : <<x, y>> \in R <=> x < y
  BY LessThanWellFounded
<1>2. IsWellFoundedOn(R, Nat)
  BY <1>1
<1>3. S \subseteq Nat
  BY BoundsAssumption DEF StepId
<1>4. \E x \in S : \A y \in S : ~(<<y, x>> \in R)
  BY <1>2, <1>3, WFMin
<1>5. PICK x \in S : \A y \in S : ~(<<y, x>> \in R)
  BY <1>4
<1>6. \A y \in S : ~(y < x)
  BY <1>1, <1>3, <1>5
<1>7. \A y \in S : x <= y
  BY <1>3, <1>6
<1> QED
  BY <1>7 DEF FirstOf

(* Without aborting clients an executor never gives up an open run: there  *)
(* is always a step left to fail, and a run that has ended stays ended.    *)
Unfinished ==
    /\ ~Ended(run) => ~AllFinished(run)
    /\ \A e \in Executors :
        /\ pc[e] \in {"idle", "checked"} => ~Ended(run)
        /\ pc[e] = "stuck" => todo[e] # {}
        /\ pc[e] = "returned" => Ended(run)

(* Some step of an open run is left, in a status the loop looks for.       *)
LEMMA SomeStepLeft ==
    ASSUME Known, Unfinished, ~Ended(run)
    PROVE  Ready(run) \cup With(run, "running") \cup With(run, "pending") # {}
<1>1. /\ Order /\ Settling /\ Steps(run) \subseteq StepId /\ WellFormed(run)
  BY KnownTypes
<1>2. PICK s \in Steps(run) : run.st[s] \notin {"done", "skipped"}
  BY DEF Unfinished, AllFinished
<1>3. run.st[s] \in StepStatus
  BY <1>1, FieldTypes DEF WellFormed
<1>4. run.st[s] \notin {"absent", "error", "interrupted"}
  BY <1>1 DEF Settling, Sound, Order
<1> QED
  BY <1>2, <1>3, <1>4 DEF StepStatus, Ready, With

LEMMA UnfinishedStep ==
    ASSUME SoleExecutor, ~CanAbort, Known, Unfinished, [Next]_vars
    PROVE  Unfinished'
<1>1. /\ Structure /\ Phases /\ Settling /\ WellFormed(run)
      /\ Steps(run) \subseteq StepId
      /\ pc \in [Executors -> PC] /\ todo \in [Executors -> SUBSET StepId]
      /\ \A e \in Executors : todo[e] \subseteq Steps(run)
      /\ \A d, e \in Executors : d = e
  BY KnownTypes DEF Structure, TypeOK, SoleExecutor
<1>2. ASSUME NEW s \in Steps(run), NEW out \in Output,
             NEW status \in {"keep", "running", "done", "error", "skipped"},
             Reported(s, status, out)
      PROVE  /\ ~Ended(run') => ~AllFinished(run')
             /\ Ended(run) => Ended(run')
  <2> DEFINE given == IF status = "keep" THEN run.st[s] ELSE status
  <2>1. run' = StepState(run, s, status, out) /\ status \in StepStatus \cup {"keep"}
    BY <1>2 DEF Reported, StepStatus
  <2>2. /\ Ended(run) => run'.status = run.status
        /\ given = "error" => Ended(run')
        /\ given \in {"done", "skipped"} /\ ~Ended(run') => ~AllFinished(run')
    BY <1>1, <2>1, StepStateJudged
  <2>3. CASE given \notin {"done", "skipped", "error"}
    <3>1. run'.st[s] = given /\ SameGraph(run, run')
      BY <1>1, <2>1, <2>3, OnlyPatched
    <3> QED
      BY <2>2, <2>3, <3>1 DEF AllFinished, SameGraph, Steps, Ended
  <2> QED
    BY <2>2, <2>3 DEF Ended
<1>3. ASSUME \E e \in Executors : pc[e] = "checked", run' = Started(run)
      PROVE  ~Ended(run') /\ ~AllFinished(run')
  <2>1. ~Ended(run)
    BY <1>3 DEF Unfinished
  <2>2. run'.st = run.st /\ run'.status = "running" /\ SameGraph(run, run')
    BY <1>1, <1>3, StartedFacts
  <2> QED
    BY <2>1, <2>2 DEF Unfinished, AllFinished, SameGraph, Steps, Ended, Final
<1>4. run' = Aborted(run) => Ended(run')
  BY <1>1, AbortedFacts DEF Ended, Final
<1>5. ~Ended(run') => ~AllFinished(run')
  BY <1>1, <1>2, <1>3, <1>4, RunChange DEF Unfinished
<1>6. Ended(run) => Ended(run')
  BY <1>1, <1>2, <1>4, RunChange DEF Unfinished
<1>7. ASSUME NEW e \in Executors, ExecutorStep(e)
      PROVE  /\ pc'[e] \in {"idle", "checked"} => ~Ended(run')
             /\ pc'[e] = "stuck" => todo'[e] # {}
             /\ pc'[e] = "returned" => Ended(run')
  <2>1. CASE Enter(e)
    BY <1>1, <2>1 DEF Enter, Goto, Unfinished
  <2>2. CASE Start(e) \/ Preload(e) \/ PollOverBudget(e) \/ PollReady(e)
                \/ SkipOverBudget(e) \/ Dispatch(e) \/ Join(e)
    <3>1. pc'[e] \in PC \ {"idle", "checked", "stuck", "returned"}
      BY <1>1, <2>2
         DEF Start, Preload, PollOverBudget, PollReady, SkipOverBudget, Dispatch, Join,
             Goto, PC
    <3> QED
      BY <3>1
  <2>3. CASE PollEnded(e)
    BY <1>1, <2>3 DEF PollEnded, Goto
  <2>4. CASE PollStuck(e)
    <3>1. With(run, "pending") # {} /\ With(run, "pending") \subseteq StepId
      BY <1>1, <2>4, SomeStepLeft DEF PollStuck, With
    <3>2. FirstOf(With(run, "pending")) # {}
      BY <3>1, FirstOfSome
    <3> QED
      BY <1>1, <2>4, <3>2 DEF PollStuck, Goto
  <2>5. CASE AbortOverBudget(e)
    BY <1>1, <1>4, <2>5 DEF AbortOverBudget, Goto
  <2>6. CASE FailStuck(e)
    <3>1. PICK s \in todo[e] : run' = StepState(run, s, "error", "none")
      BY <2>6 DEF FailStuck, Unfinished
    <3>2. s \in Steps(run) /\ "error" \in StepStatus \cup {"keep"} /\ "none" \in Output
      BY <1>1 DEF StepStatus, Output
    <3>3. Ended(run')
      BY <1>1, <3>1, <3>2, StepStateJudged
    <3> QED
      BY <1>1, <2>6, <3>3 DEF FailStuck, Goto
  <2> QED
    BY <1>7, <2>1, <2>2, <2>3, <2>4, <2>5, <2>6 DEF ExecutorStep, Poll
<1>8. ASSUME NEW e \in Executors, NEW s \in StepId, TaskStep(e, s)
      PROVE  UNCHANGED <<pc, todo>> /\ pc[e] \notin {"idle", "checked"}
  <2>1. UNCHANGED <<pc, todo>> /\ task[e][s] # "none"
    BY <1>8 DEF TaskStep, Acquire, Succeed, Fail, TimeOut, Report, Capture
  <2> QED
    BY <1>1, <2>1 DEF Phases
<1>9. ASSUME ReportUsage, NEW e \in Executors, pc[e] \in {"idle", "checked"}
      PROVE  ~Ended(run')
  <2>1. PICK s \in Steps(run) : run' = StepState(run, s, "keep", "none")
    BY <1>9 DEF ReportUsage
  <2>2. ~Ended(run) /\ run.st[s] \in {"pending", "ready"}
    BY <1>1, <1>9 DEF Unfinished, Settling, Untouched, Ended, Final
  <2>3. run'.status = run.status
    BY <1>1, <2>1, <2>2, OnlyPatched DEF Output
  <2> QED
    BY <2>2, <2>3 DEF Ended
<1>10. ASSUME UNCHANGED <<pc, todo>>,
              \A e \in Executors : pc[e] \in {"idle", "checked"} => ~Ended(run')
       PROVE  Unfinished'
  BY <1>5, <1>6, <1>10 DEF Unfinished
<1>11. CASE \E e \in Executors : ExecutorStep(e)
  BY <1>1, <1>5, <1>7, <1>11 DEF Unfinished
<1>12. CASE \E e \in Executors, s \in StepId : TaskStep(e, s)
  BY <1>1, <1>8, <1>10, <1>12
<1>13. CASE ReportUsage
  <2>1. UNCHANGED <<pc, todo>>
    BY <1>13 DEF ReportUsage
  <2> QED
    BY <1>9, <1>10, <1>13, <2>1
<1>14. CASE UNCHANGED vars
  BY <1>14 DEF vars, Unfinished
<1> QED
  BY <1>11, <1>12, <1>13, <1>14 DEF Next, Abort

LEMMA UnfinishedInvariant ==
    ASSUME SoleExecutor, ~CanAbort
    PROVE  Spec => []Unfinished
<1>1. Init => Unfinished
  <2> SUFFICES ASSUME Init PROVE Unfinished
    OBVIOUS
  <2>1. PICK g \in Inputs : run = NewRun(g)
    BY DEF Init
  <2>2. GoodGraph(g)
    BY InputsAssumption DEF GoodGraph
  <2>3. /\ run.status = "pending" /\ WellFormed(run)
        /\ \A s \in Steps(run) : run.st[s] \in {"pending", "ready"}
    BY <2>1, <2>2, NewRunFacts, NewRunWellFormed
  <2>4. 1 \in Steps(run)
    BY <2>3, FieldTypes, BoundsAssumption DEF WellFormed, StepId, Steps
  <2> QED
    BY <2>3, <2>4 DEF Init, Unfinished, AllFinished, Ended, Final
<1>2. Known /\ Unfinished /\ [Next]_vars => Unfinished'
  BY UnfinishedStep
<1> QED
  BY <1>1, <1>2, KnownInvariant, PTL DEF Spec

(* run_workflow returns the final run: left alone with its run, it comes   *)
(* back only from a run that has ended.                                    *)
THEOREM TheFinalRunIsReturned ==
    ASSUME SoleExecutor, ~CanAbort
    PROVE  Spec => []ReturnsFinalRun
<1>1. Unfinished => ReturnsFinalRun
  BY DEF Unfinished, ReturnsFinalRun
<1> QED
  BY <1>1, UnfinishedInvariant, PTL

-----------------------------------------------------------------------------
(* Until the first repair the graph is the one create() has checked.       *)
LEMMA SameGraphUntilRepair ==
    ASSUME Known, [Next]_vars, run'.rounds = 0
    PROVE  run.rounds = 0 /\ SameGraph(run, run')
<1>1. Structure /\ WellFormed(run) /\ run.rounds \in Nat
  BY KnownTypes, FieldTypes, BoundsAssumption DEF WellFormed
<1>2. ASSUME NEW s \in Steps(run), NEW out \in Output,
             NEW status \in {"keep", "running", "done", "error", "skipped"},
             Reported(s, status, out)
      PROVE  run.rounds = 0 /\ SameGraph(run, run')
  <2>1. run' = StepState(run, s, status, out) /\ status \in StepStatus \cup {"keep"}
    BY <1>2 DEF Reported, StepStatus
  <2>2. /\ run'.rounds = run.rounds \/ run'.rounds = run.rounds + 1
        /\ run'.rounds = run.rounds => SameGraph(run, run')
    BY <1>1, <2>1, StepStateJudged
  <2> QED
    BY <1>1, <2>2
<1>3. SameGraph(run, run') => run.rounds = 0
  BY DEF SameGraph
<1>4. CASE run' = Aborted(run)
  BY <1>1, <1>3, <1>4, AbortedFacts
<1>5. CASE run' = Started(run)
  BY <1>1, <1>3, <1>5, StartedFacts
<1>6. CASE UNCHANGED run
  BY <1>6 DEF SameGraph
<1> QED
  BY <1>1, <1>2, <1>4, <1>5, <1>6, RunChange

(* create() admits no graph with a cycle, and no repair closes one, in     *)
(* runs of any size with any number of executors, clients and repairs.     *)
THEOREM RepairsMakeNoCycle == Spec => []Acyclic
<1>1. Init => NoCycle(run)
  <2> SUFFICES ASSUME Init PROVE NoCycle(run)
    OBVIOUS
  <2>1. PICK g \in Inputs : CreateAccepts(g) /\ run = NewRun(g)
    BY DEF Init
  <2>2. GoodGraph(g)
    BY InputsAssumption DEF GoodGraph
  <2> QED
    BY <2>1, <2>2, CreateAdmitsNoCycle DEF NoCycle, Unbroken, Steps
<1>2. ASSUME Structure, NoCycle(run), [Next]_vars PROVE NoCycle(run)'
  <2>1. WellFormed(run)
    BY <1>2 DEF Structure
  <2>2. ASSUME NEW s \in Steps(run), NEW out \in Output,
               NEW status \in {"keep", "running", "done", "error", "skipped"},
               Reported(s, status, out)
        PROVE  NoCycle(run')
    BY <1>2, <2>1, <2>2, NoCycleKept DEF Reported, StepStatus
  <2>3. CASE run' = Aborted(run) \/ run' = Started(run) \/ UNCHANGED run
    <3>1. run'.par = run.par /\ run'.n = run.n
      BY <2>1, <2>3, AbortedFacts, StartedFacts DEF SameGraph
    <3> QED
      BY <1>2, <3>1 DEF NoCycle
  <2> QED
    BY <1>2, <2>2, <2>3, RunChange
<1>3. Structure /\ NoCycle(run) /\ [Next]_vars => NoCycle(run)'
  BY <1>2
<1>4. NoCycle(run) => Acyclic
  BY DEF NoCycle, Unbroken, Steps, Acyclic
<1> QED
  BY <1>1, <1>3, <1>4, StructureInvariant, PTL DEF Spec

(* What is known of a run left alone with its executor.                    *)
Alone ==
    /\ Known /\ Verdict /\ Unrepaired /\ Unfinished
    /\ NoPhantomRunning /\ EndedRunHasNoRunnable /\ Acyclic

LEMMA AloneInvariant ==
    ASSUME SoleExecutor, ~CanAbort
    PROVE  Spec => []Alone
<1>1. /\ Known /\ Verdict /\ Unrepaired /\ Unfinished
      /\ NoPhantomRunning /\ EndedRunHasNoRunnable /\ Acyclic
      => Alone
  BY DEF Alone
<1> QED
  BY <1>1, KnownInvariant, VerdictInvariant, UnrepairedInvariant, UnfinishedInvariant,
     NobodyPollsForEver, NothingWaitsAfterTheEnd, RepairsMakeNoCycle, PTL

(* At the top of the loop every step of an ended run has ended.            *)
LEMMA EndedIsSettled ==
    ASSUME Alone, Ended(run), NEW e \in Executors, pc[e] = "polling"
    PROVE  EndedSteps(run) = Steps(run)
<1>1. /\ Order /\ Settling /\ WellFormed(run) /\ Steps(run) \subseteq StepId
  BY KnownTypes DEF Alone
<1>2. ASSUME NEW s \in Steps(run) PROVE run.st[s] \in Settled
  <2>1. run.st[s] \in StepStatus /\ run.st[s] \notin {"absent", "interrupted"}
    BY <1>1, FieldTypes DEF WellFormed, Settling, Sound, Order
  <2>2. run.st[s] \notin {"pending", "ready", "running"}
    BY DEF Alone, EndedRunHasNoRunnable, NoPhantomRunning, With
  <2> QED
    BY <2>1, <2>2 DEF StepStatus, Settled
<1> QED
  BY <1>2 DEF EndedSteps

(* An open run gets stuck only after a repair: before, the graph has no    *)
(* cycle, so some pending step waits for no pending one, and it would have *)
(* been promoted.                                                          *)
LEMMA StuckAfterRepair ==
    ASSUME SoleExecutor, Alone, ~Ended(run), NEW e \in Executors, pc[e] = "polling",
           Ready(run) \cup With(run, "running") = {}
    PROVE  run.rounds # 0
<1> SUFFICES ASSUME run.rounds = 0 PROVE FALSE
  OBVIOUS
<1>1. /\ Order /\ Settling /\ WellFormed(run) /\ Steps(run) \subseteq StepId
      /\ Promoted(run) /\ Acyclic /\ SkipsOnlyAtEnd
  BY KnownTypes DEF Alone, Unrepaired, Verdict
<1>2. With(run, "pending") # {} /\ With(run, "pending") \in SUBSET Steps(run)
  BY SomeStepLeft DEF Alone, With
<1>3. PICK s \in With(run, "pending") : run.par[s] \cap With(run, "pending") = {}
  BY <1>1, <1>2 DEF Acyclic
<1>4. s \in Steps(run) /\ s \in StepId /\ run.st[s] = "pending" /\ run.par[s] \subseteq Steps(run)
  BY <1>1, <1>3 DEF With, WellFormed
<1>5. With(run, "skipped") = {}
  <2>1. pc[e] # "draining" /\ \A d \in Executors : d = e
    BY DEF SoleExecutor
  <2> QED
    BY <1>1, <1>4, <2>1 DEF SkipsOnlyAtEnd
<1>6. ASSUME NEW p \in run.par[s] PROVE run.st[p] = "done"
  <2>1. p \in Steps(run) /\ run.st[p] \in StepStatus
    BY <1>1, <1>4, FieldTypes DEF WellFormed
  <2>2. run.st[p] \notin {"pending", "ready", "running", "skipped", "interrupted"}
    BY <1>3, <1>5, <2>1 DEF Ready, With
  <2>3. run.st[p] \notin {"absent", "error"}
    BY <1>1, <2>1 DEF Settling, Sound
  <2> QED
    BY <2>1, <2>2, <2>3 DEF StepStatus
<1>7. ParentsAll(run, s, {"done"})
  BY <1>6 DEF ParentsAll
<1> QED
  BY <1>1, <1>4, <1>7 DEF Promoted

(* The record keeps up with the run: nothing has ended when the loop is    *)
(* entered, everything that has is captured at its top, and the loop gives *)
(* up an open run only after a repair.                                     *)
Captured ==
    \A e \in Executors :
        /\ pc[e] = "started" => EndedSteps(run) = {}
        /\ pc[e] = "polling" /\ run.rounds = 0 => EndedSteps(run) \subseteq recorded
        /\ pc[e] = "stuck" => run.rounds # 0
        /\ pc[e] = "returned" /\ run.status \in {"done", "error"} /\ run.rounds = 0 =>
                Steps(run) \subseteq recorded

(* No report of usage ends a step, at the top of the loop or before it.    *)
LEMMA UsageEndsNoStep ==
    ASSUME SoleExecutor, Alone, [Next]_vars, ReportUsage, NEW e \in Executors,
           \/ pc[e] = "polling" /\ run'.rounds = 0
           \/ EndedSteps(run) = {}
    PROVE  EndedSteps(run') \subseteq EndedSteps(run)
<1>1. /\ Settling /\ WellFormed(run) /\ Steps(run) \subseteq StepId
      /\ SkipsOnlyAtEnd /\ Unfinished /\ Known
      /\ \A d \in Executors : d = e
  BY KnownTypes DEF Alone, Verdict, SoleExecutor
<1>2. PICK s \in Steps(run) : run' = StepState(run, s, "keep", "none")
  BY DEF ReportUsage
<1>3. "keep" \in StepStatus \cup {"keep"} /\ "none" \in Output
  BY DEF Output
<1>4. CASE run.st[s] \notin {"done", "skipped", "error"}
  <2>1. /\ SameGraph(run, run') /\ run'.st[s] = run.st[s]
        /\ \A t \in StepId : t # s => run'.st[t] = run.st[t]
    BY <1>1, <1>2, <1>3, <1>4, OnlyPatched
  <2>2. Steps(run') = Steps(run)
    BY <2>1 DEF SameGraph, Steps
  <2> QED
    BY <1>1, <2>1, <2>2 DEF EndedSteps
<1>5. CASE run.st[s] \in {"done", "skipped", "error"}
  <2>1. pc[e] = "polling" /\ run'.rounds = 0
    BY <1>5 DEF EndedSteps, Settled
  <2>2. Steps(run') = Steps(run)
    BY <1>1, <2>1, SameGraphUntilRepair DEF SameGraph, Steps
  <2>3. CASE Ended(run)
    BY <2>1, <2>2, <2>3, EndedIsSettled DEF EndedSteps
  <2>4. CASE ~Ended(run)
    <3>1. run.st[s] # "error" /\ s \in StepId
      BY <1>1, <2>4 DEF Settling
    <3>2. run.st[s] # "skipped"
      <4>1. ~AllFinished(run) /\ pc[e] # "draining"
        BY <1>1, <2>1, <2>4 DEF Unfinished
      <4> QED
        BY <1>1, <2>4, <4>1 DEF SkipsOnlyAtEnd, With, AllFinished
    <3>3. ASSUME NEW t \in Steps(run), t # s
          PROVE  run'.st[t] = run.st[t] \/ run'.st[t] = "ready"
      BY <1>1, <1>2, <1>3, <3>1, <3>2, <3>3, OnlyPromoted
    <3> QED
      BY <1>5, <2>2, <3>1, <3>2, <3>3 DEF EndedSteps, Settled
  <2> QED
    BY <2>3, <2>4
<1> QED
  BY <1>4, <1>5

LEMMA CapturedStep ==
    ASSUME SoleExecutor, ~CanAbort, Alone, Captured, [Next]_vars
    PROVE  Captured'
<1>1. /\ Structure /\ Phases /\ Settling /\ WellFormed(run) /\ Known /\ Unfinished
      /\ Steps(run) \subseteq StepId /\ pc \in [Executors -> PC]
      /\ \A e \in Executors : todo[e] \subseteq Steps(run)
      /\ \A d, e \in Executors : d = e
  BY KnownTypes DEF Alone, SoleExecutor
<1>2. run'.rounds = 0 => run.rounds = 0 /\ SameGraph(run, run') /\ Steps(run') = Steps(run)
  BY <1>1, SameGraphUntilRepair DEF SameGraph, Steps
<1>3. ASSUME NEW e \in Executors, ExecutorStep(e)
      PROVE  Captured'
  <2>1. ASSUME pc'[e] \notin {"started", "polling", "stuck", "returned"}
        PROVE  Captured'
    BY <1>1, <2>1 DEF Captured
  <2>2. CASE Enter(e) \/ PollOverBudget(e) \/ PollReady(e) \/ SkipOverBudget(e) \/ Dispatch(e)
    <3>1. pc'[e] \notin {"started", "polling", "stuck", "returned"}
      BY <1>1, <2>2
         DEF Enter, PollOverBudget, PollReady, SkipOverBudget, Dispatch, Goto, Unfinished
    <3> QED
      BY <2>1, <3>1
  <2>3. CASE Start(e)
    <3>1. Untouched /\ ~Ended(run) /\ pc'[e] = "started" /\ run' = Started(run)
      BY <1>1, <2>3 DEF Start, Goto, Settling, Unfinished
    <3>2. \A t \in Steps(run) : run.st[t] \in {"pending", "ready"}
      BY <3>1 DEF Untouched, Ended, Final
    <3>3. run'.st = run.st /\ Steps(run') = Steps(run)
      BY <1>1, <3>1, StartedFacts DEF SameGraph, Steps
    <3> QED
      BY <1>1, <3>1, <3>2, <3>3 DEF Captured, EndedSteps, Settled
  <2>4. CASE Preload(e)
    BY <1>1, <2>4 DEF Preload, Goto, Captured
  <2>5. CASE Join(e)
    BY <1>1, <2>5 DEF Join, Goto, Captured
  <2>6. CASE PollEnded(e)
    <3>1. /\ pc[e] = "polling" /\ pc'[e] = "returned" /\ UNCHANGED <<run, recorded>>
          /\ Ended(run)
      BY <1>1, <2>6 DEF PollEnded, Goto
    <3>2. EndedSteps(run) = Steps(run)
      BY <3>1, EndedIsSettled
    <3> QED
      BY <1>1, <3>1, <3>2 DEF Captured
  <2>7. CASE PollStuck(e)
    <3>1. pc'[e] = "stuck" /\ UNCHANGED run
      BY <1>1, <2>7 DEF PollStuck, Goto
    <3>2. run.rounds # 0
      BY <2>7, StuckAfterRepair DEF PollStuck
    <3> QED
      BY <1>1, <3>1, <3>2 DEF Captured
  <2>8. CASE AbortOverBudget(e)
    <3>1. pc'[e] = "returned" /\ run'.status = "aborted"
      BY <1>1, <2>8, AbortedFacts DEF AbortOverBudget, Goto
    <3> QED
      BY <1>1, <3>1 DEF Captured
  <2>9. CASE FailStuck(e)
    <3>1. pc'[e] = "returned" /\ run'.rounds # 0
      BY <1>1, <1>2, <2>9 DEF FailStuck, Goto, Captured
    <3> QED
      BY <1>1, <3>1 DEF Captured
  <2> QED
    BY <1>3, <2>2, <2>3, <2>4, <2>5, <2>6, <2>7, <2>8, <2>9 DEF ExecutorStep, Poll
<1>4. ASSUME NEW e \in Executors, NEW s \in StepId, TaskStep(e, s)
      PROVE  Captured'
  <2>1. UNCHANGED pc /\ task[e][s] # "none"
    BY <1>4 DEF TaskStep, Acquire, Succeed, Fail, TimeOut, Report, Capture
  <2>2. pc'[e] \notin {"started", "polling", "stuck", "returned"}
    BY <1>1, <2>1 DEF Phases
  <2> QED
    BY <1>1, <2>2 DEF Captured
<1>5. CASE ReportUsage
  <2>1. UNCHANGED <<pc, recorded>>
    BY <1>5 DEF ReportUsage
  <2>2. ASSUME NEW e \in Executors, pc[e] = "started"
        PROVE  EndedSteps(run') = {}
    BY <1>5, <2>2, UsageEndsNoStep DEF Captured
  <2>3. ASSUME NEW e \in Executors, pc[e] = "polling", run'.rounds = 0
        PROVE  EndedSteps(run') \subseteq recorded
    BY <1>2, <1>5, <2>3, UsageEndsNoStep DEF Captured
  <2>4. ASSUME NEW e \in Executors, pc[e] = "returned",
               run'.status \in {"done", "error"}, run'.rounds = 0
        PROVE  Steps(run') \subseteq recorded
    <3>1. PICK s \in Steps(run) : run' = StepState(run, s, "keep", "none")
      BY <1>5 DEF ReportUsage
    <3>2. Ended(run) /\ "keep" \in StepStatus \cup {"keep"} /\ "none" \in Output
      BY <1>1, <2>4 DEF Unfinished, Output
    <3>3. run'.status = run.status
      BY <1>1, <3>1, <3>2, StepStateJudged
    <3> QED
      BY <1>2, <2>4, <3>3 DEF Captured
  <2> QED
    BY <1>2, <2>1, <2>2, <2>3, <2>4 DEF Captured
<1>6. CASE UNCHANGED vars
  BY <1>6 DEF vars, Captured, EndedSteps
<1> QED
  BY <1>3, <1>4, <1>5, <1>6 DEF Next, Abort

(* A record whose executor returned from a finished run holds every step,  *)
(* those a failed sibling kept from ever being dispatched included: the    *)
(* executor looks at the run once more, and finds it ended, only after a   *)
(* join that has captured all that had.  (Until the first repair.)         *)
THEOREM TheRecordIsComplete ==
    ASSUME SoleExecutor, ~CanAbort
    PROVE  Spec => []RecordComplete
<1>1. Init => Captured
  BY DEF Init, Captured
<1>2. Alone /\ Captured /\ [Next]_vars => Captured'
  BY CapturedStep
<1>3. Captured => RecordComplete
  BY DEF Captured, RecordComplete
<1> QED
  BY <1>1, <1>2, <1>3, AloneInvariant, PTL DEF Spec

-----------------------------------------------------------------------------
(* The refinement of WorkflowPromise by an executor no client disturbs.    *)

(* Undisturbed, a run is not aborted, no budget is drained, and the loop   *)
(* gives up only an open run.                                              *)
Undisturbed ==
    /\ ~overspent
    /\ run.status # "aborted"
    /\ \A e \in Executors : pc[e] # "draining" /\ (pc[e] = "stuck" => ~Ended(run))

LEMMA UndisturbedStep ==
    ASSUME SoleExecutor, ~CanAbort, ~HasBudget, Known, Undisturbed, [Next]_vars
    PROVE  Undisturbed'
<1>1. /\ Structure /\ Phases /\ WellFormed(run) /\ pc \in [Executors -> PC]
      /\ \A d, e \in Executors : d = e
  BY KnownTypes DEF SoleExecutor
<1>2. ASSUME NEW s \in Steps(run), NEW out \in Output,
             NEW status \in {"keep", "running", "done", "error", "skipped"},
             run' = StepState(run, s, status, out)
      PROVE  run'.status # "aborted"
  <2>1. status \in StepStatus \cup {"keep"}
    BY DEF StepStatus
  <2>2. run'.status \in {run.status, "running", "done", "error"}
    BY <1>1, <1>2, <2>1, StepStateJudged
  <2> QED
    BY <2>2 DEF Undisturbed
<1>3. ASSUME NEW e \in Executors, ExecutorStep(e)
      PROVE  Undisturbed'
  <2>1. \A s \in FirstOf(todo[e]) \cup todo[e] : s \in Steps(run)
    BY <1>1, FirstOfSubset DEF Structure
  <2>2. CASE PollStuck(e)
    BY <1>1, <2>2 DEF PollStuck, Goto, Undisturbed
  <2>3. CASE FailStuck(e)
    <3>1. run'.status # "aborted"
      BY <1>2, <2>1, <2>3 DEF FailStuck, Output, Undisturbed
    <3> QED
      BY <1>1, <2>3, <3>1 DEF FailStuck, Goto, Undisturbed
  <2>4. CASE Dispatch(e)
    <3>1. run'.status # "aborted"
      BY <1>2, <2>1, <2>4 DEF Dispatch, Output
    <3>2. pc'[e] \in {"joining", "dispatching"} /\ UNCHANGED overspent
      BY <1>1, <2>4 DEF Dispatch, Goto
    <3> QED
      BY <1>1, <3>1, <3>2 DEF Undisturbed
  <2>5. CASE Start(e)
    <3>1. run'.status = "running"
      BY <1>1, <2>5, StartedFacts DEF Start
    <3> QED
      BY <1>1, <2>5, <3>1 DEF Start, Goto, Undisturbed
  <2>6. CASE Enter(e) \/ Preload(e) \/ PollEnded(e) \/ PollReady(e) \/ Join(e)
    BY <1>1, <2>6 DEF Enter, Preload, PollEnded, PollReady, Join, Goto, Undisturbed
  <2>7. CASE PollOverBudget(e) \/ SkipOverBudget(e) \/ AbortOverBudget(e)
    BY <2>7 DEF PollOverBudget, SkipOverBudget, AbortOverBudget, Undisturbed
  <2> QED
    BY <1>3, <2>2, <2>3, <2>4, <2>5, <2>6, <2>7 DEF ExecutorStep, Poll
<1>4. ASSUME NEW e \in Executors, NEW s \in StepId, TaskStep(e, s)
      PROVE  Undisturbed'
  <2>1. UNCHANGED <<pc, overspent>> /\ task[e][s] # "none"
    BY <1>4 DEF TaskStep, Acquire, Succeed, Fail, TimeOut, Report, Capture
  <2>2. \A d \in Executors : pc[d] # "stuck"
    BY <1>1, <2>1 DEF Phases
  <2>3. s \in Steps(run)
    BY <1>1, <2>1 DEF Structure
  <2>4. run'.status # "aborted"
    <3>1. CASE Acquire(e, s) \/ Capture(e, s)
      BY <3>1 DEF Acquire, Capture, Undisturbed
    <3>2. CASE Succeed(e, s) \/ Fail(e, s) \/ TimeOut(e, s)
      BY <1>2, <2>3, <3>2 DEF Succeed, Fail, TimeOut, Report, Output
    <3> QED
      BY <1>4, <3>1, <3>2 DEF TaskStep
  <2> QED
    BY <2>1, <2>2, <2>4 DEF Undisturbed
<1>5. CASE UNCHANGED vars
  BY <1>5 DEF vars, Undisturbed, Ended
<1> QED
  BY <1>3, <1>4, <1>5 DEF Next, Abort, ReportUsage

Serene == Alone /\ Driven /\ Undisturbed

LEMMA SereneInvariant ==
    ASSUME SoleExecutor, ~CanAbort, ~HasBudget
    PROVE  Spec => []Serene
<1>1. Init => Undisturbed
  BY InputsAssumption, NewRunFacts DEF Init, GoodGraph, Undisturbed
<1>2. Known /\ Undisturbed /\ [Next]_vars => Undisturbed'
  BY UndisturbedStep
<1>3. Alone /\ Driven /\ Undisturbed => Serene
  BY DEF Serene
<1> QED
  BY <1>1, <1>2, <1>3, KnownInvariant, AloneInvariant, DrivenInvariant, PTL DEF Spec

(* The phases of the steps, by their statuses, and the outcome of the run. *)
Reading ==
    /\ \A t \in StepId :
        /\ Active(t) => /\ Phase(t) = "active" /\ t \in Steps(run)
                        /\ run.st[t] \in {"running", "skipped"}
                        /\ ~Ended(run) => run.st[t] = "running"
        /\ ~Active(t) =>
            /\ run.st[t] = "absent" <=> Phase(t) = "unknown"
            /\ run.st[t] \in {"pending", "ready"} <=> Phase(t) = "waiting"
            /\ run.st[t] = "done" <=> Phase(t) = "succeeded"
            /\ run.st[t] = "error" <=> Phase(t) = "failed"
            /\ run.st[t] = "skipped" <=> Phase(t) = "dropped"
            /\ run.st[t] \in StepStatus \ {"running", "interrupted"}
        /\ t \in Steps(run) <=> run.st[t] # "absent"
    /\ RunOutcome = "succeeded" <=> run.status = "done"
    /\ RunOutcome = "failed" <=> run.status = "error"
    /\ RunOutcome = "open" <=> ~Ended(run)
    /\ RunOutcome \in {"open", "succeeded", "failed"}

LEMMA SereneReading == Serene => Reading
<1> SUFFICES ASSUME Serene PROVE Reading
  OBVIOUS
<1>1. /\ Known /\ Order /\ Verdict /\ Driven /\ Settling
      /\ WellFormed(run) /\ Steps(run) \subseteq StepId
      /\ \A e \in Executors, s \in StepId : InFlight(e, s) => s \in Steps(run)
  BY KnownTypes DEF Serene, Alone
<1>2. ASSUME NEW t \in StepId, Active(t)
      PROVE  /\ Phase(t) = "active" /\ t \in Steps(run)
             /\ run.st[t] \in {"running", "skipped"}
             /\ ~Ended(run) => run.st[t] = "running"
  BY <1>1, <1>2 DEF Active, Phase, Order, Verdict, AtWork
<1>3. ASSUME NEW t \in StepId, ~Active(t)
      PROVE  /\ run.st[t] = "absent" <=> Phase(t) = "unknown"
             /\ run.st[t] \in {"pending", "ready"} <=> Phase(t) = "waiting"
             /\ run.st[t] = "done" <=> Phase(t) = "succeeded"
             /\ run.st[t] = "error" <=> Phase(t) = "failed"
             /\ run.st[t] = "skipped" <=> Phase(t) = "dropped"
             /\ run.st[t] \in StepStatus \ {"running", "interrupted"}
  <2>1. run.st[t] \in StepStatus \ {"running", "interrupted"}
    BY <1>1, <1>3, FieldTypes DEF WellFormed, Order, Driven, Active
  <2> QED
    BY <1>3, <2>1 DEF Phase, StepStatus
<1>4. ASSUME NEW t \in StepId
      PROVE  t \in Steps(run) <=> run.st[t] # "absent"
  <2>1. WellFormed(run) /\ Sound(run)
    BY <1>1 DEF Settling
  <2> QED
    BY <2>1, FieldTypes, BoundsAssumption DEF WellFormed, Sound, Steps, StepId
<1>5. /\ RunOutcome = "succeeded" <=> run.status = "done"
      /\ RunOutcome = "failed" <=> run.status = "error"
      /\ RunOutcome = "open" <=> ~Ended(run)
      /\ RunOutcome \in {"open", "succeeded", "failed"}
  <2>1. run.status \in RunStatus \ {"aborted"}
    BY <1>1, FieldTypes DEF Serene, Undisturbed, WellFormed
  <2> QED
    BY <2>1 DEF RunOutcome, RunStatus, Ended, Final
<1> QED
  BY <1>2, <1>3, <1>4, <1>5 DEF Reading

LEMMA NextReading == Serene' => Reading'
BY SereneReading, PTL

(* What a step of the executor must do for the promise to do the same.     *)
LEMMA PromiseStutters ==
    ASSUME run'.par = run.par, \A t \in StepId : Phase(t)' = Phase(t),
           RunOutcome' = RunOutcome
    PROVE  UNCHANGED Promise!vars
BY DEF Promise!vars

LEMMA PromiseBegins ==
    ASSUME NEW s \in StepId,
           Phase(s) = "waiting" \/ (Phase(s) = "dropped" /\ RunOutcome = "failed"),
           \A d \in run.par[s] : d \in StepId /\ Phase(d) = "succeeded",
           run'.par = run.par, RunOutcome' = RunOutcome,
           \A t \in StepId : Phase(t)' = IF t = s THEN "active" ELSE Phase(t)
    PROVE  Promise!Begin(s)
BY DEF Promise!Begin, Promise!Eligible

LEMMA PromiseGivesUp ==
    ASSUME NEW s \in StepId,
           Phase(s) = "waiting", RunOutcome = "open", RunOutcome' = "failed",
           run'.par = run.par,
           \A t \in StepId : Phase(t) # "active",
           \A t \in StepId :
                Phase(t)' = IF t = s THEN "failed"
                            ELSE IF Phase(t) = "waiting" THEN "dropped" ELSE Phase(t)
    PROVE  Promise!GiveUp(s)
BY DEF Promise!GiveUp, Promise!In, Promise!DroppedBut

LEMMA PromiseFails ==
    ASSUME NEW s \in StepId,
           Phase(s) = "active", run'.par = run.par,
           RunOutcome' = IF RunOutcome = "open" THEN "failed" ELSE RunOutcome,
           \A t \in StepId :
                Phase(t)' = IF t = s THEN "failed"
                            ELSE IF RunOutcome = "open" /\ Phase(t) = "waiting"
                                 THEN "dropped" ELSE Phase(t)
    PROVE  Promise!Fail(s)
BY DEF Promise!Fail, Promise!DroppedBut

LEMMA PromiseSucceeds ==
    ASSUME NEW s \in StepId,
           Phase(s) = "active", run'.par = run.par,
           RunOutcome' = IF RunOutcome = "open" /\ \A t \in StepId \ {s} :
                                Phase(t) \in {"unknown", "succeeded", "dropped"}
                         THEN "succeeded" ELSE RunOutcome,
           \A t \in StepId : Phase(t)' = IF t = s THEN "succeeded" ELSE Phase(t)
    PROVE  Promise!Succeed(s)
BY DEF Promise!Succeed

LEMMA PromiseSucceedsWithMore ==
    ASSUME NEW s \in StepId, NEW first \in StepId, NEW second \in StepId,
           first # second, Phase(first) = "unknown", Phase(second) = "unknown",
           Phase(s) = "active", RunOutcome = "open", RunOutcome' = RunOutcome,
           run'.par = [run.par EXCEPT ![first] = {s}, ![second] = {first}],
           \A t \in StepId :
                Phase(t)' = IF t = s THEN "succeeded"
                            ELSE IF t \in {first, second} THEN "waiting" ELSE Phase(t)
    PROVE  Promise!SucceedWithMore(s)
BY DEF Promise!SucceedWithMore, Promise!In

(* What the run and its tasks look like to an executor left in peace.      *)
LEMMA SereneFacts ==
    ASSUME SoleExecutor, Serene
    PROVE  /\ Structure /\ Order /\ Phases /\ Settling /\ WellFormed(run) /\ Known
           /\ Verdict /\ (AtWork \/ Ended(run))
           /\ DoneTruth /\ Undisturbed /\ Unfinished /\ Sound(run)
           /\ Steps(run) \subseteq StepId
           /\ pc \in [Executors -> PC] /\ todo \in [Executors -> SUBSET StepId]
           /\ task \in [Executors -> [StepId -> TaskState]]
           /\ \A e \in Executors : todo[e] \subseteq Steps(run)
           /\ \A e \in Executors, s \in StepId : task[e][s] # "none" => s \in Steps(run)
           /\ \A d, e \in Executors : d = e
           /\ run.par \in [StepId -> SUBSET StepId]
<1>1. Known /\ Verdict /\ Undisturbed /\ Unfinished
  BY DEF Serene, Alone
<1>2. WellFormed(run) /\ Structure
  BY <1>1, KnownTypes
<1>3. run.par \in [StepId -> SUBSET StepId] /\ Steps(run) \subseteq StepId
  BY <1>2, FieldTypes DEF WellFormed
<1> QED
  BY <1>1, <1>2, <1>3, KnownTypes
     DEF Verdict, SoleExecutor, Structure, TypeOK, Settling

LEMMA GivingUpIsPromised ==
    ASSUME SoleExecutor, Serene, Serene', NEW e \in Executors, FailStuck(e)
    PROVE  \E s \in StepId : Promise!GiveUp(s)
<1>1. /\ Phases /\ WellFormed(run) /\ (AtWork \/ Ended(run))
      /\ Undisturbed /\ Unfinished /\ Steps(run) \subseteq StepId
      /\ \A d \in Executors : todo[d] \subseteq Steps(run) /\ d = e
  BY SereneFacts
<1>2. Reading /\ Reading'
  BY SereneReading, NextReading
<1>3. pc[e] = "stuck" /\ ~Ended(run) /\ UNCHANGED task
  BY <1>1 DEF FailStuck, Undisturbed
<1>4. PICK s \in todo[e] : run' = StepState(run, s, "error", "none")
  BY <1>1, <1>3 DEF FailStuck, Unfinished
<1>5. /\ s \in Steps(run) /\ s \in StepId /\ run.st[s] \in {"pending", "ready"}
      /\ "error" \in StepStatus \cup {"keep"} /\ "none" \in Output
  BY <1>1, <1>3, <1>4 DEF AtWork, StepStatus, Output
<1>6. \A t \in StepId : ~Active(t) /\ ~Active(t)'
  BY <1>1, <1>3 DEF Active, InFlight, Phases
<1>7. LET p == Patched(run, s, "error", "none") IN
      /\ SameGraph(run, p) /\ p.status = run.status /\ p.st[s] = "error"
      /\ \A t \in StepId : t # s => p.st[t] = run.st[t]
      /\ ErrorBranch(p, run', s)
  <2> DEFINE p == Patched(run, s, "error", "none")
             q == StepState(run, s, "error", "none")
  <2>0. WellFormed(run) /\ s \in Steps(run) /\ "error" # "keep"
        /\ "error" \in StepStatus \cup {"keep"} /\ "none" \in Output
    BY <1>1, <1>5
  <2>1. /\ SameGraph(run, p) /\ p.status = run.status /\ p.st[s] = "error"
        /\ \A t \in StepId : t # s => p.st[t] = run.st[t]
    BY <2>0, PatchedFields
  <2>2. \/ DoneBranch(p, q, s) \/ SkippedBranch(p, q, s) \/ ErrorBranch(p, q, s)
        \/ p.st[s] \notin {"done", "skipped", "error"} /\ q = p
    BY <2>0, StepStateCases
  <2> HIDE DEF p, q
  <2>3. ErrorBranch(p, q, s)
    BY <2>1, <2>2 DEF DoneBranch, SkippedBranch
  <2> QED
    BY <1>4, <2>1, <2>3 DEF p, q
<1>8. /\ run'.par = run.par /\ run'.status = "error"
      /\ \A t \in StepId : run'.st[t] = IF t = s THEN "error"
                                        ELSE IF run.st[t] \in Sweepable THEN "skipped"
                                        ELSE run.st[t]
  BY <1>3, <1>7 DEF ErrorBranch, SameGraph, Ended, Sweepable
<1>9. \A t \in StepId : Phase(t)' = IF t = s THEN "failed"
                                     ELSE IF Phase(t) = "waiting" THEN "dropped" ELSE Phase(t)
  <2> TAKE t \in StepId
  <2>1. run.st[t] \in StepStatus \ {"running", "interrupted"}
    BY <1>2, <1>6 DEF Reading
  <2> QED
    BY <1>6, <1>8, <2>1 DEF Phase, Sweepable, StepStatus
<1>10. /\ Phase(s) = "waiting" /\ RunOutcome = "open" /\ RunOutcome' = "failed"
       /\ \A t \in StepId : Phase(t) # "active"
  <2>1. \A t \in StepId : Phase(t) # "active"
    BY <1>6 DEF Phase
  <2> QED
    BY <1>2, <1>3, <1>5, <1>6, <1>8, <2>1 DEF Reading
<1> QED
  BY <1>5, <1>8, <1>9, <1>10, PromiseGivesUp

LEMMA DispatchIsPromised ==
    ASSUME SoleExecutor, Serene, Serene', NEW e \in Executors, Dispatch(e)
    PROVE  \E s \in StepId : Promise!Begin(s)
<1>1. /\ Order /\ WellFormed(run) /\ (AtWork \/ Ended(run))
      /\ DoneTruth /\ Undisturbed /\ Steps(run) \subseteq StepId
      /\ task \in [Executors -> [StepId -> TaskState]]
      /\ \A d \in Executors : todo[d] \subseteq Steps(run) /\ d = e
      /\ run.par \in [StepId -> SUBSET StepId]
  BY SereneFacts
<1>2. Reading /\ Reading'
  BY SereneReading, NextReading
<1>3. PICK s \in todo[e] :
        /\ run' = StepState(run, s, "running", "none")
        /\ task' = [task EXCEPT ![e][s] = "queued"]
  BY FirstOfSubset DEF Dispatch
<1>4. /\ s \in Steps(run) /\ s \in StepId /\ pc[e] = "dispatching"
      /\ "running" \in StepStatus \cup {"keep"} /\ "none" \in Output
  BY <1>1, <1>3 DEF Dispatch, StepStatus, Output
<1>5. /\ SameGraph(run, run') /\ run'.status = run.status
      /\ \A t \in StepId : t # s => run'.st[t] = run.st[t]
  <2>1. WellFormed(run)
    BY <1>1
  <2> QED
    BY <1>3, <1>4, <2>1, OnlyPatched
<1>6. /\ ~InFlight(e, s) /\ run.st[s] \in {"ready", "skipped"}
      /\ ParentsAll(run, s, {"done"})
  <2>1. Order
    BY <1>1
  <2> QED
    BY <1>3, <1>4, <2>1 DEF Order
<1>7. /\ \A t \in StepId : t # s => (Active(t)' <=> Active(t))
      /\ Active(s)' /\ ~Active(s)
  BY <1>1, <1>3, <1>4, <1>6 DEF Active, InFlight
<1>8. \A t \in StepId : Phase(t)' = IF t = s THEN "active" ELSE Phase(t)
  BY <1>5, <1>7 DEF Phase
<1>9. RunOutcome' = RunOutcome /\ run'.par = run.par
  BY <1>5 DEF RunOutcome, SameGraph
<1>10. Phase(s) = "waiting" \/ (Phase(s) = "dropped" /\ RunOutcome = "failed")
  <2>1. CASE run.st[s] = "ready"
    BY <1>2, <1>4, <1>7, <2>1 DEF Reading
  <2>2. CASE run.st[s] = "skipped"
    <3>1. Ended(run)
      BY <1>1, <1>3, <1>4, <2>2 DEF AtWork
    <3>2. run.status # "done"
      BY <1>1, <1>3, <1>4 DEF DoneTruth
    <3>3. run.status = "error"
      BY <1>1, <3>1, <3>2 DEF Ended, Final, Undisturbed
    <3> QED
      BY <1>2, <1>4, <1>7, <2>2, <3>3 DEF Reading
  <2> QED
    BY <1>6, <2>1, <2>2
<1>11. \A d \in run.par[s] : d \in StepId /\ Phase(d) = "succeeded"
  <2> TAKE d \in run.par[s]
  <2>1. d \in StepId /\ run.st[d] = "done"
    BY <1>1, <1>4, <1>6 DEF ParentsAll
  <2> QED
    BY <1>2, <2>1 DEF Reading
<1> QED
  BY <1>4, <1>8, <1>9, <1>10, <1>11, PromiseBegins

(* A task's report takes its step, and no other, out of the active ones.   *)
LEMMA ReportEndsOne ==
    ASSUME SoleExecutor, Serene, NEW e \in Executors, NEW s \in StepId, NEW status,
           NEW out, Report(e, s, status, out)
    PROVE  /\ s \in Steps(run) /\ run' = StepState(run, s, status, out)
           /\ Active(s) /\ ~Active(s)'
           /\ \A t \in StepId : t # s => (Active(t)' <=> Active(t))
<1>1. /\ task \in [Executors -> [StepId -> TaskState]]
      /\ \A d, c \in Executors : d = c
      /\ \A d \in Executors, t \in StepId : task[d][t] # "none" => t \in Steps(run)
  BY SereneFacts
<1>2. /\ task[e][s] = "running" /\ run' = StepState(run, s, status, out)
      /\ task' = [task EXCEPT ![e][s] = "reported"]
  BY DEF Report
<1>3. s \in Steps(run)
  BY <1>1, <1>2
<1>4. Active(s)
  BY <1>2 DEF Active, InFlight
<1>5. ~Active(s)' /\ \A t \in StepId : t # s => (Active(t)' <=> Active(t))
  BY <1>1, <1>2 DEF Active, InFlight
<1> QED
  BY <1>2, <1>3, <1>4, <1>5

LEMMA FailureIsPromised ==
    ASSUME SoleExecutor, Serene, Serene', NEW e \in Executors, NEW s \in StepId,
           NEW out \in Output, Report(e, s, "error", out)
    PROVE  Promise!Fail(s)
<1>1. WellFormed(run)
  BY SereneFacts
<1>2. Reading /\ Reading'
  BY SereneReading, NextReading
<1>3. /\ s \in Steps(run) /\ run' = StepState(run, s, "error", out)
      /\ Active(s) /\ ~Active(s)'
      /\ \A t \in StepId : t # s => (Active(t)' <=> Active(t))
  BY ReportEndsOne
<1>4. "error" # "keep" /\ "error" \in StepStatus \cup {"keep"}
  BY DEF StepStatus
<1>5. /\ run'.par = run.par /\ run'.status = IF Ended(run) THEN run.status ELSE "error"
      /\ \A t \in StepId :
            run'.st[t] = IF t = s THEN "error"
                         ELSE IF ~Ended(run) /\ run.st[t] \in Sweepable THEN "skipped"
                         ELSE run.st[t]
  <2> DEFINE p == Patched(run, s, "error", out)
             q == StepState(run, s, "error", out)
  <2>1. /\ SameGraph(run, p) /\ p.status = run.status /\ p.st[s] = "error"
        /\ \A t \in StepId : t # s => p.st[t] = run.st[t]
    BY <1>1, <1>3, <1>4, PatchedFields
  <2>2. \/ DoneBranch(p, q, s) \/ SkippedBranch(p, q, s) \/ ErrorBranch(p, q, s)
        \/ p.st[s] \notin {"done", "skipped", "error"} /\ q = p
    BY <1>1, <1>3, <1>4, StepStateCases
  <2>3. run' = q
    BY <1>3
  <2> HIDE DEF p, q
  <2>4. ErrorBranch(p, q, s)
    BY <2>1, <2>2 DEF DoneBranch, SkippedBranch
  <2>5. Ended(p) <=> Ended(run)
    BY <2>1 DEF Ended
  <2> QED
    BY <2>1, <2>3, <2>4, <2>5 DEF ErrorBranch, SameGraph, Sweepable
<1>6. ASSUME NEW t \in StepId
      PROVE  Phase(t)' = IF t = s THEN "failed"
                         ELSE IF RunOutcome = "open" /\ Phase(t) = "waiting"
                              THEN "dropped" ELSE Phase(t)
  <2>1. CASE t = s
    BY <1>3, <1>5, <2>1 DEF Phase
  <2>2. CASE t # s /\ Active(t)
    <3>1. Phase(t) = "active" /\ Phase(t)' = "active"
      BY <1>3, <2>2 DEF Phase
    <3> QED
      BY <2>2, <3>1
  <2>3. CASE t # s /\ ~Active(t)
    <3>1. run.st[t] \in StepStatus \ {"running", "interrupted"} /\ ~Active(t)'
      BY <1>2, <1>3, <2>3 DEF Reading
    <3>2. RunOutcome = "open" <=> ~Ended(run)
      BY <1>2 DEF Reading
    <3>3. run'.st[t] = IF ~Ended(run) /\ run.st[t] \in Sweepable THEN "skipped"
                       ELSE run.st[t]
      BY <1>5, <2>3
    <3> QED
      BY <2>3, <3>1, <3>2, <3>3 DEF Phase, Sweepable, StepStatus
  <2> QED
    BY <2>1, <2>2, <2>3
<1>7. RunOutcome' = IF RunOutcome = "open" THEN "failed" ELSE RunOutcome
  <2>1. RunOutcome = "open" <=> ~Ended(run)
    BY <1>2 DEF Reading
  <2> QED
    BY <1>5, <2>1 DEF RunOutcome
<1>8. Phase(s) = "active"
  BY <1>3 DEF Phase
<1> QED
  BY <1>5, <1>6, <1>7, <1>8, PromiseFails

LEMMA SuccessIsPromised ==
    ASSUME SoleExecutor, Serene, Serene', NEW e \in Executors, NEW s \in StepId,
           NEW out \in Output, Report(e, s, "done", out)
    PROVE  Promise!Succeed(s) \/ Promise!SucceedWithMore(s)
<1>1. WellFormed(run) /\ Steps(run) \subseteq StepId
  BY SereneFacts
<1>2. Reading /\ Reading'
  BY SereneReading, NextReading
<1>3. /\ s \in Steps(run) /\ run' = StepState(run, s, "done", out)
      /\ Active(s) /\ ~Active(s)'
      /\ \A t \in StepId : t # s => (Active(t)' <=> Active(t))
  BY ReportEndsOne
<1>4. "done" # "keep" /\ "done" \in StepStatus \cup {"keep"}
  BY DEF StepStatus
<1> DEFINE p == Patched(run, s, "done", out)
<1>5. /\ SameGraph(run, p) /\ p.status = run.status /\ p.st[s] = "done"
      /\ \A t \in StepId : t # s => p.st[t] = run.st[t]
  BY <1>1, <1>3, <1>4, PatchedFields
<1>6. /\ WellFormed(p) /\ p \in Run /\ Steps(p) = Steps(run) /\ WellFormed(run')
      /\ DoneBranch(p, run', s)
  <2> DEFINE q == StepState(run, s, "done", out)
  <2>1. /\ WellFormed(p) /\ p \in Run /\ Steps(p) = Steps(run) /\ WellFormed(q)
        /\ \/ DoneBranch(p, q, s) \/ SkippedBranch(p, q, s) \/ ErrorBranch(p, q, s)
           \/ p.st[s] \notin {"done", "skipped", "error"} /\ q = p
    BY <1>1, <1>3, <1>4, StepStateCases
  <2>2. run' = q
    BY <1>3
  <2> HIDE DEF p, q
  <2> QED
    BY <1>5, <2>1, <2>2 DEF SkippedBranch, ErrorBranch
<1> HIDE DEF p
<1>7. /\ Phase(s) = "active" /\ run'.st[s] = "done" /\ Phase(s)' = "succeeded"
  <2>1. run'.st[s] = "done"
    BY <1>3, <1>5, <1>6 DEF DoneBranch, NewlyReady
  <2> QED
    BY <1>3, <2>1 DEF Phase
<1>8. ASSUME NEW t \in Steps(run), t # s
      PROVE  Phase(t)' = Phase(t)
  <2>1. /\ t \in StepId
        /\ run'.st[t] = run.st[t] \/ (run.st[t] = "pending" /\ run'.st[t] = "ready")
    BY <1>1, <1>5, <1>6, <1>8 DEF DoneBranch, NewlyReady
  <2> QED
    BY <1>3, <1>8, <2>1 DEF Phase
<1>9. ASSUME NEW t \in StepId, t \notin Steps(run)
      PROVE  Phase(t) = "unknown" /\ ~Active(t)' /\ t # s
  BY <1>2, <1>3, <1>9 DEF Reading
<1>10. CASE SameGraph(p, run') /\ run'.status = Outcome(p, run')
  <2>1. run'.par = run.par /\ Steps(run') = Steps(run)
    BY <1>5, <1>10 DEF SameGraph, Steps
  <2>2. \A t \in StepId : Phase(t)' = IF t = s THEN "succeeded" ELSE Phase(t)
    <3> TAKE t \in StepId
    <3>1. CASE t \in Steps(run)
      BY <1>7, <1>8, <3>1
    <3>2. CASE t \notin Steps(run)
      <4>1. run'.st[t] = "absent"
        BY <1>2, <2>1, <3>2 DEF Reading
      <4> QED
        BY <1>9, <3>2, <4>1 DEF Phase
    <3> QED
      BY <3>1, <3>2
  <2>3. ASSUME ~Ended(run)
        PROVE  AllFinished(run') <=> \A t \in StepId \ {s} :
                    Phase(t) \in {"unknown", "succeeded", "dropped"}
    <3>1. ASSUME NEW t \in Steps(run), t # s
          PROVE  run'.st[t] \in {"done", "skipped"} <=>
                    Phase(t) \in {"succeeded", "dropped"}
      <4>1. t \in StepId /\ (Active(t)' <=> Active(t)) /\ Phase(t)' = Phase(t)
        BY <1>1, <1>3, <1>8, <3>1
      <4>2. CASE Active(t)
        <5>1. /\ Phase(t) = "active" /\ run.st[t] = "running"
          BY <1>2, <2>3, <4>1, <4>2 DEF Reading
        <5>2. run'.st[t] = "running"
          BY <1>5, <1>6, <3>1, <4>1, <5>1 DEF DoneBranch, NewlyReady
        <5> QED
          BY <5>1, <5>2
      <4>3. CASE ~Active(t)
        <5>1. /\ run'.st[t] = "done" <=> Phase(t)' = "succeeded"
              /\ run'.st[t] = "skipped" <=> Phase(t)' = "dropped"
          BY <1>2, <4>1, <4>3 DEF Reading
        <5> QED
          BY <4>1, <5>1
      <4> QED
        BY <4>2, <4>3
    <3>2. \A t \in Steps(run) : t # s => Phase(t) # "unknown"
      BY <1>1, <1>2 DEF Reading
    <3> QED
      BY <1>1, <1>7, <1>9, <2>1, <3>1, <3>2 DEF AllFinished
  <2>4. RunOutcome' = IF RunOutcome = "open" /\ \A t \in StepId \ {s} :
                            Phase(t) \in {"unknown", "succeeded", "dropped"}
                      THEN "succeeded" ELSE RunOutcome
    <3>1. Ended(p) <=> Ended(run)
      BY <1>5 DEF Ended
    <3>2. run'.status = IF ~Ended(run) /\ AllFinished(run') THEN "done" ELSE run.status
      BY <1>5, <1>10, <3>1 DEF Outcome
    <3>3. RunOutcome = "open" <=> ~Ended(run)
      BY <1>2 DEF Reading
    <3>4. CASE ~Ended(run) /\ AllFinished(run')
      BY <2>3, <3>2, <3>3, <3>4 DEF RunOutcome
    <3>5. CASE Ended(run) \/ ~AllFinished(run')
      <4>1. RunOutcome' = RunOutcome
        BY <3>2, <3>5 DEF RunOutcome
      <4> QED
        BY <2>3, <3>3, <3>5, <4>1
    <3> QED
      BY <3>4, <3>5
  <2>5. Promise!Succeed(s)
    BY <1>7, <2>1, <2>2, <2>4, PromiseSucceeds
  <2> QED
    BY <2>5
<1>11. CASE NeedsRepair(p, s) /\ Extended(p, run', s)
  <2> DEFINE first == run.n + 1
             second == run.n + 2
  <2>0. p.n = run.n /\ p.par = run.par
    BY <1>5 DEF SameGraph
  <2>1. /\ Steps(run') = Steps(run) \cup {first, second}
        /\ first \in StepId \ Steps(run) /\ second \in StepId \ Steps(run)
        /\ first # second
    <3>1. s \in Steps(p)
      BY <1>3, <1>6
    <3> QED
      BY <1>6, <1>11, <2>0, <3>1, ExtendedSteps
  <2>2. /\ run'.st[first] = "ready" /\ run'.st[second] = "pending"
        /\ run'.par = [run.par EXCEPT ![first] = {s}, ![second] = {first}]
        /\ run'.status = "running"
    BY <1>11, <2>0 DEF Extended
  <2> HIDE DEF first, second
  <2>3. Phase(first) = "unknown" /\ Phase(second) = "unknown"
    BY <1>9, <2>1
  <2>4. \A t \in StepId :
            Phase(t)' = IF t = s THEN "succeeded"
                        ELSE IF t \in {first, second} THEN "waiting" ELSE Phase(t)
    <3> TAKE t \in StepId
    <3>1. CASE t \in Steps(run)
      BY <1>7, <1>8, <2>1, <3>1
    <3>2. CASE t \in {first, second}
      <4>1. ~Active(t)' /\ t # s /\ run'.st[t] \in {"pending", "ready"}
        BY <1>9, <2>1, <2>2, <3>2
      <4> QED
        BY <3>2, <4>1 DEF Phase
    <3>3. CASE t \notin Steps(run) /\ t \notin {first, second}
      <4>1. run'.st[t] = "absent" /\ ~Active(t)' /\ Phase(t) = "unknown" /\ t # s
        BY <1>2, <1>9, <2>1, <3>3 DEF Reading
      <4> QED
        BY <3>3, <4>1 DEF Phase
    <3> QED
      BY <3>1, <3>2, <3>3
  <2>5. RunOutcome = "open" /\ RunOutcome' = RunOutcome
    <3>1. ~Ended(run)
      BY <1>5, <1>11 DEF NeedsRepair, Ended
    <3> QED
      BY <1>2, <2>2, <3>1 DEF Reading, RunOutcome
  <2>6. Promise!SucceedWithMore(s)
    BY <1>7, <2>1, <2>2, <2>3, <2>4, <2>5, PromiseSucceedsWithMore
  <2> QED
    BY <2>6
<1> QED
  BY <1>6, <1>10, <1>11 DEF DoneBranch

LEMMA SameTasksStutter ==
    ASSUME run'.st = run.st, run'.par = run.par, RunOutcome' = RunOutcome,
           \A t \in StepId : Active(t)' <=> Active(t)
    PROVE  UNCHANGED Promise!vars
<1>1. \A t \in StepId : Phase(t)' = Phase(t)
  BY DEF Phase
<1> QED
  BY <1>1, PromiseStutters

LEMMA StepIsPromised ==
    ASSUME SoleExecutor, ~CanAbort, ~HasBudget, Serene, Serene', [Next]_vars
    PROVE  [Promise!Next]_(Promise!vars)
<1>1. /\ Undisturbed /\ Unfinished /\ WellFormed(run)
      /\ task \in [Executors -> [StepId -> TaskState]]
  BY SereneFacts
<1>2. ASSUME UNCHANGED <<run, task>>
      PROVE  UNCHANGED Promise!vars
  BY <1>2, SameTasksStutter DEF RunOutcome, Active, InFlight
<1>3. ASSUME NEW e \in Executors, ExecutorStep(e)
      PROVE  [Promise!Next]_(Promise!vars)
  <2>1. CASE Start(e)
    <3>1. ~Ended(run) /\ UNCHANGED task
      BY <1>1, <2>1 DEF Start, Unfinished
    <3>2. run'.st = run.st /\ run'.par = run.par /\ run'.status = "running"
      BY <1>1, <2>1, StartedFacts DEF Start, SameGraph
    <3>3. RunOutcome' = RunOutcome
      BY <3>1, <3>2 DEF RunOutcome, Ended, Final
    <3>4. \A t \in StepId : Active(t)' <=> Active(t)
      BY <3>1 DEF Active, InFlight
    <3> QED
      BY <3>2, <3>3, <3>4, SameTasksStutter
  <2>2. CASE FailStuck(e)
    BY <2>2, GivingUpIsPromised DEF Promise!Next
  <2>3. CASE Dispatch(e)
    BY <2>3, DispatchIsPromised DEF Promise!Next
  <2>4. CASE SkipOverBudget(e) \/ AbortOverBudget(e)
    BY <1>1, <2>4 DEF SkipOverBudget, AbortOverBudget, Undisturbed
  <2>5. CASE Enter(e) \/ Preload(e) \/ Poll(e) \/ Join(e)
    <3>1. UNCHANGED <<run, task>>
      BY <2>5 DEF Enter, Preload, Poll, PollEnded, PollOverBudget, PollReady, PollStuck, Join
    <3> QED
      BY <1>2, <3>1
  <2> QED
    BY <1>3, <2>1, <2>2, <2>3, <2>4, <2>5 DEF ExecutorStep
<1>4. ASSUME NEW e \in Executors, NEW s \in StepId, TaskStep(e, s)
      PROVE  [Promise!Next]_(Promise!vars)
  <2>1. CASE Acquire(e, s) \/ Capture(e, s)
    <3>1. UNCHANGED run /\ \A t \in StepId : Active(t)' <=> Active(t)
      BY <1>1, <2>1 DEF Acquire, Capture, Active, InFlight
    <3> QED
      BY <3>1, SameTasksStutter DEF RunOutcome
  <2>2. CASE Succeed(e, s)
    <3>1. PICK out \in Output : Report(e, s, "done", out)
      BY <2>2 DEF Succeed, Output
    <3>2. Promise!Succeed(s) \/ Promise!SucceedWithMore(s)
      BY <3>1, SuccessIsPromised
    <3> QED
      BY <3>2 DEF Promise!Next, Promise!End
  <2>3. CASE Fail(e, s) \/ TimeOut(e, s)
    <3>1. PICK out \in Output : Report(e, s, "error", out)
      BY <2>3 DEF Fail, TimeOut, Output
    <3>2. Promise!Fail(s)
      BY <3>1, FailureIsPromised
    <3> QED
      BY <3>2 DEF Promise!Next, Promise!End
  <2> QED
    BY <1>4, <2>1, <2>2, <2>3 DEF TaskStep
<1>5. CASE UNCHANGED vars
  BY <1>2, <1>5 DEF vars
<1> QED
  BY <1>3, <1>4, <1>5 DEF Next, Abort, ReportUsage

(* run_workflow, left alone with its run, implements WorkflowPromise: its  *)
(* initial states are initial states of the promise, and every step of the *)
(* loop, of a task or of the store is a step the promise allows, or none.  *)
(* (The safety part of KeepsPromise.)                                      *)
THEOREM ThePromiseIsKept ==
    ASSUME SoleExecutor, ~CanAbort, ~HasBudget
    PROVE  Spec => Promise!Init /\ [][Promise!Next]_(Promise!vars)
<1>1. Init => Promise!Init
  <2> SUFFICES ASSUME Init PROVE Promise!Init
    OBVIOUS
  <2>1. PICK g \in Inputs : run = NewRun(g)
    BY DEF Init
  <2>2. GoodGraph(g)
    BY InputsAssumption DEF GoodGraph
  <2>3. WellFormed(run) /\ \A s \in StepId : run.st[s] \in {"absent", "pending", "ready"}
    BY <2>1, <2>2, NewRunWellFormed
  <2>4. run.status = "pending"
    BY <2>1, <2>2, NewRunFacts
  <2>5. run.par \in [StepId -> SUBSET StepId]
    BY <2>3, FieldTypes DEF WellFormed
  <2>6. \A s \in StepId : ~Active(s)
    BY DEF Init, Active, InFlight
  <2>7. \A s \in StepId : Phase(s) \in {"unknown", "waiting"}
    BY <2>3, <2>6 DEF Phase
  <2>8. RunOutcome = "open"
    BY <2>4 DEF RunOutcome
  <2> QED
    BY <2>5, <2>7, <2>8 DEF Promise!Init
<1>2. Serene /\ Serene' /\ [Next]_vars => [Promise!Next]_(Promise!vars)
  BY StepIsPromised
<1> QED
  BY <1>1, <1>2, SereneInvariant, PTL DEF Spec
-----------------------------------------------------------------------------
(* The end of the loop comes nearer.  No step comes back to be started:    *)
(* reports, sweeps and repairs only take steps out of the unstarted.       *)
Unstarted == {"absent", "pending", "ready", "interrupted"}

LEMMA NobodyUnstarts ==
    ASSUME Structure, [Next]_vars
    PROVE  \A s \in StepId : run'.st[s] \in Unstarted => run.st[s] \in Unstarted
<1>1. WellFormed(run)
  BY DEF Structure
<1>2. ASSUME NEW s \in Steps(run), NEW out \in Output,
             NEW status \in {"keep", "running", "done", "error", "skipped"},
             Reported(s, status, out)
      PROVE  \A t \in StepId : run'.st[t] \in Unstarted => run.st[t] \in Unstarted
  <2>1. run' = StepState(run, s, status, out) /\ status \in StepStatus \cup {"keep"}
    BY <1>2 DEF Reported, StepStatus
  <2>2. /\ MovesForward(IF status = "keep" THEN run.st[s] ELSE status, run'.st[s])
        /\ \A t \in StepId : t # s => MovesForward(run.st[t], run'.st[t])
    BY <1>1, <2>1, ReportMoves
  <2> QED
    BY <2>2 DEF MovesForward, Unstarted, Sweepable
<1>3. CASE run' = Aborted(run)
  BY <1>1, <1>3, AbortedFacts DEF Unstarted
<1>4. CASE run' = Started(run)
  BY <1>1, <1>4, StartedFacts
<1>5. CASE UNCHANGED run
  BY <1>5
<1> QED
  BY <1>2, <1>3, <1>4, <1>5, RunChange

(* What an executor's snapshot gains was not started either.               *)
LEMMA SnapshotsAreUnstarted ==
    ASSUME Structure, [Next]_vars
    PROVE  \A e \in Executors, s \in StepId :
                s \in todo'[e] => s \in todo[e] \/ run.st[s] \in Unstarted
<1>1. todo \in [Executors -> SUBSET StepId]
  BY DEF Structure, TypeOK
<1>2. \A s \in StepId :
        s \in Ready(run) \/ s \in FirstOf(With(run, "pending")) => run.st[s] \in Unstarted
  BY DEF Ready, With, FirstOf, Unstarted
<1>3. ASSUME NEW e \in Executors, ExecutorStep(e)
      PROVE  \A d \in Executors, s \in StepId :
                s \in todo'[d] => s \in todo[d] \/ run.st[s] \in Unstarted
  <2>1. CASE PollOverBudget(e) \/ PollReady(e) \/ PollStuck(e)
    BY <1>1, <1>2, <2>1 DEF PollOverBudget, PollReady, PollStuck
  <2>2. CASE SkipOverBudget(e) \/ Dispatch(e) \/ FailStuck(e)
    BY <1>1, <2>2 DEF SkipOverBudget, Dispatch, FailStuck
  <2>3. CASE \/ Enter(e) \/ Start(e) \/ Preload(e) \/ PollEnded(e)
             \/ AbortOverBudget(e) \/ Join(e)
    BY <2>3 DEF Enter, Start, Preload, PollEnded, AbortOverBudget, Join
  <2> QED
    BY <1>3, <2>1, <2>2, <2>3 DEF ExecutorStep, Poll
<1>4. CASE \E e \in Executors, s \in StepId : TaskStep(e, s)
  BY <1>4 DEF TaskStep, Acquire, Succeed, Fail, TimeOut, Report, Capture
<1>5. CASE Abort \/ ReportUsage \/ UNCHANGED vars
  BY <1>5 DEF Abort, ReportUsage, vars
<1> QED
  BY <1>3, <1>4, <1>5 DEF Next

LEMMA FewerSteps ==
    ASSUME Structure, [Next]_vars
    PROVE  StepsAhead' \subseteq StepsAhead
<1>1. /\ \A s \in StepId : run'.st[s] \in Unstarted => run.st[s] \in Unstarted
      /\ \A e \in Executors, s \in StepId :
            s \in todo'[e] => s \in todo[e] \/ run.st[s] \in Unstarted
  BY NobodyUnstarts, SnapshotsAreUnstarted
<1> QED
  BY <1>1 DEF StepsAhead, Unstarted

(* Dispatching or skipping a step takes it out for good.                   *)
LEMMA OneStepFewer ==
    ASSUME Structure, NEW e \in Executors, NEW s \in todo[e],
           NEW status \in {"running", "skipped"},
           run' = StepState(run, s, status, "none"),
           todo' = [todo EXCEPT ![e] = @ \ {s}]
    PROVE  StepsAhead' # StepsAhead
<1>1. /\ todo \in [Executors -> SUBSET StepId] /\ WellFormed(run)
      /\ s \in Steps(run) /\ s \in StepId
  BY FieldTypes DEF Structure, TypeOK
<1>2. MovesForward(status, run'.st[s])
  BY <1>1, ReportMoves DEF StepStatus, Output
<1>3. run'.st[s] \notin {"absent", "pending", "ready", "interrupted"}
  BY <1>2 DEF MovesForward
<1> DEFINE p == <<e, s>>
<1>4. p \in StepsAhead /\ p \notin StepsAhead'
  BY <1>1, <1>3 DEF StepsAhead
<1> QED
  BY <1>4

(* A task moves to a later stage.                                          *)
LEMMA OneStageFewer ==
    ASSUME Structure, NEW e \in Executors, NEW s \in StepId, NEW stage,
           task' = [task EXCEPT ![e][s] = stage],
           \/ task[e][s] = "queued" /\ stage = "running"
           \/ task[e][s] = "running" /\ stage = "reported"
           \/ task[e][s] = "reported" /\ stage = "none"
    PROVE  TasksAhead' \subseteq TasksAhead /\ TasksAhead' # TasksAhead
<1>1. task \in [Executors -> [StepId -> TaskState]]
  BY DEF Structure, TypeOK
<1>2. /\ task'[e][s] = stage
      /\ \A d \in Executors, t \in StepId :
            <<d, t>> # <<e, s>> => task'[d][t] = task[d][t]
  BY <1>1
<1>3. /\ StagesLeft["none"] = 0 /\ StagesLeft["reported"] = 1
      /\ StagesLeft["running"] = 2 /\ StagesLeft["queued"] = 3
  BY DEF StagesLeft
<1>4. \A d \in Executors, t \in StepId, n \in 1..3 :
        n <= StagesLeft[task'[d][t]] => n <= StagesLeft[task[d][t]]
  BY <1>2, <1>3
<1> DEFINE p == <<e, s, StagesLeft[task[e][s]]>>
<1>5. p \in TasksAhead /\ p \notin TasksAhead'
  BY <1>2, <1>3 DEF TasksAhead
<1> QED
  BY <1>4, <1>5 DEF TasksAhead

(* An executor moves to a later place of its loop.                         *)
LEMMA OnePlaceFewer ==
    ASSUME Structure, NEW e \in Executors, NEW label, Goto(e, label),
           PlacesLeft[label] \in 0..4, PlacesLeft[pc[e]] \in 1..5,
           PlacesLeft[label] < PlacesLeft[pc[e]], UNCHANGED task
    PROVE  /\ TasksAhead' = TasksAhead
           /\ PlacesAhead' \subseteq PlacesAhead /\ PlacesAhead' # PlacesAhead
<1>1. pc \in [Executors -> PC]
  BY DEF Structure, TypeOK
<1>2. pc'[e] = label /\ \A d \in Executors : d # e => pc'[d] = pc[d]
  BY <1>1 DEF Goto
<1>3. \A d \in Executors, n \in 1..5 :
        n <= PlacesLeft[pc'[d]] => n <= PlacesLeft[pc[d]]
  BY <1>2
<1> DEFINE p == <<e, PlacesLeft[pc[e]]>>
<1>4. p \in PlacesAhead /\ p \notin PlacesAhead'
  BY <1>2 DEF PlacesAhead
<1>5. TasksAhead' = TasksAhead
  BY DEF TasksAhead
<1> QED
  BY <1>3, <1>4, <1>5 DEF PlacesAhead

LEMMA Places ==
    /\ PlacesLeft["idle"] = 5 /\ PlacesLeft["checked"] = 4
    /\ PlacesLeft["started"] = 3 /\ PlacesLeft["joining"] = 3
    /\ PlacesLeft["polling"] = 2 /\ PlacesLeft["dispatching"] = 1
    /\ PlacesLeft["draining"] = 1 /\ PlacesLeft["stuck"] = 1
    /\ PlacesLeft["returned"] = 0
  BY DEF PlacesLeft

(* Whatever clients and other executors do to the run, no loop of          *)
(* run_workflow goes round for nothing: every move of an executor or task  *)
(* leaves fewer steps to start, or fewer stages of tasks, or fewer places  *)
(* of loops, in this order, with any number of executors.                  *)
THEOREM EveryMoveBringsTheEndNearer == Spec => EndComesNearer
<1> DEFINE Nearer ==
        \/ StepsAhead' # StepsAhead
        \/ TasksAhead' \subseteq TasksAhead /\ TasksAhead' # TasksAhead
        \/ /\ TasksAhead' = TasksAhead
           /\ PlacesAhead' \subseteq PlacesAhead /\ PlacesAhead' # PlacesAhead
<1>1. ASSUME Structure, [Next]_vars
      PROVE  /\ StepsAhead' \subseteq StepsAhead
             /\ <<pc, todo, task>>' # <<pc, todo, task>> => Nearer
  <2>1. ASSUME NEW e \in Executors, ExecutorStep(e) PROVE Nearer
    <3>1. CASE Enter(e)
      BY <1>1, <3>1, OnePlaceFewer, Places DEF Enter
    <3>2. CASE Start(e) \/ Preload(e) \/ Join(e)
      BY <1>1, <3>2, OnePlaceFewer, Places DEF Start, Preload, Join
    <3>3. CASE Poll(e)
      BY <1>1, <3>3, OnePlaceFewer, Places
         DEF Poll, PollEnded, PollOverBudget, PollReady, PollStuck
    <3>4. CASE AbortOverBudget(e) \/ FailStuck(e)
      BY <1>1, <3>4, OnePlaceFewer, Places DEF AbortOverBudget, FailStuck
    <3>5. CASE SkipOverBudget(e) \/ Dispatch(e)
      <4>1. PICK s \in todo[e], status \in {"running", "skipped"} :
                /\ run' = StepState(run, s, status, "none")
                /\ todo' = [todo EXCEPT ![e] = @ \ {s}]
        BY <3>5, FirstOfSubset DEF SkipOverBudget, Dispatch
      <4> QED
        BY <1>1, <4>1, OneStepFewer
    <3> QED
      BY <2>1, <3>1, <3>2, <3>3, <3>4, <3>5 DEF ExecutorStep
  <2>2. ASSUME NEW e \in Executors, NEW s \in StepId, TaskStep(e, s) PROVE Nearer
    BY <1>1, <2>2, OneStageFewer
       DEF TaskStep, Acquire, Succeed, Fail, TimeOut, Report, Capture
  <2>3. ASSUME Abort \/ ReportUsage \/ UNCHANGED vars
        PROVE  <<pc, todo, task>>' = <<pc, todo, task>>
    BY <2>3 DEF Abort, ReportUsage, vars
  <2>4. StepsAhead' \subseteq StepsAhead
    BY <1>1, FewerSteps
  <2> HIDE DEF Nearer
  <2>5. Nearer \/ <<pc, todo, task>>' = <<pc, todo, task>>
    BY <1>1, <2>1, <2>2, <2>3 DEF Next
  <2> QED
    BY <2>4, <2>5 DEF Nearer
<1>2. Structure /\ [Next]_vars =>
        [/\ StepsAhead' \subseteq StepsAhead
         /\ <<pc, todo, task>>' # <<pc, todo, task>> => Nearer]_vars
  BY <1>1
<1> QED
  BY <1>2, StructureInvariant, PTL DEF Spec, EndComesNearer

(* What is ahead, compared in this order, cannot become less for ever.     *)
ProperlyBelow(S) ==
    {ss \in (SUBSET S) \X (SUBSET S) : ss[1] \subseteq ss[2] /\ ss[1] # ss[2]}

LEMMA ProperSubsetsWellFounded ==
    ASSUME NEW S, IsFiniteSet(S)
    PROVE  IsWellFoundedOn(ProperlyBelow(S), SUBSET S)
<1> DEFINE R == ProperlyBelow(S)
<1>1. ASSUME NEW T \in SUBSET (SUBSET S), T # {}
      PROVE  \E x \in T : \A y \in T : ~ (<<y, x>> \in R)
  <2> DEFINE sizes == {Cardinality(x) : x \in T}
  <2>1. \A x \in T : IsFiniteSet(x) /\ Cardinality(x) \in Nat
    BY <1>1, FS_Subset, FS_CardinalityType
  <2>2. sizes \subseteq Nat /\ sizes # {}
    BY <1>1, <2>1
  <2>3. PICK Q : /\ IsWellFoundedOn(Q, Nat)
                 /\ \A m, n \in Nat : <<m, n>> \in Q <=> m < n
    BY LessThanWellFounded
  <2> HIDE DEF sizes
  <2>4. IsWellFoundedOn(Q, Nat)
    BY <2>3
  <2>5. \E n \in sizes : \A m \in sizes : ~ (<<m, n>> \in Q)
    BY <2>2, <2>4, WFMin
  <2>6. PICK x \in T : \A m \in sizes : ~ (<<m, Cardinality(x)>> \in Q)
    BY <2>5 DEF sizes
  <2>7. ASSUME NEW y \in T PROVE ~ (<<y, x>> \in R)
    <3>1. ~ (Cardinality(y) < Cardinality(x))
      <4>1. Cardinality(y) \in sizes /\ Cardinality(x) \in Nat /\ Cardinality(y) \in Nat
        BY <2>1 DEF sizes
      <4> QED
        BY <2>3, <2>6, <4>1
    <3>2. y \subseteq x /\ y # x => Cardinality(y) < Cardinality(x)
      <4>1. IsFiniteSet(x)
        BY <2>1
      <4>2. ASSUME y \in SUBSET x, y # x PROVE Cardinality(y) < Cardinality(x)
        <5>1. /\ Cardinality(y) <= Cardinality(x)
              /\ Cardinality(x) = Cardinality(y) => x = y
          BY <4>1, <4>2, FS_Subset
        <5>2. Cardinality(x) # Cardinality(y)
          BY <4>2, <5>1
        <5> HIDE <4>2
        <5> QED
          BY <2>1, <5>1, <5>2
      <4> QED
        BY <4>2
    <3> QED
      BY <3>1, <3>2 DEF ProperlyBelow
  <2> QED
    BY <2>7
<1> HIDE DEF R
<1>2. IsWellFoundedOn(R, SUBSET S)
  BY <1>1, MinWF
<1> QED
  BY <1>2 DEF R

AllSteps  == Executors \X StepId
AllTasks  == Executors \X StepId \X (1..3)
AllPlaces == Executors \X (1..5)

Ahead == <<<<StepsAhead, TasksAhead>>, PlacesAhead>>
Aheads == ((SUBSET AllSteps) \X (SUBSET AllTasks)) \X (SUBSET AllPlaces)

LessAhead ==
    LexPairOrdering(
        LexPairOrdering(ProperlyBelow(AllSteps), ProperlyBelow(AllTasks),
                        SUBSET AllSteps, SUBSET AllTasks),
        ProperlyBelow(AllPlaces),
        (SUBSET AllSteps) \X (SUBSET AllTasks), SUBSET AllPlaces)

LEMMA AheadWellFounded ==
    ASSUME IsFiniteSet(Executors)
    PROVE  IsWellFoundedOn(LessAhead, Aheads)
<1>1. IsFiniteSet(StepId) /\ IsFiniteSet(1..3) /\ IsFiniteSet(1..5)
  <2>1. 1 \in Int /\ 3 \in Int /\ 5 \in Int /\ MaxSteps \in Int
    BY BoundsAssumption
  <2>2. IsFiniteSet(1..3) /\ IsFiniteSet(1..5)
    BY <2>1, FS_Interval
  <2>3. IsFiniteSet(1..MaxSteps)
    BY <2>1, FS_Interval
  <2> QED
    BY <2>2, <2>3 DEF StepId
<1>2. IsFiniteSet(AllSteps)
  BY <1>1, FS_Product DEF AllSteps
<1>3. IsFiniteSet(AllPlaces)
  BY <1>1, FS_Product DEF AllPlaces
<1>4. IsFiniteSet(AllTasks)
  <2> DEFINE pairs == AllSteps \X (1..3)
             f == [q \in pairs |-> <<q[1][1], q[1][2], q[2]>>]
  <2>1. IsFiniteSet(pairs)
    BY <1>1, <1>2, FS_Product
  <2>2. f \in [pairs -> AllTasks]
    BY DEF AllSteps, AllTasks
  <2>3. ASSUME NEW t \in AllTasks PROVE \E q \in pairs : f[q] = t
    <3> DEFINE q == <<<<t[1], t[2]>>, t[3]>>
    <3>1. q \in pairs /\ f[q] = t
      BY DEF AllSteps, AllTasks
    <3> QED
      BY <3>1
  <2> HIDE DEF f, pairs
  <2>4. f \in Surjection(pairs, AllTasks)
    BY <2>2, <2>3 DEF Surjection
  <2> QED
    BY <2>1, <2>4, FS_Surjection
<1> DEFINE first == LexPairOrdering(ProperlyBelow(AllSteps), ProperlyBelow(AllTasks),
                                    SUBSET AllSteps, SUBSET AllTasks)
<1>5. IsWellFoundedOn(first, (SUBSET AllSteps) \X (SUBSET AllTasks))
  <2>1. IsWellFoundedOn(ProperlyBelow(AllSteps), SUBSET AllSteps)
    BY <1>2, ProperSubsetsWellFounded
  <2>2. IsWellFoundedOn(ProperlyBelow(AllTasks), SUBSET AllTasks)
    BY <1>4, ProperSubsetsWellFounded
  <2> QED
    BY <2>1, <2>2, WFLexPairOrdering
<1>6. IsWellFoundedOn(ProperlyBelow(AllPlaces), SUBSET AllPlaces)
  BY <1>3, ProperSubsetsWellFounded
<1> HIDE DEF first
<1>7. IsWellFoundedOn(
        LexPairOrdering(first, ProperlyBelow(AllPlaces),
                        (SUBSET AllSteps) \X (SUBSET AllTasks), SUBSET AllPlaces),
        ((SUBSET AllSteps) \X (SUBSET AllTasks)) \X (SUBSET AllPlaces))
  BY <1>5, <1>6, WFLexPairOrdering
<1> QED
  BY <1>7 DEF LessAhead, Aheads, first

(* Executors and their tasks move only finitely often, however many there  *)
(* are and whatever clients do: what is ahead of them is a value of a      *)
(* well-founded order, and every move of theirs lessens it.                *)
THEOREM MovesComeToAnEnd ==
    ASSUME IsFiniteSet(Executors)
    PROVE  /\ IsWellFoundedOn(LessAhead, Aheads)
           /\ Spec => [][<<pc, todo, task>>' # <<pc, todo, task>> =>
                            <<Ahead', Ahead>> \in LessAhead]_vars
<1>1. Ahead \in Aheads
  BY DEF Ahead, Aheads, StepsAhead, TasksAhead, PlacesAhead, AllSteps, AllTasks, AllPlaces
<1>2. Ahead' \in Aheads
  BY DEF Ahead, Aheads, StepsAhead, TasksAhead, PlacesAhead, AllSteps, AllTasks, AllPlaces
<1> DEFINE Nearer ==
        /\ StepsAhead' \subseteq StepsAhead
        /\ <<pc, todo, task>>' # <<pc, todo, task>> =>
            \/ StepsAhead' # StepsAhead
            \/ TasksAhead' \subseteq TasksAhead /\ TasksAhead' # TasksAhead
            \/ /\ TasksAhead' = TasksAhead
               /\ PlacesAhead' \subseteq PlacesAhead /\ PlacesAhead' # PlacesAhead
           Lessened ==
        <<pc, todo, task>>' # <<pc, todo, task>> => <<Ahead', Ahead>> \in LessAhead
<1>3. Nearer => Lessened
  <2> SUFFICES ASSUME Nearer, <<pc, todo, task>>' # <<pc, todo, task>>
               PROVE  <<Ahead', Ahead>> \in LessAhead
    OBVIOUS
  <2> DEFINE a == <<StepsAhead', TasksAhead'>>
             b == <<StepsAhead, TasksAhead>>
             first == LexPairOrdering(ProperlyBelow(AllSteps), ProperlyBelow(AllTasks),
                                      SUBSET AllSteps, SUBSET AllTasks)
  <2>1. /\ StepsAhead \in SUBSET AllSteps /\ StepsAhead' \in SUBSET AllSteps
        /\ TasksAhead \in SUBSET AllTasks /\ TasksAhead' \in SUBSET AllTasks
        /\ PlacesAhead \in SUBSET AllPlaces /\ PlacesAhead' \in SUBSET AllPlaces
    BY DEF StepsAhead, TasksAhead, PlacesAhead, AllSteps, AllTasks, AllPlaces
  <2>2. CASE StepsAhead' # StepsAhead
    <3>1. <<StepsAhead', StepsAhead>> \in ProperlyBelow(AllSteps)
      BY <2>1, <2>2 DEF ProperlyBelow
    <3>2. <<a, b>> \in first
      BY <2>1, <3>1 DEF LexPairOrdering
    <3> QED
      BY <2>1, <3>2 DEF LexPairOrdering, LessAhead, Ahead
  <2>3. CASE /\ StepsAhead' = StepsAhead
             /\ TasksAhead' \subseteq TasksAhead /\ TasksAhead' # TasksAhead
    <3>1. <<TasksAhead', TasksAhead>> \in ProperlyBelow(AllTasks)
      BY <2>1, <2>3 DEF ProperlyBelow
    <3>2. <<a, b>> \in first
      BY <2>1, <2>3, <3>1 DEF LexPairOrdering
    <3> QED
      BY <2>1, <3>2 DEF LexPairOrdering, LessAhead, Ahead
  <2>4. CASE /\ StepsAhead' = StepsAhead /\ TasksAhead' = TasksAhead
             /\ PlacesAhead' \subseteq PlacesAhead /\ PlacesAhead' # PlacesAhead
    <3>1. <<PlacesAhead', PlacesAhead>> \in ProperlyBelow(AllPlaces)
      BY <2>1, <2>4 DEF ProperlyBelow
    <3> QED
      BY <2>1, <2>4, <3>1 DEF LexPairOrdering, LessAhead, Ahead
  <2> QED
    BY <2>2, <2>3, <2>4
<1> HIDE DEF Nearer, Lessened
<1>4. [Nearer]_vars => [Lessened]_vars
  BY <1>3
<1>5. EndComesNearer => [][Lessened]_vars
  BY <1>4, PTL DEF EndComesNearer, Nearer
<1>6. Spec => [][Lessened]_vars
  BY <1>5, EveryMoveBringsTheEndNearer, PTL
<1> QED
  BY <1>6, AheadWellFounded DEF Lessened

(* Until all executors have returned somebody can go on, with any number   *)
(* of executors and permits: a step that one sleeps for has a task, tasks  *)
(* that one joins are its own, and a task waits for a permit only while    *)
(* another task holds it, which waits for nobody.                          *)
THEOREM NobodyWaitsInACircle == Spec => []SomebodyGoesOn
<1>1. ASSUME Structure, Driven PROVE SomebodyGoesOn
  <2>1. ASSUME NEW e \in Executors, NEW s \in StepId, task[e][s] # "none"
        PROVE  \E t \in StepId : task[e][t] # "none" /\ ~AwaitsPermit(e, t)
    <3>1. CASE AwaitsPermit(e, s)
      <4>1. Cardinality(HoldingPermit(e)) # 0
        BY <3>1, ExecutorAssumption DEF AwaitsPermit
      <4>2. HoldingPermit(e) # {}
        BY <4>1, FS_EmptySet
      <4>3. PICK t \in StepId : task[e][t] \in {"running", "reported"}
        BY <4>2 DEF HoldingPermit
      <4> QED
        BY <4>3 DEF AwaitsPermit
    <3> QED
      BY <2>1, <3>1
  <2>2. ASSUME NEW e \in Executors, pc[e] # "returned", AwaitsTasks(e)
        PROVE  SomebodyGoesOn
    BY <2>1, <2>2 DEF AwaitsTasks, SomebodyGoesOn
  <2>3. ASSUME NEW e \in Executors, pc[e] # "returned", Sleeps(e)
        PROVE  SomebodyGoesOn
    <3>1. PICK s \in StepId : run.st[s] = "running"
      BY <1>1, <2>3, FieldTypes DEF Sleeps, With, Structure, WellFormed
    <3>2. PICK d \in Executors : InFlight(d, s)
      BY <1>1, <3>1 DEF Driven
    <3> QED
      BY <2>1, <3>2 DEF InFlight, SomebodyGoesOn
  <2> QED
    BY <2>2, <2>3 DEF SomebodyGoesOn
<1> QED
  BY <1>1, StructureInvariant, DrivenInvariant, PTL
=============================================================================
