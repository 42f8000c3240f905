----------------------- MODULE WorkflowRecoveryProofs -----------------------
(***************************************************************************)
(* Theorems about WorkflowRecovery: the run of a sole executor and its     *)
(* copy in workflows.json, for every graph, whatever the order in which    *)
(* the clones reach the file and however often the server crashes.         *)
(***************************************************************************)
EXTENDS WorkflowRecovery, WorkflowExecutorProofs

(* What a run says of itself, in memory, in the file and in every clone    *)
(* still to be written: a step that is or was at work had its parents      *)
(* done, and while the run is open nothing in it failed or was skipped,    *)
(* so the parents that have ended, resume's rule, are done.                *)
Coherent(r) ==
    /\ WellFormed(r) /\ Sound(r)
    /\ \A t \in StepId : r.st[t] \in {"ready", "running", "interrupted"} =>
            ParentsAll(r, t, {"done"})
    /\ \A t \in StepId : r.st[t] = "interrupted" => r.status = "interrupted"
    /\ ~Ended(r) => \A t \in StepId : r.st[t] \notin {"skipped", "error"}

(* The executor never drains an exhausted budget and, having seen the run  *)
(* open, finds it open when it starts it.                                  *)
Unhindered ==
    /\ overspent = FALSE
    /\ \A e \in Executors : pc[e] # "draining" /\ (pc[e] = "checked" => ~Ended(run))

(* The inductive invariant: coherent copies, and an executor that has its  *)
(* hands empty whenever the server is not up.                              *)
Recovered ==
    /\ Structure /\ Phases /\ Unhindered
    /\ Coherent(run) /\ Coherent(disk)
    /\ writing \in [Executors -> [Thread -> SUBSET Run]]
    /\ \A e \in Executors, t \in Thread : \A r \in writing[e][t] : Coherent(r)
    /\ boot = "up" => Order /\ Driven
    /\ boot # "up" => \A e \in Executors : pc[e] = "idle"
    /\ boot \in {"restored", "resuming"} => ~Ended(run)
    /\ boot = "resuming" => \A s \in StepId : run.st[s] # "running"

LEMMA StepsOfRun ==
    ASSUME NEW r, WellFormed(r)
    PROVE  /\ r \in Run /\ Steps(r) \subseteq StepId
           /\ \A t \in StepId : t \in Steps(r) \/ r.st[t] = "absent"
           /\ \A t \in StepId : r.par[t] \subseteq StepId
<1>1. r \in Run /\ Steps(r) \subseteq StepId /\ r.n \in Nat
  BY FieldTypes DEF WellFormed
<1>2. \A t \in StepId : t \in Steps(r) \/ r.st[t] = "absent"
  BY <1>1, BoundsAssumption DEF WellFormed, Steps, StepId
<1>3. \A t \in StepId : r.par[t] \subseteq StepId
  BY <1>1 DEF WellFormed
<1> QED
  BY <1>1, <1>2, <1>3

LEMMA NewRunCoherent ==
    ASSUME NEW g, GoodGraph(g)
    PROVE  Coherent(NewRun(g))
<1> DEFINE r == NewRun(g)
<1>1. /\ WellFormed(r)
      /\ \A s \in StepId : r.st[s] \in {"absent", "pending", "ready"}
      /\ \A s \in StepId : r.st[s] = "ready" => r.par[s] = {}
  BY NewRunWellFormed
<1>2. Sound(r)
  BY NewRunFacts
<1> HIDE DEF r
<1>3. \A s \in StepId : r.st[s] \notin {"running", "interrupted", "skipped", "error"}
  BY <1>1
<1>4. \A s \in StepId : r.st[s] = "ready" => ParentsAll(r, s, {"done"})
  BY <1>1 DEF ParentsAll
<1> QED
  BY <1>1, <1>2, <1>3, <1>4 DEF Coherent, r

LEMMA InitRecovered == RecoveryInit => Recovered
<1> SUFFICES ASSUME RecoveryInit PROVE Recovered
  OBVIOUS
<1>1. Structure /\ Order
  BY InitStructure, InitOrder DEF RecoveryInit
<1>2. PICK g \in Inputs : run = NewRun(g)
  BY DEF RecoveryInit, Init
<1>3. Coherent(run)
  BY <1>2, NewRunCoherent, InputsAssumption DEF GoodGraph
<1>4. \A s \in StepId : run.st[s] # "running"
  <2>1. \A s \in StepId : run.st[s] \in {"absent", "pending", "ready"}
    BY <1>2, InputsAssumption, NewRunWellFormed DEF GoodGraph
  <2> QED
    BY <2>1
<1>5. Phases /\ Unhindered
  BY DEF RecoveryInit, Init, Phases, Unhindered
<1>6. writing \in [Executors -> [Thread -> SUBSET Run]]
      /\ \A e \in Executors, t \in Thread : writing[e][t] = {}
  BY DEF RecoveryInit, NoWrites
<1>7. Driven
  BY <1>4 DEF Driven
<1> QED
  BY <1>1, <1>3, <1>5, <1>6, <1>7 DEF RecoveryInit, Recovered

-----------------------------------------------------------------------------
(* The steps of the executor and of its tasks.                             *)
Works ==
    \/ \E e \in Executors : ExecutorStep(e)
    \/ \E e \in Executors, s \in StepId : TaskStep(e, s)

LEMMA WorksUnhindered ==
    ASSUME SoleExecutor, Structure, Phases, Unhindered, Works
    PROVE  Unhindered'
<1>1. /\ pc \in [Executors -> PC] /\ \A d, e \in Executors : d = e
      /\ overspent = FALSE
      /\ \A e \in Executors : pc[e] # "draining" /\ (pc[e] = "checked" => ~Ended(run))
  BY DEF Structure, TypeOK, SoleExecutor, Unhindered
<1>2. ASSUME NEW e \in Executors, ExecutorStep(e)
      PROVE  Unhindered'
  <2>1. ASSUME UNCHANGED overspent, pc'[e] \notin {"draining", "checked"}
        PROVE  Unhindered'
    BY <1>1, <2>1 DEF Unhindered
  <2>2. CASE Enter(e)
    <3>1. UNCHANGED <<run, overspent>> /\ pc'[e] = IF Ended(run) THEN "returned" ELSE "checked"
      BY <1>1, <2>2 DEF Enter, Goto
    <3> QED
      BY <1>1, <3>1 DEF Unhindered, Ended
  <2>3. CASE PollOverBudget(e) \/ SkipOverBudget(e) \/ AbortOverBudget(e)
    BY <1>1, <2>3 DEF PollOverBudget, SkipOverBudget, AbortOverBudget
  <2>4. CASE Dispatch(e)
    <3>1. \E s \in FirstOf(todo[e]) :
            Goto(e, IF todo[e] = {s} THEN "joining" ELSE "dispatching")
      BY <2>4 DEF Dispatch
    <3>2. UNCHANGED overspent /\ pc'[e] \in {"joining", "dispatching"}
      BY <1>1, <2>4, <3>1 DEF Dispatch, Goto
    <3> QED
      BY <2>1, <3>2
  <2>5. CASE Start(e) \/ Preload(e) \/ PollEnded(e) \/ PollReady(e) \/ PollStuck(e)
             \/ FailStuck(e) \/ Join(e)
    BY <1>1, <2>1, <2>5 DEF Start, Preload, PollEnded, PollReady, PollStuck,
                            FailStuck, Join, Goto
  <2> QED
    BY <1>2, <2>2, <2>3, <2>4, <2>5 DEF ExecutorStep, Poll
<1>3. ASSUME NEW e \in Executors, NEW s \in StepId, TaskStep(e, s)
      PROVE  Unhindered'
  <2>1. UNCHANGED <<pc, overspent>> /\ task[e][s] # "none"
    BY <1>3 DEF TaskStep, Acquire, Succeed, Fail, TimeOut, Report, Capture
  <2>2. \A d \in Executors : pc[d] # "checked"
    BY <1>1, <2>1 DEF Phases
  <2> QED
    BY <1>1, <2>1, <2>2 DEF Unhindered
<1> QED
  BY <1>2, <1>3 DEF Works

LEMMA ReportCoherent ==
    ASSUME Structure, Order, Coherent(run), NEW s \in Steps(run), NEW out \in Output,
           NEW status \in {"keep", "running", "done", "error"},
           Reported(s, status, out)
    PROVE  /\ Sound(run')
           /\ ~Ended(run') => \A t \in StepId : run'.st[t] \notin {"skipped", "error"}
<1> DEFINE given == IF status = "keep" THEN run.st[s] ELSE status
<1>1. /\ run' = StepState(run, s, status, out) /\ status \in StepStatus \cup {"keep"}
      /\ WellFormed(run) /\ Sound(run) /\ s \in StepId
      /\ ~Ended(run) => \A t \in StepId : run.st[t] \notin {"skipped", "error"}
  BY FieldTypes DEF Reported, StepStatus, Coherent, WellFormed
<1>2. /\ run.st[s] = "done" => status \in {"keep", "done"}
      /\ status = "done" => ParentsAll(run, s, {"done"}) /\ out # "none"
  BY ReportSound
<1>3. Sound(run')
  BY <1>1, <1>2, SoundKept
<1>4. /\ Ended(run) => run'.status = run.status
      /\ given = "error" => Ended(run')
      /\ given = "done" =>
            \A t \in Steps(run') : run'.st[t] = "skipped" => run.st[t] = "skipped"
  BY <1>1, StepStateJudged
<1>5. /\ MovesForward(given, run'.st[s]) /\ WellFormed(run')
      /\ \A t \in StepId : t # s => MovesForward(run.st[t], run'.st[t])
  BY <1>1, ReportMoves
<1>6. ~Ended(run') => given \notin {"error", "skipped"}
  BY <1>1, <1>4 DEF Ended
<1>7. given \notin {"done", "skipped", "error"} =>
        run'.st[s] = given /\ \A t \in StepId : t # s => run'.st[t] = run.st[t]
  BY <1>1, OnlyPatched
<1> HIDE DEF given
<1>8. ASSUME ~Ended(run'), NEW t \in StepId, run'.st[t] \in {"skipped", "error"}
      PROVE  FALSE
  <2>1. ~Ended(run) /\ run.st[t] \notin {"skipped", "error"}
    BY <1>1, <1>4, <1>8 DEF Ended
  <2>2. CASE given = "done"
    <3>1. t \in Steps(run')
      BY <1>5, <1>8, StepsOfRun
    <3>2. run'.st[t] = "error"
      BY <1>4, <1>8, <2>1, <2>2, <3>1
    <3> QED
      BY <1>5, <2>1, <2>2, <3>2 DEF MovesForward
  <2>3. CASE given # "done"
    BY <1>6, <1>7, <1>8, <2>1, <2>3
  <2> QED
    BY <2>2, <2>3
<1> QED
  BY <1>3, <1>8

LEMMA WorksCoherent ==
    ASSUME SoleExecutor, Structure, Order, Driven, Unhindered, Coherent(run), Works
    PROVE  Structure' /\ Order' /\ Driven' /\ Coherent(run')
<1>1. [Next]_vars
  BY DEF Works, Next
<1>2. Structure' /\ Order' /\ Driven'
  BY <1>1, StructureStep, OrderStep, DrivenStep
<1>3. WellFormed(run) /\ WellFormed(run') /\ Sound(run)
  BY <1>2 DEF Structure, Coherent
<1>4. \A t \in StepId : run'.st[t] \in {"ready", "running"} => ParentsAll(run', t, {"done"})
  <2> TAKE t \in StepId
  <2>1. CASE run'.st[t] = "ready"
    BY <1>2, <2>1 DEF Order
  <2>2. CASE run'.st[t] = "running"
    <3>1. PICK e \in Executors : InFlight(e, t)'
      BY <1>2, <2>2 DEF Driven
    <3> QED
      BY <1>2, <3>1 DEF Order
  <2> QED
    BY <2>1, <2>2
<1>5. \A t \in StepId : run'.st[t] # "interrupted"
  BY <1>2 DEF Order
<1>6. ASSUME Sound(run'),
             ~Ended(run') => \A t \in StepId : run'.st[t] \notin {"skipped", "error"}
      PROVE  Coherent(run')
  BY <1>3, <1>4, <1>5, <1>6 DEF Coherent
<1>7. ASSUME UNCHANGED run PROVE Coherent(run')
  BY <1>7
<1>8. ASSUME run' = Aborted(run) PROVE Coherent(run')
  <2>1. Sound(run') /\ run'.status = "aborted"
    BY <1>3, <1>8, AbortedFacts
  <2> QED
    BY <1>6, <2>1 DEF Ended, Final
<1>9. ASSUME run' = Started(run), \E e \in Executors : pc[e] = "checked"
      PROVE  Coherent(run')
  <2>1. Sound(run') /\ run'.st = run.st
    BY <1>3, <1>9, StartedFacts
  <2>2. ~Ended(run)
    BY <1>9 DEF Unhindered
  <2>3. \A t \in StepId : run'.st[t] \notin {"skipped", "error"}
    BY <2>1, <2>2 DEF Coherent
  <2> QED
    BY <1>6, <2>1, <2>3
<1>10. ASSUME NEW s \in Steps(run), NEW out \in Output,
              NEW status \in {"keep", "running", "done", "error", "skipped"},
              Reported(s, status, out)
       PROVE  Coherent(run')
  <2>1. status # "skipped"
    BY <1>10 DEF Reported, Unhindered
  <2> QED
    BY <1>6, <1>10, <2>1, ReportCoherent
<1> QED
  BY <1>1, <1>2, <1>7, <1>8, <1>9, <1>10, RunChange

(* A thread of the executor, with the clone it leaves to be written.       *)
LEMMA ThreadStep ==
    ASSUME SoleExecutor, Recovered, Works, boot = "up", UNCHANGED <<disk, boot, crashes>>,
           NEW e \in Executors, NEW t \in Thread, CloneIfChanged(e, t)
    PROVE  Recovered'
<1>1. Structure' /\ Order' /\ Driven' /\ Coherent(run') /\ Unhindered'
  BY WorksCoherent, WorksUnhindered DEF Recovered
<1>2. Phases'
  BY PhasesStep DEF Recovered, Works, Next
<1>3. Coherent(disk')
  BY DEF Recovered
<1>4. /\ writing' \in [Executors -> [Thread -> SUBSET Run]]
      /\ \A d \in Executors, u \in Thread : \A r \in writing'[d][u] : Coherent(r)
  <2>1. /\ writing \in [Executors -> [Thread -> SUBSET Run]]
        /\ \A d \in Executors, u \in Thread : \A r \in writing[d][u] : Coherent(r)
    BY DEF Recovered
  <2>2. run' \in Run
    BY <1>1 DEF Coherent, WellFormed
  <2>3. CASE writing' = writing
    BY <2>1, <2>3
  <2>4. CASE writing' = [writing EXCEPT ![e][t] = {run'}]
    <3>1. writing' \in [Executors -> [Thread -> SUBSET Run]]
      BY <2>1, <2>2, <2>4
    <3>2. \A d \in Executors, u \in Thread :
            writing'[d][u] = writing[d][u] \/ writing'[d][u] = {run'}
      BY <2>1, <2>4
    <3>3. \A d \in Executors, u \in Thread : \A r \in writing'[d][u] : Coherent(r)
      BY <1>1, <2>1, <3>2
    <3> QED
      BY <3>1, <3>3
  <2> QED
    BY <2>3, <2>4 DEF CloneIfChanged
<1> QED
  BY <1>1, <1>2, <1>3, <1>4 DEF Recovered

-----------------------------------------------------------------------------
(* The restart.                                                            *)
EmptyHanded == \A e \in Executors : todo[e] = {} /\ \A s \in StepId : task[e][s] = "none"

LEMMA InterruptedCoherent ==
    ASSUME NEW r, Coherent(r), ~Ended(r)
    PROVE  LET q == Interrupted(r) IN
           /\ Coherent(q) /\ ~Ended(q)
           /\ \A s \in StepId : q.st[s] # "running"
<1> DEFINE st == [s \in StepId |-> IF r.st[s] = "running" THEN "interrupted" ELSE r.st[s]]
           q == Interrupted(r)
<1>1. /\ WellFormed(r) /\ r \in Run /\ Steps(r) \subseteq StepId /\ Sound(r)
      /\ r.st \in [StepId -> StepStatus]
      /\ \A t \in StepId : t \in Steps(r) \/ r.st[t] = "absent"
      /\ \A t \in StepId : r.par[t] \subseteq StepId
  BY StepsOfRun, FieldTypes DEF Coherent
<1>2. CASE With(r, "running") = {}
  <2>1. q = r
    BY <1>2 DEF Interrupted
  <2>2. \A s \in StepId : r.st[s] # "running"
    BY <1>1, <1>2 DEF With
  <2> QED
    BY <2>1, <2>2 DEF q
<1>3. CASE With(r, "running") # {}
  <2>1. st \in [StepId -> StepStatus]
    BY <1>1 DEF StepStatus
  <2>2. q = [r EXCEPT !.status = "interrupted", !.st = st]
    BY <1>3 DEF Interrupted
  <2>3. \A s \in StepId : st[s] = IF r.st[s] = "running" THEN "interrupted" ELSE r.st[s]
    OBVIOUS
  <2> HIDE DEF st
  <2>4. q \in Run /\ SameGraph(r, q) /\ q.status = "interrupted" /\ q.st = st /\ q.out = r.out
    BY <1>1, <2>1, <2>2 DEF Run, RunStatus, SameGraph
  <2> HIDE DEF q
  <2>5. WellFormed(q)
    BY <1>1, <2>3, <2>4, SameGraphWellFormed
  <2>6. \A t \in StepId : ParentsAll(r, t, {"done"}) => ParentsAll(q, t, {"done"})
    BY <1>1, <2>3, <2>4 DEF ParentsAll, SameGraph
  <2>7. Sound(q)
    <3>1. \A t \in Steps(q) : q.st[t] # "absent"
      BY <1>1, <2>3, <2>4 DEF Sound, SameGraph, Steps
    <3>2. \A t \in StepId : q.st[t] = "done" => ParentsAll(q, t, {"done"}) /\ q.out[t] # "none"
      BY <1>1, <2>3, <2>4, <2>6 DEF Sound
    <3>3. \A t, c \in StepId : c \in q.ch[t] => t \in q.par[c]
      BY <1>1, <2>4 DEF Sound, SameGraph
    <3> QED
      BY <3>1, <3>2, <3>3 DEF Sound
  <2>8. \A t \in StepId : q.st[t] \in {"ready", "running", "interrupted"} =>
                ParentsAll(q, t, {"done"})
    BY <2>3, <2>4, <2>6 DEF Coherent
  <2>9. \A t \in StepId : q.st[t] \notin {"skipped", "error", "running"}
    BY <2>3, <2>4 DEF Coherent
  <2>10. ~Ended(q)
    BY <2>4 DEF Ended, Final
  <2> QED
    BY <2>4, <2>5, <2>7, <2>8, <2>9, <2>10 DEF Coherent, q
<1> QED
  BY <1>2, <1>3

LEMMA ResumedCoherent ==
    ASSUME NEW r, Coherent(r), ~Ended(r), \A s \in StepId : r.st[s] # "running"
    PROVE  LET q == Resumed(r) IN
           /\ Coherent(q)
           /\ \A s \in StepId : q.st[s] \notin {"running", "interrupted"}
<1> DEFINE q == Resumed(r)
<1>1. /\ WellFormed(r) /\ Steps(r) \subseteq StepId /\ Sound(r)
      /\ \A t \in StepId : r.par[t] \subseteq StepId
  BY StepsOfRun DEF Coherent
<1>2. /\ WellFormed(q) /\ SameGraph(r, q) /\ q.status = "running" /\ q.out = r.out
      /\ \A t \in StepId :
            \/ q.st[t] = r.st[t]
            \/ q.st[t] = "ready" /\ r.st[t] = "interrupted" /\ r.status = "interrupted"
            \/ q.st[t] = "ready" /\ r.st[t] = "pending" /\ ParentsAll(q, t, Settled)
      /\ r.status = "interrupted" => \A t \in StepId : q.st[t] # "interrupted"
  BY <1>1, ResumedFacts
<1> HIDE DEF q
<1>3. \A t \in StepId : q.st[t] \notin {"running", "interrupted", "skipped", "error"}
  BY <1>2 DEF Coherent
<1>4. \A t \in StepId : ParentsAll(r, t, {"done"}) => ParentsAll(q, t, {"done"})
  BY <1>1, <1>2 DEF ParentsAll, SameGraph
<1>5. \A t \in StepId : ParentsAll(q, t, Settled) => ParentsAll(q, t, {"done"})
  <2>1. \A t \in StepId : q.par[t] \subseteq StepId
    BY <1>1, <1>2 DEF SameGraph
  <2> QED
    BY <1>3, <2>1 DEF ParentsAll, Settled
<1>6. Sound(q)
  <2>1. \A t \in Steps(q) : q.st[t] # "absent"
    BY <1>1, <1>2 DEF Sound, SameGraph, Steps
  <2>2. \A t \in StepId : q.st[t] = "done" => ParentsAll(q, t, {"done"}) /\ q.out[t] # "none"
    BY <1>1, <1>2, <1>4 DEF Sound
  <2>3. \A t, c \in StepId : c \in q.ch[t] => t \in q.par[c]
    BY <1>1, <1>2 DEF Sound, SameGraph
  <2> QED
    BY <2>1, <2>2, <2>3 DEF Sound
<1>7. \A t \in StepId : q.st[t] = "ready" => ParentsAll(q, t, {"done"})
  BY <1>2, <1>4, <1>5 DEF Coherent
<1> QED
  BY <1>2, <1>3, <1>6, <1>7 DEF Coherent, q

LEMMA StartupKeeps ==
    ASSUME SoleExecutor, Recovered, StartupStep
    PROVE  Recovered'
<1>1. /\ UNCHANGED <<pc, todo, task, bus, recorded, overspent, writing>>
      /\ boot # "up" /\ (\A e \in Executors : pc[e] = "idle")
  BY DEF StartupStep, Restore, MarkInterrupted, Resume, Recovered
<1>2. EmptyHanded
  BY <1>1 DEF Recovered, Phases, EmptyHanded
<1>3. /\ Structure /\ Phases /\ Coherent(run) /\ Coherent(disk) /\ overspent = FALSE
      /\ writing \in [Executors -> [Thread -> SUBSET Run]]
      /\ \A e \in Executors, t \in Thread : \A r \in writing[e][t] : Coherent(r)
  BY DEF Recovered, Unhindered
<1>4. ASSUME Coherent(run'), Coherent(disk'),
             boot' = "up" => \A s \in StepId : run'.st[s] \notin {"running", "interrupted"},
             boot' \in {"restored", "resuming"} => ~Ended(run'),
             boot' = "resuming" => \A s \in StepId : run'.st[s] # "running"
      PROVE  Recovered'
  <2>1. WellFormed(run') /\ run' \in Run
    BY <1>4 DEF Coherent, WellFormed
  <2>2. Structure'
    BY <1>1, <1>2, <1>3, <2>1 DEF Structure, TypeOK, EmptyHanded
  <2>3. Phases' /\ Unhindered'
    BY <1>1, <1>3 DEF Phases, Unhindered
  <2>4. boot' = "up" => Order' /\ Driven'
    <3>1. ASSUME boot' = "up" PROVE Order'
      <4>1. \A s \in StepId : run'.st[s] = "ready" => ParentsAll(run', s, {"done"})
        BY <1>4 DEF Coherent
      <4>2. \A e \in Executors : todo'[e] = {} /\ \A s \in StepId : ~(InFlight(e, s)')
        BY <1>1, <1>2 DEF EmptyHanded, InFlight
      <4> QED
        BY <1>4, <3>1, <4>1, <4>2 DEF Order
    <3>2. ASSUME boot' = "up" PROVE Driven'
      BY <1>4, <3>2 DEF Driven
    <3> QED
      BY <3>1, <3>2
  <2>5. /\ writing' \in [Executors -> [Thread -> SUBSET Run]]
        /\ \A e \in Executors, t \in Thread : \A r \in writing'[e][t] : Coherent(r)
        /\ \A e \in Executors : pc'[e] = "idle"
    BY <1>1, <1>3
  <2> QED
    BY <1>4, <2>2, <2>3, <2>4, <2>5 DEF Recovered
<1>5. CASE Restore
  <2>1. run' = disk /\ disk' = disk /\ boot' = IF Ended(disk) THEN "history" ELSE "restored"
    BY <1>5 DEF Restore
  <2> QED
    BY <1>3, <1>4, <2>1 DEF Ended
<1>6. CASE MarkInterrupted
  <2>1. /\ run' = Interrupted(run) /\ disk' = run' /\ ~Ended(run)
        /\ boot' \in {"resuming", "left"}
    BY <1>6 DEF MarkInterrupted, Recovered
  <2>2. Coherent(run') /\ ~Ended(run') /\ \A s \in StepId : run'.st[s] # "running"
    BY <1>3, <2>1, InterruptedCoherent
  <2> QED
    BY <1>4, <2>1, <2>2
<1>7. CASE Resume
  <2>1. /\ run' = Resumed(run) /\ disk' = run' /\ ~Ended(run) /\ boot' = "up"
        /\ \A s \in StepId : run.st[s] # "running"
    BY <1>7 DEF Resume, Recovered
  <2>2. Coherent(run') /\ \A s \in StepId : run'.st[s] \notin {"running", "interrupted"}
    BY <1>3, <2>1, ResumedCoherent
  <2> QED
    BY <1>4, <2>1, <2>2
<1> QED
  BY <1>5, <1>6, <1>7 DEF StartupStep

LEMMA CrashKeeps ==
    ASSUME Recovered, Crash
    PROVE  Recovered'
<1>1. /\ \A e \in Executors : /\ pc'[e] = "idle" /\ todo'[e] = {}
                              /\ \A s \in StepId : task'[e][s] = "none"
      /\ pc' \in [Executors -> PC] /\ todo' \in [Executors -> SUBSET StepId]
      /\ task' \in [Executors -> [StepId -> TaskState]]
      /\ bus' = {} /\ UNCHANGED <<run, recorded, overspent, disk>> /\ boot' = "down"
  BY DEF Crash, PC, TaskState
<1>2. /\ writing' \in [Executors -> [Thread -> SUBSET Run]]
      /\ \A e \in Executors, t \in Thread : writing'[e][t] = {}
  BY DEF Crash, NoWrites
<1>3. Structure'
  BY <1>1 DEF Recovered, Structure, TypeOK
<1>4. Phases' /\ Unhindered'
  BY <1>1 DEF Recovered, Phases, Unhindered
<1>5. Coherent(run') /\ Coherent(disk')
  BY <1>1 DEF Recovered
<1> QED
  BY <1>1, <1>2, <1>3, <1>4, <1>5 DEF Recovered

LEMMA PersistKeeps ==
    ASSUME Recovered, NEW e \in Executors, NEW t \in Thread, Persist(e, t)
    PROVE  Recovered'
<1>1. /\ writing \in [Executors -> [Thread -> SUBSET Run]]
      /\ \A d \in Executors, u \in Thread : \A r \in writing[d][u] : Coherent(r)
  BY DEF Recovered
<1>2. /\ disk' \in writing[e][t] /\ writing' = [writing EXCEPT ![e][t] = {}]
      /\ UNCHANGED <<run, pc, todo, task, bus, recorded, overspent, boot, crashes>>
  BY DEF Persist
<1>3. Coherent(disk')
  BY <1>1, <1>2
<1>4. /\ writing' \in [Executors -> [Thread -> SUBSET Run]]
      /\ \A d \in Executors, u \in Thread : writing'[d][u] \subseteq writing[d][u]
  BY <1>1, <1>2
<1>5. \A d \in Executors, u \in Thread : \A r \in writing'[d][u] : Coherent(r)
  BY <1>1, <1>4
<1>6. Structure' /\ Phases' /\ Unhindered' /\ Coherent(run')
  BY <1>2 DEF Recovered, Structure, TypeOK, Phases, Unhindered
<1>7. boot' = "up" => Order' /\ Driven'
  BY <1>2 DEF Recovered, Order, Driven, InFlight
<1>8. /\ boot' # "up" => \A d \in Executors : pc'[d] = "idle"
      /\ boot' \in {"restored", "resuming"} => ~Ended(run')
      /\ boot' = "resuming" => \A s \in StepId : run'.st[s] # "running"
  BY <1>2 DEF Recovered, Ended
<1> QED
  BY <1>3, <1>4, <1>5, <1>6, <1>7, <1>8 DEF Recovered

LEMMA RecoveredInvariant ==
    ASSUME SoleExecutor
    PROVE  RecoverySpec => []Recovered
<1>1. ASSUME Recovered, [RecoveryNext]_rvars
      PROVE  Recovered'
  <2>1. 0 \in Thread /\ \A s \in StepId : s \in Thread
    BY BoundsAssumption DEF Thread, StepId
  <2>2. ASSUME NEW e \in Executors, LoopThread(e)
        PROVE  Recovered'
    BY <1>1, <2>1, <2>2, ThreadStep DEF LoopThread, MayStep, Works
  <2>3. ASSUME NEW e \in Executors, NEW s \in StepId, TaskThread(e, s)
        PROVE  Recovered'
    BY <1>1, <2>1, <2>3, ThreadStep DEF TaskThread, MayStep, Works
  <2>4. ASSUME NEW e \in Executors, NEW t \in Thread, Persist(e, t)
        PROVE  Recovered'
    BY <1>1, <2>4, PersistKeeps
  <2>5. CASE Crash
    BY <1>1, <2>5, CrashKeeps
  <2>6. CASE StartupStep
    BY <1>1, <2>6, StartupKeeps
  <2>7. CASE UNCHANGED rvars
    BY <1>1, <2>7 DEF rvars, Recovered, Structure, TypeOK, Phases, Unhindered, Order,
                      Driven, InFlight, Ended
  <2> QED
    BY <1>1, <2>2, <2>3, <2>4, <2>5, <2>6, <2>7 DEF RecoveryNext
<1>2. Recovered /\ [RecoveryNext]_rvars => Recovered'
  BY <1>1
<1> QED
  BY <1>2, InitRecovered, PTL DEF RecoverySpec

-----------------------------------------------------------------------------
(* After any number of crashes, too, a subagent only runs with the parents *)
(* of its step done: neither a stale file, nor clones written out of       *)
(* order, nor resume's rule that lets any ended parent count starts a step *)
(* early.                                                                  *)
THEOREM NoStepIsResumedEarly ==
    ASSUME SoleExecutor
    PROVE  RecoverySpec => []RecoveredOrder
<1>1. Recovered => RecoveredOrder
  BY DEF Recovered, RecoveredOrder, Order, DependencyOrder
<1> QED
  BY <1>1, RecoveredInvariant, PTL

(* The file accounts for its own steps whichever clone was written last: a *)
(* step it calls running or done has its parents done in the same file.    *)
THEOREM TheFileIsCoherent ==
    ASSUME SoleExecutor
    PROVE  RecoverySpec => []FileAccountsForSteps
<1>1. Recovered => FileAccountsForSteps
  <2> SUFFICES ASSUME Coherent(disk) PROVE FileAccountsForSteps
    BY DEF Recovered
  <2>1. Steps(disk) \subseteq StepId
    BY StepsOfRun DEF Coherent
  <2> QED
    BY <2>1 DEF Coherent, Sound, FileAccountsForSteps
<1> QED
  BY <1>1, RecoveredInvariant, PTL

(* The executor of a resumed run never waits for a step that was running   *)
(* when the old process died.                                              *)
THEOREM NobodyWaitsForTheDead ==
    ASSUME SoleExecutor
    PROVE  RecoverySpec => []NoGhostAfterRestart
<1>1. Recovered => NoGhostAfterRestart
  <2> SUFFICES ASSUME Recovered, boot = "up", NEW e \in Executors,
                      pc[e] = "polling", NEW s \in Steps(run), run.st[s] = "running"
               PROVE  FALSE
    BY DEF NoGhostAfterRestart, NoPhantomRunning, With
  <2>1. s \in StepId /\ Driven /\ Phases
    BY FieldTypes DEF Recovered, Structure, WellFormed
  <2>2. InFlight(e, s)
    BY <2>1 DEF Driven, SoleExecutor
  <2> QED
    BY <2>1, <2>2 DEF Phases, InFlight
<1> QED
  BY <1>1, RecoveredInvariant, PTL
=============================================================================
