------------------------ MODULE WorkflowStoreProofs ------------------------
(***************************************************************************)
(* What the operations of the workflow store return, for runs of any size: *)
(* they keep a run well formed, they only move its steps forward, they     *)
(* leave an ended run ended, and create() admits no cycle.                 *)
(***************************************************************************)
EXTENDS WorkflowStore, FiniteSetTheorems, TLAPS

(* A run is well formed if nothing is said of steps it does not have, its  *)
(* edges join its own steps, and the repair rounds it may still spend fit  *)
(* into the bounded step ids.                                              *)
WellFormed(r) ==
    /\ r \in Run
    /\ \A s \in StepId : s > r.n => r.st[s] = "absent" /\ r.par[s] = {}
    /\ \A s \in StepId : r.par[s] \subseteq Steps(r) /\ r.ch[s] \subseteq Steps(r)
    /\ (\E s \in StepId : r.auto[s]) =>
            r.n + 2 * (MaxRepairRounds - r.rounds) <= MaxSteps

(* The moves a step makes while nobody dispatches it or reports on it.     *)
MovesForward(a, b) ==
    \/ a = b
    \/ a = "pending" /\ b = "ready"
    \/ a \in Sweepable /\ b = "skipped"
    \/ a = "absent" /\ b \in {"pending", "ready", "skipped"}

(* q is r some store operations later: every step moved forward, none was  *)
(* lost, none was rewired, and none was made ready before its parents.     *)
Grown(r, q) ==
    /\ WellFormed(q)
    /\ r.n <= q.n
    /\ \A s \in StepId : MovesForward(r.st[s], q.st[s])
    /\ \A s \in Steps(r) : q.par[s] = r.par[s]
    /\ \A s \in StepId : q.st[s] = "ready" /\ r.st[s] # "ready" =>
                            ParentsAll(q, s, {"done"})

-----------------------------------------------------------------------------
LEMMA FieldTypes ==
    ASSUME NEW r \in Run
    PROVE  /\ r.status \in RunStatus
           /\ r.n \in StepId /\ r.n \in Nat /\ r.n <= MaxSteps
           /\ r.st \in [StepId -> StepStatus]
           /\ r.par \in [StepId -> SUBSET StepId]
           /\ r.ch \in [StepId -> SUBSET StepId]
           /\ r.auto \in [StepId -> BOOLEAN]
           /\ r.out \in [StepId -> Output]
           /\ r.rounds \in 0..MaxRepairRounds
           /\ Steps(r) \subseteq StepId
<1>1. r.n \in StepId
  BY DEF Run
<1>2. r.n \in Nat /\ r.n <= MaxSteps
  BY <1>1, BoundsAssumption DEF StepId
<1>3. Steps(r) \subseteq StepId
  BY <1>2, BoundsAssumption DEF StepId, Steps
<1> QED
  BY <1>1, <1>2, <1>3 DEF Run

LEMMA GrownItself ==
    ASSUME NEW r, WellFormed(r)
    PROVE  Grown(r, r)
<1>1. r \in Run
  BY DEF WellFormed
<1>2. Steps(r) \subseteq StepId /\ r.n \in Nat
  BY <1>1, FieldTypes
<1> QED
  BY <1>2 DEF Grown, MovesForward

LEMMA MovesForwardTransitive ==
    ASSUME NEW a, NEW b, NEW c, MovesForward(a, b), MovesForward(b, c)
    PROVE  MovesForward(a, c)
BY DEF MovesForward, Sweepable

LEMMA GrownTransitive ==
    ASSUME NEW r, NEW q, NEW p, WellFormed(r), Grown(r, q), Grown(q, p)
    PROVE  Grown(r, p)
<1>a. WellFormed(q) /\ WellFormed(p) /\ r.n <= q.n /\ q.n <= p.n
  BY DEF Grown
<1>b. r \in Run /\ q \in Run /\ p \in Run
  BY <1>a DEF WellFormed
<1>c. /\ r.n \in Nat /\ q.n \in Nat /\ p.n \in Nat
      /\ Steps(r) \subseteq StepId /\ Steps(q) \subseteq StepId
  BY <1>b, FieldTypes
<1>d. Steps(r) \subseteq Steps(q)
  BY <1>a, <1>c DEF Steps
<1>0. /\ r.n \in Nat /\ q.n \in Nat /\ p.n \in Nat
      /\ Steps(r) \subseteq StepId /\ Steps(q) \subseteq StepId
      /\ Steps(r) \subseteq Steps(q)
      /\ WellFormed(q)
  BY <1>a, <1>c, <1>d
<1>1. WellFormed(p) /\ r.n <= p.n
  BY <1>a, <1>c
<1>2. \A s \in StepId : MovesForward(r.st[s], p.st[s])
  BY MovesForwardTransitive DEF Grown
<1>3. \A s \in Steps(r) : p.par[s] = r.par[s]
  BY <1>0 DEF Grown
<1>4. ASSUME NEW s \in StepId, p.st[s] = "ready", r.st[s] # "ready"
      PROVE  ParentsAll(p, s, {"done"})
  <2>1. CASE q.st[s] = "ready"
    <3>1. ParentsAll(q, s, {"done"})
      BY <1>4, <2>1 DEF Grown
    <3>2. s \in Steps(q)
      BY <2>1, <1>0 DEF WellFormed, Steps, StepId
    <3>3. p.par[s] = q.par[s] /\ q.par[s] \subseteq StepId
      BY <3>2, <1>0 DEF Grown, WellFormed
    <3>4. \A t \in StepId : q.st[t] = "done" => p.st[t] = "done"
      BY DEF Grown, MovesForward, Sweepable
    <3> QED
      BY <3>1, <3>3, <3>4 DEF ParentsAll
  <2>2. CASE q.st[s] # "ready"
    BY <1>4, <2>2 DEF Grown
  <2> QED
    BY <2>1, <2>2
<1> QED
  BY <1>1, <1>2, <1>3, <1>4 DEF Grown

-----------------------------------------------------------------------------
(* Operations that leave the graph alone.                                  *)
SameGraph(r, q) ==
    /\ q.n = r.n /\ q.par = r.par /\ q.ch = r.ch
    /\ q.auto = r.auto /\ q.rounds = r.rounds

LEMMA SameGraphWellFormed ==
    ASSUME NEW r, WellFormed(r), NEW q \in Run, SameGraph(r, q),
           \A s \in StepId : r.st[s] = "absent" => q.st[s] = "absent"
    PROVE  WellFormed(q)
BY DEF WellFormed, SameGraph, Steps

LEMMA SameGraphGrown ==
    ASSUME NEW r, WellFormed(r), NEW q \in Run, SameGraph(r, q),
           \A s \in StepId : r.st[s] = "absent" => q.st[s] = "absent",
           \A s \in StepId : MovesForward(r.st[s], q.st[s]),
           \A s \in StepId : q.st[s] = "ready" /\ r.st[s] # "ready" =>
                                    ParentsAll(r, s, {"done"})
    PROVE  Grown(r, q)
<1>1. WellFormed(q)
  BY SameGraphWellFormed
<1>2. r.n \in Nat /\ Steps(r) \subseteq StepId
  BY FieldTypes DEF WellFormed
<1>3. \A s \in StepId : r.par[s] \subseteq StepId
  BY <1>2 DEF WellFormed
<1>4. \A s \in StepId : r.st[s] = "done" => q.st[s] = "done"
  BY DEF MovesForward, Sweepable
<1>5. \A s \in StepId : q.st[s] = "ready" /\ r.st[s] # "ready" =>
                            ParentsAll(q, s, {"done"})
  BY <1>3, <1>4 DEF ParentsAll, SameGraph
<1> QED
  BY <1>1, <1>2, <1>5 DEF Grown, SameGraph

LEMMA SweptRun ==
    ASSUME NEW r \in Run
    PROVE  /\ Swept(r) \in Run
           /\ SameGraph(r, Swept(r))
           /\ Swept(r).status = r.status
           /\ \A s \in StepId : Swept(r).st[s] =
                IF r.st[s] \in Sweepable THEN "skipped" ELSE r.st[s]
<1>1. \A s \in StepId : r.st[s] \in StepStatus
  BY FieldTypes
<1>2. [s \in StepId |-> IF r.st[s] \in Sweepable THEN "skipped" ELSE r.st[s]]
            \in [StepId -> StepStatus]
  BY <1>1 DEF StepStatus
<1> QED
  BY <1>2 DEF Swept, Run, SameGraph

LEMMA StatusSet ==
    ASSUME NEW r \in Run, NEW status \in RunStatus
    PROVE  /\ [r EXCEPT !.status = status] \in Run
           /\ SameGraph(r, [r EXCEPT !.status = status])
           /\ [r EXCEPT !.status = status].st = r.st
           /\ [r EXCEPT !.status = status].status = status
BY DEF Run, SameGraph

LEMMA SameStatesGrown ==
    ASSUME NEW r, WellFormed(r), NEW q \in Run, SameGraph(r, q), q.st = r.st
    PROVE  Grown(r, q)
BY SameGraphGrown DEF MovesForward

LEMMA StartedGrown ==
    ASSUME NEW r, WellFormed(r)
    PROVE  Grown(r, Started(r)) /\ Started(r).status = "running"
<1>1. r \in Run /\ "running" \in RunStatus
  BY DEF WellFormed, RunStatus
<1> QED
  BY <1>1, StatusSet, SameStatesGrown DEF Started

LEMMA SweptGrown ==
    ASSUME NEW r, WellFormed(r), NEW status \in RunStatus
    PROVE  /\ Grown(r, [Swept(r) EXCEPT !.status = status])
           /\ [Swept(r) EXCEPT !.status = status].status = status
<1> DEFINE q == [Swept(r) EXCEPT !.status = status]
<1>1. r \in Run
  BY DEF WellFormed
<1>2. q \in Run /\ q.status = status
  BY <1>1, SweptRun, StatusSet
<1>3. SameGraph(r, q)
  BY <1>1, SweptRun, StatusSet DEF SameGraph
<1>4. \A s \in StepId :
        q.st[s] = IF r.st[s] \in Sweepable THEN "skipped" ELSE r.st[s]
  BY <1>1, SweptRun, StatusSet
<1>5. \A s \in StepId : r.st[s] = "absent" => q.st[s] = "absent"
  BY <1>4 DEF Sweepable
<1>6. \A s \in StepId : MovesForward(r.st[s], q.st[s])
  BY <1>4 DEF MovesForward
<1>7. \A s \in StepId : q.st[s] = "ready" => r.st[s] = "ready"
  BY <1>4
<1> HIDE DEF q
<1>8. Grown(r, q)
  BY <1>2, <1>3, <1>5, <1>6, <1>7, SameGraphGrown
<1> QED
  BY <1>2, <1>8 DEF q

LEMMA AbortedGrown ==
    ASSUME NEW r, WellFormed(r)
    PROVE  Grown(r, Aborted(r)) /\ Aborted(r).status = "aborted"
BY SweptGrown DEF Aborted, RunStatus

LEMMA FailedGrown ==
    ASSUME NEW r, WellFormed(r)
    PROVE  Grown(r, Failed(r)) /\ (Ended(r) => Failed(r).status = r.status)
BY SweptGrown, GrownItself DEF Failed, RunStatus

LEMMA FinishedGrown ==
    ASSUME NEW r, WellFormed(r)
    PROVE  Grown(r, Finished(r)) /\ (Ended(r) => Finished(r).status = r.status)
<1>1. r \in Run /\ "done" \in RunStatus
  BY DEF WellFormed, RunStatus
<1>2. Grown(r, [r EXCEPT !.status = "done"])
  BY <1>1, StatusSet, SameStatesGrown
<1> QED
  BY <1>2, GrownItself DEF Finished

LEMMA ReadyPropagatedGrown ==
    ASSUME NEW r, WellFormed(r), NEW s \in StepId
    PROVE  /\ Grown(r, ReadyPropagated(r, s))
           /\ ReadyPropagated(r, s).status = r.status
<1> DEFINE st == [c \in StepId |-> IF c \in NewlyReady(r, s) THEN "ready" ELSE r.st[c]]
           q == [r EXCEPT !.st = st]
<1>1. r \in Run /\ r.st \in [StepId -> StepStatus]
  BY FieldTypes DEF WellFormed
<1>2. st \in [StepId -> StepStatus]
  BY <1>1 DEF StepStatus
<1>3. q \in Run /\ SameGraph(r, q) /\ q.st = st /\ q.status = r.status
  <2> HIDE DEF st
  <2> QED
    BY <1>1, <1>2 DEF Run, SameGraph
<1>4. \A c \in StepId : q.st[c] # r.st[c] =>
        /\ r.st[c] = "pending" /\ q.st[c] = "ready"
        /\ ParentsAll(r, c, {"done"})
  BY <1>3 DEF NewlyReady
<1>5. q = ReadyPropagated(r, s)
  BY DEF ReadyPropagated
<1> HIDE DEF q, st
<1>6. \A c \in StepId : r.st[c] = "absent" => q.st[c] = "absent"
  BY <1>4
<1>7. \A c \in StepId : MovesForward(r.st[c], q.st[c])
  BY <1>4 DEF MovesForward
<1>8. \A c \in StepId : q.st[c] = "ready" /\ r.st[c] # "ready" =>
                            ParentsAll(r, c, {"done"})
  BY <1>4
<1>9. Grown(r, q)
  BY <1>3, <1>6, <1>7, <1>8, SameGraphGrown
<1> QED
  BY <1>3, <1>5, <1>9

LEMMA SkipCascadedGrown ==
    ASSUME NEW r, WellFormed(r), NEW s \in StepId
    PROVE  /\ Grown(r, SkipCascaded(r, s))
           /\ SkipCascaded(r, s).status = r.status
<1> DEFINE st == [t \in StepId |->
                    IF t \in Descendants(r, s) /\ r.st[t] \in Sweepable
                    THEN "skipped" ELSE r.st[t]]
           q == [r EXCEPT !.st = st]
<1>1. r \in Run /\ r.st \in [StepId -> StepStatus]
  BY FieldTypes DEF WellFormed
<1>2. st \in [StepId -> StepStatus]
  BY <1>1 DEF StepStatus
<1>3. q \in Run /\ SameGraph(r, q) /\ q.st = st /\ q.status = r.status
  <2> HIDE DEF st
  <2> QED
    BY <1>1, <1>2 DEF Run, SameGraph
<1>4. \A t \in StepId : q.st[t] # r.st[t] =>
        r.st[t] \in Sweepable /\ q.st[t] = "skipped"
  BY <1>3
<1>5. q = SkipCascaded(r, s)
  BY DEF SkipCascaded
<1> HIDE DEF q, st
<1>6. \A t \in StepId : r.st[t] = "absent" => q.st[t] = "absent"
  BY <1>4 DEF Sweepable
<1>7. \A t \in StepId : MovesForward(r.st[t], q.st[t])
  BY <1>4 DEF MovesForward
<1>8. \A t \in StepId : q.st[t] = "ready" => r.st[t] = "ready"
  BY <1>4
<1>9. Grown(r, q)
  BY <1>3, <1>6, <1>7, <1>8, SameGraphGrown
<1> QED
  BY <1>3, <1>5, <1>9

-----------------------------------------------------------------------------
(* Auto-repair: the only operation of a running executor that adds steps.  *)
LEMMA RoomForRepair ==
    ASSUME NEW r, WellFormed(r), NEW s \in Steps(r), NeedsRepair(r, s)
    PROVE  /\ r.n + 1 \in StepId /\ r.n + 2 \in StepId
           /\ r.rounds + 1 \in 0..MaxRepairRounds
           /\ r.n + 2 + 2 * (MaxRepairRounds - (r.rounds + 1)) <= MaxSteps
<1>1. r \in Run /\ s \in StepId /\ r.n \in Nat /\ r.rounds \in 0..MaxRepairRounds
  BY FieldTypes DEF WellFormed
<1>2. r.n + 2 * (MaxRepairRounds - r.rounds) <= MaxSteps
  BY <1>1 DEF WellFormed, NeedsRepair
<1>3. r.rounds < MaxRepairRounds
  BY DEF NeedsRepair
<1> QED
  BY <1>1, <1>2, <1>3, BoundsAssumption DEF StepId

LEMMA RepairFields ==
    ASSUME NEW r, WellFormed(r), NEW s \in Steps(r), NeedsRepair(r, s)
    PROVE  LET q == RepairSpawned(r, s) IN
           /\ q \in Run
           /\ q.n = r.n + 2 /\ q.rounds = r.rounds + 1
           /\ q.st = [r.st EXCEPT ![r.n + 1] = "ready", ![r.n + 2] = "pending"]
           /\ q.par = [r.par EXCEPT ![r.n + 1] = {s}, ![r.n + 2] = {r.n + 1}]
           /\ q.ch = [r.ch EXCEPT ![s] = r.ch[s] \cup {r.n + 1}]
           /\ q.auto = [r.auto EXCEPT ![r.n + 2] = TRUE]
<1> DEFINE st   == [r.st EXCEPT ![r.n + 1] = "ready", ![r.n + 2] = "pending"]
           par  == [r.par EXCEPT ![r.n + 1] = {s}, ![r.n + 2] = {r.n + 1}]
           ch   == [r.ch EXCEPT ![s] = r.ch[s] \cup {r.n + 1}]
           auto == [r.auto EXCEPT ![r.n + 2] = TRUE]
           n    == r.n + 2
           more == r.rounds + 1
           q    == [r EXCEPT !.n = n, !.rounds = more, !.status = "running",
                             !.st = st, !.par = par, !.ch = ch, !.auto = auto]
<1>1. r \in Run /\ s \in StepId
  BY FieldTypes DEF WellFormed
<1>2. r.n + 1 \in StepId /\ n \in StepId /\ more \in 0..MaxRepairRounds
  BY RoomForRepair
<1>3. st \in [StepId -> StepStatus]
  BY <1>1, FieldTypes DEF StepStatus
<1>4. par \in [StepId -> SUBSET StepId]
  BY <1>1, <1>2, FieldTypes
<1>5. ch \in [StepId -> SUBSET StepId]
  BY <1>1, <1>2, FieldTypes
<1>6. auto \in [StepId -> BOOLEAN]
  BY <1>1, FieldTypes
<1>7. q = RepairSpawned(r, s)
  BY <1>1 DEF RepairSpawned, Run
<1> HIDE DEF st, par, ch, auto, n, more
<1>8. q \in Run
  BY <1>1, <1>2, <1>3, <1>4, <1>5, <1>6 DEF Run, RunStatus
<1>9. q.n = n /\ q.rounds = more /\ q.st = st /\ q.par = par /\ q.ch = ch /\ q.auto = auto
  BY <1>1 DEF Run
<1> HIDE DEF q
<1> QED
  BY <1>7, <1>8, <1>9 DEF st, par, ch, auto, n, more

LEMMA RepairSpawnedGrown ==
    ASSUME NEW r, WellFormed(r), NEW s \in Steps(r), NeedsRepair(r, s),
           r.st[s] = "done"
    PROVE  Grown(r, RepairSpawned(r, s))
<1> DEFINE q == RepairSpawned(r, s)
           repair == r.n + 1
           reReview == r.n + 2
<1>1. /\ r \in Run /\ r.n \in Nat /\ s \in StepId /\ s <= r.n /\ s \in Nat
      /\ r.st \in [StepId -> StepStatus] /\ r.par \in [StepId -> SUBSET StepId]
      /\ r.ch \in [StepId -> SUBSET StepId]
  BY FieldTypes DEF WellFormed, Steps
<1>2. repair \in StepId /\ reReview \in StepId /\ StepId \subseteq Nat
  BY RoomForRepair, BoundsAssumption DEF StepId
<1>3. /\ q \in Run /\ q.n = r.n + 2 /\ q.rounds = r.rounds + 1
      /\ q.st = [r.st EXCEPT ![repair] = "ready", ![reReview] = "pending"]
      /\ q.par = [r.par EXCEPT ![repair] = {s}, ![reReview] = {repair}]
      /\ q.ch = [r.ch EXCEPT ![s] = r.ch[s] \cup {repair}]
  BY RepairFields
<1> HIDE DEF q
<1>4. Steps(q) = Steps(r) \cup {repair, reReview}
  BY <1>1, <1>3 DEF Steps
<1>5. r.st[repair] = "absent" /\ r.st[reReview] = "absent"
  BY <1>1, <1>2 DEF WellFormed
<1>6. ASSUME NEW t \in StepId
      PROVE  /\ t > q.n => q.st[t] = "absent" /\ q.par[t] = {}
             /\ q.par[t] \subseteq Steps(q)
             /\ q.ch[t] \subseteq Steps(q)
  <2>1. t > q.n => t > r.n /\ t # repair /\ t # reReview
    BY <1>1, <1>2, <1>3
  <2>2. t > q.n => q.st[t] = "absent" /\ q.par[t] = {}
    BY <1>1, <1>2, <1>3, <2>1 DEF WellFormed
  <2>3. q.par[t] \subseteq Steps(q)
    BY <1>1, <1>2, <1>3, <1>4 DEF WellFormed
  <2>4. q.ch[t] \subseteq Steps(q)
    BY <1>1, <1>2, <1>3, <1>4 DEF WellFormed
  <2> QED
    BY <2>2, <2>3, <2>4
<1>7. q.n + 2 * (MaxRepairRounds - q.rounds) <= MaxSteps
  BY <1>3, RoomForRepair
<1>8. WellFormed(q)
  BY <1>3, <1>6, <1>7 DEF WellFormed
<1>9. \A t \in Steps(r) : q.par[t] = r.par[t]
  <2>1. \A t \in Steps(r) : t \in StepId /\ t # repair /\ t # reReview
    BY <1>1, FieldTypes DEF Steps
  <2> QED
    BY <1>1, <1>3, <2>1
<1>10. \A t \in StepId : MovesForward(r.st[t], q.st[t])
  BY <1>1, <1>2, <1>3, <1>5 DEF MovesForward
<1>11. ASSUME NEW t \in StepId, q.st[t] = "ready", r.st[t] # "ready"
       PROVE  ParentsAll(q, t, {"done"})
  <2>1. t = repair
    BY <1>1, <1>2, <1>3, <1>11
  <2>2. q.par[t] = {s} /\ q.st[s] = "done"
    BY <1>1, <1>2, <1>3, <2>1
  <2> QED
    BY <2>2 DEF ParentsAll
<1>12. r.n <= q.n
  BY <1>1, <1>3
<1> QED
  BY <1>8, <1>9, <1>10, <1>11, <1>12 DEF Grown, q

LEMMA AutoRepairedGrown ==
    ASSUME NEW r, WellFormed(r), NEW s \in Steps(r), r.st[s] = "done"
    PROVE  /\ Grown(r, AutoRepaired(r, s))
           /\ Ended(r) => AutoRepaired(r, s).status = r.status
<1>1. CASE NeedsRepair(r, s)
  BY <1>1, RepairSpawnedGrown DEF AutoRepaired, NeedsRepair
<1>2. CASE ~NeedsRepair(r, s)
  BY <1>2, GrownItself DEF AutoRepaired
<1> QED
  BY <1>1, <1>2

-----------------------------------------------------------------------------
(* step_state(): the patch of one step, then forward moves only.           *)
LEMMA PatchedRun ==
    ASSUME NEW r, WellFormed(r), NEW s \in Steps(r),
           NEW status \in StepStatus \cup {"keep"}, NEW out \in Output
    PROVE  LET p == Patched(r, s, status, out) IN
           /\ WellFormed(p)
           /\ SameGraph(r, p) /\ p.status = r.status
           /\ status = "keep" => p.st = r.st
           /\ status # "keep" => p.st = [r.st EXCEPT ![s] = status]
<1> DEFINE st == [r.st EXCEPT ![s] = IF status = "keep" THEN r.st[s] ELSE status]
           o  == [r.out EXCEPT ![s] = IF out = "none" THEN r.out[s] ELSE out]
           p  == [r EXCEPT !.st = st, !.out = o]
<1>1. r \in Run /\ s \in StepId /\ s <= r.n /\ s \in Nat /\ r.n \in Nat
  BY FieldTypes DEF WellFormed, Steps
<1>2. /\ r.st \in [StepId -> StepStatus] /\ r.out \in [StepId -> Output]
      /\ st \in [StepId -> StepStatus] /\ o \in [StepId -> Output]
  BY <1>1, FieldTypes
<1>3. p = Patched(r, s, status, out)
  BY <1>1 DEF Patched, Run
<1>4. /\ status = "keep" => st = r.st
      /\ status # "keep" => st = [r.st EXCEPT ![s] = status]
  BY <1>2
<1>5. \A t \in StepId : t # s => st[t] = r.st[t]
  BY <1>2
<1> HIDE DEF st, o
<1>6. p \in Run /\ SameGraph(r, p) /\ p.status = r.status /\ p.st = st
  BY <1>1, <1>2 DEF Run, SameGraph
<1> HIDE DEF p
<1>7. \A t \in StepId : t > r.n => p.st[t] = "absent"
  BY <1>1, <1>5, <1>6 DEF WellFormed
<1>8. WellFormed(p)
  BY <1>6, <1>7 DEF WellFormed, SameGraph, Steps
<1> QED
  BY <1>3, <1>4, <1>6, <1>8

LEMMA DoneGrown ==
    ASSUME NEW p, WellFormed(p), NEW s \in Steps(p), p.st[s] = "done"
    PROVE  LET q == Finished(AutoRepaired(ReadyPropagated(p, s), s)) IN
           Grown(p, q) /\ (Ended(p) => q.status = p.status)
<1> DEFINE propagated == ReadyPropagated(p, s)
           repaired == AutoRepaired(propagated, s)
           q == Finished(repaired)
<1>1. p.n \in Nat /\ s \in StepId /\ s <= p.n
  BY FieldTypes DEF WellFormed, Steps
<1>2. Grown(p, propagated) /\ propagated.status = p.status
  BY <1>1, ReadyPropagatedGrown
<1> HIDE DEF propagated
<1>3. WellFormed(propagated) /\ p.n <= propagated.n
  BY <1>2 DEF Grown
<1>4. propagated.st[s] = "done"
  BY <1>1, <1>2 DEF Grown, MovesForward, Sweepable
<1>5. propagated.n \in Nat
  BY <1>3, FieldTypes DEF WellFormed
<1>6. s \in Steps(propagated)
  BY <1>1, <1>3, <1>5 DEF Steps
<1>7. /\ Grown(propagated, repaired)
      /\ Ended(propagated) => repaired.status = propagated.status
  BY <1>3, <1>4, <1>6, AutoRepairedGrown
<1> HIDE DEF repaired
<1>8. WellFormed(repaired)
  BY <1>7 DEF Grown
<1>9. /\ Grown(repaired, q)
      /\ Ended(repaired) => q.status = repaired.status
  BY <1>8, FinishedGrown
<1> HIDE DEF q
<1>10. Grown(p, q)
  BY <1>2, <1>7, <1>9, GrownTransitive
<1>11. Ended(p) => q.status = p.status
  BY <1>2, <1>7, <1>9 DEF Ended
<1> QED
  BY <1>10, <1>11 DEF q, repaired, propagated

LEMMA SkippedGrown ==
    ASSUME NEW p, WellFormed(p), NEW s \in Steps(p)
    PROVE  LET q == Finished(SkipCascaded(p, s)) IN
           Grown(p, q) /\ (Ended(p) => q.status = p.status)
<1> DEFINE cascaded == SkipCascaded(p, s)
           q == Finished(cascaded)
<1>1. s \in StepId
  BY FieldTypes DEF WellFormed
<1>2. Grown(p, cascaded) /\ cascaded.status = p.status
  BY <1>1, SkipCascadedGrown
<1> HIDE DEF cascaded
<1>3. WellFormed(cascaded)
  BY <1>2 DEF Grown
<1>4. /\ Grown(cascaded, q)
      /\ Ended(cascaded) => q.status = cascaded.status
  BY <1>3, FinishedGrown
<1> HIDE DEF q
<1>5. Grown(p, q)
  BY <1>2, <1>4, GrownTransitive
<1>6. Ended(p) => q.status = p.status
  BY <1>2, <1>4 DEF Ended
<1> QED
  BY <1>5, <1>6 DEF q, cascaded

LEMMA StepStateGrown ==
    ASSUME NEW r, WellFormed(r), NEW s \in Steps(r),
           NEW status \in StepStatus \cup {"keep"}, NEW out \in Output
    PROVE  /\ Grown(Patched(r, s, status, out), StepState(r, s, status, out))
           /\ Ended(r) => StepState(r, s, status, out).status = r.status
<1>0. LET p == Patched(r, s, status, out) IN
      /\ WellFormed(p)
      /\ SameGraph(r, p) /\ p.status = r.status
      /\ status = "keep" => p.st = r.st
      /\ status # "keep" => p.st = [r.st EXCEPT ![s] = status]
  BY PatchedRun, Zenon
<1> DEFINE p == Patched(r, s, status, out)
           q == StepState(r, s, status, out)
<1>1. WellFormed(p) /\ p.status = r.status /\ SameGraph(r, p)
  BY <1>0
<1>2. q = CASE p.st[s] = "done"    -> Finished(AutoRepaired(ReadyPropagated(p, s), s))
            [] p.st[s] = "skipped" -> Finished(SkipCascaded(p, s))
            [] p.st[s] = "error"   -> Failed(p)
            [] OTHER               -> p
  BY DEF StepState
<1> HIDE DEF p, q
<1>3. s \in Steps(p) /\ (Ended(p) <=> Ended(r))
  BY <1>1 DEF SameGraph, Steps, Ended
<1>4. CASE p.st[s] = "done"
  <2>1. q = Finished(AutoRepaired(ReadyPropagated(p, s), s))
    BY <1>2, <1>4
  <2> QED
    BY <1>1, <1>3, <1>4, <2>1, DoneGrown DEF p, q
<1>5. CASE p.st[s] = "skipped"
  <2>1. q = Finished(SkipCascaded(p, s))
    BY <1>2, <1>5
  <2> QED
    BY <1>1, <1>3, <2>1, SkippedGrown DEF p, q
<1>6. CASE p.st[s] = "error"
  <2>1. q = Failed(p)
    BY <1>2, <1>6
  <2> QED
    BY <1>1, <1>3, <2>1, FailedGrown DEF p, q
<1>7. CASE p.st[s] \notin {"done", "skipped", "error"}
  <2>1. q = p
    BY <1>2, <1>7
  <2> QED
    BY <1>1, <2>1, GrownItself DEF p, q
<1> QED
  BY <1>4, <1>5, <1>6, <1>7

(* What a later run keeps of an earlier one, a patch of one step included: *)
(* results, the readiness of what was ready, and its reason.               *)
Kept(r, q) ==
    /\ WellFormed(q)
    /\ r.n <= q.n
    /\ \A t \in StepId : r.st[t] = "done" => q.st[t] = "done"
    /\ \A t \in Steps(r) : ParentsAll(r, t, {"done"}) => ParentsAll(q, t, {"done"})
    /\ \A t \in StepId : q.st[t] = "ready" /\ r.st[t] # "ready" =>
                            ParentsAll(q, t, {"done"})

LEMMA GrownKept ==
    ASSUME NEW r, NEW q, WellFormed(r), Grown(r, q)
    PROVE  Kept(r, q)
<1>1. \A t \in StepId : r.st[t] = "done" => q.st[t] = "done"
  BY DEF Grown, MovesForward, Sweepable
<1>2. \A t \in Steps(r) : r.par[t] \subseteq StepId /\ q.par[t] = r.par[t]
  BY FieldTypes DEF WellFormed, Grown
<1>3. \A t \in Steps(r) : ParentsAll(r, t, {"done"}) => ParentsAll(q, t, {"done"})
  BY <1>1, <1>2 DEF ParentsAll
<1> QED
  BY <1>1, <1>3 DEF Grown, Kept

LEMMA StepStateKept ==
    ASSUME NEW r, WellFormed(r), NEW s \in Steps(r),
           NEW status \in StepStatus \cup {"keep"}, NEW out \in Output,
           status # "ready",
           r.st[s] = "done" => status \in {"keep", "done"}
    PROVE  LET q == StepState(r, s, status, out) IN
           /\ Kept(r, q)
           /\ \A t \in StepId : t # s => MovesForward(r.st[t], q.st[t])
           /\ status = "keep" => MovesForward(r.st[s], q.st[s])
           /\ status # "keep" => MovesForward(status, q.st[s])
<1>0. LET p == Patched(r, s, status, out) IN
      /\ WellFormed(p)
      /\ SameGraph(r, p) /\ p.status = r.status
      /\ status = "keep" => p.st = r.st
      /\ status # "keep" => p.st = [r.st EXCEPT ![s] = status]
  BY PatchedRun, Zenon
<1> DEFINE p == Patched(r, s, status, out)
           q == StepState(r, s, status, out)
<1>1. /\ WellFormed(p) /\ SameGraph(r, p)
      /\ status = "keep" => p.st = r.st
      /\ status # "keep" => p.st = [r.st EXCEPT ![s] = status]
  BY <1>0
<1>2. Grown(p, q)
  BY StepStateGrown
<1> HIDE DEF p, q
<1>3. Kept(p, q)
  BY <1>1, <1>2, GrownKept
<1>4. /\ r.st \in [StepId -> StepStatus] /\ s \in StepId
      /\ \A t \in StepId : t # s => p.st[t] = r.st[t]
      /\ status # "keep" => p.st[s] = status
  <2>1. r.st \in [StepId -> StepStatus] /\ s \in StepId
    BY FieldTypes DEF WellFormed
  <2> QED
    BY <1>1, <2>1
<1>5. \A t \in StepId : r.st[t] = "done" => p.st[t] = "done"
  BY <1>1, <1>4
<1>6. \A t \in StepId : p.st[t] = "ready" => r.st[t] = "ready"
  BY <1>1, <1>4
<1>7. \A t \in Steps(r) : ParentsAll(r, t, {"done"}) => ParentsAll(p, t, {"done"})
  <2>1. \A t \in Steps(r) : r.par[t] \subseteq StepId
    BY FieldTypes DEF WellFormed
  <2> QED
    BY <1>1, <1>5, <2>1 DEF ParentsAll, SameGraph
<1>8. Steps(p) = Steps(r) /\ p.n = r.n
  BY <1>1 DEF SameGraph, Steps
<1>9. Kept(r, q)
  BY <1>3, <1>5, <1>6, <1>7, <1>8 DEF Kept
<1>10. \A t \in StepId : MovesForward(p.st[t], q.st[t])
  BY <1>2 DEF Grown
<1> QED
  BY <1>1, <1>4, <1>9, <1>10 DEF q

-----------------------------------------------------------------------------
(* What each branch of step_state() makes of the patched run, field by     *)
(* field.                                                                  *)
LEMMA FinishedFields ==
    ASSUME NEW r \in Run
    PROVE  LET q == Finished(r) IN
           /\ SameGraph(r, q) /\ q.st = r.st /\ q.out = r.out
           /\ q.status = IF ~Ended(r) /\ AllFinished(r) THEN "done" ELSE r.status
BY DEF Finished, SameGraph, Run

LEMMA ReadyPropagatedFields ==
    ASSUME NEW r \in Run, NEW s
    PROVE  LET q == ReadyPropagated(r, s) IN
           /\ SameGraph(r, q) /\ q.out = r.out /\ q.status = r.status
           /\ \A t \in StepId :
                q.st[t] = IF t \in NewlyReady(r, s) THEN "ready" ELSE r.st[t]
BY DEF ReadyPropagated, SameGraph, Run

LEMMA FailedFields ==
    ASSUME NEW r \in Run
    PROVE  LET q == Failed(r) IN
           /\ SameGraph(r, q) /\ q.out = r.out
           /\ q.status = IF Ended(r) THEN r.status ELSE "error"
           /\ \A t \in StepId :
                q.st[t] = IF ~Ended(r) /\ r.st[t] \in Sweepable THEN "skipped"
                                                                ELSE r.st[t]
<1>1. CASE Ended(r)
  BY <1>1 DEF Failed, SameGraph
<1>2. CASE ~Ended(r)
  BY <1>2 DEF Failed, SameGraph, Swept, Run
<1> QED
  BY <1>1, <1>2

LEMMA SkippedFields ==
    ASSUME NEW r \in Run, NEW s
    PROVE  LET q == Finished(SkipCascaded(r, s)) IN
           /\ SameGraph(r, q) /\ q.out = r.out
           /\ q.status = IF ~Ended(r) /\ AllFinished(q) THEN "done" ELSE r.status
           /\ \A t \in StepId :
                q.st[t] = IF t \in Descendants(r, s) /\ r.st[t] \in Sweepable
                          THEN "skipped" ELSE r.st[t]
<1> DEFINE cascaded == SkipCascaded(r, s)
           q == Finished(cascaded)
<1>1. /\ cascaded \in Run /\ SameGraph(r, cascaded)
      /\ cascaded.out = r.out /\ cascaded.status = r.status
      /\ \A t \in StepId :
            cascaded.st[t] = IF t \in Descendants(r, s) /\ r.st[t] \in Sweepable
                             THEN "skipped" ELSE r.st[t]
  <2> DEFINE st == [t \in StepId |->
                        IF t \in Descendants(r, s) /\ r.st[t] \in Sweepable
                        THEN "skipped" ELSE r.st[t]]
  <2>1. st \in [StepId -> StepStatus]
    BY FieldTypes DEF StepStatus
  <2>2. cascaded = [r EXCEPT !.st = st]
    BY DEF SkipCascaded
  <2>3. \A t \in StepId : st[t] = IF t \in Descendants(r, s) /\ r.st[t] \in Sweepable
                                  THEN "skipped" ELSE r.st[t]
    OBVIOUS
  <2> HIDE DEF st, cascaded
  <2> QED
    BY <2>1, <2>2, <2>3 DEF Run, SameGraph
<1> HIDE DEF cascaded
<1>2. /\ SameGraph(cascaded, q) /\ q.st = cascaded.st /\ q.out = cascaded.out
      /\ q.status = IF ~Ended(cascaded) /\ AllFinished(cascaded) THEN "done"
                                                                 ELSE cascaded.status
  BY <1>1, FinishedFields
<1>3. AllFinished(cascaded) <=> AllFinished(q)
  BY <1>2 DEF AllFinished, SameGraph, Steps
<1>4. SameGraph(r, q)
  BY <1>1, <1>2 DEF SameGraph
<1>5. Ended(cascaded) <=> Ended(r)
  BY <1>1 DEF Ended
<1> QED
  BY <1>1, <1>2, <1>3, <1>4, <1>5 DEF cascaded

(* A step done: its children are promoted; if it is a review with findings *)
(* two steps are added.                                                    *)
Extended(r, q, s) ==
    /\ q.n = r.n + 2 /\ q.rounds = r.rounds + 1 /\ q.status = "running"
    /\ q.st[r.n + 1] = "ready" /\ q.st[r.n + 2] = "pending"
    /\ q.par = [r.par EXCEPT ![r.n + 1] = {s}, ![r.n + 2] = {r.n + 1}]
    /\ q.ch = [r.ch EXCEPT ![s] = r.ch[s] \cup {r.n + 1}]
    /\ q.auto = [r.auto EXCEPT ![r.n + 2] = TRUE]

LEMMA DoneFields ==
    ASSUME NEW r, WellFormed(r), NEW s \in Steps(r), r.st[s] = "done"
    PROVE  LET q == Finished(AutoRepaired(ReadyPropagated(r, s), s)) IN
           /\ q.out = r.out
           /\ \A t \in Steps(r) :
                q.st[t] = IF t \in NewlyReady(r, s) THEN "ready" ELSE r.st[t]
           /\ \/ /\ SameGraph(r, q)
                 /\ q.status = IF ~Ended(r) /\ AllFinished(q) THEN "done" ELSE r.status
              \/ NeedsRepair(r, s) /\ Extended(r, q, s)
<1> DEFINE propagated == ReadyPropagated(r, s)
           repaired == AutoRepaired(propagated, s)
           q == Finished(repaired)
<1>1. /\ r \in Run /\ s \in StepId /\ r.n \in Nat /\ s <= r.n /\ s \in Nat
      /\ Steps(r) \subseteq StepId
  BY FieldTypes DEF WellFormed, Steps
<1>2. /\ SameGraph(r, propagated) /\ propagated.out = r.out
      /\ propagated.status = r.status
      /\ \A t \in StepId :
            propagated.st[t] = IF t \in NewlyReady(r, s) THEN "ready" ELSE r.st[t]
  BY <1>1, ReadyPropagatedFields
<1>3. WellFormed(propagated)
  BY <1>1, ReadyPropagatedGrown DEF Grown
<1> HIDE DEF propagated
<1>4. s \in Steps(propagated) /\ propagated \in Run /\ (Ended(propagated) <=> Ended(r))
  BY <1>2, <1>3 DEF SameGraph, Steps, Ended, WellFormed
<1>5. CASE ~NeedsRepair(propagated, s)
  <2>1. repaired = propagated
    BY <1>5 DEF AutoRepaired
  <2> HIDE DEF repaired
  <2>2. /\ SameGraph(propagated, q) /\ q.st = propagated.st /\ q.out = propagated.out
        /\ q.status = IF ~Ended(propagated) /\ AllFinished(propagated) THEN "done"
                                                     ELSE propagated.status
    BY <2>1, <1>4, FinishedFields
  <2> HIDE DEF q
  <2>3. AllFinished(propagated) <=> AllFinished(q)
    BY <2>2 DEF AllFinished, SameGraph, Steps
  <2>4. SameGraph(r, q)
    BY <1>2, <2>2 DEF SameGraph
  <2> QED
    BY <1>1, <1>2, <1>4, <2>2, <2>3, <2>4 DEF q, repaired, propagated
<1>6. CASE NeedsRepair(propagated, s)
  <2>1. NeedsRepair(r, s)
    BY <1>2, <1>4, <1>6 DEF NeedsRepair, SameGraph
  <2>2. repaired = RepairSpawned(propagated, s)
    BY <1>6 DEF AutoRepaired
  <2>3. /\ repaired \in Run
        /\ repaired.n = propagated.n + 2 /\ repaired.rounds = propagated.rounds + 1
        /\ repaired.st = [propagated.st EXCEPT ![propagated.n + 1] = "ready",
                                               ![propagated.n + 2] = "pending"]
        /\ repaired.par = [propagated.par EXCEPT ![propagated.n + 1] = {s},
                                        ![propagated.n + 2] = {propagated.n + 1}]
        /\ repaired.ch = [propagated.ch EXCEPT
                                ![s] = propagated.ch[s] \cup {propagated.n + 1}]
        /\ repaired.auto = [propagated.auto EXCEPT ![propagated.n + 2] = TRUE]
    BY <1>3, <1>4, <1>6, <2>2, RepairFields
  <2>4. repaired.out = propagated.out /\ repaired.status = "running"
    BY <1>4, <2>2 DEF RepairSpawned, Run
  <2>5. propagated.n + 1 \in StepId /\ propagated.n + 2 \in StepId
    BY <1>3, <1>4, <1>6, RoomForRepair
  <2>6. propagated.st \in [StepId -> StepStatus] /\ propagated.n = r.n
    BY <1>2, <1>4, FieldTypes DEF SameGraph
  <2> HIDE DEF repaired
  <2>7. repaired.st[r.n + 1] = "ready" /\ repaired.st[r.n + 2] = "pending"
    BY <1>1, <2>3, <2>5, <2>6
  <2>8. \A t \in Steps(r) : repaired.st[t] = propagated.st[t]
    <3>1. \A t \in Steps(r) : t # r.n + 1 /\ t # r.n + 2
      BY <1>1 DEF Steps
    <3> QED
      BY <1>1, <2>3, <2>6, <3>1
  <2>9. ~AllFinished(repaired)
    <3>1. r.n + 1 \in Steps(repaired)
      BY <1>1, <2>3, <2>6 DEF Steps
    <3> QED
      BY <2>7, <3>1 DEF AllFinished
  <2>10. q = repaired
    BY <2>9 DEF Finished
  <2>11. Extended(r, repaired, s)
    BY <1>2, <2>3, <2>4, <2>6, <2>7 DEF Extended, SameGraph
  <2> HIDE DEF q
  <2>12. \A t \in Steps(r) :
            q.st[t] = IF t \in NewlyReady(r, s) THEN "ready" ELSE r.st[t]
    BY <1>1, <1>2, <2>8, <2>10
  <2>13. q.out = r.out
    BY <1>2, <2>4, <2>10
  <2>14. NeedsRepair(r, s) /\ Extended(r, q, s)
    BY <2>1, <2>10, <2>11
  <2> QED
    BY <2>12, <2>13, <2>14 DEF q, repaired, propagated
<1> QED
  BY <1>5, <1>6

-----------------------------------------------------------------------------
(* Facts of a run that step_state() keeps whatever is reported.            *)

(* No step of a run that has ended waits for an executor.                  *)
Closed(r) == Ended(r) => \A t \in Steps(r) : r.st[t] \notin {"pending", "ready"}

(* A done step has an output and followed its parents; the children lists  *)
(* hold no edge the parents lists do not have.                             *)
Sound(r) ==
    /\ \A t \in Steps(r) : r.st[t] # "absent"
    /\ \A t \in StepId : r.st[t] = "done" =>
            ParentsAll(r, t, {"done"}) /\ r.out[t] # "none"
    /\ \A t, c \in StepId : c \in r.ch[t] => t \in r.par[c]

(* Every child of a step is among that step's children: true of created    *)
(* runs, and until the first repair.                                       *)
Complete(r) == \A t, c \in StepId : t \in r.par[c] => c \in r.ch[t]

(* No pending step has all its parents done.                               *)
Promoted(r) ==
    ~Ended(r) => \A t \in Steps(r) : r.st[t] = "pending" => ~ParentsAll(r, t, {"done"})

LEMMA PatchedFields ==
    ASSUME NEW r, WellFormed(r), NEW s \in Steps(r),
           NEW status \in StepStatus \cup {"keep"}, NEW out \in Output
    PROVE  LET p == Patched(r, s, status, out) IN
           /\ WellFormed(p) /\ SameGraph(r, p) /\ p.status = r.status
           /\ p.st[s] = IF status = "keep" THEN r.st[s] ELSE status
           /\ p.out[s] = IF out = "none" THEN r.out[s] ELSE out
           /\ \A t \in StepId : t # s => p.st[t] = r.st[t] /\ p.out[t] = r.out[t]
<1>0. LET p == Patched(r, s, status, out) IN
      /\ WellFormed(p)
      /\ SameGraph(r, p) /\ p.status = r.status
      /\ status = "keep" => p.st = r.st
      /\ status # "keep" => p.st = [r.st EXCEPT ![s] = status]
  BY PatchedRun, Zenon
<1>1. /\ r \in Run /\ s \in StepId
      /\ r.st \in [StepId -> StepStatus] /\ r.out \in [StepId -> Output]
  BY FieldTypes DEF WellFormed
<1>2. Patched(r, s, status, out).out =
        [r.out EXCEPT ![s] = IF out = "none" THEN @ ELSE out]
  BY <1>1 DEF Patched, Run
<1> QED
  BY <1>0, <1>1, <1>2

(* The four branches of step_state(): p is the patched run, q the result.  *)
Outcome(p, q) == IF ~Ended(p) /\ AllFinished(q) THEN "done" ELSE p.status

DoneBranch(p, q, s) ==
    /\ p.st[s] = "done"
    /\ \A t \in Steps(p) :
            q.st[t] = IF t \in NewlyReady(p, s) THEN "ready" ELSE p.st[t]
    /\ \/ SameGraph(p, q) /\ q.status = Outcome(p, q)
       \/ NeedsRepair(p, s) /\ Extended(p, q, s)

SkippedBranch(p, q, s) ==
    /\ p.st[s] = "skipped"
    /\ \A t \in StepId :
            q.st[t] = IF t \in Descendants(p, s) /\ p.st[t] \in Sweepable
                      THEN "skipped" ELSE p.st[t]
    /\ SameGraph(p, q) /\ q.status = Outcome(p, q)

ErrorBranch(p, q, s) ==
    /\ p.st[s] = "error"
    /\ \A t \in StepId :
            q.st[t] = IF ~Ended(p) /\ p.st[t] \in Sweepable THEN "skipped"
                                                            ELSE p.st[t]
    /\ SameGraph(p, q) /\ q.status = IF Ended(p) THEN p.status ELSE "error"

LEMMA StepStateCases ==
    ASSUME NEW r, WellFormed(r), NEW s \in Steps(r),
           NEW status \in StepStatus \cup {"keep"}, NEW out \in Output
    PROVE  LET p == Patched(r, s, status, out)
               q == StepState(r, s, status, out)
           IN
           /\ WellFormed(p) /\ p \in Run /\ Steps(p) = Steps(r) /\ s \in StepId
           /\ WellFormed(q) /\ q.out = p.out
           /\ \/ DoneBranch(p, q, s) \/ SkippedBranch(p, q, s) \/ ErrorBranch(p, q, s)
              \/ p.st[s] \notin {"done", "skipped", "error"} /\ q = p
<1> DEFINE p == Patched(r, s, status, out)
           q == StepState(r, s, status, out)
<1>1. WellFormed(p) /\ SameGraph(r, p)
  BY PatchedFields
<1>2. WellFormed(q)
  BY StepStateGrown DEF Grown
<1>3. q = CASE p.st[s] = "done"    -> Finished(AutoRepaired(ReadyPropagated(p, s), s))
            [] p.st[s] = "skipped" -> Finished(SkipCascaded(p, s))
            [] p.st[s] = "error"   -> Failed(p)
            [] OTHER               -> p
  BY DEF StepState
<1> HIDE DEF p, q
<1>4. s \in Steps(p) /\ Steps(p) = Steps(r) /\ p \in Run /\ s \in StepId
  BY <1>1, FieldTypes DEF SameGraph, Steps, WellFormed
<1>5. CASE p.st[s] = "done"
  <2>1. q = Finished(AutoRepaired(ReadyPropagated(p, s), s))
    BY <1>3, <1>5
  <2> QED
    BY <1>1, <1>2, <1>4, <1>5, <2>1, DoneFields DEF p, q, DoneBranch, Outcome
<1>6. CASE p.st[s] = "skipped"
  <2>1. q = Finished(SkipCascaded(p, s))
    BY <1>3, <1>6
  <2> QED
    BY <1>1, <1>2, <1>4, <1>6, <2>1, SkippedFields DEF p, q, SkippedBranch, Outcome
<1>7. CASE p.st[s] = "error"
  <2>1. q = Failed(p)
    BY <1>3, <1>7
  <2> QED
    BY <1>1, <1>2, <1>4, <1>7, <2>1, FailedFields DEF p, q, ErrorBranch
<1>8. CASE p.st[s] \notin {"done", "skipped", "error"}
  <2>1. q = p
    BY <1>3, <1>8
  <2> QED
    BY <1>1, <1>2, <1>4, <1>8, <2>1 DEF p, q
<1> QED
  BY <1>5, <1>6, <1>7, <1>8

LEMMA ClosedKept ==
    ASSUME NEW r, WellFormed(r), NEW s \in Steps(r),
           NEW status \in StepStatus \cup {"keep"}, NEW out \in Output,
           status \notin {"pending", "ready"}, Closed(r)
    PROVE  Closed(StepState(r, s, status, out))
<1> DEFINE p == Patched(r, s, status, out)
           q == StepState(r, s, status, out)
<1>1. /\ SameGraph(r, p) /\ p.status = r.status
      /\ p.st[s] = IF status = "keep" THEN r.st[s] ELSE status
      /\ \A t \in StepId : t # s => p.st[t] = r.st[t]
  BY PatchedFields
<1>2. /\ WellFormed(p) /\ p \in Run /\ Steps(p) = Steps(r) /\ s \in StepId
      /\ \/ DoneBranch(p, q, s) \/ SkippedBranch(p, q, s) \/ ErrorBranch(p, q, s)
         \/ p.st[s] \notin {"done", "skipped", "error"} /\ q = p
  BY StepStateCases
<1> SUFFICES Closed(q)
  OBVIOUS
<1> HIDE DEF p, q
<1>3. Steps(p) \subseteq StepId
  BY <1>2, FieldTypes
<1>4. Closed(p)
  BY <1>1, <1>2, <1>3 DEF Closed, Ended
<1>5. \A t \in Steps(p) : t \in NewlyReady(p, s) => p.st[t] = "pending"
  BY DEF NewlyReady
<1>6. SameGraph(p, q) => Steps(q) = Steps(p)
  BY DEF SameGraph, Steps
<1>7. CASE DoneBranch(p, q, s)
  <2>1. CASE Extended(p, q, s)
    BY <2>1 DEF Extended, Closed, Ended, Final
  <2>2. CASE SameGraph(p, q) /\ q.status = Outcome(p, q)
    BY <1>4, <1>5, <1>6, <1>7, <2>2 DEF Closed, DoneBranch, Outcome, Ended, AllFinished
  <2> QED
    BY <1>7, <2>1, <2>2 DEF DoneBranch
<1>8. CASE SkippedBranch(p, q, s)
  BY <1>3, <1>4, <1>6, <1>8 DEF Closed, SkippedBranch, Outcome, Ended, AllFinished
<1>9. CASE ErrorBranch(p, q, s)
  BY <1>3, <1>4, <1>6, <1>9 DEF Closed, ErrorBranch, Ended, Sweepable
<1> QED
  BY <1>2, <1>4, <1>7, <1>8, <1>9

LEMMA ExtendedSteps ==
    ASSUME NEW r, WellFormed(r), NEW s \in Steps(r), NeedsRepair(r, s),
           NEW q, Extended(r, q, s)
    PROVE  /\ Steps(q) = Steps(r) \cup {r.n + 1, r.n + 2}
           /\ r.n + 1 \in StepId \ Steps(r) /\ r.n + 2 \in StepId \ Steps(r)
           /\ r.n + 1 # r.n + 2
           /\ \A t \in Steps(r) : q.par[t] = r.par[t]
           /\ q.par[r.n + 1] = {s} /\ q.par[r.n + 2] = {r.n + 1}
           /\ \A t, c \in StepId :
                c \in q.ch[t] <=> c \in r.ch[t] \/ (t = s /\ c = r.n + 1)
           /\ \A t \in StepId : q.auto[t] <=> r.auto[t] \/ t = r.n + 2
<1>1. /\ r.n \in Nat /\ s \in StepId /\ Steps(r) \subseteq StepId
      /\ r.par \in [StepId -> SUBSET StepId] /\ r.ch \in [StepId -> SUBSET StepId]
      /\ r.auto \in [StepId -> BOOLEAN]
  BY FieldTypes DEF WellFormed
<1>2. r.n + 1 \in StepId /\ r.n + 2 \in StepId
  BY RoomForRepair
<1>3. r.n + 1 \notin Steps(r) /\ r.n + 2 \notin Steps(r) /\ r.n + 1 # r.n + 2
  BY <1>1 DEF Steps
<1>4. Steps(q) = Steps(r) \cup {r.n + 1, r.n + 2}
  BY <1>1 DEF Steps, Extended
<1>5. /\ \A t \in Steps(r) : q.par[t] = r.par[t]
      /\ q.par[r.n + 1] = {s} /\ q.par[r.n + 2] = {r.n + 1}
  BY <1>1, <1>2, <1>3 DEF Extended
<1>6. \A t, c \in StepId : c \in q.ch[t] <=> c \in r.ch[t] \/ (t = s /\ c = r.n + 1)
  BY <1>1 DEF Extended
<1>7. \A t \in StepId : q.auto[t] <=> r.auto[t] \/ t = r.n + 2
  BY <1>1, <1>2 DEF Extended
<1> QED
  BY <1>2, <1>3, <1>4, <1>5, <1>6, <1>7

LEMMA SoundKept ==
    ASSUME NEW r, WellFormed(r), NEW s \in Steps(r),
           NEW status \in {"keep", "running", "done", "error", "skipped"},
           NEW out \in Output,
           r.st[s] = "done" => status \in {"keep", "done"},
           status = "done" => ParentsAll(r, s, {"done"}) /\ out # "none",
           Sound(r)
    PROVE  /\ Sound(Patched(r, s, status, out))
           /\ Sound(StepState(r, s, status, out))
<1> DEFINE p == Patched(r, s, status, out)
           q == StepState(r, s, status, out)
<1>0. status \in StepStatus \cup {"keep"}
  BY DEF StepStatus
<1>1. /\ SameGraph(r, p) /\ p.status = r.status
      /\ p.st[s] = IF status = "keep" THEN r.st[s] ELSE status
      /\ p.out[s] = IF out = "none" THEN r.out[s] ELSE out
      /\ \A t \in StepId : t # s => p.st[t] = r.st[t] /\ p.out[t] = r.out[t]
  BY <1>0, PatchedFields
<1>2. /\ WellFormed(p) /\ p \in Run /\ Steps(p) = Steps(r) /\ s \in StepId
      /\ WellFormed(q) /\ q.out = p.out
      /\ \/ DoneBranch(p, q, s) \/ SkippedBranch(p, q, s) \/ ErrorBranch(p, q, s)
         \/ p.st[s] \notin {"done", "skipped", "error"} /\ q = p
  BY <1>0, StepStateCases
<1>3. Grown(p, q) /\ Kept(p, q)
  BY <1>0, <1>2, StepStateGrown, GrownKept
<1> HIDE DEF p, q
<1>4. /\ Steps(p) \subseteq StepId
      /\ \A t \in StepId : r.par[t] \subseteq StepId /\ p.par[t] = r.par[t]
  BY <1>1, <1>2, FieldTypes DEF WellFormed, SameGraph
<1>5. Sound(p)
  <2>1. \A t \in Steps(p) : p.st[t] # "absent"
    BY <1>1, <1>2, <1>4 DEF Sound
  <2>2. \A t \in StepId : r.st[t] = "done" => p.st[t] = "done"
    BY <1>1
  <2>3. \A t \in StepId : ParentsAll(r, t, {"done"}) => ParentsAll(p, t, {"done"})
    BY <1>4, <2>2 DEF ParentsAll
  <2>4. \A t \in StepId : p.st[t] = "done" =>
            ParentsAll(p, t, {"done"}) /\ p.out[t] # "none"
    BY <1>1, <2>3 DEF Sound
  <2>5. \A t, c \in StepId : c \in p.ch[t] => t \in p.par[c]
    BY <1>1 DEF Sound, SameGraph
  <2> QED
    BY <2>1, <2>4, <2>5 DEF Sound
<1>6. ASSUME NEW t \in StepId, q.st[t] = "done"
      PROVE  ParentsAll(q, t, {"done"}) /\ q.out[t] # "none"
  <2>1. p.st[t] = "done"
    BY <1>3, <1>6 DEF Grown, MovesForward
  <2>2. t \in Steps(p)
    BY <1>2, <2>1, FieldTypes, BoundsAssumption DEF WellFormed, Steps, StepId
  <2> QED
    BY <1>2, <1>3, <1>5, <2>1, <2>2 DEF Sound, Kept
<1>7. \A t \in Steps(p) : q.st[t] # "absent"
  BY <1>3, <1>4, <1>5 DEF Sound, Grown, MovesForward
<1>8. CASE SameGraph(p, q)
  <2>1. Steps(q) = Steps(p) /\ q.ch = p.ch /\ q.par = p.par
    BY <1>8 DEF SameGraph, Steps
  <2> QED
    BY <1>5, <1>6, <1>7, <2>1 DEF Sound, p, q
<1>9. CASE NeedsRepair(p, s) /\ Extended(p, q, s)
  <2>1. /\ Steps(q) = Steps(p) \cup {p.n + 1, p.n + 2}
        /\ p.n + 1 \in StepId \ Steps(p)
        /\ \A t \in Steps(p) : q.par[t] = p.par[t]
        /\ q.par[p.n + 1] = {s}
        /\ \A t, c \in StepId :
                c \in q.ch[t] => c \in p.ch[t] \/ (t = s /\ c = p.n + 1)
    BY <1>2, <1>9, ExtendedSteps
  <2>2. \A t \in Steps(q) : q.st[t] # "absent"
    BY <1>7, <1>9, <2>1 DEF Extended
  <2>3. \A t, c \in StepId : c \in p.ch[t] => c \in Steps(p)
    BY <1>2 DEF WellFormed
  <2>4. \A t, c \in StepId : c \in q.ch[t] => t \in q.par[c]
    BY <1>5, <2>1, <2>3 DEF Sound
  <2> QED
    BY <1>5, <1>6, <2>2, <2>4 DEF Sound, p, q
<1>10. SameGraph(p, q) \/ (NeedsRepair(p, s) /\ Extended(p, q, s))
  BY <1>2 DEF DoneBranch, SkippedBranch, ErrorBranch, SameGraph
<1> QED
  BY <1>8, <1>9, <1>10

(* Skipping a step that is not done spares every step whose parents are    *)
(* done: the cascade follows children lists, which hold only real edges,   *)
(* and stops before no step whose own parents are not done.                *)
LEMMA CascadeSpares ==
    ASSUME NEW r, WellFormed(r), NEW s \in Steps(r), Sound(r), r.st[s] # "done",
           NEW t \in Descendants(r, s)
    PROVE  ~ParentsAll(r, t, {"done"})
<1> DEFINE D == {u \in Steps(r) : ~ParentsAll(r, u, {"done"})}
<1>1. /\ Steps(r) \subseteq StepId /\ s \in StepId
      /\ \A u \in StepId : r.ch[u] \subseteq Steps(r)
  BY FieldTypes DEF WellFormed
<1>2. ASSUME NEW u \in StepId, r.st[u] # "done"
      PROVE  r.ch[u] \subseteq D
  BY <1>1, <1>2 DEF Sound, ParentsAll
<1>3. \A u \in D : r.ch[u] \subseteq D
  BY <1>1, <1>2 DEF Sound
<1>4. r.ch[s] \subseteq D
  BY <1>1, <1>2
<1> HIDE DEF D
<1>5. D \in SUBSET Steps(r)
  BY DEF D
<1>6. t \in D
  BY <1>3, <1>4, <1>5 DEF Descendants
<1> QED
  BY <1>6 DEF D

(* What step_state() makes of the run's own status, and what of the graph. *)
LEMMA StepStateJudged ==
    ASSUME NEW r, WellFormed(r), NEW s \in Steps(r),
           NEW status \in StepStatus \cup {"keep"}, NEW out \in Output
    PROVE  LET q == StepState(r, s, status, out)
               given == IF status = "keep" THEN r.st[s] ELSE status
           IN
           /\ Ended(r) => q.status = r.status /\ SameGraph(r, q)
           /\ ~Ended(r) /\ q.status = "done" => AllFinished(q)
           /\ ~Ended(r) /\ q.status = "error" => q.st[s] = "error"
           /\ given = "error" => Ended(q)
           /\ given \in {"done", "skipped"} /\ ~Ended(q) => ~AllFinished(q)
           /\ given = "done" =>
                \A t \in Steps(q) : q.st[t] = "skipped" => t \in Steps(r) /\ r.st[t] = "skipped"
           /\ q.status \in {r.status, "running", "done", "error"}
           /\ q.rounds = r.rounds \/ q.rounds = r.rounds + 1
           /\ q.rounds = r.rounds => SameGraph(r, q)
           /\ given # "done" => SameGraph(r, q)
<1> DEFINE p == Patched(r, s, status, out)
           q == StepState(r, s, status, out)
           given == IF status = "keep" THEN r.st[s] ELSE status
<1>1. /\ SameGraph(r, p) /\ p.status = r.status /\ p.st[s] = given
      /\ \A t \in StepId : t # s => p.st[t] = r.st[t]
  BY PatchedFields
<1>2. /\ WellFormed(p) /\ p \in Run /\ Steps(p) = Steps(r) /\ s \in StepId
      /\ \/ DoneBranch(p, q, s) \/ SkippedBranch(p, q, s) \/ ErrorBranch(p, q, s)
         \/ p.st[s] \notin {"done", "skipped", "error"} /\ q = p
  BY StepStateCases
<1> DEFINE Judged ==
           /\ Ended(r) => q.status = r.status /\ SameGraph(r, q)
           /\ ~Ended(r) /\ q.status = "done" => AllFinished(q)
           /\ ~Ended(r) /\ q.status = "error" => q.st[s] = "error"
           /\ given = "error" => Ended(q)
           /\ given \in {"done", "skipped"} /\ ~Ended(q) => ~AllFinished(q)
           /\ given = "done" =>
                \A t \in Steps(q) : q.st[t] = "skipped" => t \in Steps(r) /\ r.st[t] = "skipped"
           /\ q.status \in {r.status, "running", "done", "error"}
           /\ q.rounds = r.rounds \/ q.rounds = r.rounds + 1
           /\ q.rounds = r.rounds => SameGraph(r, q)
           /\ given # "done" => SameGraph(r, q)
<1> SUFFICES Judged
  OBVIOUS
<1> HIDE DEF p, q, given
<1>3. SameGraph(p, q) => SameGraph(r, q) /\ Steps(q) = Steps(r)
  BY <1>1 DEF SameGraph, Steps
<1>4. Steps(p) \subseteq StepId /\ (Ended(p) <=> Ended(r)) /\ r.rounds = p.rounds
  BY <1>1, <1>2, FieldTypes DEF Ended, SameGraph
<1>5. CASE DoneBranch(p, q, s) /\ SameGraph(p, q) /\ q.status = Outcome(p, q)
  <2>1. \A t \in Steps(q) : q.st[t] = "skipped" => t \in Steps(r) /\ r.st[t] = "skipped"
    BY <1>1, <1>2, <1>3, <1>4, <1>5 DEF DoneBranch
  <2>2. q.rounds = r.rounds
    BY <1>3, <1>5 DEF SameGraph
  <2>3. given = "done"
    BY <1>1, <1>5 DEF DoneBranch
  <2> QED
    BY <1>1, <1>3, <1>4, <1>5, <2>1, <2>2, <2>3 DEF Outcome, Ended, Final
<1>6. CASE DoneBranch(p, q, s) /\ NeedsRepair(p, s) /\ Extended(p, q, s)
  <2>1. /\ Steps(q) = Steps(p) \cup {p.n + 1, p.n + 2}
        /\ p.n + 1 \notin Steps(p)
    BY <1>2, <1>6, ExtendedSteps
  <2>2. /\ q.st[p.n + 1] = "ready" /\ q.st[p.n + 2] = "pending"
        /\ q.status = "running" /\ q.rounds = p.rounds + 1
    BY <1>6 DEF Extended
  <2>3. \A t \in Steps(q) : q.st[t] = "skipped" => t \in Steps(r) /\ r.st[t] = "skipped"
    BY <1>1, <1>2, <1>4, <1>6, <2>1, <2>2 DEF DoneBranch
  <2>4. ~AllFinished(q) /\ ~Ended(q)
    BY <2>1, <2>2 DEF AllFinished, Ended, Final
  <2>5. given = "done" /\ ~Ended(r)
    BY <1>1, <1>4, <1>6 DEF DoneBranch, NeedsRepair
  <2>6. p.rounds \in Nat
    BY <1>2, FieldTypes, BoundsAssumption
  <2> QED
    BY <1>4, <2>2, <2>3, <2>4, <2>5, <2>6
<1>7. CASE SkippedBranch(p, q, s)
  <2>1. given = "skipped"
    BY <1>1, <1>7 DEF SkippedBranch
  <2>2. SameGraph(p, q) /\ q.status = Outcome(p, q) /\ q.rounds = r.rounds
    BY <1>4, <1>7 DEF SkippedBranch, SameGraph
  <2> QED
    BY <1>1, <1>3, <1>4, <2>1, <2>2 DEF Outcome, Ended, Final
<1>8. CASE ErrorBranch(p, q, s)
  <2>1. given = "error" /\ p.st[s] = "error"
    BY <1>1, <1>8 DEF ErrorBranch
  <2>2. /\ SameGraph(p, q) /\ q.rounds = r.rounds
        /\ q.status = IF Ended(p) THEN p.status ELSE "error"
        /\ q.st[s] = "error"
    BY <1>2, <1>4, <1>8 DEF ErrorBranch, SameGraph, Sweepable
  <2> QED
    BY <1>1, <1>3, <1>4, <2>1, <2>2 DEF Ended, Final
<1>9. CASE p.st[s] \notin {"done", "skipped", "error"} /\ q = p
  BY <1>1, <1>4, <1>9 DEF Ended, Final, SameGraph
<1> QED
  BY <1>2, <1>5, <1>6, <1>7, <1>8, <1>9 DEF DoneBranch

(* A report on one step leaves every other step that was started, or could *)
(* have been, as it is, unless it fails the run.                           *)
LEMMA OthersSpared ==
    ASSUME NEW r, WellFormed(r), NEW s \in Steps(r),
           NEW status \in StepStatus \cup {"keep"}, NEW out \in Output,
           r.st[s] = "done" => status \in {"keep", "done"},
           Sound(Patched(r, s, status, out)),
           NEW t \in Steps(r), t # s, ParentsAll(r, t, {"done"}), r.st[t] # "pending"
    PROVE  LET q == StepState(r, s, status, out) IN
           q.status = "error" \/ q.st[t] = r.st[t]
<1> DEFINE p == Patched(r, s, status, out)
           q == StepState(r, s, status, out)
<1>1. /\ SameGraph(r, p) /\ Sound(p)
      /\ p.st[s] = IF status = "keep" THEN r.st[s] ELSE status
      /\ \A u \in StepId : u # s => p.st[u] = r.st[u]
  BY PatchedFields
<1>2. /\ WellFormed(p) /\ p \in Run /\ Steps(p) = Steps(r) /\ s \in StepId
      /\ \/ DoneBranch(p, q, s) \/ SkippedBranch(p, q, s) \/ ErrorBranch(p, q, s)
         \/ p.st[s] \notin {"done", "skipped", "error"} /\ q = p
  BY StepStateCases
<1> SUFFICES q.status = "error" \/ q.st[t] = r.st[t]
  OBVIOUS
<1> HIDE DEF p, q
<1>3. t \in StepId /\ p.st[t] = r.st[t]
  BY <1>1, <1>2, FieldTypes
<1>4. ParentsAll(p, t, {"done"})
  <2>1. r.par[t] \subseteq StepId /\ p.par = r.par
    BY <1>1, <1>3, FieldTypes DEF WellFormed, SameGraph
  <2>2. \A u \in StepId : r.st[u] = "done" => p.st[u] = "done"
    BY <1>1
  <2> QED
    BY <2>1, <2>2 DEF ParentsAll
<1>5. CASE DoneBranch(p, q, s)
  BY <1>2, <1>3, <1>5 DEF DoneBranch, NewlyReady
<1>6. CASE SkippedBranch(p, q, s)
  <2>1. p.st[s] # "done"
    BY <1>6 DEF SkippedBranch
  <2>2. t \notin Descendants(p, s)
    BY <1>1, <1>2, <1>4, <2>1, CascadeSpares
  <2> QED
    BY <1>3, <1>6, <2>2 DEF SkippedBranch
<1>7. CASE ErrorBranch(p, q, s)
  BY <1>3, <1>7 DEF ErrorBranch
<1> QED
  BY <1>2, <1>3, <1>5, <1>6, <1>7

(* A report that neither skips nor fails the step only promotes others.    *)
LEMMA OnlyPromoted ==
    ASSUME NEW r, WellFormed(r), NEW s \in Steps(r),
           NEW status \in StepStatus \cup {"keep"}, NEW out \in Output,
           (IF status = "keep" THEN r.st[s] ELSE status) \notin {"skipped", "error"},
           NEW t \in Steps(r), t # s
    PROVE  LET q == StepState(r, s, status, out) IN
           q.st[t] = r.st[t] \/ (r.st[t] = "pending" /\ q.st[t] = "ready")
<1> DEFINE p == Patched(r, s, status, out)
           q == StepState(r, s, status, out)
<1>1. /\ p.st[s] \notin {"skipped", "error"}
      /\ \A u \in StepId : u # s => p.st[u] = r.st[u]
  BY PatchedFields
<1>2. /\ Steps(p) = Steps(r)
      /\ \/ DoneBranch(p, q, s) \/ SkippedBranch(p, q, s) \/ ErrorBranch(p, q, s)
         \/ p.st[s] \notin {"done", "skipped", "error"} /\ q = p
  BY StepStateCases
<1>a. t \in StepId
  BY FieldTypes DEF WellFormed
<1> SUFFICES q.st[t] = r.st[t] \/ (r.st[t] = "pending" /\ q.st[t] = "ready")
  OBVIOUS
<1> HIDE DEF p, q
<1>3. CASE DoneBranch(p, q, s)
  BY <1>1, <1>2, <1>a, <1>3 DEF DoneBranch, NewlyReady
<1> QED
  BY <1>1, <1>2, <1>a, <1>3 DEF SkippedBranch, ErrorBranch

(* A report that leaves the step unfinished changes nothing else.          *)
LEMMA OnlyPatched ==
    ASSUME NEW r, WellFormed(r), NEW s \in Steps(r),
           NEW status \in StepStatus \cup {"keep"}, NEW out \in Output,
           (IF status = "keep" THEN r.st[s] ELSE status) \notin {"done", "skipped", "error"}
    PROVE  LET q == StepState(r, s, status, out) IN
           /\ SameGraph(r, q) /\ q.status = r.status
           /\ q.st[s] = IF status = "keep" THEN r.st[s] ELSE status
           /\ \A t \in StepId : t # s => q.st[t] = r.st[t]
<1> DEFINE p == Patched(r, s, status, out)
           q == StepState(r, s, status, out)
<1>1. /\ SameGraph(r, p) /\ p.status = r.status
      /\ p.st[s] = IF status = "keep" THEN r.st[s] ELSE status
      /\ \A t \in StepId : t # s => p.st[t] = r.st[t]
  BY PatchedFields
<1>2. \/ DoneBranch(p, q, s) \/ SkippedBranch(p, q, s) \/ ErrorBranch(p, q, s)
      \/ q = p
  BY StepStateCases
<1> HIDE DEF p, q
<1>3. q = p
  BY <1>1, <1>2 DEF DoneBranch, SkippedBranch, ErrorBranch
<1> QED
  BY <1>1, <1>3 DEF q

(* Every step moves forward from what the report made of the reported one. *)
LEMMA ReportMoves ==
    ASSUME NEW r, WellFormed(r), NEW s \in Steps(r),
           NEW status \in StepStatus \cup {"keep"}, NEW out \in Output
    PROVE  LET q == StepState(r, s, status, out) IN
           /\ MovesForward(IF status = "keep" THEN r.st[s] ELSE status, q.st[s])
           /\ \A t \in StepId : t # s => MovesForward(r.st[t], q.st[t])
           /\ WellFormed(q) /\ Steps(r) \subseteq Steps(q)
           /\ \A t \in Steps(r) : q.par[t] = r.par[t]
<1> DEFINE p == Patched(r, s, status, out)
           q == StepState(r, s, status, out)
<1>1. /\ SameGraph(r, p) /\ WellFormed(p)
      /\ p.st[s] = IF status = "keep" THEN r.st[s] ELSE status
      /\ \A t \in StepId : t # s => p.st[t] = r.st[t]
  BY PatchedFields
<1>2. Grown(p, q)
  BY StepStateGrown
<1> HIDE DEF p, q
<1>3. s \in StepId /\ p.n \in Nat /\ q.n \in Nat
  BY <1>1, <1>2, FieldTypes DEF WellFormed, Grown
<1>4. Steps(r) \subseteq Steps(q) /\ Steps(p) = Steps(r)
  BY <1>1, <1>2, <1>3 DEF SameGraph, Grown, Steps
<1> QED
  BY <1>1, <1>2, <1>3, <1>4 DEF Grown, SameGraph, q

(* No order of completions loses a promotion, while the children lists are *)
(* complete: the last parent to be done promotes the step.                 *)
LEMMA PromotedKept ==
    ASSUME NEW r, WellFormed(r), NEW s \in Steps(r),
           NEW status \in {"keep", "running", "done", "error", "skipped"},
           NEW out \in Output,
           Sound(r), Complete(r), Promoted(r),
           StepState(r, s, status, out).rounds = r.rounds
    PROVE  Promoted(StepState(r, s, status, out))
<1> DEFINE p == Patched(r, s, status, out)
           q == StepState(r, s, status, out)
<1>0. status \in StepStatus \cup {"keep"}
  BY DEF StepStatus
<1>1. /\ SameGraph(r, p)
      /\ p.st[s] = IF status = "keep" THEN r.st[s] ELSE status
      /\ \A u \in StepId : u # s => p.st[u] = r.st[u]
  BY <1>0, PatchedFields
<1>2. /\ WellFormed(p) /\ p \in Run /\ Steps(p) = Steps(r) /\ s \in StepId
      /\ \/ DoneBranch(p, q, s) \/ SkippedBranch(p, q, s) \/ ErrorBranch(p, q, s)
         \/ p.st[s] \notin {"done", "skipped", "error"} /\ q = p
  BY <1>0, StepStateCases
<1>3. SameGraph(r, q) /\ (Ended(r) => q.status = r.status)
  BY <1>0, StepStateJudged
<1>4. Grown(p, q)
  BY <1>0, StepStateGrown
<1> SUFFICES ASSUME ~Ended(q), NEW t \in Steps(q), q.st[t] = "pending",
                    ParentsAll(q, t, {"done"})
             PROVE  FALSE
  BY DEF Promoted
<1> HIDE DEF p, q
<1>5. ~Ended(r) /\ t \in Steps(r) /\ t \in StepId
  BY <1>2, <1>3, FieldTypes DEF Ended, SameGraph, Steps
<1>6. p.st[t] = "pending" /\ r.st[t] = "pending"
  BY <1>1, <1>4, <1>5 DEF Grown, MovesForward, Sound
<1>7. r.par[t] \subseteq StepId /\ q.par = r.par /\ p.par = r.par /\ p.ch = r.ch
  BY <1>1, <1>3, <1>5, FieldTypes DEF SameGraph, WellFormed
<1>8. PICK x \in r.par[t] : r.st[x] # "done"
  BY <1>5, <1>6 DEF Promoted, ParentsAll
<1>9. \A y \in StepId : q.st[y] = "done" => p.st[y] = "done"
  BY <1>4 DEF Grown, MovesForward
<1>10. ParentsAll(p, t, {"done"})
  BY <1>7, <1>9 DEF ParentsAll
<1>11. x = s /\ p.st[s] = "done"
  BY <1>1, <1>7, <1>8, <1>10 DEF ParentsAll
<1>12. t \in NewlyReady(p, s)
  BY <1>2, <1>5, <1>6, <1>7, <1>8, <1>10, <1>11 DEF Complete, NewlyReady
<1>13. DoneBranch(p, q, s)
  BY <1>2, <1>11 DEF SkippedBranch, ErrorBranch
<1> QED
  BY <1>2, <1>5, <1>12, <1>13 DEF DoneBranch

(* abort() and start() keep these facts too.                               *)
LEMMA AbortedFacts ==
    ASSUME NEW r, WellFormed(r)
    PROVE  LET q == Aborted(r) IN
           /\ SameGraph(r, q) /\ q.out = r.out /\ q.status = "aborted"
           /\ \A t \in StepId :
                q.st[t] = IF r.st[t] \in Sweepable THEN "skipped" ELSE r.st[t]
           /\ Closed(q) /\ Promoted(q)
           /\ Sound(r) => Sound(q)
<1> DEFINE q == Aborted(r)
<1>1. r \in Run
  BY DEF WellFormed
<1>2. /\ SameGraph(r, q) /\ q.out = r.out /\ q.status = "aborted"
      /\ \A t \in StepId :
            q.st[t] = IF r.st[t] \in Sweepable THEN "skipped" ELSE r.st[t]
  BY <1>1 DEF Aborted, Swept, SameGraph, Run
<1> HIDE DEF q
<1>3. Steps(q) = Steps(r) /\ Steps(r) \subseteq StepId
  BY <1>1, <1>2, FieldTypes DEF SameGraph, Steps
<1>4. Closed(q) /\ Promoted(q)
  BY <1>2, <1>3 DEF Closed, Promoted, Ended, Final, Sweepable
<1>5. ASSUME Sound(r) PROVE Sound(q)
  <2>1. \A t \in StepId : q.st[t] = "done" <=> r.st[t] = "done"
    BY <1>2 DEF Sweepable
  <2>2. \A t \in StepId : q.par[t] = r.par[t] /\ r.par[t] \subseteq StepId
    BY <1>1, <1>2, FieldTypes DEF SameGraph
  <2>3. \A t \in StepId : ParentsAll(r, t, {"done"}) => ParentsAll(q, t, {"done"})
    BY <2>1, <2>2 DEF ParentsAll
  <2>4. \A t \in Steps(q) : q.st[t] # "absent"
    BY <1>2, <1>3, <1>5 DEF Sound, Sweepable
  <2> QED
    BY <1>2, <1>5, <2>1, <2>3, <2>4 DEF Sound, SameGraph
<1> QED
  BY <1>2, <1>4, <1>5 DEF q

LEMMA StartedFacts ==
    ASSUME NEW r, WellFormed(r)
    PROVE  LET q == Started(r) IN
           /\ SameGraph(r, q) /\ q.st = r.st /\ q.out = r.out /\ q.status = "running"
           /\ Sound(r) => Sound(q)
           /\ Closed(r) /\ Promoted(r) => Closed(q) /\ Promoted(q)
<1> DEFINE q == Started(r)
<1>1. r \in Run
  BY DEF WellFormed
<1>2. SameGraph(r, q) /\ q.st = r.st /\ q.out = r.out /\ q.status = "running"
  BY <1>1 DEF Started, SameGraph, Run
<1> HIDE DEF q
<1>3. Steps(q) = Steps(r)
  BY <1>2 DEF SameGraph, Steps
<1>4. Sound(r) => Sound(q)
  BY <1>2, <1>3 DEF Sound, SameGraph, ParentsAll
<1>5. Closed(r) /\ Promoted(r) => Closed(q) /\ Promoted(q)
  BY <1>2, <1>3 DEF Closed, Promoted, Ended, Final, SameGraph, ParentsAll
<1> QED
  BY <1>2, <1>4, <1>5 DEF q

-----------------------------------------------------------------------------
(* create(): the graphs it is given once their parents are resolved.       *)
GoodGraph(g) ==
    /\ g \in Graph
    /\ (\E s \in StepId : g.auto[s]) => g.n + 2 * MaxRepairRounds <= MaxSteps
    /\ \A s \in StepId : g.par[s] \subseteq (1..g.n) \ {s}
    /\ \A s \in StepId : s > g.n => g.par[s] = {} /\ ~g.auto[s]

LEMMA NewRunWellFormed ==
    ASSUME NEW g, GoodGraph(g)
    PROVE  /\ WellFormed(NewRun(g))
           /\ \A s \in StepId : NewRun(g).st[s] \in {"absent", "pending", "ready"}
           /\ \A s \in StepId : NewRun(g).st[s] = "ready" => NewRun(g).par[s] = {}
<1> DEFINE q == NewRun(g)
           st == [s \in StepId |-> IF s > g.n THEN "absent"
                                   ELSE IF g.par[s] = {} THEN "ready" ELSE "pending"]
<1>1. g.n \in StepId /\ g.par \in [StepId -> SUBSET StepId] /\ g.auto \in [StepId -> BOOLEAN]
  BY DEF GoodGraph, Graph
<1>2. \A s \in StepId : st[s] \in {"absent", "pending", "ready"}
  OBVIOUS
<1>3. st \in [StepId -> StepStatus]
  BY <1>2 DEF StepStatus
<1>4. ChildrenOf(g.par) \in [StepId -> SUBSET StepId]
  BY DEF ChildrenOf
<1>5. [s \in StepId |-> "none"] \in [StepId -> Output]
  BY DEF Output
<1>6. ASSUME NEW s \in StepId, s > g.n
      PROVE  st[s] = "absent"
  BY <1>6
<1>7. ASSUME NEW s \in StepId, st[s] = "ready"
      PROVE  g.par[s] = {}
  BY <1>7
<1>8. /\ q.status = "pending" /\ q.n = g.n /\ q.st = st /\ q.par = g.par
      /\ q.ch = ChildrenOf(g.par) /\ q.auto = g.auto /\ q.rounds = 0
  BY DEF NewRun
<1> HIDE DEF st
<1>9. q \in Run
  BY <1>1, <1>3, <1>4, <1>5, BoundsAssumption DEF NewRun, Run, RunStatus, st
<1> HIDE DEF q
<1>10. \A s \in StepId : s > q.n => q.st[s] = "absent" /\ q.par[s] = {}
  BY <1>6, <1>8 DEF GoodGraph
<1>11. \A s \in StepId : q.par[s] \subseteq Steps(q)
  BY <1>8 DEF GoodGraph, Steps
<1>12. \A s \in StepId : q.ch[s] \subseteq Steps(q)
  <2> SUFFICES ASSUME NEW s \in StepId, NEW c \in StepId, s \in g.par[c]
               PROVE  c \in 1..g.n
    BY <1>8 DEF ChildrenOf, Steps
  <2>1. ~(c > g.n)
    BY DEF GoodGraph
  <2> QED
    BY <2>1, <1>1, BoundsAssumption DEF StepId
<1>13. (\E s \in StepId : q.auto[s]) => q.n + 2 * (MaxRepairRounds - q.rounds) <= MaxSteps
  BY <1>8, BoundsAssumption DEF GoodGraph
<1>14. WellFormed(q)
  BY <1>9, <1>10, <1>11, <1>12, <1>13 DEF WellFormed
<1> QED
  BY <1>2, <1>7, <1>8, <1>14 DEF q

LEMMA NewRunFacts ==
    ASSUME NEW g, GoodGraph(g)
    PROVE  LET r == NewRun(g) IN
           /\ Closed(r) /\ Sound(r) /\ Complete(r) /\ Promoted(r)
           /\ r.status = "pending" /\ r.rounds = 0
           /\ \A s \in Steps(r) : r.st[s] \in {"pending", "ready"}
<1> DEFINE r == NewRun(g)
<1>1. /\ WellFormed(r)
      /\ \A s \in StepId : r.st[s] \in {"absent", "pending", "ready"}
      /\ \A s \in StepId : r.st[s] = "ready" => r.par[s] = {}
  BY NewRunWellFormed
<1>2. /\ r.n = g.n /\ r.par = g.par /\ r.ch = ChildrenOf(g.par)
      /\ r.status = "pending" /\ r.rounds = 0
      /\ \A s \in StepId : r.st[s] = IF s > g.n THEN "absent"
                                  ELSE IF g.par[s] = {} THEN "ready" ELSE "pending"
  BY DEF NewRun
<1>3. Steps(r) \subseteq StepId /\ r.n \in Nat /\ StepId \subseteq Nat
  BY <1>1, FieldTypes, BoundsAssumption DEF WellFormed, StepId
<1> HIDE DEF r
<1>4. \A s \in Steps(r) : r.st[s] \in {"pending", "ready"}
  BY <1>2, <1>3 DEF Steps
<1>5. \A t, c \in StepId : c \in r.ch[t] <=> t \in r.par[c]
  BY <1>2 DEF ChildrenOf
<1>6. Sound(r) /\ Complete(r)
  BY <1>1, <1>4, <1>5 DEF Sound, Complete
<1>7. Promoted(r)
  <2> SUFFICES ASSUME NEW t \in Steps(r), r.st[t] = "pending", ParentsAll(r, t, {"done"})
               PROVE  FALSE
    BY DEF Promoted
  <2>1. r.par[t] # {} /\ r.par[t] \subseteq StepId
    BY <1>1, <1>2, <1>3 DEF WellFormed
  <2> QED
    BY <1>1, <2>1 DEF ParentsAll
<1>8. Closed(r)
  BY <1>2 DEF Closed, Ended, Final
<1> QED
  BY <1>2, <1>4, <1>6, <1>7, <1>8 DEF r

(* Every set of steps has one that waits for no other of the set.          *)
Unbroken(n, par) ==
    \A D \in SUBSET (1..n) : D # {} => \E s \in D : par[s] \cap D = {}

(* The Kahn pass over children lists that hold no edge the parents lists   *)
(* do not have lets no cycle through.                                      *)
LEMMA KahnFindsCycles ==
    ASSUME NEW n \in StepId, NEW par \in [StepId -> SUBSET StepId],
           \A s \in 1..n : par[s] \subseteq 1..n,
           NEW ch, \A p, s \in StepId : s \in ch[p] => p \in par[s],
           PassesCycleCheck(n, par, ch)
    PROVE  Unbroken(n, par)
<1>1. n \in Nat /\ 1..n \subseteq StepId
  BY BoundsAssumption DEF StepId
<1> SUFFICES ASSUME NEW D \in SUBSET (1..n),
                    \A s \in D : par[s] \cap D # {}
             PROVE  D = {}
  BY DEF Unbroken
<1> DEFINE E == (1..n) \ D
<1>3. ASSUME NEW s \in 1..n,
             Cardinality({p \in E : s \in ch[p]}) >= Cardinality(par[s])
      PROVE  s \in E
  <2> DEFINE listed == {p \in E : s \in ch[p]}
  <2>1. listed \subseteq par[s] \cap E
    BY <1>1
  <2>2. IsFiniteSet(par[s])
    <3>1. IsFiniteSet(1..n)
      BY <1>1, FS_Interval
    <3> QED
      BY <3>1, FS_Subset
  <2>3. Cardinality(listed) >= Cardinality(par[s])
    BY <1>3
  <2> HIDE DEF listed, E
  <2>4. listed \in SUBSET par[s]
    BY <2>1
  <2>5. /\ Cardinality(listed) <= Cardinality(par[s])
        /\ Cardinality(par[s]) = Cardinality(listed) => par[s] = listed
        /\ Cardinality(listed) \in Nat /\ Cardinality(par[s]) \in Nat
    BY <2>2, <2>4, FS_Subset, FS_CardinalityType
  <2>6. par[s] = listed
    BY <2>3, <2>5
  <2> QED
    BY <2>1, <2>6 DEF E
<1>4. OrderClosed(E, n, par, ch)
  BY <1>3 DEF OrderClosed
<1>5. Ordered(n, par, ch) \subseteq E
  BY <1>4 DEF Ordered
<1>6. 1..n \subseteq E
  BY <1>5 DEF PassesCycleCheck
<1> QED
  BY <1>6

(* create() refuses every cyclic graph, of any size: in the runs it admits *)
(* each set of steps has one that waits for no other of the set (the       *)
(* Kahn pass over the children lists it has just built from the parents).  *)
THEOREM CreateAdmitsNoCycle ==
    ASSUME NEW g, GoodGraph(g), CreateAccepts(g)
    PROVE  \A D \in SUBSET Steps(NewRun(g)) :
                D # {} => \E s \in D : NewRun(g).par[s] \cap D = {}
<1>1. /\ g.n \in StepId /\ 1..g.n \subseteq StepId /\ g.par \in [StepId -> SUBSET StepId]
      /\ \A s \in StepId : g.par[s] \subseteq 1..g.n
  BY BoundsAssumption DEF GoodGraph, Graph, StepId
<1>2. Unbroken(g.n, g.par)
  <2> DEFINE ch == ChildrenOf(g.par)
  <2>1. \A p, s \in StepId : s \in ch[p] => p \in g.par[s]
    BY DEF ChildrenOf
  <2>2. PassesCycleCheck(g.n, g.par, ch)
    BY DEF CreateAccepts
  <2> HIDE DEF ch
  <2> QED
    BY <1>1, <2>1, <2>2, KahnFindsCycles
<1>3. NewRun(g).n = g.n /\ NewRun(g).par = g.par
  BY DEF NewRun
<1> QED
  BY <1>2, <1>3 DEF Unbroken, Steps

-----------------------------------------------------------------------------
(* A step added to the end of the run closes no circle.                    *)
LEMMA OneMoreUnbroken ==
    ASSUME NEW n \in Nat, NEW par, NEW more, Unbroken(n, par),
           \A t \in 1..n : par[t] \subseteq 1..n /\ more[t] = par[t],
           more[n + 1] \subseteq 1..n
    PROVE  Unbroken(n + 1, more)
<1>1. 1..(n + 1) = (1..n) \cup {n + 1} /\ n + 1 \notin 1..n
  OBVIOUS
<1> SUFFICES ASSUME NEW D \in SUBSET (1..(n + 1)), D # {}
             PROVE  \E t \in D : more[t] \cap D = {}
  BY DEF Unbroken
<1> DEFINE old == D \cap (1..n)
<1>2. CASE old # {}
  <2>1. PICK t \in old : par[t] \cap old = {}
    BY <1>2 DEF Unbroken
  <2> QED
    BY <2>1
<1>3. CASE old = {}
  <2>1. D = {n + 1}
    BY <1>1, <1>3
  <2> QED
    BY <1>1, <2>1
<1> QED
  BY <1>2, <1>3

(* Nor do the two of a repair: nobody waits for them but the second for    *)
(* the first.                                                              *)
LEMMA RepairUnbroken ==
    ASSUME NEW n \in Nat, NEW par, NEW more, Unbroken(n, par),
           \A t \in 1..n : par[t] \subseteq 1..n /\ more[t] = par[t],
           more[n + 1] \subseteq 1..n, more[n + 2] = {n + 1}
    PROVE  Unbroken(n + 2, more)
<1> DEFINE m == n + 1
<1>1. Unbroken(m, more)
  BY OneMoreUnbroken
<1>2. m \in Nat /\ n + 2 = m + 1 /\ 1..m = (1..n) \cup {m} /\ m \in 1..m
  OBVIOUS
<1>3. \A t \in 1..m : more[t] \subseteq 1..m
  BY <1>2
<1>4. more[m + 1] \subseteq 1..m
  BY <1>2
<1> HIDE DEF m
<1> QED
  BY <1>1, <1>2, <1>3, <1>4, OneMoreUnbroken

-----------------------------------------------------------------------------
(* All that step_state() does to the graph: nothing, or the two steps of a *)
(* repair hung on the step that was reported.                              *)
Repaired(r, q) ==
    \E s \in Steps(r) : /\ r.auto[s] /\ Extended(r, q, s)
                        /\ r.n + 1 \in StepId /\ r.n + 2 \in StepId

LEMMA StepStateGraph ==
    ASSUME NEW r, WellFormed(r), NEW s \in Steps(r),
           NEW status \in StepStatus \cup {"keep"}, NEW out \in Output
    PROVE  LET q == StepState(r, s, status, out) IN
           WellFormed(q) /\ (SameGraph(r, q) \/ Repaired(r, q))
<1> DEFINE p == Patched(r, s, status, out)
           q == StepState(r, s, status, out)
<1>1. SameGraph(r, p)
  BY PatchedFields
<1>2. /\ WellFormed(p) /\ s \in Steps(p) /\ WellFormed(q)
      /\ \/ DoneBranch(p, q, s) \/ SkippedBranch(p, q, s) \/ ErrorBranch(p, q, s)
         \/ p.st[s] \notin {"done", "skipped", "error"} /\ q = p
  BY StepStateCases
<1> SUFFICES WellFormed(q) /\ (SameGraph(r, q) \/ Repaired(r, q))
  OBVIOUS
<1> HIDE DEF p, q
<1>3. CASE SameGraph(p, q)
  BY <1>1, <1>2, <1>3 DEF SameGraph
<1>4. CASE NeedsRepair(p, s) /\ Extended(p, q, s)
  <2>1. Extended(r, q, s) /\ r.auto[s]
    BY <1>1, <1>4 DEF Extended, SameGraph, NeedsRepair
  <2>2. r.n + 1 \in StepId /\ r.n + 2 \in StepId
    BY <1>1, <1>2, <1>4, RoomForRepair DEF SameGraph
  <2> QED
    BY <1>2, <2>1, <2>2 DEF Repaired
<1>5. CASE q = p
  BY <1>1, <1>2, <1>5
<1> QED
  BY <1>2, <1>3, <1>4, <1>5 DEF DoneBranch, SkippedBranch, ErrorBranch

LEMMA RepairedFacts ==
    ASSUME NEW r, WellFormed(r), NEW q, Repaired(r, q)
    PROVE  /\ r.n \in Nat /\ q.n = r.n + 2 /\ Steps(r) \subseteq Steps(q)
           /\ r.n + 1 \in StepId \ Steps(r) /\ r.n + 2 \in StepId \ Steps(r)
           /\ \A t \in StepId \ {r.n + 1, r.n + 2} :
                    q.par[t] = r.par[t] /\ q.auto[t] = r.auto[t]
           /\ q.par[r.n + 2] = {r.n + 1} /\ q.auto[r.n + 2]
           /\ \E s \in Steps(r) :
                /\ q.par[r.n + 1] = {s}
                /\ \A t, c \in StepId :
                        c \in q.ch[t] <=> c \in r.ch[t] \/ (t = s /\ c = r.n + 1)
<1>1. PICK s \in Steps(r) : /\ r.auto[s] /\ Extended(r, q, s)
                            /\ r.n + 1 \in StepId /\ r.n + 2 \in StepId
  BY DEF Repaired
<1>2. /\ r.n \in Nat /\ Steps(r) \subseteq StepId
      /\ r.par \in [StepId -> SUBSET StepId] /\ r.ch \in [StepId -> SUBSET StepId]
      /\ r.auto \in [StepId -> BOOLEAN]
  BY FieldTypes DEF WellFormed
<1>3. r.n + 1 \notin Steps(r) /\ r.n + 2 \notin Steps(r) /\ r.n + 1 # r.n + 2
  BY <1>2 DEF Steps
<1>4. q.n = r.n + 2 /\ Steps(r) \subseteq Steps(q)
  BY <1>1, <1>2 DEF Extended, Steps
<1>5. /\ q.par[r.n + 1] = {s} /\ q.par[r.n + 2] = {r.n + 1} /\ q.auto[r.n + 2]
      /\ \A t \in StepId \ {r.n + 1, r.n + 2} :
                    q.par[t] = r.par[t] /\ q.auto[t] = r.auto[t]
  <2> DEFINE a == r.n + 1
             b == r.n + 2
  <2>1. /\ q.par = [r.par EXCEPT ![a] = {s}, ![b] = {a}]
        /\ q.auto = [r.auto EXCEPT ![b] = TRUE]
    BY <1>1 DEF Extended
  <2>2. a \in StepId /\ b \in StepId /\ a # b
    BY <1>1, <1>3
  <2> HIDE DEF a, b
  <2>3. /\ q.par[a] = {s} /\ q.par[b] = {a} /\ q.auto[b]
        /\ \A t \in StepId \ {a, b} : q.par[t] = r.par[t] /\ q.auto[t] = r.auto[t]
    BY <1>2, <2>1, <2>2
  <2> QED
    BY <2>3 DEF a, b
<1>6. \A t, c \in StepId : c \in q.ch[t] <=> c \in r.ch[t] \/ (t = s /\ c = r.n + 1)
  BY <1>1, <1>2 DEF Extended
<1> QED
  BY <1>1, <1>2, <1>3, <1>4, <1>5, <1>6

LEMMA RepairedUnbroken ==
    ASSUME NEW r, WellFormed(r), NEW q, Repaired(r, q), NEW par, NEW more,
           Unbroken(r.n, par),
           \A t \in Steps(r) : par[t] \subseteq Steps(r) /\ more[t] = par[t],
           more[r.n + 1] = q.par[r.n + 1], more[r.n + 2] = q.par[r.n + 2]
    PROVE  Unbroken(q.n, more)
<1>1. /\ r.n \in Nat /\ q.n = r.n + 2
      /\ q.par[r.n + 2] = {r.n + 1} /\ q.par[r.n + 1] \subseteq Steps(r)
  BY RepairedFacts
<1> QED
  BY <1>1, RepairUnbroken DEF Steps

(* Whatever is reported of a step, no circle is closed.                    *)
NoCycle(r) == Unbroken(r.n, r.par)

LEMMA NoCycleKept ==
    ASSUME NEW r, WellFormed(r), NEW s \in Steps(r),
           NEW status \in StepStatus \cup {"keep"}, NEW out \in Output,
           NoCycle(r)
    PROVE  NoCycle(StepState(r, s, status, out))
<1> DEFINE q == StepState(r, s, status, out)
<1>1. SameGraph(r, q) \/ Repaired(r, q)
  BY StepStateGraph
<1> SUFFICES NoCycle(q)
  OBVIOUS
<1> HIDE DEF q
<1>2. CASE SameGraph(r, q)
  BY <1>2 DEF SameGraph, NoCycle
<1>3. CASE Repaired(r, q)
  <2>1. \A t \in Steps(r) : r.par[t] \subseteq Steps(r) /\ q.par[t] = r.par[t]
    BY <1>3, FieldTypes, RepairedFacts DEF WellFormed
  <2> QED
    BY <1>3, <2>1, RepairedUnbroken DEF NoCycle
<1> QED
  BY <1>1, <1>2, <1>3

LEMMA SameGraphTransitive ==
    ASSUME NEW r, NEW p, NEW q, SameGraph(r, p), SameGraph(p, q)
    PROVE  SameGraph(r, q)
  BY DEF SameGraph

(* resume_sync: interrupted and unblocked steps are made ready.            *)
LEMMA ResumedFacts ==
    ASSUME NEW r, WellFormed(r)
    PROVE  LET q == Resumed(r) IN
           /\ WellFormed(q) /\ SameGraph(r, q) /\ q.status = "running" /\ q.out = r.out
           /\ \A t \in StepId :
                \/ q.st[t] = r.st[t]
                \/ q.st[t] = "ready" /\ r.st[t] = "interrupted" /\ r.status = "interrupted"
                \/ q.st[t] = "ready" /\ r.st[t] = "pending" /\ ParentsAll(q, t, Settled)
           /\ r.status = "interrupted" => \A t \in StepId : q.st[t] # "interrupted"
<1> DEFINE rst == [t \in StepId |-> IF r.st[t] = "interrupted" THEN "ready" ELSE r.st[t]]
           e == Reset(r)
           ust == [t \in StepId |->
                     IF e.st[t] = "pending" /\ ParentsAll(e, t, Settled) THEN "ready" ELSE e.st[t]]
           u == [e EXCEPT !.st = ust]
           q == Resumed(r)
<1>1. /\ r \in Run /\ r.st \in [StepId -> StepStatus] /\ r.par \in [StepId -> SUBSET StepId]
      /\ Steps(r) \subseteq StepId
  BY FieldTypes DEF WellFormed
<1>2. rst \in [StepId -> StepStatus]
  BY <1>1 DEF StepStatus
<1>3. /\ e \in Run /\ SameGraph(r, e) /\ e.status = r.status /\ e.out = r.out
      /\ e.st = IF r.status = "interrupted" THEN rst ELSE r.st
  <2> HIDE DEF rst
  <2>1. e = IF r.status # "interrupted" THEN r ELSE [r EXCEPT !.st = rst]
    BY DEF Reset, rst
  <2> HIDE DEF e
  <2> QED
    BY <1>1, <1>2, <2>1 DEF Run, SameGraph
<1>4. \A t \in StepId : \/ e.st[t] = r.st[t] /\ (r.status = "interrupted" => e.st[t] # "interrupted")
                        \/ e.st[t] = "ready" /\ r.st[t] = "interrupted" /\ r.status = "interrupted"
  BY <1>3
<1> HIDE DEF e
<1>5. ust \in [StepId -> StepStatus]
  <2>1. e.st \in [StepId -> StepStatus]
    BY <1>3, FieldTypes
  <2> QED
    BY <2>1 DEF StepStatus
<1>6. \A t \in StepId : \/ ust[t] = e.st[t]
                        \/ ust[t] = "ready" /\ e.st[t] = "pending" /\ ParentsAll(e, t, Settled)
  OBVIOUS
<1>7. q = [u EXCEPT !.status = "running"]
  BY DEF Resumed, Unblocked, e
<1> HIDE DEF ust
<1>8. u \in Run /\ SameGraph(e, u) /\ u.st = ust /\ u.out = e.out
  BY <1>3, <1>5 DEF Run, SameGraph
<1> HIDE DEF u
<1>9. q \in Run /\ SameGraph(r, q) /\ q.st = ust /\ q.status = "running" /\ q.out = r.out
  BY <1>3, <1>7, <1>8 DEF Run, SameGraph, RunStatus
<1> HIDE DEF q
<1>10. \A t \in StepId : ParentsAll(e, t, Settled) => ParentsAll(q, t, Settled)
  <2> SUFFICES ASSUME NEW t \in StepId, NEW p \in r.par[t], e.st[p] \in Settled
               PROVE  ust[p] \in Settled
    BY <1>3, <1>9 DEF ParentsAll, SameGraph
  <2>1. p \in StepId
    BY <1>1
  <2> QED
    BY <1>6, <2>1 DEF Settled
<1>11. \A t \in StepId : \/ q.st[t] = r.st[t] /\ (r.status = "interrupted" => q.st[t] # "interrupted")
                         \/ q.st[t] = "ready" /\ r.st[t] = "interrupted" /\ r.status = "interrupted"
                         \/ q.st[t] = "ready" /\ r.st[t] = "pending" /\ ParentsAll(q, t, Settled)
  BY <1>4, <1>6, <1>9, <1>10
<1>12. \A t \in StepId : r.st[t] = "absent" => q.st[t] = "absent"
  BY <1>11
<1>13. WellFormed(q)
  BY <1>9, <1>12, SameGraphWellFormed
<1>14. \A t \in StepId : r.status = "interrupted" => q.st[t] # "interrupted"
  BY <1>11
<1> QED
  BY <1>9, <1>11, <1>13, <1>14 DEF q
=============================================================================
