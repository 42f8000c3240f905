--------------------------- MODULE WorkflowStore ---------------------------
(***************************************************************************)
(* The workflow store of dotz-core (workflows.rs): one workflow run as a   *)
(* record, and every operation of the store as a function from runs to     *)
(* runs.  Each operator stands for the body of one critical section of the *)
(* store's mutex, so the modules that EXTEND this one make each of them a  *)
(* single atomic step.                                                     *)
(*                                                                         *)
(* A run r has                                                             *)
(*   status   its own status                                               *)
(*   n        how many steps it has; step ids are 1..n in creation order   *)
(*            (run.steps is a Vec that only grows)                         *)
(*   st       the status of each step                                      *)
(*   par, ch  the parents and the children lists.  The code keeps both and *)
(*            updates them separately; they may disagree.                  *)
(*   auto     auto_repair of each step                                     *)
(*   out      each step's output: nothing, a text without review findings, *)
(*            a text with findings (review_has_findings)                   *)
(*   rounds   repair_rounds                                                *)
(***************************************************************************)
EXTENDS Naturals, FiniteSets

CONSTANTS
    MaxSteps,          \* bound: room for the steps of one run
    MaxRepairRounds    \* max_repair_rounds of the run

ASSUME BoundsAssumption == MaxSteps \in Nat \ {0} /\ MaxRepairRounds \in Nat

StepId == 1..MaxSteps

StepStatus == {"absent", "pending", "ready", "running", "done", "error",
               "skipped", "interrupted"}
RunStatus  == {"pending", "running", "done", "error", "aborted", "interrupted"}
Output     == {"none", "clean", "findings"}

(* What create() receives: the number of steps, their parent references    *)
(* once resolved (self references and unknown ids dropped), auto_repair.   *)
Graph == [n : StepId, par : [StepId -> SUBSET StepId], auto : [StepId -> BOOLEAN]]

Run == [status : RunStatus, n : StepId, st : [StepId -> StepStatus],
        par : [StepId -> SUBSET StepId], ch : [StepId -> SUBSET StepId],
        auto : [StepId -> BOOLEAN], out : [StepId -> Output],
        rounds : 0..MaxRepairRounds]

(* Mutant: a sweep that spares only failed steps.                          *)
SweepableEvenDone == {"pending", "ready", "running", "done"}

Final     == {"done", "error", "aborted"}          \* a run that has ended
Sweepable == {"pending", "ready", "running"}       \* steps a sweep skips
Settled   == {"done", "skipped", "error"}          \* steps that have ended

Steps(r) == 1..r.n
With(r, status) == {s \in Steps(r) : r.st[s] = status}
Ended(r) == r.status \in Final

ParentsAll(r, s, allowed) == \A p \in r.par[s] : r.st[p] \in allowed

ChildrenOf(par) == [p \in StepId |-> {c \in StepId : p \in par[c]}]

-----------------------------------------------------------------------------
(* Kahn's algorithm as the code runs it: a step joins the order when the   *)
(* number of already ordered steps that LIST it as a child reaches the     *)
(* number of its parents.  Least set closed under that rule.               *)
OrderClosed(D, n, par, ch) ==
    \A s \in 1..n :
        Cardinality({p \in D : s \in ch[p]}) >= Cardinality(par[s]) => s \in D

Ordered(n, par, ch) ==
    {s \in 1..n : \A D \in SUBSET (1..n) : OrderClosed(D, n, par, ch) => s \in D}

PassesCycleCheck(n, par, ch) == Ordered(n, par, ch) = 1..n

(* create(): no parents left after resolution means ready.                 *)
NewRun(g) ==
    [status |-> "pending", n |-> g.n,
     st     |-> [s \in StepId |-> IF s > g.n THEN "absent"
                                  ELSE IF g.par[s] = {} THEN "ready" ELSE "pending"],
     par    |-> g.par, ch |-> ChildrenOf(g.par), auto |-> g.auto,
     out    |-> [s \in StepId |-> "none"], rounds |-> 0]

CreateAccepts(g) == PassesCycleCheck(g.n, g.par, ChildrenOf(g.par))

-----------------------------------------------------------------------------
(* start(): unconditional.                                                 *)
Started(r) == [r EXCEPT !.status = "running"]

(* The sweep of abort() and of a step's error.                             *)
Swept(r) ==
    [r EXCEPT !.st = [s \in StepId |-> IF r.st[s] \in Sweepable THEN "skipped"
                                                                ELSE r.st[s]]]

Aborted(r) == [Swept(r) EXCEPT !.status = "aborted"]

-----------------------------------------------------------------------------
(* step_state(), in the order the code does it.  status "keep" and output  *)
(* "none" are the patch fields left out (None).                            *)
Patched(r, s, status, out) ==
    [r EXCEPT !.st[s]  = IF status = "keep" THEN @ ELSE status,
              !.out[s] = IF out = "none" THEN @ ELSE out]

(* Mutants: a child made ready by any parent; whatever it was; only the     *)
(* first child found.                                                      *)
NewlyReadyByOne(r, s) == {c \in r.ch[s] : r.st[c] = "pending"}
NewlyReadyAgain(r, s) == {c \in r.ch[s] : ParentsAll(r, c, {"done"})}
NewlyReadyFirst(r, s) ==
    {c \in r.ch[s] : /\ r.st[c] = "pending" /\ ParentsAll(r, c, {"done"})
                     /\ \A d \in r.ch[s] : c <= d}

NewlyReady(r, s) ==
    {c \in r.ch[s] : r.st[c] = "pending" /\ ParentsAll(r, c, {"done"})}

ReadyPropagated(r, s) ==
    [r EXCEPT !.st = [c \in StepId |-> IF c \in NewlyReady(r, s) THEN "ready"
                                                                 ELSE r.st[c]]]

(* Mutant: a repair for a run that has ended.                              *)
NeedsRepairLate(r, s) ==
    r.auto[s] /\ r.out[s] = "findings" /\ r.rounds < MaxRepairRounds

NeedsRepair(r, s) ==
    /\ r.auto[s]
    /\ ~Ended(r)
    /\ r.out[s] = "findings"
    /\ r.rounds < MaxRepairRounds

(* Mutant: the re-review does not wait for the repair.                     *)
RepairSpawnedAtOnce(r, s) ==
    LET repair   == r.n + 1
        reReview == r.n + 2
    IN  [r EXCEPT !.n = reReview, !.rounds = @ + 1,
                  !.st = [@ EXCEPT ![repair] = "ready", ![reReview] = "ready"],
                  !.par = [@ EXCEPT ![repair] = {s}, ![reReview] = {repair}],
                  !.ch[s] = @ \cup {repair},
                  !.auto[reReview] = TRUE]

(* The repair step is ready at once; the re-review waits for it.  Only the *)
(* reviewed step's children list is extended.                              *)
RepairSpawned(r, s) ==
    LET repair   == r.n + 1
        reReview == r.n + 2
    IN  [r EXCEPT !.n = reReview, !.rounds = @ + 1, !.status = "running",
                  !.st = [@ EXCEPT ![repair] = "ready", ![reReview] = "pending"],
                  !.par = [@ EXCEPT ![repair] = {s}, ![reReview] = {repair}],
                  !.ch[s] = @ \cup {repair},
                  !.auto[reReview] = TRUE]

AutoRepaired(r, s) == IF NeedsRepair(r, s) THEN RepairSpawned(r, s) ELSE r

Descendants(r, s) ==
    {t \in Steps(r) : \A D \in SUBSET Steps(r) :
        (r.ch[s] \subseteq D /\ \A u \in D : r.ch[u] \subseteq D) => t \in D}

SkipCascaded(r, s) ==
    [r EXCEPT !.st = [t \in StepId |->
        IF t \in Descendants(r, s) /\ r.st[t] \in Sweepable THEN "skipped"
                                                            ELSE r.st[t]]]

(* Mutant: finished as soon as nothing is left to start.                   *)
AllStarted(r) == \A s \in Steps(r) : r.st[s] \notin {"pending", "ready"}

AllFinished(r) == \A s \in Steps(r) : r.st[s] \in {"done", "skipped"}

(* Mutant: forgets that start() has made the run running.                  *)
FinishedIfPending(r) ==
    IF r.status = "pending" /\ AllFinished(r) THEN [r EXCEPT !.status = "done"] ELSE r

Finished(r) ==
    IF ~Ended(r) /\ AllFinished(r) THEN [r EXCEPT !.status = "done"] ELSE r

Failed(r) ==
    IF Ended(r) THEN r ELSE [Swept(r) EXCEPT !.status = "error"]

StepState(r, s, status, out) ==
    LET p == Patched(r, s, status, out)
    IN  CASE p.st[s] = "done"    -> Finished(AutoRepaired(ReadyPropagated(p, s), s))
          [] p.st[s] = "skipped" -> Finished(SkipCascaded(p, s))
          [] p.st[s] = "error"   -> Failed(p)
          [] OTHER               -> p

-----------------------------------------------------------------------------
(* mark_interrupted(): the steps in flight when the server went down.      *)
(* Mutant: only the run is marked.                                         *)
InterruptedRunOnly(r) == [r EXCEPT !.status = "interrupted"]

Interrupted(r) ==
    IF With(r, "running") = {} THEN r
    ELSE [r EXCEPT !.status = "interrupted",
                   !.st = [s \in StepId |-> IF r.st[s] = "running"
                                            THEN "interrupted" ELSE r.st[s]]]

(* resume_sync() on its clone of the run: interrupted steps get another    *)
(* chance, then pending steps whose parents have all ended become ready.   *)
Reset(r) ==
    IF r.status # "interrupted" THEN r
    ELSE [r EXCEPT !.st = [s \in StepId |-> IF r.st[s] = "interrupted"
                                            THEN "ready" ELSE r.st[s]]]

(* Mutant: every pending step gets another chance.                         *)
UnblockedAll(r) ==
    [r EXCEPT !.st = [s \in StepId |-> IF r.st[s] = "pending" THEN "ready"
                                                              ELSE r.st[s]]]

Unblocked(r) ==
    [r EXCEPT !.st = [s \in StepId |->
        IF r.st[s] = "pending" /\ ParentsAll(r, s, Settled) THEN "ready"
                                                            ELSE r.st[s]]]

Resumed(r) == [Unblocked(Reset(r)) EXCEPT !.status = "running"]

-----------------------------------------------------------------------------
(* Edits of the graph.  A run that had failed is reopened by each of them. *)
Reopened(r) == IF r.status = "error" THEN [r EXCEPT !.status = "running"] ELSE r

(* Mutant: the old parents keep the step among their children.             *)
RewiredOntoOld(r, s, parents) ==
    [p \in StepId |-> IF p \in parents THEN r.ch[p] \cup {s} ELSE r.ch[p]]

(* The children lists after step s was given new parents.                  *)
Rewired(r, s, parents) ==
    [p \in StepId |-> IF p \in parents THEN r.ch[p] \cup {s} ELSE r.ch[p] \ {s}]

(* Mutant: both routes check the children lists as they were.              *)
PatchAcceptsStale(r, s, parents, route) ==
    PassesCycleCheck(r.n, [r.par EXCEPT ![s] = parents], r.ch)

(* patch_step_handler (HTTP) checks the rewired children lists,            *)
(* patch_parents (WebSocket) the lists as they were.                       *)
PatchAccepts(r, s, parents, route) ==
    PassesCycleCheck(r.n, [r.par EXCEPT ![s] = parents],
                     IF route = "http" THEN Rewired(r, s, parents) ELSE r.ch)

(* Mutant: whatever is rewired is to run again.                            *)
PatchReadiesEnded(r, s, parents, route) == r.st[s] \in {"pending", "error", "done"}

(* The HTTP handler decides readiness by the old parents, the WebSocket    *)
(* one by the new.                                                         *)
PatchReadies(r, s, parents, route) ==
    \/ r.st[s] = "error"
    \/ /\ r.st[s] = "pending"
       /\ IF route = "http" THEN ParentsAll(r, s, Settled)
                            ELSE \A p \in parents : r.st[p] \in Settled

Reparented(r, s, parents, route) ==
    Reopened([r EXCEPT
        !.st[s]  = IF PatchReadies(r, s, parents, route) THEN "ready" ELSE @,
        !.par[s] = parents,
        !.ch     = Rewired(r, s, parents)])

(* insert_steps_handler with one new step: children lists rebuilt from the *)
(* parents, readiness recomputed for every pending step.                   *)
Appended(r, parents, auto) ==
    LET s == r.n + 1
    IN  [r EXCEPT !.n = s, !.par[s] = parents, !.auto[s] = auto,
                  !.st[s] = IF parents = {} THEN "ready" ELSE "pending"]

StepInserted(r, parents, auto) ==
    LET a == Appended(r, parents, auto)
    IN  Reopened(Unblocked([a EXCEPT !.ch = ChildrenOf(a.par)]))

(* rerun_step_and_dispatch, after step_state(ready): results cleared.      *)
Cleared(r, s) == Reopened([r EXCEPT !.out[s] = "none"])
=============================================================================
