----------------------- MODULE WorkflowClientsProofs ------------------------
(***************************************************************************)
(* Theorems about WorkflowClients: an operator edits, reruns and resumes   *)
(* a run of any size while executors drive it and repair it.               *)
(***************************************************************************)
EXTENDS WorkflowClients, WorkflowExecutorProofs

(* No step of the run is reviewed and repaired.                            *)
NoReviews == (\A g \in Inputs, s \in StepId : ~g.auto[s]) /\ Inserted \subseteq {FALSE}

SoleEditor == \A c, d \in Editors : c = d

(* resume puts back a clone of the run: the steps that a repair or another *)
(* editor added meanwhile are lost, and what that one holds may name them. *)
NoStepIsLost == "resume" \notin Requests \/ (SoleEditor /\ NoReviews)

-----------------------------------------------------------------------------
(* The parents and the children lists of one run.                          *)
Linked(r) ==
    \A p, s \in StepId :
        /\ s \in r.ch[p] => p \in r.par[s]
        /\ p \in r.par[s] => s \in r.ch[p] \/ ReReview(r, s)

Unreviewed(r) == \A s \in StepId : ~r.auto[s]

LEMMA SameGraphLinked ==
    ASSUME NEW r, NEW q, SameGraph(r, q)
    PROVE  /\ Steps(q) = Steps(r)
           /\ Linked(r) <=> Linked(q)
           /\ Unreviewed(r) <=> Unreviewed(q)
  BY DEF SameGraph, Steps, Linked, Unreviewed, ReReview

(* A repair hangs on the reviewed step; its re-review is the one edge left *)
(* out of the children lists.                                              *)
LEMMA RepairedLinked ==
    ASSUME NEW r, WellFormed(r), NEW q, Repaired(r, q), Linked(r)
    PROVE  Linked(q)
<1> DEFINE repair == r.n + 1
           reReview == r.n + 2
<1>1. /\ repair \in StepId \ Steps(r) /\ reReview \in StepId \ Steps(r)
      /\ reReview - 1 = repair
      /\ \A t \in StepId \ {repair, reReview} : q.par[t] = r.par[t] /\ q.auto[t] = r.auto[t]
      /\ q.par[reReview] = {repair} /\ q.auto[reReview]
  BY RepairedFacts
<1>2. PICK s \in Steps(r) :
            /\ q.par[repair] = {s}
            /\ \A t, c \in StepId : c \in q.ch[t] <=> c \in r.ch[t] \/ (t = s /\ c = repair)
  BY RepairedFacts
<1>3. s \in StepId /\ \A t \in StepId : r.ch[t] \subseteq Steps(r)
  BY FieldTypes DEF WellFormed
<1> HIDE DEF repair, reReview
<1> SUFFICES ASSUME NEW p \in StepId, NEW c \in StepId
             PROVE  /\ c \in q.ch[p] => p \in q.par[c]
                    /\ p \in q.par[c] => c \in q.ch[p] \/ ReReview(q, c)
  BY DEF Linked
<1>4. CASE c = repair
  BY <1>1, <1>2, <1>3, <1>4
<1>5. CASE c = reReview
  <2>1. ReReview(q, c)
    BY <1>1, <1>5 DEF ReReview
  <2>2. c # repair
    BY <1>1, <1>5, RepairedFacts DEF repair, reReview
  <2> QED
    BY <1>1, <1>2, <1>3, <1>5, <2>1, <2>2
<1>6. CASE c \notin {repair, reReview}
  BY <1>1, <1>2, <1>6 DEF Linked, ReReview
<1> QED
  BY <1>4, <1>5, <1>6

(* What the executors and step_state() make of the graph: the steps there  *)
(* were stay, and only in a run with reviews are there more.               *)
LEMMA GrowsLinked ==
    ASSUME NEW r, WellFormed(r), NEW q, SameGraph(r, q) \/ Repaired(r, q)
    PROVE  /\ r.n <= q.n /\ Steps(r) \subseteq Steps(q)
           /\ Linked(r) => Linked(q)
           /\ Unreviewed(r) => SameGraph(r, q) /\ Unreviewed(q)
<1>1. r.n \in Nat /\ Steps(r) \subseteq StepId
  BY FieldTypes DEF WellFormed
<1>2. CASE SameGraph(r, q)
  BY <1>1, <1>2, SameGraphLinked DEF SameGraph
<1>3. CASE Repaired(r, q)
  <2>1. ~Unreviewed(r)
    BY <1>1, <1>3 DEF Repaired, Unreviewed
  <2>2. q.n = r.n + 2 /\ Steps(r) \subseteq Steps(q)
    BY <1>3, RepairedFacts
  <2> QED
    BY <1>1, <1>3, <2>1, <2>2, RepairedLinked
<1> QED
  BY <1>2, <1>3

LEMMA ReopenedRun ==
    ASSUME NEW r \in Run
    PROVE  /\ Reopened(r) \in Run /\ SameGraph(r, Reopened(r))
           /\ Reopened(r).st = r.st
  BY DEF Reopened, SameGraph, Run, RunStatus

(* Patch: the step is rewired in both lists; it alone may be made ready.   *)
LEMMA ReparentedFacts ==
    ASSUME NEW r, WellFormed(r), Linked(r), NEW s \in Steps(r),
           NEW parents \in SUBSET Steps(r), NEW route
    PROVE  LET q == Reparented(r, s, parents, route) IN
           /\ WellFormed(q) /\ Linked(q) /\ q.auto = r.auto
           /\ q.n = r.n /\ q.par = [r.par EXCEPT ![s] = parents]
           /\ \A t \in Steps(r) : q.st[t] # r.st[t] =>
                r.st[t] \in {"pending", "error"} /\ q.st[t] = "ready"
<1> DEFINE st  == [r.st EXCEPT ![s] = IF PatchReadies(r, s, parents, route)
                                      THEN "ready" ELSE r.st[s]]
           par == [r.par EXCEPT ![s] = parents]
           ch  == Rewired(r, s, parents)
           p   == [r EXCEPT !.st = st, !.par = par, !.ch = ch]
           q   == Reparented(r, s, parents, route)
<1>1. /\ r \in Run /\ s \in StepId /\ s <= r.n /\ s \in Nat /\ r.n \in Nat
      /\ Steps(r) \subseteq StepId /\ parents \subseteq StepId
      /\ r.st \in [StepId -> StepStatus]
      /\ r.par \in [StepId -> SUBSET StepId] /\ r.ch \in [StepId -> SUBSET StepId]
  BY FieldTypes DEF WellFormed, Steps
<1>2. st \in [StepId -> StepStatus] /\ par \in [StepId -> SUBSET StepId]
      /\ ch \in [StepId -> SUBSET StepId]
  BY <1>1 DEF StepStatus, Rewired
<1>3. q = Reopened(p)
  BY <1>1 DEF Reparented, Run
<1>4. \A t \in StepId : ch[t] = IF t \in parents THEN r.ch[t] \cup {s} ELSE r.ch[t] \ {s}
  BY DEF Rewired
<1>5. \A t \in StepId : par[t] = (IF t = s THEN parents ELSE r.par[t])
  BY <1>1
<1>6. \A t \in StepId : st[t] # r.st[t] =>
            t = s /\ r.st[t] \in {"pending", "error"} /\ st[t] = "ready"
  BY <1>1 DEF PatchReadies
<1> HIDE DEF st, par, ch
<1>7. p \in Run /\ p.st = st /\ p.par = par /\ p.ch = ch /\ p.n = r.n /\ p.auto = r.auto
      /\ p.rounds = r.rounds
  BY <1>1, <1>2 DEF Run
<1> HIDE DEF p
<1>8. /\ q \in Run /\ q.st = st /\ q.par = par /\ q.ch = ch /\ q.n = r.n /\ q.auto = r.auto
      /\ q.rounds = r.rounds
  BY <1>3, <1>7, ReopenedRun DEF SameGraph
<1> HIDE DEF q
<1>9. \A t \in StepId : q.par[t] \subseteq Steps(q) /\ q.ch[t] \subseteq Steps(q)
  <2>1. Steps(q) = Steps(r)
    BY <1>8 DEF Steps
  <2>2. \A t \in StepId : r.par[t] \subseteq Steps(r) /\ r.ch[t] \subseteq Steps(r)
    BY DEF WellFormed
  <2>3. \A t \in StepId : ch[t] \subseteq r.ch[t] \cup {s}
    BY <1>4
  <2>4. \A t \in StepId : par[t] \subseteq Steps(r)
    BY <1>5, <2>2
  <2> QED
    BY <1>8, <2>1, <2>2, <2>3, <2>4
<1>10. \A t \in StepId : t > q.n => q.st[t] = "absent" /\ q.par[t] = {}
  BY <1>1, <1>5, <1>6, <1>8 DEF WellFormed
<1>11. WellFormed(q)
  BY <1>8, <1>9, <1>10 DEF WellFormed
<1>12. Linked(q)
  <2> SUFFICES ASSUME NEW u \in StepId, NEW c \in StepId
               PROVE  /\ c \in q.ch[u] => u \in q.par[c]
                      /\ u \in q.par[c] => c \in q.ch[u] \/ ReReview(q, c)
    BY DEF Linked
  <2>1. CASE c = s
    BY <1>4, <1>5, <1>8, <2>1
  <2>2. CASE c # s
    BY <1>4, <1>5, <1>8, <2>2 DEF Linked, ReReview
  <2> QED
    BY <2>1, <2>2
<1> QED
  BY <1>1, <1>6, <1>8, <1>11, <1>12 DEF q, par

(* Insert: one more step; pending ones may be made ready.                  *)
LEMMA InsertedFacts ==
    ASSUME NEW r, WellFormed(r), NEW auto \in BOOLEAN, HasRoom(r, auto),
           NEW parents \in SUBSET Steps(r)
    PROVE  LET q == StepInserted(r, parents, auto) IN
           /\ WellFormed(q) /\ Linked(q)
           /\ Unreviewed(r) /\ ~auto => Unreviewed(q)
           /\ q.n = r.n + 1 /\ q.par = [r.par EXCEPT ![r.n + 1] = parents]
           /\ \A t \in Steps(r) : q.st[t] # r.st[t] =>
                r.st[t] \in {"pending", "error"} /\ q.st[t] = "ready"
<1> DEFINE s   == r.n + 1
           st  == [r.st EXCEPT ![s] = IF parents = {} THEN "ready" ELSE "pending"]
           par == [r.par EXCEPT ![s] = parents]
           ch  == ChildrenOf(par)
           rev == [r.auto EXCEPT ![s] = auto]
           a   == [r EXCEPT !.n = s, !.st = st, !.par = par, !.ch = ch, !.auto = rev]
           q   == StepInserted(r, parents, auto)
<1>1. /\ r \in Run /\ r.n \in Nat /\ s \in StepId /\ s \notin Steps(r)
      /\ Steps(r) \subseteq StepId /\ parents \subseteq StepId
      /\ r.st \in [StepId -> StepStatus] /\ r.par \in [StepId -> SUBSET StepId]
      /\ r.auto \in [StepId -> BOOLEAN]
  BY FieldTypes, BoundsAssumption DEF WellFormed, Steps, StepId, HasRoom
<1>2. st \in [StepId -> StepStatus] /\ par \in [StepId -> SUBSET StepId]
      /\ ch \in [StepId -> SUBSET StepId] /\ rev \in [StepId -> BOOLEAN]
  BY <1>1 DEF StepStatus, ChildrenOf
<1>3. q = Reopened(Unblocked(a))
  <2>1. Appended(r, parents, auto) = [r EXCEPT !.n = s, !.par = par, !.st = st, !.auto = rev]
    BY <1>1 DEF Appended, Run
  <2>2. Appended(r, parents, auto).par = par
    BY <1>1, <2>1 DEF Run
  <2>3. [Appended(r, parents, auto) EXCEPT !.ch = ch] = a
    BY <1>1, <2>1 DEF Run
  <2> QED
    BY <2>2, <2>3 DEF StepInserted
<1>4. \A t \in StepId : par[t] = (IF t = s THEN parents ELSE r.par[t])
  BY <1>1
<1>5. \A t \in StepId : t # s => st[t] = r.st[t]
  BY <1>1
<1>A. \A t \in StepId : rev[t] => (t = s /\ auto) \/ r.auto[t]
  BY <1>1
<1> HIDE DEF st, par, rev
<1>6. /\ a \in Run /\ a.st = st /\ a.par = par /\ a.ch = ch /\ a.n = s /\ a.auto = rev
      /\ a.rounds = r.rounds
  BY <1>1, <1>2 DEF Run
<1> HIDE DEF a, ch
<1> DEFINE ust == [t \in StepId |->
                     IF a.st[t] = "pending" /\ ParentsAll(a, t, Settled) THEN "ready" ELSE a.st[t]]
           u == [a EXCEPT !.st = ust]
<1>7. ust \in [StepId -> StepStatus]
  BY <1>2, <1>6 DEF StepStatus
<1>8. Unblocked(a) = u
  BY DEF Unblocked
<1>9. \A t \in StepId : ust[t] # st[t] => st[t] = "pending" /\ ust[t] = "ready"
  BY <1>6
<1> HIDE DEF ust
<1>10. /\ u \in Run /\ u.st = ust /\ u.par = par /\ u.ch = ch /\ u.n = s /\ u.auto = rev
       /\ u.rounds = r.rounds
  BY <1>6, <1>7 DEF Run
<1> HIDE DEF u
<1>11. /\ q \in Run /\ q.st = ust /\ q.par = par /\ q.ch = ch /\ q.n = s /\ q.auto = rev
       /\ q.rounds = r.rounds
  BY <1>3, <1>8, <1>10, ReopenedRun DEF SameGraph
<1> HIDE DEF q
<1>12. Steps(q) = Steps(r) \cup {s}
  BY <1>1, <1>11 DEF Steps
<1>13. \A t \in StepId : q.par[t] \subseteq Steps(q)
  BY <1>4, <1>11, <1>12 DEF WellFormed
<1>14. \A t \in StepId : t > s => t > r.n /\ t # s
  BY <1>1, BoundsAssumption DEF StepId
<1>15. \A t \in StepId : t > q.n => q.st[t] = "absent" /\ q.par[t] = {}
  BY <1>4, <1>5, <1>9, <1>11, <1>14 DEF WellFormed
<1>16. ASSUME NEW t \in StepId PROVE q.ch[t] \subseteq Steps(q)
  <2>1. \A c \in StepId : c > s => par[c] = {}
    BY <1>11, <1>15
  <2>2. q.ch[t] = {c \in StepId : t \in par[c]}
    BY <1>11 DEF ch, ChildrenOf
  <2>3. \A c \in StepId : ~(c > s) => c \in 1..s
    BY <1>1, BoundsAssumption DEF StepId
  <2> QED
    BY <1>11, <2>1, <2>2, <2>3 DEF Steps
<1>17. Linked(q)
  BY <1>11 DEF Linked, ch, ChildrenOf
<1>18. WellFormed(q)
  <2>1. ASSUME NEW t \in StepId, q.auto[t]
        PROVE  q.n + 2 * (MaxRepairRounds - q.rounds) <= MaxSteps
    <3>1. auto \/ \E x \in StepId : r.auto[x]
      BY <1>A, <1>11, <2>1
    <3>2. r.n + 2 * (MaxRepairRounds - r.rounds) < MaxSteps
      BY <3>1 DEF HasRoom
    <3>3. r.rounds \in 0..MaxRepairRounds
      BY <1>1, FieldTypes
    <3> QED
      BY <1>1, <1>11, <3>2, <3>3, BoundsAssumption
  <2> QED
    BY <1>11, <1>13, <1>15, <1>16, <2>1 DEF WellFormed
<1>19. \A t \in Steps(r) : q.st[t] # r.st[t] =>
            r.st[t] \in {"pending", "error"} /\ q.st[t] = "ready"
  BY <1>1, <1>5, <1>9, <1>11
<1>20. Unreviewed(r) /\ ~auto => Unreviewed(q)
  BY <1>A, <1>11 DEF Unreviewed
<1> QED
  BY <1>11, <1>17, <1>18, <1>19, <1>20 DEF q, par

LEMMA ClearedFacts ==
    ASSUME NEW r, WellFormed(r), NEW s \in Steps(r)
    PROVE  WellFormed(Cleared(r, s)) /\ SameGraph(r, Cleared(r, s))
<1> DEFINE o == [r.out EXCEPT ![s] = "none"]
           p == [r EXCEPT !.out = o]
<1>1. r \in Run /\ r.out \in [StepId -> Output]
  BY FieldTypes DEF WellFormed
<1>2. o \in [StepId -> Output]
  BY <1>1 DEF Output
<1>3. Cleared(r, s) = Reopened(p)
  BY <1>1 DEF Cleared, Run
<1> HIDE DEF o
<1>4. p \in Run /\ SameGraph(r, p) /\ p.st = r.st
  BY <1>1, <1>2 DEF Run, SameGraph
<1> HIDE DEF p
<1>5. /\ Cleared(r, s) \in Run /\ SameGraph(r, Cleared(r, s)) /\ Cleared(r, s).st = r.st
  BY <1>3, <1>4, ReopenedRun DEF SameGraph
<1> QED
  BY <1>5, SameGraphWellFormed

-----------------------------------------------------------------------------
(* What the editors hold fits the run: the steps they name exist, and a    *)
(* clone about to be put back differs from the run in the states only.     *)
Request == [op : {"none", "patch", "insert", "rerun", "clear", "resume"},
            step : StepId, parents : SUBSET StepId, auto : Inserted \cup {FALSE},
            route : {"http", "ws"}]

Edited ==
    /\ Structure
    /\ Linked(run) /\ (NoReviews => Unreviewed(run))
    /\ req \in [Editors -> Request]
    /\ clone \in [Editors -> SUBSET Run]
    /\ \A c \in Editors : /\ req[c].step \in Steps(run) /\ req[c].parents \subseteq Steps(run)
                          /\ req[c].op = "resume" => "resume" \in Requests
    /\ \A c \in Editors : \A r \in clone[c] :
            req[c].op = "resume" /\ WellFormed(r) /\ SameGraph(run, r)

LEMMA InitEdited == ClientsInit => Edited
<1> SUFFICES ASSUME ClientsInit PROVE Edited
  OBVIOUS
<1>1. Structure
  BY InitStructure DEF ClientsInit
<1>2. PICK g \in Inputs : run = NewRun(g)
  BY DEF ClientsInit, Init
<1>3. Linked(run) /\ (NoReviews => Unreviewed(run))
  BY <1>2 DEF NoReviews, Unreviewed, Linked, NewRun, ChildrenOf
<1>4. 1 \in Steps(run) /\ 1 \in StepId
  BY <1>1, FieldTypes, BoundsAssumption DEF Structure, WellFormed, Steps, StepId
<1>5. NoRequest \in Request /\ NoRequest.step = 1 /\ NoRequest.parents = {} /\ NoRequest.op = "none"
  BY <1>4 DEF NoRequest, Request
<1> QED
  BY <1>1, <1>3, <1>4, <1>5 DEF ClientsInit, Edited

(* All an executor does to the graph is to repair.                         *)
LEMMA ExecutorGrowsGraph ==
    ASSUME Structure, [Next]_vars
    PROVE  Structure' /\ WellFormed(run') /\ (SameGraph(run, run') \/ Repaired(run, run'))
<1>1. WellFormed(run)
  BY DEF Structure
<1>2. ASSUME NEW s \in Steps(run), NEW out \in Output,
             NEW status \in {"keep", "running", "done", "error", "skipped"},
             Reported(s, status, out)
      PROVE  SameGraph(run, run') \/ Repaired(run, run')
  <2>1. run' = StepState(run, s, status, out) /\ status \in StepStatus \cup {"keep"}
    BY <1>2 DEF Reported, StepStatus
  <2> QED
    BY <1>1, <2>1, StepStateGraph
<1>3. ASSUME run' = Aborted(run) PROVE SameGraph(run, run')
  BY <1>1, <1>3, AbortedFacts
<1>4. ASSUME run' = Started(run) PROVE SameGraph(run, run')
  BY <1>1, <1>4, StartedFacts
<1>5. ASSUME UNCHANGED run PROVE SameGraph(run, run')
  BY <1>5 DEF SameGraph
<1>6. SameGraph(run, run') \/ Repaired(run, run')
  BY <1>2, <1>3, <1>4, <1>5, RunChange
<1>7. Structure' /\ WellFormed(run')
  BY StructureStep DEF Structure
<1> QED
  BY <1>6, <1>7

(* Nothing an editor does touches an executor.                             *)
LEMMA StructureEdited ==
    ASSUME Structure, ExecutorVarsUnchanged, WellFormed(run'), Steps(run) \subseteq Steps(run')
    PROVE  Structure'
  BY DEF Structure, TypeOK, ExecutorVarsUnchanged, WellFormed

LEMMA NobodyElseResumes ==
    ASSUME Edited, NoStepIsLost, NEW c \in Editors, req[c].op # "resume"
    PROVE  \A d \in Editors : clone[d] = {}
  BY DEF Edited, NoStepIsLost, SoleEditor

LEMMA EditedFields ==
    ASSUME Edited
    PROVE  /\ Structure /\ WellFormed(run) /\ Linked(run)
           /\ Steps(run) \subseteq StepId
           /\ \A c \in Editors : /\ req[c].step \in Steps(run)
                                 /\ req[c].parents \in SUBSET Steps(run)
                                 /\ req[c] \in Request
           /\ NoRequest \in Request /\ NoRequest.op = "none"
           /\ NoRequest.step \in Steps(run) /\ NoRequest.parents = {}
<1>1. Structure /\ WellFormed(run) /\ run \in Run
  BY DEF Edited, Structure, WellFormed
<1>2. Steps(run) \subseteq StepId /\ 1 \in Steps(run) /\ 1 \in StepId
  BY <1>1, FieldTypes, BoundsAssumption DEF Steps, StepId
<1>3. NoRequest \in Request /\ NoRequest.step = 1 /\ NoRequest.parents = {} /\ NoRequest.op = "none"
  BY <1>2 DEF NoRequest, Request
<1> QED
  BY <1>1, <1>2, <1>3 DEF Edited

(* What is held of the steps there were is not touched.                    *)
LEMMA HeldSteps ==
    ASSUME Edited, Steps(run) \subseteq Steps(run'), NEW c,
           req' = req \/ req' = [req EXCEPT ![c] = NoRequest]
    PROVE  /\ req' \in [Editors -> Request]
           /\ \A d \in Editors : /\ req'[d].step \in Steps(run')
                                 /\ req'[d].parents \subseteq Steps(run')
                                 /\ req'[d].op = "resume" => "resume" \in Requests
                                 /\ d # c => req'[d] = req[d]
<1>1. /\ req \in [Editors -> Request]
      /\ \A d \in Editors : /\ req[d].step \in Steps(run) /\ req[d].parents \subseteq Steps(run)
                            /\ req[d].op = "resume" => "resume" \in Requests
  BY DEF Edited
<1>2. /\ NoRequest \in Request /\ NoRequest.op = "none"
      /\ NoRequest.step \in Steps(run) /\ NoRequest.parents = {}
  BY EditedFields
<1> QED
  BY <1>1, <1>2

(* The graph grows, or stays, while requests are held or one ends: clones  *)
(* are held of runs without reviews only, and these do not grow.           *)
LEMMA GraphGrownEdited ==
    ASSUME Edited, NoStepIsLost, Structure', SameGraph(run, run') \/ Repaired(run, run'),
           NEW c,
           \/ UNCHANGED <<req, clone>>
           \/ /\ req' = [req EXCEPT ![c] = NoRequest]
              /\ clone' = [clone EXCEPT ![c] = {}]
    PROVE  Edited'
<1>1. /\ Steps(run) \subseteq Steps(run') /\ Linked(run')
      /\ Unreviewed(run) => SameGraph(run, run') /\ Unreviewed(run')
  BY EditedFields, GrowsLinked
<1>2. NoReviews => Unreviewed(run')
  BY <1>1 DEF Edited
<1>3. ASSUME NEW d \in Editors, NEW r \in clone[d]
      PROVE  req[d].op = "resume" /\ WellFormed(r) /\ SameGraph(run', r)
  <2>1. req[d].op = "resume" /\ WellFormed(r) /\ SameGraph(run, r) /\ "resume" \in Requests
    BY <1>3 DEF Edited
  <2>2. Unreviewed(run)
    BY <2>1 DEF Edited, NoStepIsLost
  <2> QED
    BY <1>1, <2>1, <2>2 DEF SameGraph
<1>4. /\ req' \in [Editors -> Request]
      /\ \A d \in Editors : /\ req'[d].step \in Steps(run')
                            /\ req'[d].parents \subseteq Steps(run')
                            /\ req'[d].op = "resume" => "resume" \in Requests
                            /\ d # c => req'[d] = req[d]
  BY <1>1, HeldSteps
<1>5. clone \in [Editors -> SUBSET Run]
  BY DEF Edited
<1>6. CASE UNCHANGED <<req, clone>>
  BY <1>1, <1>2, <1>3, <1>4, <1>5, <1>6 DEF Edited
<1>7. CASE req' = [req EXCEPT ![c] = NoRequest] /\ clone' = [clone EXCEPT ![c] = {}]
  <2>1. /\ clone' \in [Editors -> SUBSET Run]
        /\ \A d \in Editors : clone'[d] = IF d = c THEN {} ELSE clone[d]
    BY <1>5, <1>7
  <2>2. \A d \in Editors : \A r \in clone'[d] :
            req'[d].op = "resume" /\ WellFormed(r) /\ SameGraph(run', r)
    BY <1>3, <1>4, <2>1
  <2> QED
    BY <1>1, <1>2, <1>4, <2>1, <2>2 DEF Edited
<1> QED
  BY <1>6, <1>7

(* A commit: the run gets another graph while no clone is held.            *)
LEMMA CommitEdited ==
    ASSUME Edited, NEW c \in Editors, \A d \in Editors : clone[d] = {},
           ExecutorVarsUnchanged, clone' = clone, req' = [req EXCEPT ![c] = NoRequest],
           WellFormed(run'), Linked(run'), NoReviews => Unreviewed(run'), run.n <= run'.n
    PROVE  Edited'
<1>1. Steps(run) \subseteq Steps(run')
  <2>1. run.n \in Nat /\ run'.n \in Nat
    BY EditedFields, FieldTypes DEF WellFormed
  <2> QED
    BY <2>1 DEF Steps
<1>2. Structure'
  BY <1>1, EditedFields, StructureEdited
<1>3. /\ req' \in [Editors -> Request]
      /\ \A d \in Editors : /\ req'[d].step \in Steps(run') /\ req'[d].parents \subseteq Steps(run')
                            /\ req'[d].op = "resume" => "resume" \in Requests
  BY <1>1, HeldSteps
<1> QED
  BY <1>2, <1>3 DEF Edited

LEMMA AskEdited ==
    ASSUME Edited, NEW c \in Editors, NEW op \in {"patch", "insert", "rerun", "resume"},
           NEW s \in Steps(run), NEW parents \in SUBSET Steps(run), NEW auto \in Inserted \cup {FALSE},
           NEW route \in {"http", "ws"}, Ask(c, op, s, parents, auto, route),
           \/ clone' = clone
           \/ op = "resume" /\ clone' = [clone EXCEPT ![c] = {run}]
    PROVE  Edited'
<1> DEFINE r == [op |-> op, step |-> s, parents |-> parents, auto |-> auto, route |-> route]
<1>1. /\ op \in Requests /\ req[c] = NoRequest /\ req' = [req EXCEPT ![c] = r]
      /\ run' = run /\ ExecutorVarsUnchanged
  BY DEF Ask
<1>2. r \in Request /\ r.step = s /\ r.parents = parents /\ r.op = op
  BY EditedFields DEF Request
<1> HIDE DEF r
<1>3. clone[c] = {}
  BY <1>1, EditedFields DEF Edited
<1>4. Structure'
  BY <1>1, EditedFields, StructureEdited
<1>5. SameGraph(run, run) /\ run \in Run /\ WellFormed(run)
  BY EditedFields DEF SameGraph, WellFormed
<1>6. /\ req' \in [Editors -> Request]
      /\ \A d \in Editors : /\ req'[d].step \in Steps(run') /\ req'[d].parents \subseteq Steps(run')
                            /\ req'[d].op = "resume" => "resume" \in Requests
  BY <1>1, <1>2 DEF Edited
<1>7. clone' \in [Editors -> SUBSET Run]
  BY <1>5 DEF Edited
<1>8. \A d \in Editors : \A q \in clone'[d] :
            req'[d].op = "resume" /\ WellFormed(q) /\ SameGraph(run', q)
  <2> SUFFICES ASSUME NEW d \in Editors, NEW q \in clone'[d]
               PROVE  req'[d].op = "resume" /\ WellFormed(q) /\ SameGraph(run', q)
    OBVIOUS
  <2>1. CASE d = c
    BY <1>1, <1>2, <1>3, <1>5, <2>1 DEF Edited
  <2>2. CASE d # c
    BY <1>1, <2>2 DEF Edited
  <2> QED
    BY <2>1, <2>2
<1> QED
  BY <1>1, <1>4, <1>6, <1>7, <1>8 DEF Edited

(* The two commits of a graph edit.                                        *)
LEMMA PatchCommitted ==
    ASSUME Edited, NEW c \in Editors, CommitPatch(c)
    PROVE  /\ req[c].op = "patch" /\ clone' = clone /\ ExecutorVarsUnchanged
           /\ req' = [req EXCEPT ![c] = NoRequest]
           /\ WellFormed(run') /\ Linked(run') /\ (NoReviews => Unreviewed(run'))
           /\ run'.n = run.n /\ run'.par = [run.par EXCEPT ![req[c].step] = req[c].parents]
           /\ \A t \in Steps(run) : run'.st[t] # run.st[t] =>
                run.st[t] \in {"pending", "error"} /\ run'.st[t] = "ready"
<1> DEFINE step == req[c].step
           parents == req[c].parents
           route == req[c].route
<1>1. /\ WellFormed(run) /\ Linked(run)
      /\ step \in Steps(run) /\ parents \in SUBSET Steps(run)
  BY EditedFields
<1>2. /\ req[c].op = "patch" /\ clone' = clone /\ ExecutorVarsUnchanged
      /\ req' = [req EXCEPT ![c] = NoRequest]
      /\ run' = Reparented(run, step, parents, route)
  BY DEF CommitPatch, Answer
<1> HIDE DEF step, parents, route
<1>3. LET q == Reparented(run, step, parents, route) IN
      /\ WellFormed(q) /\ Linked(q) /\ q.auto = run.auto
      /\ q.n = run.n /\ q.par = [run.par EXCEPT ![step] = parents]
      /\ \A t \in Steps(run) : q.st[t] # run.st[t] =>
            run.st[t] \in {"pending", "error"} /\ q.st[t] = "ready"
  BY <1>1, ReparentedFacts, Zenon
<1>4. NoReviews => Unreviewed(run')
  BY <1>2, <1>3 DEF Edited, Unreviewed
<1> QED
  BY <1>2, <1>3, <1>4 DEF step, parents

LEMMA InsertCommitted ==
    ASSUME Edited, NEW c \in Editors, CommitInsert(c)
    PROVE  /\ req[c].op = "insert" /\ clone' = clone /\ ExecutorVarsUnchanged
           /\ req' = [req EXCEPT ![c] = NoRequest] /\ run.n < MaxSteps
           /\ WellFormed(run') /\ Linked(run') /\ (NoReviews => Unreviewed(run'))
           /\ run'.n = run.n + 1
           /\ run'.par = [run.par EXCEPT ![run.n + 1] = req[c].parents]
           /\ \A t \in Steps(run) : run'.st[t] # run.st[t] =>
                run.st[t] \in {"pending", "error"} /\ run'.st[t] = "ready"
<1> DEFINE parents == req[c].parents
           auto == req[c].auto
<1>1. /\ WellFormed(run) /\ parents \in SUBSET Steps(run)
      /\ auto \in BOOLEAN /\ (NoReviews => ~auto)
  <2>1. auto \in Inserted \cup {FALSE}
    BY EditedFields DEF Request
  <2> QED
    BY <2>1, EditedFields, ClientsAssumption DEF NoReviews
<1>2. /\ req[c].op = "insert" /\ clone' = clone /\ ExecutorVarsUnchanged
      /\ req' = [req EXCEPT ![c] = NoRequest] /\ HasRoom(run, auto)
      /\ run' = StepInserted(run, parents, auto)
  BY DEF CommitInsert, Answer
<1> HIDE DEF parents, auto
<1>3. LET q == StepInserted(run, parents, auto) IN
      /\ WellFormed(q) /\ Linked(q) /\ (Unreviewed(run) /\ ~auto => Unreviewed(q))
      /\ q.n = run.n + 1 /\ q.par = [run.par EXCEPT ![run.n + 1] = parents]
      /\ \A t \in Steps(run) : q.st[t] # run.st[t] =>
            run.st[t] \in {"pending", "error"} /\ q.st[t] = "ready"
  BY <1>1, <1>2, InsertedFacts
<1>4. NoReviews => Unreviewed(run')
  BY <1>1, <1>2, <1>3 DEF Edited
<1>5. run.n < MaxSteps
  BY <1>2 DEF HasRoom
<1> QED
  BY <1>2, <1>3, <1>4, <1>5 DEF parents

LEMMA EditorStepEdited ==
    ASSUME Edited, NoStepIsLost, NEW c \in Editors, EditorStep(c)
    PROVE  Edited'
<1>0. /\ Structure /\ WellFormed(run) /\ Linked(run)
      /\ Steps(run) \subseteq StepId
      /\ req[c].step \in Steps(run) /\ req[c].parents \in SUBSET Steps(run)
      /\ req \in [Editors -> Request] /\ clone \in [Editors -> SUBSET Run]
  BY EditedFields DEF Edited
<1>1. ASSUME NEW s \in Steps(run), NEW out \in {"none", "findings"},
             NEW status \in {"pending", "ready", "running", "done", "error", "skipped"},
             PostStep(c, s, status, out)
      PROVE  Edited'
  <2>1. /\ run' = StepState(run, s, status, out)
        /\ UNCHANGED <<req, clone>> /\ ExecutorVarsUnchanged
    BY <1>1 DEF PostStep
  <2>2. WellFormed(run') /\ (SameGraph(run, run') \/ Repaired(run, run'))
    BY <1>0, <2>1, StepStateGraph DEF StepStatus, Output
  <2>3. Structure'
    BY <1>0, <2>1, <2>2, StructureEdited, GrowsLinked
  <2> QED
    BY <2>1, <2>2, <2>3, GraphGrownEdited
<1>2. ASSUME NEW s \in Steps(run), NEW parents \in SUBSET Steps(run), NEW route \in {"http", "ws"},
             AskPatch(c, s, parents, route)
      PROVE  Edited'
  BY <1>2, AskEdited DEF AskPatch
<1>3. ASSUME NEW parents \in SUBSET Steps(run), NEW auto \in Inserted, AskInsert(c, parents, auto)
      PROVE  Edited'
  <2>1. 1 \in Steps(run)
    BY EditedFields DEF NoRequest
  <2> QED
    BY <1>3, <2>1, AskEdited DEF AskInsert
<1>4. ASSUME NEW s \in Steps(run), NEW route \in {"http", "ws"}, AskRerun(c, s, route)
      PROVE  Edited'
  <2> DEFINE none == {}
  <2>1. none \in SUBSET Steps(run) /\ Ask(c, "rerun", s, none, FALSE, route) /\ clone' = clone
    BY <1>4 DEF AskRerun
  <2> HIDE DEF none
  <2> QED
    BY <2>1, AskEdited
<1>5. CASE AskResume(c)
  <2> DEFINE none == {}
  <2>1. /\ none \in SUBSET Steps(run) /\ Ask(c, "resume", 1, none, FALSE, "http") /\ 1 \in Steps(run)
        /\ clone' = [clone EXCEPT ![c] = {run}]
    BY <1>5, EditedFields DEF AskResume, NoRequest
  <2> HIDE DEF none
  <2> QED
    BY <2>1, AskEdited
<1>6. CASE CommitPatch(c)
  <2>1. /\ req[c].op = "patch" /\ clone' = clone
        /\ req' = [req EXCEPT ![c] = NoRequest] /\ ExecutorVarsUnchanged
    BY <1>6, PatchCommitted
  <2>2. /\ WellFormed(run') /\ Linked(run') /\ (NoReviews => Unreviewed(run'))
        /\ run'.n = run.n
    BY <1>6, PatchCommitted
  <2>3. \A d \in Editors : clone[d] = {}
    BY <2>1, NobodyElseResumes
  <2>4. run.n <= run'.n
    BY <1>0, <2>2, FieldTypes DEF WellFormed
  <2> QED
    BY <2>1, <2>2, <2>3, <2>4, CommitEdited
<1>7. CASE CommitInsert(c)
  <2>1. /\ req[c].op = "insert" /\ clone' = clone
        /\ req' = [req EXCEPT ![c] = NoRequest] /\ ExecutorVarsUnchanged
    BY <1>7, InsertCommitted
  <2>2. /\ WellFormed(run') /\ Linked(run') /\ (NoReviews => Unreviewed(run'))
        /\ run'.n = run.n + 1
    BY <1>7, InsertCommitted
  <2>3. \A d \in Editors : clone[d] = {}
    BY <2>1, NobodyElseResumes
  <2>4. run.n <= run'.n
    BY <1>0, <2>2, FieldTypes DEF WellFormed
  <2> QED
    BY <2>1, <2>2, <2>3, <2>4, CommitEdited
<1>8. CASE ReadyAgain(c)
  <2> DEFINE m == [req[c] EXCEPT !.op = "clear"]
  <2>1. /\ req[c].op = "rerun" /\ clone' = clone /\ req' = [req EXCEPT ![c] = m]
        /\ run' = StepState(run, req[c].step, "ready", "none") /\ ExecutorVarsUnchanged
    BY <1>8 DEF ReadyAgain
  <2>2. m \in Request /\ m.step = req[c].step /\ m.parents = req[c].parents /\ m.op = "clear"
    <3>1. req[c] \in Request
      BY <1>0
    <3> QED
      BY <3>1 DEF Request
  <2> HIDE DEF m
  <2>3. WellFormed(run') /\ (SameGraph(run, run') \/ Repaired(run, run'))
    BY <1>0, <2>1, StepStateGraph DEF StepStatus, Output
  <2>4. /\ Steps(run) \subseteq Steps(run') /\ Linked(run')
        /\ NoReviews => Unreviewed(run')
    BY <1>0, <2>3, GrowsLinked DEF Edited
  <2>5. Structure'
    BY <1>0, <2>1, <2>3, <2>4, StructureEdited
  <2>6. \A d \in Editors : clone'[d] = {}
    BY <2>1, NobodyElseResumes
  <2>7. /\ req' \in [Editors -> Request]
        /\ \A d \in Editors : /\ req'[d].step \in Steps(run') /\ req'[d].parents \subseteq Steps(run')
                              /\ req'[d].op = "resume" => "resume" \in Requests
    BY <1>0, <2>1, <2>2, <2>4 DEF Edited
  <2> QED
    BY <1>0, <2>1, <2>4, <2>5, <2>6, <2>7 DEF Edited
<1>9. CASE ClearResult(c)
  <2>1. /\ req[c].op = "clear" /\ clone' = clone /\ ExecutorVarsUnchanged
        /\ run' = IF req[c].route = "ws" THEN Cleared(run, req[c].step) ELSE run
        /\ req' = [req EXCEPT ![c] = NoRequest]
    BY <1>9 DEF ClearResult, Answer
  <2>2. WellFormed(run') /\ SameGraph(run, run')
    BY <1>0, <2>1, ClearedFacts DEF SameGraph
  <2>3. Linked(run') /\ (NoReviews => Unreviewed(run')) /\ run'.n = run.n
    BY <1>0, <2>2, SameGraphLinked DEF SameGraph, Edited
  <2>4. run.n <= run'.n
    BY <1>0, <2>3, FieldTypes DEF WellFormed
  <2>5. \A d \in Editors : clone[d] = {}
    BY <2>1, NobodyElseResumes
  <2> QED
    BY <2>1, <2>2, <2>3, <2>4, <2>5, CommitEdited
<1>10. CASE PutBack(c)
  <2>1. PICK r \in clone[c] : Answer(c, Resumed(r))
    BY <1>10 DEF PutBack
  <2>2. /\ run' = Resumed(r) /\ req' = [req EXCEPT ![c] = NoRequest] /\ ExecutorVarsUnchanged
        /\ clone' = [clone EXCEPT ![c] = {}]
    BY <1>10, <2>1 DEF PutBack, Answer
  <2>3. WellFormed(r) /\ SameGraph(run, r)
    BY <2>1 DEF Edited
  <2>4. WellFormed(run') /\ SameGraph(run, run')
    BY <2>2, <2>3, ResumedFacts, SameGraphTransitive
  <2>5. Structure'
    BY <1>0, <2>2, <2>4, StructureEdited, SameGraphLinked
  <2> QED
    BY <2>2, <2>4, <2>5, GraphGrownEdited
<1> QED
  BY <1>1, <1>2, <1>3, <1>4, <1>5, <1>6, <1>7, <1>8, <1>9, <1>10 DEF EditorStep

LEMMA EditedStep ==
    ASSUME NoStepIsLost
    PROVE  Edited /\ [ClientsNext]_cvars => Edited'
<1> SUFFICES ASSUME Edited, [ClientsNext]_cvars PROVE Edited'
  OBVIOUS
<1>1. CASE [Next]_vars /\ UNCHANGED <<req, clone>>
  <2>1. Structure' /\ (SameGraph(run, run') \/ Repaired(run, run'))
    BY <1>1, ExecutorGrowsGraph DEF Edited
  <2> QED
    BY <1>1, <2>1, GraphGrownEdited
<1>2. CASE \E c \in Editors : EditorStep(c)
  BY <1>2, EditorStepEdited
<1>3. CASE UNCHANGED cvars
  BY <1>1, <1>3 DEF cvars, vars
<1> QED
  BY <1>1, <1>2, <1>3 DEF ClientsNext

LEMMA EditedInvariant ==
    ASSUME NoStepIsLost
    PROVE  ClientsSpec => []Edited
  BY InitEdited, EditedStep, PTL DEF ClientsSpec

(* The lists of parents and of children of the steps of a run of any size, *)
(* which patch, insert, rerun, resume and the repairs edit apart from one  *)
(* another while any number of executors drive it, describe the same       *)
(* edges, but for the re-reviews: for any number of editors if none        *)
(* resumes the run, for one who does if the run has no reviews.            *)
THEOREM TheListsAgree ==
    ASSUME NoStepIsLost
    PROVE  ClientsSpec => []ListsAgree
<1>1. Edited => ListsAgree
  BY EditedFields DEF Linked, ListsAgree
<1> QED
  BY <1>1, EditedInvariant, PTL

-----------------------------------------------------------------------------
(* Edits against work under way.                                           *)
LEMMA EditKeepsWork ==
    ASSUME Edited, [ClientsNext]_cvars, NEW c \in Editors,
           req[c].op \in {"patch", "insert"}, req'[c] = NoRequest,
           NEW s \in Steps(run), run'.st[s] # run.st[s]
    PROVE  run.st[s] \in {"pending", "error"} /\ run'.st[s] = "ready"
<1>0. /\ WellFormed(run)
      /\ req[c].step \in Steps(run) /\ req[c].parents \in SUBSET Steps(run)
      /\ req \in [Editors -> Request]
  BY EditedFields DEF Edited
<1>1. req'[c] # req[c]
  BY EditedFields
<1>2. PICK d \in Editors : EditorStep(d)
  BY <1>1 DEF ClientsNext, cvars
<1>3. CASE CommitPatch(d)
  BY <1>3, PatchCommitted
<1>4. CASE CommitInsert(d)
  BY <1>4, InsertCommitted
<1>5. ASSUME \/ \E t \in Steps(run), parents \in SUBSET Steps(run), route \in {"http", "ws"} :
                    AskPatch(d, t, parents, route)
             \/ \E parents \in SUBSET Steps(run), auto \in Inserted : AskInsert(d, parents, auto)
             \/ \E t \in Steps(run), route \in {"http", "ws"} : AskRerun(d, t, route)
             \/ AskResume(d)
      PROVE  FALSE
  <2>1. run' = run
    BY <1>5 DEF AskPatch, AskInsert, AskRerun, AskResume, Ask
  <2> QED
    BY <2>1
<1>6. ASSUME \E t \in Steps(run), out \in {"none", "findings"},
                status \in {"pending", "ready", "running", "done", "error", "skipped"} :
                    PostStep(d, t, status, out)
      PROVE  FALSE
  BY <1>1, <1>6 DEF PostStep
<1>7. ASSUME ReadyAgain(d) \/ ClearResult(d) \/ PutBack(d)
      PROVE  FALSE
  <2>1. req[d].op \in {"rerun", "clear", "resume"}
    BY <1>7 DEF ReadyAgain, ClearResult, PutBack
  <2>2. d # c
    BY <2>1
  <2>3. \E x : req' = [req EXCEPT ![d] = x]
    BY <1>7 DEF ReadyAgain, ClearResult, PutBack, Answer
  <2> QED
    BY <1>0, <1>1, <2>2, <2>3
<1> QED
  BY <1>2, <1>3, <1>4, <1>5, <1>6, <1>7 DEF EditorStep

(* A patch or an insert that was checked against an older state of the run *)
(* and is committed now takes nothing back from a step that is running,    *)
(* done or skipped: of the steps there were, it only readies some that     *)
(* were pending or had failed.                                             *)
THEOREM EditsDisturbNoWork ==
    ASSUME NoStepIsLost
    PROVE  ClientsSpec => EditsKeepWork
<1> DEFINE A == \A c \in Editors :
                  req[c].op \in {"patch", "insert"} /\ req'[c] = NoRequest =>
                    \A s \in Steps(run) : run'.st[s] # run.st[s] =>
                        run.st[s] \in {"pending", "error"} /\ run'.st[s] = "ready"
<1>1. Edited /\ [ClientsNext]_cvars => A
  BY EditKeepsWork
<1>2. Edited /\ [ClientsNext]_cvars => [A]_cvars
  BY <1>1
<1> QED
  BY <1>2, EditedInvariant, PTL DEF ClientsSpec, EditsKeepWork

-----------------------------------------------------------------------------
(* Cycles.  A patch is checked against a snapshot and committed later;     *)
(* with one editor nothing rewires the run in between.                     *)
PatchedParents(c) == [run.par EXCEPT ![req[c].step] = req[c].parents]

Unknotted ==
    /\ Unbroken(run.n, run.par)
    /\ \A c \in Editors : req[c].op = "patch" => Unbroken(run.n, PatchedParents(c))

LEMMA InitUnknotted == ClientsInit => Unknotted
<1> SUFFICES ASSUME ClientsInit PROVE Unknotted
  OBVIOUS
<1>1. PICK g \in Inputs : CreateAccepts(g) /\ run = NewRun(g)
  BY DEF ClientsInit, Init
<1>2. GoodGraph(g)
  BY InputsAssumption DEF GoodGraph
<1>3. Unbroken(run.n, run.par)
  BY <1>1, <1>2, CreateAdmitsNoCycle DEF Unbroken, Steps
<1> QED
  BY <1>3 DEF ClientsInit, Unknotted, NoRequest

LEMMA AcceptedPatchBreaksNothing ==
    ASSUME NEW r, WellFormed(r), Linked(r), NEW s \in Steps(r), NEW parents \in SUBSET Steps(r),
           PatchAccepts(r, s, parents, "http")
    PROVE  Unbroken(r.n, [r.par EXCEPT ![s] = parents])
<1> DEFINE par == [r.par EXCEPT ![s] = parents]
           ch  == Rewired(r, s, parents)
<1>1. /\ r \in Run /\ s \in StepId /\ r.n \in StepId /\ Steps(r) \subseteq StepId
      /\ r.par \in [StepId -> SUBSET StepId]
      /\ \A t \in StepId : r.par[t] \subseteq Steps(r)
  BY FieldTypes DEF WellFormed
<1>2. par \in [StepId -> SUBSET StepId] /\ \A t \in Steps(r) : par[t] \subseteq Steps(r)
  BY <1>1
<1>3. \A p, c \in StepId : c \in ch[p] => p \in par[c]
  <2>1. \A p \in StepId : ch[p] = IF p \in parents THEN r.ch[p] \cup {s} ELSE r.ch[p] \ {s}
    BY DEF Rewired
  <2>2. \A c \in StepId : par[c] = IF c = s THEN parents ELSE r.par[c]
    BY <1>1
  <2>3. \A p, c \in StepId : c \in r.ch[p] => p \in r.par[c]
    BY DEF Linked
  <2> HIDE DEF ch, par
  <2> SUFFICES ASSUME NEW p \in StepId, NEW c \in StepId, c \in ch[p]
               PROVE  p \in par[c]
    OBVIOUS
  <2>4. CASE c = s
    BY <2>1, <2>2, <2>4
  <2>5. CASE c # s
    <3>1. c \in r.ch[p]
      BY <2>1, <2>5
    <3> QED
      BY <2>2, <2>3, <2>5, <3>1
  <2> QED
    BY <2>4, <2>5
<1>4. PassesCycleCheck(r.n, par, ch)
  BY DEF PatchAccepts
<1> HIDE DEF par, ch
<1>5. Unbroken(r.n, par)
  BY <1>1, <1>2, <1>3, <1>4, KahnFindsCycles DEF Steps
<1> QED
  BY <1>5 DEF par

(* Neither the run's steps nor those of a pending patch wait in a circle   *)
(* after a repair.                                                         *)
LEMMA GrownUnknotted ==
    ASSUME Edited, Unknotted, WellFormed(run'), SameGraph(run, run') \/ Repaired(run, run'),
           \A c \in Editors : req'[c].op = "patch" => req'[c] = req[c]
    PROVE  Unknotted'
<1>1. /\ WellFormed(run) /\ Steps(run) \subseteq StepId
      /\ \A c \in Editors : req[c].step \in Steps(run) /\ req[c].parents \in SUBSET Steps(run)
  BY EditedFields
<1>2. CASE SameGraph(run, run')
  BY <1>2 DEF Unknotted, PatchedParents, SameGraph
<1>3. CASE Repaired(run, run')
  <2>1. /\ run.par \in [StepId -> SUBSET StepId] /\ run'.par \in [StepId -> SUBSET StepId]
        /\ \A t \in Steps(run) : run.par[t] \subseteq Steps(run) /\ run'.par[t] = run.par[t]
        /\ run.n + 1 \in StepId \ Steps(run) /\ run.n + 2 \in StepId \ Steps(run)
    BY <1>1, <1>3, FieldTypes, RepairedFacts DEF WellFormed
  <2>2. Unbroken(run'.n, run'.par)
    BY <1>1, <1>3, <2>1, RepairedUnbroken DEF Unknotted
  <2>3. ASSUME NEW c \in Editors, req'[c].op = "patch"
        PROVE  Unbroken(run'.n, PatchedParents(c)')
    <3> DEFINE par  == [run.par EXCEPT ![req[c].step] = req[c].parents]
               more == [run'.par EXCEPT ![req[c].step] = req[c].parents]
    <3>1. req[c] = req'[c] /\ Unbroken(run.n, par)
      BY <2>3 DEF Unknotted, PatchedParents
    <3>2. \A t \in Steps(run) : par[t] \subseteq Steps(run) /\ more[t] = par[t]
      BY <1>1, <2>1
    <3>3. more[run.n + 1] = run'.par[run.n + 1] /\ more[run.n + 2] = run'.par[run.n + 2]
      BY <1>1, <2>1
    <3>4. more = PatchedParents(c)'
      BY <3>1 DEF PatchedParents
    <3> HIDE DEF par, more
    <3>5. Unbroken(run'.n, more)
      BY <1>1, <1>3, <3>1, <3>2, <3>3, RepairedUnbroken
    <3> QED
      BY <3>4, <3>5
  <2> QED
    BY <2>2, <2>3 DEF Unknotted
<1> QED
  BY <1>2, <1>3

LEMMA UnknottedStep ==
    ASSUME SoleEditor, Routes \subseteq {"http"}
    PROVE  Edited /\ Unknotted /\ [ClientsNext]_cvars => Unknotted'
<1> SUFFICES ASSUME Edited, Unknotted, [ClientsNext]_cvars PROVE Unknotted'
  OBVIOUS
<1>0. /\ Structure /\ WellFormed(run) /\ Linked(run)
      /\ \A c \in Editors : req[c].step \in Steps(run) /\ req[c].parents \in SUBSET Steps(run)
      /\ req \in [Editors -> Request] /\ NoRequest.op = "none"
  BY EditedFields DEF Edited
<1>1. ASSUME run'.n = run.n, run'.par = run.par,
             \A c \in Editors : req'[c].op = "patch" => req'[c] = req[c]
      PROVE  Unknotted'
  BY <1>1 DEF Unknotted, PatchedParents
<1>2. ASSUME NEW c \in Editors, req' = [req EXCEPT ![c] = NoRequest], Unbroken(run'.n, run'.par)
      PROVE  Unknotted'
  BY <1>0, <1>2 DEF Unknotted, SoleEditor
<1>3. CASE [Next]_vars /\ UNCHANGED <<req, clone>>
  <2>1. WellFormed(run') /\ (SameGraph(run, run') \/ Repaired(run, run'))
    BY <1>0, <1>3, ExecutorGrowsGraph
  <2> QED
    BY <1>3, <2>1, GrownUnknotted
<1>4. ASSUME NEW c \in Editors, EditorStep(c) PROVE Unknotted'
  <2>1. ASSUME NEW s \in Steps(run), NEW out \in {"none", "findings"},
               NEW status \in {"pending", "ready", "running", "done", "error", "skipped"},
               PostStep(c, s, status, out)
        PROVE  Unknotted'
    <3>1. run' = StepState(run, s, status, out) /\ req' = req
      BY <2>1 DEF PostStep
    <3>2. WellFormed(run') /\ (SameGraph(run, run') \/ Repaired(run, run'))
      BY <1>0, <3>1, StepStateGraph DEF StepStatus, Output
    <3> QED
      BY <3>1, <3>2, GrownUnknotted
  <2>2. ASSUME NEW s \in Steps(run), NEW parents \in SUBSET Steps(run),
               NEW route \in {"http", "ws"}, AskPatch(c, s, parents, route)
        PROVE  Unknotted'
    <3> DEFINE m == [op |-> "patch", step |-> s, parents |-> parents, auto |-> FALSE, route |-> route]
    <3>1. route = "http" /\ PatchAccepts(run, s, parents, route) /\ run' = run
          /\ req' = [req EXCEPT ![c] = m]
      BY <2>2 DEF AskPatch, Ask
    <3>2. m.step = s /\ m.parents = parents
      OBVIOUS
    <3> HIDE DEF m
    <3>3. Unbroken(run.n, [run.par EXCEPT ![s] = parents])
      BY <1>0, <3>1, AcceptedPatchBreaksNothing
    <3>4. \A d \in Editors : req'[d] = m
      BY <1>0, <3>1 DEF SoleEditor
    <3> QED
      BY <3>1, <3>2, <3>3, <3>4 DEF Unknotted, PatchedParents
  <2>3. ASSUME NEW op \in {"insert", "rerun", "resume"}, NEW s, NEW parents, NEW auto,
               NEW route, Ask(c, op, s, parents, auto, route)
        PROVE  Unknotted'
    <3> DEFINE m == [op |-> op, step |-> s, parents |-> parents, auto |-> auto, route |-> route]
    <3>1. run' = run /\ req' = [req EXCEPT ![c] = m] /\ m.op = op
      BY <2>3 DEF Ask
    <3> HIDE DEF m
    <3>2. \A d \in Editors : req'[d].op = "patch" => req'[d] = req[d]
      BY <1>0, <3>1
    <3> QED
      BY <1>1, <3>1, <3>2
  <2>4. CASE CommitPatch(c)
    <3>1. req[c].op = "patch" /\ req' = [req EXCEPT ![c] = NoRequest]
      BY <2>4, PatchCommitted
    <3>2. run'.n = run.n /\ run'.par = PatchedParents(c)
      BY <2>4, PatchCommitted DEF PatchedParents
    <3> QED
      BY <1>2, <3>1, <3>2 DEF Unknotted
  <2>5. CASE CommitInsert(c)
    <3> DEFINE n == run.n + 1
               par == [run.par EXCEPT ![n] = req[c].parents]
    <3>1. req' = [req EXCEPT ![c] = NoRequest] /\ run.n < MaxSteps
      BY <2>5, InsertCommitted
    <3>2. run'.n = n /\ run'.par = par
      BY <2>5, InsertCommitted
    <3>3. /\ run.n \in Nat /\ run.par \in [StepId -> SUBSET StepId] /\ n \in StepId
          /\ \A t \in 1..run.n : t \in StepId /\ run.par[t] \subseteq 1..run.n
          /\ req[c].parents \subseteq 1..run.n
      BY <1>0, <3>1, FieldTypes, BoundsAssumption DEF WellFormed, Steps, StepId
    <3>4. par[n] = req[c].parents /\ \A t \in 1..run.n : par[t] = run.par[t]
      BY <3>3
    <3>5. Unbroken(run.n, run.par)
      BY DEF Unknotted
    <3> HIDE DEF par
    <3>6. Unbroken(n, par)
      BY <3>3, <3>4, <3>5, OneMoreUnbroken
    <3> QED
      BY <1>2, <3>1, <3>2, <3>6
  <2>6. CASE ReadyAgain(c)
    <3> DEFINE m == [req[c] EXCEPT !.op = "clear"]
    <3>1. run' = StepState(run, req[c].step, "ready", "none") /\ req' = [req EXCEPT ![c] = m]
      BY <2>6 DEF ReadyAgain
    <3>2. m.op = "clear"
      BY <1>0 DEF Request
    <3> HIDE DEF m
    <3>3. WellFormed(run') /\ (SameGraph(run, run') \/ Repaired(run, run'))
      BY <1>0, <3>1, StepStateGraph DEF StepStatus, Output
    <3>4. \A d \in Editors : req'[d].op = "patch" => req'[d] = req[d]
      BY <1>0, <3>1, <3>2
    <3> QED
      BY <3>3, <3>4, GrownUnknotted
  <2>7. CASE ClearResult(c)
    <3>1. /\ run' = IF req[c].route = "ws" THEN Cleared(run, req[c].step) ELSE run
          /\ req' = [req EXCEPT ![c] = NoRequest]
      BY <2>7 DEF ClearResult, Answer
    <3>2. SameGraph(run, run')
      BY <1>0, <3>1, ClearedFacts DEF SameGraph
    <3> QED
      BY <1>2, <3>1, <3>2 DEF Unknotted, SameGraph
  <2>8. CASE PutBack(c)
    <3>1. PICK r \in clone[c] : run' = Resumed(r) /\ req' = [req EXCEPT ![c] = NoRequest]
      BY <2>8 DEF PutBack, Answer
    <3>2. WellFormed(r) /\ SameGraph(run, r)
      BY <3>1 DEF Edited
    <3>3. SameGraph(run, run')
      BY <3>1, <3>2, ResumedFacts, SameGraphTransitive
    <3> QED
      BY <1>2, <3>1, <3>3 DEF Unknotted, SameGraph
  <2> QED
    BY <1>4, <2>1, <2>2, <2>3, <2>4, <2>5, <2>6, <2>7, <2>8
       DEF EditorStep, AskInsert, AskRerun, AskResume
<1>5. CASE UNCHANGED cvars
  BY <1>3, <1>5 DEF cvars, vars
<1> QED
  BY <1>3, <1>4, <1>5 DEF ClientsNext

(* Whatever one editor rewires over HTTP, inserts, posts, reruns and       *)
(* resumes while executors drive the run and repair it, its steps never    *)
(* wait for one another in a circle, though every check was made on an     *)
(* older state; an editor who resumes has a run without reviews.           *)
THEOREM EditsMakeNoCycle ==
    ASSUME NoStepIsLost, SoleEditor, Routes \subseteq {"http"}
    PROVE  ClientsSpec => []Acyclic
<1>1. Unknotted => Acyclic
  BY DEF Unknotted, Unbroken, Acyclic, Steps
<1> QED
  BY <1>1, InitUnknotted, UnknottedStep, EditedInvariant, PTL DEF ClientsSpec
=============================================================================
