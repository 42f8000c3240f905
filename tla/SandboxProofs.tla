--------------------------- MODULE SandboxProofs ---------------------------
(***************************************************************************)
(* The safety of Sandbox, proved for any set of runs.                      *)
(***************************************************************************)
EXTENDS Sandbox, FiniteSetTheorems, TLAPS

-----------------------------------------------------------------------------
(* The inductive invariant, of each run.                                   *)

(* Nothing of a run exists before start_run has inserted it, and neither   *)
(* its task nor its poller nor a kill before start_run has returned.       *)
Placed(r) ==
    /\ starter[r] \in {"idle", "superseding"} =>
        entry[r].status = "absent" /\ r \notin forgetting /\ ends[r] = 0
    /\ starter[r] # "returned" =>
        task[r] = "none" /\ poller[r] = "none" /\ killer[r] = "none"

(* A live child is held by the entry of a running run and awaited by its   *)
(* task; a run is over before its task has said so only if it was killed.  *)
Held(r) ==
    /\ task[r] \in {"none", "queued", "preparing"} =>
        child[r] = "none" /\ watchdog[r] = "off"
    /\ child[r] = "alive" =>
        /\ entry[r].status = "running" /\ entry[r].held
        /\ task[r] \in {"spawned", "waiting"}
    /\ Over(r) /\ ~entry[r].killed => task[r] \in {"pruning", "ended"}

(* Whoever signals the child of a running run has marked the run before.   *)
Marked(r) ==
    entry[r].status = "running" =>
        /\ child[r] = "signalled" \/ watchdog[r] = "marked" => entry[r].killed
        /\ task[r] = "finishing" /\ verdict[r] = "done" => child[r] = "succeeded"
        /\ task[r] = "finishing" /\ verdict[r] = "error" =>
            child[r] \in {"none", "failed"}

Truthful(r) ==
    /\ entry[r].status = "done" => child[r] = "succeeded"
    /\ entry[r].status = "error" => child[r] \in {"none", "failed"}

(* Who is about to announce an end has seen it; the flag of a run in the   *)
(* store is not dropped.                                                   *)
Announced(r) ==
    /\ Present(r) => ends[r] <= 1 /\ r \notin forgetting
    /\ Present(r) /\ ends[r] = 1 => Over(r) /\ r \in emitted
    /\ poller[r] = "seen" \/ killer[r] = "announcing" => entry[r].status # "running"

RunInv(r) == Placed(r) /\ Held(r) /\ Marked(r) /\ Truthful(r) /\ Announced(r)

SandboxInv == SandboxTypeOK /\ \A r \in Runs : RunInv(r)

-----------------------------------------------------------------------------
LEMMA InitSafe == Init => SandboxInv
<1> SUFFICES ASSUME Init PROVE SandboxInv
  OBVIOUS
<1>1. SandboxTypeOK
  BY DEF Init, SandboxTypeOK, Entry, Terminal
<1>2. ASSUME NEW r \in Runs PROVE RunInv(r)
  BY <1>2 DEF Init, RunInv, Placed, Held, Marked, Truthful, Announced, Present, Over,
              Terminal
<1> QED
  BY <1>1, <1>2 DEF SandboxInv

(* Entries stay entries whichever field is changed.                        *)
LEMMA EntryKept ==
    ASSUME SandboxTypeOK, NEW r \in Runs, NEW e \in Entry,
           entry' = [entry EXCEPT ![r] = e]
    PROVE  entry' \in [Runs -> Entry]
  BY DEF SandboxTypeOK

LEMMA EntryFields ==
    ASSUME NEW e \in Entry
    PROVE  /\ e.status \in {"absent", "running"} \cup Terminal
           /\ \A s \in {"absent", "running"} \cup Terminal :
                [e EXCEPT !.status = s] \in Entry
           /\ \A b \in BOOLEAN : [e EXCEPT !.held = b] \in Entry
           /\ \A b \in BOOLEAN : [e EXCEPT !.killed = b] \in Entry
           /\ \A b \in BOOLEAN, s \in {"absent", "running"} \cup Terminal :
                [e EXCEPT !.held = b, !.status = s] \in Entry
           /\ \A s \in {"absent", "running"} \cup Terminal :
                [status |-> s, killed |-> TRUE, held |-> FALSE] \in Entry
  BY DEF Entry

LEMMA KillTyped ==
    ASSUME SandboxTypeOK, NEW r \in Runs, Kill(r)
    PROVE  /\ entry' \in [Runs -> Entry]
           /\ child' \in [Runs -> {"none", "alive", "succeeded", "failed", "signalled"}]
<1>1. child' \in [Runs -> {"none", "alive", "succeeded", "failed", "signalled"}]
  BY DEF Kill, Signalled, SandboxTypeOK
<1>2. CASE entry[r].status = "running"
  <2>1. [status |-> "killed", killed |-> TRUE, held |-> FALSE] \in Entry
    BY DEF Entry, Terminal
  <2> QED
    BY <1>1, <1>2, <2>1, EntryKept DEF Kill
<1>3. CASE entry[r].status # "running"
  BY <1>1, <1>3 DEF Kill, SandboxTypeOK
<1> QED
  BY <1>2, <1>3

LEMMA StepTyped ==
    ASSUME SandboxTypeOK, NEW r \in Runs, Step(r)
    PROVE  SandboxTypeOK'
<1> entry[r] \in Entry
  BY DEF SandboxTypeOK
<1>1. CASE StartRun(r)
  BY <1>1, SandboxAssumption DEF StartRun, Prior, SandboxTypeOK, executing, announcing
<1>2. CASE Supersede(r)
  BY <1>2, KillTyped DEF Supersede, SandboxTypeOK, executing, announcing
<1>3. CASE Insert(r)
  <2>1. [entry[r] EXCEPT !.status = "running"] \in Entry
    BY EntryFields
  <2>2. entry' \in [Runs -> Entry]
    BY <1>3, <2>1, EntryKept DEF Insert
  <2>3. Cardinality({q \in Runs : born[q] > 0}) \in Nat
    BY FS_Subset, FS_CardinalityType, SandboxAssumption
  <2> QED
    BY <1>3, <2>2, <2>3 DEF Insert, SandboxTypeOK, executing, announcing
<1>4. CASE Launch(r)
  BY <1>4 DEF Launch, Prune, Evicted, SandboxTypeOK, executing, announcing, Entry, Terminal, Present
<1>5. CASE Begin(r)
  BY <1>5 DEF Begin, SandboxTypeOK, executing, announcing, Entry, Terminal, Present
<1>6. CASE PrepareFails(r)
  BY <1>6 DEF PrepareFails, SandboxTypeOK, executing, announcing, Entry, Terminal, Present
<1>7. CASE Spawn(r)
  <2>1. [entry[r] EXCEPT !.held = TRUE] \in Entry
    BY EntryFields
  <2>2. entry' \in [Runs -> Entry]
    BY <1>7, <2>1, EntryKept DEF Spawn
  <2> QED
    BY <1>7, <2>2 DEF Spawn, SandboxTypeOK, executing, announcing, Terminal
<1>8. CASE SpawnFails(r)
  BY <1>8 DEF SpawnFails, PrepareFails, MaySpawn, SandboxTypeOK, executing, announcing, Entry, Terminal, Present
<1>9. CASE SpawnCancelled(r)
  BY <1>9 DEF SpawnCancelled, SandboxTypeOK, executing, announcing, Entry, Terminal, Present
<1>10. CASE Watch(r)
  BY <1>10 DEF Watch, Arm, Signalled, SandboxTypeOK, executing, announcing, Entry, Terminal, Present
<1>11. CASE WatchdogMarks(r)
  <2>1. [entry[r] EXCEPT !.killed = Present(r)] \in Entry
    BY EntryFields DEF Present
  <2>2. entry' \in [Runs -> Entry]
    BY <1>11, <2>1, EntryKept DEF WatchdogMarks
  <2> QED
    BY <1>11, <2>2 DEF WatchdogMarks, SandboxTypeOK, executing, announcing, Terminal
<1>12. CASE WatchdogKills(r)
  BY <1>12 DEF WatchdogKills, Signalled, SandboxTypeOK, executing, announcing, Entry, Terminal, Present
<1>13. CASE ChildExits(r)
  BY <1>13 DEF ChildExits, SandboxTypeOK, executing, announcing, Entry, Terminal, Present
<1>14. CASE Reap(r)
  BY <1>14 DEF Reap, SandboxTypeOK, executing, announcing, Entry, Terminal, Present
<1>15. CASE Judge(r)
  BY <1>15 DEF Judge, Verdict, SandboxTypeOK, executing, announcing, Entry, Terminal, Present
<1>16. CASE Finish(r)
  <2>1. FinishedEntry(r) \in Entry
    <3>1. CASE entry[r].status = "running"
      <4>1. verdict[r] \in {"absent", "running"} \cup Terminal
        BY DEF SandboxTypeOK
      <4> QED
        BY <3>1, <4>1, EntryFields DEF FinishedEntry
    <3>2. CASE entry[r].status # "running"
      BY <3>2, EntryFields DEF FinishedEntry
    <3> QED
      BY <3>1, <3>2
  <2>2. entry' \in [Runs -> Entry]
    BY <1>16, <2>1, EntryKept DEF Finish
  <2> QED
    BY <1>16, <2>2 DEF Finish, SandboxTypeOK, executing, announcing, Terminal
<1>17. CASE End(r)
  BY <1>17 DEF End, Prune, Evicted, SandboxTypeOK, executing, announcing, Entry, Terminal, Present
<1>18. CASE RestKill(r)
  BY <1>18, KillTyped DEF RestKill, SandboxTypeOK, executing, announcing
<1>19. CASE KillMessage(r)
  BY <1>19, KillTyped DEF KillMessage, SandboxTypeOK, executing, announcing
<1>20. CASE KillAnnounces(r)
  BY <1>20 DEF KillAnnounces, Announce, SandboxTypeOK, executing, announcing, Entry, Terminal, Present
<1>21. CASE PollerSees(r)
  BY <1>21 DEF PollerSees, SandboxTypeOK, executing, announcing, Entry, Terminal, Present
<1>22. CASE PollerAnnounces(r)
  BY <1>22 DEF PollerAnnounces, Announce, SandboxTypeOK, executing, announcing, Entry, Terminal, Present
<1>23. CASE PollerGivesUp(r)
  BY <1>23 DEF PollerGivesUp, SandboxTypeOK, executing, announcing, Entry, Terminal, Present
<1>24. CASE Forget(r)
  BY <1>24 DEF Forget, SandboxTypeOK, executing, announcing, Entry, Terminal, Present
<1> QED
  BY <1>1, <1>2, <1>3, <1>4, <1>5, <1>6, <1>7, <1>8, <1>9, <1>10, <1>11, <1>12, <1>13, <1>14, <1>15, <1>16, <1>17, <1>18, <1>19, <1>20, <1>21, <1>22, <1>23, <1>24 DEF Step, TaskStep, WatchdogStep, PollerStep

LEMMA StepSafe ==
    ASSUME SandboxInv, NEW r \in Runs, Step(r), NEW q \in Runs
    PROVE  RunInv(q)'
<1>1. CASE StartRun(r)
  BY <1>1, SMTT(30) DEF StartRun, SandboxInv, SandboxTypeOK, Entry, Terminal, executing, announcing, Present, Over, RunInv, Placed, Held, Marked, Truthful, Announced
<1>2. CASE Supersede(r)
  BY <1>2, SMTT(30) DEF Supersede, Kill, Signalled, SandboxInv, SandboxTypeOK, Entry, Terminal, executing, announcing, Present, Over, RunInv, Placed, Held, Marked, Truthful, Announced
<1>3. CASE Insert(r)
  BY <1>3, SMTT(30) DEF Insert, SandboxInv, SandboxTypeOK, Entry, Terminal, executing, announcing, Present, Over, RunInv, Placed, Held, Marked, Truthful, Announced
<1>4. CASE Launch(r)
  BY <1>4, SMTT(30) DEF Launch, Prune, Evicted, SandboxInv, SandboxTypeOK, Entry, Terminal, executing, announcing, Present, Over, RunInv, Placed, Held, Marked, Truthful, Announced
<1>5. CASE Begin(r)
  BY <1>5, SMTT(30) DEF Begin, SandboxInv, SandboxTypeOK, Entry, Terminal, executing, announcing, Present, Over, RunInv, Placed, Held, Marked, Truthful, Announced
<1>6. CASE PrepareFails(r)
  BY <1>6, SMTT(30) DEF PrepareFails, SandboxInv, SandboxTypeOK, Entry, Terminal, executing, announcing, Present, Over, RunInv, Placed, Held, Marked, Truthful, Announced
<1>7. CASE Spawn(r)
  BY <1>7, SMTT(30) DEF Spawn, MaySpawn, SandboxInv, SandboxTypeOK, Entry, Terminal, executing, announcing, Present, Over, RunInv, Placed, Held, Marked, Truthful, Announced
<1>8. CASE SpawnFails(r)
  BY <1>8, SMTT(30) DEF SpawnFails, PrepareFails, MaySpawn, SandboxInv, SandboxTypeOK, Entry, Terminal, executing, announcing, Present, Over, RunInv, Placed, Held, Marked, Truthful, Announced
<1>9. CASE SpawnCancelled(r)
  BY <1>9, SMTT(30) DEF SpawnCancelled, SandboxInv, SandboxTypeOK, Entry, Terminal, executing, announcing, Present, Over, RunInv, Placed, Held, Marked, Truthful, Announced
<1>10. CASE Watch(r)
  BY <1>10, SMTT(30) DEF Watch, Arm, Signalled, SandboxInv, SandboxTypeOK, Entry, Terminal, executing, announcing, Present, Over, RunInv, Placed, Held, Marked, Truthful, Announced
<1>11. CASE WatchdogMarks(r)
  <2>1. /\ entry'[q].status = entry[q].status
        /\ entry'[q].held = entry[q].held
        /\ entry[q].killed /\ Present(q) => entry'[q].killed
        /\ q = r /\ Present(q) => entry'[q].killed
    <3>1. CASE q = r
      <4>1. entry' = [entry EXCEPT ![r] = [entry[r] EXCEPT !.killed = Present(r)]]
        BY <1>11 DEF WatchdogMarks
      <4>2. entry'[r] = [entry[r] EXCEPT !.killed = Present(r)]
        BY <4>1 DEF SandboxInv, SandboxTypeOK
      <4> QED
        BY <3>1, <4>2 DEF SandboxInv, SandboxTypeOK, Entry
    <3>2. CASE q # r
      BY <1>11, <3>2 DEF WatchdogMarks, SandboxInv, SandboxTypeOK
    <3> QED
      BY <3>1, <3>2
  <2>2. /\ watchdog[q] # "armed" => watchdog'[q] = watchdog[q]
        /\ q # r => watchdog'[q] = watchdog[q]
        /\ watchdog[r] = "armed" /\ watchdog'[r] = "marked"
    BY <1>11 DEF WatchdogMarks, SandboxInv, SandboxTypeOK
  <2>3. UNCHANGED <<starter, task, verdict, child, poller, killer, emitted, forgetting, ends>>
    BY <1>11 DEF WatchdogMarks, announcing
  <2>4. RunInv(q)
    BY DEF SandboxInv
  <2>5. (Placed(q) /\ Truthful(q) /\ Announced(q))'
    BY <2>1, <2>3, <2>4 DEF RunInv, Placed, Truthful, Announced, Present, Over
  <2>6. Held(q)'
    BY <2>1, <2>2, <2>3, <2>4 DEF RunInv, Held, Present, Over, Terminal
  <2>7. Marked(q)'
    BY <2>1, <2>2, <2>3, <2>4 DEF RunInv, Marked, Present
  <2> QED
    BY <2>5, <2>6, <2>7 DEF RunInv
<1>12. CASE WatchdogKills(r)
  BY <1>12, SMTT(30) DEF WatchdogKills, Signalled, SandboxInv, SandboxTypeOK, Entry, Terminal, executing, announcing, Present, Over, RunInv, Placed, Held, Marked, Truthful, Announced
<1>13. CASE ChildExits(r)
  BY <1>13, SMTT(30) DEF ChildExits, SandboxInv, SandboxTypeOK, Entry, Terminal, executing, announcing, Present, Over, RunInv, Placed, Held, Marked, Truthful, Announced
<1>14. CASE Reap(r)
  BY <1>14, SMTT(30) DEF Reap, SandboxInv, SandboxTypeOK, Entry, Terminal, executing, announcing, Present, Over, RunInv, Placed, Held, Marked, Truthful, Announced
<1>15. CASE Judge(r)
  BY <1>15, SMTT(30) DEF Judge, Verdict, SandboxInv, SandboxTypeOK, Entry, Terminal, executing, announcing, Present, Over, RunInv, Placed, Held, Marked, Truthful, Announced
<1>16. CASE Finish(r)
  BY <1>16, SMTT(30) DEF Finish, FinishedEntry, SandboxInv, SandboxTypeOK, Entry, Terminal, executing, announcing, Present, Over, RunInv, Placed, Held, Marked, Truthful, Announced
<1>17. CASE End(r)
  BY <1>17, SMTT(30) DEF End, Prune, Evicted, SandboxInv, SandboxTypeOK, Entry, Terminal, executing, announcing, Present, Over, RunInv, Placed, Held, Marked, Truthful, Announced
<1>18. CASE RestKill(r)
  BY <1>18, SMTT(30) DEF RestKill, Kill, Signalled, SandboxInv, SandboxTypeOK, Entry, Terminal, executing, announcing, Present, Over, RunInv, Placed, Held, Marked, Truthful, Announced
<1>19. CASE KillMessage(r)
  BY <1>19, SMTT(30) DEF KillMessage, Kill, Signalled, SandboxInv, SandboxTypeOK, Entry, Terminal, executing, announcing, Present, Over, RunInv, Placed, Held, Marked, Truthful, Announced
<1>20. CASE KillAnnounces(r)
  <2>1. UNCHANGED <<entry, starter, task, verdict, child, watchdog, poller, forgetting>>
    BY <1>20 DEF KillAnnounces, executing
  <2>2. /\ killer' = [killer EXCEPT ![r] = "answered"]
        /\ emitted' = emitted \cup {r}
        /\ ends' = IF r \in emitted THEN ends ELSE [ends EXCEPT ![r] = @ + 1]
        /\ entry[r].status # "running" /\ starter[r] = "returned"
    BY <1>20 DEF KillAnnounces, Announce, SandboxInv, RunInv, Placed, Announced
  <2>3. RunInv(q)
    BY DEF SandboxInv
  <2>4. Placed(q)'
    BY <2>1, <2>2, <2>3 DEF RunInv, Placed, SandboxInv, SandboxTypeOK
  <2>5. (Held(q) /\ Marked(q) /\ Truthful(q))'
    BY <2>1, <2>3 DEF RunInv, Held, Marked, Truthful, Over
  <2>6. Announced(q)'
    <3>1. CASE q # r
      BY <2>1, <2>2, <2>3, <3>1 DEF RunInv, Announced, Present, Over, SandboxInv, SandboxTypeOK
    <3>2. CASE q = r
      <4>1. entry[r] \in Entry /\ ends[r] \in Nat
        BY DEF SandboxInv, SandboxTypeOK
      <4>2. Present(r) => Over(r)
        BY <2>2, <4>1 DEF Present, Over, Entry
      <4>3. Present(r) => ends'[r] <= 1 /\ r \notin forgetting
        BY <2>2, <2>3, <3>2, <4>1 DEF RunInv, Announced, SandboxInv, SandboxTypeOK
      <4> QED
        BY <2>1, <2>2, <3>2, <4>2, <4>3 DEF Announced, Present, Over
    <3> QED
      BY <3>1, <3>2
  <2> QED
    BY <2>4, <2>5, <2>6 DEF RunInv
<1>21. CASE PollerSees(r)
  BY <1>21, SMTT(30) DEF PollerSees, SandboxInv, SandboxTypeOK, Entry, Terminal, executing, announcing, Present, Over, RunInv, Placed, Held, Marked, Truthful, Announced
<1>22. CASE PollerAnnounces(r)
  <2>1. UNCHANGED <<entry, starter, task, verdict, child, watchdog, killer, forgetting>>
    BY <1>22 DEF PollerAnnounces, executing
  <2>2. /\ poller' = [poller EXCEPT ![r] = "stopped"]
        /\ emitted' = emitted \cup {r}
        /\ ends' = IF r \in emitted THEN ends ELSE [ends EXCEPT ![r] = @ + 1]
        /\ entry[r].status # "running" /\ starter[r] = "returned"
    BY <1>22 DEF PollerAnnounces, Announce, SandboxInv, RunInv, Placed, Announced
  <2>3. RunInv(q)
    BY DEF SandboxInv
  <2>4. Placed(q)'
    BY <2>1, <2>2, <2>3 DEF RunInv, Placed, SandboxInv, SandboxTypeOK
  <2>5. (Held(q) /\ Marked(q) /\ Truthful(q))'
    BY <2>1, <2>3 DEF RunInv, Held, Marked, Truthful, Over
  <2>6. Announced(q)'
    <3>1. CASE q # r
      BY <2>1, <2>2, <2>3, <3>1 DEF RunInv, Announced, Present, Over, SandboxInv, SandboxTypeOK
    <3>2. CASE q = r
      <4>1. entry[r] \in Entry /\ ends[r] \in Nat
        BY DEF SandboxInv, SandboxTypeOK
      <4>2. Present(r) => Over(r)
        BY <2>2, <4>1 DEF Present, Over, Entry
      <4>3. Present(r) => ends'[r] <= 1 /\ r \notin forgetting
        BY <2>2, <2>3, <3>2, <4>1 DEF RunInv, Announced, SandboxInv, SandboxTypeOK
      <4> QED
        BY <2>1, <2>2, <3>2, <4>2, <4>3 DEF Announced, Present, Over
    <3> QED
      BY <3>1, <3>2
  <2> QED
    BY <2>4, <2>5, <2>6 DEF RunInv
<1>23. CASE PollerGivesUp(r)
  BY <1>23, SMTT(30) DEF PollerGivesUp, SandboxInv, SandboxTypeOK, Entry, Terminal, executing, announcing, Present, Over, RunInv, Placed, Held, Marked, Truthful, Announced
<1>24. CASE Forget(r)
  BY <1>24, SMTT(30) DEF Forget, SandboxInv, SandboxTypeOK, Entry, Terminal, executing, announcing, Present, Over, RunInv, Placed, Held, Marked, Truthful, Announced
<1> QED
  BY <1>1, <1>2, <1>3, <1>4, <1>5, <1>6, <1>7, <1>8, <1>9, <1>10, <1>11, <1>12, <1>13, <1>14, <1>15, <1>16, <1>17, <1>18, <1>19, <1>20, <1>21, <1>22, <1>23, <1>24 DEF Step, TaskStep, WatchdogStep, PollerStep

-----------------------------------------------------------------------------
LEMMA NextSafe ==
    ASSUME SandboxInv, [Next]_vars
    PROVE  SandboxInv'
<1>1. CASE Next
  <2> PICK r \in Runs : Step(r)
    BY <1>1 DEF Next
  <2>1. SandboxTypeOK'
    BY StepTyped DEF SandboxInv
  <2>2. \A q \in Runs : RunInv(q)'
    BY StepSafe
  <2> QED
    BY <2>1, <2>2 DEF SandboxInv
<1>2. CASE UNCHANGED vars
  <2>1. SandboxTypeOK'
    BY <1>2 DEF SandboxInv, SandboxTypeOK, vars
  <2>2. ASSUME NEW q \in Runs PROVE RunInv(q)'
    BY <1>2, <2>2 DEF vars, SandboxInv, RunInv, Placed, Held, Marked, Truthful, Announced,
                      Present, Over
  <2> QED
    BY <2>1, <2>2 DEF SandboxInv
<1> QED
  BY <1>1, <1>2

(* In every behaviour of sandbox.rs, whatever the number of runs and        *)
(* however kill, supersede, watchdog, exit and eviction interleave, the     *)
(* parts of RunInv hold of every run.                                       *)
THEOREM SandboxSafe == Spec => []SandboxInv
<1>1. Init => SandboxInv
  BY InitSafe
<1>2. SandboxInv /\ [Next]_vars => SandboxInv'
  BY NextSafe
<1> QED
  BY <1>1, <1>2, PTL DEF Spec

(* The variables keep their types.                                         *)
THEOREM SandboxTyped == Spec => []SandboxTypeOK
<1>1. SandboxInv => SandboxTypeOK
  BY DEF SandboxInv
<1> QED
  BY <1>1, SandboxSafe, PTL

(* No child outlives the record of its run's end: execute_run spawns only  *)
(* a run that is still to run, and whoever ends it signals what it holds.  *)
THEOREM NothingLeftRunning == Spec => []NoLiveAfterEnd
<1>1. SandboxInv => NoLiveAfterEnd
  BY DEF SandboxInv, RunInv, Held, NoLiveAfterEnd
<1> QED
  BY <1>1, SandboxSafe, PTL

(* What is recorded as done or as an error ended by itself, however the    *)
(* timeout, a kill and the exit race for the record.                       *)
THEOREM StatusIsTruthful == Spec => []TruthfulStatus
<1>1. SandboxInv => TruthfulStatus
  BY DEF SandboxInv, RunInv, Truthful, TruthfulStatus
<1> QED
  BY <1>1, SandboxSafe, PTL

(* Poller and kill handler together announce an end at most once while the *)
(* store has the run, and only an end that happened.                       *)
THEOREM OneAnnouncement == Spec => []EndAnnouncedOnce
<1>1. SandboxInv => EndAnnouncedOnce
  <2> SUFFICES ASSUME SandboxInv, NEW r \in Runs, Present(r)
               PROVE  ends[r] <= (IF Over(r) THEN 1 ELSE 0)
    BY DEF EndAnnouncedOnce
  <2>1. ends[r] \in Nat
    BY DEF SandboxInv, SandboxTypeOK
  <2> QED
    BY <2>1 DEF SandboxInv, RunInv, Announced
<1> QED
  BY <1>1, SandboxSafe, PTL

(* What a step may not do to a run that is over.                           *)
LEMMA StepKeepsEnds ==
    ASSUME SandboxInv, NEW r \in Runs, Step(r), NEW q \in Runs, Over(q)
    PROVE  entry'[q].status \in {entry[q].status, "absent"}
<1> entry[q] \in Entry /\ entry \in [Runs -> Entry]
  BY DEF SandboxInv, SandboxTypeOK
<1>1. CASE Insert(r)
  BY <1>1 DEF Insert, SandboxInv, RunInv, Placed, Over, Terminal
<1>2. CASE Launch(r) \/ End(r)
  BY <1>2 DEF Launch, End, Prune
<1>3. CASE Supersede(r) \/ RestKill(r) \/ KillMessage(r)
  BY <1>3 DEF Supersede, RestKill, KillMessage, Kill, Over, Terminal
<1>4. CASE Spawn(r)
  BY <1>4 DEF Spawn
<1>5. CASE WatchdogMarks(r)
  BY <1>5 DEF WatchdogMarks
<1>6. CASE Finish(r)
  BY <1>6 DEF Finish, FinishedEntry, Over, Terminal
<1>7. CASE \/ StartRun(r) \/ Begin(r) \/ PrepareFails(r) \/ SpawnFails(r)
           \/ SpawnCancelled(r) \/ Watch(r) \/ WatchdogKills(r) \/ ChildExits(r)
           \/ Reap(r) \/ Judge(r) \/ KillAnnounces(r) \/ PollerStep(r) \/ Forget(r)
  <2>1. UNCHANGED entry
    BY <1>7 DEF StartRun, Begin, PrepareFails, SpawnFails, SpawnCancelled, Watch,
                WatchdogKills, ChildExits, Reap, Judge, KillAnnounces, PollerStep,
                PollerSees, PollerAnnounces, PollerGivesUp, Forget
  <2> QED
    BY <2>1
<1> QED
  BY <1>1, <1>2, <1>3, <1>4, <1>5, <1>6, <1>7 DEF Step, TaskStep, WatchdogStep

(* The end of a run, once recorded, is never rewritten: neither by the     *)
(* exit path that comes after a kill nor by a kill after the exit path.    *)
THEOREM EndsAreFinal == Spec => EndIsFinal
<1>1. SandboxInv /\ [Next]_vars =>
        [\A r \in Runs : Over(r) =>
            entry'[r].status \in {entry[r].status, "absent"}]_vars
  BY StepKeepsEnds DEF Next
<1> QED
  BY <1>1, SandboxSafe, PTL DEF Spec, EndIsFinal

-----------------------------------------------------------------------------
(* Who is about to insert a preview has seen every running one: those it   *)
(* has not superseded yet are on its list.                                 *)
Listed ==
    \A q, r \in Previews :
        starter[r] = "superseding" /\ entry[q].status = "running" => q \in stale[r]

(* Only an insertion makes a run running, and only its own start shortens  *)
(* the list, by a run it has killed.                                       *)
LEMMA StepLists ==
    ASSUME SandboxInv, Listed, SingleOccupancy, StartsApart, NEW r \in Runs, Step(r)
    PROVE  Listed' /\ SingleOccupancy'
<1>1. /\ entry \in [Runs -> Entry] /\ entry[r] \in Entry /\ Previews \subseteq Runs
      /\ starter \in [Runs -> {"idle", "superseding", "pruning", "returned"}]
      /\ stale \in [Runs -> SUBSET Runs]
  BY SandboxAssumption DEF SandboxInv, SandboxTypeOK
<1> DEFINE NoneRises == \A q \in Runs : entry'[q].status = "running" =>
                                            entry[q].status = "running"
<1>2. ASSUME NoneRises, UNCHANGED <<starter, stale>> PROVE Listed' /\ SingleOccupancy'
  BY <1>1, <1>2 DEF Listed, SingleOccupancy
<1>3. CASE StartRun(r)
  <2>1. UNCHANGED entry /\ stale'[r] = Prior(r)
        /\ \A q \in Runs : q # r => stale'[q] = stale[q] /\ starter'[q] = starter[q]
    BY <1>1, <1>3 DEF StartRun
  <2> QED
    BY <1>1, <2>1 DEF Listed, SingleOccupancy, Prior
<1>4. CASE Supersede(r)
  <2>1. PICK p \in stale[r] : Kill(p) /\ stale' = [stale EXCEPT ![r] = @ \ {p}]
    BY <1>4 DEF Supersede
  <2>2. NoneRises /\ entry'[p].status # "running" /\ UNCHANGED starter
    BY <1>1, <1>4, <2>1 DEF Supersede, Kill
  <2>3. \A q \in Runs : stale[q] \subseteq stale'[q] \cup {p}
    BY <1>1, <2>1
  <2> QED
    BY <1>1, <2>2, <2>3 DEF Listed, SingleOccupancy
<1>5. CASE Insert(r)
  <2>1. /\ starter[r] = "superseding" /\ stale[r] = {} /\ UNCHANGED stale
        /\ starter'[r] = "pruning"
        /\ \A q \in Runs : q # r => entry'[q] = entry[q] /\ starter'[q] = starter[q]
    BY <1>1, <1>5 DEF Insert
  <2>2. CASE r \in Previews
    <3>1. \A q \in Previews : entry[q].status # "running"
      BY <2>1, <2>2 DEF Listed
    <3>2. \A q \in Previews : starter'[q] # "superseding"
      BY <1>1, <2>1, <2>2 DEF StartsApart
    <3> QED
      BY <1>1, <2>1, <3>1, <3>2 DEF Listed, SingleOccupancy
  <2>3. CASE r \notin Previews
    BY <1>1, <2>1, <2>3 DEF Listed, SingleOccupancy
  <2> QED
    BY <2>2, <2>3
<1>6. CASE Launch(r)
  <2>1. /\ NoneRises /\ UNCHANGED stale
        /\ \A q \in Runs : starter'[q] = "superseding" => starter[q] = "superseding"
    BY <1>1, <1>6 DEF Launch, Prune
  <2> QED
    BY <1>1, <2>1 DEF Listed, SingleOccupancy
<1>7. CASE TaskStep(r) \/ WatchdogStep(r)
  <2>1. NoneRises
    <3>1. CASE Spawn(r)
      BY <1>1, <3>1 DEF Spawn
    <3>2. CASE WatchdogMarks(r)
      BY <1>1, <3>2 DEF WatchdogMarks
    <3>3. CASE Finish(r)
      BY <1>1, <3>3 DEF Finish, FinishedEntry
    <3>4. CASE End(r)
      BY <1>1, <3>4 DEF End, Prune
    <3>5. CASE \/ Begin(r) \/ PrepareFails(r) \/ SpawnFails(r) \/ SpawnCancelled(r)
               \/ Watch(r) \/ WatchdogKills(r) \/ Reap(r) \/ Judge(r)
      BY <3>5 DEF Begin, PrepareFails, SpawnFails, SpawnCancelled, Watch,
                  WatchdogKills, Reap, Judge
    <3> QED
      BY <1>7, <3>1, <3>2, <3>3, <3>4, <3>5 DEF TaskStep, WatchdogStep
  <2>2. UNCHANGED <<starter, stale>>
    BY <1>7 DEF TaskStep, WatchdogStep, Begin, PrepareFails, SpawnFails, SpawnCancelled,
                Watch, WatchdogKills, Reap, Judge, Spawn, WatchdogMarks, Finish, End
  <2> QED
    BY <1>2, <2>1, <2>2
<1>8. CASE \/ ChildExits(r) \/ RestKill(r) \/ KillMessage(r) \/ KillAnnounces(r)
           \/ PollerStep(r) \/ Forget(r)
  <2>1. NoneRises
    BY <1>1, <1>8 DEF ChildExits, RestKill, KillMessage, KillAnnounces, PollerStep, Forget,
                Kill, PollerSees, PollerAnnounces, PollerGivesUp
  <2>2. UNCHANGED <<starter, stale>>
    BY <1>8 DEF ChildExits, RestKill, KillMessage, KillAnnounces, PollerStep, Forget,
                PollerSees, PollerAnnounces, PollerGivesUp
  <2> QED
    BY <1>2, <2>1, <2>2
<1> QED
  BY <1>3, <1>4, <1>5, <1>6, <1>7, <1>8 DEF Step

(* One preview of the project runs at a time, for any number of runs, as   *)
(* long as no two starts are between superseding and inserting at once:    *)
(* start_run supersedes whatever stage the previous preview is in.         *)
THEOREM PreviewsOneAtATime == Spec => OneAtATime
<1>1. Init => Listed /\ SingleOccupancy
  BY SandboxAssumption DEF Init, Listed, SingleOccupancy
<1>2. ASSUME SandboxInv, Listed, SingleOccupancy, StartsApart, [Next]_vars
      PROVE  Listed' /\ SingleOccupancy'
  <2>1. CASE Next
    BY <1>2, <2>1, StepLists DEF Next
  <2>2. CASE UNCHANGED vars
    BY <1>2, <2>2 DEF vars, Listed, SingleOccupancy
  <2> QED
    BY <1>2, <2>1, <2>2
<1>3. SandboxInv /\ Listed /\ SingleOccupancy /\ StartsApart /\ [Next]_vars =>
        Listed' /\ SingleOccupancy'
  BY <1>2
<1> QED
  BY <1>1, <1>3, SandboxSafe, PTL DEF Spec, OneAtATime

=============================================================================
