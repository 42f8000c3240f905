----------------------------- MODULE ToolProofs -----------------------------
(***************************************************************************)
(* Theorems about the tools of an agent, each for any number of users:     *)
(* the browser session, an MCP server, a call of subagents.                *)
(***************************************************************************)
EXTENDS Browser, McpClient, SubagentDispatch, FiniteSetTheorems,
        WellFoundedInduction, TLAPS

-----------------------------------------------------------------------------
(* THE BROWSER: requests that act on or stop the session                   *)

(* The inductive invariant.                                                *)

Away == {"none", "queued", "done"}

(* Processes live under a started record the scope of which is not counted *)
(* as terminated; a terminated or half stopped session is disposed.        *)
OnRecord ==
    /\ NoOrphanBrowser
    /\ processes => record.started
    /\ record.terminated => record.disposed

(* A stop has disposed of the session; it removes the profile, or finds    *)
(* nothing to terminate, only when no process is left.                     *)
StopSafe(t) ==
    /\ task[t].pc \in {"closing", "terminating", "removing"} => record.disposed
    /\ task[t].pc = "removing" => ~processes
    /\ task[t].pc \in {"closing", "terminating"} /\ ~task[t].term => ~processes

(* Everything follows the start, and what was started stays until a stop.  *)
Begun ==
    /\ known => task[Starter].pc # "none"
    /\ \A t \in Tasks : task[t].pc # "none" => task[Starter].pc # "none"
    /\ task[Starter].pc # "none" /\ ~record.disposed => known /\ profile

(* What was read under the current sequence number is what the page is     *)
(* like, and a ready observation shows it, unless a request is between its *)
(* command and the new observation, or was dropped, or the session is      *)
(* disposed, when no action is accepted.  So are observations whoever read *)
(* them, and whoever reads now.                                            *)
Seen(s) ==
    /\ s.seq <= seq
    /\ s.seq = seq /\ ~dropped /\ ~record.disposed
         /\ (\A t \in Tasks : task[t].pc # "observe")
         => s.looked = page /\ (s.ready => s.page = page)

Sights == Seen(Look) /\ \A a \in Actors : task[a].bound => Seen(task[a].sight)

BrowserInv ==
    /\ BrowserTypeOK /\ OneOperationAtATime /\ OnRecord
    /\ \A t \in Tasks : StopSafe(t)
    /\ Begun /\ Sights /\ SeqBindsPage

-----------------------------------------------------------------------------
TaskRecord ==
    [pc    : {"none", "queued", "checking", "open", "command", "observe",
              "stopping", "closing", "terminating", "removing", "done"},
     sent  : BOOLEAN,
     sight : Sight,
     bound : BOOLEAN,
     term  : BOOLEAN]

LEMMA BrowserInitSafe == BrowserInit => BrowserInv
<1> SUFFICES ASSUME BrowserInit PROVE BrowserInv
  OBVIOUS
<1>1. BrowserTypeOK
  BY DEF BrowserInit, BrowserTypeOK, Flags, Sight, Observation, Fresh
<1>2. \A t \in Tasks : task[t].pc = "none" /\ ~task[t].bound
  BY DEF BrowserInit, Fresh
<1>3. Seen(Look)
  BY DEF BrowserInit, Seen, Look
<1>4. /\ ~processes /\ ~known /\ ~record.terminated
  BY DEF BrowserInit
<1>5. OneOperationAtATime /\ OnRecord /\ SeqBindsPage
  BY <1>2, <1>4 DEF OneOperationAtATime, OnRecord, NoOrphanBrowser, SeqBindsPage, Tasks
<1>6. Begun /\ \A t \in Tasks : StopSafe(t)
  BY <1>2, <1>4 DEF Begun, StopSafe, Tasks
<1>7. Sights
  BY <1>2, <1>3 DEF Sights, Tasks
<1> QED
  BY <1>1, <1>5, <1>6, <1>7 DEF BrowserInv

(* What a step of the task that holds the mutex must show.                 *)
LEMMA HolderStep ==
    ASSUME BrowserInv, BrowserTypeOK', NEW t \in Tasks,
           task[t].pc \notin Away,
           \A u \in Tasks \ {t} : task'[u] = task[u],
           task'[t].bound => task[t].bound /\ task'[t].sight = task[t].sight,
           \/ task'[t].pc = "done"
           \/ task'[t].pc \notin Away /\ operation' = t,
           record.disposed => record'.disposed,
           record'.terminated => record'.disposed,
           record'.disposed \/ (known' = known /\ profile' = profile),
           known' => known,
           processes' => record'.started,
           NoOrphanBrowser',
           StopSafe(t)',
           dropped => dropped',
           seq' >= seq,
           \/ dropped' \/ record'.disposed \/ task'[t].pc = "observe" \/ seq' > seq
           \/ page' = page /\ task[t].pc # "observe",
           \/ dropped' \/ record'.disposed \/ task'[t].pc = "observe"
           \/ observed'.ready => observed'.page = page'
           \/ observed' = observed /\ page' = page /\ task[t].pc # "observe",
           task'[t].pc = "command" => page' = page /\ task[t].pc = "command"
    PROVE  BrowserInv'
<1> USE DEF Away
<1>0. /\ BrowserTypeOK /\ OneOperationAtATime /\ OnRecord /\ Begun /\ Sights /\ SeqBindsPage
      /\ \A u \in Tasks : StopSafe(u)
      /\ seq \in Nat /\ seq' \in Nat
      /\ \A u \in Tasks : task[u].sight.seq \in Nat
  BY DEF BrowserInv, BrowserTypeOK, Sight
<1>1. operation = t /\ \A u \in Tasks \ {t} : task[u].pc \in Away /\ task'[u].pc \in Away
  BY <1>0, BrowserAssumption DEF OneOperationAtATime
<1>2. OneOperationAtATime'
  BY <1>1 DEF OneOperationAtATime
<1>3. OnRecord'
  BY DEF OnRecord
<1>4. \A u \in Tasks : StopSafe(u)'
  BY <1>1 DEF StopSafe
<1>5. Begun'
  BY <1>0, <1>1 DEF Begun, Tasks
<1>6. ASSUME NEW s \in Sight, Seen(s) PROVE Seen(s)'
  <2>1. s.seq \in Nat /\ s.seq <= seq'
    BY <1>0, <1>6 DEF Seen, Sight
  <2>2. ASSUME s.seq = seq', ~dropped', ~record'.disposed, \A u \in Tasks : task'[u].pc # "observe"
        PROVE  s.looked = page' /\ (s.ready => s.page = page')
    <3>1. s.seq = seq /\ seq' = seq
      BY <1>0, <1>6, <2>1, <2>2 DEF Seen
    <3>2. page' = page /\ \A u \in Tasks : task[u].pc # "observe"
      BY <1>0, <1>1, <2>2, <3>1
    <3> QED
      BY <1>6, <2>2, <3>1, <3>2 DEF Seen
  <2> QED
    BY <2>1, <2>2 DEF Seen
<1>7. Seen(Look)'
  <2>1. ASSUME ~dropped', ~record'.disposed, \A u \in Tasks : task'[u].pc # "observe",
               observed'.ready
        PROVE  observed'.page = page'
    <3>1. CASE observed' = observed /\ page' = page /\ task[t].pc # "observe"
      <4>1. \A u \in Tasks : task[u].pc # "observe"
        BY <1>1, <3>1
      <4>2. ~dropped /\ ~record.disposed
        BY <2>1
      <4> QED
        BY <1>0, <2>1, <3>1, <4>1, <4>2 DEF Sights, Seen, Look
    <3> QED
      BY <2>1, <3>1
  <2> QED
    BY <1>0, <2>1 DEF Seen, Look
<1>8. ASSUME NEW a \in Actors, task'[a].bound PROVE Seen(task[a].sight)' /\ task'[a].sight = task[a].sight
  <2>1. a \in Tasks /\ task[a].bound /\ task[a].sight \in Sight /\ task'[a].sight = task[a].sight
    BY <1>0, <1>8 DEF Tasks, BrowserTypeOK
  <2>2. Seen(task[a].sight)
    BY <1>0, <1>8, <2>1 DEF Sights
  <2>3. PICK s \in Sight : s = task[a].sight
    BY <2>1
  <2>4. Seen(s)'
    BY <1>6, <2>2, <2>3
  <2> QED
    BY <2>1, <2>3, <2>4 DEF Seen
<1>9. Sights'
  <2>1. ASSUME NEW a \in Actors, task'[a].bound PROVE Seen(task[a].sight)' /\ task'[a].sight = task[a].sight
    BY <1>8, <2>1
  <2>2. \A a \in Actors : task'[a].bound => Seen(task[a].sight)'
    BY <2>1 DEF Seen
  <2> QED
    BY <1>7, <2>2 DEF Sights
<1>10. SeqBindsPage'
  <2> SUFFICES ASSUME ~dropped', NEW a \in Actors, task'[a].pc = "command", task'[a].bound
               PROVE  /\ task'[a].sight.looked = page'
                      /\ task'[a].sight.ready => task'[a].sight.page = page'
    BY DEF SeqBindsPage
  <2>1. a = t
    BY <1>1 DEF Tasks
  <2> QED
    BY <1>0, <2>1 DEF SeqBindsPage
<1> QED
  BY <1>2, <1>3, <1>4, <1>5, <1>9, <1>10 DEF BrowserInv

(* The effects of GoOn, Done and Failed on the task.                       *)
LEMMA GoOnEffect ==
    ASSUME BrowserTypeOK, NEW t \in Tasks,
           NEW pc \in {"none", "queued", "checking", "open", "command", "observe",
                       "stopping", "closing", "terminating", "removing", "done"},
           GoOn(t, pc)
    PROVE  /\ task' \in [Tasks -> TaskRecord]
           /\ task'[t].pc = pc /\ task'[t].bound = task[t].bound
           /\ task'[t].sight = task[t].sight /\ task'[t].term = task[t].term
           /\ \A u \in Tasks \ {t} : task'[u] = task[u]
<1>1. task \in [Tasks -> TaskRecord]
  BY DEF BrowserTypeOK, TaskRecord
<1> DEFINE e == [task[t] EXCEPT !.pc = pc, !.sent = FALSE]
<1>2. task' = [task EXCEPT ![t] = e]
  BY DEF GoOn
<1>3. e \in TaskRecord
  BY <1>1 DEF TaskRecord
<1>4. e.pc = pc /\ e.bound = task[t].bound /\ e.sight = task[t].sight /\ e.term = task[t].term
  BY <1>1 DEF TaskRecord
<1> HIDE DEF e
<1> QED
  BY <1>1, <1>2, <1>3, <1>4

LEMMA DoneEffect ==
    ASSUME BrowserTypeOK, NEW t \in Tasks, Done(t)
    PROVE  /\ task' \in [Tasks -> TaskRecord]
           /\ task'[t].pc = "done" /\ ~task'[t].bound
           /\ \A u \in Tasks \ {t} : task'[u] = task[u]
           /\ operation' = IF operation = t THEN NoTask ELSE operation
<1>1. task \in [Tasks -> TaskRecord]
  BY DEF BrowserTypeOK, TaskRecord
<1> DEFINE e == [Fresh EXCEPT !.pc = "done"]
<1>2. task' = [task EXCEPT ![t] = e] /\ operation' = IF operation = t THEN NoTask ELSE operation
  BY DEF Done
<1>3. e \in TaskRecord /\ e.pc = "done" /\ ~e.bound
  BY DEF TaskRecord, Fresh, Sight
<1> HIDE DEF e
<1> QED
  BY <1>1, <1>2, <1>3

(* An observation that no longer counts as ready.                          *)
LEMMA SpoiltEffect ==
    ASSUME BrowserTypeOK
    PROVE  Spoilt \in Observation /\ ~Spoilt.ready
  BY DEF BrowserTypeOK, Observation, Spoilt

LEMMA FailedEffect ==
    ASSUME BrowserInv, NEW t \in Tasks, task[t].pc \in CommandPcs,
           NEW flags \in Flags, NEW s \in Nat, Failed(t, flags, s)
    PROVE  /\ task' \in [Tasks -> TaskRecord]
           /\ task'[t].bound => task[t].bound /\ task'[t].sight = task[t].sight
           /\ \A u \in Tasks \ {t} : task'[u] = task[u]
           /\ \/ task'[t].pc = "done" /\ operation' = NoTask
              \/ task'[t].pc = "stopping" /\ operation' = operation
           /\ operation = t
           /\ record' = flags
           /\ seq' \in Nat /\ seq' >= s /\ (~flags.disposed => seq' > s)
           /\ observed' \in Observation /\ (flags.disposed \/ ~observed'.ready)
<1>1. operation = t /\ BrowserTypeOK
  BY DEF BrowserInv, OneOperationAtATime, CommandPcs
<1>2. /\ record' = flags
      /\ seq' = IF flags.disposed THEN s ELSE s + 1
  BY DEF Failed
<1>5. observed' \in Observation /\ (flags.disposed \/ ~observed'.ready)
  BY <1>1, SpoiltEffect DEF Failed, BrowserTypeOK
<1>3. CASE t = Starter
  BY <1>1, <1>2, <1>3, <1>5, GoOnEffect DEF Failed
<1>4. CASE t # Starter
  BY <1>1, <1>2, <1>4, <1>5, DoneEffect DEF Failed
<1> QED
  BY <1>3, <1>4

LEMMA RunStartSafe ==
    ASSUME BrowserInv, NEW t \in Tasks, RunStart(t)
    PROVE  BrowserInv'
<1> USE DEF theScope, thePage
<1>0. /\ BrowserTypeOK /\ OnRecord /\ Begun /\ NoOrphanBrowser /\ OneOperationAtATime
      /\ task[t].pc \in CommandPcs /\ task[t].pc \notin Away /\ operation = t
      /\ record \in Flags /\ seq \in Nat /\ task \in [Tasks -> TaskRecord]
      /\ UNCHANGED <<known, profile, page, dropped>>
  BY DEF BrowserInv, RunStart, OnRecord, CommandPcs, Away, OneOperationAtATime, BrowserTypeOK,
         TaskRecord
<1>1. CASE Failed(t, record, seq) /\ UNCHANGED <<scope, processes>>
  <2>1. /\ task' \in [Tasks -> TaskRecord]
        /\ task'[t].bound => task[t].bound /\ task'[t].sight = task[t].sight
        /\ \A u \in Tasks \ {t} : task'[u] = task[u]
        /\ \/ task'[t].pc = "done" /\ operation' = NoTask
           \/ task'[t].pc = "stopping" /\ operation' = t
        /\ record' = record
        /\ seq' \in Nat /\ seq' >= seq /\ (~record.disposed => seq' > seq)
        /\ observed' \in Observation /\ (record'.disposed \/ ~observed'.ready)
    BY <1>0, <1>1, FailedEffect
  <2>2. BrowserTypeOK'
    BY <1>0, <1>1, <2>1 DEF BrowserTypeOK, TaskRecord
  <2>3. NoOrphanBrowser' /\ StopSafe(t)'
    BY <1>0, <1>1, <2>1 DEF NoOrphanBrowser, StopSafe
  <2> QED
    BY <1>0, <1>1, <2>1, <2>2, <2>3, HolderStep DEF OnRecord, Away
<1>2. CASE ~(Failed(t, record, seq) /\ UNCHANGED <<scope, processes>>)
  <2> DEFINE e == [task[t] EXCEPT !.sent = TRUE]
  <2>1. /\ ~record.disposed
        /\ task' = [task EXCEPT ![t] = e]
        /\ IF scope = "none" THEN scope' = "starting" /\ processes' = TRUE
           ELSE scope' = scope /\ processes' = processes
        /\ record' = [record EXCEPT !.started = TRUE]
        /\ UNCHANGED <<operation, seq, observed>>
    BY <1>2 DEF RunStart
  <2>2. /\ e \in TaskRecord /\ e.pc = task[t].pc /\ e.bound = task[t].bound
        /\ e.sight = task[t].sight
    BY <1>0 DEF TaskRecord
  <2> HIDE DEF e
  <2>3. /\ task' \in [Tasks -> TaskRecord] /\ task'[t] = e
        /\ \A u \in Tasks \ {t} : task'[u] = task[u]
    BY <1>0, <2>1, <2>2
  <2>4. /\ record' \in Flags /\ record'.disposed = record.disposed /\ record'.started
        /\ record'.terminated = record.terminated
    BY <1>0, <2>1 DEF Flags
  <2>5. BrowserTypeOK'
    BY <1>0, <2>1, <2>3, <2>4 DEF BrowserTypeOK, TaskRecord
  <2>6. known /\ profile /\ ~record.terminated
    BY <1>0, <2>1 DEF Begun, OnRecord, Away
  <2>7. NoOrphanBrowser'
    BY <1>0, <2>1, <2>4, <2>6 DEF NoOrphanBrowser
  <2>8. StopSafe(t)'
    BY <1>0, <2>2, <2>3 DEF StopSafe, CommandPcs
  <2>9. page' = page /\ (task'[t].pc = "observe" \/ task[t].pc # "observe")
    BY <1>0, <2>2, <2>3
  <2>10. record'.terminated => record'.disposed
    BY <1>0, <2>4 DEF OnRecord
  <2>11. seq' >= seq /\ task'[t].pc \notin Away /\ operation' = t
    BY <1>0, <2>1, <2>2, <2>3
  <2> QED
    BY <1>0, <2>1, <2>2, <2>3, <2>4, <2>5, <2>7, <2>8, <2>9, <2>10, <2>11, HolderStep
<1> QED
  BY <1>1, <1>2

LEMMA RunReadySafe ==
    ASSUME BrowserInv, NEW t \in Tasks, RunReady(t)
    PROVE  BrowserInv'
<1> USE DEF thePage
<1>0. /\ BrowserTypeOK /\ OnRecord /\ NoOrphanBrowser /\ OneOperationAtATime
      /\ task[t].pc \in CommandPcs /\ task[t].pc \notin Away /\ operation = t
      /\ StopSafe(t)
      /\ record \in Flags /\ seq \in Nat /\ task \in [Tasks -> TaskRecord]
      /\ UNCHANGED <<known, processes, profile, page, dropped>>
  BY DEF BrowserInv, RunReady, Past, OnRecord, CommandPcs, Away, OneOperationAtATime, BrowserTypeOK,
         TaskRecord
<1>1. CASE scope' = "ready" /\ UNCHANGED <<record, operation, seq, observed, task>>
  <2>1. BrowserTypeOK'
    BY <1>0, <1>1 DEF BrowserTypeOK
  <2>2. NoOrphanBrowser' /\ StopSafe(t)'
    BY <1>0, <1>1 DEF NoOrphanBrowser, StopSafe
  <2> QED
    BY <1>0, <1>1, <2>1, <2>2, HolderStep DEF OnRecord
<1>2. CASE Failed(t, [record EXCEPT !.poisoned = TRUE], seq) /\ UNCHANGED scope
  <2> DEFINE flags == [record EXCEPT !.poisoned = TRUE]
  <2>0. /\ flags \in Flags /\ flags.disposed = record.disposed
        /\ flags.terminated = record.terminated /\ flags.started = record.started
    BY <1>0 DEF Flags
  <2> HIDE DEF flags
  <2>1. /\ task' \in [Tasks -> TaskRecord]
        /\ task'[t].bound => task[t].bound /\ task'[t].sight = task[t].sight
        /\ \A u \in Tasks \ {t} : task'[u] = task[u]
        /\ \/ task'[t].pc = "done" /\ operation' = NoTask
           \/ task'[t].pc = "stopping" /\ operation' = t
        /\ record' = flags
        /\ seq' \in Nat /\ seq' >= seq /\ (~flags.disposed => seq' > seq)
        /\ observed' \in Observation /\ (record'.disposed \/ ~observed'.ready)
    BY <1>0, <1>2, <2>0, FailedEffect DEF flags
  <2>2. BrowserTypeOK'
    BY <1>0, <1>2, <2>0, <2>1 DEF BrowserTypeOK, TaskRecord
  <2>3. NoOrphanBrowser' /\ StopSafe(t)'
    BY <1>0, <1>2, <2>0, <2>1 DEF NoOrphanBrowser, StopSafe
  <2> QED
    BY <1>0, <1>2, <2>0, <2>1, <2>2, <2>3, HolderStep DEF OnRecord, Away
<1> QED
  BY <1>1, <1>2 DEF RunReady

LEMMA RunOkSafe ==
    ASSUME BrowserInv, NEW t \in Tasks, RunOk(t)
    PROVE  BrowserInv'
<1> USE DEF theScope
<1>0. /\ BrowserTypeOK /\ OnRecord /\ NoOrphanBrowser /\ OneOperationAtATime
      /\ task[t].pc \in CommandPcs /\ task[t].pc \notin Away /\ operation = t
      /\ StopSafe(t)
      /\ seq \in Nat /\ page \in Nat
      /\ UNCHANGED <<record, known, scope, processes, profile, dropped>>
  BY DEF BrowserInv, RunOk, Sent, Past, OnRecord, CommandPcs, Away, OneOperationAtATime, BrowserTypeOK
<1>1. CASE Changes(t)
  <2>1. page' = page + 1 /\ GoOn(t, "observe") /\ UNCHANGED <<operation, seq, observed>>
    BY <1>1 DEF RunOk
  <2>2. /\ task' \in [Tasks -> TaskRecord]
        /\ task'[t].pc = "observe" /\ task'[t].bound = task[t].bound
        /\ task'[t].sight = task[t].sight
        /\ \A u \in Tasks \ {t} : task'[u] = task[u]
    BY <1>0, <2>1, GoOnEffect
  <2>3. BrowserTypeOK'
    BY <1>0, <2>1, <2>2 DEF BrowserTypeOK, TaskRecord
  <2>4. NoOrphanBrowser' /\ StopSafe(t)'
    BY <1>0, <2>2 DEF NoOrphanBrowser, StopSafe
  <2> QED
    BY <1>0, <2>1, <2>2, <2>3, <2>4, HolderStep DEF OnRecord, Away
<1>2. CASE ~Changes(t)
  <2>1. /\ seq' = seq + 1 /\ observed' = [page |-> page, ready |-> TRUE]
        /\ Done(t) /\ UNCHANGED page
    BY <1>2 DEF RunOk
  <2>2. /\ task' \in [Tasks -> TaskRecord]
        /\ task'[t].pc = "done" /\ ~task'[t].bound
        /\ \A u \in Tasks \ {t} : task'[u] = task[u]
        /\ operation' = NoTask
    BY <1>0, <2>1, DoneEffect
  <2>3. BrowserTypeOK'
    BY <1>0, <2>1, <2>2 DEF BrowserTypeOK, TaskRecord, Observation
  <2>4. NoOrphanBrowser' /\ StopSafe(t)'
    BY <1>0, <2>2 DEF NoOrphanBrowser, StopSafe
  <2>5. observed'.page = page' /\ seq' > seq
    BY <1>0, <2>1
  <2> QED
    BY <1>0, <2>1, <2>2, <2>3, <2>4, <2>5, HolderStep DEF OnRecord, Away
<1> QED
  BY <1>1, <1>2

LEMMA RunErrorSafe ==
    ASSUME BrowserInv, NEW t \in Tasks, RunError(t)
    PROVE  BrowserInv'
<1> USE DEF theScope
<1>0. /\ BrowserTypeOK /\ OnRecord /\ NoOrphanBrowser /\ OneOperationAtATime
      /\ task[t].pc \in CommandPcs /\ task[t].pc \notin Away /\ operation = t
      /\ record \in Flags /\ seq \in Nat /\ page \in Nat
      /\ UNCHANGED <<known, scope, processes, profile, dropped>>
      /\ Failed(t, record, seq) /\ page' \in Nat
  BY DEF BrowserInv, RunError, Sent, Past, OnRecord, CommandPcs, Away, OneOperationAtATime,
         BrowserTypeOK
<1>1. /\ task' \in [Tasks -> TaskRecord]
      /\ task'[t].bound => task[t].bound /\ task'[t].sight = task[t].sight
      /\ \A u \in Tasks \ {t} : task'[u] = task[u]
      /\ \/ task'[t].pc = "done" /\ operation' = NoTask
         \/ task'[t].pc = "stopping" /\ operation' = t
      /\ record' = record
      /\ seq' \in Nat /\ seq' >= seq /\ (~record.disposed => seq' > seq)
      /\ observed' \in Observation /\ (record'.disposed \/ ~observed'.ready)
  BY <1>0, FailedEffect
<1>2. BrowserTypeOK'
  BY <1>0, <1>1 DEF BrowserTypeOK, TaskRecord
<1>3. NoOrphanBrowser' /\ StopSafe(t)'
  BY <1>0, <1>1 DEF NoOrphanBrowser, StopSafe
<1> QED
  BY <1>0, <1>1, <1>2, <1>3, HolderStep DEF OnRecord, Away

(* A scope that is cut has no processes, or is the one it was.             *)
LEMMA CutEffect ==
    ASSUME BrowserTypeOK, NEW flags \in Flags, ScopeCut(flags)
    PROVE  /\ flags.disposed /\ flags.started = record.started
           /\ scope' \in {"none", scope}
           /\ processes' => processes /\ scope' = scope /\ flags.terminated = record.terminated
           /\ processes' \in BOOLEAN
<1>0. record \in Flags /\ processes \in BOOLEAN
  BY DEF BrowserTypeOK
<1>1. CASE /\ scope' = "none" /\ processes' = FALSE
           /\ flags = [record EXCEPT !.disposed = TRUE, !.poisoned = TRUE, !.terminated = TRUE]
  <2>1. flags.disposed /\ flags.started = record.started
    BY <1>0, <1>1 DEF Flags
  <2> QED
    BY <1>1, <2>1
<1>2. CASE /\ processes' \in {processes, FALSE} /\ UNCHANGED scope
           /\ flags = [record EXCEPT !.disposed = TRUE, !.poisoned = TRUE]
  <2>1. /\ flags.disposed /\ flags.started = record.started
        /\ flags.terminated = record.terminated
    BY <1>0, <1>2 DEF Flags
  <2>2. processes' = processes \/ processes' = FALSE
    BY <1>2
  <2>3. processes' \in BOOLEAN /\ (processes' => processes)
    <3>1. CASE processes' = processes
      BY <1>0, <3>1
    <3>2. CASE processes' = FALSE
      BY <3>2
    <3> QED
      BY <2>2, <3>1, <3>2
  <2> QED
    BY <1>2, <2>1, <2>3
<1> QED
  BY <1>1, <1>2 DEF ScopeCut

LEMMA RunTimeoutSafe ==
    ASSUME BrowserInv, NEW t \in Tasks, RunTimeout(t)
    PROVE  BrowserInv'
<1>0. /\ BrowserTypeOK /\ OnRecord /\ NoOrphanBrowser /\ OneOperationAtATime
      /\ task[t].pc \in CommandPcs /\ task[t].pc \notin Away /\ operation = t
      /\ record \in Flags /\ seq \in Nat /\ page \in Nat
      /\ UNCHANGED <<known, profile, dropped>>
      /\ page' \in Nat
  BY DEF BrowserInv, RunTimeout, Sent, Past, OnRecord, CommandPcs, Away, OneOperationAtATime,
         BrowserTypeOK
<1>1. PICK flags \in Flags : ScopeCut(flags) /\ Failed(t, flags, seq + 1)
  BY DEF RunTimeout
<1>2. /\ flags.disposed /\ flags.started = record.started
      /\ scope' \in {"none", scope}
      /\ processes' => processes /\ scope' = scope /\ flags.terminated = record.terminated
      /\ processes' \in BOOLEAN
  BY <1>0, <1>1, CutEffect
<1>3. /\ task' \in [Tasks -> TaskRecord]
      /\ task'[t].bound => task[t].bound /\ task'[t].sight = task[t].sight
      /\ \A u \in Tasks \ {t} : task'[u] = task[u]
      /\ \/ task'[t].pc = "done" /\ operation' = NoTask
         \/ task'[t].pc = "stopping" /\ operation' = t
      /\ record' = flags
      /\ seq' \in Nat /\ seq' >= seq + 1
      /\ observed' \in Observation /\ (record'.disposed \/ ~observed'.ready)
  BY <1>0, <1>1, FailedEffect
<1>4. BrowserTypeOK'
  BY <1>0, <1>2, <1>3 DEF BrowserTypeOK, TaskRecord
<1>5. NoOrphanBrowser' /\ StopSafe(t)'
  BY <1>0, <1>2, <1>3 DEF NoOrphanBrowser, StopSafe
<1> QED
  BY <1>0, <1>2, <1>3, <1>4, <1>5, HolderStep DEF OnRecord, Away
LEMMA StopSnapshotSafe ==
    ASSUME BrowserInv, NEW t \in Tasks, StopSnapshot(t)
    PROVE  BrowserInv'
<1> USE DEF theScope, thePage
<1>0. /\ BrowserTypeOK /\ OnRecord /\ NoOrphanBrowser /\ OneOperationAtATime
      /\ task[t].pc = "stopping" /\ task[t].pc \notin Away /\ operation = t
      /\ record \in Flags /\ seq \in Nat /\ task \in [Tasks -> TaskRecord]
      /\ UNCHANGED <<known, scope, processes, profile, seq, page, observed, dropped>>
  BY DEF BrowserInv, StopSnapshot, OnRecord, Away, OneOperationAtATime, BrowserTypeOK, TaskRecord
<1>1. CASE ~known
  <2>1. Done(t) /\ UNCHANGED record
    BY <1>1 DEF StopSnapshot
  <2>2. /\ task' \in [Tasks -> TaskRecord]
        /\ task'[t].pc = "done" /\ ~task'[t].bound
        /\ \A u \in Tasks \ {t} : task'[u] = task[u]
        /\ operation' = NoTask
    BY <1>0, <2>1, DoneEffect
  <2>3. BrowserTypeOK'
    BY <1>0, <2>1, <2>2 DEF BrowserTypeOK, TaskRecord
  <2>4. NoOrphanBrowser' /\ StopSafe(t)'
    BY <1>0, <2>1, <2>2 DEF NoOrphanBrowser, StopSafe
  <2> QED
    BY <1>0, <2>1, <2>2, <2>3, <2>4, HolderStep DEF OnRecord, Away
<1>2. CASE known
  <2> DEFINE term == record.started /\ ~record.terminated
             pc   == IF term /\ ~record.poisoned THEN "closing" ELSE "terminating"
             e    == [task[t] EXCEPT !.term = term, !.pc = pc]
  <2>1. /\ record' = [record EXCEPT !.disposed = TRUE]
        /\ task' = [task EXCEPT ![t] = e]
        /\ UNCHANGED operation
    BY <1>2 DEF StopSnapshot
  <2>2. /\ e \in TaskRecord /\ e.pc \in {"closing", "terminating"} /\ e.bound = task[t].bound
        /\ e.sight = task[t].sight /\ (e.term <=> term)
    <3>1. term \in BOOLEAN /\ pc \in {"closing", "terminating"}
      BY <1>0 DEF Flags
    <3> HIDE DEF term, pc
    <3> QED
      BY <1>0, <3>1 DEF TaskRecord
  <2> HIDE DEF e
  <2>3. /\ task' \in [Tasks -> TaskRecord] /\ task'[t] = e
        /\ \A u \in Tasks \ {t} : task'[u] = task[u]
    BY <1>0, <2>1, <2>2
  <2>4. /\ record' \in Flags /\ record'.disposed /\ record'.started = record.started
        /\ record'.terminated = record.terminated
    BY <1>0, <2>1 DEF Flags
  <2>5. BrowserTypeOK'
    BY <1>0, <2>1, <2>3, <2>4 DEF BrowserTypeOK, TaskRecord
  <2>6. NoOrphanBrowser'
    BY <1>0, <2>4 DEF NoOrphanBrowser
  <2>7. StopSafe(t)'
    <3>1. ~term => ~processes
      BY <1>0 DEF OnRecord, NoOrphanBrowser
    <3> QED
      BY <1>0, <2>2, <2>3, <2>4, <3>1 DEF StopSafe
  <2>8. (processes' => record'.started) /\ task'[t].pc \notin Away /\ operation' = t
    BY <1>0, <2>1, <2>2, <2>3, <2>4 DEF OnRecord, Away
  <2> QED
    BY <1>0, <2>2, <2>3, <2>4, <2>5, <2>6, <2>7, <2>8, HolderStep DEF Away
<1> QED
  BY <1>1, <1>2

LEMMA StopCloseSafe ==
    ASSUME BrowserInv, NEW t \in Tasks, StopClose(t)
    PROVE  BrowserInv'
<1> USE DEF theScope, thePage
<1>0. /\ BrowserTypeOK /\ OnRecord /\ NoOrphanBrowser /\ OneOperationAtATime
      /\ task[t].pc = "closing" /\ task[t].pc \notin Away /\ operation = t
      /\ record \in Flags /\ seq \in Nat
      /\ StopSafe(t) /\ record.disposed
      /\ UNCHANGED <<known, profile, operation, page, dropped>>
      /\ GoOn(t, "terminating")
  BY DEF BrowserInv, StopClose, OnRecord, Away, OneOperationAtATime, BrowserTypeOK, StopSafe
<1>1. /\ task' \in [Tasks -> TaskRecord]
      /\ task'[t].pc = "terminating" /\ task'[t].bound = task[t].bound
      /\ task'[t].sight = task[t].sight /\ task'[t].term = task[t].term
      /\ \A u \in Tasks \ {t} : task'[u] = task[u]
  BY <1>0, GoOnEffect
<1>2. /\ record' \in Flags /\ record'.disposed /\ record'.started = record.started
      /\ scope' \in {"none", "starting", "ready"}
      /\ processes' => processes /\ scope' # "none" /\ record'.terminated = record.terminated
      /\ processes' \in BOOLEAN
      /\ seq' \in Nat /\ seq' >= seq
      /\ observed' \in Observation
  <2>1. CASE UNCHANGED <<record, scope, processes, seq, observed>>
    BY <1>0, <2>1 DEF BrowserTypeOK, NoOrphanBrowser
  <2>2. CASE /\ scope = "starting" /\ UNCHANGED <<processes, seq, observed>>
             /\ \/ processes /\ scope' = "ready" /\ UNCHANGED record
                \/ record' = [record EXCEPT !.poisoned = TRUE] /\ UNCHANGED scope
    <3>1. /\ record' \in Flags /\ record'.disposed /\ record'.started = record.started
          /\ record'.terminated = record.terminated
      BY <1>0, <2>2 DEF Flags
    <3> QED
      BY <1>0, <2>2, <3>1 DEF BrowserTypeOK
  <2>3. CASE /\ scope = "ready" /\ seq' = seq + 1 /\ observed' = Spoilt
             /\ \E flags \in Flags : ScopeCut(flags) /\ record' = flags
    <3>1. PICK flags \in Flags : ScopeCut(flags) /\ record' = flags
      BY <2>3
    <3> QED
      BY <1>0, <2>3, <3>1, CutEffect, SpoiltEffect
  <2> QED
    BY <2>1, <2>2, <2>3 DEF StopClose
<1>3. BrowserTypeOK'
  BY <1>0, <1>1, <1>2 DEF BrowserTypeOK, TaskRecord
<1>4. NoOrphanBrowser' /\ StopSafe(t)' /\ (processes' => record'.started)
  BY <1>0, <1>1, <1>2 DEF NoOrphanBrowser, StopSafe, OnRecord
<1> QED
  BY <1>0, <1>1, <1>2, <1>3, <1>4, HolderStep DEF Away

LEMMA StopTerminateSafe ==
    ASSUME BrowserInv, NEW t \in Tasks, StopTerminate(t)
    PROVE  BrowserInv'
<1> USE DEF theScope, thePage
<1>0. /\ BrowserTypeOK /\ OnRecord /\ NoOrphanBrowser /\ OneOperationAtATime
      /\ task[t].pc = "terminating" /\ task[t].pc \notin Away /\ operation = t
      /\ record \in Flags /\ seq \in Nat
      /\ StopSafe(t) /\ record.disposed
      /\ UNCHANGED <<known, profile, page, dropped>>
  BY DEF BrowserInv, StopTerminate, OnRecord, Away, OneOperationAtATime, BrowserTypeOK, StopSafe
<1>1. CASE /\ task[t].term => scope # "none"
           /\ IF task[t].term THEN scope' = "none" /\ processes' = FALSE ELSE UNCHANGED theScope
           /\ record' = [record EXCEPT !.terminated = TRUE]
           /\ GoOn(t, "removing")
           /\ UNCHANGED <<operation, seq, observed>>
  <2>1. /\ task' \in [Tasks -> TaskRecord]
        /\ task'[t].pc = "removing" /\ task'[t].bound = task[t].bound
        /\ task'[t].sight = task[t].sight
        /\ \A u \in Tasks \ {t} : task'[u] = task[u]
    BY <1>0, <1>1, GoOnEffect
  <2>2. record' \in Flags /\ record'.disposed
    BY <1>0, <1>1 DEF Flags
  <2>3. ~processes' /\ processes' \in BOOLEAN /\ scope' \in {"none", "starting", "ready"}
    BY <1>0, <1>1 DEF StopSafe, BrowserTypeOK
  <2>4. BrowserTypeOK'
    BY <1>0, <1>1, <2>1, <2>2, <2>3 DEF BrowserTypeOK, TaskRecord
  <2>5. NoOrphanBrowser' /\ StopSafe(t)'
    BY <2>1, <2>2, <2>3 DEF NoOrphanBrowser, StopSafe
  <2> QED
    BY <1>0, <1>1, <2>1, <2>2, <2>3, <2>4, <2>5, HolderStep DEF Away
<1>2. CASE /\ processes' \in IF scope # "none" THEN {processes, FALSE} ELSE {processes}
           /\ CleanupError(t)
           /\ UNCHANGED <<record, scope>>
  <2>1. /\ task' \in [Tasks -> TaskRecord]
        /\ task'[t].pc = "done" /\ ~task'[t].bound
        /\ \A u \in Tasks \ {t} : task'[u] = task[u]
        /\ operation' = NoTask /\ seq' = seq + 1 /\ observed' \in Observation
    BY <1>0, <1>2, DoneEffect, SpoiltEffect DEF CleanupError
  <2>2. processes' \in BOOLEAN /\ (processes' => processes)
    BY <1>0, <1>2 DEF BrowserTypeOK
  <2>3. BrowserTypeOK'
    BY <1>0, <1>2, <2>1, <2>2 DEF BrowserTypeOK, TaskRecord
  <2>4. NoOrphanBrowser' /\ StopSafe(t)'
    BY <1>0, <1>2, <2>1, <2>2 DEF NoOrphanBrowser, StopSafe
  <2> QED
    BY <1>0, <1>2, <2>1, <2>2, <2>3, <2>4, HolderStep DEF OnRecord, Away
<1> QED
  BY <1>1, <1>2 DEF StopTerminate

LEMMA StopRemoveSafe ==
    ASSUME BrowserInv, NEW t \in Tasks, StopRemove(t)
    PROVE  BrowserInv'
<1> USE DEF theScope, thePage
<1>0. /\ BrowserTypeOK /\ OnRecord /\ NoOrphanBrowser /\ OneOperationAtATime
      /\ task[t].pc = "removing" /\ task[t].pc \notin Away /\ operation = t
      /\ record \in Flags /\ seq \in Nat
      /\ ~processes /\ record.disposed
      /\ UNCHANGED <<record, scope, processes, page, dropped>>
      /\ Done(t) /\ seq' = seq + 1 /\ observed' = Spoilt
  BY DEF BrowserInv, StopRemove, CleanupError, OnRecord, Away, OneOperationAtATime, BrowserTypeOK,
         StopSafe
<1>1. /\ known' \in BOOLEAN /\ profile' \in BOOLEAN /\ (known' => known)
  <2>1. CASE profile' = FALSE /\ known' = FALSE
    BY <2>1
  <2>2. CASE UNCHANGED <<profile, known>>
    BY <1>0, <2>2 DEF BrowserTypeOK
  <2> QED
    BY <2>1, <2>2 DEF StopRemove
<1>2. /\ task' \in [Tasks -> TaskRecord]
      /\ task'[t].pc = "done" /\ ~task'[t].bound
      /\ \A u \in Tasks \ {t} : task'[u] = task[u]
      /\ operation' = NoTask /\ observed' \in Observation
  BY <1>0, DoneEffect, SpoiltEffect
<1>3. BrowserTypeOK'
  BY <1>0, <1>1, <1>2 DEF BrowserTypeOK, TaskRecord
<1>4. NoOrphanBrowser' /\ StopSafe(t)'
  BY <1>0, <1>2 DEF NoOrphanBrowser, StopSafe
<1> QED
  BY <1>0, <1>1, <1>2, <1>3, <1>4, HolderStep DEF Away

LEMMA CheckActSafe ==
    ASSUME BrowserInv, NEW a \in Actors, CheckAct(a)
    PROVE  BrowserInv'
<1> USE DEF theScope, thePage
<1>0. /\ BrowserTypeOK /\ OnRecord /\ NoOrphanBrowser /\ OneOperationAtATime /\ Sights
      /\ SeqBindsPage /\ Begun /\ \A t \in Tasks : StopSafe(t)
      /\ a \in Tasks /\ task[a].pc = "checking" /\ task[a].pc \notin Away /\ operation = a
      /\ UNCHANGED <<record, known, scope, processes, profile, seq, page, dropped>>
  BY DEF BrowserInv, CheckAct, OnRecord, Away, OneOperationAtATime, Tasks
<1>1. CASE ~known \/ record.disposed \/ (task[a].bound /\ task[a].sight.seq # seq)
  <2>1. Done(a) /\ UNCHANGED observed
    BY <1>1 DEF CheckAct
  <2>2. /\ task' \in [Tasks -> TaskRecord]
        /\ task'[a].pc = "done" /\ ~task'[a].bound
        /\ \A u \in Tasks \ {a} : task'[u] = task[u]
        /\ operation' = NoTask
    BY <1>0, <2>1, DoneEffect
  <2>3. BrowserTypeOK'
    BY <1>0, <2>1, <2>2 DEF BrowserTypeOK, TaskRecord
  <2>4. NoOrphanBrowser' /\ StopSafe(a)'
    BY <1>0, <2>2 DEF NoOrphanBrowser, StopSafe
  <2>5. seq' >= seq
    BY <1>0 DEF BrowserTypeOK
  <2> QED
    BY <1>0, <2>1, <2>2, <2>3, <2>4, <2>5, HolderStep DEF OnRecord, Away
<1>2. CASE ~(~known \/ record.disposed \/ (task[a].bound /\ task[a].sight.seq # seq))
  <2>1. /\ GoOn(a, "command") /\ UNCHANGED operation
        /\ observed' \in Observation /\ ~observed'.ready
    BY <1>0, <1>2, SpoiltEffect DEF CheckAct
  <2>2. /\ task' \in [Tasks -> TaskRecord]
        /\ task'[a].pc = "command" /\ task'[a].bound = task[a].bound
        /\ task'[a].sight = task[a].sight
        /\ \A u \in Tasks \ {a} : task'[u] = task[u]
    BY <1>0, <2>1, GoOnEffect
  <2>3. BrowserTypeOK'
    BY <1>0, <2>1, <2>2 DEF BrowserTypeOK, TaskRecord
  <2>4. OneOperationAtATime' /\ Begun' /\ OnRecord' /\ \A t \in Tasks : StopSafe(t)'
    <3>1. OneOperationAtATime'
      BY <1>0, <2>1, <2>2 DEF OneOperationAtATime
    <3>2. Begun'
      <4>1. \A u \in Tasks : task'[u].pc # "none" <=> task[u].pc # "none"
        BY <1>0, <2>2
      <4>2. Starter \in Tasks
        BY DEF Tasks
      <4> QED
        BY <1>0, <4>1, <4>2 DEF Begun
    <3>3. OnRecord'
      BY <1>0 DEF OnRecord, NoOrphanBrowser
    <3>4. ASSUME NEW t \in Tasks PROVE StopSafe(t)'
      <4>1. CASE t = a
        BY <2>2, <4>1 DEF StopSafe
      <4>2. CASE t # a
        BY <1>0, <2>2, <4>2 DEF StopSafe
      <4> QED
        BY <4>1, <4>2
    <3> QED
      BY <3>1, <3>2, <3>3, <3>4
  <2>5. \A t \in Tasks : task[t].pc # "observe"
    BY <1>0 DEF OneOperationAtATime
  <2>6. ~dropped /\ task[a].bound
           => task[a].sight.looked = page /\ (task[a].sight.ready => task[a].sight.page = page)
    BY <1>0, <1>2, <2>5 DEF Sights, Seen
  <2>7. SeqBindsPage'
    BY <1>0, <2>2, <2>6 DEF SeqBindsPage, Tasks
  <2>8. Sights'
    <3>1. Seen(Look)'
      BY <1>0, <2>1 DEF Seen, Look, BrowserTypeOK
    <3>2. ASSUME NEW b \in Actors, task'[b].bound PROVE Seen(task[b].sight)'
      <4>1. task[b].bound /\ task'[b].sight = task[b].sight
        BY <2>2, <3>2 DEF Tasks
      <4> QED
        BY <1>0, <2>5, <4>1 DEF Sights, Seen
    <3> QED
      BY <3>1, <3>2 DEF Sights
  <2> QED
    BY <2>3, <2>4, <2>7, <2>8 DEF BrowserInv
<1> QED
  BY <1>1, <1>2

LEMMA DropTaskSafe ==
    ASSUME BrowserInv, NEW t \in Tasks, DropTask(t)
    PROVE  BrowserInv'
<1>a. /\ BrowserTypeOK /\ OnRecord /\ OneOperationAtATime /\ Begun /\ Sights
      /\ \A u \in Tasks : StopSafe(u)
  BY DEF BrowserInv
<1>b. UNCHANGED <<record, known, scope, seq, observed>> /\ Done(t) /\ dropped' = TRUE
  BY DEF DropTask
<1>0. /\ BrowserTypeOK /\ OnRecord /\ NoOrphanBrowser /\ OneOperationAtATime /\ Begun
      /\ \A u \in Tasks : StopSafe(u) /\ Sights
      /\ seq \in Nat /\ page \in Nat
      /\ UNCHANGED <<record, known, scope, seq, observed>>
      /\ Done(t) /\ dropped' = TRUE
  BY <1>a, <1>b DEF OnRecord, BrowserTypeOK
<1>1. /\ task' \in [Tasks -> TaskRecord]
      /\ task'[t].pc = "done" /\ ~task'[t].bound
      /\ \A u \in Tasks \ {t} : task'[u] = task[u]
      /\ operation' = IF operation = t THEN NoTask ELSE operation
  BY <1>0, DoneEffect
<1>2. /\ processes' \in BOOLEAN /\ (processes' => processes)
  BY <1>0 DEF DropTask, BrowserTypeOK
<1>3. /\ profile' \in BOOLEAN
      /\ task[t].pc # "removing" => profile' = profile
  BY <1>0 DEF DropTask, BrowserTypeOK
<1>4. page' \in Nat
  BY <1>0 DEF DropTask
<1>5. BrowserTypeOK'
  BY <1>0, <1>1, <1>2, <1>3, <1>4 DEF BrowserTypeOK, TaskRecord
<1>6. OneOperationAtATime'
  BY <1>0, <1>1 DEF OneOperationAtATime
<1>7. task[t].pc = "removing" => record.disposed /\ ~processes
  BY <1>0 DEF StopSafe
<1>8. OnRecord'
  BY <1>0, <1>2, <1>3, <1>7 DEF OnRecord, NoOrphanBrowser
<1>9. ASSUME NEW u \in Tasks PROVE StopSafe(u)'
  <2>1. CASE u = t
    BY <1>1, <2>1 DEF StopSafe
  <2>2. CASE u # t
    BY <1>0, <1>1, <1>2, <2>2 DEF StopSafe
  <2> QED
    BY <2>1, <2>2
<1>10. Begun'
  <2>1. task[t].pc # "none"
    BY DEF DropTask
  <2>2. task'[Starter].pc # "none" <=> task[Starter].pc # "none"
    BY <1>1, <2>1 DEF Tasks
  <2>3. \A u \in Tasks : task'[u].pc # "none" => task[u].pc # "none"
    BY <1>1, <2>1
  <2> QED
    BY <1>0, <1>3, <1>7, <2>2, <2>3 DEF Begun
<1>11. Sights' /\ SeqBindsPage'
  <2>1. \A a \in Actors : task'[a].bound => task[a].bound /\ task'[a].sight = task[a].sight
    BY <1>1 DEF Tasks
  <2> QED
    BY <1>0, <2>1 DEF Sights, Seen, Look, SeqBindsPage, Tasks
<1> QED
  BY <1>5, <1>6, <1>8, <1>9, <1>10, <1>11 DEF BrowserInv
(* The requests begin, and the scope may die.                              *)
LEMMA ArrivalSafe ==
    ASSUME BrowserInv,
           \/ StartSession \/ ScopeDies
           \/ \E a \in Actors : SendAct(a)
           \/ \E s \in Stoppers : SendStop(s)
           \/ \E t \in Tasks : TakeTurn(t)
    PROVE  BrowserInv'
<1> USE DEF theScope, thePage
<1>a. /\ BrowserTypeOK /\ OnRecord /\ OneOperationAtATime /\ Begun
      /\ \A u \in Tasks : StopSafe(u)
      /\ Sights /\ SeqBindsPage
  BY DEF BrowserInv
<1>b. Starter \in Tasks /\ Actors \subseteq Tasks /\ Stoppers \subseteq Tasks
  BY DEF Tasks
<1>c. task \in [Tasks -> TaskRecord] /\ record \in Flags
  BY <1>a DEF BrowserTypeOK, TaskRecord
<1>0. /\ BrowserTypeOK /\ OnRecord /\ NoOrphanBrowser /\ OneOperationAtATime /\ Begun
      /\ \A u \in Tasks : StopSafe(u)
      /\ Sights /\ SeqBindsPage
      /\ Starter \in Tasks /\ Actors \subseteq Tasks /\ Stoppers \subseteq Tasks
      /\ task \in [Tasks -> TaskRecord] /\ record \in Flags
  BY <1>a, <1>b, <1>c DEF OnRecord
<1>1. CASE StartSession
  <2>1. /\ task' \in [Tasks -> TaskRecord]
        /\ task'[Starter].pc = "queued" /\ task'[Starter].bound = task[Starter].bound
        /\ task'[Starter].sight = task[Starter].sight
        /\ \A u \in Tasks \ {Starter} : task'[u] = task[u]
    BY <1>0, <1>1, GoOnEffect DEF StartSession
  <2>2. /\ profile' = TRUE /\ known' = TRUE /\ task[Starter].pc = "none"
        /\ UNCHANGED <<record, scope, processes, operation, seq, page, observed, dropped>>
    BY <1>1 DEF StartSession
  <2>3. BrowserTypeOK'
    BY <1>0, <2>1, <2>2 DEF BrowserTypeOK, TaskRecord
  <2>4. OneOperationAtATime' /\ Begun'
    BY <1>0, <2>1, <2>2 DEF OneOperationAtATime, Begun
  <2>5. OnRecord'
    BY <1>0, <2>2 DEF OnRecord, NoOrphanBrowser
  <2>6. ASSUME NEW u \in Tasks PROVE StopSafe(u)'
    BY <1>0, <2>1, <2>2 DEF StopSafe
  <2>7. \A a \in Actors : task'[a] = task[a]
    BY <1>0, <2>1, BrowserAssumption
  <2>8. \A u \in Tasks : task'[u].pc = "observe" <=> task[u].pc = "observe"
    BY <2>1, <2>2
  <2>9. Sights' /\ SeqBindsPage'
    BY <1>0, <2>2, <2>7, <2>8 DEF Sights, Seen, Look, SeqBindsPage
  <2> QED
    BY <2>3, <2>4, <2>5, <2>6, <2>9 DEF BrowserInv
<1>2. CASE ScopeDies
  <2>1. /\ processes' = FALSE
        /\ UNCHANGED <<record, known, scope, profile, operation, seq, page, observed, task, dropped>>
    BY <1>2 DEF ScopeDies
  <2> QED
    BY <1>0, <2>1 DEF BrowserInv, BrowserTypeOK, OneOperationAtATime, Begun, OnRecord,
                      NoOrphanBrowser, StopSafe, Sights, Seen, Look, SeqBindsPage
<1>3. ASSUME NEW a \in Actors, SendAct(a) PROVE BrowserInv'
  <2>1. PICK bound \in BOOLEAN :
           task' = [task EXCEPT ![a].pc = "queued", ![a].bound = bound,
                               ![a].sight = IF bound THEN Look ELSE @]
    BY <1>3, ZenonT(30) DEF SendAct
  <2>2. /\ known /\ task[a].pc = "none" /\ a \in Tasks
        /\ UNCHANGED <<record, known, scope, processes, profile, operation, seq, page, observed,
                       dropped>>
    BY <1>0, <1>3, ZenonT(30) DEF SendAct
  <2>c. Look \in Sight
    BY <1>0 DEF BrowserTypeOK, Look, Sight, Observation
  <2> DEFINE sight == IF bound THEN Look ELSE task[a].sight
             e == [task[a] EXCEPT !.pc = "queued", !.bound = bound, !.sight = sight]
  <2>d. sight \in Sight
    BY <1>0, <2>2, <2>c DEF TaskRecord
  <2>e. task' = [task EXCEPT ![a] = e]
    BY <1>0, <2>1, <2>2
  <2>3. e \in TaskRecord /\ e.pc = "queued" /\ e.bound = bound /\ e.sight = sight
    <3> HIDE DEF sight
    <3> QED
      BY <1>0, <2>2, <2>d DEF TaskRecord
  <2>f. bound => sight = Look
    OBVIOUS
  <2> HIDE DEF e, sight
  <2>4. /\ task' \in [Tasks -> TaskRecord] /\ task'[a].pc = "queued"
        /\ task'[a].bound => task'[a].sight = Look
        /\ \A u \in Tasks \ {a} : task'[u] = task[u]
    BY <1>0, <2>2, <2>3, <2>e, <2>f
  <2>5. BrowserTypeOK'
    BY <1>0, <2>2, <2>4 DEF BrowserTypeOK, TaskRecord
  <2>6. OneOperationAtATime'
    BY <1>0, <2>2, <2>4 DEF OneOperationAtATime
  <2>7. Begun'
    <3>1. a # Starter /\ task'[Starter] = task[Starter] /\ task[Starter].pc # "none"
      BY <1>0, <2>2, <2>4, BrowserAssumption DEF Begun
    <3> QED
      BY <1>0, <2>2, <3>1 DEF Begun
  <2>8. OnRecord'
    BY <1>0, <2>2 DEF OnRecord, NoOrphanBrowser
  <2>9. ASSUME NEW u \in Tasks PROVE StopSafe(u)'
    BY <1>0, <2>2, <2>4 DEF StopSafe
  <2>10. \A u \in Tasks : task'[u].pc = "observe" <=> task[u].pc = "observe"
    BY <2>2, <2>4
  <2>11. Seen(Look)'
    BY <1>0, <2>2, <2>10 DEF Sights, Seen, Look
  <2>12. ASSUME NEW b \in Actors, task'[b].bound PROVE Seen(task[b].sight)'
    <3>1. CASE b = a
      BY <2>2, <2>4, <2>11, <2>12, <3>1 DEF Seen, Look
    <3>2. CASE b # a
      <4>1. task'[b] = task[b]
        BY <1>0, <2>4, <3>2
      <4> QED
        BY <1>0, <2>2, <2>10, <2>12, <4>1 DEF Sights, Seen
    <3> QED
      BY <3>1, <3>2
  <2>13. SeqBindsPage'
    <3>1. \A b \in Actors : task'[b].pc = "command" => task'[b] = task[b]
      BY <1>0, <2>4
    <3> QED
      BY <1>0, <2>2, <3>1 DEF SeqBindsPage
  <2> QED
    BY <2>5, <2>6, <2>7, <2>8, <2>9, <2>11, <2>12, <2>13 DEF BrowserInv, Sights
<1>4. ASSUME NEW s \in Stoppers, SendStop(s) PROVE BrowserInv'
  <2>1. /\ task' \in [Tasks -> TaskRecord]
        /\ task'[s].pc = "queued" /\ task'[s].bound = task[s].bound
        /\ task'[s].sight = task[s].sight
        /\ \A u \in Tasks \ {s} : task'[u] = task[u]
    BY <1>0, <1>4, GoOnEffect DEF SendStop
  <2>2. /\ task[s].pc = "none" /\ known
        /\ record' \in Flags /\ record'.disposed /\ record'.started = record.started
        /\ record'.terminated = record.terminated
        /\ UNCHANGED <<known, scope, processes, profile, operation, seq, page, observed, dropped>>
    BY <1>0, <1>4 DEF SendStop, Flags
  <2>3. BrowserTypeOK'
    BY <1>0, <2>1, <2>2 DEF BrowserTypeOK, TaskRecord
  <2>4. OneOperationAtATime'
    BY <1>0, <2>1, <2>2 DEF OneOperationAtATime
  <2>5. Begun'
    <3>1. task[Starter].pc # "none" /\ s # Starter /\ task'[Starter] = task[Starter]
      BY <1>0, <2>1, <2>2, BrowserAssumption DEF Begun
    <3> QED
      BY <1>0, <2>2, <3>1 DEF Begun
  <2>6. OnRecord'
    BY <1>0, <2>2 DEF OnRecord, NoOrphanBrowser
  <2>7. ASSUME NEW u \in Tasks PROVE StopSafe(u)'
    BY <1>0, <2>1, <2>2 DEF StopSafe
  <2>8. \A a \in Actors : task'[a] = task[a]
    BY <1>0, <2>1, BrowserAssumption
  <2>9. Sights' /\ SeqBindsPage'
    BY <1>0, <2>2, <2>8 DEF Sights, Seen, Look, SeqBindsPage
  <2> QED
    BY <2>3, <2>4, <2>5, <2>6, <2>7, <2>9 DEF BrowserInv
<1>5. ASSUME NEW t \in Tasks, TakeTurn(t) PROVE BrowserInv'
  <2>1. PICK pc \in {"open", "checking", "stopping"} :
           GoOn(t, pc) /\ pc = CASE t = Starter -> "open" [] t \in Actors -> "checking"
                                 [] OTHER -> "stopping"
    BY <1>5 DEF TakeTurn
  <2>2. /\ task[t].pc = "queued" /\ operation = NoTask /\ operation' = t
        /\ UNCHANGED <<record, known, scope, processes, profile, seq, page, observed, dropped>>
    BY <1>5 DEF TakeTurn
  <2>3. /\ task' \in [Tasks -> TaskRecord]
        /\ task'[t].pc = pc /\ task'[t].bound = task[t].bound
        /\ task'[t].sight = task[t].sight
        /\ \A u \in Tasks \ {t} : task'[u] = task[u]
    BY <1>0, <2>1, GoOnEffect
  <2>4. BrowserTypeOK'
    BY <1>0, <2>2, <2>3 DEF BrowserTypeOK, TaskRecord
  <2>5. OneOperationAtATime'
    BY <1>0, <2>2, <2>3, BrowserAssumption DEF OneOperationAtATime
  <2>6. Begun'
    <3>1. \A u \in Tasks : task'[u].pc # "none" <=> task[u].pc # "none"
      BY <2>2, <2>3
    <3> QED
      BY <1>0, <2>2, <3>1 DEF Begun
  <2>7. OnRecord'
    BY <1>0, <2>2 DEF OnRecord, NoOrphanBrowser
  <2>8. ASSUME NEW u \in Tasks PROVE StopSafe(u)'
    BY <1>0, <2>2, <2>3 DEF StopSafe
  <2>9. \A a \in Actors : /\ task'[a].bound = task[a].bound /\ task'[a].sight = task[a].sight
                          /\ task'[a].pc = "command" => task[a].pc = "command"
    BY <1>0, <2>3
  <2>10. \A u \in Tasks : task'[u].pc = "observe" <=> task[u].pc = "observe"
    BY <2>2, <2>3
  <2>11. Sights' /\ SeqBindsPage'
    BY <1>0, <2>2, <2>9, <2>10 DEF Sights, Seen, Look, SeqBindsPage
  <2> QED
    BY <2>4, <2>5, <2>6, <2>7, <2>8, <2>11 DEF BrowserInv
<1> QED
  BY <1>1, <1>2, <1>3, <1>4, <1>5

LEMMA BrowserStepSafe == BrowserInv /\ [BrowserNext]_browserVars => BrowserInv'
<1> SUFFICES ASSUME BrowserInv, [BrowserNext]_browserVars PROVE BrowserInv'
  OBVIOUS
<1>1. ASSUME NEW a \in Actors, CheckAct(a) PROVE BrowserInv'
  BY <1>1, CheckActSafe
<1>2. ASSUME NEW t \in Tasks,
             \/ RunStart(t) \/ RunReady(t) \/ RunOk(t) \/ RunError(t) \/ RunTimeout(t)
             \/ StopSnapshot(t) \/ StopClose(t) \/ StopTerminate(t) \/ StopRemove(t)
             \/ DropTask(t)
      PROVE  BrowserInv'
  BY <1>2, RunStartSafe, RunReadySafe, RunOkSafe, RunErrorSafe, RunTimeoutSafe,
     StopSnapshotSafe, StopCloseSafe, StopTerminateSafe, StopRemoveSafe, DropTaskSafe
<1>3. CASE UNCHANGED browserVars
  BY <1>3 DEF browserVars, BrowserInv, BrowserTypeOK, OneOperationAtATime, Begun, OnRecord,
              NoOrphanBrowser, StopSafe, Sights, Seen, Look, SeqBindsPage
<1> QED
  BY <1>1, <1>2, <1>3, ArrivalSafe DEF BrowserNext

-----------------------------------------------------------------------------
(* The invariant holds in every reachable state.                           *)
THEOREM BrowserSafety == BrowserSpec => []BrowserInv
  BY BrowserInitSafe, BrowserStepSafe, PTL DEF BrowserSpec

(* The record, the page and the tasks keep to their types.                 *)
THEOREM BrowserTypes == BrowserSpec => []BrowserTypeOK
  BY BrowserSafety, PTL DEF BrowserInv

(* No session is forgotten, and no profile deleted, while its processes    *)
(* live (stop_locked, mark_scope_terminated).                              *)
THEOREM BrowserNoOrphan == BrowserSpec => []NoOrphanBrowser
<1>1. BrowserInv => NoOrphanBrowser
  BY DEF BrowserInv, OnRecord
<1> QED
  BY <1>1, BrowserSafety, PTL

(* An action that quotes the sequence number of an observation acts on the *)
(* page as it was when its client read it, and as the observation shows it *)
(* if that was ready (act, fail, the observation served as it is).         *)
THEOREM BrowserSeqBindsPage == BrowserSpec => []SeqBindsPage
  BY BrowserSafety, PTL DEF BrowserInv

(* The mutex "operation" lets one request at a time work on the session.   *)
THEOREM BrowserOneOperation == BrowserSpec => []OneOperationAtATime
  BY BrowserSafety, PTL DEF BrowserInv

-----------------------------------------------------------------------------
(* AN MCP SERVER: an answer reaches the request it was given to            *)

(* The inductive invariant.                                                *)

(* Between drawing its id and returning.                                   *)
Busy(u) == user[u].pc \in {"writing", "written", "waiting", "expired"}

(* The requests of a connection that anybody may still mention.            *)
Known(c, m) ==
    \/ m \in asked[c] \/ m \in stdout[c]
    \/ \E u \in Users : Busy(u) /\ user[u].conn = c /\ user[u].req = m

(* Whoever queues or works does so on a connection, with a request of his. *)
Connected(u) ==
    /\ user[u].pc = "queued" \/ Busy(u) => user[u].conn \in Connections
    /\ Busy(u) => user[u].req \in Request /\ user[u].req.user = u
    /\ user[u].got # NoRequest => user[u].pc = "waiting"

(* The id of a request is its own and was drawn from the counter.          *)
IdsUnique(c) ==
    \A m \in Request : Known(c, m) =>
        /\ m.id < nextId[c]
        /\ \A n \in Request : Known(c, n) /\ n.id = m.id => n = m

(* Registered is only the request its user still waits for.                *)
Registered(c) ==
    \A r \in pending[c] :
        /\ user[r.user].req = r /\ user[r.user].conn = c
        /\ user[r.user].pc \in {"waiting", "expired"}
        /\ user[r.user].got = NoRequest

McpInv ==
    /\ McpTypeOK
    /\ OneRequestAtATime
    /\ AnswersMatch
    /\ \A u \in Users : Connected(u)
    /\ \A c \in Connections : IdsUnique(c) /\ Registered(c)

-----------------------------------------------------------------------------
LEMMA McpInitSafe == McpInit => McpInv
<1> SUFFICES ASSUME McpInit PROVE McpInv
  OBVIOUS
<1>1. McpTypeOK
  BY DEF McpInit, McpTypeOK, Idle
<1>2. \A u \in Users : user[u] = Idle
  BY DEF McpInit
<1> QED
  BY <1>1, <1>2 DEF McpInit, McpInv, OneRequestAtATime, AnswersMatch, Connected, IdsUnique,
              Registered, Known, Busy, Idle

(* The fields of a user.                                                   *)
UserRecord ==
    [pc   : {"idle", "queued", "writing", "written", "waiting",
             "expired", "notifying", "connected", "failed"},
     conn : Connections \cup {Nowhere},
     req  : Request \cup {NoRequest},
     got  : Line \cup {NoRequest},
     turn : Nat]

(* A request of the server's own is none of the client's.                  *)
LEMMA ServerRequestApart == Request \cap ServerRequest = {} /\ NoRequest \notin Request
  BY McpAssumption DEF Request, ServerRequest, Line

(* Every step keeps the types.                                             *)
LEMMA McpTyped ==
    ASSUME McpInv, McpNext
    PROVE  McpTypeOK'
<1> USE DEF McpTypeOK, registry, wire
<1>0. /\ McpTypeOK /\ \A u \in Users : Connected(u)
      /\ user \in [Users -> UserRecord]
  BY DEF McpInv, UserRecord
<1>a. ASSUME NEW u \in Users, NEW e \in UserRecord, user' = [user EXCEPT ![u] = e]
      PROVE  user' \in [Users -> UserRecord]
  BY <1>0, <1>a
<1>1. CASE Clear
  BY <1>0, <1>1 DEF Clear
<1>2. ASSUME NEW c \in Connections, Connect(c) PROVE McpTypeOK'
  <2>1. c \in Users
    BY DEF Users
  <2>2. user' = [user EXCEPT ![c] = [user[c] EXCEPT !.pc = "queued", !.conn = c, !.turn = 1]]
    BY <1>2 DEF Connect
  <2>3. [user[c] EXCEPT !.pc = "queued", !.conn = c, !.turn = 1] \in UserRecord
    BY <1>0, <2>1 DEF UserRecord
  <2>4. user' \in [Users -> UserRecord]
    BY <1>a, <2>1, <2>2, <2>3
  <2> QED
    BY <1>0, <1>2, <2>4 DEF Connect, UserRecord
<1>3. ASSUME NEW c \in Connections, Publish(c) PROVE McpTypeOK'
  BY <1>0, <1>3 DEF Publish, Idle
<1>4. ASSUME NEW c \in Connections, Close(c) PROVE McpTypeOK'
  BY <1>0, <1>4 DEF Close
<1>5. ASSUME NEW c \in Connections, ServerDies(c) \/ ServerSticks(c) \/ ServerReadsOn(c)
      PROVE  McpTypeOK'
  BY <1>0, <1>5 DEF ServerDies, ServerSticks, ServerReadsOn
<1>15. ASSUME NEW c \in Connections, NEW m \in ServerRequest, ServerAsks(c, m) PROVE McpTypeOK'
  BY <1>0, <1>15 DEF ServerAsks, Line
<1>16. ASSUME NEW u \in Users, Notify(u) PROVE McpTypeOK'
  BY <1>0, <1>16 DEF Notify
<1>6. ASSUME NEW c \in Connections, NEW r \in asked[c], Answer(c, r) PROVE McpTypeOK'
  BY <1>0, <1>6 DEF Answer, Line
<1>7. ASSUME NEW c \in Connections, NEW m \in stdout[c], ReadLine(c, m) PROVE McpTypeOK'
  <2>1. m \in Line
    BY <1>0
  <2>2. ASSUME NEW u \in Users PROVE user'[u] \in UserRecord
    <3>1. user[u] \in UserRecord
      BY <1>0
    <3>2. [user[u] EXCEPT !.got = IF user[u].pc = "waiting" THEN m ELSE @] \in UserRecord
      BY <2>1, <3>1 DEF UserRecord
    <3> QED
      BY <1>7, <3>1, <3>2 DEF ReadLine
  <2>3. user' \in [Users -> UserRecord]
    BY <1>7, <2>2 DEF ReadLine
  <2>4. stdout' \in [Connections -> SUBSET Line] /\ pending' \in [Connections -> SUBSET Request]
    BY <1>0, <1>7 DEF ReadLine
  <2> QED
    BY <1>0, <1>7, <2>3, <2>4 DEF ReadLine, UserRecord
<1>8. ASSUME NEW a \in Agents, Call(a) PROVE McpTypeOK'
  <2>1. a \in Users
    BY DEF Users
  <2>0. user[a].turn + 1 \in Nat /\ listed \in Connections
    BY <1>0, <1>8, <2>1 DEF Call, UserRecord
  <2>2. [Idle EXCEPT !.pc = "queued", !.conn = listed, !.turn = user[a].turn + 1] \in UserRecord
    BY <2>0 DEF UserRecord, Idle
  <2>3. user' \in [Users -> UserRecord]
    BY <1>8, <1>a, <2>1, <2>2 DEF Call
  <2> QED
    BY <1>0, <1>8, <2>3 DEF Call, UserRecord
<1>9. ASSUME NEW u \in Users, Enter(u) PROVE McpTypeOK'
  <2> DEFINE req == [id |-> nextId[user[u].conn], user |-> u, turn |-> user[u].turn]
  <2>1. user[u].conn \in Connections
    BY <1>0, <1>9 DEF Enter, Connected
  <2>2. req \in Request
    BY <1>0, <2>1 DEF Request
  <2>3. user' = [user EXCEPT ![u] = [user[u] EXCEPT !.pc = "writing", !.req = req]]
    BY <1>9 DEF Enter
  <2>4. [user[u] EXCEPT !.pc = "writing", !.req = req] \in UserRecord
    BY <1>0, <2>2 DEF UserRecord
  <2>5. user' \in [Users -> UserRecord]
    BY <1>a, <2>3, <2>4
  <2>6. nextId' \in [Connections -> Nat] /\ holder' \in [Connections -> Users \cup {Nowhere}]
    BY <1>0, <1>9, <2>1 DEF Enter
  <2> QED
    BY <1>0, <1>9, <2>5, <2>6 DEF Enter, UserRecord
<1>10. ASSUME NEW u \in Users, Write(u) PROVE McpTypeOK'
  BY <1>0, <1>10 DEF Write, Return, Connected, Busy
<1>11. ASSUME NEW u \in Users, Register(u) PROVE McpTypeOK'
  BY <1>0, <1>11 DEF Register, Connected, Busy
<1>12. ASSUME NEW u \in Users, Receive(u) PROVE McpTypeOK'
  BY <1>0, <1>12 DEF Receive, Return, Connected, Busy
<1>13. ASSUME NEW u \in Users, Expire(u) PROVE McpTypeOK'
  BY <1>0, <1>13 DEF Expire, Connected, Busy
<1>14. ASSUME NEW u \in Users, Withdraw(u) PROVE McpTypeOK'
  BY <1>0, <1>14 DEF Withdraw, Return, Connected, Busy
<1> QED
  BY <1>1, <1>2, <1>3, <1>4, <1>5, <1>6, <1>7, <1>8, <1>9, <1>10, <1>11, <1>12, <1>13,
     <1>14, <1>15, <1>16 DEF McpNext, UserStep

(* The part of the invariant about more than types.                        *)
Sound ==
    /\ OneRequestAtATime
    /\ AnswersMatch
    /\ \A u \in Users : Connected(u)
    /\ \A c \in Connections : IdsUnique(c) /\ Registered(c)

(* If only one user changes, his are the only clauses to check.            *)
LEMMA OneUserChanges ==
    ASSUME \A v \in Users : Connected(v), AnswersMatch, NEW u \in Users,
           \A v \in Users \ {u} : user'[v] = user[v],
           Connected(u)', user'[u].got = NoRequest
    PROVE  AnswersMatch' /\ \A v \in Users : Connected(v)'
<1>1. ASSUME NEW v \in Users PROVE Connected(v)'
  BY <1>1 DEF Connected, Busy
<1>2. AnswersMatch'
  BY ServerRequestApart DEF AnswersMatch
<1> QED
  BY <1>1, <1>2

LEMMA HolderKept ==
    ASSUME OneRequestAtATime, NEW u \in Users, UNCHANGED holder,
           \A v \in Users \ {u} : user'[v] = user[v],
           Busy(u)' => Busy(u) /\ user'[u].conn = user[u].conn
    PROVE  OneRequestAtATime'
  BY DEF OneRequestAtATime, Busy

(* Who returns leaves the mutex and has nothing registered.                *)
LEMMA ReturnSound ==
    ASSUME McpInv, McpTypeOK', NEW u \in Users, NEW ok \in BOOLEAN, Busy(u), Return(u, ok),
           \A c \in Connections : pending'[c] = {r \in pending[c] : r.user # u},
           UNCHANGED <<asked, stdout, nextId>>
    PROVE  Sound'
<1> USE DEF McpInv, McpTypeOK
<1> DEFINE after == IF u \in Agents THEN "idle" ELSE IF ok THEN "notifying" ELSE "failed"
<1>1. /\ user'[u].pc = after /\ user'[u].got = NoRequest
      /\ ~Busy(u)'
      /\ \A v \in Users \ {u} : user'[v] = user[v]
  BY DEF Return, Busy
<1>2. user[u].conn \in Connections /\ holder[user[u].conn] = u
  BY DEF Connected, Busy, OneRequestAtATime
<1>3. OneRequestAtATime'
  BY <1>1, <1>2 DEF OneRequestAtATime, Return, Busy
<1>4. AnswersMatch' /\ \A v \in Users : Connected(v)'
  <2>1. Connected(u)'
    BY <1>1 DEF Connected, Busy
  <2> QED
    BY <1>1, <2>1, OneUserChanges
<1>5. ASSUME NEW c \in Connections PROVE IdsUnique(c)'
  <2>1. \A m : Known(c, m)' => Known(c, m)
    BY <1>1 DEF Known, Busy
  <2> QED
    BY <2>1 DEF IdsUnique
<1>6. ASSUME NEW c \in Connections PROVE Registered(c)'
  BY <1>1 DEF Registered, Request
<1> QED
  BY <1>3, <1>4, <1>5, <1>6 DEF Sound

LEMMA McpStepSound ==
    ASSUME McpInv, McpNext, McpTypeOK'
    PROVE  Sound'
<1> USE DEF McpInv, McpTypeOK, registry, wire
<1>0. Sound
  BY DEF Sound
<1>1. ASSUME Clear \/ \E c \in Connections : \/ Close(c) \/ ServerDies(c)
                                                  \/ ServerSticks(c) \/ ServerReadsOn(c)
      PROVE  Sound'
  <2>1. UNCHANGED <<nextId, holder, pending, asked, stdout, user>>
    BY <1>1 DEF Clear, Close, ServerDies, ServerSticks, ServerReadsOn
  <2> QED
    BY <1>0, <2>1 DEF Sound, OneRequestAtATime, AnswersMatch, Connected, IdsUnique, Registered,
                      Known, Busy
<1>2. ASSUME NEW c \in Connections, Connect(c) PROVE Sound'
  <2>1. /\ c \in Users /\ user'[c].pc = "queued" /\ user'[c].conn = c
        /\ user'[c].got = user[c].got /\ user[c].pc = "idle"
        /\ \A v \in Users \ {c} : user'[v] = user[v]
        /\ UNCHANGED <<nextId, holder, pending, asked, stdout>>
    BY <1>2 DEF Connect, Users
  <2>2. \A d, m : Known(d, m)' => Known(d, m)
    BY <2>1 DEF Known, Busy
  <2>3. ASSUME NEW d \in Connections PROVE IdsUnique(d)' /\ Registered(d)'
    BY <2>1, <2>2 DEF IdsUnique, Registered, Request
  <2>4. Connected(c)' /\ ~Busy(c)' /\ user'[c].got = NoRequest
    BY <2>1 DEF Connected, Busy
  <2> QED
    BY <1>0, <2>1, <2>3, <2>4, OneUserChanges, HolderKept DEF Sound
<1>3. ASSUME NEW c \in Connections, Publish(c) PROVE Sound'
  <2>1. /\ c \in Users /\ user'[c].pc = "idle" /\ user'[c].got = NoRequest
        /\ user[c].pc \in {"connected", "failed"}
        /\ \A v \in Users \ {c} : user'[v] = user[v]
        /\ UNCHANGED <<nextId, holder, pending, asked, stdout>>
    BY <1>3 DEF Publish, Users, Idle
  <2>2. \A d, m : Known(d, m)' => Known(d, m)
    BY <2>1 DEF Known, Busy
  <2>3. ASSUME NEW d \in Connections PROVE IdsUnique(d)' /\ Registered(d)'
    BY <2>1, <2>2 DEF IdsUnique, Registered, Request
  <2>4. Connected(c)' /\ ~Busy(c)'
    BY <2>1 DEF Connected, Busy
  <2> QED
    BY <1>0, <2>1, <2>3, <2>4, OneUserChanges, HolderKept DEF Sound
<1>4. ASSUME NEW c \in Connections, NEW r \in asked[c], Answer(c, r) PROVE Sound'
  <2>1. UNCHANGED <<nextId, holder, pending, user>>
    BY <1>4 DEF Answer
  <2>2. \A d \in Connections : \A m : Known(d, m)' => Known(d, m)
    BY <1>4 DEF Answer, Known, Busy
  <2> QED
    BY <1>0, <2>1, <2>2 DEF Sound, OneRequestAtATime, AnswersMatch, Connected, IdsUnique,
                            Registered, Busy
<1>5. ASSUME NEW c \in Connections, NEW m \in stdout[c], ReadLine(c, m) PROVE Sound'
  <2>0. pending[c] \subseteq Request
    OBVIOUS
  <2>1. /\ UNCHANGED <<nextId, holder, asked>>
        /\ \A u \in Users : /\ user'[u].pc = user[u].pc /\ user'[u].conn = user[u].conn
                             /\ user'[u].req = user[u].req
    BY <1>5 DEF ReadLine
  <2>2. \A d \in Connections : stdout'[d] \subseteq stdout[d] /\ pending'[d] \subseteq pending[d]
    BY <1>5 DEF ReadLine
  <2>3. \A d \in Connections : \A n : Known(d, n)' => Known(d, n)
    BY <2>1, <2>2 DEF Known, Busy
  <2>4. ASSUME NEW u \in Users, user'[u].got # user[u].got
        PROVE  user[u].pc = "waiting" /\ (user'[u].got \in Request => user'[u].got = user[u].req)
    <3>1. PICK r \in pending[c] : r.id = m.id /\ r.user = u
      BY <1>5, <2>4 DEF ReadLine
    <3>2. user[u].pc = "waiting" /\ user'[u].got = m
      BY <1>5, <2>4, <3>1 DEF ReadLine
    <3>3. user[u].req = r /\ user[u].conn = c
      BY <3>1 DEF Registered
    <3>4. Known(c, r) /\ Known(c, m) /\ r \in Request
      BY <2>0, <3>2, <3>3 DEF Known, Busy
    <3>5. m \in Request => m = r
      BY <3>1, <3>4 DEF IdsUnique
    <3> QED
      BY <3>2, <3>3, <3>5
  <2>5. AnswersMatch' /\ (\A u \in Users : Connected(u))'
    BY <2>1, <2>4 DEF AnswersMatch, Connected, Busy
  <2>6. ASSUME NEW d \in Connections PROVE IdsUnique(d)' /\ Registered(d)'
    <3>1. IdsUnique(d)'
      BY <2>1, <2>3 DEF IdsUnique
    <3>2. ASSUME NEW r \in pending'[d]
          PROVE  /\ user'[r.user].req = r /\ user'[r.user].conn = d
                 /\ user'[r.user].pc \in {"waiting", "expired"}
                 /\ user'[r.user].got = NoRequest
      <4>1. r \in pending[d] /\ r \in Request /\ r.user \in Users
        BY <2>2, <3>2 DEF Request
      <4>2. user[r.user].req = r /\ user[r.user].conn = d /\ user[r.user].got = NoRequest
        BY <4>1 DEF Registered
      <4>3. user'[r.user].got # NoRequest => FALSE
        <5>1. SUFFICES ASSUME user'[r.user].got # NoRequest PROVE FALSE
          OBVIOUS
        <5>2. PICK q \in pending[c] : q.id = m.id /\ q.user = r.user
          BY <1>5, <4>1, <4>2, <5>1 DEF ReadLine
        <5>3. q = r /\ c = d
          BY <4>2, <5>2 DEF Registered
        <5>4. pending'[c] = {p \in pending[c] : p.id # m.id}
          BY <1>5 DEF ReadLine
        <5> QED
          BY <3>2, <5>2, <5>3, <5>4
      <4> QED
        BY <2>1, <4>1, <4>2, <4>3 DEF Registered
    <3> QED
      BY <3>1, <3>2 DEF Registered
  <2> QED
    BY <1>0, <2>1, <2>5, <2>6 DEF Sound, OneRequestAtATime
<1>13. ASSUME NEW c \in Connections, NEW m \in ServerRequest, ServerAsks(c, m) PROVE Sound'
  <2>1. UNCHANGED <<nextId, holder, pending, asked, user>>
    BY <1>13 DEF ServerAsks
  <2>2. \A d \in Connections : \A n \in Request : Known(d, n)' => Known(d, n)
    BY <1>13, ServerRequestApart DEF ServerAsks, Known, Busy
  <2> QED
    BY <1>0, <2>1, <2>2 DEF Sound, OneRequestAtATime, AnswersMatch, Connected, IdsUnique,
                            Registered, Busy
<1>14. ASSUME NEW u \in Users, Notify(u) PROVE Sound'
  <2>1. /\ user'[u].pc \in {"connected", "failed"} /\ user'[u].got = user[u].got
        /\ user[u].pc = "notifying"
        /\ \A v \in Users \ {u} : user'[v] = user[v]
        /\ UNCHANGED <<nextId, holder, pending, asked, stdout>>
    BY <1>14 DEF Notify
  <2>2. \A d, m : Known(d, m)' => Known(d, m)
    BY <2>1 DEF Known, Busy
  <2>3. ASSUME NEW d \in Connections PROVE IdsUnique(d)' /\ Registered(d)'
    BY <2>1, <2>2 DEF IdsUnique, Registered, Request
  <2>4. Connected(u)' /\ ~Busy(u)' /\ user'[u].got = NoRequest
    BY <2>1 DEF Connected, Busy
  <2> QED
    BY <1>0, <2>1, <2>3, <2>4, OneUserChanges, HolderKept DEF Sound
<1>6. ASSUME NEW a \in Agents, Call(a) PROVE Sound'
  <2>1. /\ a \in Users /\ user'[a].pc = "queued" /\ user'[a].conn = listed
        /\ user'[a].got = NoRequest /\ user[a].pc = "idle" /\ listed \in Connections
        /\ \A v \in Users \ {a} : user'[v] = user[v]
        /\ UNCHANGED <<nextId, holder, pending, asked, stdout>>
    BY <1>6 DEF Call, Users, Idle
  <2>2. \A d, m : Known(d, m)' => Known(d, m)
    BY <2>1 DEF Known, Busy
  <2>3. ASSUME NEW d \in Connections PROVE IdsUnique(d)' /\ Registered(d)'
    BY <2>1, <2>2 DEF IdsUnique, Registered, Request
  <2>4. Connected(a)' /\ ~Busy(a)'
    BY <2>1 DEF Connected, Busy
  <2> QED
    BY <1>0, <2>1, <2>3, <2>4, OneUserChanges, HolderKept DEF Sound
<1>7. ASSUME NEW u \in Users, Enter(u) PROVE Sound'
  <2> DEFINE c == user[u].conn
             req == [id |-> nextId[c], user |-> u, turn |-> user[u].turn]
  <2>1. /\ c \in Connections /\ holder[c] = Nowhere /\ user[u].pc = "queued"
        /\ user'[u].pc = "writing" /\ user'[u].conn = c /\ user'[u].req = req
        /\ user'[u].got = user[u].got
        /\ \A v \in Users \ {u} : user'[v] = user[v]
        /\ UNCHANGED <<pending, asked, stdout>>
    BY <1>7 DEF Enter, Connected
  <2>2. req \in Request /\ req.id = nextId[c] /\ req.user = u
    BY <2>1 DEF Request
  <2>3. ASSUME NEW d \in Connections, NEW m, Known(d, m)'
        PROVE  Known(d, m) \/ (d = c /\ m = req)
    <3>1. CASE \E v \in Users : Busy(v)' /\ user'[v].conn = d /\ user'[v].req = m
      <4>1. PICK v \in Users : Busy(v)' /\ user'[v].conn = d /\ user'[v].req = m
        BY <3>1
      <4>2. CASE v = u
        BY <2>1, <4>1, <4>2
      <4>3. CASE v # u
        <5>1. user'[v] = user[v]
          BY <2>1, <4>3
        <5>2. Busy(v) /\ user[v].conn = d /\ user[v].req = m
          BY <4>1, <5>1 DEF Busy
        <5> QED
          BY <5>2 DEF Known
      <4> QED
        BY <4>2, <4>3
    <3>2. CASE m \in asked'[d] \/ m \in stdout'[d]
      BY <2>1, <3>2 DEF Known
    <3> QED
      BY <2>3, <3>1, <3>2 DEF Known
  <2>4. /\ nextId'[c] = nextId[c] + 1
        /\ \A d \in Connections \ {c} : nextId'[d] = nextId[d]
    BY <1>7, <2>1 DEF Enter
  <2>5. ASSUME NEW d \in Connections PROVE IdsUnique(d)'
    <3>1. ASSUME NEW m \in Request, Known(d, m)' PROVE m.id < nextId'[d]
      BY <2>1, <2>2, <2>3, <2>4, <3>1 DEF IdsUnique, Request
    <3>2. ASSUME NEW m \in Request, NEW n \in Request, Known(d, m)', Known(d, n)', n.id = m.id
          PROVE  n = m
      BY <2>1, <2>2, <2>3, <3>2 DEF IdsUnique, Request
    <3> QED
      BY <3>1, <3>2 DEF IdsUnique
  <2>6. ASSUME NEW d \in Connections PROVE Registered(d)'
    BY <2>1 DEF Registered, Request
  <2>7. OneRequestAtATime'
    BY <1>7, <2>1, McpAssumption DEF Enter, OneRequestAtATime, Connected, Busy
  <2>8. Connected(u)' /\ user'[u].got = NoRequest
    BY <2>1, <2>2 DEF Connected, Busy
  <2>9. AnswersMatch' /\ \A v \in Users : Connected(v)'
    BY <2>1, <2>8, OneUserChanges
  <2> QED
    BY <2>5, <2>6, <2>7, <2>9 DEF Sound
<1>8. ASSUME NEW u \in Users, Write(u) PROVE Sound'
  <2> DEFINE c == user[u].conn
  <2>1. user[u].pc = "writing" /\ Busy(u) /\ c \in Connections /\ UNCHANGED <<pending, nextId, stdout>>
    BY <1>8 DEF Write, Busy, Connected
  <2>2. \A d \in Connections : \A r \in pending[d] : r.user # u
    BY <2>1 DEF Registered, Request
  <2>3. CASE Return(u, FALSE) /\ UNCHANGED asked
    BY <2>1, <2>2, <2>3, ReturnSound
  <2>4. CASE ~(Return(u, FALSE) /\ UNCHANGED asked)
    <3>1. /\ asked' = [asked EXCEPT ![c] = @ \cup {user[u].req}]
          /\ user' = [user EXCEPT ![u].pc = "written"] /\ UNCHANGED holder
      BY <1>8, <2>4 DEF Write
    <3>2. /\ Busy(u)' /\ user'[u].pc = "written" /\ user'[u].conn = c /\ user'[u].req = user[u].req
          /\ user'[u].got = user[u].got
          /\ \A v \in Users \ {u} : user'[v] = user[v]
      BY <3>1 DEF Busy
    <3>3. \A d \in Connections : \A m : Known(d, m)' => Known(d, m)
      BY <2>1, <3>1, <3>2 DEF Known, Busy
    <3>4. ASSUME NEW d \in Connections PROVE IdsUnique(d)' /\ Registered(d)'
      BY <2>1, <2>2, <3>2, <3>3 DEF IdsUnique, Registered, Request
    <3> QED
      BY <1>0, <2>1, <3>1, <3>2, <3>4 DEF Sound, OneRequestAtATime, AnswersMatch, Connected, Busy
  <2> QED
    BY <2>3, <2>4
<1>9. ASSUME NEW u \in Users, Register(u) PROVE Sound'
  <2> DEFINE c == user[u].conn
  <2>1. /\ user[u].pc = "written" /\ Busy(u) /\ Busy(u)' /\ c \in Connections
        /\ user[u].req \in Request /\ user[u].req.user = u
        /\ user'[u].pc = "waiting" /\ user'[u].conn = c /\ user'[u].req = user[u].req
        /\ user'[u].got = user[u].got
        /\ \A v \in Users \ {u} : user'[v] = user[v]
        /\ UNCHANGED <<nextId, holder, asked, stdout>>
    BY <1>9 DEF Register, Busy, Connected
  <2>2. \A d \in Connections : \A m : Known(d, m)' => Known(d, m)
    BY <2>1 DEF Known, Busy
  <2>3. \A d \in Connections : \A r \in pending'[d] : r \in pending[d] \/ (d = c /\ r = user[u].req)
    <3>1. pending' = [pending EXCEPT ![c] = {r \in @ : r.id # user[u].req.id} \cup {user[u].req}]
      BY <1>9 DEF Register
    <3>2. pending'[c] = {r \in pending[c] : r.id # user[u].req.id} \cup {user[u].req}
      BY <2>1, <3>1
    <3>3. \A d \in Connections \ {c} : pending'[d] = pending[d]
      BY <2>1, <3>1
    <3>4. ASSUME NEW d \in Connections, NEW r \in pending'[d]
          PROVE  r \in pending[d] \/ (d = c /\ r = user[u].req)
      <4> HIDE DEF c
      <4>1. CASE d = c
        BY <3>2, <3>4, <4>1
      <4>2. CASE d # c
        BY <3>3, <3>4, <4>2
      <4> QED
        BY <4>1, <4>2
    <3> QED
      BY <3>4
  <2>4. user[u].got = NoRequest
    BY <2>1 DEF Connected
  <2>5. ASSUME NEW d \in Connections PROVE IdsUnique(d)' /\ Registered(d)'
    <3>1. IdsUnique(d)'
      BY <2>1, <2>2 DEF IdsUnique
    <3>2. ASSUME NEW r \in pending[d] PROVE r.user # u /\ r.user \in Users
      BY <2>1, <3>2 DEF Registered, Request
    <3>3. Registered(d)'
      BY <2>1, <2>3, <2>4, <3>2 DEF Registered
    <3> QED
      BY <3>1, <3>3
  <2>6. Connected(u)' /\ user'[u].got = NoRequest
    BY <2>1, <2>4 DEF Connected, Busy
  <2> QED
    BY <1>0, <2>1, <2>5, <2>6, OneUserChanges, HolderKept DEF Sound
<1>10. ASSUME NEW u \in Users, Receive(u) PROVE Sound'
  <2>1. PICK ok \in BOOLEAN :
           /\ user[u].pc = "waiting" /\ user[u].got # NoRequest /\ Busy(u) /\ Return(u, ok)
           /\ UNCHANGED <<nextId, pending, asked, stdout>>
    BY <1>10 DEF Receive, Busy
  <2>2. \A d \in Connections : \A r \in pending[d] : r.user # u
    BY <2>1 DEF Registered, Request
  <2> QED
    BY <2>1, <2>2, ReturnSound
<1>11. ASSUME NEW u \in Users, Expire(u) PROVE Sound'
  <2>1. /\ user[u].pc = "waiting" /\ user[u].got = NoRequest /\ Busy(u) /\ Busy(u)'
        /\ user'[u].pc = "expired" /\ user'[u].conn = user[u].conn
        /\ user'[u].req = user[u].req /\ user'[u].got = NoRequest
        /\ \A v \in Users \ {u} : user'[v] = user[v]
        /\ UNCHANGED <<nextId, holder, pending, asked, stdout>>
    BY <1>11 DEF Expire, Busy
  <2>2. \A d \in Connections : \A m : Known(d, m)' => Known(d, m)
    BY <2>1 DEF Known, Busy
  <2>4. ASSUME NEW d \in Connections PROVE IdsUnique(d)' /\ Registered(d)'
    BY <2>1, <2>2 DEF IdsUnique, Registered, Request
  <2>5. Connected(u)'
    BY <2>1 DEF Connected, Busy
  <2> QED
    BY <1>0, <2>1, <2>4, <2>5, OneUserChanges, HolderKept DEF Sound
<1>12. ASSUME NEW u \in Users, Withdraw(u) PROVE Sound'
  <2>1. /\ user[u].pc = "expired" /\ Busy(u) /\ Return(u, FALSE) /\ user[u].conn \in Connections
        /\ UNCHANGED <<nextId, asked, stdout>>
    BY <1>12 DEF Withdraw, Busy, Connected
  <2>2. ASSUME NEW d \in Connections
        PROVE  pending'[d] = {r \in pending[d] : r.user # u}
    <3>1. \A r \in pending[d] : r.user = u => r = user[u].req /\ d = user[u].conn
      BY DEF Registered, Request
    <3>2. \A r \in pending[user[u].conn] : r.id = user[u].req.id => r.user = u
      <4>1. ASSUME NEW r \in pending[user[u].conn] PROVE Known(user[u].conn, r) /\ r \in Request
        BY <2>1 DEF Registered, Known, Busy, Request
      <4>2. Known(user[u].conn, user[u].req) /\ user[u].req \in Request /\ user[u].req.user = u
        BY <2>1 DEF Known, Busy, Connected
      <4> QED
        BY <2>1, <4>1, <4>2 DEF IdsUnique
    <3> QED
      BY <1>12, <3>1, <3>2 DEF Withdraw
  <2> QED
    BY <2>1, <2>2, ReturnSound
<1> QED
  BY <1>1, <1>2, <1>3, <1>4, <1>5, <1>6, <1>7, <1>8, <1>9, <1>10, <1>11, <1>12, <1>13, <1>14
     DEF McpNext, UserStep

LEMMA McpStepSafe == McpInv /\ [McpNext]_mcpVars => McpInv'
<1>1. CASE McpInv /\ McpNext
  BY <1>1, McpTyped, McpStepSound DEF Sound, McpInv
<1>2. CASE McpInv /\ UNCHANGED mcpVars
  BY <1>2 DEF mcpVars, McpInv, McpTypeOK, OneRequestAtATime, AnswersMatch, Connected,
              IdsUnique, Registered, Known, Busy
<1> QED
  BY <1>1, <1>2

-----------------------------------------------------------------------------
(* The invariant holds in every reachable state.                           *)
THEOREM McpSafety == McpSpec => []McpInv
  BY McpInitSafe, McpStepSafe, PTL DEF McpSpec

(* Requests, answers and users keep to their types.                        *)
THEOREM McpTypes == McpSpec => []McpTypeOK
  BY McpSafety, PTL DEF McpInv

(* No request is given the answer to another, whatever is late, lost or    *)
(* answered out of order, and whatever the server asks in between (the     *)
(* dispatch by id of mcp/stdio.rs).                                        *)
THEOREM McpAnswersMatch == McpSpec => []AnswersMatch
  BY McpSafety, PTL DEF McpInv

(* The mutex of a connection lets one request at a time through.           *)
THEOREM McpOneRequestAtATime == McpSpec => []OneRequestAtATime
  BY McpSafety, PTL DEF McpInv

-----------------------------------------------------------------------------
(* A CALL OF SUBAGENTS: every entry is accounted for, in order             *)

(* A set of numbers that is not empty has a least one.                     *)
LEMMA LeastOf ==
    ASSUME NEW S, S \subseteq Nat, S # {}
    PROVE  \E x \in S : \A y \in S : x <= y
<1>1. IsWellFoundedOn(OpToRel(<, Nat), Nat)
  BY NatLessThanWellFounded
<1>2. PICK x \in S : \A y \in S : ~(<<y, x>> \in OpToRel(<, Nat))
  BY <1>1, WFMin
<1>3. \A y \in S : ~(y < x)
  BY <1>2 DEF OpToRel
<1> QED
  BY <1>3

LEMMA ResultFields ==
    /\ \A x \in SubResult : /\ x.entry \in Nat /\ x.entry \in Entries /\ x.failed \in BOOLEAN
                            /\ x.entry <= MaxEntries
    /\ MaxEntries \in Nat
  BY DispatchAssumption DEF SubResult, Entries

Distinct(s) == \A j, k \in 1..Len(s) : j # k => s[j].entry # s[k].entry

Sorted(s, q) ==
    /\ q \in [DOMAIN s -> {s[k] : k \in DOMAIN s}]
    /\ \A j, k \in DOMAIN s : j < k => q[j].entry < q[k].entry

(* Results of different entries can be sorted: there is no shortest        *)
(* sequence that cannot, as its last entry can be put at the end.          *)
LEMMA CanBeSorted ==
    ASSUME NEW s \in Seq(SubResult), Distinct(s)
    PROVE  \E q : Sorted(s, q)
<1> DEFINE Stuck(r) == Distinct(r) /\ ~\E q : Sorted(r, q)
           Bad == {n \in Nat : \E r \in Seq(SubResult) : Len(r) = n /\ Stuck(r)}
<1> SUFFICES ASSUME Stuck(s) PROVE FALSE
  OBVIOUS
<1>1. Len(s) \in Bad
  OBVIOUS
<1>2. \E n \in Bad : \A m \in Bad : n <= m
  <2>1. Bad \subseteq Nat /\ Bad # {}
    BY <1>1
  <2> HIDE DEF Bad
  <2> QED
    BY <2>1, LeastOf
<1>3. PICK n \in Bad : \A m \in Bad : n <= m
  BY <1>2
<1>4. PICK r \in Seq(SubResult) : Len(r) = n /\ Stuck(r)
  BY <1>3
<1>5. \A k \in 1..n : r[k] \in SubResult /\ r[k].entry \in Nat /\ r[k].entry <= MaxEntries
  <2>1. \A k \in 1..n : r[k] \in SubResult
    BY <1>4
  <2> QED
    BY <2>1, ResultFields
<1>6. n \in Nat /\ n # 0 /\ DOMAIN r = 1..n
  <2>1. ASSUME n = 0 PROVE FALSE
    <3>1. Sorted(r, r)
      BY <1>4, <2>1 DEF Sorted
    <3> QED
      BY <1>4, <3>1
  <2> QED
    BY <1>3, <1>4, <2>1
<1> DEFINE A == {MaxEntries - r[k].entry : k \in 1..n}
<1>7. PICK x \in A : \A y \in A : x <= y
  <2>1. A \subseteq Nat /\ A # {}
    BY <1>5, <1>6, DispatchAssumption
  <2> HIDE DEF A
  <2> QED
    BY <2>1, LeastOf
<1>8. PICK m \in 1..n : x = MaxEntries - r[m].entry
  BY <1>7
<1>9. \A k \in 1..n : k # m => r[k].entry < r[m].entry
  <2> SUFFICES ASSUME NEW k \in 1..n, k # m PROVE r[k].entry < r[m].entry
    OBVIOUS
  <2>1. x <= MaxEntries - r[k].entry
    BY <1>7
  <2>2. r[k].entry # r[m].entry
    BY <1>4 DEF Distinct
  <2>3. r[k].entry \in Nat /\ r[m].entry \in Nat /\ MaxEntries \in Nat
    BY <1>5, DispatchAssumption
  <2>4. MaxEntries - r[m].entry <= MaxEntries - r[k].entry
    BY <1>8, <2>1
  <2> QED
    BY <2>2, <2>3, <2>4
<1> DEFINE t == [k \in 1..(n-1) |-> IF k < m THEN r[k] ELSE r[k+1]]
<1>10. \A k \in 1..(n-1) : \E i \in 1..n : /\ t[k] = r[i] /\ i # m
                                           /\ i = IF k < m THEN k ELSE k + 1
  <2> TAKE k \in 1..(n-1)
  <2> DEFINE i == IF k < m THEN k ELSE k + 1
  <2>1. i \in 1..n /\ i # m /\ t[k] = r[i]
    BY <1>6, <1>8
  <2> QED
    BY <2>1
<1>11. t \in Seq(SubResult) /\ Len(t) = n - 1 /\ DOMAIN t = 1..(n-1) /\ n - 1 \in Nat
  <2>1. \A k \in 1..(n-1) : t[k] \in SubResult
    BY <1>5, <1>10
  <2> QED
    BY <1>6, <2>1
<1>12. Distinct(t)
  BY <1>4, <1>6, <1>10, <1>11 DEF Distinct
<1>13. \E q : Sorted(t, q)
  <2>1. n - 1 \notin Bad
    BY <1>3, <1>6
  <2> QED
    BY <1>11, <1>12, <2>1
<1> HIDE DEF t
<1>14. PICK q : Sorted(t, q)
  BY <1>13
<1> DEFINE p == [k \in 1..n |-> IF k = n THEN r[m] ELSE q[k]]
<1>15. \A k \in 1..(n-1) : \E i \in 1..n : q[k] = r[i] /\ i # m
  <2> TAKE k \in 1..(n-1)
  <2>1. q[k] \in {t[i] : i \in 1..(n-1)}
    BY <1>11, <1>14 DEF Sorted
  <2>2. PICK i \in 1..(n-1) : q[k] = t[i]
    BY <2>1
  <2> QED
    BY <1>10, <2>2
<1>16. \A k \in 1..n : \E i \in 1..n : p[k] = r[i] /\ (k # n => i # m)
  <2> TAKE k \in 1..n
  <2>1. CASE k = n
    BY <1>8, <2>1
  <2>2. CASE k # n
    <3>1. k \in 1..(n-1)
      BY <1>6, <2>2
    <3> QED
      BY <1>15, <2>2, <3>1
  <2> QED
    BY <2>1, <2>2
<1>17. p \in [1..n -> {r[k] : k \in 1..n}]
  BY <1>16
<1>18. ASSUME NEW j \in 1..n, NEW k \in 1..n, j < k PROVE p[j].entry < p[k].entry
  <2>1. j \in 1..(n-1) /\ p[j] = q[j]
    BY <1>6, <1>18
  <2>2. CASE k = n
    BY <1>9, <1>15, <2>1, <2>2
  <2>3. CASE k # n
    <3>1. k \in 1..(n-1) /\ p[k] = q[k]
      BY <1>6, <2>3
    <3> QED
      BY <1>11, <1>14, <1>18, <2>1, <3>1 DEF Sorted
  <2> QED
    BY <2>2, <2>3
<1> HIDE DEF p
<1>19. Sorted(r, p)
  BY <1>6, <1>17, <1>18 DEF Sorted
<1> QED
  BY <1>4, <1>19

(* And then each of them has its place.                                    *)
LEMMA InOrderIs ==
    ASSUME NEW s \in Seq(SubResult), Distinct(s)
    PROVE  LET q == InOrder(s) IN
           /\ q \in Seq(SubResult) /\ Len(q) = Len(s)
           /\ \A j, k \in 1..Len(s) : j < k => q[j].entry < q[k].entry
           /\ \A k \in 1..Len(s) : \E j \in 1..Len(s) : q[k] = s[j]
           /\ \A k \in 1..Len(s) : \E j \in 1..Len(s) : s[k] = q[j]
<1> DEFINE q == InOrder(s)
           n == Len(s)
           R == {s[k] : k \in 1..n}
<1>1. n \in Nat /\ DOMAIN s = 1..n /\ \A k \in 1..n : s[k] \in SubResult
  OBVIOUS
<1>2. Sorted(s, q)
  BY CanBeSorted DEF InOrder, Sorted
<1> HIDE DEF q
<1>3. q \in [1..n -> R] /\ \A j, k \in 1..n : j < k => q[j].entry < q[k].entry
  BY <1>1, <1>2 DEF Sorted
<1>4. \A x \in R : x \in SubResult /\ x.entry \in Nat
  BY <1>1, DispatchAssumption DEF SubResult, Entries
<1>5. q \in Seq(SubResult) /\ Len(q) = n
  BY <1>1, <1>3, <1>4
<1>6. IsFiniteSet(1..n) /\ IsFiniteSet(R) /\ Cardinality(R) = Cardinality(1..n)
  <2>1. IsFiniteSet(1..n)
    BY <1>1, FS_Interval
  <2>2. s \in Bijection(1..n, R)
    BY <1>1 DEF Distinct, Bijection, Injection, Surjection, IsInjective
  <2> QED
    BY <2>1, <2>2, FS_Bijection DEF ExistsBijection
<1>7. q \in Injection(1..n, R)
  <2>1. ASSUME NEW j \in 1..n, NEW k \in 1..n, q[j] = q[k] PROVE j = k
    <3>1. q[j] \in R
      BY <1>3
    <3>2. ~(j < k) /\ ~(k < j)
      BY <1>3, <1>4, <2>1, <3>1
    <3> QED
      BY <1>1, <3>2
  <2> QED
    BY <1>3, <2>1 DEF Injection, IsInjective
<1>8. q \in Surjection(1..n, R)
  BY <1>6, <1>7, FS_Injection
<1>9. /\ \A k \in 1..n : \E j \in 1..n : q[k] = s[j]
      /\ \A k \in 1..n : \E j \in 1..n : s[k] = q[j]
  BY <1>3, <1>8 DEF Surjection
<1> QED
  BY <1>3, <1>5, <1>9 DEF q

-----------------------------------------------------------------------------
SubRecord ==
    [pc : {"none", "queued", "starting", "streaming", "tools", "returned", "panicked", "dropped"},
     round : 0..MaxAgentRounds, failed : BOOLEAN]

(* What was collected is what the subagents of the request returned.       *)
Collected ==
    \A k \in 1..Len(indexed) :
        /\ indexed[k].entry \in Asked
        /\ sub[indexed[k].entry].pc = "returned"
        /\ sub[indexed[k].entry].failed = indexed[k].failed

(* All tasks of a request are spawned, and only a dropped call drops one.  *)
TasksAtWork ==
    /\ \A i \in Entries \ Asked : sub[i].pc = "none"
    /\ \A i \in Asked : sub[i].pc \notin {"none", "dropped"}

(* A chain has succeeded so far, and runs its next step alone.             *)
ChainAtWork ==
    /\ Len(indexed) < request.size
    /\ \A k \in 1..Len(indexed) : indexed[k].entry = k /\ ~indexed[k].failed
    /\ sub[Len(indexed) + 1].pc \in Holding \cup {"returned"}
    /\ \A i \in Entries : i > Len(indexed) + 1 => sub[i].pc = "none"

DispatchInv ==
    /\ DispatchTypeOK
    /\ Distinct(indexed) /\ Collected
    /\ \A i \in Entries : sub[i].pc \in {"none", "queued", "starting"} => sub[i].round = 0
    /\ call = "ready" => indexed = <<>> /\ \A i \in Entries : sub[i].pc = "none"
    /\ \A i \in Entries :
          stream[i] = "open" => sub[i].pc = "streaming" \/ call \in {"dropped", "panicked"}
    /\ call = "working" =>
          \/ request.mode = "tasks" /\ TasksAtWork
          \/ request.mode = "chain" /\ ChainAtWork
    /\ VerdictAccounts

LEMMA DispatchTypes ==
    ASSUME DispatchTypeOK
    PROVE  /\ request.size \in Nat /\ request.size <= MaxEntries /\ Asked \subseteq Entries
           /\ \A i \in Entries : sub[i] \in SubRecord /\ sub[i].failed \in BOOLEAN
           /\ indexed \in Seq(SubResult) /\ Len(indexed) \in Nat
           /\ \A k \in 1..Len(indexed) : indexed[k] \in SubResult
           /\ DOMAIN indexed = 1..Len(indexed)
           /\ sub \in [Entries -> SubRecord]
<1>1. request.size \in 0..MaxEntries /\ indexed \in Seq(SubResult) /\ sub \in [Entries -> SubRecord]
  BY DEF DispatchTypeOK, SubRecord
<1>2. request.size \in Nat /\ request.size <= MaxEntries /\ Asked \subseteq Entries
  BY <1>1, ResultFields DEF Asked, Entries
<1>3. \A i \in Entries : sub[i] \in SubRecord /\ sub[i].failed \in BOOLEAN
  BY <1>1 DEF SubRecord
<1>4. /\ Len(indexed) \in Nat /\ \A k \in 1..Len(indexed) : indexed[k] \in SubResult
      /\ DOMAIN indexed = 1..Len(indexed)
  BY <1>1
<1> QED
  BY <1>1, <1>2, <1>3, <1>4

LEMMA DispatchInitSafe == DispatchInit => DispatchInv
<1> SUFFICES ASSUME DispatchInit PROVE DispatchInv
  OBVIOUS
<1>1. <<>> \in Seq(SubResult) /\ Len(<<>>) = 0
  OBVIOUS
<1>2. DispatchTypeOK
  BY <1>1, DispatchAssumption DEF DispatchInit, DispatchTypeOK
<1>3. indexed = <<>> /\ Len(indexed) = 0 /\ call = "ready"
      /\ \A i \in Entries : sub[i].pc = "none" /\ sub[i].round = 0 /\ stream[i] = "none"
  BY <1>1 DEF DispatchInit
<1>4. Distinct(indexed) /\ Collected /\ VerdictAccounts
  BY <1>3 DEF Distinct, Collected, VerdictAccounts
<1> QED
  BY <1>2, <1>3, <1>4 DEF DispatchInv

(* A step of one subagent.                                                 *)
LEMMA SubMoves ==
    ASSUME DispatchInv, NEW i \in Entries, sub[i].pc \in Alive, NEW m \in SubRecord,
           sub' = [sub EXCEPT ![i] = m],
           m.pc \in Holding \cup {"returned", "panicked", "dropped"},
           m.pc = "dropped" => call = "dropped", m.pc = "starting" => m.round = 0,
           stream' \in [Entries -> {"none", "open", "ok", "failed"}],
           \A j \in Entries \ {i} : stream'[j] = "open" => stream[j] = "open",
           stream'[i] = "open" => m.pc = "streaming" \/ call \in {"dropped", "panicked"},
           UNCHANGED <<request, indexed, answer>>,
           \/ call' = call /\ (m.pc = "panicked" => request.mode # "chain")
           \/ call' = "panicked"
    PROVE  DispatchInv'
<1>0. DispatchTypeOK /\ Collected /\ Distinct(indexed)
  BY DEF DispatchInv
<1>1. DispatchTypeOK'
  BY <1>0 DEF DispatchTypeOK, SubRecord
<1>2. sub'[i] = m /\ \A j \in Entries \ {i} : sub'[j] = sub[j]
  BY <1>0 DEF DispatchTypes, DispatchTypeOK
<1>3. call # "ready"
  BY DEF DispatchInv, Alive, Holding
<1>4. Collected' /\ Distinct(indexed)'
  <2>1. \A k \in 1..Len(indexed) : indexed[k].entry \in Entries /\ indexed[k].entry # i
    BY <1>0, DispatchTypes, ResultFields DEF Collected, Alive, Holding
  <2> QED
    BY <1>0, <1>2, <2>1 DEF Collected, Asked
<1>8. \A j \in Entries : sub'[j].pc \in {"none", "queued", "starting"} => sub'[j].round = 0
  BY <1>2 DEF DispatchInv, Holding
<1>5. \A j \in Entries :
          stream'[j] = "open" => sub'[j].pc = "streaming" \/ call' \in {"dropped", "panicked"}
  BY <1>2 DEF DispatchInv
<1>6. ASSUME call' = "working"
      PROVE  \/ request'.mode = "tasks" /\ TasksAtWork'
             \/ request'.mode = "chain" /\ ChainAtWork'
  <2>1. call = "working"
    BY <1>6
  <2>2. CASE request.mode = "tasks" /\ TasksAtWork
    BY <1>2, <2>1, <2>2 DEF TasksAtWork, Asked, Alive, Holding
  <2>3. CASE request.mode = "chain" /\ ChainAtWork
    <3>1. i = Len(indexed) + 1
      <4>1. Len(indexed) \in Nat /\ i \in Nat /\ i >= 1
        BY <1>0, DispatchTypes, ResultFields DEF Entries
      <4>2. ~(i > Len(indexed) + 1)
        BY <2>3 DEF ChainAtWork, Alive, Holding
      <4>3. i \notin 1..Len(indexed)
        BY <1>0, <2>3 DEF ChainAtWork, Collected, Alive, Holding
      <4> QED
        BY <4>1, <4>2, <4>3
    <3>2. m.pc \in Holding \cup {"returned"}
      BY <1>6, <2>1, <2>3
    <3>3. \A j \in Entries : j > Len(indexed) + 1 => sub'[j] = sub[j]
      BY <1>0, <1>2, <3>1, DispatchTypes
    <3> QED
      BY <1>2, <2>3, <3>1, <3>2, <3>3 DEF ChainAtWork
  <2> QED
    BY <2>1, <2>2, <2>3 DEF DispatchInv
<1>7. VerdictAccounts'
  <2> SUFFICES ASSUME call' = "returned", ~Rejects(request.mode, request.size) PROVE FALSE
    BY DEF VerdictAccounts, Rejects
  <2>1. call = "returned"
    OBVIOUS
  <2> QED
    BY <2>1 DEF DispatchInv, VerdictAccounts
<1> QED
  BY <1>1, <1>3, <1>4, <1>5, <1>6, <1>7, <1>8 DEF DispatchInv

LEMMA SubRecords ==
    ASSUME NEW m \in SubRecord
    PROVE  /\ m.failed \in BOOLEAN /\ m.round \in Nat
           /\ \A p \in Holding : [m EXCEPT !.pc = p] \in SubRecord
           /\ \A f \in BOOLEAN : [pc |-> "returned", round |-> 0, failed |-> f] \in SubRecord
           /\ Gone("panicked") \in SubRecord /\ Gone("dropped") \in SubRecord
  BY DispatchAssumption DEF SubRecord, Holding, Gone

LEMMA SubStepSafe ==
    ASSUME DispatchInv, NEW i \in Entries, SubStep(i)
    PROVE  DispatchInv'
<1>0. /\ DispatchTypeOK /\ sub[i] \in SubRecord /\ sub[i].failed \in BOOLEAN
      /\ stream \in [Entries -> {"none", "open", "ok", "failed"}]
  BY DispatchTypes DEF DispatchInv, DispatchTypeOK
<1>1. stream[i] = "open" => sub[i].pc = "streaming" \/ call \in {"dropped", "panicked"}
  BY DEF DispatchInv
<1>2. CASE Acquire(i)
  <2> DEFINE m == [sub[i] EXCEPT !.pc = "starting"]
  <2>1. /\ sub' = [sub EXCEPT ![i] = m] /\ sub[i].pc = "queued"
        /\ UNCHANGED <<request, call, stream, indexed, answer>>
    BY <1>2 DEF Acquire
  <2>2. m \in SubRecord /\ m.pc = "starting" /\ m.round = 0
    BY <1>0, <2>1 DEF SubRecord, DispatchInv
  <2> HIDE DEF m
  <2> QED
    BY <1>0, <1>1, <2>1, <2>2, SubMoves DEF Alive, Holding
<1>3. CASE Unresolved(i)
  <2> DEFINE m == [pc |-> "returned", round |-> 0, failed |-> TRUE]
  <2>1. /\ sub' = [sub EXCEPT ![i] = m] /\ sub[i].pc = "starting"
        /\ UNCHANGED <<request, call, stream, indexed, answer>>
    BY <1>3 DEF Unresolved, ReturnSub
  <2>2. m \in SubRecord /\ m.pc = "returned"
    BY <1>0, SubRecords
  <2> HIDE DEF m
  <2> QED
    BY <1>0, <1>1, <2>1, <2>2, SubMoves DEF Alive, Holding
<1>4. ASSUME OpenStream(i), sub[i].pc \in {"starting", "tools"}, sub[i].round < MaxAgentRounds
      PROVE  DispatchInv'
  <2> DEFINE m == [sub[i] EXCEPT !.pc = "streaming", !.round = sub[i].round + 1]
  <2>1. /\ sub' = [sub EXCEPT ![i] = m] /\ stream' = [stream EXCEPT ![i] = "open"]
        /\ UNCHANGED <<request, call, indexed, answer>>
    BY <1>4 DEF OpenStream
  <2>a. sub[i].round + 1 \in 0..MaxAgentRounds
    BY <1>0, <1>4, SubRecords, DispatchAssumption
  <2>2. m \in SubRecord /\ m.pc = "streaming"
    BY <1>0, <2>a DEF SubRecord
  <2> HIDE DEF m
  <2>3. /\ stream' \in [Entries -> {"none", "open", "ok", "failed"}]
        /\ \A j \in Entries \ {i} : stream'[j] = stream[j]
    BY <1>0, <2>1
  <2> QED
    BY <1>0, <1>4, <2>1, <2>2, <2>3, SubMoves DEF Alive, Holding
<1>5. ASSUME NEW f \in BOOLEAN, ReturnSub(i, f), sub[i].pc \in {"streaming", "tools"},
             stream' = stream \/ stream' = [stream EXCEPT ![i] = "none"],
             stream'[i] = "open" => call \in {"dropped", "panicked"},
             UNCHANGED <<request, call, indexed, answer>>
      PROVE  DispatchInv'
  <2> DEFINE m == [pc |-> "returned", round |-> 0, failed |-> f]
  <2>1. sub' = [sub EXCEPT ![i] = m]
    BY <1>5 DEF ReturnSub
  <2>2. m \in SubRecord /\ m.pc = "returned"
    BY <1>0, SubRecords
  <2> HIDE DEF m
  <2>3. /\ stream' \in [Entries -> {"none", "open", "ok", "failed"}]
        /\ \A j \in Entries \ {i} : stream'[j] = stream[j]
    BY <1>0, <1>5
  <2> QED
    BY <1>0, <1>5, <2>1, <2>2, <2>3, SubMoves DEF Alive, Holding
<1>6. CASE HearEnd(i)
  <2>1. /\ sub[i].pc = "streaming" /\ stream' = [stream EXCEPT ![i] = "none"]
        /\ UNCHANGED <<request, call, indexed, answer>>
    BY <1>6 DEF HearEnd
  <2>2. stream'[i] = "none"
    BY <1>0, <2>1
  <2>3. CASE \E f \in BOOLEAN : ReturnSub(i, f)
    BY <1>5, <2>1, <2>2, <2>3
  <2>4. ASSUME NEW f \in BOOLEAN, sub' = [sub EXCEPT ![i].pc = "tools", ![i].failed = f]
        PROVE  DispatchInv'
    <3> DEFINE m == [sub[i] EXCEPT !.pc = "tools", !.failed = f]
    <3>1. sub' = [sub EXCEPT ![i] = m]
      BY <2>4
    <3>2. m \in SubRecord /\ m.pc = "tools"
      BY <1>0 DEF SubRecord
    <3> HIDE DEF m
    <3>3. /\ stream' \in [Entries -> {"none", "open", "ok", "failed"}]
          /\ \A j \in Entries \ {i} : stream'[j] = stream[j]
      BY <1>0, <2>1
    <3> QED
      BY <2>1, <2>2, <3>1, <3>2, <3>3, SubMoves DEF Alive, Holding
  <2> QED
    BY <1>6, <2>3, <2>4 DEF HearEnd
<1>7. CASE TimeOut(i)
  <2>1. stream'[i] = "none"
    BY <1>0, <1>7 DEF TimeOut
  <2> QED
    BY <1>5, <1>7, <2>1 DEF TimeOut
<1>8. CASE ToolsEnd(i)
  BY <1>0, <1>1, <1>4, <1>5, <1>8 DEF ToolsEnd
<1>9. CASE ToolsPanic(i)
  <2>1. /\ sub[i].pc = "tools" /\ sub' = [sub EXCEPT ![i] = Gone("panicked")]
        /\ UNCHANGED <<request, stream, indexed, answer>>
        /\ (call' = call /\ request.mode # "chain") \/ call' = "panicked"
    BY <1>9 DEF ToolsPanic
  <2>2. Gone("panicked") \in SubRecord /\ Gone("panicked").pc = "panicked"
    BY <1>0, SubRecords DEF Gone
  <2> QED
    BY <1>0, <1>1, <2>1, <2>2, SubMoves DEF Alive, Holding
<1>10. CASE EndAborted(i)
  <2>1. /\ sub[i].pc \in Alive /\ call = "dropped" /\ sub' = [sub EXCEPT ![i] = Gone("dropped")]
        /\ UNCHANGED <<request, call, stream, indexed, answer>>
    BY <1>10 DEF EndAborted
  <2>2. Gone("dropped") \in SubRecord /\ Gone("dropped").pc = "dropped"
    BY <1>0, SubRecords DEF Gone
  <2> QED
    BY <1>0, <1>1, <2>1, <2>2, SubMoves DEF Alive, Holding
<1>11. CASE StartAgent(i)
  <2>1. sub[i].round = 0
    BY <1>11 DEF StartAgent, DispatchInv
  <2> QED
    BY <1>4, <1>11, <2>1, DispatchAssumption DEF StartAgent
<1> QED
  BY <1>2, <1>3, <1>6, <1>7, <1>8, <1>9, <1>10, <1>11 DEF SubStep

(* A new result is not yet among those collected.                          *)
LEMMA AppendedResult ==
    ASSUME NEW s \in Seq(SubResult), Distinct(s), NEW x \in SubResult,
           \A k \in 1..Len(s) : s[k].entry # x.entry
    PROVE  LET t == Append(s, x) IN
           /\ t \in Seq(SubResult) /\ Len(t) = Len(s) + 1 /\ Distinct(t)
           /\ t[Len(s) + 1] = x /\ \A k \in 1..Len(s) : t[k] = s[k]
           /\ Len(s) \in Nat
<1> DEFINE t == Append(s, x)
<1>1. /\ t \in Seq(SubResult) /\ Len(t) = Len(s) + 1 /\ Len(s) \in Nat
      /\ t[Len(s) + 1] = x /\ \A k \in 1..Len(s) : t[k] = s[k]
  OBVIOUS
<1> HIDE DEF t
<1>2. Distinct(t)
  BY <1>1 DEF Distinct
<1> QED
  BY <1>1, <1>2 DEF t

LEMMA JoinSafe ==
    ASSUME DispatchInv, NEW i \in Entries, JoinNext(i)
    PROVE  DispatchInv'
<1> DEFINE x == [entry |-> i, failed |-> sub[i].failed]
<1>0. /\ DispatchTypeOK /\ Distinct(indexed) /\ Collected /\ indexed \in Seq(SubResult)
      /\ x \in SubResult /\ DOMAIN indexed = 1..Len(indexed) /\ x.entry = i
  BY DispatchTypes DEF DispatchInv, SubResult
<1>1. /\ call = "working" /\ request.mode = "tasks" /\ sub[i].pc = "returned"
      /\ \A k \in 1..Len(indexed) : indexed[k].entry # i
      /\ indexed' = Append(indexed, x)
      /\ UNCHANGED <<request, call, sub, stream, answer>>
  BY <1>0 DEF JoinNext
<1>2. TasksAtWork /\ i \in Asked
  BY <1>1 DEF DispatchInv, TasksAtWork
<1>3. /\ indexed' \in Seq(SubResult) /\ Len(indexed') = Len(indexed) + 1 /\ Distinct(indexed')
      /\ indexed'[Len(indexed) + 1] = x /\ \A k \in 1..Len(indexed) : indexed'[k] = indexed[k]
      /\ Len(indexed) \in Nat
  BY <1>0, <1>1, AppendedResult
<1>4. DispatchTypeOK'
  BY <1>0, <1>1, <1>3 DEF DispatchTypeOK
<1>5. Collected'
  <2> SUFFICES ASSUME NEW k \in 1..Len(indexed')
               PROVE  /\ indexed'[k].entry \in Asked
                      /\ sub[indexed'[k].entry].pc = "returned"
                      /\ sub[indexed'[k].entry].failed = indexed'[k].failed
    BY <1>1 DEF Collected, Asked
  <2>1. CASE k = Len(indexed) + 1
    BY <1>1, <1>2, <1>3, <2>1
  <2>2. CASE k # Len(indexed) + 1
    <3>1. k \in 1..Len(indexed)
      BY <1>3, <2>2
    <3> QED
      BY <1>0, <1>3, <3>1 DEF Collected
  <2> QED
    BY <2>1, <2>2
<1>6. TasksAtWork'
  BY <1>1, <1>2 DEF TasksAtWork, Asked
<1>7. VerdictAccounts'
  BY <1>1 DEF VerdictAccounts
<1> QED
  BY <1>1, <1>3, <1>4, <1>5, <1>6, <1>7 DEF DispatchInv

LEMMA AssembleSafe ==
    ASSUME DispatchInv, Assemble
    PROVE  DispatchInv'
<1> DEFINE q == InOrder(indexed)
           n == Len(indexed)
<1>0. /\ DispatchTypeOK /\ Distinct(indexed) /\ Collected /\ indexed \in Seq(SubResult)
      /\ DOMAIN indexed = 1..n /\ n \in Nat /\ Asked \subseteq Entries
  BY DispatchTypes DEF DispatchInv
<1>1. /\ call = "working" /\ request.mode = "tasks" /\ AllJoined
      /\ answer' = [isError |-> SomeFailed(indexed), results |-> q] /\ call' = "returned"
      /\ UNCHANGED <<request, sub, stream, indexed>>
  BY DEF Assemble, AnswerCall
<1>2. /\ q \in Seq(SubResult) /\ Len(q) = n
      /\ \A j, k \in 1..n : j < k => q[j].entry < q[k].entry
      /\ \A k \in 1..n : \E j \in 1..n : q[k] = indexed[j]
      /\ \A k \in 1..n : \E j \in 1..n : indexed[k] = q[j]
  BY <1>0, InOrderIs
<1> HIDE DEF q
<1>3. TasksAtWork
  BY <1>1 DEF DispatchInv
<1>4. SomeFailed(indexed) \in BOOLEAN
      /\ (SomeFailed(indexed) <=> \E k \in 1..n : indexed[k].failed)
  BY <1>0 DEF SomeFailed
<1>5. answer'.results = q /\ answer'.isError = SomeFailed(indexed)
  BY <1>1
<1>6. DispatchTypeOK'
  BY <1>0, <1>1, <1>2, <1>4 DEF DispatchTypeOK
<1>7. \A i \in Asked : \/ sub[i].pc = "panicked"
                      \/ \E k \in 1..n : indexed[k].entry = i
  BY <1>0, <1>1 DEF AllJoined
<1>8. DOMAIN q = 1..n
  BY <1>2
<1>9. VerdictAccounts'
  <2>1. \A i \in Entries : sub[i].pc \in {"none", "panicked", "returned"}
    BY <1>0, <1>3, <1>7 DEF Collected, TasksAtWork
  <2>2. \A i \in Entries : sub[i].pc \notin Alive /\ stream[i] # "open"
    BY <1>1, <2>1 DEF DispatchInv, Alive, Holding
  <2>3. \A k \in 1..(n-1) : q[k].entry < q[k+1].entry
    <3> TAKE k \in 1..(n-1)
    <3>1. k \in 1..n /\ k + 1 \in 1..n /\ k < k + 1
      BY <1>0
    <3> QED
      BY <1>2, <3>1
  <2>4. {q[k].entry : k \in 1..n} = {i \in Asked : sub[i].pc = "returned"}
    <3>1. ASSUME NEW k \in 1..n PROVE q[k].entry \in Asked /\ sub[q[k].entry].pc = "returned"
      BY <1>0, <1>2 DEF Collected
    <3>2. ASSUME NEW i \in Asked, sub[i].pc = "returned" PROVE \E k \in 1..n : q[k].entry = i
      <4>1. PICK j \in 1..n : indexed[j].entry = i
        BY <1>7, <3>2
      <4>2. PICK k \in 1..n : indexed[j] = q[k]
        BY <1>2
      <4> QED
        BY <4>1, <4>2
    <3> QED
      BY <3>1, <3>2
  <2>5. \A k \in 1..n : q[k].failed = sub[q[k].entry].failed
    <3> TAKE k \in 1..n
    <3>1. PICK j \in 1..n : q[k] = indexed[j]
      BY <1>2
    <3> QED
      BY <1>0, <3>1 DEF Collected
  <2>6. SomeFailed(indexed) <=> \E i \in Asked : sub[i].pc = "returned" /\ sub[i].failed
    BY <1>0, <1>4, <1>7 DEF Collected
  <2>7. /\ \A i \in Entries : sub'[i].pc \notin Alive /\ stream'[i] # "open"
        /\ \A k \in 1..(Len(q) - 1) : q[k].entry < q[k+1].entry
        /\ {q[k].entry : k \in DOMAIN q} = {i \in Asked' : sub'[i].pc = "returned"}
        /\ \A k \in DOMAIN q : q[k].failed = sub'[q[k].entry].failed
        /\ answer'.isError <=> \E i \in Asked' : sub'[i].pc = "returned" /\ sub'[i].failed
        /\ request'.mode # "chain"
    BY <1>1, <1>2, <1>5, <1>8, <2>2, <2>3, <2>4, <2>5, <2>6 DEF Asked
  <2> QED
    BY <1>5, <2>7, Zenon DEF VerdictAccounts
<1> QED
  BY <1>0, <1>1, <1>6, <1>9 DEF DispatchInv, Collected, Asked

LEMMA DispatchSafe ==
    ASSUME DispatchInv, NEW mode \in {"chain", "tasks", "invalid"}, NEW size \in 0..MaxEntries,
           Dispatch(mode, size)
    PROVE  DispatchInv'
<1>0. /\ DispatchTypeOK /\ sub \in [Entries -> SubRecord] /\ size \in Nat /\ Asked' = 1..size
      /\ \A i \in Entries : i \in Nat /\ i >= 1
  BY DispatchTypes, ResultFields DEF DispatchInv, Dispatch, Asked, Entries
<1>1. /\ call = "ready" /\ indexed = <<>> /\ indexed' = <<>> /\ stream' = stream
      /\ request'.mode = mode /\ request'.size = size
      /\ mode # "invalid" => size > 0
      /\ \A i \in Entries : sub[i].pc = "none" /\ stream[i] # "open" /\ sub[i].round = 0
  BY DEF DispatchInv, Dispatch
<1>2. Len(indexed') = 0 /\ Distinct(indexed') /\ Collected'
  <2>1. Len(indexed') = 0
    BY <1>1
  <2> QED
    BY <2>1 DEF Distinct, Collected
<1>3. request' \in [mode : {"chain", "tasks", "invalid"}, size : 0..MaxEntries]
  BY DEF Dispatch
<1>4. CASE Rejects(mode, size)
  <2>1. answer' = [isError |-> TRUE, results |-> <<>>] /\ call' = "returned" /\ sub' = sub
    BY <1>4 DEF Dispatch, AnswerCall
  <2>2. answer' \in [isError : BOOLEAN, results : Seq(SubResult)]
    BY <2>1
  <2>3. DispatchTypeOK'
    BY <1>0, <1>1, <1>3, <2>1, <2>2 DEF DispatchTypeOK, SubRecord
  <2>4. VerdictAccounts'
    BY <1>1, <1>4 DEF VerdictAccounts, Rejects
  <2> QED
    BY <1>1, <1>2, <2>1, <2>3, <2>4 DEF DispatchInv
<1>5. CASE ~Rejects(mode, size)
  <2>1. /\ sub' = [i \in Entries |->
                      IF mode = "tasks" /\ i <= size THEN [sub[i] EXCEPT !.pc = "queued"]
                      ELSE IF mode = "chain" /\ i = 1 THEN [sub[i] EXCEPT !.pc = "starting"]
                      ELSE sub[i]]
        /\ call' = "working" /\ answer' = answer
    BY <1>5 DEF Dispatch
  <2>2. \A i \in Entries : /\ [sub[i] EXCEPT !.pc = "queued"] \in SubRecord
                           /\ [sub[i] EXCEPT !.pc = "starting"] \in SubRecord
                           /\ [sub[i] EXCEPT !.pc = "queued"].pc = "queued"
                           /\ [sub[i] EXCEPT !.pc = "starting"].pc = "starting"
                           /\ [sub[i] EXCEPT !.pc = "queued"].round = 0
                           /\ [sub[i] EXCEPT !.pc = "starting"].round = 0
    BY <1>0, <1>1 DEF SubRecord
  <2>3. \A i \in Entries : /\ sub'[i] \in SubRecord /\ sub'[i].round = 0
                           /\ sub'[i].pc = IF mode = "tasks" /\ i <= size THEN "queued"
                                           ELSE IF mode = "chain" /\ i = 1 THEN "starting"
                                           ELSE "none"
    <3> TAKE i \in Entries
    <3>0. sub'[i] = IF mode = "tasks" /\ i <= size THEN [sub[i] EXCEPT !.pc = "queued"]
                    ELSE IF mode = "chain" /\ i = 1 THEN [sub[i] EXCEPT !.pc = "starting"]
                    ELSE sub[i]
      BY <2>1
    <3>1. sub[i] \in SubRecord
      BY <1>0
    <3> QED
      BY <1>1, <2>2, <3>0, <3>1
  <2>4. sub' \in [Entries -> SubRecord]
    BY <2>1, <2>3
  <2>5. DispatchTypeOK'
    BY <1>0, <1>1, <1>3, <2>1, <2>4 DEF DispatchTypeOK, SubRecord
  <2>6. ASSUME mode = "tasks" PROVE TasksAtWork'
    <3>1. \A i \in Entries : i \in Asked' <=> i <= size
      BY <1>0
    <3>2. Asked' \subseteq Entries
      BY <1>0, ResultFields DEF Entries
    <3>3. \A i \in Entries : sub'[i].pc = IF i \in Asked' THEN "queued" ELSE "none"
      BY <2>3, <2>6, <3>1
    <3> QED
      BY <3>2, <3>3 DEF TasksAtWork
  <2>7. ASSUME mode = "chain" PROVE ChainAtWork'
    <3>0. size \in 1..MaxEntries /\ 1 \in Entries
      BY <1>0, <1>1, <2>7, ResultFields DEF Entries
    <3>1. Len(indexed') + 1 = 1
      BY <1>2
    <3> QED
      BY <1>0, <1>1, <1>2, <2>3, <2>7, <3>0, <3>1 DEF ChainAtWork, Holding
  <2>8. mode # "invalid"
    BY <1>5 DEF Rejects
  <2>9. VerdictAccounts'
    BY <2>1 DEF VerdictAccounts
  <2>10. \/ request'.mode = "tasks" /\ TasksAtWork'
         \/ request'.mode = "chain" /\ ChainAtWork'
    BY <1>1, <2>6, <2>7, <2>8
  <2> QED
    BY <1>1, <1>2, <2>1, <2>3, <2>5, <2>9, <2>10 DEF DispatchInv
<1> QED
  BY <1>4, <1>5

LEMMA FollowSafe ==
    ASSUME DispatchInv, NEW i \in Entries, Follow(i)
    PROVE  DispatchInv'
<1> DEFINE x == [entry |-> i, failed |-> sub[i].failed]
           n == Len(indexed)
<1>0. /\ DispatchTypeOK /\ Distinct(indexed) /\ Collected /\ indexed \in Seq(SubResult)
      /\ x \in SubResult /\ x.entry = i /\ x.failed = sub[i].failed /\ n \in Nat
      /\ \A k \in 1..n : indexed[k] \in SubResult
      /\ Asked \subseteq Entries /\ sub \in [Entries -> SubRecord] /\ sub[i].failed \in BOOLEAN
      /\ request.size \in Nat /\ i \in Nat /\ request.size <= MaxEntries
      /\ \A j \in Entries : j \in Nat /\ j >= 1
  BY DispatchTypes, ResultFields DEF DispatchInv, SubResult, Entries
<1>1. /\ call = "working" /\ request.mode = "chain" /\ sub[i].pc = "returned"
      /\ i = n + 1 /\ indexed' = Append(indexed, x)
      /\ UNCHANGED <<request, stream>>
  BY DEF Follow
<1>2. ChainAtWork
  BY <1>1 DEF DispatchInv
<1>3. \A k \in 1..n : indexed[k].entry # x.entry
  BY <1>0, <1>1, <1>2 DEF ChainAtWork
<1>4. /\ indexed' \in Seq(SubResult) /\ Len(indexed') = n + 1 /\ Distinct(indexed')
      /\ indexed'[n + 1] = x /\ \A k \in 1..n : indexed'[k] = indexed[k]
  BY <1>0, <1>1, <1>3, AppendedResult
<1> HIDE DEF x
<1>5. /\ n < request.size /\ i \in Asked
      /\ \A k \in 1..n : indexed[k].entry = k /\ ~indexed[k].failed
      /\ \A j \in Entries : j > n + 1 => sub[j].pc = "none"
  BY <1>0, <1>1, <1>2 DEF ChainAtWork, Asked
<1>6. \A k \in 1..(n + 1) : /\ indexed'[k].entry = k
                            /\ indexed'[k].failed = sub[k].failed /\ sub[k].pc = "returned"
                            /\ k \in Asked /\ k \in Entries
                            /\ k # n + 1 => ~sub[k].failed
  <2> TAKE k \in 1..(n + 1)
  <2>1. CASE k = n + 1
    BY <1>0, <1>1, <1>4, <1>5, <2>1
  <2>2. CASE k # n + 1
    <3>1. k \in 1..n
      BY <1>0, <2>2
    <3> QED
      BY <1>0, <1>4, <1>5, <3>1 DEF Collected
  <2> QED
    BY <2>1, <2>2
<1>7. CASE sub[i].failed \/ i = request.size
  <2>1. /\ answer' = [isError |-> sub[i].failed, results |-> indexed'] /\ call' = "returned"
        /\ sub' = sub
    BY <1>0, <1>1, <1>7, Zenon DEF Follow, AnswerCall, x
  <2>2. answer'.results = indexed' /\ answer'.isError = sub[i].failed
    BY <2>1
  <2>3. answer' \in [isError : BOOLEAN, results : Seq(SubResult)]
    BY <1>0, <1>4, <2>1
  <2>4. DispatchTypeOK'
    BY <1>0, <1>1, <1>4, <2>1, <2>3 DEF DispatchTypeOK
  <2>5. Collected'
    BY <1>0, <1>1, <1>4, <1>6, <2>1 DEF Collected, Asked
  <2>6. DOMAIN indexed' = 1..(n + 1)
    BY <1>4
  <2>7. \A j \in Entries : j \in 1..(n + 1) \/ sub[j].pc = "none"
    BY <1>0, <1>5
  <2>8. \A j \in Entries : sub[j].pc \notin Alive /\ stream[j] # "open"
    BY <1>1, <1>6, <2>7 DEF DispatchInv, Alive, Holding
  <2>9. \A k \in 1..((n + 1) - 1) : indexed'[k].entry < indexed'[k + 1].entry
    <3> TAKE k \in 1..((n + 1) - 1)
    <3>1. k \in 1..(n + 1) /\ k + 1 \in 1..(n + 1) /\ k < k + 1
      BY <1>0
    <3> QED
      BY <1>6, <3>1
  <2>10. {indexed'[k].entry : k \in 1..(n + 1)} = {j \in Asked : sub[j].pc = "returned"}
    <3>1. \A k \in 1..(n + 1) : indexed'[k].entry \in {j \in Asked : sub[j].pc = "returned"}
      BY <1>6
    <3>2. \A j \in Asked : sub[j].pc = "returned" => j \in 1..(n + 1) /\ indexed'[j].entry = j
      BY <1>0, <1>6, <2>7
    <3> QED
      BY <3>1, <3>2
  <2>11. sub[i].failed <=> \E j \in Asked : sub[j].pc = "returned" /\ sub[j].failed
    BY <1>0, <1>1, <1>5, <1>6, <2>7
  <2>12. \A j \in Asked : sub[j].pc = "returned" <=> \A k \in 1..(j - 1) : ~sub[k].failed
    <3> TAKE j \in Asked
    <3>1. j \in Entries /\ j \in 1..request.size
      BY <1>0 DEF Asked
    <3>2. CASE j \in 1..(n + 1)
      <4>1. \A k \in 1..(j - 1) : k \in 1..(n + 1) /\ k # n + 1
        BY <1>0, <3>2
      <4> QED
        BY <1>6, <3>2, <4>1
    <3>3. CASE j \notin 1..(n + 1)
      <4>1. sub[j].pc = "none" /\ j \in Nat /\ j > n + 1
        BY <1>0, <2>7, <3>1, <3>3
      <4>2. n + 1 \in 1..(j - 1) /\ sub[n + 1].failed
        BY <1>0, <1>1, <1>7, <3>1, <4>1
      <4> QED
        BY <4>1, <4>2
    <3> QED
      BY <3>2, <3>3
  <2>13. VerdictAccounts'
    <3>0. sub' = sub /\ stream' = stream /\ Asked' = Asked
      BY <1>1, <2>1 DEF Asked
    <3>1. \A j \in Entries : sub'[j].pc \notin Alive /\ stream'[j] # "open"
      BY <2>8, <3>0
    <3>2. \A k \in 1..(Len(indexed') - 1) : indexed'[k].entry < indexed'[k + 1].entry
      BY <1>4, <2>9
    <3>3. {indexed'[k].entry : k \in DOMAIN indexed'} = {j \in Asked' : sub'[j].pc = "returned"}
      BY <2>6, <2>10, <3>0
    <3>4. \A k \in DOMAIN indexed' : indexed'[k].failed = sub'[indexed'[k].entry].failed
      BY <1>6, <2>6, <3>0
    <3>5. answer'.isError <=> \E j \in Asked' : sub'[j].pc = "returned" /\ sub'[j].failed
      BY <2>2, <2>11, <3>0
    <3>6. \A j \in Asked' : sub'[j].pc = "returned" <=> \A k \in 1..(j - 1) : ~sub'[k].failed
      BY <2>12, <3>0
    <3> QED
      BY <2>2, <3>1, <3>2, <3>3, <3>4, <3>5, <3>6 DEF VerdictAccounts
  <2> QED
    BY <1>1, <1>4, <2>1, <2>4, <2>5, <2>13 DEF DispatchInv
<1>8. CASE ~(sub[i].failed \/ i = request.size)
  <2> DEFINE m == [sub[i + 1] EXCEPT !.pc = "starting"]
  <2>1. /\ sub' = [sub EXCEPT ![i + 1] = m] /\ call' = call /\ answer' = answer
    BY <1>8 DEF Follow
  <2>2. /\ i + 1 \in Entries /\ i + 1 > n + 1 /\ i + 1 \in Nat
        /\ sub[i + 1].pc = "none" /\ sub[i + 1].round = 0 /\ sub[i + 1] \in SubRecord
        /\ n + 1 < request.size
    <3>1. i + 1 \in Nat /\ i + 1 > n + 1 /\ n + 1 < request.size /\ i + 1 \in 1..MaxEntries
      BY <1>0, <1>1, <1>5, <1>8, ResultFields
    <3> QED
      BY <1>0, <1>5, <3>1 DEF DispatchInv, Entries
  <2>3. m \in SubRecord /\ m.pc = "starting" /\ m.round = 0
    BY <2>2 DEF SubRecord
  <2> HIDE DEF m
  <2>4. sub' \in [Entries -> SubRecord] /\ sub'[i + 1] = m
        /\ \A j \in Entries : j # i + 1 => sub'[j] = sub[j]
    BY <1>0, <2>1, <2>2, <2>3
  <2>5. DispatchTypeOK'
    BY <1>0, <1>1, <1>4, <2>1, <2>4 DEF DispatchTypeOK, SubRecord
  <2>6. \A k \in 1..(n + 1) : k # i + 1 /\ sub'[k] = sub[k]
    BY <1>0, <1>1, <1>6, <2>4
  <2>7. Collected'
    BY <1>1, <1>4, <1>6, <2>6 DEF Collected, Asked
  <2>8. \A j \in Entries : stream'[j] = "open" =>
            sub'[j].pc = "streaming" \/ call' \in {"dropped", "panicked"}
    BY <1>1, <2>1, <2>2, <2>4 DEF DispatchInv
  <2>9. ChainAtWork'
    <3>1. Len(indexed') = i
      BY <1>1, <1>4
    <3>2. \A k \in 1..i : indexed'[k].entry = k /\ ~indexed'[k].failed
      BY <1>1, <1>6, <1>8
    <3>3. \A j \in Entries : j > i + 1 => sub'[j].pc = "none"
      BY <1>0, <1>1, <1>5, <2>4
    <3> QED
      BY <1>1, <2>2, <2>3, <2>4, <3>1, <3>2, <3>3 DEF ChainAtWork, Holding
  <2>10. VerdictAccounts'
    BY <1>1, <2>1 DEF VerdictAccounts
  <2>11. \A j \in Entries : sub'[j].pc \in {"none", "queued", "starting"} => sub'[j].round = 0
    BY <2>3, <2>4 DEF DispatchInv
  <2> QED
    BY <1>1, <1>4, <2>1, <2>5, <2>7, <2>8, <2>9, <2>10, <2>11 DEF DispatchInv
<1> QED
  BY <1>7, <1>8

LEMMA RoundStreamEndsSafe ==
    ASSUME DispatchInv, NEW i \in Entries, RoundStreamEnds(i)
    PROVE  DispatchInv'
<1>1. PICK how \in {"ok", "failed"} : stream' = [stream EXCEPT ![i] = how]
  BY DEF RoundStreamEnds
<1>2. UNCHANGED <<request, call, sub, indexed, answer>>
  BY DEF RoundStreamEnds
<1>3. /\ stream' \in [Entries -> {"none", "open", "ok", "failed"}]
      /\ \A j \in Entries : stream'[j] = "open" => stream[j] = "open"
  BY <1>1 DEF DispatchInv, DispatchTypeOK
<1>4. DispatchTypeOK' /\ Collected'
  BY <1>2, <1>3 DEF DispatchInv, DispatchTypeOK, Collected, Asked
<1>5. TasksAtWork' = TasksAtWork /\ ChainAtWork' = ChainAtWork
  BY <1>2 DEF TasksAtWork, ChainAtWork, Asked
<1>6. VerdictAccounts'
  BY <1>2, <1>3 DEF DispatchInv, VerdictAccounts, Asked
<1> QED
  BY <1>2, <1>3, <1>4, <1>5, <1>6 DEF DispatchInv

LEMMA DropCallSafe ==
    ASSUME DispatchInv, DropCall
    PROVE  DispatchInv'
<1>0. DispatchTypeOK /\ sub \in [Entries -> SubRecord] /\ Gone("dropped") \in SubRecord
  BY DispatchTypes, DispatchAssumption DEF DispatchInv, Gone, SubRecord
<1>1. /\ call = "working" /\ call' = "dropped" /\ indexed' = <<>>
      /\ UNCHANGED <<request, stream, answer>>
  BY DEF DropCall
<1>2. sub' \in [Entries -> SubRecord]
      /\ \A i \in Entries : sub'[i] = sub[i] \/ sub'[i] = Gone("dropped")
  BY <1>0 DEF DropCall
<1>3. Len(indexed') = 0
  BY <1>1
<1>4. DispatchTypeOK' /\ Collected' /\ Distinct(indexed') /\ VerdictAccounts'
  BY <1>0, <1>1, <1>2, <1>3
     DEF DispatchTypeOK, SubRecord, Collected, Distinct, VerdictAccounts
<1>5. \A i \in Entries : sub'[i].pc \in {"none", "queued", "starting"} => sub'[i].round = 0
  BY <1>2 DEF DispatchInv, Gone
<1> QED
  BY <1>1, <1>4, <1>5 DEF DispatchInv

LEMMA DispatchStepSafe == DispatchInv /\ [DispatchNext]_dispatchVars => DispatchInv'
<1> SUFFICES ASSUME DispatchInv, [DispatchNext]_dispatchVars PROVE DispatchInv'
  OBVIOUS
<1>1. CASE UNCHANGED dispatchVars
  BY <1>1 DEF DispatchInv, DispatchTypeOK, Distinct, Collected, TasksAtWork, ChainAtWork,
              VerdictAccounts, Asked, dispatchVars
<1>2. CASE DispatchNext
  BY <1>2, DispatchSafe, AssembleSafe, SubStepSafe, JoinSafe, FollowSafe, RoundStreamEndsSafe,
     DropCallSafe DEF DispatchNext, DispatchStep
<1> QED
  BY <1>1, <1>2

(* However the subagents of a request end, fail, time out, panic or are    *)
(* dropped, and in whatever order: the results that dispatch collects are  *)
(* of different entries and as those returned; a chain has succeeded so    *)
(* far and runs one step alone; a call that returns leaves nobody at work, *)
(* answers in the order of the request and is an error exactly when one of *)
(* its subagents failed.                                                   *)
THEOREM TheCallAccounts == DispatchSpec => []VerdictAccounts
<1>1. DispatchInv => VerdictAccounts
  BY DEF DispatchInv
<1> QED
  BY <1>1, DispatchInitSafe, DispatchStepSafe, PTL DEF DispatchSpec
=============================================================================
