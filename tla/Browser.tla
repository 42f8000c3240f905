------------------------------ MODULE Browser -------------------------------
(***************************************************************************)
(* One browser session on Linux (browser.rs): the request that starts it,  *)
(* requests that act on its page and requests that stop it, each an HTTP   *)
(* task of its own.  They take turns under the mutex "operation"; stop()   *)
(* marks the session disposed before it waits for that mutex.  A task is   *)
(* dropped where it awaits when its client disconnects.                    *)
(*                                                                         *)
(* External: the scope, that is the supervisor process and the browser in  *)
(* its PID namespace, which runs a command, fails it, hangs, or dies; and  *)
(* the file system, which may fail to remove the profile.                  *)
(***************************************************************************)
EXTENDS Naturals

CONSTANTS
    Starter,       \* the task of start()
    Actors,        \* tasks of act()
    Stoppers,      \* tasks of stop()
    NoTask,
    ShortTimeout   \* DOTZ_BROWSER_TIMEOUT_MS is below CLOSE_TIMEOUT

Tasks == {Starter} \cup Actors \cup Stoppers

ASSUME BrowserAssumption ==
    /\ NoTask \notin Tasks
    /\ Starter \notin Actors \cup Stoppers /\ Actors \cap Stoppers = {}
    /\ ShortTimeout \in BOOLEAN

VARIABLES
    record,      \* the session in SESSIONS: its flags, or absent
    known,       \* whether the record is in the map
    scope,       \* the scope whose handle the record holds
    processes,   \* whether the scope's processes live
    profile,     \* whether the profile directory exists
    operation,   \* who holds the mutex, or NoTask
    seq,         \* observation.seq
    page,        \* counts the changes of the page
    observed,    \* the rest of the observation: the page its elements and
                 \* frame were taken from, and whether its status is "ready"
    task,        \* where each task is
    dropped      \* whether some task was dropped

browserVars == <<record, known, scope, processes, profile, operation, seq, page,
                 observed, task, dropped>>

Flags == [disposed : BOOLEAN, started : BOOLEAN, poisoned : BOOLEAN, terminated : BOOLEAN]
Observation == [page : Nat, ready : BOOLEAN]

(* What a client has read: the observation and, for the properties only,   *)
(* what the page was like then.                                            *)
Sight == [seq : Nat, page : Nat, ready : BOOLEAN, looked : Nat]

BrowserTypeOK ==
    /\ record \in Flags
    /\ known \in BOOLEAN
    /\ scope \in {"none", "starting", "ready"}
    /\ processes \in BOOLEAN /\ profile \in BOOLEAN
    /\ operation \in Tasks \cup {NoTask}
    /\ seq \in Nat /\ page \in Nat
    /\ observed \in Observation
    /\ task \in [Tasks ->
          [pc    : {"none", "queued", "checking", "open", "command", "observe",
                    "stopping", "closing", "terminating", "removing", "done"},
           sent  : BOOLEAN,       \* run() has passed its check
           sight : Sight,         \* what the client acts upon
           bound : BOOLEAN,       \* it quotes sight.seq
           term  : BOOLEAN]]      \* stop_locked saw a scope to terminate
    /\ dropped \in BOOLEAN

(* GET state serves the observation as it is, also while a command runs    *)
(* and after one has failed.                                               *)
Look == [seq |-> seq, page |-> observed.page, ready |-> observed.ready, looked |-> page]

(* Its status is no longer "ready"; elements, refs and frame stay.         *)
Spoilt == [observed EXCEPT !.ready = FALSE]

Fresh == [pc |-> "none", sent |-> FALSE, bound |-> FALSE, term |-> FALSE,
          sight |-> [seq |-> 0, page |-> 0, ready |-> FALSE, looked |-> 0]]

BrowserInit ==
    /\ record = [disposed |-> FALSE, started |-> FALSE, poisoned |-> FALSE,
                 terminated |-> FALSE]
    /\ known = FALSE /\ scope = "none" /\ processes = FALSE /\ profile = FALSE
    /\ operation = NoTask
    /\ seq = 0 /\ page = 0
    /\ observed = [page |-> 0, ready |-> FALSE]
    /\ task = [t \in Tasks |-> Fresh]
    /\ dropped = FALSE

GoOn(t, pc) == task' = [task EXCEPT ![t].pc = pc, ![t].sent = FALSE]

(* The task returns; its guard on the mutex is dropped.                    *)
Done(t) ==
    /\ task' = [task EXCEPT ![t] = [Fresh EXCEPT !.pc = "done"]]
    /\ operation' = IF operation = t THEN NoTask ELSE operation

theScope == <<scope, processes>>
thePage  == <<page, observed>>

-----------------------------------------------------------------------------
(* How the requests begin.                                                 *)

(* start(): the profile directory and the record.                          *)
StartSession ==
    /\ task[Starter].pc = "none"
    /\ profile' = TRUE /\ known' = TRUE
    /\ GoOn(Starter, "queued")
    /\ UNCHANGED <<record, theScope, operation, seq, thePage, dropped>>

(* act(): a client that has read the observation quotes its sequence       *)
(* number, or acts without.                                                *)
SendAct(a) ==
    /\ known /\ task[a].pc = "none"
    /\ \E bound \in BOOLEAN :
          task' = [task EXCEPT ![a].pc = "queued", ![a].bound = bound,
                              ![a].sight = IF bound THEN Look ELSE @]
    /\ UNCHANGED <<record, known, theScope, profile, operation, seq, thePage, dropped>>

(* stop(), dispose_all(): the session is disposed before the mutex.        *)
SendStop(s) ==
    /\ known /\ task[s].pc = "none"
    /\ record' = [record EXCEPT !.disposed = TRUE]
    /\ GoOn(s, "queued")
    /\ UNCHANGED <<known, theScope, profile, operation, seq, thePage, dropped>>

TakeTurn(t) ==
    /\ task[t].pc = "queued" /\ operation = NoTask
    /\ operation' = t
    /\ GoOn(t, CASE t = Starter -> "open" [] t \in Actors -> "checking" [] OTHER -> "stopping")
    /\ UNCHANGED <<record, known, theScope, profile, seq, thePage, dropped>>

(* act() reads the record under the mutex: gone, disposed or stale ends    *)
(* it; otherwise the status is "acting".                                   *)
CheckAct(a) ==
    /\ task[a].pc = "checking"
    /\ IF ~known \/ record.disposed \/ (task[a].bound /\ task[a].sight.seq # seq)
       THEN Done(a) /\ UNCHANGED observed
       ELSE GoOn(a, "command") /\ observed' = Spoilt /\ UNCHANGED operation
    /\ UNCHANGED <<record, known, theScope, profile, seq, page, dropped>>

-----------------------------------------------------------------------------
(* run(): one command of agent-browser.                                    *)

(* Mutant: a failed action does not advance seq.                           *)
FailedQuietly(t, flags, s) ==
    /\ record' = flags
    /\ seq' = s
    /\ observed' = Spoilt
    /\ IF t = Starter THEN GoOn(t, "stopping") /\ UNCHANGED operation ELSE Done(t)

(* What start() and act() do with an error: fail() sets the status and     *)
(* advances seq unless the session is disposed, which a timeout has done   *)
(* for it (s # seq); start() then tears the session down.                  *)
Failed(t, flags, s) ==
    /\ record' = flags
    /\ seq' = IF flags.disposed THEN s ELSE s + 1
    /\ observed' = IF flags.disposed /\ s = seq THEN observed ELSE Spoilt
    /\ IF t = Starter THEN GoOn(t, "stopping") /\ UNCHANGED operation ELSE Done(t)

CommandPcs == {"open", "command", "observe"}

(* The check, and the scope: it is there, is spawned, or cannot be.        *)
RunStart(t) ==
    /\ task[t].pc \in CommandPcs /\ ~task[t].sent
    /\ \/ /\ record.disposed \/ scope = "none"
          /\ Failed(t, record, seq)
          /\ UNCHANGED theScope
       \/ /\ ~record.disposed
          /\ task' = [task EXCEPT ![t].sent = TRUE]
          /\ IF scope = "none"
             THEN scope' = "starting" /\ processes' = TRUE ELSE UNCHANGED theScope
          /\ record' = [record EXCEPT !.started = TRUE]
          /\ UNCHANGED <<operation, seq, observed>>
    /\ UNCHANGED <<known, profile, page, dropped>>

Past(t) == task[t].pc \in CommandPcs /\ task[t].sent
Sent(t) == Past(t) /\ scope = "ready"

(* wait_ready of a new scope.                                              *)
RunReady(t) ==
    /\ Past(t) /\ scope = "starting"
    /\ \/ /\ processes
          /\ scope' = "ready"
          /\ UNCHANGED <<record, operation, seq, observed, task>>
       \/ /\ Failed(t, [record EXCEPT !.poisoned = TRUE], seq)
          /\ UNCHANGED scope
    /\ UNCHANGED <<known, processes, profile, page, dropped>>

(* A command that opens a page or acts changes it.                         *)
Changes(t) == task[t].pc \in {"open", "command"}

RunOk(t) ==
    /\ Sent(t) /\ processes
    /\ IF Changes(t)
       THEN /\ page' = page + 1
            /\ GoOn(t, "observe")
            /\ UNCHANGED <<operation, seq, observed>>
       ELSE /\ seq' = seq + 1
            /\ observed' = [page |-> page, ready |-> TRUE]
            /\ Done(t)
            /\ UNCHANGED page
    /\ UNCHANGED <<record, known, theScope, profile, dropped>>

(* The command fails, having changed the page or not.                      *)
RunError(t) ==
    /\ Sent(t)
    /\ page' \in {page, IF Changes(t) THEN page + 1 ELSE page}
    /\ Failed(t, record, seq)
    /\ UNCHANGED <<known, theScope, profile, dropped>>

(* Mutant: the scope counts as terminated whether its end is verified or   *)
(* not.                                                                    *)
ScopeCutLoose(flags) ==
    /\ scope' = "none" /\ processes' \in {processes, FALSE}
    /\ flags = [record EXCEPT !.disposed = TRUE, !.poisoned = TRUE, !.terminated = TRUE]

(* The command timed out: the scope is terminated, or its end is not       *)
(* verified; no further command is accepted either way.                    *)
ScopeCut(flags) ==
    \/ /\ scope' = "none" /\ processes' = FALSE
       /\ flags = [record EXCEPT !.disposed = TRUE, !.poisoned = TRUE, !.terminated = TRUE]
    \/ /\ processes' \in {processes, FALSE}
       /\ flags = [record EXCEPT !.disposed = TRUE, !.poisoned = TRUE]
       /\ UNCHANGED scope

RunTimeout(t) ==
    /\ Sent(t)
    /\ page' \in {page, IF Changes(t) THEN page + 1 ELSE page}
    /\ \E flags \in Flags : ScopeCut(flags) /\ Failed(t, flags, seq + 1)
    /\ UNCHANGED <<known, profile, dropped>>

-----------------------------------------------------------------------------
(* stop_locked().                                                          *)

StopSnapshot(t) ==
    /\ task[t].pc = "stopping"
    /\ IF ~known THEN Done(t) /\ UNCHANGED record
       ELSE LET term == record.started /\ ~record.terminated IN
            /\ record' = [record EXCEPT !.disposed = TRUE]
            /\ task' = [task EXCEPT ![t].term = term,
                   ![t].pc = IF term /\ ~record.poisoned THEN "closing" ELSE "terminating"]
            /\ UNCHANGED operation
    /\ UNCHANGED <<known, theScope, profile, seq, thePage, dropped>>

(* The close command, whatever comes of it; with a short command timeout   *)
(* it may terminate the scope before CLOSE_TIMEOUT does.                   *)
StopClose(t) ==
    /\ task[t].pc = "closing"
    /\ GoOn(t, "terminating")
    /\ \/ UNCHANGED <<record, theScope, seq, observed>>
       \/ /\ scope = "starting"
          /\ \/ processes /\ scope' = "ready" /\ UNCHANGED record
             \/ record' = [record EXCEPT !.poisoned = TRUE] /\ UNCHANGED scope
          /\ UNCHANGED <<processes, seq, observed>>
       \/ /\ ShortTimeout /\ scope = "ready"
          /\ \E flags \in Flags : ScopeCut(flags) /\ record' = flags
          /\ seq' = seq + 1 /\ observed' = Spoilt
    /\ UNCHANGED <<known, profile, operation, page, dropped>>

(* mark_cleanup_error: the record stays, for a later stop to try again.    *)
CleanupError(t) == seq' = seq + 1 /\ observed' = Spoilt /\ Done(t)

StopTerminate(t) ==
    /\ task[t].pc = "terminating"
    /\ \/ /\ task[t].term => scope # "none"  \* nothing to terminate, or terminated
          /\ IF task[t].term THEN scope' = "none" /\ processes' = FALSE ELSE UNCHANGED theScope
          /\ record' = [record EXCEPT !.terminated = TRUE]
          /\ GoOn(t, "removing")
          /\ UNCHANGED <<operation, seq, observed>>
       \/ /\ task[t].term                   \* no handle, or no verified end
          /\ processes' \in IF scope # "none" THEN {processes, FALSE} ELSE {processes}
          /\ CleanupError(t)
          /\ UNCHANGED <<record, scope>>
    /\ UNCHANGED <<known, profile, page, dropped>>

StopRemove(t) ==
    /\ task[t].pc = "removing"
    /\ \/ /\ profile' = FALSE /\ known' = FALSE
          /\ seq' = seq + 1 /\ observed' = Spoilt
          /\ Done(t)
       \/ CleanupError(t) /\ UNCHANGED <<profile, known>>
    /\ UNCHANGED <<record, theScope, page, dropped>>

-----------------------------------------------------------------------------
(* The client of a task disconnects.  What the task awaited may still      *)
(* happen: the kill, the removal of the directory, the command.            *)
DropTask(t) ==
    /\ task[t].pc \notin {"none", "done"}
    /\ Done(t)
    /\ dropped' = TRUE
    /\ processes' \in IF task[t].pc = "terminating" /\ task[t].term
                      THEN {processes, FALSE} ELSE {processes}
    /\ profile' \in IF task[t].pc = "removing" THEN {profile, FALSE} ELSE {profile}
    /\ page' \in {page, IF Sent(t) /\ Changes(t) THEN page + 1 ELSE page}
    /\ UNCHANGED <<record, known, scope, seq, observed>>

ScopeDies ==
    /\ processes
    /\ processes' = FALSE
    /\ UNCHANGED <<record, known, scope, profile, operation, seq, thePage, task, dropped>>

BrowserNext ==
    \/ StartSession
    \/ \E a \in Actors : SendAct(a) \/ CheckAct(a)
    \/ \E s \in Stoppers : SendStop(s)
    \/ \E t \in Tasks :
          \/ TakeTurn(t) \/ RunStart(t) \/ RunReady(t) \/ RunOk(t) \/ RunError(t) \/ RunTimeout(t)
          \/ StopSnapshot(t) \/ StopClose(t) \/ StopTerminate(t) \/ StopRemove(t)
          \/ DropTask(t)
    \/ ScopeDies

BrowserSpec == BrowserInit /\ [][BrowserNext]_browserVars

-----------------------------------------------------------------------------
(* A session is forgotten, and its profile deleted, only when the processes*)
(* of its scope are gone, however commands, timeouts, stops and dropped    *)
(* requests interleave (stop_locked, mark_scope_terminated).               *)
NoOrphanBrowser ==
    processes => known /\ profile /\ scope # "none" /\ ~record.terminated

(* An action that quotes the sequence number of the observation its client *)
(* has read, at whatever moment, acts on the page as it was then: no other *)
(* action has touched it since, failed ones and timed-out ones included.   *)
(* And if the observation was "ready", its elements and frame are those of *)
(* that page.  One that follows a failure shows older ones under a fresh   *)
(* number, and nothing is said of them.  A request that was dropped        *)
(* half-way is excepted: it has touched the page and advanced nothing.     *)
SeqBindsPage ==
    ~dropped =>
        \A a \in Actors :
            task[a].pc = "command" /\ task[a].bound =>
                /\ task[a].sight.looked = page
                /\ task[a].sight.ready => task[a].sight.page = page

(* Whoever works on the session holds its mutex.                           *)
OneOperationAtATime ==
    \A t \in Tasks : task[t].pc \notin {"none", "queued", "done"} => operation = t
=============================================================================
