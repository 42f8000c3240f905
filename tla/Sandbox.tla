------------------------------ MODULE Sandbox -------------------------------
(***************************************************************************)
(* Code-execution runs (sandbox.rs) and the announcement of their ends     *)
(* (agent/mod.rs).  A run has an entry in the store, a task (execute_run)  *)
(* that spawns its child process and waits for it, a watchdog, a poller    *)
(* and whatever clients ask: start, kill.  Each action is one critical     *)
(* section of the store's mutex or of the set of announced ends, or a move *)
(* of the child.                                                           *)
(*                                                                         *)
(* A kill marks the entry and signals the child it finds there; nothing    *)
(* reads what lies between the two, so they are one step.  The watchdog    *)
(* marks and looks up the child in two critical sections, hence two steps. *)
(*                                                                         *)
(* External: the operating system, which delivers the signal to a child of *)
(* ours that lives (kill_pid's result is discarded, and nothing is tried   *)
(* again).                                                                 *)
(***************************************************************************)
EXTENDS Naturals, FiniteSets

CONSTANTS
    Runs,           \* run ids
    Previews,       \* those started with mode "web", all for one project
    Polled,         \* those started, and killed, through the WebSocket
    MaxRetained     \* MAX_RETAINED_RUNS

ASSUME SandboxAssumption ==
    /\ IsFiniteSet(Runs)
    /\ Previews \subseteq Runs
    /\ Polled \subseteq Runs
    /\ MaxRetained \in Nat

VARIABLES
    entry,       \* the entries of the store
    born,        \* startedAt of each run: its place among the runs started
    starter,     \* where start_run(r) is
    stale,       \* the previews start_run(r) has still to supersede
    task,        \* where execute_run(r) is
    verdict,     \* the status execute_run(r) is about to record
    child,       \* the child process of each run
    watchdog,    \* the watchdog of each run
    poller,      \* spawn_sandbox_end_poller of each run
    killer,      \* the sandbox.kill request for each run
    emitted,     \* END_EMITTED
    forgetting,  \* evicted runs whose END_EMITTED flag is still to be dropped
    ends         \* how many sandbox_end were sent for each run

vars == <<entry, born, starter, stale, task, verdict, child, watchdog,
          poller, killer, emitted, forgetting, ends>>

Terminal == {"done", "error", "killed"}
Entry    == [status : {"absent", "running"} \cup Terminal,
             killed : BOOLEAN,      \* killed_by_us
             held   : BOOLEAN]      \* process is Some

Present(r) == entry[r].status # "absent"
Over(r)    == entry[r].status \in Terminal

SandboxTypeOK ==
    /\ entry \in [Runs -> Entry]
    /\ born \in [Runs -> Nat]
    /\ starter \in [Runs -> {"idle", "superseding", "pruning", "returned"}]
    /\ stale \in [Runs -> SUBSET Runs]
    /\ task \in [Runs -> {"none", "queued", "preparing", "spawned", "waiting",
                          "reaped", "finishing", "pruning", "ended"}]
    /\ verdict \in [Runs -> Terminal]
    /\ child \in [Runs -> {"none", "alive", "succeeded", "failed", "signalled"}]
    /\ watchdog \in [Runs -> {"off", "armed", "marked"}]
    /\ poller \in [Runs -> {"none", "watching", "seen", "stopped"}]
    /\ killer \in [Runs -> {"none", "announcing", "answered"}]
    /\ emitted \subseteq Runs
    /\ forgetting \subseteq Runs
    /\ ends \in [Runs -> Nat]

Init ==
    /\ entry = [r \in Runs |-> [status |-> "absent", killed |-> FALSE, held |-> FALSE]]
    /\ born = [r \in Runs |-> 0]
    /\ starter = [r \in Runs |-> "idle"]
    /\ stale = [r \in Runs |-> {}]
    /\ task = [r \in Runs |-> "none"]
    /\ verdict = [r \in Runs |-> "error"]
    /\ child = [r \in Runs |-> "none"]
    /\ watchdog = [r \in Runs |-> "off"]
    /\ poller = [r \in Runs |-> "none"]
    /\ killer = [r \in Runs |-> "none"]
    /\ emitted = {}
    /\ forgetting = {}
    /\ ends = [r \in Runs |-> 0]

announcing == <<poller, killer, emitted, forgetting, ends>>
executing  == <<task, verdict, watchdog>>

-----------------------------------------------------------------------------
(* kill_run_by_id on a running run: marked, recorded as killed at once,    *)
(* and the child it holds is signalled.                                    *)
Signalled(r) == [child EXCEPT ![r] = IF @ = "alive" THEN "signalled" ELSE @]

Kill(r) ==
    IF entry[r].status = "running"
    THEN /\ entry' = [entry EXCEPT ![r] = [status |-> "killed", killed |-> TRUE,
                                           held |-> FALSE]]
         /\ child' = IF entry[r].held THEN Signalled(r) ELSE child
    ELSE UNCHANGED <<entry, child>>

(* prune_finished_runs, its first critical section: beyond MaxRetained the *)
(* oldest runs that are over leave the store.  Only polled runs have flags. *)
Older(r) == {q \in Runs : Over(q) /\ born[q] < born[r]}

Evicted ==
    {r \in Runs : Over(r) /\ Cardinality(Older(r)) + MaxRetained
                               < Cardinality({q \in Runs : Present(q)})}

Prune ==
    /\ entry' = [r \in Runs |-> IF r \in Evicted
                    THEN [status |-> "absent", killed |-> FALSE, held |-> FALSE]
                    ELSE entry[r]]
    /\ forgetting' = forgetting \cup (Evicted \cap Polled)

(* Its second: the flags of the evicted runs are dropped.                  *)
Forget(r) ==
    /\ r \in forgetting
    /\ forgetting' = forgetting \ {r}
    /\ emitted' = emitted \ {r}
    /\ UNCHANGED <<entry, born, starter, stale, executing, child, poller, killer, ends>>

-----------------------------------------------------------------------------
(* start_run: a new preview first supersedes the running ones of its       *)
(* project, one by one from a list; then it is inserted; then it prunes    *)
(* and spawns execute_run.  Started through the WebSocket it gets a poller.*)
PriorWithProcess(r) == {q \in Previews : r \in Previews /\ entry[q].held}  \* mutant

Prior(r) == {q \in Previews : r \in Previews /\ entry[q].status = "running"}

StartRun(r) ==
    /\ starter[r] = "idle"
    /\ starter' = [starter EXCEPT ![r] = "superseding"]
    /\ stale' = [stale EXCEPT ![r] = Prior(r)]
    /\ UNCHANGED <<entry, born, executing, child, announcing>>

Supersede(r) ==
    /\ \E q \in stale[r] :
        /\ Kill(q)
        /\ stale' = [stale EXCEPT ![r] = @ \ {q}]
    /\ UNCHANGED <<born, starter, executing, announcing>>

Insert(r) ==
    /\ starter[r] = "superseding"
    /\ stale[r] = {}
    /\ starter' = [starter EXCEPT ![r] = "pruning"]
    /\ entry' = [entry EXCEPT ![r].status = "running"]
    /\ born' = [born EXCEPT ![r] = 1 + Cardinality({q \in Runs : born[q] > 0})]
    /\ UNCHANGED <<stale, executing, child, announcing>>

Launch(r) ==
    /\ starter[r] = "pruning"
    /\ Prune
    /\ starter' = [starter EXCEPT ![r] = "returned"]
    /\ task' = [task EXCEPT ![r] = "queued"]
    /\ poller' = [poller EXCEPT ![r] = IF r \in Polled THEN "watching" ELSE @]
    /\ UNCHANGED <<born, stale, verdict, child, watchdog, killer, emitted, ends>>

-----------------------------------------------------------------------------
(* execute_run.  A run cancelled before its task began is left alone.      *)
Begin(r) ==
    /\ task[r] = "queued"
    /\ task' = [task EXCEPT ![r] =
            IF ~Present(r) \/ (entry[r].killed /\ ~entry[r].held) THEN "ended"
                                                               ELSE "preparing"]
    /\ UNCHANGED <<entry, born, starter, stale, verdict, child, watchdog, announcing>>

(* The script cannot be written, or there is no containment.               *)
PrepareFails(r) ==
    /\ task[r] = "preparing"
    /\ task' = [task EXCEPT ![r] = "finishing"]
    /\ verdict' = [verdict EXCEPT ![r] = "error"]
    /\ UNCHANGED <<entry, born, starter, stale, child, watchdog, announcing>>

(* Mutant: whether the run was cancelled is not looked at again.           *)
MaySpawnAnyway(r) == Present(r)

MaySpawn(r) == Present(r) /\ ~entry[r].killed

(* Cancellation and spawn under one lock.                                  *)
Spawn(r) ==
    /\ task[r] = "preparing"
    /\ MaySpawn(r)
    /\ entry' = [entry EXCEPT ![r].held = TRUE]
    /\ child' = [child EXCEPT ![r] = "alive"]
    /\ task' = [task EXCEPT ![r] = "spawned"]
    /\ UNCHANGED <<born, starter, stale, verdict, watchdog, announcing>>

SpawnFails(r) == MaySpawn(r) /\ PrepareFails(r)

SpawnCancelled(r) ==
    /\ task[r] = "preparing"
    /\ ~MaySpawn(r)
    /\ task' = [task EXCEPT ![r] = "ended"]
    /\ UNCHANGED <<entry, born, starter, stale, verdict, child, watchdog, announcing>>

(* Mutant: a run of no timeout.                                            *)
ArmNone(r) == watchdog

Arm(r) == [watchdog EXCEPT ![r] = "armed"]

(* A kill that raced the spawn is carried out now; the watchdog is armed.  *)
Watch(r) ==
    /\ task[r] = "spawned"
    /\ child' = IF ~Present(r) \/ entry[r].killed THEN Signalled(r) ELSE child
    /\ watchdog' = Arm(r)
    /\ task' = [task EXCEPT ![r] = "waiting"]
    /\ UNCHANGED <<entry, born, starter, stale, verdict, announcing>>

WatchdogMarks(r) ==
    /\ watchdog[r] = "armed"
    /\ watchdog' = [watchdog EXCEPT ![r] = "marked"]
    /\ entry' = [entry EXCEPT ![r].killed = Present(r)]
    /\ UNCHANGED <<born, starter, stale, task, verdict, child, announcing>>

WatchdogKills(r) ==
    /\ watchdog[r] = "marked"
    /\ watchdog' = [watchdog EXCEPT ![r] = "off"]
    /\ child' = IF entry[r].held THEN Signalled(r) ELSE child
    /\ UNCHANGED <<entry, born, starter, stale, task, verdict, announcing>>

(* The child ends by itself.                                               *)
ChildExits(r) ==
    /\ child[r] = "alive"
    /\ child' \in {[child EXCEPT ![r] = how] : how \in {"succeeded", "failed"}}
    /\ UNCHANGED <<entry, born, starter, stale, executing, announcing>>

(* The child and its pipes are closed and the watchdog is aborted, unless  *)
(* its timer has just gone off: a task that runs is not interrupted.       *)
Reap(r) ==
    /\ task[r] = "waiting"
    /\ child[r] # "alive"
    /\ task' = [task EXCEPT ![r] = "reaped"]
    /\ \/ watchdog[r] = "armed" /\ watchdog' = [watchdog EXCEPT ![r] = "off"]
       \/ UNCHANGED watchdog
    /\ UNCHANGED <<entry, born, starter, stale, verdict, child, announcing>>

(* Mutant: killed is what the store already calls killed.                  *)
VerdictByStatus(r) ==
    IF entry[r].status = "killed" THEN "killed"
    ELSE IF child[r] = "succeeded" THEN "done" ELSE "error"

Verdict(r) ==
    IF entry[r].killed THEN "killed"
    ELSE IF child[r] = "succeeded" THEN "done" ELSE "error"

Judge(r) ==
    /\ task[r] = "reaped"
    /\ verdict' = [verdict EXCEPT ![r] = Verdict(r)]
    /\ task' = [task EXCEPT ![r] = "finishing"]
    /\ UNCHANGED <<entry, born, starter, stale, child, watchdog, announcing>>

(* Mutant: the exit path has the last word.                                *)
FinishedAnyway(r) ==
    IF Present(r) THEN [entry[r] EXCEPT !.held = FALSE, !.status = verdict[r]]
    ELSE entry[r]

FinishedEntry(r) ==
    IF entry[r].status = "running"
    THEN [entry[r] EXCEPT !.held = FALSE, !.status = verdict[r]]
    ELSE [entry[r] EXCEPT !.held = FALSE]

(* The verdict goes out of scope.                                          *)
Finish(r) ==
    /\ task[r] = "finishing"
    /\ entry' = [entry EXCEPT ![r] = FinishedEntry(r)]
    /\ verdict' = [verdict EXCEPT ![r] = "error"]
    /\ task' = [task EXCEPT ![r] = "pruning"]
    /\ UNCHANGED <<born, starter, stale, child, watchdog, announcing>>

End(r) ==
    /\ task[r] = "pruning"
    /\ Prune
    /\ task' = [task EXCEPT ![r] = "ended"]
    /\ UNCHANGED <<born, starter, stale, verdict, child, watchdog, poller, killer,
                   emitted, ends>>

-----------------------------------------------------------------------------
(* POST /runs/:id/kill, and the sandbox.kill message, which also announces *)
(* the end (after 200 ms if it killed the run).  A client knows the id of  *)
(* a run once start_run has returned.                                      *)
RestKill(r) ==
    /\ starter[r] = "returned"
    /\ entry[r].status = "running"
    /\ Kill(r)
    /\ UNCHANGED <<born, starter, stale, executing, announcing>>

KillMessage(r) ==
    /\ r \in Polled
    /\ starter[r] = "returned"
    /\ killer[r] = "none"
    /\ Kill(r)
    /\ killer' = [killer EXCEPT ![r] = "announcing"]
    /\ UNCHANGED <<born, starter, stale, executing, poller, emitted, forgetting, ends>>

(* Mutant: sent whoever has sent it before.                                *)
AnnounceAgain(r) == emitted' = emitted \cup {r} /\ ends' = [ends EXCEPT ![r] = @ + 1]

(* try_mark_end_emitted: the first to claim the end sends it.              *)
Announce(r) ==
    /\ emitted' = emitted \cup {r}
    /\ ends' = IF r \in emitted THEN ends ELSE [ends EXCEPT ![r] = @ + 1]

KillAnnounces(r) ==
    /\ killer[r] = "announcing"
    /\ killer' = [killer EXCEPT ![r] = "answered"]
    /\ Announce(r)
    /\ UNCHANGED <<entry, born, starter, stale, executing, child, poller, forgetting>>

PollerSees(r) ==
    /\ poller[r] = "watching"
    /\ Over(r)
    /\ poller' = [poller EXCEPT ![r] = "seen"]
    /\ UNCHANGED <<entry, born, starter, stale, executing, child, killer, emitted,
                   forgetting, ends>>

PollerAnnounces(r) ==
    /\ poller[r] = "seen"
    /\ poller' = [poller EXCEPT ![r] = "stopped"]
    /\ Announce(r)
    /\ UNCHANGED <<entry, born, starter, stale, executing, child, killer, forgetting>>

(* Its deadline is a time of its own, kept whatever the run is doing.      *)
PollerGivesUp(r) ==
    /\ poller[r] = "watching"
    /\ poller' = [poller EXCEPT ![r] = "stopped"]
    /\ UNCHANGED <<entry, born, starter, stale, executing, child, killer, emitted,
                   forgetting, ends>>

-----------------------------------------------------------------------------
TaskStep(r) ==
    \/ Begin(r) \/ PrepareFails(r) \/ Spawn(r) \/ SpawnFails(r) \/ SpawnCancelled(r)
    \/ Watch(r) \/ Reap(r) \/ Judge(r) \/ Finish(r) \/ End(r)

WatchdogStep(r) == WatchdogMarks(r) \/ WatchdogKills(r)
PollerStep(r)   == PollerSees(r) \/ PollerAnnounces(r) \/ PollerGivesUp(r)

Step(r) ==
    \/ StartRun(r) \/ Supersede(r) \/ Insert(r) \/ Launch(r)
    \/ TaskStep(r) \/ WatchdogStep(r) \/ PollerStep(r) \/ ChildExits(r)
    \/ RestKill(r) \/ KillMessage(r) \/ KillAnnounces(r) \/ Forget(r)

Next == \E r \in Runs : Step(r)

(* Tasks and timers are kept going by the runtime.  A child owes nothing:  *)
(* it may run for ever; nor do clients.                                    *)
Spec ==
    /\ Init
    /\ [][Next]_vars
    /\ \A r \in Runs : WF_vars(TaskStep(r)) /\ WF_vars(WatchdogStep(r))
                      /\ WF_vars(PollerStep(r))

-----------------------------------------------------------------------------
(* PROPERTIES                                                              *)

(* "A cancellation accepted during script I/O or the containment probe     *)
(* must prevent execution": a run that is reported ended, or is gone from  *)
(* the store, has no live child, whichever of kill, supersede, watchdog,   *)
(* eviction and exit came first.                                           *)
NoLiveAfterEnd == \A r \in Runs : child[r] = "alive" => entry[r].status = "running"

(* The status tells how the child ended: done and error only if it ended   *)
(* by itself, although timeout, kill and natural exit race for the record. *)
TruthfulStatus ==
    \A r \in Runs :
        /\ entry[r].status = "done" => child[r] = "succeeded"
        /\ entry[r].status = "error" => child[r] \in {"none", "failed"}

(* While a run is in the store its end is announced at most once, by the   *)
(* poller or by the kill handler, and never before it has ended.           *)
EndAnnouncedOnce ==
    \A r \in Runs : Present(r) => ends[r] <= (IF Over(r) THEN 1 ELSE 0)

(* A recorded end is not rewritten by a later finish or kill.              *)
EndIsFinal ==
    [][\A r \in Runs : Over(r) =>
        entry'[r].status \in {entry[r].status, "absent"}]_vars

(* Every run that was launched ends, even if its child never would.        *)
EveryRunEnds ==
    \A r \in Runs :
        []<>(task[r] # "none" => task[r] = "ended" /\ entry[r].status # "running")

(* "Web previews are single-occupancy per project."                        *)
SingleOccupancy ==
    \A q, r \in Previews :
        entry[q].status = "running" /\ entry[r].status = "running" => q = r

(* They are as long as no two start_run of previews are between superseding *)
(* and inserting at once: a preview that is queued, preparing its script,  *)
(* killed but not yet gone or timed out is superseded like a live one.     *)
StartsApart ==
    \A q, r \in Previews :
        starter[q] = "superseding" /\ starter[r] = "superseding" => q = r

OneAtATime == []StartsApart => []SingleOccupancy
=============================================================================
