-------------------------- MODULE WorkflowRecovery --------------------------
(***************************************************************************)
(* A workflow run and its copy in workflows.json, across crashes of the    *)
(* server.  Every store operation changes the run under the lock, releases *)
(* it, and only then writes the clone it took to the file; the operations  *)
(* of an executor and of its tasks overlap, and a crash may come between   *)
(* any two steps, those of startup_resume included.                        *)
(***************************************************************************)
EXTENDS WorkflowExecutor

CONSTANT MaxCrashes     \* bound: crashes of the server
ASSUME CrashAssumption == MaxCrashes \in Nat

VARIABLES
    disk,       \* the run in workflows.json
    writing,    \* the clone each thread is about to persist (none: empty)
    boot,       \* what the server is doing
    crashes     \* crashes so far

rvars == <<run, pc, todo, task, bus, recorded, overspent,
           disk, writing, boot, crashes>>

(* The values of boot:                                                     *)
(* up        the executor and its tasks are at work                        *)
(* down      startup_resume is about to read the file                      *)
(* restored  the run is back in the active map                             *)
(* resuming  its running steps are marked interrupted                      *)
(* left      the run is in the active map and nobody drives it             *)
(* history   the run had ended; it is not loaded                           *)

(* Thread 0 of an executor is its own loop, thread s the task of step s.   *)
Thread == 0..MaxSteps
NoWrites == [e \in Executors |-> [t \in Thread |-> {}]]

RecoveryInit ==
    /\ Init
    /\ disk = run
    /\ writing = NoWrites
    /\ boot = "up"
    /\ crashes = 0

(* A thread that changed the run persists its clone before its next step.  *)
MayStep(e, t) == boot = "up" /\ writing[e][t] = {}

CloneIfChanged(e, t) ==
    writing' = IF run' = run THEN writing
               ELSE [writing EXCEPT ![e][t] = {run'}]

LoopThread(e) ==
    /\ MayStep(e, 0)
    /\ ExecutorStep(e)
    /\ CloneIfChanged(e, 0)
    /\ UNCHANGED <<disk, boot, crashes>>

(* The task of a step is spawned after its dispatch was persisted; those   *)
(* dispatched before it (the loop goes in order) may be at work already.   *)
Spawned(e, s) ==
    writing[e][0] # {} => \E t \in StepId : t > s /\ task[e][t] # "none"

TaskThread(e, s) ==
    /\ MayStep(e, s)
    /\ Spawned(e, s)
    /\ TaskStep(e, s)
    /\ CloneIfChanged(e, s)
    /\ UNCHANGED <<disk, boot, crashes>>

Persist(e, t) ==
    /\ boot = "up"
    /\ writing[e][t] # {}
    /\ disk' \in writing[e][t]
    /\ writing' = [writing EXCEPT ![e][t] = {}]
    /\ UNCHANGED <<run, pc, todo, task, bus, recorded, overspent, boot, crashes>>

-----------------------------------------------------------------------------
(* A crash takes the active map, the tasks and the bus with it.            *)
Crash ==
    /\ crashes < MaxCrashes
    /\ boot # "down"
    /\ crashes' = crashes + 1
    /\ boot' = "down"
    /\ pc' = [e \in Executors |-> "idle"]
    /\ todo' = [e \in Executors |-> {}]
    /\ task' = [e \in Executors |-> [s \in StepId |-> "none"]]
    /\ bus' = {}
    /\ writing' = NoWrites
    /\ UNCHANGED <<run, recorded, overspent, disk>>

(* restore_for_resume                                                      *)
Restore ==
    /\ boot = "down"
    /\ IF Ended(disk) THEN boot' = "history" ELSE boot' = "restored"
    /\ run' = disk
    /\ UNCHANGED <<pc, todo, task, bus, recorded, overspent, disk, writing, crashes>>

(* Mutant: a run with no step in flight is not resumed.                    *)
MarkIfInFlight ==
    /\ boot = "restored"
    /\ run' = Interrupted(run)
    /\ disk' = run'
    /\ boot' = IF With(run, "running") # {} THEN "resuming" ELSE "left"
    /\ UNCHANGED <<pc, todo, task, bus, recorded, overspent, writing, crashes>>

(* mark_interrupted, which persists before it unlocks, and the test of     *)
(* startup_resume: by the status the run had BEFORE it was marked.         *)
MarkInterrupted ==
    /\ boot = "restored"
    /\ run' = Interrupted(run)
    /\ disk' = run'
    /\ boot' = IF With(run, "running") # {} \/ run.status = "running"
               THEN "resuming" ELSE "left"
    /\ UNCHANGED <<pc, todo, task, bus, recorded, overspent, writing, crashes>>

(* resume_sync, then the executor is spawned.                              *)
Resume ==
    /\ boot = "resuming"
    /\ run' = Resumed(run)
    /\ disk' = run'
    /\ boot' = "up"
    /\ UNCHANGED <<pc, todo, task, bus, recorded, overspent, writing, crashes>>

StartupStep == Restore \/ MarkInterrupted \/ Resume

RecoveryNext ==
    \/ \E e \in Executors : LoopThread(e)
    \/ \E e \in Executors, s \in StepId : TaskThread(e, s)
    \/ \E e \in Executors, t \in Thread : Persist(e, t)
    \/ Crash
    \/ StartupStep

(* The runtime keeps polling the executor and its tasks; a started server  *)
(* runs startup_resume.  Nothing obliges it to crash.                      *)
RecoverySpec ==
    /\ RecoveryInit
    /\ [][RecoveryNext]_rvars
    /\ \A e \in Executors :
        /\ WF_rvars(LoopThread(e))
        /\ \A s \in StepId : WF_rvars(TaskThread(e, s))
        /\ \A t \in Thread : WF_rvars(Persist(e, t))
    /\ WF_rvars(StartupStep)

-----------------------------------------------------------------------------
(* PROPERTIES                                                              *)

(* Across a restart, too, a subagent only runs with the parents of its     *)
(* step done: neither a stale file nor the readiness rule of resume (which *)
(* also lets skipped and failed parents count) starts a step early.        *)
RecoveredOrder == boot = "up" => DependencyOrder

(* The file never claims more than what its own steps account for: a step  *)
(* it calls running or done has all its parents done in the same file,     *)
(* whatever the order in which the clones were written.                    *)
FileAccountsForSteps ==
    \A s \in Steps(disk) :
        disk.st[s] \in {"running", "done"} => ParentsAll(disk, s, {"done"})

(* The executor of a resumed run finds no step marked running that died    *)
(* with the old process.                                                   *)
NoGhostAfterRestart == boot = "up" => NoPhantomRunning

(* startup_resume: "half-finished runs survive a restart".  A run that was *)
(* under way according to the file is driven to its end.                   *)
HalfFinishedRunSurvives ==
    (boot = "down" /\ disk.status \in {"running", "interrupted"}) ~> Ended(run)

(* "a run that was `running` when the server shut down is persisted as     *)
(* `interrupted` on the next boot" and picked up again; one that had ended *)
(* was not running.  Once its executor has returned nothing writes the run *)
(* again: the file, from which the next boot decides, knows that it ended. *)
FileKnowsTheEnd ==
    boot = "up" /\ Ended(run) /\ (\A e \in Executors : pc[e] = "returned") =>
        Ended(disk)
=============================================================================
