----------------------------- MODULE Checkpoint -----------------------------
(***************************************************************************)
(* The git checkpoints of workflow runs (checkpoint.rs): one is saved when *)
(* a run is executed (workflows.rs) or on demand, and a rollback resets a  *)
(* directory to it.  The map of checkpoints is locked for each look, never *)
(* while git works.                                                        *)
(*                                                                         *)
(* External: git.  Each directory is a repository of its own; the commits  *)
(* made in it are numbered, agents only add commits, and a reset takes     *)
(* HEAD back to one.                                                       *)
(***************************************************************************)
EXTENDS Naturals

CONSTANTS
    Executed,      \* runs
    Dirs,          \* directories
    Server,        \* the directory the server runs in
    Home,          \* the project directory of each run
    Savers,        \* requests that save a checkpoint
    Restorers,     \* rollback requests
    NoRun,
    MaxCommits,    \* bounds
    MaxSaves

ASSUME CheckpointAssumption ==
    /\ Server \in Dirs
    /\ Home \in [Executed -> Dirs]
    /\ NoRun \notin Executed
    /\ MaxCommits \in Nat /\ MaxSaves \in Nat

VARIABLES
    head,          \* HEAD of each directory
    checkpoint,    \* the map: of each run its checkpoint, at = 0 for none
    saves,         \* the clock of created_at
    saver,         \* where each request that saves is
    restorer,      \* where each rollback is
    entangled      \* whether a save or a discard overlapped another

checkpointVars == <<head, checkpoint, saves, saver, restorer, entangled>>

Entry == [cwd : Dirs, sha : 0..MaxCommits, at : 0..MaxSaves]

CheckpointTypeOK ==
    /\ head \in [Dirs -> 0..MaxCommits]
    /\ checkpoint \in [Executed -> Entry]
    /\ saves \in 0..MaxSaves
    /\ saver \in [Savers -> [run : Executed \cup {NoRun}, dir : Dirs, sha : 0..MaxCommits]]
    /\ restorer \in [Restorers ->
          [pc  : {"idle", "checked", "found", "reset", "done"},
           run : Executed \cup {NoRun},
           dir : Dirs,
           sha : 0..MaxCommits,
           origin : Dirs]]       \* whose commit sha is
    /\ entangled \in BOOLEAN

Waiting == [pc |-> "idle", run |-> NoRun, dir |-> Server, sha |-> 0, origin |-> Server]

Free == [run |-> NoRun, dir |-> Server, sha |-> 0]

None == [cwd |-> Server, sha |-> 0, at |-> 0]

CheckpointInit ==
    /\ head = [d \in Dirs |-> 0]
    /\ checkpoint = [r \in Executed |-> None]
    /\ saves = 0
    /\ saver = [v \in Savers |-> Free]
    /\ restorer = [t \in Restorers |-> Waiting]
    /\ entangled = FALSE

Has(r) == checkpoint[r].at > 0

Restoring(d) ==
    \E t \in Restorers : restorer[t].pc \in {"checked", "found", "reset"} /\ restorer[t].dir = d

Saving(d, v) == \E w \in Savers \ {v} : saver[w].run # NoRun /\ saver[w].dir = d

-----------------------------------------------------------------------------
(* save_checkpoint reads HEAD ...                                          *)
ReadHead(v, r, d) ==
    /\ saver[v] = Free
    /\ saver' = [saver EXCEPT ![v] = [run |-> r, dir |-> d, sha |-> head[d]]]
    /\ entangled' = (entangled \/ Restoring(d) \/ Saving(d, v))
    /\ UNCHANGED <<head, checkpoint, saves, restorer>>

(* The execute handler saves in the server's directory, POST checkpoint in *)
(* the project's, or the server's when the run has left the active store.  *)
SaveBegins(v) ==
    \E r \in Executed : \E d \in {Server, Home[r]} : ReadHead(v, r, d)

(* ... and then enters the map; an earlier checkpoint of the run is        *)
(* replaced.                                                               *)
Save(v) ==
    LET d == saver[v].dir IN
    /\ saver[v].run # NoRun /\ saves < MaxSaves
    /\ saves' = saves + 1
    /\ checkpoint' = [checkpoint EXCEPT ![saver[v].run] =
                         [cwd |-> d, sha |-> saver[v].sha, at |-> saves + 1]]
    /\ saver' = [saver EXCEPT ![v] = Free]
    /\ entangled' = (entangled \/ Restoring(d))
    /\ UNCHANGED <<head, restorer>>

(* Agents of a run commit.                                                 *)
AgentCommits(d) ==
    /\ head[d] < MaxCommits
    /\ head' = [head EXCEPT ![d] = @ + 1]
    /\ UNCHANGED <<checkpoint, saves, saver, restorer, entangled>>

(* discard_checkpoint.                                                     *)
Discard(r) ==
    /\ Has(r)
    /\ checkpoint' = [checkpoint EXCEPT ![r] = None]
    /\ entangled' = (entangled \/ Restoring(checkpoint[r].cwd))
    /\ UNCHANGED <<head, saves, saver, restorer>>

-----------------------------------------------------------------------------
(* restore_checkpoint.                                                     *)

(* Mutant: the comparison is the wrong way round.                          *)
HasOlder(r) ==
    \E q \in Executed \ {r} :
        /\ checkpoint[q].cwd = checkpoint[r].cwd
        /\ checkpoint[q].at \in 1..(checkpoint[r].at - 1)

(* Refused if a newer checkpoint was saved in the same directory.          *)
HasNewer(r) ==
    \E q \in Executed \ {r} :
        /\ checkpoint[q].cwd = checkpoint[r].cwd
        /\ checkpoint[q].at > checkpoint[r].at

(* The directory is the project's, or the server's when the run has left   *)
(* the active store (cwd_for_run).                                         *)
CheckOrder(t) ==
    /\ restorer[t].pc = "idle"
    /\ \E r \in Executed, d \in Dirs :
          /\ d \in {Home[r], Server}
          /\ Has(r) /\ ~HasNewer(r)
          /\ restorer' = [restorer EXCEPT ![t].pc = "checked", ![t].run = r, ![t].dir = d]
          /\ entangled' = (entangled \/ \E v \in Savers : saver[v].run # NoRun /\ saver[v].dir = d)
    /\ UNCHANGED <<head, checkpoint, saves, saver>>

Quit(t) == restorer' = [restorer EXCEPT ![t] = [Waiting EXCEPT !.pc = "done"]]

(* The map is locked again for the snapshot.                               *)
FindSnapshot(t) ==
    LET c == checkpoint[restorer[t].run] IN
    /\ restorer[t].pc = "checked"
    /\ IF Has(restorer[t].run)
       THEN restorer' = [restorer EXCEPT ![t].pc = "found", ![t].sha = c.sha, ![t].origin = c.cwd]
       ELSE Quit(t)
    /\ UNCHANGED <<head, checkpoint, saves, saver, entangled>>

(* git cat-file knows the commits of its own repository; then git reset,   *)
(* which may fail.                                                         *)
ResetTree(t) ==
    /\ restorer[t].pc = "found"
    /\ \/ /\ restorer[t].origin = restorer[t].dir
          /\ head' = [head EXCEPT ![restorer[t].dir] = restorer[t].sha]
          /\ restorer' = [restorer EXCEPT ![t].pc = "reset"]
       \/ Quit(t) /\ UNCHANGED head
    /\ UNCHANGED <<checkpoint, saves, saver, entangled>>

(* git clean, which may fail to start, and the entry goes, whoever's it is *)
(* by now.                                                                 *)
RemoveEntry(t) ==
    /\ restorer[t].pc = "reset"
    /\ checkpoint' \in {checkpoint, [checkpoint EXCEPT ![restorer[t].run] = None]}
    /\ Quit(t)
    /\ UNCHANGED <<head, saves, saver, entangled>>

Restore(t) == CheckOrder(t) \/ FindSnapshot(t) \/ ResetTree(t) \/ RemoveEntry(t)

CheckpointNext ==
    \/ \E v \in Savers : SaveBegins(v) \/ Save(v)
    \/ \E r \in Executed : Discard(r)
    \/ \E d \in Dirs : AgentCommits(d)
    \/ \E t \in Restorers : Restore(t)

CheckpointSpec == CheckpointInit /\ [][CheckpointNext]_checkpointVars

-----------------------------------------------------------------------------
(* The checkpoints of a directory are a stack: each is a commit HEAD still *)
(* contains and a newer one contains the older ones, so whichever may be   *)
(* rolled back next takes the directory back (the LIFO check).  Reading    *)
(* HEAD, the check and the reset are apart from the looks at the map, so   *)
(* this excepts a save or a discard that overlaps a rollback, or another   *)
(* save, of the same directory.  Rollbacks may overlap each other and      *)
(* agents may commit at any time.                                          *)
CheckpointsStack ==
    ~entangled =>
        \A r \in Executed : Has(r) =>
            /\ checkpoint[r].sha <= head[checkpoint[r].cwd]
            /\ \A q \in Executed :
                  Has(q) /\ checkpoint[q].cwd = checkpoint[r].cwd
                         /\ checkpoint[q].at > checkpoint[r].at
                     => checkpoint[q].sha >= checkpoint[r].sha
=============================================================================
