---------------------------- MODULE HistoryFile -----------------------------
(***************************************************************************)
(* workflows.json, the history of all workflow runs (workflows.rs).  Every *)
(* change of a run is persisted by reading the whole file, editing the     *)
(* copy and writing it back through one temporary file, without a lock;    *)
(* deleting a project does the same to take its runs out.  The server may  *)
(* crash between any two steps.                                            *)
(*                                                                         *)
(* External: the file system.  A name leads to an inode, an open file      *)
(* keeps its inode when the name moves on, and rename replaces the target. *)
(***************************************************************************)
EXTENDS Naturals, FiniteSets

CONSTANTS
    Recorded,      \* the runs
    Doomed,        \* those of the project that is deleted
    Writers,       \* tasks that persist a run
    Purger,        \* the task that deletes the project
    MaxVersion,    \* the contents of a run that are told apart
    Inodes,
    NoInode,
    Torn           \* what a file holds while it is being written

Scribes == Writers \cup {Purger}

ASSUME HistoryAssumption ==
    /\ Doomed \subseteq Recorded
    /\ Purger \notin Writers
    /\ NoInode \notin Inodes
    /\ MaxVersion \in Nat
    /\ IsFiniteSet(Inodes) /\ IsFiniteSet(Writers)
    /\ Cardinality(Inodes) > Cardinality(Writers) + 2

(* A history gives each run the version it has of it, 0 for none.          *)
Histories == [Recorded -> 0..MaxVersion]
Empty     == [r \in Recorded |-> 0]

ASSUME TornAssumption == Torn \notin Histories

VARIABLES
    file,        \* the inode of workflows.json
    tmp,         \* the inode of workflows.json.tmp, or NoInode
    data,        \* what each inode holds
    scribe,      \* where each writer is
    committed,   \* for the property: the history a reader must find
    overlapped   \* whether two writers were ever at work at once

historyVars == <<file, tmp, data, scribe, committed, overlapped>>

Scribe == [pc : {"rest", "read", "open", "written", "direct", "truncated"},
           all : Histories,             \* the edited copy
           inode : Inodes \cup {NoInode}]

HistoryTypeOK ==
    /\ file \in Inodes
    /\ tmp \in Inodes \cup {NoInode}
    /\ data \in [Inodes -> Histories \cup {Torn}]
    /\ scribe \in [Scribes -> Scribe]
    /\ committed \in Histories
    /\ overlapped \in BOOLEAN

Resting == [pc |-> "rest", all |-> Empty, inode |-> NoInode]

HistoryInit ==
    /\ file = CHOOSE i \in Inodes : TRUE
    /\ tmp = NoInode
    /\ data = [i \in Inodes |-> Empty]
    /\ scribe = [w \in Scribes |-> Resting]
    /\ committed = Empty
    /\ overlapped = FALSE

-----------------------------------------------------------------------------
(* read_all: what cannot be parsed counts as no history.                   *)
ReadAll == IF data[file] = Torn THEN Empty ELSE data[file]

(* The read and the edit of the copy.                                      *)
Load(w, all) ==
    /\ scribe[w].pc = "rest"
    /\ scribe' = [scribe EXCEPT ![w].pc = "read", ![w].all = all]
    /\ overlapped' = (overlapped \/ \E v \in Scribes : scribe[v].pc # "rest")
    /\ UNCHANGED <<file, tmp, data, committed>>

(* persist: a run enters the history or is replaced in it.                 *)
LoadRun(w, r) ==
    \E v \in 1..MaxVersion : Load(w, [ReadAll EXCEPT ![r] = v])

(* purge_project: the project's runs leave it.                             *)
LoadPurge == Load(Purger, [r \in Recorded |-> IF r \in Doomed THEN 0 ELSE ReadAll[r]])

(* write_all: the temporary file is created or truncated ...               *)
Unused == Inodes \ ({file, tmp} \cup {scribe[w].inode : w \in Scribes})

(* Mutant: the file is written in place.                                   *)
OpenFile(w) ==
    /\ scribe[w].pc = "read"
    /\ data' = [data EXCEPT ![file] = Torn]
    /\ scribe' = [scribe EXCEPT ![w].pc = "open", ![w].inode = file]
    /\ UNCHANGED <<file, tmp, committed, overlapped>>

OpenTmp(w) ==
    LET i == IF tmp = NoInode THEN CHOOSE j \in Unused : TRUE ELSE tmp IN
    /\ scribe[w].pc = "read"
    /\ tmp' = i
    /\ data' = [data EXCEPT ![i] = Torn]
    /\ scribe' = [scribe EXCEPT ![w].pc = "open", ![w].inode = i]
    /\ UNCHANGED <<file, committed, overlapped>>

(* ... and filled, whatever its name is by now ...                         *)
FillTmp(w) ==
    /\ scribe[w].pc = "open"
    /\ data' = [data EXCEPT ![scribe[w].inode] = scribe[w].all]
    /\ scribe' = [scribe EXCEPT ![w].pc = "written", ![w].inode = NoInode]
    /\ UNCHANGED <<file, tmp, committed, overlapped>>

(* ... or cannot be, for want of space, and the file is left alone ...      *)
WriteFails(w) ==
    /\ scribe[w].pc = "open"
    /\ scribe' = [scribe EXCEPT ![w] = Resting]
    /\ UNCHANGED <<file, tmp, data, committed, overlapped>>

Finish(w) ==
    /\ scribe' = [scribe EXCEPT ![w] = Resting]
    /\ committed' = scribe[w].all

(* ... and renamed.  Only if another writer has taken the name away, the   *)
(* file itself is rewritten.                                               *)
RenameTmp(w) ==
    /\ scribe[w].pc = "written"
    /\ IF tmp # NoInode
       THEN /\ file' = tmp
            /\ tmp' = NoInode
            /\ data' = [data EXCEPT ![file] = Empty]    \* unlinked
            /\ Finish(w)
       ELSE /\ scribe' = [scribe EXCEPT ![w].pc = "direct"]
            /\ UNCHANGED <<file, tmp, data, committed>>
    /\ UNCHANGED overlapped

Truncate(w) ==
    /\ scribe[w].pc = "direct"
    /\ data' = [data EXCEPT ![file] = Torn]
    /\ scribe' = [scribe EXCEPT ![w].pc = "truncated", ![w].inode = file]
    /\ UNCHANGED <<file, tmp, committed, overlapped>>

Refill(w) ==
    /\ scribe[w].pc = "truncated"
    /\ data' = [data EXCEPT ![scribe[w].inode] = scribe[w].all]
    /\ tmp' = NoInode
    /\ Finish(w)
    /\ UNCHANGED <<file, overlapped>>

(* The server stops between two steps and is started again.                *)
CrashHistory ==
    /\ \E w \in Scribes : scribe[w].pc # "rest"
    /\ scribe' = [w \in Scribes |-> Resting]
    /\ UNCHANGED <<file, tmp, data, committed, overlapped>>

WriteAll(w) ==
    \/ OpenTmp(w) \/ FillTmp(w) \/ WriteFails(w) \/ RenameTmp(w) \/ Truncate(w) \/ Refill(w)

HistoryNext ==
    \/ \E w \in Writers : \E r \in Recorded : LoadRun(w, r)
    \/ LoadPurge
    \/ \E w \in Scribes : WriteAll(w)
    \/ CrashHistory

HistorySpec == HistoryInit /\ [][HistoryNext]_historyVars

-----------------------------------------------------------------------------
(* A reader finds the complete history at every moment, in the middle of a *)
(* write and after a crash too, as long as no two writes overlap: nothing  *)
(* in persist or purge_project keeps them apart, and once they do overlap  *)
(* the whole history may read as empty.                                    *)
HistoryIntact == ~overlapped => data[file] = committed
=============================================================================
