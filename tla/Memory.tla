------------------------------- MODULE Memory -------------------------------
(***************************************************************************)
(* The durable memory of a project (memory.rs): rows of a table, numbered  *)
(* in the order they were inserted, and a MEMORY.md beside the code that   *)
(* mirrors them.  Requests, the agents' tools and the capture that follows *)
(* a turn work on it at once; the database is locked for each statement,   *)
(* never between two.                                                      *)
(*                                                                         *)
(* External: the embedder.  What two texts have to do with each other is   *)
(* given by VeryClose (cosine above 0.97) and Near (0.95 and above).       *)
(***************************************************************************)
EXTENDS Naturals, Sequences, FiniteSets

CONSTANTS
    Texts,         \* what may be remembered
    Topic,         \* what each text is about
    VeryClose, Near,   \* the pairs of different texts that are so
    Stored,        \* tables an earlier process may have left
    Exchanges,     \* what may be learned from a turn: sequences of texts
    Capturers,     \* captures at the end of a turn
    Requests,      \* requests of users and tools
    Every,         \* captures between consolidations
    MaxRows,       \* bounds
    MaxClock,
    MaxHandled,
    File           \* MEMORY.md

Memo == [n : 1..MaxRows, text : Texts, created : 0..MaxClock]

ASSUME MemoryAssumption ==
    /\ VeryClose \subseteq Near /\ Near \subseteq SUBSET Texts
    /\ \A pair \in VeryClose : \A a, b \in pair : Topic[a] = Topic[b]
    /\ Exchanges \subseteq Seq(Texts)
    /\ \A s \in Stored :
          /\ s \subseteq Memo /\ IsFiniteSet(s) /\ Cardinality(s) <= MaxRows
          /\ \A a, b \in s : a.n <= Cardinality(s) /\ (a.n = b.n => a = b)
    /\ Every \in Nat \ {0} /\ MaxRows \in Nat /\ MaxClock \in Nat /\ MaxHandled \in Nat

Jobs == Capturers \cup Requests

VARIABLES
    rows,          \* the table
    inserted,      \* how many rows there ever were: the next is named so
    clock,         \* the time
    captures,      \* captures since the last consolidation
    current,       \* who shows the table as it is: the file, a job about to write it
    job,           \* where each job is
    said,          \* what each row ever said, and when it was created
    handled,       \* the rows that a user edited or deleted
    crossed        \* whether the mirror was passed over, not written, or written
                   \* last by one who had read the table before it changed

memoryVars == <<rows, inserted, clock, captures, current, job, said, handled, crossed>>

Contents(s) == {r.n : r \in s}

Job == [pc : {"idle", "facts", "insert", "delete", "changed", "write", "auto"},
        facts : Seq(Texts), known : SUBSET Texts, kept : Nat, capturing : BOOLEAN,
        stamp : 0..MaxClock, doomed : SUBSET (1..MaxRows)]

MemoryTypeOK ==
    /\ rows \subseteq Memo
    /\ \A a, b \in rows : a.n = b.n => a = b
    /\ inserted \in 0..MaxRows
    /\ clock \in 0..MaxClock
    /\ captures \in Nat
    /\ current \subseteq Jobs \cup {File}
    /\ job \in [Jobs -> Job]
    /\ said \subseteq Memo
    /\ handled \subseteq 1..MaxRows
    /\ crossed \in BOOLEAN

Rest ==
    [pc |-> "idle",
     facts |-> <<>>,         \* texts yet to add
     known |-> {},           \* the neighbours a capture found, and its own
     kept |-> 0,             \* how many it added
     capturing |-> FALSE,
     stamp |-> 0,            \* created_at of the text being added
     doomed |-> {}]          \* the rows a consolidation is to delete

MemoryInit ==
    /\ rows \in Stored /\ inserted = Cardinality(rows) /\ captures = 0
    /\ clock \in 0..MaxClock /\ \A r \in rows : r.created <= clock
    /\ current = {File}
    /\ job = [t \in Jobs |-> Rest]
    /\ said = rows /\ handled = {} /\ crossed = FALSE

IsClose(a, b) == a = b \/ {a, b} \in VeryClose

IsNear(a, b) == a = b \/ {a, b} \in Near

(* The table changes, and nobody shows it as it is any more.               *)
Put(s) ==
    /\ rows' = s
    /\ current' = IF s = rows THEN current ELSE {}

Without(s, gone) == {r \in s : r.n \notin gone}

-----------------------------------------------------------------------------
(* consolidate, on a snapshot s of the rows.                               *)

(* The rows after a that are close to it and not dropped yet.              *)
Facing(s, a, gone) == {r \in s : r.n > a.n /\ r.n \notin gone /\ IsClose(a.text, r.text)}

(* Mutant: of a pair the older row is kept.                                *)
DropOlderKept(s, a, gone) ==
    LET facing == Facing(s, a, gone)
        newer  == {r \in facing : r.created <= a.created}
    IN  IF newer = {} THEN Contents(facing)
        ELSE {a.n} \cup Contents({r \in facing : \A m \in newer : r.n < m.n})

(* What the anchor a drops, when gone were dropped before: the later rows  *)
(* that are close to it and older, until it meets a close one that is not  *)
(* older, which drops the anchor itself.                                   *)
Drop(s, a, gone) ==
    LET facing == Facing(s, a, gone)
        newer  == {r \in facing : r.created >= a.created}
    IN  IF newer = {} THEN Contents(facing)
        ELSE {a.n} \cup Contents({r \in facing : \A m \in newer : r.n < m.n})

(* One row after the other is the anchor, unless it was dropped.           *)
Dropped(s) ==
    LET by[n \in 0..MaxRows] ==
            IF n = 0 THEN {}
            ELSE by[n-1] \cup UNION {Drop(s, a, by[n-1]) :
                                        a \in {r \in s : r.n = n /\ n \notin by[n-1]}}
    IN  by[MaxRows]

(* The pass of a job: the snapshot; with fewer than two rows there is      *)
(* nothing to delete.                                                      *)
Consolidating(me) ==
    IF Cardinality(rows) > 1 THEN [me EXCEPT !.pc = "delete", !.doomed = Dropped(rows)]
                     ELSE [me EXCEPT !.pc = "changed"]

Consolidate(t) ==
    /\ job[t].pc = "idle"
    /\ job' = [job EXCEPT ![t] = Consolidating(Rest)]
    /\ UNCHANGED <<rows, inserted, clock, captures, current, said, handled, crossed>>

(* Mutant: the mirror is not written.                                      *)
DeleteUnmirrored(t) ==
    /\ job[t].pc = "delete"
    /\ Put(Without(rows, job[t].doomed))
    /\ job' = [job EXCEPT ![t] = Rest]
    /\ UNCHANGED <<inserted, clock, captures, said, handled, crossed>>

(* The second hold of the lock.                                            *)
DeleteDropped(t) ==
    /\ job[t].pc = "delete"
    /\ Put(Without(rows, job[t].doomed))
    /\ job' = [job EXCEPT ![t].pc = "changed", ![t].doomed = {}]
    /\ UNCHANGED <<inserted, clock, captures, said, handled, crossed>>

-----------------------------------------------------------------------------
(* write_mirror: the rows are read, and then the file is written.          *)

ReadForMirror(t) ==
    /\ job[t].pc = "changed"
    /\ job' = [job EXCEPT ![t].pc = "write"]
    /\ current' = current \cup {t}
    /\ UNCHANGED <<rows, inserted, clock, captures, said, handled, crossed>>

(* What is written may be out of date by then, and a write that fails is   *)
(* ignored.                                                                *)
WriteMirror(t) ==
    /\ job[t].pc = "write"
    /\ \/ /\ t \in current
          /\ current' = (current \ {t}) \cup {File} /\ crossed' = FALSE
       \/ /\ t \notin current
          /\ current' = current \ {File} /\ crossed' = (crossed \/ File \in current)
       \/ /\ current' = current \ {t, File} /\ crossed' = TRUE
    /\ job' = [job EXCEPT ![t] =
                   IF job[t].capturing THEN [@ EXCEPT !.pc = "facts"] ELSE Rest]
    /\ UNCHANGED <<rows, inserted, clock, captures, said, handled>>

-----------------------------------------------------------------------------
(* add: the text is embedded and stamped, at once or some time later ...   *)
Stamp(t, me) ==
    /\ clock' \in clock..MaxClock
    /\ job' = [job EXCEPT ![t] = [me EXCEPT !.pc = "insert", !.stamp = clock']]

Add(t, text) ==
    /\ job[t].pc = "idle"
    /\ Stamp(t, [Rest EXCEPT !.facts = <<text>>])
    /\ UNCHANGED <<rows, inserted, captures, current, said, handled, crossed>>

(* ... and then inserted.                                                  *)
Insert(t) ==
    LET row == [n |-> inserted + 1, text |-> Head(job[t].facts), created |-> job[t].stamp] IN
    /\ job[t].pc = "insert" /\ inserted < MaxRows
    /\ Put(rows \cup {row})
    /\ inserted' = inserted + 1
    /\ said' = said \cup {row}
    /\ job' = [job EXCEPT ![t].pc = "changed",
                            ![t].facts = Tail(@),
                            ![t].stamp = 0,
                            ![t].known = IF job[t].capturing THEN @ \cup {row.text} ELSE @,
                            ![t].kept = IF job[t].capturing THEN @ + 1 ELSE @]
    /\ UNCHANGED <<clock, captures, handled, crossed>>

(* capture_exchange: the neighbours are read once, before the first fact.  *)
Capture(t, facts) ==
    /\ job[t].pc = "idle"
    /\ job' = [job EXCEPT ![t] = [Rest EXCEPT
                   !.pc = "facts", !.facts = facts, !.capturing = TRUE,
                   !.known = {r.text : r \in rows}]]
    /\ UNCHANGED <<rows, inserted, clock, captures, current, said, handled, crossed>>

(* A fact near to a neighbour, or to one added before it, is skipped, and  *)
(* so is one that cannot be embedded.                                      *)
NextFact(t) ==
    /\ job[t].pc = "facts" /\ job[t].facts # <<>>
    /\ \/ job' = [job EXCEPT ![t].facts = Tail(@)] /\ UNCHANGED clock
       \/ /\ ~\E k \in job[t].known : IsNear(Head(job[t].facts), k)
          /\ Stamp(t, job[t])
    /\ UNCHANGED <<rows, inserted, captures, current, said, handled, crossed>>

(* increment_captures, under the lock of the counters.                     *)
CountCaptures(t) ==
    LET count == captures + job[t].kept IN
    /\ job[t].pc = "facts" /\ job[t].facts = <<>>
    /\ captures' = count
    /\ job' = [job EXCEPT ![t] =
                   IF job[t].kept > 0 /\ count >= Every THEN [Rest EXCEPT !.pc = "auto"]
                                                         ELSE Rest]
    /\ UNCHANGED <<rows, inserted, clock, current, said, handled, crossed>>

(* maybe_auto_consolidate: the counter is reset in a second hold, by the   *)
(* first capture to come, and the others have nothing to do.               *)
AutoConsolidate(t) ==
    /\ job[t].pc = "auto"
    /\ IF captures >= Every
       THEN captures' = 0 /\ job' = [job EXCEPT ![t] = Consolidating(Rest)]
       ELSE job' = [job EXCEPT ![t] = Rest] /\ UNCHANGED captures
    /\ UNCHANGED <<rows, inserted, clock, current, said, handled, crossed>>

-----------------------------------------------------------------------------
(* What follows an edit or a deletion: the mirror, if the request names    *)
(* the project.                                                            *)
Mirrored(t) ==
    \/ job' = [job EXCEPT ![t] = [Rest EXCEPT !.pc = "changed"]] /\ UNCHANGED crossed
    \/ crossed' = TRUE /\ UNCHANGED job

(* update: the text and its embedding change, created_at stays.            *)
Update(t, r, text) ==
    LET edited == [r EXCEPT !.text = text] IN
    /\ job[t].pc = "idle" /\ Cardinality(handled) < MaxHandled
    /\ r.text # text
    /\ Put((rows \ {r}) \cup {edited})
    /\ said' = said \cup {edited}
    /\ handled' = handled \cup {r.n}
    /\ Mirrored(t)
    /\ UNCHANGED <<inserted, clock, captures>>

Remove(t, r) ==
    /\ job[t].pc = "idle" /\ Cardinality(handled) < MaxHandled
    /\ Put(Without(rows, {r.n}))
    /\ handled' = handled \cup {r.n}
    /\ Mirrored(t)
    /\ UNCHANGED <<inserted, clock, captures, said>>

(* purge_project leaves the file alone: it is the project's.               *)
PurgeProject ==
    /\ Cardinality(handled) < MaxHandled /\ rows # {}
    /\ Put({})
    /\ handled' = handled \cup Contents(rows)
    /\ crossed' = TRUE
    /\ UNCHANGED <<inserted, clock, captures, job, said>>

MemoryNext ==
    \/ \E t \in Jobs :
          \/ DeleteDropped(t) \/ ReadForMirror(t) \/ WriteMirror(t)
          \/ Insert(t) \/ NextFact(t) \/ CountCaptures(t) \/ AutoConsolidate(t)
    \/ \E t \in Capturers, facts \in Exchanges : Capture(t, facts)
    \/ \E t \in Requests :
          \/ Consolidate(t)
          \/ \E text \in Texts : Add(t, text)
          \/ \E r \in rows : Remove(t, r) \/ \E text \in Texts : Update(t, r, text)
    \/ PurgeProject

MemorySpec == MemoryInit /\ [][MemoryNext]_memoryVars

-----------------------------------------------------------------------------
Newer(a, b) == a.created > b.created \/ (a.created = b.created /\ a.n > b.n)

(* A row that no user edited or deleted is gone only if a newer one said   *)
(* something about its topic, and that one is still there or was a user's  *)
(* to change: passes that overlap on stale snapshots, with edits, captures *)
(* and deletions in between, never drop both rows of a pair (consolidate   *)
(* keeps the newest of each cluster).                                      *)
NewestKept ==
    \A r \in said :
        r.n \notin handled \cup Contents(rows) =>
            \E k \in said :
                /\ Topic[k.text] = Topic[r.text] /\ Newer(k, r)
                /\ k.n \in handled \cup Contents(rows)

(* Once every change has been mirrored, MEMORY.md says what the table      *)
(* says, however writers overlap.  It does not after a request that named  *)
(* no project, a purge, a write that failed, or an older view written over *)
(* the newest one (nothing orders two writers), and then only until the    *)
(* next change is mirrored in turn.                                        *)
MirrorSettles ==
    ~crossed /\ (\A t \in Jobs : job[t].pc \notin {"changed", "write"}) => File \in current
=============================================================================
