--------------------------- MODULE ServicesProofs ---------------------------
(***************************************************************************)
(* Theorems about what outlives a request or the process: the checkpoints  *)
(* of a directory, the history file, the memory and its mirror; and about  *)
(* all of Services together.                                               *)
(***************************************************************************)
EXTENDS Services, SessionProofs, ToolProofs, FiniteSetTheorems,
        WellFoundedInduction, TLAPS

-----------------------------------------------------------------------------
(* CHECKPOINTS: those of a directory stay a stack                          *)

(* The inductive invariant.                                                *)

(* The checkpoint of r is one of directory d.                              *)
Of(r, d) == Has(r) /\ checkpoint[r].cwd = d

(* No two checkpoints were saved at once.                                  *)
Dated ==
    \A r \in Executed :
        /\ checkpoint[r].at <= saves
        /\ \A q \in Executed : Has(r) /\ checkpoint[q].at = checkpoint[r].at => q = r

(* Who saves has read a HEAD no checkpoint of the directory is ahead of,   *)
(* and is alone with the directory.                                        *)
SaverReady(v) ==
    saver[v].run # NoRun =>
        /\ saver[v].sha <= head[saver[v].dir]
        /\ \A q \in Executed : Of(q, saver[v].dir) => checkpoint[q].sha <= saver[v].sha
        /\ ~Restoring(saver[v].dir) /\ ~Saving(saver[v].dir, v)

(* A rollback whose order was checked is still one of the newest           *)
(* checkpoint of its directory, if it is one of the directory at all.      *)
RestorerReady(t) ==
    /\ restorer[t].pc = "checked" /\ Of(restorer[t].run, restorer[t].dir) =>
          \A q \in Executed : Of(q, restorer[t].dir) =>
              checkpoint[q].at <= checkpoint[restorer[t].run].at
    /\ restorer[t].pc = "found" /\ restorer[t].origin = restorer[t].dir =>
          \A q \in Executed : Of(q, restorer[t].dir) => checkpoint[q].sha <= restorer[t].sha

Named(t) == restorer[t].pc \in {"checked", "found", "reset"} => restorer[t].run \in Executed

CheckpointInv ==
    /\ CheckpointTypeOK /\ Dated
    /\ \A t \in Restorers : Named(t)
    /\ CheckpointsStack
    /\ ~entangled => /\ \A v \in Savers : SaverReady(v)
                     /\ \A t \in Restorers : RestorerReady(t)

-----------------------------------------------------------------------------
SaverRecord == [run : Executed \cup {NoRun}, dir : Dirs, sha : 0..MaxCommits]

RestorerRecord == [pc  : {"idle", "checked", "found", "reset", "done"},
                   run : Executed \cup {NoRun},
                   dir : Dirs,
                   sha : 0..MaxCommits,
                   origin : Dirs]

LEMMA CheckpointInitSafe == CheckpointInit => CheckpointInv
<1> SUFFICES ASSUME CheckpointInit PROVE CheckpointInv
  OBVIOUS
<1>0. /\ head = [d \in Dirs |-> 0] /\ checkpoint = [r \in Executed |-> None] /\ saves = 0
      /\ saver = [v \in Savers |-> Free] /\ restorer = [t \in Restorers |-> Waiting]
      /\ entangled \in BOOLEAN
  BY DEF CheckpointInit
<1>a. /\ None \in Entry /\ None.at = 0
      /\ Free \in SaverRecord /\ Waiting \in RestorerRecord
      /\ saves \in 0..MaxSaves /\ 0 \in 0..MaxCommits
  BY <1>0, CheckpointAssumption DEF None, Free, Waiting, Entry, SaverRecord, RestorerRecord
<1>1. CheckpointTypeOK
  BY <1>0, <1>a DEF CheckpointTypeOK, SaverRecord, RestorerRecord
<1>b. \A r \in Executed : checkpoint[r] = None
  BY <1>0
<1>2. \A r \in Executed : ~Has(r) /\ checkpoint[r].at = 0
  <2> TAKE r \in Executed
  <2>1. checkpoint[r].at = 0
    BY <1>a, <1>b
  <2>2. ~(0 > 0)
    OBVIOUS
  <2> QED
    BY <2>1, <2>2 DEF Has
<1>3. Dated /\ CheckpointsStack
  BY <1>2 DEF CheckpointInit, Dated, CheckpointsStack
<1>4. \A t \in Restorers : Named(t) /\ RestorerReady(t)
  BY DEF CheckpointInit, Named, RestorerReady, Waiting
<1>5. \A v \in Savers : SaverReady(v)
  BY DEF CheckpointInit, SaverReady, Free
<1> QED
  BY <1>1, <1>3, <1>4, <1>5 DEF CheckpointInv

LEMMA CheckpointTypes0 ==
    ASSUME CheckpointTypeOK
    PROVE  /\ \A r \in Executed : /\ checkpoint[r].cwd \in Dirs
                                  /\ checkpoint[r].sha \in Nat /\ checkpoint[r].at \in Nat
           /\ \A d \in Dirs : head[d] \in Nat
           /\ \A v \in Savers : saver[v].sha \in Nat /\ saver[v].dir \in Dirs
                                /\ saver[v] \in SaverRecord
           /\ \A t \in Restorers : restorer[t].sha \in Nat /\ restorer[t].dir \in Dirs
                                   /\ restorer[t] \in RestorerRecord
           /\ saves \in Nat
  BY CheckpointAssumption DEF CheckpointTypeOK, Entry, SaverRecord, RestorerRecord

LEMMA SaveBeginsSafe ==
    ASSUME CheckpointInv, NEW v \in Savers, NEW r \in Executed, NEW d \in Dirs, ReadHead(v, r, d)
    PROVE  CheckpointInv'
<1> DEFINE e == [run |-> r, dir |-> d, sha |-> head[d]]
<1>0. CheckpointTypeOK /\ e \in SaverRecord /\ r # NoRun
  BY CheckpointAssumption DEF CheckpointInv, CheckpointTypeOK, SaverRecord
<1>a. ~entangled' => ~entangled /\ ~Restoring(d) /\ ~Saving(d, v)
  BY DEF ReadHead
<1>b. entangled' \in BOOLEAN
  BY DEF ReadHead
<1>c. /\ saver[v] = Free /\ saver' = [saver EXCEPT ![v] = e]
      /\ UNCHANGED <<head, checkpoint, saves, restorer>>
  BY DEF ReadHead
<1>d. /\ saver'[v] = e /\ \A w \in Savers \ {v} : saver'[w] = saver[w]
      /\ saver[v].run = NoRun
  BY <1>0, <1>c DEF CheckpointTypeOK, Free
<1>1. /\ saver'[v] = e /\ \A w \in Savers \ {v} : saver'[w] = saver[w]
      /\ saver[v].run = NoRun
      /\ UNCHANGED <<head, checkpoint, saves, restorer>>
      /\ ~entangled' => ~entangled /\ ~Restoring(d) /\ ~Saving(d, v)
  BY <1>a, <1>c, <1>d
<1>2. CheckpointTypeOK'
  BY <1>0, <1>b, <1>c DEF CheckpointTypeOK, SaverRecord
<1>3. Dated' /\ (\A t \in Restorers : Named(t)') /\ CheckpointsStack'
  BY <1>1 DEF CheckpointInv, Dated, Named, CheckpointsStack, Has
<1>4. ASSUME ~entangled' PROVE \A t \in Restorers : RestorerReady(t)'
  BY <1>1, <1>4 DEF CheckpointInv, RestorerReady, Of, Has
<1>5. ASSUME ~entangled', NEW w \in Savers PROVE SaverReady(w)'
  <2>1. \A c \in Dirs : Restoring(c)' <=> Restoring(c)
    BY <1>1 DEF Restoring
  <2>2. CASE w = v
    <3>1. \A q \in Executed : Of(q, d)' => checkpoint'[q].sha <= head[d]
      BY <1>1, <1>5 DEF CheckpointInv, CheckpointsStack, Of, Has
    <3>2. ~Saving(d, v)'
      BY <1>1, <1>5 DEF Saving
    <3> QED
      BY <1>0, <1>1, <1>5, <2>1, <2>2, <3>1, <3>2, CheckpointTypes0 DEF SaverReady
  <2>3. CASE w # v
    <3>1. saver[w].run # NoRun => saver[w].dir # d
      BY <1>1, <1>5, <2>3 DEF Saving
    <3>2. saver[w].run # NoRun => ~Saving(saver[w].dir, w)'
      BY <1>1, <1>5, <2>3, <3>1 DEF Saving, CheckpointInv, SaverReady
    <3> QED
      BY <1>0, <1>1, <1>5, <2>1, <2>3, <3>2, CheckpointTypes0 DEF SaverReady, CheckpointInv, Of, Has
  <2> QED
    BY <2>2, <2>3
<1> QED
  BY <1>2, <1>3, <1>4, <1>5 DEF CheckpointInv

LEMMA SaveSafe ==
    ASSUME CheckpointInv, NEW v \in Savers, Save(v)
    PROVE  CheckpointInv'
<1> DEFINE d == saver[v].dir
           s == saver[v].run
           e == [cwd |-> d, sha |-> saver[v].sha, at |-> saves + 1]
<1>0. /\ CheckpointTypeOK /\ s \in Executed /\ d \in Dirs /\ e \in Entry /\ Free \in SaverRecord
      /\ saves \in Nat /\ saves + 1 \in 0..MaxSaves
  BY CheckpointAssumption DEF Save, CheckpointInv, CheckpointTypeOK, Entry, SaverRecord, Free
<1>1. /\ checkpoint' = [checkpoint EXCEPT ![s] = e] /\ saver' = [saver EXCEPT ![v] = Free]
      /\ saves' = saves + 1 /\ UNCHANGED <<head, restorer>>
      /\ ~entangled' => ~entangled /\ ~Restoring(d)
      /\ entangled' \in BOOLEAN
  BY <1>0 DEF Save, CheckpointTypeOK
<1>2. CheckpointTypeOK'
  BY <1>0, <1>1 DEF CheckpointTypeOK, SaverRecord
<1>3. /\ checkpoint'[s] = e /\ \A q \in Executed \ {s} : checkpoint'[q] = checkpoint[q]
      /\ saver'[v] = Free /\ \A w \in Savers \ {v} : saver'[w] = saver[w]
      /\ e.cwd = d /\ e.sha = saver[v].sha /\ e.at = saves + 1
  BY <1>0, <1>1 DEF CheckpointTypeOK
<1> HIDE DEF e
<1>4. Dated'
  BY <1>0, <1>1, <1>3, CheckpointTypes0 DEF CheckpointInv, Dated, Has
<1>5. \A t \in Restorers : Named(t)'
  BY <1>1 DEF CheckpointInv, Named
<1>6. ASSUME ~entangled' PROVE SaverReady(v) /\ CheckpointsStack /\ ~entangled /\ ~Restoring(d)
                               /\ \A w \in Savers : SaverReady(w)
                               /\ \A t \in Restorers : RestorerReady(t)
  BY <1>1, <1>6 DEF CheckpointInv
<1>7. \A q \in Executed \ {s} : /\ Has(q)' <=> Has(q)
                                /\ \A c \in Dirs : Of(q, c)' <=> Of(q, c)
  BY <1>3 DEF Of, Has
<1>11. \A c \in Dirs \ {d} : \A q \in Executed : Of(q, c)' => Of(q, c) /\ q # s
  BY <1>0, <1>3, <1>7 DEF Of
<1>8. CheckpointsStack'
  <2> SUFFICES ASSUME ~entangled', NEW r \in Executed, Has(r)'
               PROVE  /\ checkpoint'[r].sha <= head'[checkpoint'[r].cwd]
                      /\ \A q \in Executed :
                           Has(q)' /\ checkpoint'[q].cwd = checkpoint'[r].cwd
                                   /\ checkpoint'[q].at > checkpoint'[r].at
                               => checkpoint'[q].sha >= checkpoint'[r].sha
    BY DEF CheckpointsStack
  <2>1. SaverReady(v) /\ CheckpointsStack /\ ~entangled /\ s # NoRun
    BY <1>6 DEF Save
  <2>2. checkpoint'[r].sha <= head'[checkpoint'[r].cwd]
    BY <1>0, <1>1, <1>3, <1>7, <2>1 DEF SaverReady, CheckpointsStack
  <2>3. ASSUME NEW q \in Executed, Has(q)', checkpoint'[q].cwd = checkpoint'[r].cwd,
               checkpoint'[q].at > checkpoint'[r].at
        PROVE  checkpoint'[q].sha >= checkpoint'[r].sha
    <3>1. CASE q = s
      <4>1. r # s
        BY <1>0, <1>3, <2>3, <3>1
      <4>2. Of(r, d) /\ checkpoint'[r] = checkpoint[r]
        BY <1>3, <1>7, <2>3, <3>1, <4>1 DEF Of
      <4> QED
        BY <1>3, <2>1, <3>1, <4>2, CheckpointTypes0, <1>0 DEF SaverReady
    <3>2. CASE q # s
      <4>1. r # s
        BY <1>0, <1>3, <2>3, <3>2, CheckpointTypes0 DEF CheckpointInv, Dated
      <4> QED
        BY <1>3, <1>7, <2>1, <2>3, <3>2, <4>1 DEF CheckpointsStack
    <3> QED
      BY <3>1, <3>2
  <2> QED
    BY <2>2, <2>3
<1>9. ASSUME ~entangled', NEW w \in Savers PROVE SaverReady(w)'
  <2>1. CASE w = v
    BY <1>3, <2>1 DEF SaverReady, Free
  <2>2. CASE w # v /\ saver[w].run # NoRun
    <3>1. saver[w].dir # d
      BY <1>6, <1>9, <2>2, <1>0, CheckpointAssumption DEF SaverReady, Saving
    <3>2. \A q \in Executed : Of(q, saver[w].dir)' => Of(q, saver[w].dir) /\ q # s
      BY <1>0, <1>3, <1>11, <2>2, <3>1, CheckpointTypes0
    <3>3. ~Saving(saver[w].dir, w)' /\ ~Restoring(saver[w].dir)'
      BY <1>1, <1>3, <1>6, <1>9, <2>2 DEF Saving, Restoring, SaverReady, Free
    <3> QED
      BY <1>1, <1>3, <1>6, <1>9, <2>2, <3>2, <3>3 DEF SaverReady
  <2>3. CASE w # v /\ saver[w].run = NoRun
    BY <1>3, <2>3 DEF SaverReady
  <2> QED
    BY <2>1, <2>2, <2>3
<1>10. ASSUME ~entangled', NEW t \in Restorers PROVE RestorerReady(t)'
  <2>1. CASE restorer[t].pc \in {"checked", "found"}
    <3>1. restorer[t].dir # d
      BY <1>6, <1>10, <2>1 DEF Restoring
    <3>2. \A q \in Executed : Of(q, restorer[t].dir)' => Of(q, restorer[t].dir) /\ q # s
      BY <1>0, <1>1, <1>11, <3>1, CheckpointTypes0
    <3>3. restorer[t].run \in Executed
      BY <2>1 DEF CheckpointInv, Named
    <3> QED
      BY <1>1, <1>3, <1>6, <1>10, <3>2, <3>3 DEF RestorerReady
  <2>2. CASE restorer[t].pc \notin {"checked", "found"}
    BY <1>1, <2>2 DEF RestorerReady
  <2> QED
    BY <2>1, <2>2
<1> QED
  BY <1>2, <1>4, <1>5, <1>8, <1>9, <1>10 DEF CheckpointInv

(* A step that takes checkpoints out of the map and frees restorers, and   *)
(* entangles nothing it does not have to.                                  *)
LEMMA EntriesGo ==
    ASSUME CheckpointInv, CheckpointTypeOK',
           \A q \in Executed : checkpoint'[q] \in {checkpoint[q], None},
           UNCHANGED <<head, saves, saver>>,
           \A t \in Restorers : restorer'[t] = restorer[t] \/ restorer'[t].pc = "done",
           ~entangled' => ~entangled
    PROVE  CheckpointInv'
<1>1. \A q \in Executed : Has(q)' => Has(q) /\ checkpoint'[q] = checkpoint[q]
  BY DEF Has, None
<1>2. \A q \in Executed : \A d : Of(q, d)' => Of(q, d) /\ checkpoint'[q] = checkpoint[q]
  BY <1>1 DEF Of
<1>3. Dated'
  BY <1>1, CheckpointTypes0 DEF CheckpointInv, Dated, Has, None
<1>4. CheckpointsStack'
  BY <1>1 DEF CheckpointInv, CheckpointsStack
<1>5. \A t \in Restorers : Named(t)'
  BY DEF CheckpointInv, Named
<1>6. ASSUME ~entangled', NEW v \in Savers PROVE SaverReady(v)'
  <2>1. \A d : (Restoring(d)' => Restoring(d)) /\ (Saving(d, v)' => Saving(d, v))
    BY DEF Restoring, Saving
  <2> QED
    BY <1>2, <1>6, <2>1 DEF CheckpointInv, SaverReady
<1>7. ASSUME ~entangled', NEW t \in Restorers PROVE RestorerReady(t)'
  <2>1. CASE restorer'[t] = restorer[t] /\ restorer[t].pc \in {"checked", "found"}
    <3>1. restorer[t].run \in Executed
      BY <2>1 DEF CheckpointInv, Named
    <3> QED
      BY <1>2, <1>7, <2>1, <3>1 DEF CheckpointInv, RestorerReady
  <2>2. CASE restorer'[t].pc \notin {"checked", "found"}
    BY <2>2 DEF RestorerReady
  <2> QED
    BY <2>1, <2>2
<1> QED
  BY <1>3, <1>4, <1>5, <1>6, <1>7 DEF CheckpointInv

LEMMA RestoreSafe ==
    ASSUME CheckpointInv, NEW t \in Restorers, Restore(t)
    PROVE  CheckpointInv'
<1>0. CheckpointTypeOK /\ restorer[t] \in RestorerRecord
  BY CheckpointTypes0 DEF CheckpointInv
<1>a. [Waiting EXCEPT !.pc = "done"] \in RestorerRecord
  BY CheckpointAssumption DEF Waiting, RestorerRecord
<1>q. ASSUME Quit(t), UNCHANGED <<head, checkpoint, saves, saver, entangled>>
      PROVE  CheckpointInv'
  <2>1. CheckpointTypeOK'
    BY <1>0, <1>a, <1>q DEF CheckpointTypeOK, Quit, RestorerRecord
  <2>2. \A q \in Executed : checkpoint'[q] \in {checkpoint[q], None}
    BY <1>q
  <2>3. \A u \in Restorers : restorer'[u] = restorer[u] \/ restorer'[u].pc = "done"
    BY <1>0, <1>q, <1>a DEF Quit, CheckpointTypeOK, Waiting
  <2> QED
    BY <1>q, <2>1, <2>2, <2>3, EntriesGo
<1>m. ASSUME NEW e \in RestorerRecord, restorer' = [restorer EXCEPT ![t] = e],
             e.pc \in {"checked", "found", "reset"}, e.run \in Executed,
             UNCHANGED <<head, checkpoint, saves, saver>>,
             entangled' \in BOOLEAN,
             ~entangled' => /\ ~entangled
                            /\ ~Restoring(e.dir) =>
                                  \A v \in Savers : saver[v].run # NoRun => saver[v].dir # e.dir,
             ~entangled => RestorerReady(t)'
      PROVE  CheckpointInv'
  <2>1. CheckpointTypeOK'
    BY <1>0, <1>m DEF CheckpointTypeOK, RestorerRecord
  <2>2. restorer'[t] = e /\ \A u \in Restorers \ {t} : restorer'[u] = restorer[u]
    BY <1>0, <1>m DEF CheckpointTypeOK
  <2>3. Dated' /\ CheckpointsStack' /\ \A u \in Restorers : Named(u)'
    BY <1>m, <2>2 DEF CheckpointInv, Dated, CheckpointsStack, Named, Has
  <2>4. ASSUME ~entangled', NEW u \in Restorers PROVE RestorerReady(u)'
    BY <1>m, <2>2, <2>4 DEF CheckpointInv, RestorerReady, Of, Has
  <2>5. ASSUME ~entangled', NEW v \in Savers PROVE SaverReady(v)'
    <3>1. SaverReady(v)
      BY <1>m, <2>5 DEF CheckpointInv
    <3>2. saver[v].run # NoRun => ~Restoring(saver[v].dir)'
      BY <1>m, <2>2, <2>5, <3>1 DEF Restoring, SaverReady
    <3> QED
      BY <1>m, <3>1, <3>2 DEF SaverReady, Of, Has, Saving
  <2> QED
    BY <2>1, <2>3, <2>4, <2>5 DEF CheckpointInv
<1>1. CASE CheckOrder(t)
  <2>1. PICK r \in Executed, d \in Dirs :
           /\ Has(r) /\ ~HasNewer(r)
           /\ restorer' = [restorer EXCEPT ![t].pc = "checked", ![t].run = r, ![t].dir = d]
           /\ entangled' = (entangled \/ \E v \in Savers : saver[v].run # NoRun /\ saver[v].dir = d)
    BY <1>1 DEF CheckOrder
  <2> DEFINE e == [restorer[t] EXCEPT !.pc = "checked", !.run = r, !.dir = d]
  <2>2. /\ e \in RestorerRecord /\ restorer' = [restorer EXCEPT ![t] = e]
        /\ e.pc = "checked" /\ e.run = r /\ e.dir = d
    BY <1>0, <2>1 DEF RestorerRecord
  <2>3. restorer'[t] = e
    BY <1>0, <2>2 DEF CheckpointTypeOK
  <2> HIDE DEF e
  <2>4. UNCHANGED <<head, checkpoint, saves, saver>> /\ entangled' \in BOOLEAN
    BY <1>1, <2>1, <1>0 DEF CheckOrder, CheckpointTypeOK
  <2>5. RestorerReady(t)'
    <3>1. ASSUME Of(r, d), NEW q \in Executed, Of(q, d)
          PROVE  checkpoint[q].at <= checkpoint[r].at
      <4>1. CASE q = r
        BY <1>0, <4>1, CheckpointTypes0
      <4>2. CASE q # r
        BY <1>0, <2>1, <3>1, <4>2, CheckpointTypes0 DEF HasNewer, Of
      <4> QED
        BY <4>1, <4>2
    <3> QED
      BY <2>2, <2>3, <2>4, <3>1 DEF RestorerReady, Of, Has
  <2> QED
    BY <1>m, <2>1, <2>2, <2>4, <2>5
<1>2. CASE FindSnapshot(t)
  <2> DEFINE r == restorer[t].run
             c == checkpoint[r]
             e == [restorer[t] EXCEPT !.pc = "found", !.sha = c.sha, !.origin = c.cwd]
  <2>1. restorer[t].pc = "checked" /\ r \in Executed /\ c \in Entry
        /\ UNCHANGED <<head, checkpoint, saves, saver, entangled>>
    BY <1>0, <1>2 DEF FindSnapshot, CheckpointInv, Named, CheckpointTypeOK
  <2>2. CASE ~Has(r)
    BY <1>2, <1>q, <2>1, <2>2 DEF FindSnapshot
  <2>3. CASE Has(r)
    <3>1. /\ e \in RestorerRecord /\ restorer' = [restorer EXCEPT ![t] = e]
          /\ e.pc = "found" /\ e.run = r /\ e.dir = restorer[t].dir /\ e.sha = c.sha
          /\ e.origin = c.cwd
      BY <1>0, <1>2, <2>1, <2>3 DEF FindSnapshot, RestorerRecord, Entry
    <3>2. restorer'[t] = e
      BY <1>0, <3>1 DEF CheckpointTypeOK
    <3> HIDE DEF e
    <3>3. Restoring(e.dir)
      BY <2>1, <3>1 DEF Restoring
    <3>4. ASSUME ~entangled PROVE RestorerReady(t)'
      <4>1. RestorerReady(t) /\ CheckpointsStack /\ Dated
        BY <3>4 DEF CheckpointInv
      <4>2. ASSUME e.origin = e.dir, NEW q \in Executed, Of(q, e.dir)
            PROVE  checkpoint[q].sha <= c.sha
        <5>1. checkpoint[q].at <= c.at
          BY <2>1, <2>3, <3>1, <4>1, <4>2 DEF RestorerReady, Of
        <5>2. CASE checkpoint[q].at = c.at
          BY <1>0, <2>1, <2>3, <4>1, <5>2, CheckpointTypes0 DEF Dated
        <5>3. CASE checkpoint[q].at < c.at
          BY <1>0, <2>1, <2>3, <3>1, <3>4, <4>1, <4>2, <5>3, CheckpointTypes0 DEF CheckpointsStack, Of
        <5> QED
          BY <1>0, <2>1, <5>1, <5>2, <5>3, CheckpointTypes0
      <4> QED
        BY <2>1, <3>1, <3>2, <4>2 DEF RestorerReady, Of, Has
    <3> QED
      BY <1>0, <1>m, <2>1, <3>1, <3>3, <3>4 DEF CheckpointTypeOK
  <2> QED
    BY <2>2, <2>3
<1>3. CASE ResetTree(t)
  <2>1. CASE Quit(t) /\ UNCHANGED head
    BY <1>3, <1>q, <2>1 DEF ResetTree
  <2>2. CASE ~(Quit(t) /\ UNCHANGED head)
    <3> DEFINE d == restorer[t].dir
    <3>1. /\ restorer[t].pc = "found" /\ restorer[t].origin = d
          /\ head' = [head EXCEPT ![d] = restorer[t].sha]
          /\ restorer' = [restorer EXCEPT ![t].pc = "reset"]
          /\ UNCHANGED <<checkpoint, saves, saver, entangled>>
      BY <1>3, <2>2 DEF ResetTree
    <3>2. /\ d \in Dirs /\ head'[d] = restorer[t].sha
          /\ \A c \in Dirs \ {d} : head'[c] = head[c]
          /\ restorer'[t].pc = "reset" /\ restorer'[t].dir = d /\ restorer'[t].run = restorer[t].run
          /\ \A u \in Restorers \ {t} : restorer'[u] = restorer[u]
      BY <1>0, <3>1 DEF CheckpointTypeOK, RestorerRecord
    <3>3. CheckpointTypeOK'
      BY <1>0, <3>1 DEF CheckpointTypeOK, RestorerRecord
    <3>4. Dated' /\ \A u \in Restorers : Named(u)'
      BY <3>1, <3>2 DEF CheckpointInv, Dated, Named, Has
    <3>5. ASSUME ~entangled PROVE RestorerReady(t) /\ \A v \in Savers : SaverReady(v)
      BY <3>5 DEF CheckpointInv
    <3>6. CheckpointsStack'
      <4>1. ASSUME ~entangled, NEW r \in Executed, Has(r)
            PROVE checkpoint[r].sha <= head'[checkpoint[r].cwd]
        BY <1>0, <3>1, <3>2, <3>5, <4>1, CheckpointTypes0
           DEF CheckpointInv, CheckpointsStack, RestorerReady, Of
      <4> QED
        BY <3>1, <4>1 DEF CheckpointInv, CheckpointsStack, Has
    <3>7. ASSUME ~entangled', NEW v \in Savers PROVE SaverReady(v)'
      <4>1. Restoring(d)
        BY <3>1 DEF Restoring
      <4>2. saver[v].run # NoRun => saver[v].dir # d
        BY <3>1, <3>5, <3>7, <4>1 DEF SaverReady
      <4>3. \A c : Restoring(c)' => Restoring(c)
        BY <3>1, <3>2 DEF Restoring
      <4> QED
        BY <1>0, <3>1, <3>2, <3>5, <3>7, <4>2, <4>3, CheckpointTypes0 DEF SaverReady, Of, Has, Saving
    <3>8. ASSUME ~entangled', NEW u \in Restorers PROVE RestorerReady(u)'
      BY <3>1, <3>2, <3>8 DEF CheckpointInv, RestorerReady, Of, Has
    <3> QED
      BY <3>3, <3>4, <3>6, <3>7, <3>8 DEF CheckpointInv
  <2> QED
    BY <2>1, <2>2
<1>4. CASE RemoveEntry(t)
  <2>1. Quit(t) /\ UNCHANGED <<head, saves, saver, entangled>>
        /\ restorer[t].run \in Executed
        /\ checkpoint' \in {checkpoint, [checkpoint EXCEPT ![restorer[t].run] = None]}
    BY <1>4 DEF RemoveEntry, CheckpointInv, Named
  <2>2. CASE checkpoint' = checkpoint
    BY <1>q, <2>1, <2>2
  <2>3. CASE checkpoint' = [checkpoint EXCEPT ![restorer[t].run] = None]
    <3>1. CheckpointTypeOK'
      BY <1>0, <1>a, <2>1, <2>3, CheckpointAssumption
         DEF CheckpointTypeOK, Quit, RestorerRecord, None, Entry
    <3>2. \A q \in Executed : checkpoint'[q] \in {checkpoint[q], None}
      BY <1>0, <2>3 DEF CheckpointTypeOK
    <3>3. \A u \in Restorers : restorer'[u] = restorer[u] \/ restorer'[u].pc = "done"
      BY <1>0, <1>a, <2>1 DEF Quit, CheckpointTypeOK, Waiting
    <3> QED
      BY <2>1, <3>1, <3>2, <3>3, EntriesGo
  <2> QED
    BY <2>1, <2>2, <2>3
<1> QED
  BY <1>1, <1>2, <1>3, <1>4 DEF Restore

LEMMA DiscardSafe ==
    ASSUME CheckpointInv, NEW r \in Executed, Discard(r)
    PROVE  CheckpointInv'
<1>1. CheckpointTypeOK
  BY DEF CheckpointInv
<1>2. CheckpointTypeOK'
  BY <1>1, CheckpointAssumption DEF Discard, CheckpointTypeOK, None, Entry
<1>3. \A q \in Executed : checkpoint'[q] \in {checkpoint[q], None}
  BY <1>1 DEF Discard, CheckpointTypeOK
<1>4. UNCHANGED <<head, saves, saver, restorer>> /\ (~entangled' => ~entangled)
  BY DEF Discard
<1> QED
  BY <1>2, <1>3, <1>4, EntriesGo

LEMMA AgentCommitsSafe ==
    ASSUME CheckpointInv, NEW d \in Dirs, AgentCommits(d)
    PROVE  CheckpointInv'
<1>1. CheckpointTypeOK
  BY DEF CheckpointInv
<1>2. CheckpointTypeOK'
  BY <1>1, CheckpointAssumption DEF AgentCommits, CheckpointTypeOK
<1>3. UNCHANGED <<checkpoint, saves, saver, restorer, entangled>>
      /\ \A c \in Dirs : head'[c] >= head[c] /\ head'[c] \in Nat
  BY <1>1, CheckpointTypes0 DEF AgentCommits, CheckpointTypeOK
<1>4. CheckpointsStack'
  BY <1>1, <1>3, CheckpointTypes0 DEF CheckpointInv, CheckpointsStack, Has
<1>5. ASSUME ~entangled', NEW v \in Savers PROVE SaverReady(v)'
  <2>1. SaverReady(v) /\ saver[v].dir \in Dirs
    BY <1>1, <1>3, <1>5, CheckpointTypes0 DEF CheckpointInv
  <2>2. saver[v].run # NoRun => saver[v].sha <= head'[saver[v].dir]
    BY <1>1, <1>3, <2>1, CheckpointTypes0 DEF SaverReady
  <2> QED
    BY <1>3, <2>1, <2>2 DEF SaverReady, Of, Has, Saving, Restoring
<1>6. ASSUME ~entangled', NEW t \in Restorers PROVE RestorerReady(t)'
  BY <1>3, <1>6 DEF CheckpointInv, RestorerReady, Of, Has
<1> QED
  BY <1>2, <1>3, <1>4, <1>5, <1>6 DEF CheckpointInv, Dated, Named, Has

LEMMA CheckpointStepSafe == CheckpointInv /\ [CheckpointNext]_checkpointVars => CheckpointInv'
<1> SUFFICES ASSUME CheckpointInv, [CheckpointNext]_checkpointVars PROVE CheckpointInv'
  OBVIOUS
<1>1. ASSUME NEW v \in Savers, SaveBegins(v) PROVE CheckpointInv'
  <2>1. PICK r \in Executed : \E d \in {Server, Home[r]} : ReadHead(v, r, d)
    BY <1>1 DEF SaveBegins
  <2>2. PICK d \in {Server, Home[r]} : ReadHead(v, r, d)
    BY <2>1
  <2>3. d \in Dirs
    BY CheckpointAssumption
  <2> QED
    BY <2>2, <2>3, SaveBeginsSafe
<1>2. ASSUME NEW v \in Savers, Save(v) PROVE CheckpointInv'
  BY <1>2, SaveSafe
<1>3. ASSUME NEW r \in Executed, Discard(r) PROVE CheckpointInv'
  BY <1>3, DiscardSafe
<1>4. ASSUME NEW d \in Dirs, AgentCommits(d) PROVE CheckpointInv'
  BY <1>4, AgentCommitsSafe
<1>5. ASSUME NEW t \in Restorers, Restore(t) PROVE CheckpointInv'
  BY <1>5, RestoreSafe
<1>6. CASE UNCHANGED checkpointVars
  BY <1>6 DEF checkpointVars, CheckpointInv, CheckpointTypeOK, Dated, Named, CheckpointsStack,
              SaverReady, RestorerReady, Has, Of, Restoring, Saving
<1> QED
  BY <1>1, <1>2, <1>3, <1>4, <1>5, <1>6 DEF CheckpointNext

-----------------------------------------------------------------------------
(* The invariant holds in every reachable state.                           *)
THEOREM CheckpointSafety == CheckpointSpec => []CheckpointInv
  BY CheckpointInitSafe, CheckpointStepSafe, PTL DEF CheckpointSpec

(* The map, the clock and the requests keep to their types.                *)
THEOREM CheckpointTypes == CheckpointSpec => []CheckpointTypeOK
  BY CheckpointSafety, PTL DEF CheckpointInv

(* The checkpoints of a directory are a stack, whatever rollbacks fail and *)
(* leave behind (the LIFO check of restore_checkpoint).                    *)
THEOREM CheckpointStack == CheckpointSpec => []CheckpointsStack
  BY CheckpointSafety, PTL DEF CheckpointInv

-----------------------------------------------------------------------------
(* THE HISTORY FILE: a reader finds a whole history                        *)

(* A writer names an inode just while it has it open.                      *)
Opened ==
    \A w \in Scribes :
        /\ scribe[w].pc \in {"open", "truncated"} => scribe[w].inode \in Inodes
        /\ scribe[w].pc \notin {"open", "truncated"} => scribe[w].inode = NoInode

(* Alone, a writer fills a temporary file that is not the history's, and   *)
(* nobody takes its name away.                                             *)
Alone ==
    /\ \A v, w \in Scribes : scribe[v].pc # "rest" /\ scribe[w].pc # "rest" => v = w
    /\ \A w \in Scribes :
          /\ scribe[w].pc \notin {"direct", "truncated"}
          /\ scribe[w].pc = "open" => scribe[w].inode = tmp
          /\ scribe[w].pc = "written" => tmp \in Inodes /\ data[tmp] = scribe[w].all

HistoryInv ==
    /\ HistoryTypeOK /\ Opened
    /\ tmp # file
    /\ HistoryIntact
    /\ ~overlapped => Alone

-----------------------------------------------------------------------------
LEMMA HistoryConstants ==
    /\ Empty \in Histories /\ Torn \notin Histories
    /\ Resting \in Scribe /\ Resting.pc = "rest" /\ Resting.inode = NoInode
    /\ NoInode \notin Inodes /\ Purger \in Scribes
  BY HistoryAssumption, TornAssumption
     DEF Empty, Histories, Resting, Scribe, Scribes

(* An inode is left for a new temporary file.                              *)
LEMMA UnusedLeft ==
    ASSUME HistoryTypeOK, tmp = NoInode
    PROVE  \E j \in Inodes : j \in Unused /\ j # file
<1> DEFINE Held == {scribe[w].inode : w \in Scribes}
           f == [w \in Scribes |-> scribe[w].inode]
<1>1. IsFiniteSet(Scribes) /\ Cardinality(Scribes) = Cardinality(Writers) + 1
      /\ Cardinality(Writers) \in Nat
  BY HistoryAssumption, FS_AddElement, FS_CardinalityType DEF Scribes
<1>2. f \in Surjection(Scribes, Held)
  BY DEF Surjection
<1>3. IsFiniteSet(Held) /\ Cardinality(Held) <= Cardinality(Scribes)
  BY <1>1, <1>2, FS_Surjection
<1> HIDE DEF Held
<1>a. Cardinality(Held) \in Nat
  BY <1>3, FS_CardinalityType
<1>b. IsFiniteSet(Held \cup {file}) /\ Cardinality(Held \cup {file})
          = IF file \in Held THEN Cardinality(Held) ELSE Cardinality(Held) + 1
  BY <1>3, FS_AddElement, Zenon
<1>4. /\ IsFiniteSet(Held \cup {file}) /\ Cardinality(Held) \in Nat
      /\ Cardinality(Held \cup {file}) <= Cardinality(Held) + 1
      /\ Cardinality(Held \cup {file}) \in Nat
  BY <1>a, <1>b
<1>5. Cardinality(Held \cup {file}) < Cardinality(Inodes) /\ Cardinality(Inodes) \in Nat
  BY <1>1, <1>3, <1>4, HistoryAssumption, FS_CardinalityType
<1>6. ~(Inodes \subseteq Held \cup {file})
  BY <1>4, <1>5, FS_Subset
<1>7. PICK j \in Inodes : j \notin Held \cup {file}
  BY <1>6
<1> QED
  BY <1>7, HistoryAssumption DEF Unused, Held

LEMMA HistoryInitSafe == HistoryInit => HistoryInv
<1> SUFFICES ASSUME HistoryInit PROVE HistoryInv
  OBVIOUS
<1>1. \E i \in Inodes : TRUE
  <2>1. Inodes # {}
    BY HistoryAssumption, FS_EmptySet, FS_CardinalityType
  <2> QED
    BY <2>1
<1>2. file \in Inodes
  BY <1>1 DEF HistoryInit
<1>3. HistoryTypeOK
  BY <1>2, HistoryConstants DEF HistoryInit, HistoryTypeOK
<1>4. \A w \in Scribes : scribe[w].pc = "rest" /\ scribe[w].inode = NoInode
  BY HistoryConstants DEF HistoryInit
<1>5. Opened /\ Alone
  BY <1>4 DEF Opened, Alone
<1>6. tmp # file /\ HistoryIntact
  BY <1>2, HistoryConstants DEF HistoryInit, HistoryIntact
<1> QED
  BY <1>3, <1>5, <1>6 DEF HistoryInv

(* What a writer's step does to the writers.                               *)
LEMMA ScribeSteps ==
    ASSUME HistoryTypeOK, NEW w \in Scribes, NEW m, scribe' = [scribe EXCEPT ![w] = m]
    PROVE  scribe'[w] = m /\ \A v \in Scribes \ {w} : scribe'[v] = scribe[v]
  BY DEF HistoryTypeOK

LEMMA LoadSafe ==
    ASSUME HistoryInv, NEW w \in Scribes, NEW h \in Histories, Load(w, h)
    PROVE  HistoryInv'
<1> DEFINE m == [scribe[w] EXCEPT !.pc = "read", !.all = h]
<1>1. HistoryTypeOK /\ scribe[w] \in Scribe /\ scribe[w].inode = NoInode
  BY DEF HistoryInv, HistoryTypeOK, Opened, Load
<1>2. scribe' = [scribe EXCEPT ![w] = m]
  BY DEF Load
<1>3. m \in Scribe /\ m.pc = "read" /\ m.inode = NoInode
  BY <1>1 DEF Scribe
<1> HIDE DEF m
<1>4. scribe'[w] = m /\ \A v \in Scribes \ {w} : scribe'[v] = scribe[v]
  BY <1>1, <1>2, ScribeSteps
<1>5. HistoryTypeOK'
  BY <1>1, <1>2, <1>3 DEF HistoryTypeOK, Load
<1>6. Opened' /\ tmp' # file' /\ HistoryIntact'
  BY <1>3, <1>4 DEF HistoryInv, Opened, Load, HistoryIntact
<1>7. ASSUME ~overlapped' PROVE Alone'
  <2>1. \A v \in Scribes : scribe[v].pc = "rest"
    BY <1>7 DEF Load
  <2> QED
    BY <1>3, <1>4, <2>1 DEF Alone
<1> QED
  BY <1>5, <1>6, <1>7 DEF HistoryInv

LEMMA OpenSafe ==
    ASSUME HistoryInv, NEW w \in Scribes, OpenTmp(w)
    PROVE  HistoryInv'
<1> DEFINE i == IF tmp = NoInode THEN CHOOSE j \in Unused : TRUE ELSE tmp
           m == [scribe[w] EXCEPT !.pc = "open", !.inode = i]
<1>1. HistoryTypeOK /\ scribe[w] \in Scribe
  BY DEF HistoryInv, HistoryTypeOK
<1>2. i \in Inodes /\ i # file
  <2>1. CASE tmp = NoInode
    <3>1. \E j \in Unused : TRUE
      BY <1>1, <2>1, UnusedLeft
    <3>2. i \in Unused
      BY <2>1, <3>1
    <3> QED
      BY <3>2 DEF Unused
  <2>2. CASE tmp # NoInode
    BY <1>1, <2>2 DEF HistoryTypeOK, HistoryInv
  <2> QED
    BY <2>1, <2>2
<1>a. /\ scribe[w].pc = "read" /\ tmp' = i /\ data' = [data EXCEPT ![i] = Torn]
      /\ scribe' = [scribe EXCEPT ![w].pc = "open", ![w].inode = i]
      /\ UNCHANGED <<file, committed, overlapped>>
  BY Zenon DEF OpenTmp
<1> HIDE DEF i
<1>3. /\ scribe[w].pc = "read" /\ tmp' = i /\ data' = [data EXCEPT ![i] = Torn]
      /\ scribe' = [scribe EXCEPT ![w] = m]
      /\ UNCHANGED <<file, committed, overlapped>>
  BY <1>a
<1>4. m \in Scribe /\ m.pc = "open" /\ m.inode = i
  BY <1>1, <1>2 DEF Scribe
<1> HIDE DEF m
<1>5. scribe'[w] = m /\ \A v \in Scribes \ {w} : scribe'[v] = scribe[v]
  BY <1>1, <1>3, ScribeSteps
<1>6. HistoryTypeOK'
  BY <1>1, <1>2, <1>3, <1>4 DEF HistoryTypeOK
<1>7. Opened' /\ tmp' # file'
  BY <1>2, <1>3, <1>4, <1>5 DEF HistoryInv, Opened
<1>8. data'[file] = data[file]
  BY <1>1, <1>2, <1>3 DEF HistoryTypeOK
<1>9. HistoryIntact'
  BY <1>3, <1>8 DEF HistoryInv, HistoryIntact
<1>10. ASSUME ~overlapped' PROVE Alone'
  <2>1. Alone
    BY <1>3, <1>10 DEF HistoryInv
  <2>2. \A v \in Scribes \ {w} : scribe[v].pc = "rest"
    BY <1>3, <2>1 DEF Alone
  <2> QED
    BY <1>3, <1>4, <1>5, <2>2 DEF Alone
<1> QED
  BY <1>6, <1>7, <1>9, <1>10 DEF HistoryInv

LEMMA FillSafe ==
    ASSUME HistoryInv, NEW w \in Scribes, FillTmp(w)
    PROVE  HistoryInv'
<1> DEFINE i == scribe[w].inode
           h == scribe[w].all
           m == [scribe[w] EXCEPT !.pc = "written", !.inode = NoInode]
<1>1. /\ HistoryTypeOK /\ scribe[w] \in Scribe /\ h \in Histories
      /\ i \in Inodes /\ scribe[w].pc = "open"
  BY DEF HistoryInv, HistoryTypeOK, Opened, FillTmp, Scribe
<1>2. /\ data' = [data EXCEPT ![i] = h] /\ scribe' = [scribe EXCEPT ![w] = m]
      /\ UNCHANGED <<file, tmp, committed, overlapped>>
  BY DEF FillTmp
<1>3. m \in Scribe /\ m.pc = "written" /\ m.inode = NoInode /\ m.all = h
  BY <1>1 DEF Scribe
<1> HIDE DEF m
<1>4. scribe'[w] = m /\ \A v \in Scribes \ {w} : scribe'[v] = scribe[v]
  BY <1>1, <1>2, ScribeSteps
<1>5. HistoryTypeOK'
  BY <1>1, <1>2, <1>3 DEF HistoryTypeOK
<1>6. Opened' /\ tmp' # file'
  BY <1>2, <1>3, <1>4 DEF HistoryInv, Opened
<1>7. ASSUME ~overlapped' PROVE Alone' /\ data'[file'] = committed'
  <2>1. Alone /\ data[file] = committed /\ tmp # file
    BY <1>2, <1>7 DEF HistoryInv, HistoryIntact
  <2>2. i = tmp /\ \A v \in Scribes \ {w} : scribe[v].pc = "rest"
    BY <1>1, <2>1 DEF Alone
  <2>3. data'[tmp] = h /\ data'[file] = data[file]
    BY <1>1, <1>2, <2>1, <2>2 DEF HistoryTypeOK
  <2> QED
    BY <1>1, <1>2, <1>3, <1>4, <2>1, <2>2, <2>3 DEF Alone
<1> QED
  BY <1>5, <1>6, <1>7 DEF HistoryInv, HistoryIntact

LEMMA WriteFailsSafe ==
    ASSUME HistoryInv, NEW w \in Scribes, WriteFails(w)
    PROVE  HistoryInv'
<1>1. HistoryTypeOK /\ scribe' = [scribe EXCEPT ![w] = Resting]
      /\ UNCHANGED <<file, tmp, data, committed, overlapped>>
  BY DEF HistoryInv, WriteFails
<1>2. scribe'[w] = Resting /\ \A v \in Scribes \ {w} : scribe'[v] = scribe[v]
  BY <1>1, ScribeSteps
<1>3. HistoryTypeOK'
  BY <1>1, HistoryConstants DEF HistoryTypeOK
<1>4. Opened' /\ tmp' # file' /\ HistoryIntact'
  BY <1>1, <1>2, HistoryConstants DEF HistoryInv, Opened, HistoryIntact
<1>5. ~overlapped' => Alone'
  BY <1>1, <1>2, HistoryConstants DEF HistoryInv, Alone
<1> QED
  BY <1>3, <1>4, <1>5 DEF HistoryInv

LEMMA RenameSafe ==
    ASSUME HistoryInv, NEW w \in Scribes, RenameTmp(w)
    PROVE  HistoryInv'
<1>1. /\ HistoryTypeOK /\ scribe[w] \in Scribe /\ scribe[w].all \in Histories
      /\ scribe[w].inode = NoInode /\ scribe[w].pc = "written"
  BY DEF HistoryInv, HistoryTypeOK, Opened, RenameTmp, Scribe
<1>2. CASE tmp # NoInode
  <2>1. /\ file' = tmp /\ tmp' = NoInode /\ data' = [data EXCEPT ![file] = Empty]
        /\ scribe' = [scribe EXCEPT ![w] = Resting] /\ committed' = scribe[w].all
        /\ UNCHANGED overlapped
    BY <1>2 DEF RenameTmp, Finish
  <2>2. scribe'[w] = Resting /\ \A v \in Scribes \ {w} : scribe'[v] = scribe[v]
    BY <1>1, <2>1, ScribeSteps
  <2>3. tmp \in Inodes /\ tmp # file
    BY <1>1, <1>2 DEF HistoryTypeOK, HistoryInv
  <2>4. HistoryTypeOK'
    BY <1>1, <2>1, <2>3, HistoryConstants DEF HistoryTypeOK
  <2>5. Opened' /\ tmp' # file'
    BY <2>1, <2>2, <2>3, HistoryConstants DEF HistoryInv, Opened
  <2>6. ASSUME ~overlapped' PROVE Alone' /\ data'[file'] = committed'
    <3>1. Alone
      BY <2>1, <2>6 DEF HistoryInv
    <3>2. \A v \in Scribes : scribe'[v].pc = "rest"
      BY <1>1, <2>2, <3>1, HistoryConstants DEF Alone
    <3>3. data'[tmp] = data[tmp] /\ data[tmp] = scribe[w].all
      BY <1>1, <2>1, <2>3, <3>1 DEF Alone, HistoryTypeOK
    <3> QED
      BY <2>1, <3>2, <3>3 DEF Alone
  <2> QED
    BY <2>4, <2>5, <2>6 DEF HistoryInv, HistoryIntact
<1>3. CASE tmp = NoInode
  <2> DEFINE m == [scribe[w] EXCEPT !.pc = "direct"]
  <2>1. /\ scribe' = [scribe EXCEPT ![w] = m]
        /\ UNCHANGED <<file, tmp, data, committed, overlapped>>
    BY <1>3 DEF RenameTmp
  <2>2. m \in Scribe /\ m.pc = "direct" /\ m.inode = NoInode
    BY <1>1 DEF Scribe
  <2> HIDE DEF m
  <2>3. scribe'[w] = m /\ \A v \in Scribes \ {w} : scribe'[v] = scribe[v]
    BY <1>1, <2>1, ScribeSteps
  <2>4. overlapped
    BY <1>1, <1>3, HistoryConstants DEF HistoryInv, Alone
  <2>5. HistoryTypeOK'
    BY <1>1, <2>1, <2>2 DEF HistoryTypeOK
  <2>6. Opened' /\ tmp' # file'
    BY <2>1, <2>2, <2>3 DEF HistoryInv, Opened
  <2> QED
    BY <2>1, <2>4, <2>5, <2>6 DEF HistoryInv, HistoryIntact
<1> QED
  BY <1>2, <1>3

(* The file is only rewritten in place when writers have overlapped.       *)
LEMMA TruncateSafe ==
    ASSUME HistoryInv, NEW w \in Scribes, Truncate(w)
    PROVE  HistoryInv'
<1> DEFINE m == [scribe[w] EXCEPT !.pc = "truncated", !.inode = file]
<1>1. HistoryTypeOK /\ scribe[w] \in Scribe /\ file \in Inodes /\ scribe[w].pc = "direct"
  BY DEF HistoryInv, HistoryTypeOK, Truncate
<1>2. /\ data' = [data EXCEPT ![file] = Torn] /\ scribe' = [scribe EXCEPT ![w] = m]
      /\ UNCHANGED <<file, tmp, committed, overlapped>>
  BY DEF Truncate
<1>3. m \in Scribe /\ m.pc = "truncated" /\ m.inode = file
  BY <1>1 DEF Scribe
<1> HIDE DEF m
<1>4. scribe'[w] = m /\ \A v \in Scribes \ {w} : scribe'[v] = scribe[v]
  BY <1>1, <1>2, ScribeSteps
<1>5. overlapped
  BY <1>1 DEF HistoryInv, Alone
<1>6. HistoryTypeOK'
  BY <1>1, <1>2, <1>3 DEF HistoryTypeOK
<1>7. Opened' /\ tmp' # file'
  BY <1>1, <1>2, <1>3, <1>4 DEF HistoryInv, Opened
<1> QED
  BY <1>2, <1>5, <1>6, <1>7 DEF HistoryInv, HistoryIntact

LEMMA RefillSafe ==
    ASSUME HistoryInv, NEW w \in Scribes, Refill(w)
    PROVE  HistoryInv'
<1>1. /\ HistoryTypeOK /\ scribe[w] \in Scribe /\ scribe[w].all \in Histories
      /\ scribe[w].inode \in Inodes /\ scribe[w].pc = "truncated"
  BY DEF HistoryInv, HistoryTypeOK, Opened, Refill, Scribe
<1>2. /\ data' = [data EXCEPT ![scribe[w].inode] = scribe[w].all] /\ tmp' = NoInode
      /\ scribe' = [scribe EXCEPT ![w] = Resting] /\ committed' = scribe[w].all
      /\ UNCHANGED <<file, overlapped>>
  BY DEF Refill, Finish
<1>3. scribe'[w] = Resting /\ \A v \in Scribes \ {w} : scribe'[v] = scribe[v]
  BY <1>1, <1>2, ScribeSteps
<1>4. overlapped
  BY <1>1 DEF HistoryInv, Alone
<1>5. HistoryTypeOK'
  BY <1>1, <1>2, HistoryConstants DEF HistoryTypeOK
<1>6. Opened' /\ tmp' # file'
  BY <1>1, <1>2, <1>3, HistoryConstants DEF HistoryInv, Opened, HistoryTypeOK
<1> QED
  BY <1>2, <1>4, <1>5, <1>6 DEF HistoryInv, HistoryIntact

LEMMA HistoryCrashSafe ==
    ASSUME HistoryInv, CrashHistory
    PROVE  HistoryInv'
<1>1. scribe' = [w \in Scribes |-> Resting] /\ UNCHANGED <<file, tmp, data, committed, overlapped>>
  BY DEF CrashHistory
<1>2. \A w \in Scribes : scribe'[w].pc = "rest" /\ scribe'[w].inode = NoInode
  BY <1>1, HistoryConstants
<1>3. HistoryTypeOK'
  BY <1>1, HistoryConstants DEF HistoryInv, HistoryTypeOK
<1>4. Opened' /\ Alone'
  BY <1>2 DEF Opened, Alone
<1> QED
  BY <1>1, <1>3, <1>4 DEF HistoryInv, HistoryIntact

LEMMA HistoryStepSafe == HistoryInv /\ [HistoryNext]_historyVars => HistoryInv'
<1> SUFFICES ASSUME HistoryInv, [HistoryNext]_historyVars PROVE HistoryInv'
  OBVIOUS
<1>1. ReadAll \in Histories
  BY HistoryConstants DEF HistoryInv, HistoryTypeOK, ReadAll
<1>2. ASSUME NEW w \in Writers, NEW r \in Recorded, LoadRun(w, r) PROVE HistoryInv'
  <2>1. PICK v \in 1..MaxVersion : Load(w, [ReadAll EXCEPT ![r] = v])
    BY <1>2 DEF LoadRun
  <2>2. [ReadAll EXCEPT ![r] = v] \in Histories
    BY <1>1 DEF Histories
  <2> QED
    BY <2>1, <2>2, LoadSafe DEF Scribes
<1>3. CASE LoadPurge
  <2>1. [r \in Recorded |-> IF r \in Doomed THEN 0 ELSE ReadAll[r]] \in Histories
    BY <1>1, HistoryAssumption DEF Histories
  <2> QED
    BY <1>3, <2>1, LoadSafe DEF LoadPurge, Scribes
<1>4. ASSUME NEW w \in Scribes, WriteAll(w) PROVE HistoryInv'
  BY <1>4, OpenSafe, FillSafe, WriteFailsSafe, RenameSafe, TruncateSafe, RefillSafe DEF WriteAll
<1>5. CASE CrashHistory
  BY <1>5, HistoryCrashSafe
<1>6. CASE UNCHANGED historyVars
  BY <1>6 DEF historyVars, HistoryInv, HistoryTypeOK, Opened, HistoryIntact, Alone
<1> QED
  BY <1>2, <1>3, <1>4, <1>5, <1>6 DEF HistoryNext

LEMMA HistoryInvariant == HistorySpec => []HistoryInv
  BY HistoryInitSafe, HistoryStepSafe, PTL DEF HistorySpec

(* A reader finds the complete history at every moment, for any number of  *)
(* runs, writers and crashes, as long as no two writes overlapped          *)
(* (write_all goes through a temporary file and a rename).                 *)
THEOREM HistoryStaysIntact == HistorySpec => []HistoryIntact
<1>1. HistoryInv => HistoryIntact
  BY DEF HistoryInv
<1> QED
  BY <1>1, HistoryInvariant, PTL

-----------------------------------------------------------------------------
(* THE MEMORY: the newest of what is about the same is kept                *)

(* Row number n was a user's to change, or there is a newer row about the  *)
(* same.                                                                   *)
Outdone(r) == \E k \in said : Topic[k.text] = Topic[r.text] /\ Newer(k, r)

OutdoneIn(s, n) ==
    \E r, k \in s : r.n = n /\ Topic[k.text] = Topic[r.text] /\ Newer(k, r)

LEMMA CloseIsAboutTheSame ==
    ASSUME NEW a, NEW b, IsClose(a, b)
    PROVE  Topic[a] = Topic[b]
  BY MemoryAssumption DEF IsClose

(* Whatever an anchor drops gives way to a newer row.                      *)
LEMMA DropGivesWay ==
    ASSUME NEW s, s \subseteq Memo, NEW a \in s, NEW gone, NEW n \in Drop(s, a, gone)
    PROVE  OutdoneIn(s, n)
<1> DEFINE facing == Facing(s, a, gone)
           newer == {r \in facing : r.created >= a.created}
<1>1. \A r \in s : r.n \in Nat /\ r.created \in Nat
  BY MemoryAssumption DEF Memo
<1>2. \A r \in facing : r \in s /\ r.n > a.n /\ Topic[a.text] = Topic[r.text]
  BY CloseIsAboutTheSame DEF Facing
<1>3. CASE newer = {}
  <2>1. n \in Contents(facing)
    BY <1>3 DEF Drop
  <2>2. PICK r \in facing : r.n = n
    BY <2>1 DEF Contents
  <2>3. Newer(a, r)
    BY <1>1, <1>2, <1>3 DEF Newer
  <2> QED
    BY <1>2, <2>2, <2>3 DEF OutdoneIn
<1>4. CASE newer # {}
  <2>1. n = a.n \/ n \in Contents({r \in facing : \A m \in newer : r.n < m.n})
    BY <1>4 DEF Drop
  <2>2. PICK m \in newer : TRUE
    BY <1>4
  <2>3. CASE n = a.n
    <3>1. Newer(m, a)
      BY <1>1, <1>2, <2>2 DEF Newer
    <3> QED
      BY <1>2, <2>2, <2>3, <3>1 DEF OutdoneIn
  <2>4. CASE n \in Contents({r \in facing : \A q \in newer : r.n < q.n})
    <3>1. PICK r \in facing : r.n = n /\ \A q \in newer : r.n < q.n
      BY <2>4 DEF Contents
    <3>2. r \notin newer
      BY <1>1, <1>2, <3>1
    <3>3. Newer(a, r)
      BY <1>1, <1>2, <3>2 DEF Newer
    <3> QED
      BY <1>2, <3>1, <3>3 DEF OutdoneIn
  <2> QED
    BY <2>1, <2>3, <2>4
<1> QED
  BY <1>3, <1>4

(* The pass as a table: what was dropped when each row had its turn.       *)
Pass(s, n, gone) ==
    gone \cup UNION {Drop(s, a, gone) : a \in {r \in s : r.n = n /\ n \notin gone}}

IsPass(s, k, f) ==
    f = [n \in 0..k |-> IF n = 0 THEN {} ELSE Pass(s, n, f[n-1])]

LEMMA PassExists ==
    ASSUME NEW s
    PROVE  \E f : IsPass(s, MaxRows, f)
<1> DEFINE Bad == {k \in 0..MaxRows : ~\E f : IsPass(s, k, f)}
<1>0. MaxRows \in Nat
  BY MemoryAssumption
<1> SUFFICES ASSUME Bad # {} PROVE FALSE
  BY <1>0
<1>1. Bad \subseteq 0..MaxRows
  OBVIOUS
<1>2. \E k \in Bad : \A j \in Bad : k <= j
  <2> HIDE DEF Bad
  <2>1. Bad \subseteq Nat
    BY <1>0, <1>1
  <2> QED
    BY <2>1, LeastOf
<1>a. PICK k \in Bad : \A j \in Bad : k <= j
  BY <1>2
<1>3. IsPass(s, 0, [n \in 0..0 |-> {}])
  BY DEF IsPass
<1>4. k # 0
  BY <1>a, <1>3
<1>5. k \in 0..MaxRows /\ k - 1 \in 0..MaxRows /\ ~(k <= k - 1)
  BY <1>0, <1>1, <1>a, <1>4
<1>6. PICK f : IsPass(s, k - 1, f)
  BY <1>a, <1>5
<1> DEFINE g == [n \in 0..k |-> IF n = k THEN Pass(s, k, f[k-1]) ELSE f[n]]
<1>7. ASSUME NEW n \in 0..k PROVE g[n] = IF n = 0 THEN {} ELSE Pass(s, n, g[n-1])
  <2>1. n # 0 => n - 1 \in 0..k /\ g[n-1] = f[n-1]
    BY <1>5
  <2>2. CASE n = k
    BY <1>4, <2>1, <2>2
  <2>3. CASE n # k
    <3>1. n \in 0..(k-1) /\ g[n] = f[n]
      BY <1>5, <2>3
    <3>2. f[n] = IF n = 0 THEN {} ELSE Pass(s, n, f[n-1])
      BY <1>6, <3>1 DEF IsPass
    <3> QED
      BY <2>1, <3>1, <3>2
  <2> QED
    BY <2>2, <2>3
<1>8. IsPass(s, k, g)
  BY <1>7 DEF IsPass
<1> QED
  BY <1>a, <1>8

(* Whatever a pass drops gives way to a newer row of its snapshot: there   *)
(* is no first row whose turn it was that dropped too much.                *)
LEMMA DroppedGivesWay ==
    ASSUME NEW s, s \subseteq Memo, NEW n \in Dropped(s)
    PROVE  OutdoneIn(s, n)
<1> DEFINE by == CHOOSE f : IsPass(s, MaxRows, f)
<1>0. MaxRows \in Nat
  BY MemoryAssumption
<1>1. Dropped(s) = by[MaxRows]
  BY Zenon DEF Dropped, IsPass, Pass
<1>2. IsPass(s, MaxRows, by)
  BY PassExists
<1> HIDE DEF by
<1>3. \A i \in 0..MaxRows : by[i] = IF i = 0 THEN {} ELSE Pass(s, i, by[i-1])
  BY <1>2 DEF IsPass
<1> DEFINE Bad == {k \in 0..MaxRows : \E m \in by[k] : ~OutdoneIn(s, m)}
<1>4. Bad = {}
  <2> SUFFICES ASSUME Bad # {} PROVE FALSE
    OBVIOUS
  <2>1. Bad \subseteq Nat
    BY <1>0
  <2>2. PICK k \in Bad : \A j \in Bad : k <= j
    BY <2>1, LeastOf
  <2>3. k # 0
    BY <1>0, <1>3, <2>2
  <2>4. k - 1 \in 0..MaxRows /\ k \in 1..MaxRows /\ k - 1 \notin Bad
    BY <1>0, <2>2, <2>3
  <2>5. PICK m \in by[k] : ~OutdoneIn(s, m)
    BY <2>2
  <2>6. m \in Pass(s, k, by[k-1]) /\ m \notin by[k-1]
    BY <1>3, <2>3, <2>4, <2>5
  <2>7. PICK a \in s : m \in Drop(s, a, by[k-1])
    BY <2>6 DEF Pass
  <2> QED
    BY <2>5, <2>7, DropGivesWay
<1> QED
  BY <1>0, <1>1, <1>4

-----------------------------------------------------------------------------
(* The newest that was said about anything is still there, unless it was a *)
(* user's to change.                                                       *)
NewestStays ==
    \A r \in said : ~Outdone(r) => r.n \in handled \cup Contents(rows)

(* What a pass still has to delete was outdone when it was dropped: it     *)
(* still is, whatever the others did meanwhile.                            *)
DoomedAreOutdone ==
    \A t \in Jobs : \A n \in job[t].doomed :
        /\ n \in Contents(said)
        /\ n \in handled \/ \A r \in said : r.n = n => Outdone(r)

(* A row says one thing until a user edits it.                             *)
OneVersion ==
    /\ rows \subseteq said
    /\ \A r \in said : r.n <= inserted
    /\ \A a, b \in said : a.n = b.n /\ a.n \notin handled => a = b

(* Whoever is yet to mirror the table, and with what.                      *)
ToBeMirrored ==
    \E u \in Jobs : job[u].pc = "changed" \/ (job[u].pc = "write" /\ u \in current)

MirrorKept == crossed \/ ToBeMirrored \/ File \in current

MemoryInv ==
    /\ MemoryTypeOK
    /\ \A t \in Jobs : job[t].pc = "insert" => job[t].facts # <<>>
    /\ OneVersion /\ DoomedAreOutdone /\ NewestStays
    /\ MirrorKept

LEMMA NewerFacts ==
    /\ \A r \in Memo : r.n \in Nat /\ r.created \in Nat /\ r.n \in 1..MaxRows
                       /\ r.text \in Texts /\ r.created \in 0..MaxClock
    /\ MaxRows \in Nat /\ MaxClock \in Nat
  BY MemoryAssumption DEF Memo

(* Of all that is newer than r about the same, one is the newest.          *)
LEMMA NewestOf ==
    ASSUME MemoryTypeOK, NEW r \in said, Outdone(r)
    PROVE  \E k \in said : /\ Topic[k.text] = Topic[r.text] /\ Newer(k, r)
                           /\ ~Outdone(k)
<1> DEFINE C == {k \in said : Topic[k.text] = Topic[r.text] /\ Newer(k, r)}
           A == {MaxClock - k.created : k \in C}
<1>0. said \subseteq Memo
  BY DEF MemoryTypeOK
<1>1. C # {} /\ C \subseteq Memo
  BY <1>0 DEF Outdone
<1>2. A \subseteq Nat /\ A # {}
  BY <1>1, NewerFacts
<1>3. PICK x \in A : \A y \in A : x <= y
  <2> HIDE DEF A
  <2> QED
    BY <1>2, LeastOf
<1>4. PICK a \in C : x = MaxClock - a.created
  BY <1>3
<1>5. \A k \in C : k.created <= a.created
  <2> TAKE k \in C
  <2>1. x <= MaxClock - k.created
    BY <1>3
  <2>2. k \in Memo /\ a \in Memo
    BY <1>1, <1>4
  <2> QED
    BY <1>4, <2>1, <2>2, NewerFacts
<1> DEFINE B == {MaxRows - k.n : k \in {k \in C : k.created = a.created}}
<1>6. B \subseteq Nat /\ B # {}
  BY <1>1, NewerFacts
<1>7. PICK z \in B : \A y \in B : z <= y
  <2> HIDE DEF B
  <2> QED
    BY <1>6, LeastOf
<1>8. PICK m \in C : m.created = a.created /\ z = MaxRows - m.n
  BY <1>7
<1>9. \A k \in C : k.created = a.created => k.n <= m.n
  <2> SUFFICES ASSUME NEW k \in C, k.created = a.created PROVE k.n <= m.n
    OBVIOUS
  <2>1. z <= MaxRows - k.n
    BY <1>7
  <2>2. k \in Memo /\ m \in Memo
    BY <1>1, <1>8
  <2> QED
    BY <1>8, <2>1, <2>2, NewerFacts
<1>10. \A k \in C : ~Newer(k, m)
  BY <1>1, <1>5, <1>8, <1>9, NewerFacts DEF Newer
<1>11. \A k \in said : Topic[k.text] = Topic[m.text] /\ Newer(k, m) => k \in C
  BY <1>0, <1>1, NewerFacts DEF Newer
<1>12. ~Outdone(m)
  BY <1>10, <1>11 DEF Outdone
<1> QED
  BY <1>12

LEMMA MemoryInvMeans == MemoryInv => NewestKept /\ MirrorSettles
<1> SUFFICES ASSUME MemoryInv PROVE NewestKept /\ MirrorSettles
  OBVIOUS
<1>1. NewestKept
  BY NewestOf DEF MemoryInv, NewestStays, NewestKept
<1>2. MirrorSettles
  BY DEF MemoryInv, MirrorKept, ToBeMirrored, MirrorSettles
<1> QED
  BY <1>1, <1>2

LEMMA RestIsJob ==
    /\ Rest \in Job /\ Rest.pc = "idle" /\ Rest.doomed = {} /\ Rest.facts = <<>>
  BY MemoryAssumption DEF Rest, Job

LEMMA MemoryInitSafe == MemoryInit => MemoryInv
<1> SUFFICES ASSUME MemoryInit PROVE MemoryInv
  OBVIOUS
<1>1. /\ rows \subseteq Memo /\ Cardinality(rows) \in 0..MaxRows
      /\ \A a, b \in rows : a.n <= Cardinality(rows) /\ (a.n = b.n => a = b)
  BY MemoryAssumption, FS_CardinalityType DEF MemoryInit
<1>2. \A t \in Jobs : job[t] = Rest
  BY DEF MemoryInit
<1>3. MemoryTypeOK
  BY <1>1, RestIsJob DEF MemoryInit, MemoryTypeOK
<1>4. \A t \in Jobs : job[t].pc = "idle" /\ job[t].doomed = {}
  BY <1>2, RestIsJob
<1>5. OneVersion /\ DoomedAreOutdone /\ NewestStays /\ MirrorKept
  BY <1>1, <1>4 DEF MemoryInit, OneVersion, DoomedAreOutdone, NewestStays, MirrorKept, Contents
<1> QED
  BY <1>3, <1>4, <1>5 DEF MemoryInv

(* A step that leaves the table alone.                                     *)
LEMMA JobMoves ==
    ASSUME MemoryInv, NEW t \in Jobs, NEW m \in Job,
           job' = [job EXCEPT ![t] = m],
           UNCHANGED <<rows, inserted, said, handled>>,
           clock' \in 0..MaxClock, captures' \in Nat, current' \subseteq Jobs \cup {File},
           crossed' \in BOOLEAN,
           m.pc = "insert" => m.facts # <<>>,
           \A n \in m.doomed : /\ n \in Contents(said)
                               /\ \/ n \in handled
                                  \/ \A r \in said : r.n = n => Outdone(r),
           MirrorKept'
    PROVE  MemoryInv'
<1>1. MemoryTypeOK'
  BY DEF MemoryInv, MemoryTypeOK
<1>2. job'[t] = m /\ \A u \in Jobs \ {t} : job'[u] = job[u]
  BY DEF MemoryInv, MemoryTypeOK
<1>3. \A u \in Jobs : job'[u].pc = "insert" => job'[u].facts # <<>>
  BY <1>2 DEF MemoryInv
<1>4. OneVersion' /\ NewestStays'
  BY DEF MemoryInv, OneVersion, NewestStays, Outdone
<1>5. DoomedAreOutdone'
  BY <1>2 DEF MemoryInv, DoomedAreOutdone, Outdone
<1> QED
  BY <1>1, <1>3, <1>4, <1>5 DEF MemoryInv

(* Nobody who mirrors is involved.                                         *)
LEMMA MirrorUntouched ==
    ASSUME MemoryInv, NEW t \in Jobs, NEW m \in Job,
           job' = [job EXCEPT ![t] = m],
           job[t].pc \notin {"changed", "write"},
           current' = current, crossed' = crossed
    PROVE  MirrorKept'
<1>1. job'[t] = m /\ \A u \in Jobs \ {t} : job'[u] = job[u]
  BY DEF MemoryInv, MemoryTypeOK
<1> QED
  BY <1>1 DEF MemoryInv, MirrorKept, ToBeMirrored

(* A pass dooms only rows that gave way.                                   *)
LEMMA ConsolidatingSafe ==
    ASSUME MemoryInv
    PROVE  LET m == Consolidating(Rest) IN
           /\ m \in Job /\ m.pc \notin {"insert", "write"}
           /\ \A n \in m.doomed : /\ n \in Contents(said)
                                  /\ \/ n \in handled
                                     \/ \A r \in said : r.n = n => Outdone(r)
<1> DEFINE m == Consolidating(Rest)
<1>1. CASE Cardinality(rows) > 1
  <2>1. m = [Rest EXCEPT !.pc = "delete", !.doomed = Dropped(rows)]
    BY <1>1 DEF Consolidating
  <2>2. rows \subseteq Memo /\ rows \subseteq said
    BY DEF MemoryInv, MemoryTypeOK, OneVersion
  <2>3. ASSUME NEW n \in Dropped(rows)
        PROVE  /\ n \in Contents(said) /\ n \in 1..MaxRows
               /\ n \in handled \/ \A r \in said : r.n = n => Outdone(r)
    <3>1. PICK r, k \in rows : r.n = n /\ Topic[k.text] = Topic[r.text] /\ Newer(k, r)
      BY <2>2, DroppedGivesWay DEF OutdoneIn
    <3>2. Outdone(r)
      BY <2>2, <3>1 DEF Outdone
    <3>3. \A q \in said : q.n = n /\ n \notin handled => q = r
      BY <2>2, <3>1 DEF MemoryInv, OneVersion
    <3>4. n \in Contents(said) /\ n \in 1..MaxRows
      BY <2>2, <3>1, NewerFacts DEF Contents
    <3> QED
      BY <3>2, <3>3, <3>4
  <2>4. m.doomed = Dropped(rows) /\ m.pc = "delete"
    BY <2>1 DEF Rest
  <2>5. Dropped(rows) \subseteq 1..MaxRows
    BY <2>3
  <2>6. m \in Job
    BY <2>1, <2>5, RestIsJob DEF Job
  <2> QED
    BY <2>3, <2>4, <2>6
<1>2. CASE ~(Cardinality(rows) > 1)
  <2>1. m = [Rest EXCEPT !.pc = "changed"]
    BY <1>2 DEF Consolidating
  <2>2. m \in Job /\ m.pc = "changed" /\ m.doomed = {}
    BY <2>1, RestIsJob DEF Job, Rest
  <2> QED
    BY <2>2
<1> QED
  BY <1>1, <1>2

LEMMA ConsolidateSafe ==
    ASSUME MemoryInv, NEW t \in Jobs, Consolidate(t) \/ AutoConsolidate(t)
    PROVE  MemoryInv'
<1>0. MemoryTypeOK
  BY DEF MemoryInv
<1>1. CASE job' = [job EXCEPT ![t] = Consolidating(Rest)]
  <2>1. /\ UNCHANGED <<rows, inserted, clock, current, said, handled, crossed>>
        /\ captures' \in Nat /\ job[t].pc \notin {"changed", "write"}
    BY <1>0 DEF Consolidate, AutoConsolidate, MemoryTypeOK
  <2>2. MirrorKept'
    BY <1>1, <2>1, ConsolidatingSafe, MirrorUntouched
  <2> QED
    BY <1>0, <1>1, <2>1, <2>2, ConsolidatingSafe, JobMoves DEF MemoryTypeOK
<1>2. CASE AutoConsolidate(t) /\ job' = [job EXCEPT ![t] = Rest]
  <2>1. /\ UNCHANGED <<rows, inserted, clock, current, said, handled, crossed>>
        /\ captures' \in Nat /\ job[t].pc \notin {"changed", "write"}
    BY <1>0, <1>2 DEF AutoConsolidate, MemoryTypeOK
  <2>2. MirrorKept'
    BY <1>2, <2>1, RestIsJob, MirrorUntouched
  <2> QED
    BY <1>0, <1>2, <2>1, <2>2, RestIsJob, JobMoves DEF MemoryTypeOK
<1> QED
  BY <1>1, <1>2 DEF Consolidate, AutoConsolidate

(* The parts of a job that a step may set.                                 *)
LEMMA JobFields ==
    ASSUME NEW m \in Job
    PROVE  /\ m.facts \in Seq(Texts) /\ m.known \subseteq Texts /\ m.kept \in Nat
           /\ m.doomed \subseteq 1..MaxRows
           /\ \A p \in {"facts", "insert", "changed", "write"} : [m EXCEPT !.pc = p] \in Job
           /\ \A f \in Seq(Texts) : [m EXCEPT !.facts = f] \in Job
  BY DEF Job

LEMMA AddSafe ==
    ASSUME MemoryInv, NEW t \in Jobs, NEW text \in Texts, Add(t, text)
    PROVE  MemoryInv'
<1> DEFINE me == [Rest EXCEPT !.facts = <<text>>]
           m == [me EXCEPT !.pc = "insert", !.stamp = clock']
<1>0. MemoryTypeOK
  BY DEF MemoryInv
<1>1. /\ job[t].pc = "idle" /\ clock' \in clock..MaxClock /\ job' = [job EXCEPT ![t] = m]
      /\ UNCHANGED <<rows, inserted, captures, current, said, handled, crossed>>
  BY DEF Add, Stamp
<1>2. clock' \in 0..MaxClock
  BY <1>0, <1>1, MemoryAssumption DEF MemoryTypeOK
<1>a. <<text>> \in Seq(Texts) /\ <<text>> # <<>>
  OBVIOUS
<1>b. me \in Job /\ me.facts = <<text>> /\ me.doomed = {}
  BY <1>a, RestIsJob DEF Job, Rest
<1> HIDE DEF me
<1>3. m \in Job /\ m.pc = "insert" /\ m.facts # <<>> /\ m.doomed = {}
  BY <1>2, <1>a, <1>b DEF Job
<1> HIDE DEF m
<1>4. MirrorKept'
  BY <1>1, <1>3, MirrorUntouched
<1> QED
  BY <1>0, <1>1, <1>2, <1>3, <1>4, JobMoves DEF MemoryTypeOK

LEMMA CaptureSafe ==
    ASSUME MemoryInv, NEW t \in Jobs, NEW facts \in Exchanges, Capture(t, facts)
    PROVE  MemoryInv'
<1> DEFINE m == [Rest EXCEPT !.pc = "facts", !.facts = facts, !.capturing = TRUE,
                             !.known = {r.text : r \in rows}]
<1>0. MemoryTypeOK
  BY DEF MemoryInv
<1>1. /\ job[t].pc = "idle" /\ job' = [job EXCEPT ![t] = m]
      /\ UNCHANGED <<rows, inserted, clock, captures, current, said, handled, crossed>>
  BY DEF Capture
<1>2. facts \in Seq(Texts) /\ {r.text : r \in rows} \subseteq Texts
  BY <1>0, MemoryAssumption, NewerFacts DEF MemoryTypeOK
<1>3. m \in Job /\ m.pc = "facts" /\ m.doomed = {}
  BY <1>2, RestIsJob DEF Job, Rest
<1> HIDE DEF m
<1>4. MirrorKept'
  BY <1>1, <1>3, MirrorUntouched
<1> QED
  BY <1>0, <1>1, <1>3, <1>4, JobMoves DEF MemoryTypeOK

LEMMA NextFactSafe ==
    ASSUME MemoryInv, NEW t \in Jobs, NextFact(t)
    PROVE  MemoryInv'
<1>0. /\ MemoryTypeOK /\ job[t] \in Job /\ job[t].pc = "facts" /\ job[t].facts # <<>>
      /\ UNCHANGED <<rows, inserted, captures, current, said, handled, crossed>>
  BY DEF MemoryInv, MemoryTypeOK, NextFact
<1>1. \A n \in job[t].doomed : /\ n \in Contents(said)
                              /\ \/ n \in handled
                                 \/ \A r \in said : r.n = n => Outdone(r)
  BY DEF MemoryInv, DoomedAreOutdone
<1>2. CASE job' = [job EXCEPT ![t].facts = Tail(@)] /\ UNCHANGED clock
  <2> DEFINE m == [job[t] EXCEPT !.facts = Tail(job[t].facts)]
  <2>1. job' = [job EXCEPT ![t] = m]
    BY <1>2
  <2>2. Tail(job[t].facts) \in Seq(Texts)
    BY <1>0 DEF Job
  <2>3. m \in Job
    BY <1>0, <2>2, JobFields
  <2>4. m.pc = "facts" /\ m.doomed = job[t].doomed
    BY <1>0 DEF Job
  <2> HIDE DEF m
  <2>5. MirrorKept'
    BY <1>0, <2>1, <2>3, <2>4, MirrorUntouched
  <2>6. /\ clock' \in 0..MaxClock /\ captures' \in Nat
        /\ current' \subseteq Jobs \cup {File} /\ crossed' \in BOOLEAN
    BY <1>0, <1>2 DEF MemoryTypeOK
  <2>7. \A n \in m.doomed : /\ n \in Contents(said)
                           /\ \/ n \in handled
                              \/ \A r \in said : r.n = n => Outdone(r)
    BY <1>1, <2>4
  <2> QED
    BY <1>0, <2>1, <2>3, <2>4, <2>5, <2>6, <2>7, JobMoves
<1>3. CASE Stamp(t, job[t])
  <2> DEFINE m == [job[t] EXCEPT !.pc = "insert", !.stamp = clock']
  <2>1. job' = [job EXCEPT ![t] = m] /\ clock' \in clock..MaxClock
    BY <1>3 DEF Stamp
  <2>2. clock' \in 0..MaxClock
    BY <1>0, <2>1, MemoryAssumption DEF MemoryTypeOK
  <2>3. m \in Job /\ m.pc = "insert" /\ m.facts = job[t].facts /\ m.doomed = job[t].doomed
    BY <1>0, <2>2 DEF Job
  <2> HIDE DEF m
  <2>5. MirrorKept'
    BY <1>0, <2>1, <2>3, MirrorUntouched
  <2> QED
    BY <1>0, <1>1, <2>1, <2>2, <2>3, <2>5, JobMoves DEF MemoryTypeOK
<1> QED
  BY <1>2, <1>3 DEF NextFact

LEMMA CountSafe ==
    ASSUME MemoryInv, NEW t \in Jobs, CountCaptures(t)
    PROVE  MemoryInv'
<1> DEFINE m == IF job[t].kept > 0 /\ captures + job[t].kept >= Every
                THEN [Rest EXCEPT !.pc = "auto"] ELSE Rest
<1>0. MemoryTypeOK /\ job[t] \in Job
  BY DEF MemoryInv, MemoryTypeOK
<1>1. /\ job[t].pc = "facts" /\ job' = [job EXCEPT ![t] = m]
      /\ captures' = captures + job[t].kept
      /\ UNCHANGED <<rows, inserted, clock, current, said, handled, crossed>>
  BY DEF CountCaptures
<1>2. captures' \in Nat
  <2>1. captures \in Nat /\ job[t].kept \in Nat
    BY <1>0, JobFields DEF MemoryTypeOK
  <2> QED
    BY <1>1, <2>1
<1>3. m \in Job /\ m.pc \in {"auto", "idle"} /\ m.doomed = {}
  BY RestIsJob DEF Job, Rest
<1> HIDE DEF m
<1>4. MirrorKept'
  BY <1>1, <1>3, MirrorUntouched
<1> QED
  BY <1>0, <1>1, <1>2, <1>3, <1>4, JobMoves DEF MemoryTypeOK

LEMMA ReadSafe ==
    ASSUME MemoryInv, NEW t \in Jobs, ReadForMirror(t)
    PROVE  MemoryInv'
<1> DEFINE m == [job[t] EXCEPT !.pc = "write"]
<1>0. MemoryTypeOK /\ job[t] \in Job
  BY DEF MemoryInv, MemoryTypeOK
<1>1. /\ job' = [job EXCEPT ![t] = m] /\ current' = current \cup {t}
      /\ UNCHANGED <<rows, inserted, clock, captures, said, handled, crossed>>
  BY DEF ReadForMirror
<1>2. m \in Job /\ m.pc = "write" /\ m.doomed = job[t].doomed
  BY <1>0 DEF Job
<1> HIDE DEF m
<1>3. job'[t] = m
  BY <1>0, <1>1 DEF MemoryTypeOK
<1>4. MirrorKept'
  BY <1>1, <1>2, <1>3 DEF MirrorKept, ToBeMirrored
<1>5. \A n \in m.doomed : /\ n \in Contents(said)
                         /\ \/ n \in handled
                            \/ \A r \in said : r.n = n => Outdone(r)
  BY <1>2 DEF MemoryInv, DoomedAreOutdone
<1> QED
  BY <1>0, <1>1, <1>2, <1>4, <1>5, JobMoves DEF MemoryTypeOK

(* An outdated view that is written leaves the newest one, if it is still  *)
(* to be written, where it was.                                            *)
LEMMA WriteSafe ==
    ASSUME MemoryInv, NEW t \in Jobs, WriteMirror(t)
    PROVE  MemoryInv'
<1> DEFINE m == IF job[t].capturing THEN [job[t] EXCEPT !.pc = "facts"] ELSE Rest
<1>0. MemoryTypeOK /\ job[t] \in Job
  BY DEF MemoryInv, MemoryTypeOK
<1>1. /\ job[t].pc = "write" /\ job' = [job EXCEPT ![t] = m]
      /\ \/ File \in current' /\ current' \subseteq current \cup {File} /\ crossed' = FALSE
         \/ /\ t \notin current /\ current' = current \ {File}
            /\ crossed' = (crossed \/ File \in current)
         \/ current' \subseteq current /\ crossed' = TRUE
      /\ UNCHANGED <<rows, inserted, clock, captures, said, handled>>
  BY DEF WriteMirror
<1>2. m \in Job /\ m.pc \in {"idle", "facts"} /\ m.doomed \subseteq job[t].doomed
  BY <1>0, RestIsJob DEF Job
<1> HIDE DEF m
<1>3. job'[t] = m /\ \A u \in Jobs \ {t} : job'[u] = job[u]
  BY <1>0, <1>1 DEF MemoryTypeOK
<1>4. MirrorKept'
  <2>1. CASE crossed' \/ File \in current'
    BY <2>1 DEF MirrorKept
  <2>2. CASE ~crossed' /\ File \notin current'
    <3>1. ~crossed /\ File \notin current /\ t \notin current /\ current' = current \ {File}
      BY <1>1, <2>2
    <3>2. PICK u \in Jobs : job[u].pc = "changed" \/ (job[u].pc = "write" /\ u \in current)
      BY <3>1 DEF MemoryInv, MirrorKept, ToBeMirrored
    <3>3. u # t /\ job'[u] = job[u] /\ (u \in current => u \in current')
      BY <1>1, <1>3, <3>1, <3>2
    <3> QED
      BY <3>2, <3>3 DEF MirrorKept, ToBeMirrored
  <2> QED
    BY <2>1, <2>2
<1>5. \A n \in m.doomed : /\ n \in Contents(said)
                         /\ \/ n \in handled
                            \/ \A r \in said : r.n = n => Outdone(r)
  BY <1>2 DEF MemoryInv, DoomedAreOutdone
<1>6. current' \subseteq Jobs \cup {File} /\ crossed' \in BOOLEAN
  BY <1>0, <1>1 DEF MemoryTypeOK
<1> QED
  BY <1>0, <1>1, <1>2, <1>4, <1>5, <1>6, JobMoves DEF MemoryTypeOK

-----------------------------------------------------------------------------
(* Steps that change the table.                                            *)

(* Who changes it has the mirror written, or passes it over.               *)
LEMMA MirrorOfChange ==
    ASSUME MemoryInv, NEW t \in Jobs, NEW s, Put(s),
           job[t].pc \notin {"changed", "write"},
           \A u \in Jobs \ {t} : job'[u] = job[u],
           crossed => crossed', crossed' \/ job'[t].pc = "changed"
    PROVE  MirrorKept'
  BY DEF MemoryInv, MirrorKept, ToBeMirrored

LEMMA DeleteSafe ==
    ASSUME MemoryInv, NEW t \in Jobs, DeleteDropped(t)
    PROVE  MemoryInv'
<1> DEFINE m == [job[t] EXCEPT !.pc = "changed", !.doomed = {}]
           s == Without(rows, job[t].doomed)
<1>0. MemoryTypeOK /\ job[t] \in Job /\ OneVersion /\ DoomedAreOutdone /\ NewestStays
  BY DEF MemoryInv, MemoryTypeOK
<1>1. /\ job[t].pc = "delete" /\ Put(s) /\ job' = [job EXCEPT ![t] = m]
      /\ UNCHANGED <<inserted, clock, captures, said, handled, crossed>>
  BY DEF DeleteDropped
<1>2. m \in Job /\ m.pc = "changed" /\ m.doomed = {}
  BY <1>0 DEF Job
<1> HIDE DEF m
<1>3. job'[t] = m /\ \A u \in Jobs \ {t} : job'[u] = job[u]
  BY <1>0, <1>1 DEF MemoryTypeOK
<1>4. rows' = s /\ s \subseteq rows
  BY <1>1 DEF Put, Without
<1>5. MemoryTypeOK'
  BY <1>0, <1>1, <1>2, <1>4 DEF MemoryTypeOK, Put
<1>6. \A u \in Jobs : job'[u].pc = "insert" => job'[u].facts # <<>>
  BY <1>2, <1>3 DEF MemoryInv
<1>7. OneVersion'
  BY <1>0, <1>1, <1>4 DEF OneVersion
<1>8. DoomedAreOutdone'
  BY <1>0, <1>1, <1>2, <1>3 DEF DoomedAreOutdone, Outdone
<1>9. NewestStays'
  <2> SUFFICES ASSUME NEW r \in said, ~Outdone(r), r.n \notin handled
               PROVE  r.n \in Contents(s)
    BY <1>1, <1>4 DEF NewestStays, Outdone
  <2>1. PICK a \in rows : a.n = r.n
    BY <1>0 DEF NewestStays, Contents
  <2>2. r.n \notin job[t].doomed
    BY <1>0 DEF DoomedAreOutdone
  <2> QED
    BY <2>1, <2>2 DEF Contents, Without
<1>10. MirrorKept'
  BY <1>1, <1>2, <1>3, MirrorOfChange
<1> QED
  BY <1>5, <1>6, <1>7, <1>8, <1>9, <1>10 DEF MemoryInv

LEMMA InsertSafe ==
    ASSUME MemoryInv, NEW t \in Jobs, Insert(t)
    PROVE  MemoryInv'
<1> DEFINE me == job[t]
           row == [n |-> inserted + 1, text |-> Head(me.facts), created |-> me.stamp]
           seen == IF me.capturing THEN me.known \cup {row.text} ELSE me.known
           kept == IF me.capturing THEN me.kept + 1 ELSE me.kept
           m == [me EXCEPT !.pc = "changed", !.facts = Tail(me.facts), !.stamp = 0,
                           !.known = seen, !.kept = kept]
<1>0. MemoryTypeOK /\ me \in Job /\ OneVersion /\ DoomedAreOutdone /\ NewestStays
  BY DEF MemoryInv, MemoryTypeOK
<1>1. /\ me.pc = "insert" /\ inserted < MaxRows /\ Put(rows \cup {row})
      /\ inserted' = inserted + 1 /\ said' = said \cup {row}
      /\ job' = [job EXCEPT ![t] = m]
      /\ UNCHANGED <<clock, captures, handled, crossed>>
  BY DEF Insert
<1>2. me.facts \in Seq(Texts) /\ me.facts # <<>>
  BY <1>0, <1>1 DEF MemoryInv, Job
<1>3. Head(me.facts) \in Texts /\ Tail(me.facts) \in Seq(Texts)
  BY <1>2
<1>4. inserted \in Nat /\ inserted + 1 \in 1..MaxRows /\ MaxRows \in Nat
  BY <1>0, <1>1, MemoryAssumption DEF MemoryTypeOK
<1>5. row \in Memo /\ row.n = inserted + 1
  BY <1>0, <1>3, <1>4 DEF Memo, Job
<1>a. seen \subseteq Texts /\ kept \in Nat /\ 0 \in 0..MaxClock
  <2>1. me.known \subseteq Texts /\ me.kept \in Nat
    BY <1>0, JobFields
  <2>2. row.text \in Texts
    BY <1>3
  <2> HIDE DEF row, me
  <2> QED
    BY <2>1, <2>2, MemoryAssumption
<1> HIDE DEF seen, kept
<1>6. m \in Job /\ m.pc = "changed" /\ m.doomed = me.doomed
  BY <1>0, <1>3, <1>a DEF Job
<1> HIDE DEF m, row
<1>7. job'[t] = m /\ \A u \in Jobs \ {t} : job'[u] = job[u]
  BY <1>0, <1>1 DEF MemoryTypeOK
<1>8. rows' = rows \cup {row}
  BY <1>1 DEF Put
<1>9. \A r \in said : r.n \in Nat /\ r.n <= inserted /\ r.n # row.n
  BY <1>0, <1>4, <1>5, NewerFacts DEF OneVersion, MemoryTypeOK
<1>10. rows \subseteq said /\ rows \subseteq Memo /\ said \subseteq Memo
  BY <1>0 DEF OneVersion, MemoryTypeOK
<1>11. MemoryTypeOK'
  <2>1. \A a, b \in rows' : a.n = b.n => a = b
    BY <1>0, <1>8, <1>9, <1>10 DEF MemoryTypeOK
  <2>2. rows' \subseteq Memo /\ said' \subseteq Memo /\ inserted' \in 0..MaxRows
    BY <1>1, <1>4, <1>5, <1>8, <1>10
  <2>3. current' \subseteq Jobs \cup {File} /\ job' \in [Jobs -> Job]
    BY <1>0, <1>1, <1>6 DEF MemoryTypeOK, Put
  <2> QED
    BY <1>0, <1>1, <2>1, <2>2, <2>3 DEF MemoryTypeOK
<1>12. \A u \in Jobs : job'[u].pc = "insert" => job'[u].facts # <<>>
  BY <1>6, <1>7 DEF MemoryInv
<1>13. OneVersion'
  <2>1. \A r \in said' : r.n <= inserted'
    BY <1>1, <1>4, <1>5, <1>9
  <2>2. \A a, b \in said' : a.n = b.n /\ a.n \notin handled => a = b
    BY <1>0, <1>1, <1>9 DEF OneVersion
  <2> QED
    BY <1>1, <1>8, <1>10, <2>1, <2>2 DEF OneVersion
<1>14. \A r \in said : Outdone(r) => Outdone(r)'
  BY <1>1 DEF Outdone
<1>15. DoomedAreOutdone'
  <2> SUFFICES ASSUME NEW u \in Jobs, NEW n \in job'[u].doomed
               PROVE  /\ n \in Contents(said')
                      /\ n \in handled \/ \A r \in said' : r.n = n => Outdone(r)'
    BY <1>1 DEF DoomedAreOutdone
  <2>1. /\ n \in Contents(said)
        /\ n \in handled \/ \A r \in said : r.n = n => Outdone(r)
    BY <1>0, <1>6, <1>7 DEF DoomedAreOutdone
  <2>2. n # row.n
    BY <1>9, <2>1 DEF Contents
  <2> QED
    BY <1>1, <1>14, <2>1, <2>2 DEF Contents
<1>16. NewestStays'
  BY <1>0, <1>1, <1>8, <1>14 DEF NewestStays, Contents
<1>17. MirrorKept'
  BY <1>1, <1>6, <1>7, MirrorOfChange
<1> QED
  BY <1>11, <1>12, <1>13, <1>15, <1>16, <1>17 DEF MemoryInv

(* An edit, a deletion and a purge: their rows are the users' from then on.*)
LEMMA UserChanges ==
    ASSUME MemoryInv, NEW t \in Jobs, NEW s, NEW more, NEW its,
           s \subseteq Memo, \A a, b \in s : a.n = b.n => a = b,
           more \subseteq Memo, its \subseteq Contents(rows), s \subseteq said \cup more,
           \A r \in more : r.n \in its,
           Contents(rows) \subseteq Contents(s) \cup its,
           Put(s), said' = said \cup more, handled' = handled \cup its,
           UNCHANGED <<inserted, clock, captures>>,
           Mirrored(t) \/ (crossed' = TRUE /\ UNCHANGED job),
           job[t].pc = "idle" \/ crossed'
    PROVE  MemoryInv'
<1>0. MemoryTypeOK /\ OneVersion /\ DoomedAreOutdone /\ NewestStays
  BY DEF MemoryInv
<1>1. rows' = s /\ its \subseteq 1..MaxRows
  BY <1>0, NewerFacts DEF Put, Contents, MemoryTypeOK
<1> DEFINE m == [Rest EXCEPT !.pc = "changed"]
<1>2. m \in Job /\ m.pc = "changed" /\ m.doomed = {}
  BY RestIsJob DEF Job, Rest
<1>3. crossed' \in BOOLEAN /\ (crossed => crossed')
      /\ \/ job' = job /\ crossed'
         \/ job' = [job EXCEPT ![t] = m]
  BY <1>0 DEF Mirrored, MemoryTypeOK
<1> HIDE DEF m
<1>4. /\ job' \in [Jobs -> Job]
      /\ \A u \in Jobs : job'[u] = job[u] \/ job'[u] = m
      /\ \/ crossed'
         \/ job'[t] = m /\ \A u \in Jobs \ {t} : job'[u] = job[u]
  BY <1>0, <1>2, <1>3 DEF MemoryTypeOK
<1>5. MemoryTypeOK'
  BY <1>0, <1>1, <1>3, <1>4 DEF MemoryTypeOK, Put
<1>6. \A u \in Jobs : job'[u].pc = "insert" => job'[u].facts # <<>>
  BY <1>2, <1>4 DEF MemoryInv
<1>7. \A r \in more : \E a \in said : a.n = r.n
  BY <1>0 DEF Contents, OneVersion
<1>8. OneVersion'
  <2>1. \A r \in said' : r.n <= inserted'
    BY <1>0, <1>7 DEF OneVersion
  <2>2. \A a, b \in said' : a.n = b.n /\ a.n \notin handled' => a = b
    BY <1>0 DEF OneVersion
  <2> QED
    BY <1>1, <2>1, <2>2 DEF OneVersion
<1>9. \A r \in said : Outdone(r) => Outdone(r)'
  BY DEF Outdone
<1>10. DoomedAreOutdone'
  <2> SUFFICES ASSUME NEW u \in Jobs, NEW n \in job'[u].doomed
               PROVE  /\ n \in Contents(said')
                      /\ n \in handled' \/ \A r \in said' : r.n = n => Outdone(r)'
    BY DEF DoomedAreOutdone
  <2>1. n \in job[u].doomed
    BY <1>2, <1>4
  <2>2. /\ n \in Contents(said)
        /\ n \in handled \/ \A r \in said : r.n = n => Outdone(r)
    BY <1>0, <2>1 DEF DoomedAreOutdone
  <2> QED
    BY <1>9, <2>2 DEF Contents
<1>11. NewestStays'
  BY <1>0, <1>1, <1>9 DEF NewestStays
<1>12. MirrorKept'
  <2>1. CASE crossed'
    BY <2>1 DEF MirrorKept
  <2>2. CASE ~crossed'
    BY <1>2, <1>3, <1>4, <2>2, MirrorOfChange
  <2> QED
    BY <2>1, <2>2
<1> QED
  BY <1>5, <1>6, <1>8, <1>10, <1>11, <1>12 DEF MemoryInv

LEMMA UpdateSafe ==
    ASSUME MemoryInv, NEW t \in Jobs, NEW r \in rows, NEW text \in Texts, Update(t, r, text)
    PROVE  MemoryInv'
<1> DEFINE edited == [r EXCEPT !.text = text]
           s == (rows \ {r}) \cup {edited}
<1>1. /\ job[t].pc = "idle" /\ Put(s) /\ said' = said \cup {edited}
      /\ handled' = handled \cup {r.n} /\ Mirrored(t)
      /\ UNCHANGED <<inserted, clock, captures>>
  BY DEF Update
<1>2. /\ rows \subseteq Memo /\ rows \subseteq said
      /\ \A a, b \in rows : a.n = b.n => a = b
  BY DEF MemoryInv, MemoryTypeOK, OneVersion
<1>3. edited \in Memo /\ edited.n = r.n
  BY <1>2 DEF Memo
<1> HIDE DEF edited
<1>4. /\ s \subseteq Memo /\ \A a, b \in s : a.n = b.n => a = b
      /\ s \subseteq said \cup {edited}
  BY <1>2, <1>3
<1>5. {r.n} \subseteq Contents(rows) /\ Contents(rows) \subseteq Contents(s) \cup {r.n}
  BY DEF Contents
<1>6. {edited} \subseteq Memo /\ \A q \in {edited} : q.n \in {r.n}
  BY <1>3
<1> HIDE DEF s
<1> QED
  BY <1>1, <1>4, <1>5, <1>6, UserChanges

LEMMA RemoveSafe ==
    ASSUME MemoryInv, NEW t \in Jobs, NEW r \in rows, Remove(t, r)
    PROVE  MemoryInv'
<1> DEFINE s == Without(rows, {r.n})
           its == {r.n}
           none == {}
<1>1. /\ job[t].pc = "idle" /\ Put(s) /\ said' = said \cup none
      /\ handled' = handled \cup its /\ Mirrored(t)
      /\ UNCHANGED <<inserted, clock, captures>>
  BY DEF Remove
<1>2. /\ rows \subseteq Memo /\ rows \subseteq said
      /\ \A a, b \in rows : a.n = b.n => a = b
  BY DEF MemoryInv, MemoryTypeOK, OneVersion
<1>3. /\ s \subseteq Memo /\ \A a, b \in s : a.n = b.n => a = b
      /\ s \subseteq said \cup none
  BY <1>2 DEF Without
<1>4. its \subseteq Contents(rows) /\ Contents(rows) \subseteq Contents(s) \cup its
  BY DEF Contents, Without
<1>5. none \subseteq Memo /\ \A q \in none : q.n \in its
  OBVIOUS
<1> HIDE DEF s, its, none
<1> QED
  BY <1>1, <1>3, <1>4, <1>5, UserChanges

LEMMA PurgeSafe ==
    ASSUME MemoryInv, PurgeProject
    PROVE  MemoryInv'
<1>1. /\ Put({}) /\ handled' = handled \cup Contents(rows) /\ crossed' = TRUE
      /\ UNCHANGED <<inserted, clock, captures, job, said>>
  BY DEF PurgeProject
<1>2. CASE Jobs = {}
  <2>1. rows' = {} /\ current' \subseteq current
    BY <1>1 DEF Put
  <2>2. Contents(rows) \subseteq 1..MaxRows
    BY NewerFacts DEF MemoryInv, MemoryTypeOK, Contents
  <2>3. MemoryTypeOK'
    BY <1>1, <2>1, <2>2 DEF MemoryInv, MemoryTypeOK
  <2>4. OneVersion' /\ DoomedAreOutdone' /\ NewestStays' /\ MirrorKept'
    BY <1>1, <1>2, <2>1
       DEF MemoryInv, OneVersion, DoomedAreOutdone, NewestStays, MirrorKept, Outdone
  <2> QED
    BY <1>2, <2>3, <2>4 DEF MemoryInv
<1>3. CASE Jobs # {}
  <2>1. PICK t \in Jobs : TRUE
    BY <1>3
  <2>2. {} \subseteq Memo /\ \A a, b \in {} : a.n = b.n => a = b
    OBVIOUS
  <2>3. said' = said \cup {} /\ {} \subseteq said \cup {}
        /\ \A r \in {} : r.n \in Contents(rows)
    BY <1>1
  <2>4. Contents(rows) \subseteq Contents({}) \cup Contents(rows)
    OBVIOUS
  <2> QED
    BY <1>1, <2>1, <2>2, <2>3, <2>4, UserChanges
<1> QED
  BY <1>2, <1>3

LEMMA MemoryStepSafe == MemoryInv /\ [MemoryNext]_memoryVars => MemoryInv'
<1> SUFFICES ASSUME MemoryInv, [MemoryNext]_memoryVars PROVE MemoryInv'
  OBVIOUS
<1>1. ASSUME NEW t \in Jobs,
             \/ DeleteDropped(t) \/ ReadForMirror(t) \/ WriteMirror(t)
             \/ Insert(t) \/ NextFact(t) \/ CountCaptures(t) \/ AutoConsolidate(t)
      PROVE  MemoryInv'
  BY <1>1, DeleteSafe, ReadSafe, WriteSafe, InsertSafe, NextFactSafe, CountSafe, ConsolidateSafe
<1>2. ASSUME NEW t \in Capturers, NEW facts \in Exchanges, Capture(t, facts) PROVE MemoryInv'
  BY <1>2, CaptureSafe DEF Jobs
<1>3. ASSUME NEW t \in Requests,
             \/ Consolidate(t)
             \/ \E text \in Texts : Add(t, text)
             \/ \E r \in rows : Remove(t, r) \/ \E text \in Texts : Update(t, r, text)
      PROVE  MemoryInv'
  BY <1>3, ConsolidateSafe, AddSafe, RemoveSafe, UpdateSafe DEF Jobs
<1>4. CASE UNCHANGED memoryVars
  BY <1>4 DEF memoryVars, MemoryInv, MemoryTypeOK, OneVersion, DoomedAreOutdone, NewestStays,
              Outdone, MirrorKept, ToBeMirrored
<1> QED
  BY <1>1, <1>2, <1>3, <1>4, PurgeSafe DEF MemoryNext

LEMMA MemoryInvariant == MemorySpec => []MemoryInv
  BY MemoryInitSafe, MemoryStepSafe, PTL DEF MemorySpec

(* For any table, texts, jobs and relation of closeness: passes on stale   *)
(* snapshots, edits, captures and deletions never lose both rows of a pair *)
(* (consolidate keeps the newest of each cluster).                         *)
THEOREM MemoryKeepsNewest == MemorySpec => []NewestKept
  BY MemoryInvariant, MemoryInvMeans, PTL

(* For any number of jobs: once every change has been mirrored MEMORY.md   *)
(* says what the table says, unless the mirror was passed over or written  *)
(* out of turn (write_mirror).                                             *)
THEOREM MemoryMirrorSettles == MemorySpec => []MirrorSettles
  BY MemoryInvariant, MemoryInvMeans, PTL

-----------------------------------------------------------------------------
(* ALL OF THEM TOGETHER: a step of one component disturbs no other         *)

ServicesInv ==
    /\ SessionInv /\ HealthInv /\ BrowserInv /\ McpInv /\ HistoryInv /\ CheckpointInv
    /\ MemoryInv /\ DispatchInv

LEMMA ServicesInitSafe == ServicesInit => ServicesInv
  BY SessionInvInit, HealthInitSafe, BrowserInitSafe, McpInitSafe, HistoryInitSafe,
     CheckpointInitSafe, MemoryInitSafe, DispatchInitSafe DEF ServicesInit, ServicesInv

(* A step of Services is a step or a stutter of every component.           *)
LEMMA StepOfEach ==
    [ServicesNext]_servicesVars =>
        /\ [SessionNext]_sessionVars /\ [HealthNext]_healthVars /\ [BrowserNext]_browserVars
        /\ [McpNext]_mcpVars /\ [HistoryNext]_historyVars /\ [CheckpointNext]_checkpointVars
        /\ [MemoryNext]_memoryVars /\ [DispatchNext]_dispatchVars
  BY DEF ServicesNext, servicesVars, parts, InSession, InHealth, InBrowser, InMcp, InHistory,
         InCheckpoint, InMemory, InDispatch

LEMMA ServicesStepSafe == ServicesInv /\ [ServicesNext]_servicesVars => ServicesInv'
  BY StepOfEach, SessionInvKept, HealthStepSafe, BrowserStepSafe, McpStepSafe, HistoryStepSafe,
     CheckpointStepSafe, MemoryStepSafe, DispatchStepSafe DEF ServicesInv

(* Side by side every component keeps its inductive invariant.             *)
THEOREM ServicesSafety == ServicesSpec => []ServicesInv
  BY ServicesInitSafe, ServicesStepSafe, PTL DEF ServicesSpec

(* Every component keeps to its types, whatever the others do.             *)
THEOREM ServicesTypes == ServicesSpec => []ServicesTypeOK
<1>1. ServicesInv => ServicesTypeOK
  BY DEF ServicesInv, ServicesTypeOK, SessionInv, HealthInv, BrowserInv, McpInv, HistoryInv,
         CheckpointInv, MemoryInv, DispatchInv
<1> QED
  BY <1>1, ServicesSafety, PTL
=============================================================================
