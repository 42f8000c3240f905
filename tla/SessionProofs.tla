---------------------------- MODULE SessionProofs ----------------------------
(***************************************************************************)
(* The safety of Session and of ProviderHealth, proved for any prompts,    *)
(* providers, callers and bounds.                                          *)
(***************************************************************************)
EXTENDS Session, ProviderHealth, FiniteSetTheorems, SequenceTheorems, TLAPS

-----------------------------------------------------------------------------
(* THE SESSION                                                             *)

(* prune_history.                                                          *)

LEMMA UpTo ==
    ASSUME NEW n \in Nat
    PROVE  IsFiniteSet(1..n) /\ Cardinality(1..n) = n
<1>1. 1 \in Int /\ n \in Int
  OBVIOUS
<1>2. IsFiniteSet(1..n) /\ Cardinality(1..n) = IF 1 > n THEN 0 ELSE n - 1 + 1
  BY <1>1, FS_Interval, Zenon
<1>3. n = IF 1 > n THEN 0 ELSE n - 1 + 1
  OBVIOUS
<1> QED
  BY <1>2, <1>3

(* It keeps a suffix; what it drops after the first message are tool       *)
(* messages, and what it then starts with is none.                         *)
LEMMA PruneSuffix ==
    ASSUME NEW h \in Seq(Message), Len(h) <= MaxHistory + 1
    PROVE  /\ Prune(h) \in Seq(Message) /\ Len(Prune(h)) <= MaxHistory
           /\ \E n \in 0..Len(h) :
                 /\ Len(Prune(h)) = Len(h) - n
                 /\ \A i \in 1..(Len(h) - n) : Prune(h)[i] = h[i + n]
                 /\ n > 0 => /\ Len(h) = MaxHistory + 1
                             /\ \A i \in 2..n : h[i].role = "tool"
                             /\ n < Len(h) => h[n + 1].role # "tool"
<1>0. MaxHistory \in Nat /\ Len(h) \in Nat
  BY SessionAssumption
<1>1. CASE Len(h) <= MaxHistory
  <2>1. Prune(h) = h
    BY <1>1 DEF Prune
  <2>2. 0 \in 0..Len(h) /\ Len(h) - 0 = Len(h) /\ \A i \in 1..Len(h) : h[i] = h[i + 0]
    BY <1>0
  <2> QED
    <3>1. Prune(h) \in Seq(Message) /\ Len(Prune(h)) <= MaxHistory
      BY <1>1, <2>1
    <3>2. /\ Len(Prune(h)) = Len(h) - 0
          /\ \A i \in 1..(Len(h) - 0) : Prune(h)[i] = h[i + 0]
      BY <1>0, <2>1, <2>2
    <3>3. ~(0 > 0)
      OBVIOUS
    <3> QED
      BY <2>2, <3>1, <3>2, <3>3
<1>2. CASE Len(h) = MaxHistory + 1
  <2>1. PICK newest \in Seq(Message) :
           /\ newest = SubSeq(h, Len(h) - MaxHistory + 1, Len(h))
           /\ Len(newest) = MaxHistory
           /\ \A i \in 1..MaxHistory : newest[i] = h[i + 1]
    <3> DEFINE new == SubSeq(h, 2, Len(h))
    <3>1. Len(h) - MaxHistory + 1 = 2
      BY <1>0, <1>2
    <3>2. \A i \in 2..Len(h) : h[i] \in Message
      BY <1>0, ElementOfSeq
    <3>3. /\ new \in Seq(Message)
          /\ Len(new) = (IF 2 <= Len(h) THEN Len(h) - 2 + 1 ELSE 0)
          /\ \A i \in 1..(Len(h) - 2 + 1) : new[i] = h[2 + i - 1]
      BY <1>0, <3>2, SubSeqProperties
    <3>4. new = SubSeq(h, Len(h) - MaxHistory + 1, Len(h))
      BY <3>1
    <3> HIDE DEF new
    <3>5. Len(new) = MaxHistory
      BY <1>0, <1>2, <3>3
    <3>6. \A i \in 1..MaxHistory : new[i] = h[i + 1]
      <4> TAKE i \in 1..MaxHistory
      <4>1. i \in 1..(Len(h) - 2 + 1) /\ 2 + i - 1 = i + 1
        BY <1>0, <1>2
      <4> QED
        BY <3>3, <4>1
    <3> QED
      BY <3>3, <3>4, <3>5, <3>6
  <2> DEFINE orphans == {i \in 1..MaxHistory : \A j \in 1..i : newest[j].role = "tool"}
             c == Cardinality(orphans)
  <2>2. orphans \subseteq 1..MaxHistory
    OBVIOUS
  <2>3. \A x \in orphans : \A y \in 1..x : y \in orphans
    <3> TAKE x \in orphans
    <3> TAKE y \in 1..x
    <3>1. x \in 1..MaxHistory /\ \A j \in 1..x : newest[j].role = "tool"
      OBVIOUS
    <3>2. y \in 1..MaxHistory /\ \A j \in 1..y : j \in 1..x
      BY <1>0, <3>1
    <3> QED
      BY <3>1, <3>2
  <2>4. Prune(h) = SubSeq(newest, c + 1, MaxHistory)
    <3>1. ~(Len(h) <= MaxHistory)
      BY <1>0, <1>2
    <3> QED
      BY <2>1, <3>1 DEF Prune
  <2>a. \A x \in 1..MaxHistory : x \in orphans <=> \A j \in 1..x : newest[j].role = "tool"
    OBVIOUS
  <2> HIDE DEF orphans
  <2>b. IsFiniteSet(orphans) /\ c \in 0..MaxHistory
    <3>1. IsFiniteSet(1..MaxHistory) /\ Cardinality(1..MaxHistory) = MaxHistory
      BY <1>0, UpTo
    <3>2. IsFiniteSet(orphans) /\ c <= MaxHistory
      BY <2>2, <3>1, FS_Subset
    <3>3. c \in Nat
      BY <3>2, FS_CardinalityType
    <3> HIDE DEF c
    <3> QED
      BY <1>0, <3>2, <3>3
  <2>5. orphans = 1..c
    <3>1. ASSUME NEW x \in orphans PROVE x <= c
      <4>1. 1..x \in SUBSET orphans /\ x \in Nat
        BY <1>0, <2>2, <2>3
      <4>2. Cardinality(1..x) = x
        BY <4>1, UpTo
      <4>3. Cardinality(1..x) <= c
        BY <2>b, <4>1, FS_Subset
      <4> QED
        BY <4>2, <4>3
    <3>2. IsFiniteSet(1..c) /\ Cardinality(1..c) = c
      BY <2>b, UpTo
    <3>3. orphans \in SUBSET (1..c)
      <4> HIDE DEF c
      <4> QED
        BY <1>0, <2>2, <2>b, <3>1
    <3> QED
      BY <3>2, <3>3, FS_Subset
  <2> HIDE DEF c
  <2>6. /\ \A i \in 1..c : newest[i].role = "tool"
        /\ c < MaxHistory => newest[c + 1].role # "tool"
    <3>1. \A i \in 1..c : newest[i].role = "tool"
      <4> TAKE i \in 1..c
      <4>1. i \in orphans /\ i \in 1..i /\ i \in 1..MaxHistory
        BY <1>0, <2>5, <2>b
      <4> QED
        BY <2>a, <4>1
    <3>2. ASSUME c < MaxHistory PROVE newest[c + 1].role # "tool"
      <4>1. c + 1 \notin orphans /\ c + 1 \in 1..MaxHistory
        BY <1>0, <2>5, <2>b, <3>2
      <4>2. PICK j \in 1..(c + 1) : newest[j].role # "tool"
        BY <2>a, <4>1
      <4>3. j \notin 1..c
        BY <3>1, <4>2
      <4>4. j = c + 1
        BY <2>b, <4>3
      <4> QED
        BY <4>2, <4>4
    <3> QED
      BY <3>1, <3>2
  <2>7. /\ Prune(h) \in Seq(Message) /\ Len(Prune(h)) = MaxHistory - c
        /\ \A i \in 1..(MaxHistory - c) : Prune(h)[i] = newest[i + c]
    <3>a. \A i \in 1..MaxHistory : newest[i] \in Message
      BY <2>1, ElementOfSeq
    <3>b. \A i \in (c + 1)..MaxHistory : i \in 1..MaxHistory
      BY <1>0, <2>b
    <3>1. \A i \in (c + 1)..MaxHistory : newest[i] \in Message
      BY <3>a, <3>b
    <3>2. /\ Prune(h) \in Seq(Message)
          /\ Len(Prune(h)) = (IF c + 1 <= MaxHistory THEN MaxHistory - (c + 1) + 1 ELSE 0)
          /\ \A i \in 1..(MaxHistory - (c + 1) + 1) : Prune(h)[i] = newest[c + 1 + i - 1]
      BY <1>0, <2>b, <2>4, <3>1, SubSeqProperties
    <3> QED
      BY <1>0, <2>b, <3>2
  <2>8. /\ c + 1 \in 0..Len(h) /\ Len(h) - (c + 1) = MaxHistory - c
        /\ \A i \in 1..(MaxHistory - c) : Prune(h)[i] = h[i + (c + 1)]
    <3>1. c + 1 \in 0..Len(h) /\ Len(h) - (c + 1) = MaxHistory - c
      BY <1>0, <1>2, <2>b
    <3>2. ASSUME NEW i \in 1..(MaxHistory - c) PROVE Prune(h)[i] = h[i + (c + 1)]
      <4>1. i + c \in 1..MaxHistory /\ (i + c) + 1 = i + (c + 1)
        BY <1>0, <2>b
      <4> QED
        BY <2>1, <2>7, <4>1
    <3> QED
      BY <3>1, <3>2
  <2>9. \A i \in 2..(c + 1) : h[i].role = "tool"
    <3> TAKE i \in 2..(c + 1)
    <3>1. i - 1 \in 1..c /\ i - 1 \in 1..MaxHistory /\ (i - 1) + 1 = i
      BY <1>0, <2>b
    <3> QED
      BY <2>1, <2>6, <3>1
  <2>10. c + 1 < Len(h) => h[c + 2].role # "tool"
    <3> HAVE c + 1 < Len(h)
    <3>1. c + 1 \in 1..MaxHistory /\ c < MaxHistory /\ (c + 1) + 1 = c + 2
      BY <1>0, <1>2, <2>b
    <3> QED
      BY <2>1, <2>6, <3>1
  <2>11. c + 1 + 1 = c + 2 /\ MaxHistory - c <= MaxHistory
    BY <1>0, <2>b
  <2> QED
    BY <1>2, <2>7, <2>8, <2>9, <2>10, <2>11
<1> QED
  BY <1>0, <1>1, <1>2

-----------------------------------------------------------------------------
(* Histories a provider accepts.                                           *)

(* Every tool message answers a call of the message before its block, and  *)
(* all calls have their answer but the last "open" ones.                   *)
Shape(h, open) ==
    /\ Len(h) > 0 => h[1].role # "tool"
    /\ \A i \in 1..Len(h) : h[i].role = "tool" => h[i].calls = 0
    /\ \A i \in 1..Len(h) : h[i].role # "tool" =>
          /\ \A j \in 1..Len(h) : i < j /\ j <= i + h[i].calls => h[j].role = "tool"
          /\ \A j \in 1..Len(h) : j = i + h[i].calls + 1 => h[j].role # "tool"
          /\ i + h[i].calls <= Len(h) \/ i + h[i].calls = Len(h) + open
    /\ open > 0 => \E i \in 1..Len(h) :
                      h[i].role # "tool" /\ i + h[i].calls = Len(h) + open

LEMMA CallsOf ==
    ASSUME NEW m \in Message
    PROVE  m.calls \in 0..MaxToolCalls /\ m.calls \in Nat
<1>1. m.calls \in 0..MaxToolCalls
  BY DEF Message
<1>2. MaxToolCalls \in Nat
  BY SessionAssumption
<1> QED
  BY <1>1, <1>2

LEMMA CallsIn ==
    ASSUME NEW h \in Seq(Message)
    PROVE  \A i \in 1..Len(h) : h[i].calls \in 0..MaxToolCalls /\ h[i].calls \in Nat
<1> TAKE i \in 1..Len(h)
<1>1. h[i] \in Message
  BY ElementOfSeq
<1> QED
  BY <1>1, CallsOf

(* A message that is no answer may follow when no call is open.            *)
LEMMA ShapeOfMessage ==
    ASSUME NEW h \in Seq(Message), NEW m \in Message, m.role # "tool", Shape(h, 0)
    PROVE  Shape(Append(h, m), m.calls)
<1> DEFINE g == Append(h, m)
           n == Len(h)
<1>1. /\ n \in Nat /\ Len(g) = n + 1 /\ g[n + 1] = m
      /\ \A i \in 1..n : g[i] = h[i]
  BY AppendProperties, LenProperties
<1>2. m.calls \in Nat /\ \A i \in 1..n : h[i].calls \in Nat
  BY CallsOf, CallsIn
<1> HIDE DEF g, n
<1>3. Shape(h, 0)!1 /\ Shape(h, 0)!2 /\ Shape(h, 0)!3 /\ Shape(h, 0)!4
  BY DEF Shape
<1>4. /\ n > 0 => h[1].role # "tool"
      /\ \A i \in 1..n : h[i].role = "tool" => h[i].calls = 0
      /\ \A i \in 1..n : h[i].role # "tool" =>
          /\ \A j \in 1..n : i < j /\ j <= i + h[i].calls => h[j].role = "tool"
          /\ \A j \in 1..n : j = i + h[i].calls + 1 => h[j].role # "tool"
          /\ i + h[i].calls <= n
  BY <1>1, <1>2 DEF Shape, n
<1>5. g[1].role # "tool"
  BY <1>1, <1>4
<1>6. \A i \in 1..(n + 1) : g[i].role = "tool" => g[i].calls = 0
  BY <1>1, <1>4
<1>7. ASSUME NEW i \in 1..(n + 1), g[i].role # "tool"
      PROVE  /\ \A j \in 1..(n + 1) : i < j /\ j <= i + g[i].calls => g[j].role = "tool"
             /\ \A j \in 1..(n + 1) : j = i + g[i].calls + 1 => g[j].role # "tool"
             /\ i + g[i].calls <= n + 1 \/ i + g[i].calls = n + 1 + m.calls
  <2>1. CASE i = n + 1
    <3>1. g[i] = m /\ m.calls \in Nat
      BY <1>1, <1>2, <2>1
    <3>2. PICK k \in Nat : g[i].calls = k /\ m.calls = k
      BY <3>1
    <3> QED
      BY <1>1, <2>1, <3>2
  <2>2. CASE i \in 1..n
    <3>1. g[i] = h[i]
      BY <1>1, <2>2
    <3>2. PICK k \in Nat : g[i].calls = k /\ h[i].calls = k
      BY <1>2, <2>2, <3>1
    <3>3. /\ \A j \in 1..n : i < j /\ j <= i + k => h[j].role = "tool"
          /\ \A j \in 1..n : j = i + k + 1 => h[j].role # "tool"
          /\ i + k <= n
      BY <1>4, <1>7, <2>2, <3>1, <3>2
    <3>4. \A j \in 1..(n + 1) : i < j /\ j <= i + k => g[j].role = "tool"
      <4> TAKE j \in 1..(n + 1)
      <4> HAVE i < j /\ j <= i + k
      <4>1. j \in 1..n
        BY <1>1, <2>2, <3>3
      <4> QED
        BY <1>1, <3>3, <4>1
    <3>5. \A j \in 1..(n + 1) : j = i + k + 1 => g[j].role # "tool"
      <4> TAKE j \in 1..(n + 1)
      <4> HAVE j = i + k + 1
      <4>1. j \in 1..n \/ j = n + 1
        BY <1>1
      <4> QED
        BY <1>1, <3>3, <4>1
    <3>6. i + k <= n + 1
      BY <1>1, <2>2, <3>3
    <3> QED
      BY <3>2, <3>4, <3>5, <3>6
  <2> QED
    BY <1>1, <2>1, <2>2
<1>8. g[n + 1].role # "tool" /\ n + 1 + g[n + 1].calls = n + 1 + m.calls /\ n + 1 \in 1..(n + 1)
  BY <1>1
<1> QED
  BY <1>1, <1>5, <1>6, <1>7, <1>8 DEF Shape, g

(* An answer closes the first of the open calls.                           *)
LEMMA ShapeOfAnswer ==
    ASSUME NEW h \in Seq(Message), NEW m \in Message, m.role = "tool", m.calls = 0,
           NEW open \in Nat, open > 0, Shape(h, open)
    PROVE  Shape(Append(h, m), open - 1)
<1> DEFINE g == Append(h, m)
           n == Len(h)
<1>1. /\ n \in Nat /\ Len(g) = n + 1 /\ g[n + 1] = m
      /\ \A i \in 1..n : g[i] = h[i]
  BY AppendProperties, LenProperties
<1>2. \A i \in 1..n : h[i].calls \in Nat
  BY CallsIn
<1> HIDE DEF g, n
<1>3. /\ n > 0 => h[1].role # "tool"
      /\ \A i \in 1..n : h[i].role = "tool" => h[i].calls = 0
      /\ \A i \in 1..n : h[i].role # "tool" =>
          /\ \A j \in 1..n : i < j /\ j <= i + h[i].calls => h[j].role = "tool"
          /\ \A j \in 1..n : j = i + h[i].calls + 1 => h[j].role # "tool"
          /\ i + h[i].calls <= n \/ i + h[i].calls = n + open
  BY DEF Shape, n
<1>4. PICK last \in 1..n : h[last].role # "tool" /\ last + h[last].calls = n + open
  BY DEF Shape, n
<1>5. \A i \in 1..n : h[i].role # "tool" => i <= last /\ (i < last => i + h[i].calls < last)
  <2> SUFFICES ASSUME NEW i \in 1..n, h[i].role # "tool"
               PROVE  i <= last /\ (i < last => i + h[i].calls < last)
    OBVIOUS
  <2>1. i <= last
    BY <1>1, <1>2, <1>3, <1>4
  <2>2. i < last => i + h[i].calls < last
    BY <1>1, <1>2, <1>3, <1>4
  <2> QED
    BY <2>1, <2>2
<1>6. \A i \in 1..(n + 1) : g[i].role = "tool" => g[i].calls = 0
  BY <1>1, <1>3
<1>7. ASSUME NEW i \in 1..(n + 1), g[i].role # "tool"
      PROVE  /\ \A j \in 1..(n + 1) : i < j /\ j <= i + g[i].calls => g[j].role = "tool"
             /\ \A j \in 1..(n + 1) : j = i + g[i].calls + 1 => g[j].role # "tool"
             /\ i + g[i].calls <= n + 1 \/ i + g[i].calls = n + 1 + (open - 1)
  <2>1. i \in 1..n /\ g[i] = h[i] /\ h[i].role # "tool" /\ h[i].calls \in Nat
    BY <1>1, <1>2, <1>7
  <2>2. PICK k \in Nat : g[i].calls = k /\ h[i].calls = k
    BY <2>1
  <2>3. /\ \A j \in 1..n : i < j /\ j <= i + k => h[j].role = "tool"
        /\ \A j \in 1..n : j = i + k + 1 => h[j].role # "tool"
        /\ i + k <= n \/ i + k = n + open
        /\ i <= last /\ (i < last => i + k < last)
    BY <1>3, <1>5, <2>1, <2>2
  <2>4. PICK kk \in Nat : h[last].calls = kk
    BY <1>2
  <2>5. last + kk = n + open /\ (i = last => k = kk)
    BY <1>4, <2>2, <2>4
  <2>6. \A j \in 1..(n + 1) : i < j /\ j <= i + k => g[j].role = "tool"
    <3> TAKE j \in 1..(n + 1)
    <3> HAVE i < j /\ j <= i + k
    <3>1. j \in 1..n \/ j = n + 1
      BY <1>1
    <3> QED
      BY <1>1, <2>3, <3>1
  <2>7. \A j \in 1..(n + 1) : j = i + k + 1 => g[j].role # "tool"
    <3> TAKE j \in 1..(n + 1)
    <3> HAVE j = i + k + 1
    <3>1. j # n + 1
      BY <1>1, <2>1, <2>3, <2>5
    <3>2. j \in 1..n
      BY <1>1, <3>1
    <3> QED
      BY <1>1, <2>3, <3>2
  <2>8. i + k <= n + 1 \/ i + k = n + 1 + (open - 1)
    BY <1>1, <2>1, <2>3
  <2> QED
    BY <2>2, <2>6, <2>7, <2>8
<1>8. last \in 1..(n + 1) /\ g[last].role # "tool" /\ last + g[last].calls = n + 1 + (open - 1)
  BY <1>1, <1>4
<1>9. g[1].role # "tool"
  BY <1>1, <1>3, <1>4
<1>10. \A i \in 1..(n + 1) : g[i].role # "tool" =>
          /\ \A j \in 1..(n + 1) : i < j /\ j <= i + g[i].calls => g[j].role = "tool"
          /\ \A j \in 1..(n + 1) : j = i + g[i].calls + 1 => g[j].role # "tool"
          /\ i + g[i].calls <= n + 1 \/ i + g[i].calls = n + 1 + (open - 1)
  BY <1>7
<1>11. Len(g) = n + 1
  BY <1>1
<1>12. Shape(g, open - 1)
  BY <1>6, <1>8, <1>9, <1>10, <1>11 DEF Shape
<1> QED
  BY <1>12 DEF g

(* Pruning keeps the shape: the message with the open calls is never       *)
(* among the oldest.                                                       *)
LEMMA ShapeOfPruned ==
    ASSUME NEW h \in Seq(Message), Len(h) <= MaxHistory + 1,
           NEW open \in Nat, Shape(h, open)
    PROVE  Shape(Prune(h), open)
<1> DEFINE g == Prune(h)
           m == Len(h)
<1>1. MaxHistory \in Nat /\ m \in Nat /\ MaxToolCalls \in Nat /\ MaxHistory > MaxToolCalls + 1
  BY SessionAssumption
<1>2. PICK n \in 0..m :
         /\ Len(g) = m - n
         /\ \A i \in 1..(m - n) : g[i] = h[i + n]
         /\ n > 0 => /\ m = MaxHistory + 1
                     /\ \A i \in 2..n : h[i].role = "tool"
                     /\ n < m => h[n + 1].role # "tool"
  BY PruneSuffix
<1>3. \A i \in 1..m : h[i].calls \in 0..MaxToolCalls
  BY CallsIn
<1> HIDE DEF g, m
<1>4. /\ m > 0 => h[1].role # "tool"
      /\ \A i \in 1..m : h[i].role = "tool" => h[i].calls = 0
      /\ \A i \in 1..m : h[i].role # "tool" =>
          /\ \A j \in 1..m : i < j /\ j <= i + h[i].calls => h[j].role = "tool"
          /\ \A j \in 1..m : j = i + h[i].calls + 1 => h[j].role # "tool"
          /\ i + h[i].calls <= m \/ i + h[i].calls = m + open
      /\ open > 0 => \E i \in 1..m : h[i].role # "tool" /\ i + h[i].calls = m + open
  BY DEF Shape, m
<1>5. m - n > 0 => g[1].role # "tool"
  <2> HAVE m - n > 0
  <2>1. g[1] = h[1 + n] /\ m > 0 /\ n < m
    BY <1>1, <1>2
  <2>2. CASE n = 0
    BY <1>4, <2>1, <2>2
  <2>3. CASE n > 0
    <3>1. n + 1 = 1 + n
      BY <1>2
    <3> QED
      BY <1>2, <2>1, <2>3, <3>1
  <2> QED
    BY <1>2, <2>2, <2>3
<1>6. \A i \in 1..(m - n) : g[i].role = "tool" => g[i].calls = 0
  <2> TAKE i \in 1..(m - n)
  <2>1. i + n \in 1..m
    BY <1>1
  <2>2. g[i] = h[i + n]
    BY <1>2
  <2> QED
    BY <1>4, <2>1, <2>2
<1>7. ASSUME NEW i \in 1..(m - n), g[i].role # "tool"
      PROVE  /\ \A j \in 1..(m - n) : i < j /\ j <= i + g[i].calls => g[j].role = "tool"
             /\ \A j \in 1..(m - n) : j = i + g[i].calls + 1 => g[j].role # "tool"
             /\ i + g[i].calls <= m - n \/ i + g[i].calls = m - n + open
  <2>1. i + n \in 1..m /\ g[i] = h[i + n] /\ h[i + n].calls \in Nat
    BY <1>1, <1>2, <1>3
  <2>2. \A j \in 1..(m - n) : j + n \in 1..m /\ g[j] = h[j + n]
    <3> TAKE j \in 1..(m - n)
    <3>1. j + n \in 1..m
      BY <1>1
    <3> QED
      BY <1>2, <3>1
  <2>3. PICK k \in Nat : g[i].calls = k /\ h[i + n].calls = k
    BY <2>1
  <2>4. /\ \A j \in 1..m : i + n < j /\ j <= i + n + k => h[j].role = "tool"
        /\ \A j \in 1..m : j = i + n + k + 1 => h[j].role # "tool"
        /\ i + n + k <= m \/ i + n + k = m + open
    BY <1>4, <1>7, <2>1, <2>3
  <2>5. \A j \in 1..(m - n) : i < j /\ j <= i + k => g[j].role = "tool"
    <3> TAKE j \in 1..(m - n)
    <3> HAVE i < j /\ j <= i + k
    <3>1. n \in Nat /\ i + n < j + n /\ j + n <= i + n + k
      OBVIOUS
    <3> QED
      BY <2>2, <2>4, <3>1
  <2>6. \A j \in 1..(m - n) : j = i + k + 1 => g[j].role # "tool"
    <3> TAKE j \in 1..(m - n)
    <3> HAVE j = i + k + 1
    <3>1. j + n = i + n + k + 1
      OBVIOUS
    <3> QED
      BY <2>2, <2>4, <3>1
  <2>7. i + k <= m - n \/ i + k = m - n + open
    <3>1. m \in Nat /\ n \in Nat /\ k \in Nat /\ i \in Nat /\ open \in Nat
      BY <1>1
    <3> QED
      BY <2>4, <3>1
  <2> QED
    BY <2>3, <2>5, <2>6, <2>7
<1>8. ASSUME open > 0
      PROVE  \E i \in 1..(m - n) : g[i].role # "tool" /\ i + g[i].calls = m - n + open
  <2>1. PICK i \in 1..m : h[i].role # "tool" /\ i + h[i].calls = m + open
    BY <1>4, <1>8
  <2>2. n < i
    <3>1. CASE n = 0
      BY <3>1
    <3>2. CASE n > 0
      <4>1. m = MaxHistory + 1 /\ i > 2
        BY <1>1, <1>2, <1>3, <1>8, <2>1, <3>2
      <4>2. i \notin 2..n
        BY <1>2, <2>1, <3>2
      <4> QED
        BY <1>1, <1>2, <4>1, <4>2
    <3> QED
      BY <1>2, <3>1, <3>2
  <2>3. i - n \in 1..(m - n) /\ (i - n) + n = i
    BY <1>1, <1>2, <2>2
  <2>4. g[i - n] = h[i]
    BY <1>2, <2>3
  <2>5. (i - n) + g[i - n].calls = m - n + open
    <3>1. PICK k \in Nat : h[i].calls = k /\ g[i - n].calls = k
      BY <1>3, <2>4
    <3>2. i + k = m + open
      BY <2>1, <3>1
    <3>3. (i - n) + k = m - n + open
      BY <1>1, <3>2
    <3> QED
      BY <3>1, <3>3
  <2> QED
    BY <2>1, <2>3, <2>4, <2>5
<1>9. Len(g) = m - n
  BY <1>2
<1> QED
  BY <1>5, <1>6, <1>7, <1>8, <1>9 DEF Shape, g

-----------------------------------------------------------------------------
(* The inductive invariant.                                                *)

Starting == {"admitted", "recalling"}
Asking   == {"resolving", "streaming"}
Serving  == {"tools", "gated", "ungated"}

(* A turn t at work watches the token c of the session and has no outcome  *)
(* until its answer is judged; one judged aborted has no calls left.       *)
Watches(t, c) ==
    /\ t.pc \in Asking \cup Serving \cup {"judged"} => t.token = c
    /\ t.pc \in {"none", "sent"} \cup Starting \cup Asking \cup Serving => t.outcome = "none"
    /\ t.pc = "judged" => t.outcome = "none" \/ (t.outcome = "aborted" /\ t.left = 0)
    /\ t.pc # "ended" => t.outcome # "panicked"

(* A turn t that an abort has hit is on its way to a stop: its token is    *)
(* cancelled, and it has yet to look at it before it could end otherwise.  *)
Stops(t, c, cs) ==
    /\ t.pc \notin {"none", "sent"}
    /\ t.pc \in Starting => c \in cs
    /\ t.pc \in Asking \cup Serving => t.token \in cs
    /\ t.pc \in Serving => t.round < MaxRounds
    /\ t.pc = "judged" =>
          \/ t.outcome = "aborted"
          \/ t.left > 0 /\ t.round < MaxRounds /\ t.token \in cs
    /\ t.pc \in {"finishing", "leaving", "ended"} =>
          t.outcome \in {"aborted", "error", "panicked"}

NoPanic == \A p \in Prompts : turn[p].outcome # "panicked"

(* The open calls of the history are those of the turn at its tools.       *)
Paired ==
    NoPanic =>
        /\ \A p \in Prompts : turn[p].pc \in Serving =>
              turn[p].left > 0 /\ Shape(history, turn[p].left)
        /\ (\A p \in Prompts : turn[p].pc \notin Serving) => Shape(history, 0)

SessionInv ==
    /\ SessionTypeOK /\ Len(history) <= MaxHistory
    /\ OneTurnAtATime /\ NoStrayGate
    /\ \A p \in Prompts : Watches(turn[p], cancel)
    /\ \A p \in hit : Stops(turn[p], cancel, cancelled)
    /\ Paired

LEMMA SessionInvInit == SessionInit => SessionInv
<1> SUFFICES ASSUME SessionInit PROVE SessionInv
  OBVIOUS
<1> DEFINE idle == [pc |-> "none", round |-> 0, left |-> 0, token |-> 0, outcome |-> "none"]
<1>1. idle \in Turn
  BY SessionAssumption DEF Turn
<1>2. turn \in [Prompts -> Turn] /\ \A p \in Prompts : turn[p] = idle
  BY <1>1 DEF SessionInit
<1>3. history \in Seq(Message) /\ Len(history) = 0
  BY DEF SessionInit
<1>4. SessionTypeOK
  <2>1. live = TRUE /\ disposed = FALSE /\ turnActive = FALSE /\ abortPending = FALSE
    BY DEF SessionInit
  <2>2. cancel = 0 /\ cancelled = {} /\ gates = {} /\ reloads = 0 /\ hit = {}
    BY DEF SessionInit
  <2>3. 0 \in 0..MaxReloads
    BY SessionAssumption
  <2> QED
    BY <1>2, <1>3, <2>1, <2>2, <2>3 DEF SessionTypeOK
<1>5. \A p \in Prompts : turn[p].pc = "none" /\ turn[p].outcome = "none"
  BY <1>2
<1>6. OneTurnAtATime /\ NoStrayGate
  BY <1>5 DEF SessionInit, OneTurnAtATime, NoStrayGate, Running
<1>7. \A p \in Prompts : Watches(turn[p], cancel)
  BY <1>5 DEF Watches, Starting, Asking, Serving
<1>8. \A p \in hit : Stops(turn[p], cancel, cancelled)
  BY DEF SessionInit
<1>9. Shape(history, 0)
  BY <1>3 DEF Shape
<1>10. Paired
  BY <1>5, <1>9 DEF Paired, Serving
<1>11. Len(history) <= MaxHistory
  BY <1>3, SessionAssumption
<1> QED
  BY <1>4, <1>6, <1>7, <1>8, <1>10, <1>11 DEF SessionInv

-----------------------------------------------------------------------------
(* The steps of the one turn that runs.                                    *)

LEMMA Pushed ==
    ASSUME history \in Seq(Message), Len(history) <= MaxHistory,
           NEW role \in {"user", "assistant", "tool"}, NEW calls \in 0..MaxToolCalls,
           Push(role, calls)
    PROVE  /\ history' \in Seq(Message) /\ Len(history') <= MaxHistory
           /\ role # "tool" /\ Shape(history, 0) => Shape(history', calls)
           /\ \A open \in Nat : role = "tool" /\ calls = 0 /\ open > 0 /\ Shape(history, open)
                 => Shape(history', open - 1)
<1> DEFINE m == [role |-> role, calls |-> calls]
           h == Append(history, m)
<1>1. m \in Message /\ m.role = role /\ m.calls = calls
  BY DEF Message
<1>2. history' = Prune(h)
  BY DEF Push
<1> HIDE DEF m
<1>3. h \in Seq(Message) /\ Len(h) <= MaxHistory + 1
  BY <1>1, AppendProperties, LenProperties, SessionAssumption
<1>4. history' \in Seq(Message) /\ Len(history') <= MaxHistory
  BY <1>2, <1>3, PruneSuffix
<1>5. ASSUME role # "tool", Shape(history, 0) PROVE Shape(history', calls)
  <2>1. Shape(h, m.calls) /\ calls \in Nat
    BY <1>1, <1>5, ShapeOfMessage, SessionAssumption
  <2> HIDE DEF h
  <2> QED
    BY <1>1, <1>2, <1>3, <2>1, ShapeOfPruned
<1>6. ASSUME NEW open \in Nat, role = "tool", calls = 0, open > 0, Shape(history, open)
      PROVE  Shape(history', open - 1)
  <2>1. Shape(h, open - 1) /\ open - 1 \in Nat
    BY <1>1, <1>6, ShapeOfAnswer
  <2> HIDE DEF h
  <2> QED
    BY <1>2, <1>3, <2>1, ShapeOfPruned
<1> QED
  BY <1>4, <1>5, <1>6

(* What the invariant says of the turn that runs.                          *)
LEMMA TheTurn ==
    ASSUME SessionInv, NEW p \in Prompts, Running(p)
    PROVE  /\ turn[p] \in Turn /\ turn[p].pc \notin {"none", "sent", "ended"}
           /\ history \in Seq(Message) /\ Len(history) <= MaxHistory
           /\ Watches(turn[p], cancel)
           /\ p \in hit => Stops(turn[p], cancel, cancelled)
           /\ p \in gates => turn[p].pc \in {"gated", "ungated"}
           /\ NoPanic /\ turn[p].pc \notin Serving => Shape(history, 0)
           /\ NoPanic /\ turn[p].pc \in Serving =>
                 turn[p].left > 0 /\ Shape(history, turn[p].left)
<1>1. turn[p] \in Turn /\ history \in Seq(Message)
  BY DEF SessionInv, SessionTypeOK
<1>2. turn[p].pc \notin {"none", "sent", "ended"} /\ Len(history) <= MaxHistory
  BY DEF SessionInv, Running
<1>3. Watches(turn[p], cancel) /\ (p \in hit => Stops(turn[p], cancel, cancelled))
  BY DEF SessionInv
<1>4. p \in gates => turn[p].pc \in {"gated", "ungated"}
  BY DEF SessionInv, NoStrayGate
<1>5. \A q \in Prompts : q # p => turn[q].pc \notin Serving
  BY DEF SessionInv, OneTurnAtATime, Running, Serving
<1>6. NoPanic /\ turn[p].pc \notin Serving => Shape(history, 0)
  BY <1>5 DEF SessionInv, Paired
<1>7. NoPanic /\ turn[p].pc \in Serving => turn[p].left > 0 /\ Shape(history, turn[p].left)
  BY DEF SessionInv, Paired
<1> QED
  BY <1>1, <1>2, <1>3, <1>4, <1>6, <1>7

(* A step that leaves the turn running.                                    *)
LEMMA TurnMoves ==
    ASSUME SessionInv, NEW p \in Prompts, Running(p), NEW t \in Turn,
           turn' = [turn EXCEPT ![p] = t], t.pc \notin {"none", "sent", "ended"},
           UNCHANGED control,
           history' \in Seq(Message), Len(history') <= MaxHistory,
           gates' \subseteq gates \cup {p}, p \in gates' => t.pc \in {"gated", "ungated"},
           Watches(t, cancel), p \in hit => Stops(t, cancel, cancelled),
           NoPanic => /\ t.pc \in Serving => t.left > 0 /\ Shape(history', t.left)
                      /\ t.pc \notin Serving => Shape(history', 0)
    PROVE  SessionInv'
<1>1. /\ turn' \in [Prompts -> Turn] /\ turn'[p] = t
      /\ \A q \in Prompts : q # p => turn'[q] = turn[q]
  BY DEF SessionInv, SessionTypeOK
<1>2. /\ UNCHANGED <<live, disposed, turnActive, abortPending, cancel, cancelled, reloads, hit>>
      /\ SessionTypeOK
  BY DEF control, SessionInv
<1>3. SessionTypeOK'
  BY <1>1, <1>2 DEF SessionTypeOK
<1>4. \A q \in Prompts : q # p => ~Running(q)
  BY DEF SessionInv, OneTurnAtATime
<1>5. \A q \in Prompts : Running(q)' <=> q = p
  BY <1>1, <1>4 DEF Running
<1>6. OneTurnAtATime'
  BY <1>2, <1>5 DEF SessionInv, OneTurnAtATime
<1>7. NoStrayGate'
  BY <1>1 DEF SessionInv, NoStrayGate
<1>8. \A q \in Prompts : Watches(turn[q], cancel)'
  BY <1>1, <1>2 DEF SessionInv
<1>9. \A q \in hit' : Stops(turn[q], cancel, cancelled)'
  BY <1>1, <1>2 DEF SessionInv, SessionTypeOK
<1>10. Paired'
  <2> SUFFICES ASSUME NoPanic'
               PROVE  /\ \A q \in Prompts : turn'[q].pc \in Serving =>
                             turn'[q].left > 0 /\ Shape(history', turn'[q].left)
                      /\ (\A q \in Prompts : turn'[q].pc \notin Serving) => Shape(history', 0)
    BY DEF Paired
  <2>1. turn[p].outcome # "panicked"
    BY TheTurn DEF Watches
  <2>2. NoPanic
    BY <1>1, <2>1 DEF NoPanic
  <2>3. \A q \in Prompts : q # p => turn'[q].pc \notin Serving
    BY <1>1, <1>4 DEF Running, Serving
  <2> QED
    BY <1>1, <2>2, <2>3
<1> QED
  BY <1>3, <1>6, <1>7, <1>8, <1>9, <1>10 DEF SessionInv

LEMMA StepAppendPrompt ==
    ASSUME SessionInv, NEW p \in Prompts, AppendPrompt(p)
    PROVE  SessionInv'
<1> DEFINE t == [turn[p] EXCEPT !.pc = "recalling"]
<1>1. turn[p].pc = "admitted" /\ turn' = [turn EXCEPT ![p] = t] /\ Running(p)
  BY DEF AppendPrompt, Goto, Running
<1>2. /\ turn[p] \in Turn /\ Watches(turn[p], cancel)
      /\ p \in hit => Stops(turn[p], cancel, cancelled)
      /\ history \in Seq(Message) /\ Len(history) <= MaxHistory
      /\ p \notin gates /\ (NoPanic => Shape(history, 0))
  BY <1>1, TheTurn DEF Serving
<1>3. t \in Turn /\ t.pc = "recalling" /\ t.outcome = turn[p].outcome
  BY <1>2 DEF Turn
<1> HIDE DEF t
<1>4. Watches(t, cancel) /\ (p \in hit => Stops(t, cancel, cancelled))
  BY <1>1, <1>2, <1>3 DEF Watches, Stops, Starting, Asking, Serving
<1>5. /\ history' \in Seq(Message) /\ Len(history') <= MaxHistory
      /\ NoPanic => Shape(history', 0)
  BY <1>2, Pushed, SessionAssumption DEF AppendPrompt
<1>6. UNCHANGED <<control, gates>>
  BY DEF AppendPrompt
<1> QED
  BY <1>1, <1>2, <1>3, <1>4, <1>5, <1>6, TurnMoves DEF Serving

LEMMA StepRecall ==
    ASSUME SessionInv, NEW p \in Prompts, Recall(p)
    PROVE  SessionInv'
<1> DEFINE t == [turn[p] EXCEPT !.pc = "resolving", !.round = 1, !.token = cancel]
<1>1. turn[p].pc = "recalling" /\ turn' = [turn EXCEPT ![p] = t] /\ Running(p)
  BY DEF Recall, Running
<1>2. /\ turn[p] \in Turn /\ Watches(turn[p], cancel)
      /\ p \in hit => Stops(turn[p], cancel, cancelled)
      /\ history \in Seq(Message) /\ Len(history) <= MaxHistory
      /\ p \notin gates /\ (NoPanic => Shape(history, 0))
  BY <1>1, TheTurn DEF Serving
<1>3. 1 \in 0..MaxRounds /\ cancel \in Nat
  BY SessionAssumption DEF SessionInv, SessionTypeOK
<1>4. t \in Turn /\ t.pc = "resolving" /\ t.outcome = turn[p].outcome /\ t.token = cancel
  BY <1>2, <1>3 DEF Turn
<1> HIDE DEF t
<1>5. Watches(t, cancel) /\ (p \in hit => Stops(t, cancel, cancelled))
  BY <1>1, <1>2, <1>4 DEF Watches, Stops, Starting, Asking, Serving
<1>6. UNCHANGED <<control, history, gates>>
  BY DEF Recall
<1> QED
  BY <1>1, <1>2, <1>4, <1>5, <1>6, TurnMoves DEF Serving

(* A turn that is asking ends in an error.                                 *)
LEMMA StepFinishError ==
    ASSUME SessionInv, NEW p \in Prompts, turn[p].pc \in Asking, FinishError(p)
    PROVE  SessionInv'
<1> DEFINE t == [turn[p] EXCEPT !.pc = "leaving", !.outcome = "error"]
<1>1. turn' = [turn EXCEPT ![p] = t] /\ Running(p)
  BY DEF FinishError, EndTurn, Running, Asking
<1>2. /\ turn[p] \in Turn /\ history \in Seq(Message) /\ Len(history) <= MaxHistory
      /\ p \notin gates /\ (NoPanic => Shape(history, 0))
  BY <1>1, TheTurn DEF Asking, Serving
<1>3. t \in Turn /\ t.pc = "leaving" /\ t.outcome = "error"
  BY <1>2 DEF Turn
<1> HIDE DEF t
<1>4. Watches(t, cancel) /\ Stops(t, cancel, cancelled)
  BY <1>3 DEF Watches, Stops, Starting, Asking, Serving
<1>5. /\ history' \in Seq(Message) /\ Len(history') <= MaxHistory
      /\ NoPanic => Shape(history', 0)
  BY <1>2, Pushed, SessionAssumption DEF FinishError
<1>6. UNCHANGED <<control, gates>>
  BY DEF FinishError
<1> QED
  BY <1>1, <1>2, <1>3, <1>4, <1>5, <1>6, TurnMoves DEF Serving

LEMMA StepResolveModel ==
    ASSUME SessionInv, NEW p \in Prompts, ResolveModel(p)
    PROVE  SessionInv'
<1>1. CASE FinishError(p)
  BY <1>1, StepFinishError DEF ResolveModel, Asking
<1>2. CASE Goto(p, "streaming") /\ UNCHANGED <<control, history, gates>>
  <2> DEFINE t == [turn[p] EXCEPT !.pc = "streaming"]
  <2>1. turn[p].pc = "resolving" /\ turn' = [turn EXCEPT ![p] = t] /\ Running(p)
    BY <1>2 DEF ResolveModel, Goto, Running
  <2>2. /\ turn[p] \in Turn /\ Watches(turn[p], cancel)
        /\ p \in hit => Stops(turn[p], cancel, cancelled)
        /\ history \in Seq(Message) /\ Len(history) <= MaxHistory
        /\ p \notin gates /\ (NoPanic => Shape(history, 0))
    BY <2>1, TheTurn DEF Serving
  <2>3. t \in Turn /\ t.pc = "streaming" /\ t.outcome = turn[p].outcome /\ t.token = turn[p].token
    BY <2>2 DEF Turn
  <2> HIDE DEF t
  <2>4. Watches(t, cancel) /\ (p \in hit => Stops(t, cancel, cancelled))
    BY <2>1, <2>2, <2>3 DEF Watches, Stops, Starting, Asking, Serving
  <2> QED
    BY <1>2, <2>1, <2>2, <2>3, <2>4, TurnMoves DEF Serving
<1> QED
  BY <1>1, <1>2 DEF ResolveModel

(* The stream is over: aborted if the token is cancelled, else free.       *)
LEMMA StepJudge ==
    ASSUME SessionInv, NEW p \in Prompts, turn[p].pc = "streaming",
           NEW calls \in 0..MaxToolCalls, NEW o \in {"none", "aborted"}, Judge(p, calls, o),
           turn[p].token \in cancelled => o = "aborted",
           UNCHANGED <<control, history, gates>>
    PROVE  SessionInv'
<1> DEFINE left == IF o = "aborted" THEN 0 ELSE calls
           t == [turn[p] EXCEPT !.pc = "judged", !.outcome = o, !.left = left]
<1>1. turn' = [turn EXCEPT ![p] = t] /\ Running(p)
  BY DEF Judge, Running
<1>2. /\ turn[p] \in Turn /\ Watches(turn[p], cancel)
      /\ p \in hit => Stops(turn[p], cancel, cancelled)
      /\ history \in Seq(Message) /\ Len(history) <= MaxHistory
      /\ p \notin gates /\ (NoPanic => Shape(history, 0))
  BY <1>1, TheTurn DEF Serving
<1>3. left \in 0..MaxToolCalls /\ (o = "aborted" => left = 0)
  BY SessionAssumption
<1> HIDE DEF left
<1>4. /\ t \in Turn /\ t.pc = "judged" /\ t.outcome = o /\ t.left = left
      /\ t.token = turn[p].token
  BY <1>2, <1>3 DEF Turn
<1> HIDE DEF t
<1>5. Watches(t, cancel)
  BY <1>2, <1>3, <1>4 DEF Watches, Starting, Asking, Serving
<1>6. p \in hit => Stops(t, cancel, cancelled)
  BY <1>2, <1>4 DEF Stops, Starting, Asking, Serving
<1> QED
  BY <1>1, <1>2, <1>4, <1>5, <1>6, TurnMoves DEF Serving

LEMMA StepStream ==
    ASSUME SessionInv, NEW p \in Prompts, SeeCancel(p) \/ StreamEnds(p)
    PROVE  SessionInv'
<1>1. CASE SeeCancel(p)
  BY <1>1, StepJudge DEF SeeCancel
<1>2. CASE StreamEnds(p)
  <2>1. CASE FinishError(p)
    BY <1>2, <2>1, StepFinishError DEF StreamEnds, Asking
  <2>2. CASE ~FinishError(p)
    BY <1>2, <2>2, StepJudge DEF StreamEnds
  <2> QED
    BY <2>1, <2>2
<1> QED
  BY <1>1, <1>2

LEMMA StepCommit ==
    ASSUME SessionInv, NEW p \in Prompts, Commit(p)
    PROVE  SessionInv'
<1>1. turn[p].pc = "judged" /\ Running(p) /\ UNCHANGED <<control, gates>>
  BY DEF Commit, Running
<1>2. /\ turn[p] \in Turn /\ Watches(turn[p], cancel)
      /\ p \in hit => Stops(turn[p], cancel, cancelled)
      /\ history \in Seq(Message) /\ Len(history) <= MaxHistory
      /\ p \notin gates /\ (NoPanic => Shape(history, 0))
  BY <1>1, TheTurn DEF Serving
<1>3. /\ turn[p].left \in 0..MaxToolCalls /\ turn[p].left \in Nat
      /\ turn[p].outcome = "none" \/ (turn[p].outcome = "aborted" /\ turn[p].left = 0)
  BY <1>1, <1>2, SessionAssumption DEF Turn, Watches
<1>4. /\ history' \in Seq(Message) /\ Len(history') <= MaxHistory
      /\ NoPanic => Shape(history', turn[p].left)
  BY <1>2, <1>3, Pushed DEF Commit
<1>5. CASE turn[p].outcome = "aborted"
  <2> DEFINE t == [turn[p] EXCEPT !.pc = "finishing"]
  <2>1. turn' = [turn EXCEPT ![p] = t]
    BY <1>5 DEF Commit, Goto
  <2>2. t \in Turn /\ t.pc = "finishing" /\ t.outcome = "aborted"
    BY <1>2, <1>5 DEF Turn
  <2> HIDE DEF t
  <2>3. Watches(t, cancel) /\ Stops(t, cancel, cancelled)
    BY <2>2 DEF Watches, Stops, Starting, Asking, Serving
  <2>4. turn[p].left = 0
    BY <1>3, <1>5
  <2> QED
    BY <1>1, <1>2, <1>4, <2>1, <2>2, <2>3, <2>4, TurnMoves DEF Serving
<1>6. CASE turn[p].outcome # "aborted" /\ turn[p].left = 0
  <2> DEFINE t == [turn[p] EXCEPT !.pc = "finishing", !.outcome = "completed"]
  <2>1. turn' = [turn EXCEPT ![p] = t]
    BY <1>6 DEF Commit, EndTurn
  <2>2. t \in Turn /\ t.pc = "finishing" /\ t.outcome = "completed"
    BY <1>2 DEF Turn
  <2> HIDE DEF t
  <2>3. Watches(t, cancel)
    BY <2>2 DEF Watches, Starting, Asking, Serving
  <2>4. p \notin hit
    BY <1>1, <1>2, <1>6 DEF Stops
  <2> QED
    BY <1>1, <1>2, <1>4, <1>6, <2>1, <2>2, <2>3, <2>4, TurnMoves DEF Serving
<1>7. CASE turn[p].outcome # "aborted" /\ turn[p].left # 0
  <2> DEFINE t == [turn[p] EXCEPT !.pc = "tools"]
  <2>1. turn' = [turn EXCEPT ![p] = t]
    BY <1>7 DEF Commit, Goto
  <2>2. /\ t \in Turn /\ t.pc = "tools" /\ t.outcome = "none" /\ t.left = turn[p].left
        /\ t.token = turn[p].token /\ t.round = turn[p].round
    BY <1>2, <1>3, <1>7 DEF Turn
  <2> HIDE DEF t
  <2>3. Watches(t, cancel)
    BY <1>1, <1>2, <2>2 DEF Watches, Starting, Asking, Serving
  <2>4. p \in hit => Stops(t, cancel, cancelled)
    BY <1>1, <1>2, <1>7, <2>2 DEF Stops, Starting, Asking, Serving
  <2>5. turn[p].left > 0
    BY <1>3, <1>7
  <2> QED
    BY <1>1, <1>2, <1>4, <2>1, <2>2, <2>3, <2>4, <2>5, TurnMoves DEF Serving
<1> QED
  BY <1>5, <1>6, <1>7

(* A tool has returned: to the next call, the next round or the end.       *)
LEMMA StepToolDone ==
    ASSUME SessionInv, NEW p \in Prompts, turn[p].pc \in Serving, ToolDone(p),
           UNCHANGED control, gates' = gates \ {p}
    PROVE  SessionInv'
<1>1. Running(p) /\ turn[p].pc \in Serving
  BY DEF Running, Serving
<1>2. /\ turn[p] \in Turn /\ Watches(turn[p], cancel)
      /\ p \in hit => Stops(turn[p], cancel, cancelled)
      /\ history \in Seq(Message) /\ Len(history) <= MaxHistory
      /\ NoPanic => turn[p].left > 0 /\ Shape(history, turn[p].left)
  BY <1>1, TheTurn
<1>3. /\ turn[p].left \in 0..MaxToolCalls /\ turn[p].left \in Nat
      /\ turn[p].round \in 0..MaxRounds /\ turn[p].round \in Nat /\ MaxRounds \in Nat
  BY <1>2, SessionAssumption DEF Turn
<1>4. /\ history' \in Seq(Message) /\ Len(history') <= MaxHistory
      /\ NoPanic => Shape(history', turn[p].left - 1)
  BY <1>2, <1>3, Pushed, SessionAssumption DEF ToolDone
<1>5. p \notin gates' /\ gates' \subseteq gates \cup {p}
  OBVIOUS
<1>0. turn' = [turn EXCEPT ![p] =
           IF turn[p].left > 1 THEN [turn[p] EXCEPT !.pc = "tools", !.left = turn[p].left - 1]
           ELSE IF turn[p].round < MaxRounds
           THEN [turn[p] EXCEPT !.pc = "resolving", !.left = 0, !.round = turn[p].round + 1]
           ELSE [turn[p] EXCEPT !.pc = "finishing", !.left = 0, !.outcome = "capped"]]
  BY DEF ToolDone
<1>6. CASE turn[p].left > 1
  <2> DEFINE t == [turn[p] EXCEPT !.pc = "tools", !.left = turn[p].left - 1]
  <2>1. turn' = [turn EXCEPT ![p] = t]
    BY <1>6, <1>0
  <2>2. turn[p].left - 1 \in 0..MaxToolCalls /\ turn[p].left - 1 > 0
    BY <1>3, <1>6, SessionAssumption
  <2>3. /\ t \in Turn /\ t.pc = "tools" /\ t.outcome = turn[p].outcome
        /\ t.left = turn[p].left - 1 /\ t.token = turn[p].token /\ t.round = turn[p].round
    BY <1>2, <2>2 DEF Turn
  <2> HIDE DEF t
  <2>4. Watches(t, cancel) /\ (p \in hit => Stops(t, cancel, cancelled))
    BY <1>1, <1>2, <2>3 DEF Watches, Stops, Starting, Asking, Serving
  <2> QED
    BY <1>1, <1>4, <1>5, <2>1, <2>2, <2>3, <2>4, TurnMoves DEF Serving
<1>7. CASE ~(turn[p].left > 1) /\ turn[p].round < MaxRounds
  <2> DEFINE t == [turn[p] EXCEPT !.pc = "resolving", !.left = 0, !.round = turn[p].round + 1]
  <2>1. turn' = [turn EXCEPT ![p] = t]
    BY <1>7, <1>0
  <2>2. turn[p].round + 1 \in 0..MaxRounds /\ 0 \in 0..MaxToolCalls
    BY <1>3, <1>7, SessionAssumption
  <2>3. /\ t \in Turn /\ t.pc = "resolving" /\ t.outcome = turn[p].outcome
        /\ t.token = turn[p].token
    BY <1>2, <2>2 DEF Turn
  <2> HIDE DEF t
  <2>4. Watches(t, cancel) /\ (p \in hit => Stops(t, cancel, cancelled))
    BY <1>1, <1>2, <2>3 DEF Watches, Stops, Starting, Asking, Serving
  <2>5. NoPanic => Shape(history', 0)
    <3> HAVE NoPanic
    <3>1. turn[p].left - 1 = 0
      BY <1>2, <1>3, <1>7
    <3> QED
      BY <1>4, <3>1
  <2> QED
    BY <1>1, <1>4, <1>5, <2>1, <2>3, <2>4, <2>5, TurnMoves DEF Serving
<1>8. CASE ~(turn[p].left > 1) /\ ~(turn[p].round < MaxRounds)
  <2> DEFINE t == [turn[p] EXCEPT !.pc = "finishing", !.left = 0, !.outcome = "capped"]
  <2>1. turn' = [turn EXCEPT ![p] = t]
    BY <1>8, <1>0
  <2>2. t \in Turn /\ t.pc = "finishing" /\ t.outcome = "capped"
    <3>1. 0 \in 0..MaxToolCalls
      BY SessionAssumption
    <3> QED
      BY <1>2, <3>1 DEF Turn
  <2> HIDE DEF t
  <2>3. Watches(t, cancel)
    BY <2>2 DEF Watches, Starting, Asking, Serving
  <2>4. p \notin hit
    BY <1>1, <1>2, <1>8 DEF Stops
  <2>5. NoPanic => Shape(history', 0)
    <3> HAVE NoPanic
    <3>1. turn[p].left - 1 = 0
      BY <1>2, <1>3, <1>8
    <3> QED
      BY <1>4, <3>1
  <2> QED
    BY <1>1, <1>4, <1>5, <2>1, <2>2, <2>3, <2>4, <2>5, TurnMoves DEF Serving
<1> QED
  BY <1>6, <1>7, <1>8

LEMMA StepTools ==
    ASSUME SessionInv, NEW p \in Prompts, RunTool(p) \/ CloseGate(p)
    PROVE  SessionInv'
<1>1. CASE RunTool(p)
  <2>1. turn[p].pc \in Serving /\ Running(p) /\ turn[p].pc = "tools"
    BY <1>1 DEF RunTool, Serving, Running
  <2>2. p \notin gates
    BY <2>1, TheTurn
  <2>3. gates' = gates \ {p} /\ UNCHANGED control /\ ToolDone(p)
    BY <1>1, <2>2 DEF RunTool
  <2> QED
    BY <2>1, <2>3, StepToolDone
<1>2. CASE CloseGate(p)
  BY <1>2, StepToolDone DEF CloseGate, Serving
<1> QED
  BY <1>1, <1>2

LEMMA StepAtGate ==
    ASSUME SessionInv, NEW p \in Prompts, OpenGate(p) \/ WakeAtGate(p)
    PROVE  SessionInv'
<1>1. PICK pc \in {"gated", "ungated"} :
         turn' = [turn EXCEPT ![p].pc = pc] /\ turn[p].pc \in {"tools", "gated"}
  BY DEF OpenGate, WakeAtGate, Goto
<1> DEFINE t == [turn[p] EXCEPT !.pc = pc]
<1>2. turn' = [turn EXCEPT ![p] = t] /\ Running(p) /\ turn[p].pc \in Serving
  BY <1>1 DEF Running, Serving
<1>3. /\ turn[p] \in Turn /\ Watches(turn[p], cancel)
      /\ p \in hit => Stops(turn[p], cancel, cancelled)
      /\ history \in Seq(Message) /\ Len(history) <= MaxHistory
      /\ NoPanic => turn[p].left > 0 /\ Shape(history, turn[p].left)
  BY <1>2, TheTurn
<1>4. /\ t \in Turn /\ t.pc = pc /\ t.outcome = turn[p].outcome /\ t.left = turn[p].left
      /\ t.token = turn[p].token /\ t.round = turn[p].round
  BY <1>3 DEF Turn
<1> HIDE DEF t
<1>5. Watches(t, cancel) /\ (p \in hit => Stops(t, cancel, cancelled))
  BY <1>1, <1>2, <1>3, <1>4 DEF Watches, Stops, Starting, Asking, Serving
<1>6. UNCHANGED <<control, history>> /\ gates' \subseteq gates \cup {p}
  BY DEF OpenGate, WakeAtGate
<1> QED
  BY <1>1, <1>2, <1>3, <1>4, <1>5, <1>6, TurnMoves DEF Serving

LEMMA StepFinishTurn ==
    ASSUME SessionInv, NEW p \in Prompts, FinishTurn(p)
    PROVE  SessionInv'
<1> DEFINE t == [turn[p] EXCEPT !.pc = "leaving"]
<1>1. turn[p].pc = "finishing" /\ turn' = [turn EXCEPT ![p] = t] /\ Running(p)
  BY DEF FinishTurn, Goto, Running
<1>2. /\ turn[p] \in Turn /\ Watches(turn[p], cancel)
      /\ p \in hit => Stops(turn[p], cancel, cancelled)
      /\ history \in Seq(Message) /\ Len(history) <= MaxHistory
      /\ p \notin gates /\ (NoPanic => Shape(history, 0))
  BY <1>1, TheTurn DEF Serving
<1>3. t \in Turn /\ t.pc = "leaving" /\ t.outcome = turn[p].outcome
  BY <1>2 DEF Turn
<1> HIDE DEF t
<1>4. Watches(t, cancel) /\ (p \in hit => Stops(t, cancel, cancelled))
  BY <1>1, <1>2, <1>3 DEF Watches, Stops, Starting, Asking, Serving
<1>5. UNCHANGED <<control, history, gates>>
  BY DEF FinishTurn
<1> QED
  BY <1>1, <1>2, <1>3, <1>4, <1>5, TurnMoves DEF Serving

-----------------------------------------------------------------------------
(* The steps at which a turn starts or ends.                               *)

(* A prompt that is no turn yet moves and none becomes one.                *)
LEMMA OutsideTurn ==
    ASSUME SessionInv, NEW p \in Prompts, turn[p].pc \in {"none", "sent"},
           NEW t \in Turn, turn' = [turn EXCEPT ![p] = t],
           \/ t.pc = "sent" /\ t.outcome = "none"
           \/ t.pc = "ended" /\ t.outcome = "refused",
           UNCHANGED <<control, history, gates>>
    PROVE  SessionInv'
<1>1. /\ turn' \in [Prompts -> Turn] /\ turn'[p] = t
      /\ \A q \in Prompts : q # p => turn'[q] = turn[q]
  BY DEF SessionInv, SessionTypeOK
<1>2. /\ UNCHANGED <<live, disposed, turnActive, abortPending, cancel, cancelled, reloads, hit>>
      /\ SessionTypeOK /\ history' = history /\ gates' = gates
  BY DEF control, SessionInv
<1>3. SessionTypeOK'
  BY <1>1, <1>2 DEF SessionTypeOK
<1>4. \A q \in Prompts : Running(q)' <=> Running(q)
  BY <1>1 DEF Running
<1>5. OneTurnAtATime'
  BY <1>2, <1>4 DEF SessionInv, OneTurnAtATime
<1>6. NoStrayGate'
  BY <1>1, <1>2 DEF SessionInv, NoStrayGate
<1>7. Watches(t, cancel)
  BY DEF Watches, Starting, Asking, Serving
<1>8. \A q \in Prompts : Watches(turn[q], cancel)'
  BY <1>1, <1>2, <1>7 DEF SessionInv
<1>9. p \notin hit
  BY DEF SessionInv, Stops
<1>10. \A q \in hit' : Stops(turn[q], cancel, cancelled)'
  BY <1>1, <1>2, <1>9 DEF SessionInv, SessionTypeOK
<1>11. Paired'
  <2>1. turn[p].outcome # "panicked" /\ turn[p].pc \notin Serving /\ t.pc \notin Serving
    BY DEF SessionInv, Watches, Serving
  <2>2. NoPanic' => NoPanic
    BY <1>1, <2>1 DEF NoPanic
  <2>3. \A q \in Prompts : turn'[q].pc \in Serving => turn'[q] = turn[q]
    BY <1>1, <2>1
  <2>4. (\A q \in Prompts : turn'[q].pc \notin Serving) =>
           \A q \in Prompts : turn[q].pc \notin Serving
    BY <1>1, <2>1
  <2> QED
    BY <1>2, <2>2, <2>3, <2>4 DEF SessionInv, Paired
<1> QED
  BY <1>2, <1>3, <1>5, <1>6, <1>8, <1>10, <1>11 DEF SessionInv

LEMMA StepSendPrompt ==
    ASSUME SessionInv, NEW p \in Prompts, SendPrompt(p)
    PROVE  SessionInv'
<1> DEFINE t == [turn[p] EXCEPT !.pc = "sent"]
<1>1. turn[p] \in Turn /\ turn[p].pc = "none" /\ turn[p].outcome = "none"
  BY DEF SendPrompt, SessionInv, SessionTypeOK, Watches
<1>2. t \in Turn /\ t.pc = "sent" /\ t.outcome = "none"
  BY <1>1 DEF Turn
<1>3. turn' = [turn EXCEPT ![p] = t] /\ UNCHANGED <<control, history, gates>>
  BY DEF SendPrompt, Goto
<1> HIDE DEF t
<1> QED
  BY <1>1, <1>2, <1>3, OutsideTurn

LEMMA StepRefuse ==
    ASSUME SessionInv, NEW p \in Prompts, Refuse(p)
    PROVE  SessionInv'
<1> DEFINE t == [turn[p] EXCEPT !.pc = "ended", !.outcome = "refused"]
<1>1. turn[p] \in Turn /\ turn[p].pc = "sent"
  BY DEF Refuse, SessionInv, SessionTypeOK
<1>2. t \in Turn /\ t.pc = "ended" /\ t.outcome = "refused"
  BY <1>1 DEF Turn
<1>3. turn' = [turn EXCEPT ![p] = t] /\ UNCHANGED <<control, history, gates>>
  BY DEF Refuse, EndTurn
<1> HIDE DEF t
<1> QED
  BY <1>1, <1>2, <1>3, OutsideTurn

(* No turn runs, so none watches a token, when the token is renewed.       *)
LEMMA StepBegin ==
    ASSUME SessionInv, NEW p \in Prompts, Begin(p)
    PROVE  SessionInv'
<1>1. /\ turn[p].pc = "sent" /\ ~turnActive /\ cancel' = cancel + 1 /\ abortPending' = FALSE
      /\ UNCHANGED <<live, disposed, reloads, hit, history, gates>>
  BY DEF Begin
<1>2. /\ turn[p] \in Turn /\ turn[p].outcome = "none"
      /\ \A q \in Prompts : turn[q].pc \in {"none", "sent", "ended"}
  BY <1>1 DEF SessionInv, SessionTypeOK, Watches, OneTurnAtATime, Running
<1>3. PICK t \in Turn :
         /\ turn' = [turn EXCEPT ![p] = t]
         /\ \/ /\ t.pc = "ended" /\ t.outcome = "refused" /\ turnActive' = FALSE
               /\ cancelled' = cancelled \cup {cancel + 1}
            \/ /\ t.pc = "admitted" /\ t.outcome = "none" /\ turnActive' = TRUE
               /\ cancelled' = cancelled
  <2>1. CASE abortPending
    <3> DEFINE t == [turn[p] EXCEPT !.pc = "ended", !.outcome = "refused"]
    <3>1. t \in Turn /\ t.pc = "ended" /\ t.outcome = "refused"
      BY <1>2 DEF Turn
    <3>2. /\ turn' = [turn EXCEPT ![p] = t] /\ turnActive' = FALSE
          /\ cancelled' = cancelled \cup {cancel + 1}
      <4>1. turnActive \in BOOLEAN /\ turnActive' = turnActive
        BY <2>1 DEF Begin, SessionInv, SessionTypeOK
      <4>2. turnActive' = FALSE
        BY <1>1, <4>1
      <4> QED
        BY <2>1, <4>2 DEF Begin, EndTurn
    <3> HIDE DEF t
    <3> QED
      BY <3>1, <3>2
  <2>2. CASE ~abortPending
    <3> DEFINE t == [turn[p] EXCEPT !.pc = "admitted"]
    <3>1. t \in Turn /\ t.pc = "admitted" /\ t.outcome = "none"
      BY <1>2 DEF Turn
    <3>2. /\ turn' = [turn EXCEPT ![p] = t] /\ turnActive' = TRUE
          /\ cancelled' = cancelled
      BY <2>2 DEF Begin, Goto
    <3> HIDE DEF t
    <3> QED
      BY <3>1, <3>2
  <2> QED
    BY <2>1, <2>2
<1>4. /\ turn' \in [Prompts -> Turn] /\ turn'[p] = t
      /\ \A q \in Prompts : q # p => turn'[q] = turn[q]
  BY <1>3 DEF SessionInv, SessionTypeOK
<1>5. SessionTypeOK'
  <2>1. turnActive' \in BOOLEAN /\ abortPending' \in BOOLEAN /\ cancel' \in Nat
    <3>1. cancel \in Nat
      BY DEF SessionInv, SessionTypeOK
    <3>2. turnActive' \in BOOLEAN
      BY <1>3
    <3>3. abortPending' \in BOOLEAN
      BY <1>1
    <3>4. cancel' \in Nat
      BY <1>1, <3>1
    <3> QED
      BY <3>2, <3>3, <3>4
  <2>2. cancelled' \in SUBSET Nat
    <3>1. cancelled \in SUBSET Nat /\ cancel + 1 \in Nat
      BY DEF SessionInv, SessionTypeOK
    <3> QED
      BY <1>3, <3>1
  <2> QED
    BY <1>1, <1>4, <2>1, <2>2 DEF SessionInv, SessionTypeOK
<1>6. \A q \in Prompts : Running(q)' <=> (q = p /\ t.pc = "admitted")
  BY <1>2, <1>3, <1>4 DEF Running
<1>7. OneTurnAtATime'
  BY <1>3, <1>6 DEF OneTurnAtATime
<1>8. NoStrayGate'
  <2>1. gates = {}
    BY <1>2 DEF SessionInv, SessionTypeOK, NoStrayGate
  <2> QED
    BY <1>1, <2>1 DEF NoStrayGate
<1>9. \A q \in Prompts : Watches(turn[q], cancel)'
  BY <1>2, <1>3, <1>4 DEF SessionInv, Watches, Starting, Asking, Serving
<1>10. \A q \in hit' : Stops(turn[q], cancel, cancelled)'
  <2>1. p \notin hit
    BY <1>1 DEF SessionInv, Stops
  <2> QED
    BY <1>1, <1>2, <1>4, <2>1
       DEF SessionInv, SessionTypeOK, Stops, Starting, Asking, Serving
<1>11. Paired'
  <2>1. NoPanic' => NoPanic
    BY <1>2, <1>4 DEF NoPanic
  <2>2. \A q \in Prompts : turn'[q].pc \notin Serving /\ turn[q].pc \notin Serving
    BY <1>2, <1>3, <1>4 DEF Serving
  <2> QED
    BY <1>1, <2>1, <2>2 DEF SessionInv, Paired
<1> QED
  BY <1>1, <1>5, <1>7, <1>8, <1>9, <1>10, <1>11 DEF SessionInv

(* TurnGuard is dropped: the turn ends as it was, or in a panic.           *)
LEMMA TurnEnds ==
    ASSUME SessionInv, NEW p \in Prompts, Running(p), p \notin gates, NEW t \in Turn,
           turn' = [turn EXCEPT ![p] = t], t.pc = "ended", DropGuard,
           p \in hit => t.outcome \in {"aborted", "error", "panicked"},
           t.outcome # "panicked" => turn[p].pc \notin Serving
    PROVE  SessionInv'
<1>1. /\ turn' \in [Prompts -> Turn] /\ turn'[p] = t
      /\ \A q \in Prompts : q # p => turn'[q] = turn[q]
  BY DEF SessionInv, SessionTypeOK
<1>2. /\ UNCHANGED <<live, disposed, cancel, cancelled, reloads, hit, history, gates>>
      /\ turnActive' = FALSE /\ abortPending' = FALSE
  BY DEF DropGuard
<1>3. SessionTypeOK'
  BY <1>1, <1>2 DEF SessionInv, SessionTypeOK
<1>4. \A q \in Prompts : ~Running(q)'
  BY <1>1 DEF SessionInv, OneTurnAtATime, Running
<1>5. OneTurnAtATime'
  BY <1>2, <1>4 DEF OneTurnAtATime
<1>6. NoStrayGate'
  BY <1>1, <1>2 DEF SessionInv, NoStrayGate
<1>7. \A q \in Prompts : Watches(turn[q], cancel)'
  <2>1. Watches(t, cancel)
    BY DEF Watches, Starting, Asking, Serving
  <2> QED
    BY <1>1, <1>2, <2>1 DEF SessionInv
<1>8. \A q \in hit' : Stops(turn[q], cancel, cancelled)'
  <2>1. p \in hit => Stops(t, cancel, cancelled)
    BY DEF Stops, Starting, Asking, Serving
  <2> QED
    BY <1>1, <1>2, <2>1 DEF SessionInv, SessionTypeOK
<1>9. Paired'
  <2> SUFFICES ASSUME NoPanic' PROVE Paired'
    BY DEF Paired
  <2>1. t.outcome # "panicked" /\ turn[p].pc \notin Serving
    BY <1>1 DEF NoPanic
  <2>2. NoPanic /\ Shape(history, 0)
    <3>1. NoPanic
      BY <1>1, TheTurn DEF NoPanic, Watches
    <3> QED
      BY <2>1, <3>1, TheTurn
  <2>3. \A q \in Prompts : turn'[q].pc \notin Serving
    BY <1>4 DEF Running, Serving
  <2> QED
    BY <1>2, <2>2, <2>3 DEF Paired
<1> QED
  BY <1>2, <1>3, <1>5, <1>6, <1>7, <1>8, <1>9 DEF SessionInv

LEMMA StepLeave ==
    ASSUME SessionInv, NEW p \in Prompts, Leave(p)
    PROVE  SessionInv'
<1> DEFINE t == [turn[p] EXCEPT !.pc = "ended"]
<1>1. turn[p].pc = "leaving" /\ turn' = [turn EXCEPT ![p] = t] /\ DropGuard /\ Running(p)
  BY DEF Leave, Goto, Running
<1>2. /\ turn[p] \in Turn /\ p \notin gates
      /\ p \in hit => turn[p].outcome \in {"aborted", "error", "panicked"}
  BY <1>1, TheTurn DEF Stops
<1>3. t \in Turn /\ t.pc = "ended" /\ t.outcome = turn[p].outcome
  BY <1>2 DEF Turn
<1> HIDE DEF t
<1> QED
  BY <1>1, <1>2, <1>3, TurnEnds DEF Serving

LEMMA StepPanic ==
    ASSUME SessionInv, NEW p \in Prompts, Panic(p)
    PROVE  SessionInv'
<1> DEFINE t == [turn[p] EXCEPT !.pc = "ended", !.outcome = "panicked"]
<1>1. /\ turn[p].pc \in {"streaming", "tools"} /\ turn' = [turn EXCEPT ![p] = t]
      /\ DropGuard /\ Running(p)
  BY DEF Panic, EndTurn, Running
<1>2. turn[p] \in Turn /\ p \notin gates
  BY <1>1, TheTurn
<1>3. t \in Turn /\ t.pc = "ended" /\ t.outcome = "panicked"
  BY <1>2 DEF Turn
<1> HIDE DEF t
<1> QED
  BY <1>1, <1>2, <1>3, TurnEnds

-----------------------------------------------------------------------------
(* The steps of the operator.                                              *)

LEMMA StepCancel ==
    ASSUME SessionInv, Abort \/ Dispose
    PROVE  SessionInv'
<1>1. /\ cancelled' = cancelled \cup {cancel} /\ hit' = hit \cup Stoppable
      /\ UNCHANGED <<turnActive, cancel, reloads, history, gates, turn>>
  BY DEF Abort, Dispose, CancelTurn
<1>2. live' \in BOOLEAN /\ disposed' \in BOOLEAN /\ abortPending' \in BOOLEAN
  BY DEF Abort, Dispose, SessionInv, SessionTypeOK
<1>3. SessionTypeOK'
  BY <1>1, <1>2 DEF SessionInv, SessionTypeOK, Stoppable
<1>4. OneTurnAtATime' /\ NoStrayGate'
  BY <1>1 DEF SessionInv, OneTurnAtATime, NoStrayGate, Running
<1>5. \A q \in Prompts : Watches(turn[q], cancel)'
  BY <1>1 DEF SessionInv
<1>6. \A q \in hit' : Stops(turn[q], cancel, cancelled)'
  <2>1. ASSUME NEW q \in hit PROVE Stops(turn[q], cancel, cancelled')
    BY <1>1, <2>1 DEF SessionInv, Stops
  <2>2. ASSUME NEW q \in Stoppable PROVE Stops(turn[q], cancel, cancelled')
    <3>1. q \in Prompts /\ Watches(turn[q], cancel)
      BY DEF Stoppable, SessionInv
    <3> QED
      BY <1>1, <2>2, <3>1 DEF Stoppable, Stops, Watches, Starting, Asking, Serving
  <2> QED
    BY <1>1, <2>1, <2>2
<1>7. Paired'
  BY <1>1 DEF SessionInv, Paired, NoPanic
<1> QED
  BY <1>1, <1>3, <1>4, <1>5, <1>6, <1>7 DEF SessionInv

LEMMA StepReload ==
    ASSUME SessionInv, Reload
    PROVE  SessionInv'
<1>1. /\ ~turnActive /\ reloads < MaxReloads /\ reloads' = reloads + 1
      /\ cancel' = cancel + 1 /\ history' = <<>>
      /\ UNCHANGED <<live, disposed, turnActive, abortPending, cancelled, gates, turn, hit>>
  BY DEF Reload
<1>2. \A q \in Prompts : turn[q].pc \in {"none", "sent", "ended"}
  BY <1>1 DEF SessionInv, OneTurnAtATime, Running
<1>3. history' \in Seq(Message) /\ Len(history') = 0 /\ Len(history') <= MaxHistory
  BY <1>1, SessionAssumption
<1>4. SessionTypeOK'
  BY <1>1, <1>3, SessionAssumption DEF SessionInv, SessionTypeOK
<1>5. OneTurnAtATime' /\ NoStrayGate'
  BY <1>1 DEF SessionInv, OneTurnAtATime, NoStrayGate, Running
<1>6. \A q \in Prompts : Watches(turn[q], cancel)'
  BY <1>1, <1>2 DEF SessionInv, Watches, Starting, Asking, Serving
<1>7. \A q \in hit' : Stops(turn[q], cancel, cancelled)'
  BY <1>1, <1>2 DEF SessionInv, SessionTypeOK, Stops, Starting, Asking, Serving
<1>8. Paired'
  <2>1. Shape(history', 0)
    BY <1>3 DEF Shape
  <2>2. \A q \in Prompts : turn'[q].pc \notin Serving
    BY <1>1, <1>2 DEF Serving
  <2> QED
    BY <2>1, <2>2 DEF Paired
<1> QED
  BY <1>3, <1>4, <1>5, <1>6, <1>7, <1>8 DEF SessionInv

LEMMA StepResolveGate ==
    ASSUME SessionInv, NEW p \in Prompts, ResolveGate(p)
    PROVE  SessionInv'
<1>1. /\ gates' = gates \ {p}
      /\ UNCHANGED <<live, disposed, turnActive, abortPending, cancel, cancelled,
                     reloads, hit, history, turn>>
  BY DEF ResolveGate, control
<1> QED
  BY <1>1 DEF SessionInv, SessionTypeOK, OneTurnAtATime, NoStrayGate, Running, Paired, NoPanic

-----------------------------------------------------------------------------
(* The theorems.                                                           *)

LEMMA SessionInvKept ==
    SessionInv /\ [SessionNext]_sessionVars => SessionInv'
<1> SUFFICES ASSUME SessionInv, [SessionNext]_sessionVars PROVE SessionInv'
  OBVIOUS
<1>1. ASSUME NEW p \in Prompts, SendPrompt(p) PROVE SessionInv'
  BY <1>1, StepSendPrompt
<1>2. ASSUME NEW p \in Prompts, TurnStep(p) PROVE SessionInv'
  BY <1>2, StepRefuse, StepBegin, StepAppendPrompt, StepRecall, StepResolveModel, StepStream,
     StepCommit, StepTools, StepAtGate, StepFinishTurn, StepLeave DEF TurnStep
<1>3. ASSUME NEW p \in Prompts, StreamEnds(p) \/ Panic(p) \/ OpenGate(p) \/ ResolveGate(p)
      PROVE SessionInv'
  BY <1>3, StepStream, StepPanic, StepAtGate, StepResolveGate
<1>4. CASE Abort \/ Dispose
  BY <1>4, StepCancel
<1>5. CASE Reload
  BY <1>5, StepReload
<1>6. CASE UNCHANGED sessionVars
  BY <1>6 DEF sessionVars, SessionInv, SessionTypeOK, OneTurnAtATime, NoStrayGate, Running,
              Paired, NoPanic
<1> QED
  BY <1>1, <1>2, <1>3, <1>4, <1>5, <1>6 DEF SessionNext

(* The inductive invariant of the session holds in every reachable state.  *)
THEOREM SessionSafety == SessionSpec => []SessionInv
<1>1. SessionInit => SessionInv
  BY SessionInvInit
<1>2. SessionInv /\ [SessionNext]_sessionVars => SessionInv'
  BY SessionInvKept
<1> QED
  BY <1>1, <1>2, PTL DEF SessionSpec

(* Every variable of the session keeps its type and the history its bound, *)
(* for any prompts, budgets and history limit.                             *)
THEOREM SessionTypes == SessionSpec => [](SessionTypeOK /\ Len(history) <= MaxHistory)
<1>1. SessionInv => SessionTypeOK /\ Len(history) <= MaxHistory
  BY DEF SessionInv
<1> QED
  BY <1>1, SessionSafety, PTL

(* At most one turn of the session runs, turn_active says exactly that,    *)
(* and a gate that can be resolved has a turn waiting at it.               *)
THEOREM SessionOneTurn == SessionSpec => [](OneTurnAtATime /\ NoStrayGate)
<1>1. SessionInv => OneTurnAtATime /\ NoStrayGate
  BY DEF SessionInv
<1> QED
  BY <1>1, SessionSafety, PTL

(* An abort or a disposal that finds a turn short of its last answer stops *)
(* it: the turn never completes and never reaches its round cap, wherever  *)
(* between admission and its last tool the abort arrives.                  *)
THEOREM SessionHeedsAbort == SessionSpec => []AbortIsHeeded
<1>1. SessionInv => AbortIsHeeded
  BY DEF SessionInv, AbortIsHeeded, Stops
<1> QED
  BY <1>1, SessionSafety, PTL

(* The history is always one a provider accepts, at whatever message it is *)
(* pruned, as long as no turn has panicked.                                *)
THEOREM SessionHistory == SessionSpec => []HistoryStaysValid
<1>1. SessionInv => HistoryStaysValid
  <2> SUFFICES ASSUME SessionInv, NoPanic, NEW i \in 1..Len(history)
               PROVE  LET k == history[i].calls
                          answer(j) == j <= Len(history) /\ history[j].role = "tool"
                      IN /\ i = 1 => ~answer(i)
                         /\ ~answer(i) => ~answer(i + k + 1)
                         /\ \A j \in 1..k :
                               \/ answer(i + j)
                               \/ /\ i + j > Len(history)
                                  /\ \E p \in Prompts : turn[p].pc \in Serving
    BY DEF HistoryStaysValid, NoPanic, Serving
  <2>1. /\ history \in Seq(Message) /\ Len(history) \in Nat
        /\ \A p \in Prompts : turn[p].left \in Nat
    BY SessionAssumption DEF SessionInv, SessionTypeOK, Turn
  <2>2. PICK open \in Nat :
           Shape(history, open) /\ (open > 0 => \E p \in Prompts : turn[p].pc \in Serving)
    <3>1. CASE \A p \in Prompts : turn[p].pc \notin Serving
      <4>1. Shape(history, 0) /\ ~(0 > 0) /\ 0 \in Nat
        BY <3>1 DEF SessionInv, Paired
      <4> QED
        BY <4>1
    <3>2. CASE \E p \in Prompts : turn[p].pc \in Serving
      <4>1. PICK p \in Prompts : turn[p].pc \in Serving
        BY <3>2
      <4>2. Shape(history, turn[p].left) /\ turn[p].left \in Nat
        BY <2>1, <4>1 DEF SessionInv, Paired
      <4> QED
        BY <4>1, <4>2
    <3> QED
      BY <3>1, <3>2
  <2>3. PICK k \in Nat : history[i].calls = k
    BY <2>1, CallsIn
  <2>4. i = 1 => history[i].role # "tool"
    BY <2>1, <2>2 DEF Shape
  <2>5. CASE history[i].role = "tool"
    <3>1. k = 0
      BY <2>2, <2>3, <2>5 DEF Shape
    <3> QED
      BY <2>1, <2>3, <2>4, <2>5, <3>1
  <2>6. CASE history[i].role # "tool"
    <3>1. /\ \A j \in 1..Len(history) : i < j /\ j <= i + k => history[j].role = "tool"
          /\ \A j \in 1..Len(history) : j = i + k + 1 => history[j].role # "tool"
          /\ i + k <= Len(history) \/ i + k = Len(history) + open
      BY <2>2, <2>3, <2>6 DEF Shape
    <3>2. ~(i + k + 1 <= Len(history) /\ history[i + k + 1].role = "tool")
      <4>1. i + k + 1 <= Len(history) => i + k + 1 \in 1..Len(history)
        BY <2>1
      <4> QED
        BY <3>1, <4>1
    <3>3. ASSUME NEW j \in 1..k
          PROVE  \/ i + j <= Len(history) /\ history[i + j].role = "tool"
                 \/ i + j > Len(history) /\ \E p \in Prompts : turn[p].pc \in Serving
      <4>1. CASE i + j <= Len(history)
        <5>1. i + j \in 1..Len(history) /\ i < i + j /\ i + j <= i + k
          BY <2>1, <4>1
        <5> QED
          BY <3>1, <4>1, <5>1
      <4>2. CASE i + j > Len(history)
        <5>1. open > 0
          BY <2>1, <3>1, <4>2
        <5> QED
          BY <2>2, <4>2, <5>1
      <4> QED
        BY <2>1, <4>1, <4>2
    <3> QED
      BY <2>3, <2>4, <3>2, <3>3
  <2> QED
    BY <2>5, <2>6
<1> QED
  BY <1>1, SessionSafety, PTL

-----------------------------------------------------------------------------
(* THE HEALTH OF PROVIDERS                                                 *)

(* Who has seen his provider degraded has a backup to go to.               *)
HasBackup == \A c \in Callers : caller[c].pc = "degraded" => Backup(c) \in Providers

HealthInv == HealthTypeOK /\ HealthCoherent /\ RoutesArePaired /\ HasBackup

HealthRecord == [status   : {"healthy", "degraded"},
                 failures : 0..MaxFailures,
                 age      : 0..Cooldown \cup {Never}]

CallerRecord == [pc    : {"ready", "degraded", "calling", "success", "worthy", "other"},
                 route : Providers]

LEMMA HealthInitSafe == HealthInit => HealthInv
  BY HealthAssumption
     DEF HealthInit, HealthInv, HealthTypeOK, HealthCoherent, RoutesArePaired, HasBackup,
         Primary, Callers

(* A step that only moves callers, to a state and a route they may be at.  *)
LEMMA CallerMoves ==
    ASSUME HealthInv, NEW c \in Callers, NEW e \in CallerRecord,
           caller' = [caller EXCEPT ![c] = e],
           UNCHANGED <<health, announced, up>>,
           e.route \in {Primary(c), Backup(c)},
           e.pc = "degraded" => Backup(c) \in Providers
    PROVE  HealthInv'
<1>1. HealthTypeOK'
  BY DEF HealthInv, HealthTypeOK, CallerRecord
<1>2. HealthCoherent'
  BY DEF HealthInv, HealthCoherent
<1>3. caller'[c] = e /\ \A d \in Callers \ {c} : caller'[d] = caller[d]
  BY DEF HealthInv, HealthTypeOK
<1>4. RoutesArePaired' /\ HasBackup'
  BY <1>3 DEF HealthInv, RoutesArePaired, HasBackup, Primary, Backup
<1> QED
  BY <1>1, <1>2, <1>4 DEF HealthInv

(* A step that writes the record of one provider and what was announced of *)
(* it, and moves the caller without changing his route.                    *)
LEMMA RecordWritten ==
    ASSUME HealthInv, NEW c \in Callers, NEW p \in Providers, NEW h \in HealthRecord,
           NEW pc \in {"ready", "calling"},
           health' = [health EXCEPT ![p] = h],
           announced' = [announced EXCEPT ![p] = h.status],
           caller' = [caller EXCEPT ![c].pc = pc],
           UNCHANGED up,
           h.status = "degraded" <=> h.failures >= Threshold,
           h.status = "degraded" <=> h.age # Never
    PROVE  HealthInv'
<1>1. HealthTypeOK'
  BY DEF HealthInv, HealthTypeOK, HealthRecord
<1>2. HealthCoherent'
  BY DEF HealthInv, HealthTypeOK, HealthCoherent
<1>3. /\ caller'[c].pc # "degraded" /\ caller'[c].route = caller[c].route
      /\ \A d \in Callers \ {c} : caller'[d] = caller[d]
  BY DEF HealthInv, HealthTypeOK
<1>4. RoutesArePaired' /\ HasBackup'
  BY <1>3 DEF HealthInv, RoutesArePaired, HasBackup, Primary, Backup
<1> QED
  BY <1>1, <1>2, <1>4 DEF HealthInv

LEMMA CallerStepSafe ==
    ASSUME HealthInv, NEW c \in Callers, CallerStep(c) \/ CallEnds(c)
    PROVE  HealthInv'
<1>0. /\ HealthTypeOK /\ HealthCoherent /\ RoutesArePaired /\ HasBackup
      /\ caller[c] \in CallerRecord /\ Primary(c) \in Providers
      /\ Backup(c) \in Providers \cup {NoProvider}
      /\ caller[c].route \in Providers
      /\ health[caller[c].route] \in HealthRecord
  BY HealthAssumption DEF HealthInv, HealthTypeOK, CallerRecord, HealthRecord, Primary, Backup
<1>a. ASSUME NEW pc \in {"ready", "degraded", "calling", "success", "worthy", "other"},
             caller' = [caller EXCEPT ![c].pc = pc], UNCHANGED <<health, announced, up>>,
             pc = "degraded" => Backup(c) \in Providers
      PROVE  HealthInv'
  <2>1. [caller[c] EXCEPT !.pc = pc] \in CallerRecord
    BY <1>0 DEF CallerRecord
  <2>2. caller' = [caller EXCEPT ![c] = [caller[c] EXCEPT !.pc = pc]]
    BY <1>a
  <2>3. /\ [caller[c] EXCEPT !.pc = pc].route \in {Primary(c), Backup(c)}
        /\ [caller[c] EXCEPT !.pc = pc].pc = pc
    BY <1>0 DEF RoutesArePaired, CallerRecord
  <2> QED
    BY <1>a, <2>1, <2>2, <2>3, CallerMoves
<1>b. ASSUME NEW p \in Providers, CallVia(c, p), UNCHANGED <<health, announced, up>>,
             p \in {Primary(c), Backup(c)}
      PROVE  HealthInv'
  <2>1. [pc |-> "calling", route |-> p] \in CallerRecord
    BY DEF CallerRecord
  <2> QED
    BY <1>b, <2>1, CallerMoves DEF CallVia
<1>1. CASE ReadStatus(c)
  BY <1>0, <1>1, <1>a, <1>b DEF ReadStatus
<1>2. CASE ReadCooldown(c)
  <2>1. Backup(c) \in Providers
    BY <1>0, <1>2 DEF ReadCooldown, HasBackup
  <2> QED
    BY <1>0, <1>2, <1>b, <2>1 DEF ReadCooldown
<1>3. CASE RecordSuccess(c)
  <2> DEFINE h == [status |-> "healthy", failures |-> 0, age |-> Never]
  <2>1. h \in HealthRecord
    BY HealthAssumption DEF HealthRecord
  <2>2. PICK pc \in AfterSuccess(c) : caller' = [caller EXCEPT ![c].pc = pc]
    BY <1>3 DEF RecordSuccess
  <2>3. pc \in {"ready", "calling"}
    BY DEF AfterSuccess
  <2>4. ~(h.failures >= Threshold) /\ h.status = "healthy" /\ h.age = Never
    BY HealthAssumption
  <2> QED
    BY <1>0, <1>3, <2>1, <2>2, <2>3, <2>4, RecordWritten DEF RecordSuccess
<1>4. CASE RecordFailure(c)
  <2> DEFINE p == caller[c].route
             h == health[p]
             n == IF h.failures < MaxFailures THEN h.failures + 1 ELSE MaxFailures
             degrades == h.status = "degraded" \/ n >= Threshold
             new == [status |-> IF degrades THEN "degraded" ELSE h.status,
                     failures |-> n,
                     age |-> IF degrades THEN 0 ELSE h.age]
  <2>1. /\ h.status = "degraded" <=> h.failures >= Threshold
        /\ h.status = "degraded" <=> h.age # Never
        /\ announced[p] = h.status
        /\ h.status \in {"healthy", "degraded"} /\ h.failures \in 0..MaxFailures
        /\ h.age \in 0..Cooldown \cup {Never}
    BY <1>0 DEF HealthCoherent, HealthRecord
  <2>2. n \in 0..MaxFailures /\ n >= h.failures
    BY <2>1, HealthAssumption
  <2>3. degrades <=> n >= Threshold
    BY <2>1, <2>2, HealthAssumption
  <2>4. new \in HealthRecord
    BY <2>1, <2>2, HealthAssumption DEF HealthRecord
  <2>5. new.status = "degraded" <=> degrades
    BY <2>1
  <2>6. new.age # Never <=> degrades
    BY <2>1, HealthAssumption
  <2>7. new.failures = n
    OBVIOUS
  <2>8. announced' = [announced EXCEPT ![p] = new.status]
    <3>1. CASE degrades /\ h.status = "healthy"
      BY <1>4, <3>1 DEF RecordFailure
    <3>2. CASE ~(degrades /\ h.status = "healthy")
      <4>1. new.status = announced[p]
        BY <2>1, <3>2
      <4>2. announced' = announced
        BY <1>4, <3>2 DEF RecordFailure
      <4> QED
        BY <1>0, <4>1, <4>2 DEF HealthTypeOK
    <3> QED
      BY <3>1, <3>2
  <2>9. health' = [health EXCEPT ![p] = new] /\ caller' = [caller EXCEPT ![c].pc = "ready"] /\ UNCHANGED up
    BY <1>4 DEF RecordFailure
  <2> HIDE DEF new, degrades, n, h
  <2> QED
    BY <1>0, <2>3, <2>4, <2>5, <2>6, <2>7, <2>8, <2>9, RecordWritten
<1>5. CASE RecordOther(c)
  BY <1>5, <1>a DEF RecordOther
<1>6. CASE CallEnds(c)
  BY <1>6, <1>a DEF CallEnds, Succeed, FailWorthy, FailOther, GiveUp, Ends
<1> QED
  BY <1>1, <1>2, <1>3, <1>4, <1>5, <1>6 DEF CallerStep

LEMMA TickSafe ==
    ASSUME HealthInv, Tick
    PROVE  HealthInv'
<1>0. HealthTypeOK /\ HealthCoherent /\ Cooldown \in Nat /\ Never \notin Nat
  BY HealthAssumption DEF HealthInv
<1>1. ASSUME NEW p \in Providers
      PROVE  /\ health'[p] \in HealthRecord
             /\ health'[p].status = health[p].status /\ health'[p].failures = health[p].failures
             /\ health'[p].age # Never <=> health[p].age # Never
  <2>1. health[p] \in HealthRecord
    BY <1>0 DEF HealthTypeOK, HealthRecord
  <2>2. CASE health[p].age \in 0..(Cooldown - 1)
    <3>1. health'[p] = [health[p] EXCEPT !.age = @ + 1]
      BY <2>2 DEF Tick
    <3>2. health[p].age + 1 \in 0..Cooldown
      BY <1>0, <2>2
    <3>3. [health[p] EXCEPT !.age = @ + 1] \in HealthRecord
      BY <2>1, <3>2 DEF HealthRecord
    <3>4. health[p].age # Never /\ health[p].age + 1 # Never
      BY <1>0, <2>2
    <3> QED
      BY <2>1, <3>1, <3>3, <3>4 DEF HealthRecord
  <2>3. CASE health[p].age \notin 0..(Cooldown - 1)
    BY <2>1, <2>3 DEF Tick
  <2> QED
    BY <2>2, <2>3
<1>2. health' \in [Providers -> HealthRecord] /\ UNCHANGED <<announced, up, caller>>
  BY <1>1 DEF Tick
<1>3. HealthTypeOK'
  BY <1>0, <1>2 DEF HealthTypeOK, HealthRecord
<1>4. HealthCoherent'
  BY <1>0, <1>1, <1>2 DEF HealthCoherent
<1> QED
  BY <1>2, <1>3, <1>4 DEF HealthInv, RoutesArePaired, HasBackup, Primary, Backup

LEMMA HealthStepSafe == HealthInv /\ [HealthNext]_healthVars => HealthInv'
<1> SUFFICES ASSUME HealthInv, [HealthNext]_healthVars PROVE HealthInv'
  OBVIOUS
<1>1. ASSUME NEW c \in Callers, CallerStep(c) \/ CallEnds(c) PROVE HealthInv'
  BY <1>1, CallerStepSafe
<1>2. CASE Tick
  BY <1>2, TickSafe
<1>3. ASSUME NEW p \in Providers, GoesDown(p) \/ ComesBack(p) PROVE HealthInv'
  BY <1>3 DEF GoesDown, ComesBack, HealthInv, HealthTypeOK, HealthCoherent, RoutesArePaired,
              HasBackup, Primary, Backup
<1>4. CASE UNCHANGED healthVars
  BY <1>4 DEF healthVars, HealthInv, HealthTypeOK, HealthCoherent, RoutesArePaired,
              HasBackup, Primary, Backup
<1> QED
  BY <1>1, <1>2, <1>3, <1>4 DEF HealthNext

-----------------------------------------------------------------------------
(* The invariant holds in every reachable state.                           *)
THEOREM HealthSafety == HealthSpec => []HealthInv
  BY HealthInitSafe, HealthStepSafe, PTL DEF HealthSpec

(* Records and callers keep to their types.                                *)
THEOREM HealthTypes == HealthSpec => []HealthTypeOK
  BY HealthSafety, PTL DEF HealthInv

(* A provider is degraded exactly when enough of its calls in a row failed,*)
(* and the user interface was told so, in whatever order the outcomes of   *)
(* overlapping calls are recorded (record_success, record_failure).        *)
THEOREM HealthIsCoherent == HealthSpec => []HealthCoherent
  BY HealthSafety, PTL DEF HealthInv

(* A call goes to the configured provider or to its backup, never further  *)
(* (resolve_effective_model).                                              *)
THEOREM HealthRoutesArePaired == HealthSpec => []RoutesArePaired
  BY HealthSafety, PTL DEF HealthInv
=============================================================================
