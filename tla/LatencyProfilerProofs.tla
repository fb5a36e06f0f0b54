------------------------- MODULE LatencyProfilerProofs -------------------------
(***************************************************************************)
(* The ring of the profiler implements the window of the newest samples,   *)
(* for every capacity, and the statistics of any window it can hold are    *)
(* their definitions.                                                      *)
(***************************************************************************)
EXTENDS LatencyProfiler, FiniteSetTheorems, SequenceTheorems, NaturalsInduction,
        WellFoundedInduction, TLAPS

LEMMA NextHead ==
  ASSUME NEW h \in Cells
  PROVE  (h + 1) % Capacity = IF h = Capacity - 1 THEN 0 ELSE h + 1
<1>1. CASE h = Capacity - 1
  BY <1>1, ProfilerAssumption DEF Cells
<1>2. CASE h # Capacity - 1
  BY <1>2, ProfilerAssumption DEF Cells
<1> QED
  BY <1>1, <1>2

LEMMA InitRing == Init => RingInv
BY ProfilerAssumption DEF Init, RingInv, TypeOK, Cells

LEMMA NextRing ==
  ASSUME RingInv, [Next]_vars
  PROVE  RingInv'
<1>0. /\ Capacity \in Nat /\ Capacity >= 2 /\ MaxPushes \in Nat
      /\ samples \in [Cells -> Samples \cup {NoSample}]
      /\ head \in Cells /\ head \in Int /\ size \in 0..Capacity
      /\ total_pushed \in Int /\ pushes \in 0..MaxPushes
      /\ size <= total_pushed /\ total_pushed <= pushes
      /\ size < Capacity => head = size
  BY ProfilerAssumption DEF RingInv, TypeOK, Cells
<1>1. CASE Reset
  BY <1>0, <1>1 DEF Reset, RingInv, TypeOK, Cells
<1>2. ASSUME NEW s \in Samples, Push(s)
      PROVE  RingInv'
  <2>1. head' = IF head = Capacity - 1 THEN 0 ELSE head + 1
    BY <1>0, <1>2, NextHead DEF Push
  <2>2. samples' \in [Cells -> Samples \cup {NoSample}]
    BY <1>0, <1>2 DEF Push
  <2>3. /\ size' = IF size < Capacity THEN size + 1 ELSE size
        /\ total_pushed' = total_pushed + 1 /\ pushes' = pushes + 1
        /\ pushes < MaxPushes
    BY <1>2 DEF Push
  <2>4. head' \in Cells
    BY <1>0, <2>1 DEF Cells
  <2>5. size' < Capacity => head' = size'
    BY <1>0, <2>1, <2>3
  <2>6. /\ size' \in 0..Capacity /\ pushes' \in 0..MaxPushes
        /\ total_pushed' \in size'..pushes'
    BY <1>0, <2>3
  <2> QED
    BY <2>2, <2>4, <2>5, <2>6 DEF RingInv, TypeOK
<1>3. CASE UNCHANGED vars
  BY <1>0, <1>3 DEF vars, RingInv, TypeOK
<1> QED
  BY <1>1, <1>2, <1>3 DEF Next

(***************************************************************************)
(* The variables keep their types, the head stays inside the ring, and     *)
(* until the ring is full it is where the window ends.                     *)
(***************************************************************************)
THEOREM RingInvariant == Spec => []RingInv
<1>1. RingInv /\ [Next]_vars => RingInv'
  BY NextRing
<1> QED
  BY <1>1, InitRing, PTL DEF Spec

(***************************************************************************)
(* Compute reads exactly the cells of the window.                          *)
(***************************************************************************)
LEMMA WindowCells == RingInv => ReadsTheWindow
<1> SUFFICES ASSUME RingInv
             PROVE  ReadsTheWindow
  OBVIOUS
<1>0. /\ Capacity \in Nat /\ head \in Int /\ size \in Nat /\ size <= Capacity
      /\ 0 <= head /\ head < Capacity
      /\ size < Capacity => head = size
  BY ProfilerAssumption DEF RingInv, TypeOK, Cells
<1>1. ASSUME NEW i \in 1..size
      PROVE  CellOf(i) \in LiveCells
  BY <1>0 DEF CellOf, LiveCells
<1>2. ASSUME NEW c \in LiveCells
      PROVE  \E i \in 1..size : CellOf(i) = c
  <2> DEFINE k == c - head + size + 1
             i == IF k > size THEN k - Capacity ELSE k
  <2>1. c \in Int /\ 0 <= c /\ c < size
    BY <1>0 DEF LiveCells
  <2>2. i \in 1..size
    BY <1>0, <2>1
  <2>3. CellOf(i) = c
    BY <1>0, <2>1, <2>2 DEF CellOf
  <2> QED
    BY <2>2, <2>3
<1> QED
  BY <1>1, <1>2 DEF ReadsTheWindow

THEOREM ComputeReadsTheWindow == Spec => []ReadsTheWindow
<1>1. RingInv /\ [Next]_vars => RingInv'
  BY NextRing
<1> QED
  BY <1>1, InitRing, WindowCells, PTL DEF Spec

-----------------------------------------------------------------------------
LEMMA AppendIs ==
  ASSUME NEW V, NEW q \in Seq(V), NEW x \in V, NEW n \in Nat, n = Len(q) + 1
  PROVE  Append(q, x) = [i \in 1..n |-> IF i <= n - 1 THEN q[i] ELSE x]
<1> DEFINE r == [i \in 1..n |-> IF i <= n - 1 THEN q[i] ELSE x]
<1>1. /\ Append(q, x) \in Seq(V) /\ Len(Append(q, x)) = n
      /\ \A i \in 1..(n - 1) : Append(q, x)[i] = q[i]
      /\ Append(q, x)[n] = x
  BY AppendProperties
<1>2. r \in Seq(V) /\ Len(r) = n
  <2>1. \A i \in 1..(n - 1) : q[i] \in V
    BY ElementOfSeq
  <2>2. r \in [1..n -> V]
    BY <2>1
  <2> QED
    BY <2>2
<1>3. \A i \in 1..n : Append(q, x)[i] = r[i]
  BY <1>1
<1> QED
  BY <1>1, <1>2, <1>3, SeqEqual

(***************************************************************************)
(* A push appends to the window and, once it is full, drops its oldest.    *)
(***************************************************************************)
LEMMA PushWindow ==
  ASSUME RingInv, NEW s \in Samples, Push(s)
  PROVE  Newest' = Window!Pushed(Newest, s)
<1> DEFINE Values == Samples \cup {NoSample}
<1>0. /\ Capacity \in Nat /\ Capacity >= 2 /\ head \in Int /\ size \in Nat
      /\ size <= Capacity /\ 0 <= head /\ head < Capacity
      /\ size < Capacity => head = size
      /\ samples \in [Cells -> Values]
  BY ProfilerAssumption DEF RingInv, TypeOK, Cells
<1>1. /\ head' = IF head = Capacity - 1 THEN 0 ELSE head + 1
      /\ size' = IF size < Capacity THEN size + 1 ELSE size
      /\ samples' = [samples EXCEPT ![head] = s]
      /\ head \in Cells
  BY NextHead DEF Push, RingInv, TypeOK
<1>2. \A i \in 1..size : CellOf(i) \in Cells
  BY <1>0 DEF CellOf, Cells
<1>3. /\ Newest \in Seq(Values) /\ Len(Newest) = size
      /\ \A i \in 1..size : Newest[i] = samples[CellOf(i)]
  BY <1>0, <1>2 DEF Newest
<1>4. Newest' = [i \in 1..size' |-> samples'[CellOf(i)']]
  BY DEF Newest
<1>5. CASE size < Capacity
  <2>1. \A i \in 1..size' : CellOf(i)' = i - 1
    BY <1>0, <1>1, <1>5 DEF CellOf
  <2>2. \A i \in 1..size : CellOf(i) = i - 1
    BY <1>0, <1>5 DEF CellOf
  <2>3. \A i \in 1..(size + 1) : (i - 1) \in Cells
    BY <1>0, <1>5 DEF Cells
  <2>4. Newest' = [i \in 1..(size + 1) |-> IF i <= size THEN Newest[i] ELSE s]
    <3>1. \A i \in 1..(size + 1) :
            samples'[i - 1] = IF i <= size THEN samples[i - 1] ELSE s
      BY <1>0, <1>1, <1>5, <2>3
    <3>2. size' = size + 1
      BY <1>1, <1>5
    <3>3. Newest' = [i \in 1..(size + 1) |-> samples'[i - 1]]
      BY <1>4, <2>1, <3>2
    <3>4. \A i \in 1..(size + 1) :
            samples'[i - 1] = IF i <= size THEN Newest[i] ELSE s
      BY <1>0, <1>3, <2>2, <3>1
    <3> QED
      BY <3>3, <3>4
  <2>5. Append(Newest, s) =
          [i \in 1..(size + 1) |-> IF i <= size THEN Newest[i] ELSE s]
    <3>1. Newest \in Seq(Values) /\ s \in Values /\ size + 1 \in Nat
          /\ size + 1 = Len(Newest) + 1 /\ (size + 1) - 1 = size
      BY <1>0, <1>3
    <3> QED
      BY <3>1, AppendIs
  <2> QED
    BY <1>3, <1>5, <2>4, <2>5 DEF Window!Pushed
<1>6. CASE size = Capacity
  <2>1. \A i \in 1..(size - 1) :
          CellOf(i)' = CellOf(i + 1) /\ CellOf(i + 1) # head
    BY <1>0, <1>1, <1>6 DEF CellOf
  <2>2. CellOf(size)' = head
    BY <1>0, <1>1, <1>6 DEF CellOf
  <2>3. Newest' = [i \in 1..size |-> IF i <= size - 1 THEN Newest[i + 1] ELSE s]
    <3>1. \A i \in 1..(size - 1) : samples'[CellOf(i)'] = Newest[i + 1]
      BY <1>0, <1>1, <1>2, <1>3, <2>1
    <3>2. samples'[CellOf(size)'] = s
      BY <1>0, <1>1, <2>2
    <3>3. \A i \in 1..size : i <= size - 1 \/ i = size
      BY <1>0
    <3>4. size' = size
      BY <1>0, <1>1, <1>6
    <3>5. Newest' = [i \in 1..size |-> samples'[CellOf(i)']]
      BY <1>4, <3>4
    <3>6. \A i \in 1..size :
            samples'[CellOf(i)'] = IF i <= size - 1 THEN Newest[i + 1] ELSE s
      <4> SUFFICES ASSUME NEW i \in 1..size
                   PROVE  samples'[CellOf(i)']
                            = IF i <= size - 1 THEN Newest[i + 1] ELSE s
        OBVIOUS
      <4>1. CASE i <= size - 1
        <5>1. i \in 1..(size - 1)
          BY <1>0, <4>1
        <5> QED
          BY <3>1, <4>1, <5>1
      <4>2. CASE i = size
        <5>1. ~(i <= size - 1)
          BY <1>0, <4>2
        <5> QED
          BY <3>2, <3>4, <4>2, <5>1
      <4> QED
        BY <3>3, <4>1, <4>2
    <3> QED
      BY <3>5, <3>6
  <2>4. Newest # <<>>
    BY <1>0, <1>3, <1>6
  <2>5. /\ Tail(Newest) \in Seq(Values) /\ Len(Tail(Newest)) = size - 1
        /\ \A i \in 1..(size - 1) : Tail(Newest)[i] = Newest[i + 1]
    BY <1>3, <2>4, HeadTailProperties
  <2>6. Append(Tail(Newest), s) =
          [i \in 1..size |-> IF i <= size - 1 THEN Newest[i + 1] ELSE s]
    <3> DEFINE T == Tail(Newest)
    <3> HIDE DEF T
    <3>1. T \in Seq(Values) /\ Len(T) = size - 1
      BY <2>5 DEF T
    <3>2. Append(T, s) = [i \in 1..size |-> IF i <= size - 1 THEN T[i] ELSE s]
      <4>1. s \in Values /\ size = Len(T) + 1
        BY <1>0, <3>1
      <4> HIDE DEF Values
      <4> QED
        BY <1>0, <3>1, <4>1, AppendIs
    <3>3. \A i \in 1..(size - 1) : T[i] = Newest[i + 1]
      BY <2>5 DEF T
    <3>4. \A i \in 1..size : (IF i <= size - 1 THEN T[i] ELSE s)
                              = IF i <= size - 1 THEN Newest[i + 1] ELSE s
      BY <1>0, <3>3
    <3>5. Append(T, s) = [i \in 1..size |-> IF i <= size - 1 THEN Newest[i + 1] ELSE s]
      BY <3>2, <3>4
    <3> QED
      BY <3>5 DEF T
  <2> QED
    BY <1>0, <1>3, <1>6, <2>3, <2>6 DEF Window!Pushed
<1> QED
  BY <1>0, <1>5, <1>6

LEMMA WindowStep ==
  ASSUME RingInv, [Next]_vars
  PROVE  [Window!Next]_Newest
<1>1. CASE Reset
  BY <1>1 DEF Reset, Newest, Window!Next, Window!Reset
<1>2. ASSUME NEW s \in Samples, Push(s)
      PROVE  Window!Push(s)
  BY <1>2, PushWindow DEF Window!Push
<1>3. CASE UNCHANGED vars
  BY <1>3 DEF vars, Newest, CellOf
<1> QED
  BY <1>1, <1>2, <1>3 DEF Next, Window!Next

(***************************************************************************)
(* The profiler implements the sample window.                              *)
(***************************************************************************)
THEOREM ProfilerImplementsWindow == Spec => WindowSpec
<1>1. Init => Window!Init
  BY DEF Init, Newest, Window!Init
<1>2. RingInv /\ [Next]_vars => RingInv'
  BY NextRing
<1>3. RingInv /\ [Next]_vars => [Window!Next]_Newest
  BY WindowStep
<1> QED
  BY <1>1, <1>2, <1>3, InitRing, PTL DEF Spec, WindowSpec, Window!Spec
-----------------------------------------------------------------------------
(***************************************************************************)
(* Sums over a finite set.  `MapThenSumSet` chooses a recursive function   *)
(* on the subsets of the set; that there is one is proved by induction on  *)
(* the size of the subsets, in the form of facts about sets of numbers and *)
(* of subsets, and what it sums to by induction on the subsets themselves. *)
(***************************************************************************)
Picked(s) == CHOOSE x \in s : TRUE

IsSum(sum, f, S) ==
  sum = [s \in SUBSET S |->
           IF s = {} THEN 0 ELSE f[Picked(s)] + sum[s \ {Picked(s)}]]

Partial(f, S) == CHOOSE sum : IsSum(sum, f, S)

LEMMA SumIsPartial == ASSUME NEW f, NEW S PROVE SumOver(f, S) = Partial(f, S)[S]
BY Zenon DEF SumOver, MapThenSumSet, MapThenFoldSet, Partial, IsSum, Picked

LEMMA LeastNatural ==
  ASSUME NEW S \in SUBSET Nat, S # {}
  PROVE  \E i \in S : \A j \in S : i <= j
<1>1. PICK i \in S : \A j \in S : ~(<<j, i>> \in OpToRel(<, Nat))
  BY NatLessThanWellFounded, WFMin
<1>2. \A j \in S : ~(j < i)
  BY <1>1 DEF OpToRel
<1> QED
  BY <1>2

LEMMA EveryNatural ==
  ASSUME NEW S \in SUBSET Nat, 0 \in S, \A n \in S : n + 1 \in S
  PROVE  \A n \in Nat : n \in S
<1> SUFFICES ASSUME Nat \ S # {} PROVE FALSE
  OBVIOUS
<1>1. PICK i \in Nat \ S : \A j \in Nat \ S : i <= j
  BY LeastNatural
<1>2. i # 0 /\ i - 1 \in Nat
  BY <1>1
<1>3. i - 1 \in S
  BY <1>1, <1>2
<1>4. (i - 1) + 1 \in S
  BY <1>3
<1> QED  BY <1>1, <1>4

(***************************************************************************)
(* A nonempty subset without the element picked from it.                   *)
(***************************************************************************)
LEMMA Fewer ==
  ASSUME NEW S, IsFiniteSet(S), NEW s \in SUBSET S, s # {}
  PROVE  /\ Picked(s) \in s /\ s \ {Picked(s)} \in SUBSET S
         /\ Cardinality(s) \in Nat \ {0}
         /\ Cardinality(s \ {Picked(s)}) = Cardinality(s) - 1
<1>1. Picked(s) \in s
  BY DEF Picked
<1>2. IsFiniteSet(s) /\ Cardinality(s) \in Nat
  BY FS_Subset, FS_CardinalityType
<1>3. Cardinality(s) # 0
  BY <1>2, FS_EmptySet
<1> QED  BY <1>1, <1>2, <1>3, FS_RemoveElement

(***************************************************************************)
(* Induction on the subsets: what holds of the empty set, and of a set     *)
(* when it does without the element picked, holds of every subset.         *)
(***************************************************************************)
LEMMA EverySubset ==
  ASSUME NEW S, IsFiniteSet(S), NEW P \in SUBSET SUBSET S, {} \in P,
         \A s \in SUBSET S : s # {} /\ s \ {Picked(s)} \in P => s \in P
  PROVE  P = SUBSET S
<1> DEFINE Sized == {n \in Nat : \A s \in SUBSET S : Cardinality(s) = n => s \in P}
<1>1. \A s \in SUBSET S : Cardinality(s) \in Nat /\ (Cardinality(s) = 0 <=> s = {})
  BY FS_Subset, FS_CardinalityType, FS_EmptySet
<1>2. 0 \in Sized
  <2>1. \A s \in SUBSET S : Cardinality(s) = 0 => s \in P
    BY <1>1, Zenon
  <2> QED  BY <2>1
<1>3. ASSUME NEW n \in Sized PROVE n + 1 \in Sized
  <2>1. ASSUME NEW s \in SUBSET S, Cardinality(s) = n + 1 PROVE s \in P
    <3>1. s # {}
      BY <1>1, <2>1
    <3>2. s \ {Picked(s)} \in P
      BY <2>1, <3>1, Fewer
    <3> QED  BY <3>1, <3>2
  <2> QED  BY <2>1
<1>4. \A n \in Nat : n \in Sized
  BY <1>2, <1>3, EveryNatural
<1> QED  BY <1>1, <1>4

Small(n, S) == {s \in SUBSET S : Cardinality(s) <= n}

(***************************************************************************)
(* The recursive function exists, built size by size.                      *)
(***************************************************************************)
LEMMA PartialSums ==
  ASSUME NEW S, IsFiniteSet(S), NEW f, \A t \in S : f[t] \in Int
  PROVE  /\ Partial(f, S) \in [SUBSET S -> Int]
         /\ Partial(f, S)[{}] = 0
         /\ \A s \in SUBSET S : s # {} =>
              Partial(f, S)[s] = f[Picked(s)] + Partial(f, S)[s \ {Picked(s)}]
<1> DEFINE UpTo(n, sum) ==
             /\ sum \in [Small(n, S) -> Int]
             /\ \A s \in Small(n, S) :
                  sum[s] = IF s = {} THEN 0 ELSE f[Picked(s)] + sum[s \ {Picked(s)}]
           Built == {n \in Nat : \E sum : UpTo(n, sum)}
<1>1. \A s \in SUBSET S : Cardinality(s) \in Nat /\ (Cardinality(s) = 0 <=> s = {})
  BY FS_Subset, FS_CardinalityType, FS_EmptySet
<1>2. 0 \in Built
  <2>1. \A s \in Small(0, S) : s = {}
    BY <1>1 DEF Small
  <2>2. UpTo(0, [s \in Small(0, S) |-> 0])
    BY <2>1
  <2> QED  BY <2>2
<1>3. ASSUME NEW n \in Built
      PROVE  n + 1 \in Built
  <2>1. PICK sum : UpTo(n, sum)
    BY <1>3
  <2> DEFINE next == [s \in Small(n + 1, S) |->
                        IF s = {} THEN 0 ELSE f[Picked(s)] + sum[s \ {Picked(s)}]]
  <2>2. ASSUME NEW s \in Small(n + 1, S), s # {}
        PROVE  /\ Picked(s) \in S /\ s \ {Picked(s)} \in Small(n, S)
               /\ s \ {Picked(s)} \in Small(n + 1, S)
    BY <2>2, Fewer DEF Small
  <2>3. \A s \in Small(n, S) : next[s] = sum[s]
    <3>1. \A s \in Small(n, S) : s \in Small(n + 1, S)
      BY <1>1 DEF Small
    <3> QED  BY <2>1, <3>1
  <2>4. next \in [Small(n + 1, S) -> Int]
    BY <2>1, <2>2
  <2>5. \A s \in Small(n + 1, S) :
          next[s] = IF s = {} THEN 0 ELSE f[Picked(s)] + next[s \ {Picked(s)}]
    BY <2>2, <2>3
  <2> HIDE DEF next
  <2>6. UpTo(n + 1, next)
    BY <2>4, <2>5
  <2> HIDE DEF UpTo
  <2> QED  BY <2>6
<1>4. Cardinality(S) \in Nat /\ \A n \in Nat : n \in Built
  BY <1>1, <1>2, <1>3, EveryNatural
<1>5. PICK sum : UpTo(Cardinality(S), sum)
  BY <1>4
<1>6. Small(Cardinality(S), S) = SUBSET S
  BY FS_Subset DEF Small
<1>7. IsSum(sum, f, S)
  BY <1>5, <1>6 DEF IsSum
<1>8. IsSum(Partial(f, S), f, S)
  BY <1>7 DEF Partial
<1> DEFINE it == Partial(f, S)
<1>9. it = [s \in SUBSET S |-> IF s = {} THEN 0 ELSE f[Picked(s)] + it[s \ {Picked(s)}]]
  BY <1>8 DEF IsSum
<1> HIDE DEF it
<1>10. it[{}] = 0 /\ \A s \in SUBSET S : s # {} => it[s] = f[Picked(s)] + it[s \ {Picked(s)}]
  BY <1>9
<1> DEFINE P == {s \in SUBSET S : it[s] \in Int}
<1>11. ASSUME NEW s \in SUBSET S, s # {}, s \ {Picked(s)} \in P PROVE s \in P
  <2>1. f[Picked(s)] \in Int
    BY <1>11, Fewer
  <2>2. it[s] = f[Picked(s)] + it[s \ {Picked(s)}]
    BY <1>10, <1>11
  <2> QED  BY <1>11, <2>1, <2>2
<1>12. P = SUBSET S
  <2>1. {} \in P
    BY <1>10
  <2> HIDE DEF P
  <2>2. P \in SUBSET SUBSET S
    BY DEF P
  <2> QED  BY <1>11, <2>1, <2>2, EverySubset
<1>13. it \in [SUBSET S -> Int]
  BY <1>9, <1>12
<1> QED  BY <1>10, <1>13 DEF it

(***************************************************************************)
(* The recursive function on the subsets of a larger set sums the same.    *)
(***************************************************************************)
LEMMA SumOfSubset ==
  ASSUME NEW S, IsFiniteSet(S), NEW f, \A t \in S : f[t] \in Int, NEW T \in SUBSET S
  PROVE  SumOver(f, T) = Partial(f, S)[T]
<1> DEFINE a == Partial(f, S)
           b == Partial(f, T)
           P == {s \in SUBSET T : a[s] = b[s]}
<1>0. IsFiniteSet(T) /\ \A t \in T : f[t] \in Int
  BY FS_Subset
<1>1. /\ a[{}] = 0
      /\ \A s \in SUBSET S : s # {} => a[s] = f[Picked(s)] + a[s \ {Picked(s)}]
  BY PartialSums
<1>2. /\ b[{}] = 0
      /\ \A s \in SUBSET T : s # {} => b[s] = f[Picked(s)] + b[s \ {Picked(s)}]
  BY <1>0, PartialSums
<1> HIDE DEF a, b
<1>3. {} \in P
  BY <1>1, <1>2
<1>4. ASSUME NEW s \in SUBSET T, s # {}, s \ {Picked(s)} \in P PROVE s \in P
  BY <1>1, <1>2, <1>4
<1>5. P \in SUBSET SUBSET T
  OBVIOUS
<1> HIDE DEF P
<1>6. P = SUBSET T
  BY <1>0, <1>3, <1>4, <1>5, EverySubset
<1> QED  BY <1>6, SumIsPartial DEF P, a, b

(***************************************************************************)
(* What the proofs need to know of a sum: it is an integer, of nothing it  *)
(* is zero, and an element more adds its summand.                          *)
(***************************************************************************)
LEMMA SumIsInteger ==
  ASSUME NEW S, IsFiniteSet(S), NEW f, \A t \in S : f[t] \in Int
  PROVE  SumOver(f, S) \in Int
<1>1. Partial(f, S) \in [SUBSET S -> Int]
  BY PartialSums
<1> QED  BY <1>1, SumIsPartial

LEMMA SumOfNothing == ASSUME NEW f PROVE SumOver(f, {}) = 0
<1>1. IsFiniteSet({}) /\ \A t \in {} : f[t] \in Int
  BY FS_EmptySet
<1> QED  BY <1>1, PartialSums, SumIsPartial

LEMMA SumPicks ==
  ASSUME NEW S, IsFiniteSet(S), NEW f, \A t \in S : f[t] \in Int, S # {}
  PROVE  SumOver(f, S) = f[Picked(S)] + SumOver(f, S \ {Picked(S)})
<1>1. S \ {Picked(S)} \in SUBSET S /\ S \in SUBSET S
  OBVIOUS
<1>2. \A s \in SUBSET S : s # {} =>
        Partial(f, S)[s] = f[Picked(s)] + Partial(f, S)[s \ {Picked(s)}]
  BY PartialSums
<1>3. Partial(f, S)[S] = f[Picked(S)] + Partial(f, S)[S \ {Picked(S)}]
  BY <1>1, <1>2
<1> QED  BY <1>1, <1>3, SumOfSubset

LEMMA SumAdds ==
  ASSUME NEW S, IsFiniteSet(S), NEW f, NEW x, x \notin S, \A t \in S \cup {x} : f[t] \in Int
  PROVE  SumOver(f, S \cup {x}) = SumOver(f, S) + f[x]
<1> DEFINE U == S \cup {x}
           Without(s) == \A y \in s : SumOver(f, s) = SumOver(f, s \ {y}) + f[y]
           Sized == {n \in Nat : \A s \in SUBSET U : Cardinality(s) = n => Without(s)}
<1>1. IsFiniteSet(U) /\ \A s \in SUBSET U : IsFiniteSet(s) /\ Cardinality(s) \in Nat
                                           /\ (Cardinality(s) = 0 <=> s = {})
  BY FS_AddElement, FS_Subset, FS_CardinalityType, FS_EmptySet
<1> HIDE DEF U
<1>2. 0 \in Sized
  <2>1. \A s \in SUBSET U : Cardinality(s) = 0 => s = {}
    BY <1>1
  <2> QED  BY <2>1
<1>3. ASSUME NEW n \in Sized PROVE n + 1 \in Sized
  <2>1. ASSUME NEW s \in SUBSET U, Cardinality(s) = n + 1, NEW y \in s
        PROVE  SumOver(f, s) = SumOver(f, s \ {y}) + f[y]
    <3> DEFINE z == Picked(s)
    <3>1. z \in s /\ s # {}
      BY DEF Picked
    <3>0. IsFiniteSet(s) /\ n \in Nat
      BY <1>1, <1>3, <2>1
    <3> HIDE DEF z
    <3>2. /\ s \ {z} \in SUBSET U /\ s \ {y} \in SUBSET U /\ (s \ {z}) \ {y} \in SUBSET U
          /\ Cardinality(s \ {z}) = n /\ Cardinality(s \ {y}) = n
      <4> HIDE DEF Sized, Without
      <4>1. \A e \in s : Cardinality(s \ {e}) = Cardinality(s) - 1
        BY <3>0, FS_RemoveElement
      <4>2. Cardinality(s) - 1 = n
        BY <2>1, <3>0
      <4>3. \A e \in s : Cardinality(s \ {e}) = n
        BY <4>1, <4>2, Zenon
      <4>4. s \ {z} \in SUBSET U /\ s \ {y} \in SUBSET U /\ (s \ {z}) \ {y} \in SUBSET U
        BY <2>1
      <4> QED  BY <2>1, <3>1, <4>3, <4>4, Zenon
    <3> USE DEF z
    <3>3. \A t \in s : f[t] \in Int
      BY DEF U
    <3>4. SumOver(f, s) = f[z] + SumOver(f, s \ {z})
      BY <1>1, <3>1, <3>3, SumPicks
    <3> HIDE DEF z
    <3>5. CASE y = z
      <4>1. SumOver(f, s \ {z}) \in Int
        BY <1>1, <3>2, <3>3, SumIsInteger
      <4> QED  BY <3>1, <3>3, <3>4, <3>5, <4>1
    <3>6. CASE y # z
      <4>1. y \in s \ {z} /\ z \in s \ {y} /\ (s \ {z}) \ {y} = (s \ {y}) \ {z}
        BY <3>1, <3>6
      <4>2. /\ SumOver(f, s \ {z}) = SumOver(f, (s \ {z}) \ {y}) + f[y]
            /\ SumOver(f, s \ {y}) = SumOver(f, (s \ {y}) \ {z}) + f[z]
        BY <1>3, <3>2, <4>1
      <4>3. SumOver(f, (s \ {z}) \ {y}) \in Int
        BY <1>1, <3>2, <3>3, SumIsInteger
      <4>4. SumOver(f, s \ {y}) = SumOver(f, (s \ {y}) \ {z}) + f[z]
        BY <4>2
      <4>5. SumOver(f, s \ {z}) = SumOver(f, (s \ {y}) \ {z}) + f[y]
        BY <4>1, <4>2
      <4>6. SumOver(f, (s \ {y}) \ {z}) \in Int /\ f[y] \in Int /\ f[z] \in Int
        BY <3>1, <3>3, <4>1, <4>3
      <4> HIDE DEF Sized, Without
      <4> QED  BY <3>4, <4>4, <4>5, <4>6
    <3> QED  BY <3>5, <3>6
  <2> QED  BY <2>1
<1>4. \A n \in Nat : n \in Sized
  BY <1>2, <1>3, EveryNatural
<1>5. Without(U)
  BY <1>1, <1>4
<1>6. x \in U /\ U \ {x} = S
  BY DEF U
<1> QED  BY <1>5, <1>6 DEF U
-----------------------------------------------------------------------------
(***************************************************************************)
(* Sorting.  The ranks of the samples of a window are 1, 2, ..., n: each   *)
(* once, in the order of the samples.                                      *)
(***************************************************************************)
NotAfter(w, i) == {j \in DOMAIN w : w[j] < w[i] \/ (w[j] = w[i] /\ j <= i)}

LEMMA RankRange ==
  ASSUME NEW n \in Nat, NEW w \in [1..n -> Nat], NEW i \in 1..n
  PROVE  /\ Rank(w, i) \in 1..n
         /\ Rank(w, i) = Cardinality(NotAfter(w, i)) /\ IsFiniteSet(NotAfter(w, i))
<1>1. IsFiniteSet(1..n) /\ Cardinality(1..n) = n
  BY FS_Interval
<1>2. NotAfter(w, i) \in SUBSET (1..n) /\ i \in NotAfter(w, i)
  BY DEF NotAfter
<1>3. IsFiniteSet(NotAfter(w, i)) /\ Cardinality(NotAfter(w, i)) <= n
  BY <1>1, <1>2, FS_Subset
<1>4. Cardinality(NotAfter(w, i)) \in Nat /\ Cardinality(NotAfter(w, i)) # 0
  BY <1>2, <1>3, FS_CardinalityType, FS_EmptySet
<1>5. Rank(w, i) = Cardinality(NotAfter(w, i))
  BY DEF Rank, NotAfter
<1> QED  BY <1>3, <1>4, <1>5

LEMMA RankMonotone ==
  ASSUME NEW n \in Nat, NEW w \in [1..n -> Nat], NEW i \in 1..n, NEW j \in 1..n,
         w[i] < w[j] \/ (w[i] = w[j] /\ i < j)
  PROVE  Rank(w, i) < Rank(w, j)
<1>1. NotAfter(w, i) \in SUBSET NotAfter(w, j)
  BY DEF NotAfter
<1>2. j \in NotAfter(w, j) /\ j \notin NotAfter(w, i)
  BY DEF NotAfter
<1>3. /\ Rank(w, i) \in 1..n /\ Rank(w, i) = Cardinality(NotAfter(w, i))
      /\ Rank(w, j) \in 1..n /\ Rank(w, j) = Cardinality(NotAfter(w, j))
      /\ IsFiniteSet(NotAfter(w, j))
  BY RankRange
<1>4. /\ Cardinality(NotAfter(w, i)) <= Cardinality(NotAfter(w, j))
      /\ Cardinality(NotAfter(w, j)) = Cardinality(NotAfter(w, i))
           => NotAfter(w, j) = NotAfter(w, i)
  BY <1>1, <1>3, FS_Subset
<1>5. Cardinality(NotAfter(w, j)) # Cardinality(NotAfter(w, i))
  BY <1>2, <1>4
<1> QED  BY <1>3, <1>4, <1>5

LEMMA RankSeparates ==
  ASSUME NEW n \in Nat, NEW w \in [1..n -> Nat], NEW i \in 1..n, NEW j \in 1..n, i # j
  PROVE  Rank(w, i) # Rank(w, j)
<1>1. Rank(w, i) \in 1..n /\ Rank(w, j) \in 1..n
  BY RankRange
<1>2. CASE w[i] < w[j] \/ (w[i] = w[j] /\ i < j)
  BY <1>1, <1>2, RankMonotone
<1>3. CASE w[j] < w[i] \/ (w[j] = w[i] /\ j < i)
  <2>1. Rank(w, j) < Rank(w, i)
    BY <1>3, RankMonotone
  <2> QED  BY <1>1, <2>1
<1>4. w[i] \in Nat /\ w[j] \in Nat
  OBVIOUS
<1> QED  BY <1>2, <1>3, <1>4

LEMMA RankedHasRank ==
  ASSUME NEW n \in Nat, NEW w \in [1..n -> Nat], NEW k \in 1..n
  PROVE  Ranked(w, k) \in 1..n /\ Rank(w, Ranked(w, k)) = k
<1>1. SUFFICES \E i \in DOMAIN w : Rank(w, i) = k
  BY DEF Ranked
<1>2. SUFFICES ASSUME \A i \in 1..n : Rank(w, i) # k PROVE FALSE
  OBVIOUS
<1> DEFINE T    == (1..n) \ {k}
           rank == [i \in 1..n |-> Rank(w, i)]
<1>3. IsFiniteSet(1..n) /\ Cardinality(1..n) = n
  BY FS_Interval
<1>4. IsFiniteSet(T) /\ Cardinality(T) = n - 1
  BY <1>3, FS_RemoveElement
<1>5. rank \in [1..n -> T]
  BY <1>2, RankRange
<1>6. Cardinality(T) < Cardinality(1..n)
  BY <1>3, <1>4
<1>7. \A i \in 1..n : rank[i] = Rank(w, i)
  OBVIOUS
<1> HIDE DEF rank, T
<1>8. \E i, j \in 1..n : i # j /\ rank[i] = rank[j]
  BY <1>3, <1>4, <1>5, <1>6, FS_PigeonHole
<1> QED  BY <1>7, <1>8, RankSeparates

LEMMA RankedInverts ==
  ASSUME NEW n \in Nat, NEW w \in [1..n -> Nat], NEW i \in 1..n
  PROVE  Ranked(w, Rank(w, i)) = i
<1>1. Rank(w, i) \in 1..n
  BY RankRange
<1>2. Ranked(w, Rank(w, i)) \in 1..n /\ Rank(w, Ranked(w, Rank(w, i))) = Rank(w, i)
  BY <1>1, RankedHasRank
<1> QED  BY <1>2, RankSeparates

(***************************************************************************)
(* The sorted window ascends, and holds each sample at its rank.           *)
(***************************************************************************)
LEMMA SortedAscends ==
  ASSUME NEW n \in Nat, NEW w \in [1..n -> Nat]
  PROVE  /\ Sorted(w) \in [1..n -> Nat]
         /\ \A k \in 1..n : Sorted(w)[k] = w[Ranked(w, k)]
         /\ \A i \in 1..n : Sorted(w)[Rank(w, i)] = w[i]
         /\ \A a, b \in 1..n : a <= b => Sorted(w)[a] <= Sorted(w)[b]
<1>1. \A k \in 1..n : Ranked(w, k) \in 1..n /\ Rank(w, Ranked(w, k)) = k
  BY RankedHasRank
<1>2. Sorted(w) \in [1..n -> Nat] /\ \A k \in 1..n : Sorted(w)[k] = w[Ranked(w, k)]
  BY <1>1 DEF Sorted
<1>3. ASSUME NEW i \in 1..n PROVE Sorted(w)[Rank(w, i)] = w[i]
  BY <1>2, RankRange, RankedInverts
<1>4. ASSUME NEW a \in 1..n, NEW b \in 1..n, a <= b PROVE Sorted(w)[a] <= Sorted(w)[b]
  <2> SUFFICES ASSUME w[Ranked(w, b)] < w[Ranked(w, a)] PROVE FALSE
    BY <1>1, <1>2
  <2>1. Rank(w, Ranked(w, b)) < Rank(w, Ranked(w, a))
    BY <1>1, RankMonotone
  <2> QED  BY <1>1, <1>4, <2>1
<1> QED  BY <1>2, <1>3, <1>4

(***************************************************************************)
(* The k fastest samples of a window are k.                                *)
(***************************************************************************)
Fastest(w, k) == {i \in DOMAIN w : Rank(w, i) <= k}

LEMMA FastestGrow ==
  ASSUME NEW n \in Nat, NEW w \in [1..n -> Nat], NEW k \in Nat, k < n
  PROVE  /\ Fastest(w, k + 1) = Fastest(w, k) \cup {Ranked(w, k + 1)}
         /\ Ranked(w, k + 1) \in 1..n /\ Ranked(w, k + 1) \notin Fastest(w, k)
<1>1. Ranked(w, k + 1) \in 1..n /\ Rank(w, Ranked(w, k + 1)) = k + 1
  BY RankedHasRank
<1>2. Ranked(w, k + 1) \notin Fastest(w, k)
  BY <1>1 DEF Fastest
<1>3. ASSUME NEW i \in 1..n
      PROVE  i \in Fastest(w, k + 1) <=> i \in Fastest(w, k) \/ i = Ranked(w, k + 1)
  <2>1. Rank(w, i) \in 1..n
    BY RankRange
  <2>2. Rank(w, i) = k + 1 <=> i = Ranked(w, k + 1)
    BY <1>1, RankedInverts
  <2> QED  BY <2>1, <2>2 DEF Fastest
<1>4. Fastest(w, k + 1) \subseteq 1..n /\ Fastest(w, k) \subseteq 1..n
  BY DEF Fastest
<1> QED  BY <1>1, <1>2, <1>3, <1>4

LEMMA FastestCount ==
  ASSUME NEW n \in Nat, NEW w \in [1..n -> Nat]
  PROVE  /\ Fastest(w, 0) = {} /\ Fastest(w, n) = 1..n
         /\ \A k \in 0..n : /\ Fastest(w, k) \subseteq 1..n
                            /\ IsFiniteSet(Fastest(w, k))
                            /\ Cardinality(Fastest(w, k)) = k
<1> DEFINE Counted == {k \in Nat : k <= n => /\ IsFiniteSet(Fastest(w, k))
                                             /\ Cardinality(Fastest(w, k)) = k}
<1>1. \A i \in 1..n : Rank(w, i) \in 1..n
  BY RankRange
<1>2. Fastest(w, 0) = {} /\ Fastest(w, n) = 1..n
  BY <1>1 DEF Fastest
<1>3. 0 \in Counted
  BY <1>2, FS_EmptySet
<1>4. ASSUME NEW k \in Counted PROVE k + 1 \in Counted
  <2> SUFFICES ASSUME k < n
               PROVE  /\ IsFiniteSet(Fastest(w, k + 1))
                      /\ Cardinality(Fastest(w, k + 1)) = k + 1
    OBVIOUS
  <2>1. IsFiniteSet(Fastest(w, k)) /\ Cardinality(Fastest(w, k)) = k
    BY <1>4
  <2>2. /\ Fastest(w, k + 1) = Fastest(w, k) \cup {Ranked(w, k + 1)}
        /\ Ranked(w, k + 1) \notin Fastest(w, k)
    BY FastestGrow
  <2> QED  BY <2>1, <2>2, FS_AddElement
<1>5. \A k \in Nat : k \in Counted
  BY <1>3, <1>4, EveryNatural
<1>6. \A k \in 0..n : Fastest(w, k) \subseteq 1..n
  BY DEF Fastest
<1> QED  BY <1>2, <1>5, <1>6
-----------------------------------------------------------------------------
(***************************************************************************)
(* Sums compared.  The larger summands have the larger sum, summands that  *)
(* are the same the same sum, and a constant adds up to its multiple.      *)
(***************************************************************************)
LEMMA SumGrows ==
  ASSUME NEW S, IsFiniteSet(S), NEW f, NEW g,
         \A i \in S : f[i] \in Int /\ g[i] \in Int /\ f[i] <= g[i]
  PROVE  SumOver(f, S) <= SumOver(g, S)
<1> DEFINE P == {s \in SUBSET S : SumOver(f, s) <= SumOver(g, s)}
<1>1. P \in SUBSET SUBSET S
  OBVIOUS
<1>2. {} \in P
  BY SumOfNothing
<1>3. ASSUME NEW s \in SUBSET S, s # {}, s \ {Picked(s)} \in P PROVE s \in P
  <2> DEFINE r == s \ {Picked(s)}
  <2>1. Picked(s) \in s /\ IsFiniteSet(s) /\ IsFiniteSet(r)
    BY <1>3, FS_Subset DEF Picked
  <2>2. /\ SumOver(f, s) = f[Picked(s)] + SumOver(f, r)
        /\ SumOver(g, s) = g[Picked(s)] + SumOver(g, r)
    BY <1>3, <2>1, SumPicks
  <2>3. /\ SumOver(f, r) \in Int /\ SumOver(g, r) \in Int
        /\ f[Picked(s)] \in Int /\ g[Picked(s)] \in Int /\ f[Picked(s)] <= g[Picked(s)]
    BY <2>1, SumIsInteger
  <2>4. SumOver(f, r) <= SumOver(g, r)
    BY <1>3
  <2>5. SumOver(f, s) <= SumOver(g, s)
    BY <2>2, <2>3, <2>4
  <2> QED  BY <2>5
<1> HIDE DEF P
<1>4. P = SUBSET S
  BY <1>1, <1>2, <1>3, EverySubset
<1> QED  BY <1>4 DEF P

LEMMA SumSame ==
  ASSUME NEW S, IsFiniteSet(S), NEW f, NEW g, \A i \in S : f[i] \in Int /\ g[i] = f[i]
  PROVE  SumOver(g, S) = SumOver(f, S)
<1>1. SumOver(f, S) \in Int /\ SumOver(g, S) \in Int
  BY SumIsInteger
<1>2. SumOver(f, S) <= SumOver(g, S) /\ SumOver(g, S) <= SumOver(f, S)
  BY SumGrows
<1> QED  BY <1>1, <1>2

LEMMA SumOfConstant ==
  ASSUME NEW S, IsFiniteSet(S), NEW v \in Int
  PROVE  SumOver([i \in S |-> v], S) = v * Cardinality(S)
<1> DEFINE f == [i \in S |-> v]
           P == {s \in SUBSET S : SumOver(f, s) = v * Cardinality(s)}
<1>1. P \in SUBSET SUBSET S
  OBVIOUS
<1>2. {} \in P
  <2>1. SumOver(f, {}) = 0 /\ Cardinality({}) = 0
    BY SumOfNothing, FS_EmptySet
  <2> QED  BY <2>1
<1>3. \A i \in S : f[i] = v
  OBVIOUS
<1>4. ASSUME NEW s \in SUBSET S, s # {}, s \ {Picked(s)} \in P PROVE s \in P
  <2> DEFINE r == s \ {Picked(s)}
  <2>1. Picked(s) \in s /\ IsFiniteSet(s)
    BY <1>4, FS_Subset DEF Picked
  <2>2. \A i \in s : f[i] \in Int
    BY <1>3
  <2>3. SumOver(f, s) = f[Picked(s)] + SumOver(f, r)
    BY <1>4, <2>1, <2>2, SumPicks
  <2>4. Cardinality(s) \in Nat /\ Cardinality(r) = Cardinality(s) - 1
    BY <1>4, Fewer
  <2>5. f[Picked(s)] = v
    BY <1>3, <2>1
  <2>6. SumOver(f, r) = v * Cardinality(r)
    BY <1>4
  <2> HIDE DEF r
  <2>7. v + v * (Cardinality(s) - 1) = v * Cardinality(s)
    BY <2>4
  <2> QED  BY <2>3, <2>4, <2>5, <2>6, <2>7
<1> HIDE DEF P
<1>5. P = SUBSET S
  BY <1>1, <1>2, <1>4, EverySubset
<1> QED  BY <1>5 DEF P

LEMMA SumAtMost ==
  ASSUME NEW S, IsFiniteSet(S), NEW f, NEW v \in Int, \A i \in S : f[i] \in Int /\ f[i] <= v
  PROVE  SumOver(f, S) <= v * Cardinality(S)
<1>1. SumOver(f, S) <= SumOver([i \in S |-> v], S)
  BY SumGrows
<1> QED  BY <1>1, SumOfConstant

LEMMA SumAtLeast ==
  ASSUME NEW S, IsFiniteSet(S), NEW f, NEW v \in Int, \A i \in S : f[i] \in Int /\ v <= f[i]
  PROVE  v * Cardinality(S) <= SumOver(f, S)
<1>1. SumOver([i \in S |-> v], S) <= SumOver(f, S)
  BY SumGrows
<1> QED  BY <1>1, SumOfConstant

(***************************************************************************)
(* The sum over a set is the sum over a part and the sum over the rest.    *)
(***************************************************************************)
LEMMA SumSplits ==
  ASSUME NEW S, IsFiniteSet(S), NEW T \in SUBSET S, NEW f, \A i \in S : f[i] \in Int
  PROVE  SumOver(f, S) = SumOver(f, T) + SumOver(f, S \ T)
<1> DEFINE P == {s \in SUBSET (S \ T) : SumOver(f, T \cup s) = SumOver(f, T) + SumOver(f, s)}
<1>1. IsFiniteSet(T) /\ IsFiniteSet(S \ T)
  BY FS_Subset
<1>2. P \in SUBSET SUBSET (S \ T)
  OBVIOUS
<1>3. {} \in P
  <2>1. SumOver(f, {}) = 0 /\ SumOver(f, T) \in Int
    BY <1>1, SumOfNothing, SumIsInteger
  <2>2. T \cup {} = T
    OBVIOUS
  <2> QED  BY <2>1, <2>2
<1>4. ASSUME NEW s \in SUBSET (S \ T), s # {}, s \ {Picked(s)} \in P PROVE s \in P
  <2> DEFINE r == s \ {Picked(s)}
             x == Picked(s)
  <2>1. x \in s /\ IsFiniteSet(s) /\ IsFiniteSet(r)
    BY <1>1, <1>4, FS_Subset DEF Picked
  <2>2. SumOver(f, s) = f[x] + SumOver(f, r)
    <3>1. \A i \in s : f[i] \in Int
      OBVIOUS
    <3> QED  BY <1>4, <2>1, <3>1, SumPicks
  <2>3. SumOver(f, T \cup r) = SumOver(f, T) + SumOver(f, r)
    BY <1>4
  <2>4. x \notin T \cup r /\ T \cup s = (T \cup r) \cup {x} /\ T \cup s \in SUBSET S
    BY <2>1
  <2>5. IsFiniteSet(T \cup r) /\ \A i \in (T \cup r) \cup {x} : f[i] \in Int
    BY <2>4, FS_Subset
  <2>6. f[x] \in Int /\ SumOver(f, r) \in Int /\ SumOver(f, T) \in Int
    <3>1. (\A i \in r : f[i] \in Int) /\ \A i \in T : f[i] \in Int
      OBVIOUS
    <3> QED  BY <1>1, <2>1, <2>5, <3>1, SumIsInteger
  <2> HIDE DEF r, x
  <2>7. SumOver(f, (T \cup r) \cup {x}) = SumOver(f, T \cup r) + f[x]
    BY <2>4, <2>5, SumAdds
  <2>8. SumOver(f, T \cup s) = (SumOver(f, T) + SumOver(f, r)) + f[x]
    BY <2>3, <2>4, <2>7, Zenon
  <2>9. SumOver(f, T \cup s) = SumOver(f, T) + SumOver(f, s)
    BY <2>2, <2>6, <2>8
  <2> QED  BY <2>9
<1> HIDE DEF P
<1>5. P = SUBSET (S \ T)
  BY <1>1, <1>2, <1>3, <1>4, EverySubset
<1>6. T \cup (S \ T) = S
  OBVIOUS
<1>7. S \ T \in P
  BY <1>5
<1> QED  BY <1>6, <1>7 DEF P

LEMMA SumToNext ==
  ASSUME NEW k \in Nat, NEW f, \A i \in 1..(k + 1) : f[i] \in Int
  PROVE  SumOver(f, 1..(k + 1)) = SumOver(f, 1..k) + f[k + 1]
<1> DEFINE S == 1..k
           x == k + 1
<1>1. IsFiniteSet(S)
  BY FS_Interval
<1>2. x \notin S /\ S \cup {x} = 1..(k + 1) /\ \A i \in S \cup {x} : f[i] \in Int
  OBVIOUS
<1> HIDE DEF S, x
<1>3. SumOver(f, S \cup {x}) = SumOver(f, S) + f[x]
  BY <1>1, <1>2, SumAdds
<1> QED  BY <1>2, <1>3 DEF S, x

(***************************************************************************)
(* What is added up over the first k of the sorted window is added up over *)
(* the k fastest samples.                                                  *)
(***************************************************************************)
LEMMA SumInOrder ==
  ASSUME NEW n \in Nat, NEW w \in [1..n -> Nat], NEW f, NEW g,
         \A i \in 1..n : f[i] \in Int, \A a \in 1..n : g[a] = f[Ranked(w, a)],
         NEW m \in 0..n
  PROVE  SumOver(g, 1..m) = SumOver(f, Fastest(w, m))
<1> DEFINE Same == {k \in Nat : k <= n => SumOver(g, 1..k) = SumOver(f, Fastest(w, k))}
<1>0. \A a \in 1..n : Ranked(w, a) \in 1..n /\ g[a] \in Int
  <2>1. \A a \in 1..n : Ranked(w, a) \in 1..n
    BY RankedHasRank
  <2> QED  BY <2>1
<1>1. 0 \in Same
  <2>1. 1..0 = {} /\ Fastest(w, 0) = {}
    BY FastestCount
  <2> QED  BY <2>1, SumOfNothing
<1>2. ASSUME NEW k \in Same PROVE k + 1 \in Same
  <2> SUFFICES ASSUME k < n
               PROVE  SumOver(g, 1..(k + 1)) = SumOver(f, Fastest(w, k + 1))
    OBVIOUS
  <2>1. k \in Nat /\ k \in 0..n /\ SumOver(g, 1..k) = SumOver(f, Fastest(w, k))
    BY <1>2
  <2> HIDE DEF Same
  <2>2. /\ Fastest(w, k + 1) = Fastest(w, k) \cup {Ranked(w, k + 1)}
        /\ Ranked(w, k + 1) \in 1..n /\ Ranked(w, k + 1) \notin Fastest(w, k)
    BY <2>1, FastestGrow
  <2>3. 1..(k + 1) = (1..k) \cup {k + 1} /\ k + 1 \notin 1..k /\ k + 1 \in 1..n
    BY <2>1
  <2>4. IsFiniteSet(1..k) /\ IsFiniteSet(Fastest(w, k)) /\ Fastest(w, k) \subseteq 1..n
    <3>1. \A a \in 0..n : IsFiniteSet(Fastest(w, a)) /\ Fastest(w, a) \subseteq 1..n
      BY FastestCount
    <3>2. IsFiniteSet(1..k)
      BY <2>1, FS_Interval
    <3> QED  BY <2>1, <3>1, <3>2
  <2>5. \A i \in (1..k) \cup {k + 1} : g[i] \in Int
    BY <1>0, <2>1
  <2>6. SumOver(g, 1..(k + 1)) = SumOver(g, 1..k) + g[k + 1]
    <3>1. \A i \in 1..(k + 1) : g[i] \in Int
      BY <2>3, <2>5
    <3> QED  BY <2>1, <3>1, SumToNext
  <2>7. SumOver(f, Fastest(w, k) \cup {Ranked(w, k + 1)})
          = SumOver(f, Fastest(w, k)) + f[Ranked(w, k + 1)]
    <3> DEFINE S == Fastest(w, k)
               x == Ranked(w, k + 1)
    <3>1. IsFiniteSet(S) /\ x \notin S /\ \A i \in S \cup {x} : f[i] \in Int
      BY <2>2, <2>4
    <3> HIDE DEF S, x
    <3>2. SumOver(f, S \cup {x}) = SumOver(f, S) + f[x]
      BY <3>1, SumAdds
    <3> QED  BY <3>2 DEF S, x
  <2>8. SumOver(f, Fastest(w, k + 1)) = SumOver(f, Fastest(w, k)) + f[Ranked(w, k + 1)]
    BY <2>2, <2>7
  <2>9. g[k + 1] = f[Ranked(w, k + 1)]
    BY <2>3
  <2> QED  BY <2>1, <2>6, <2>8, <2>9
<1>3. \A k \in Nat : k \in Same
  BY <1>1, <1>2, EveryNatural
<1> QED  BY <1>3
-----------------------------------------------------------------------------
(***************************************************************************)
(* The trim.  What Compute puts into its fields for a window of n samples. *)
(***************************************************************************)
LEMMA LenOf ==
  ASSUME NEW n \in Nat, NEW w \in [1..n -> Nat]
  PROVE  w \in Seq(Nat) /\ Len(w) = n
<1>1. w \in Seq(Nat)
  OBVIOUS
<1> QED  BY <1>1, LenProperties

LEMMA DropLeavesTwo ==
  ASSUME NEW n \in Nat \ {0}, NEW trim \in Nat
  PROVE  /\ Drop(n, trim) \in 0..(n - 1)
         /\ n >= 2 => Drop(n, trim) <= n - 2
<1> DEFINE ceiling == (trim * n + 99) \div 100
<1>1. trim * n \in Nat
  OBVIOUS
<1>2. ceiling \in Nat
  BY <1>1
<1> HIDE DEF ceiling
<1>3. CASE trim > 0 /\ n >= 3
  <2> DEFINE d == Min({ceiling, n - 2})
  <2>1. /\ n - 2 \in Nat
        /\ \E x \in {ceiling, n - 2} : \A y \in {ceiling, n - 2} : x <= y
    BY <1>2, <1>3
  <2>2. d \in {ceiling, n - 2} /\ \A y \in {ceiling, n - 2} : d <= y
    BY <2>1 DEF Min
  <2>3. Drop(n, trim) = d
    BY <1>3 DEF Drop, ceiling
  <2>4. d <= n - 2
    BY <2>2
  <2>5. d \in Nat
    BY <1>2, <2>1, <2>2
  <2> HIDE DEF d
  <2> QED  BY <1>3, <2>3, <2>4, <2>5
<1>4. CASE ~(trim > 0 /\ n >= 3)
  BY <1>4 DEF Drop
<1> QED  BY <1>3, <1>4

LEMMA TrimFields ==
  ASSUME NEW n \in Nat \ {0}, NEW w \in [1..n -> Nat], NEW trim \in Nat
  PROVE  /\ Compute(w, trim).dropped = Drop(n, trim)
         /\ Compute(w, trim).trimmed = n - Drop(n, trim)
         /\ Compute(w, trim).sum = SumOver(w, 1..n)
         /\ Compute(w, trim).trimmed_sum = SumOver(w, Fastest(w, n - Drop(n, trim)))
<1> DEFINE s == Sorted(w)
           k == n - Drop(n, trim)
           kept == SubSeq(s, 1, k)
<1>1. Len(w) = n /\ DOMAIN w = 1..n
  BY LenOf
<1>2. /\ Compute(w, trim).dropped = Drop(n, trim) /\ Compute(w, trim).trimmed = k
      /\ Compute(w, trim).sum = Sum(s) /\ Compute(w, trim).trimmed_sum = Sum(kept)
  BY <1>1 DEF Compute
<1>3. k \in 1..n
  <2>1. Drop(n, trim) \in 0..(n - 1)
    BY DropLeavesTwo
  <2> QED  BY <2>1
<1>4. s \in [1..n -> Nat] /\ \A a \in 1..n : s[a] = w[Ranked(w, a)]
  BY SortedAscends
<1> HIDE DEF k, s
<1>5. s \in Seq(Nat) /\ Len(s) = n
  BY <1>4, LenOf
<1>6. DOMAIN kept = 1..k /\ \A i \in 1..k : kept[i] = s[i]
  BY <1>3, <1>5
<1>7. Sum(s) = SumOver(s, 1..n)
  BY <1>4 DEF Sum
<1>8. Sum(kept) = SumOver(s, 1..k)
  <2>1. IsFiniteSet(1..k)
    BY <1>3, FS_Interval
  <2>2. \A i \in 1..k : s[i] \in Int /\ kept[i] = s[i]
    BY <1>3, <1>4, <1>6
  <2> HIDE DEF kept
  <2>3. SumOver(kept, 1..k) = SumOver(s, 1..k)
    BY <2>1, <2>2, SumSame
  <2> QED  BY <1>6, <2>3 DEF Sum
<1>9. ASSUME NEW m \in 0..n PROVE SumOver(s, 1..m) = SumOver(w, Fastest(w, m))
  <2>1. n \in Nat /\ \A i \in 1..n : w[i] \in Int
    OBVIOUS
  <2>2. \A a \in 1..n : s[a] = w[Ranked(w, a)]
    BY <1>4
  <2> QED  BY <2>1, <2>2, SumInOrder
<1>10. Fastest(w, n) = 1..n
  BY FastestCount
<1>11. Sum(s) = SumOver(w, 1..n)
  BY <1>7, <1>9, <1>10
<1>12. Sum(kept) = SumOver(w, Fastest(w, k))
  BY <1>3, <1>8, <1>9
<1> QED  BY <1>2, <1>11, <1>12 DEF k

(***************************************************************************)
(* A sample among the k fastest is at most the k-th of the sorted window,  *)
(* and any other at least that.                                            *)
(***************************************************************************)
LEMMA FastestBound ==
  ASSUME NEW n \in Nat, NEW w \in [1..n -> Nat], NEW k \in 1..n
  PROVE  /\ Sorted(w)[k] \in Nat
         /\ \A i \in Fastest(w, k) : w[i] <= Sorted(w)[k]
         /\ \A i \in (1..n) \ Fastest(w, k) : Sorted(w)[k] <= w[i]
<1>1. /\ Sorted(w) \in [1..n -> Nat]
      /\ \A i \in 1..n : Sorted(w)[Rank(w, i)] = w[i]
      /\ \A a, b \in 1..n : a <= b => Sorted(w)[a] <= Sorted(w)[b]
  BY SortedAscends
<1>2. \A i \in 1..n : Rank(w, i) \in 1..n
  BY RankRange
<1>3. ASSUME NEW i \in Fastest(w, k) PROVE w[i] <= Sorted(w)[k]
  <2>1. i \in 1..n /\ Rank(w, i) <= k
    BY DEF Fastest
  <2> QED  BY <1>1, <1>2, <2>1
<1>4. ASSUME NEW i \in (1..n) \ Fastest(w, k) PROVE Sorted(w)[k] <= w[i]
  <2>1. i \in 1..n /\ k <= Rank(w, i)
    BY <1>2 DEF Fastest
  <2> QED  BY <1>1, <1>2, <2>1
<1> QED  BY <1>1, <1>3, <1>4

(***************************************************************************)
(* No k samples add up to less than the k fastest.                         *)
(***************************************************************************)
LEMMA FastestSumLeast ==
  ASSUME NEW n \in Nat, NEW w \in [1..n -> Nat], NEW k \in 1..n,
         NEW K \in SUBSET (1..n), Cardinality(K) = k
  PROVE  SumOver(w, Fastest(w, k)) <= SumOver(w, K)
<1> DEFINE F == Fastest(w, k)
           v == Sorted(w)[k]
<1>1. IsFiniteSet(F) /\ Cardinality(F) = k /\ F \in SUBSET (1..n) /\ IsFiniteSet(K)
  <2>1. \A a \in 0..n : /\ Fastest(w, a) \subseteq 1..n /\ IsFiniteSet(Fastest(w, a))
                        /\ Cardinality(Fastest(w, a)) = a
    BY FastestCount
  <2>2. IsFiniteSet(1..n)
    BY FS_Interval
  <2>3. IsFiniteSet(K)
    BY <2>2, FS_Subset
  <2> QED  BY <2>1, <2>3
<1>2. v \in Nat /\ (\A i \in F : w[i] <= v) /\ (\A i \in (1..n) \ F : v <= w[i])
  BY FastestBound
<1> HIDE DEF F, v
<1>3. /\ IsFiniteSet(F \ K) /\ Cardinality(F \ K) = Cardinality(F) - Cardinality(F \cap K)
      /\ IsFiniteSet(K \ F) /\ Cardinality(K \ F) = Cardinality(K) - Cardinality(K \cap F)
  BY <1>1, FS_Difference
<1>4. Cardinality(F \ K) = Cardinality(K \ F)
  <2>1. F \cap K = K \cap F
    OBVIOUS
  <2> QED  BY <1>1, <1>3, <2>1
<1>5. SumOver(w, F) = SumOver(w, F \cap K) + SumOver(w, F \ K)
  <2>1. F \cap K \in SUBSET F /\ F \ (F \cap K) = F \ K /\ \A i \in F : w[i] \in Int
    BY <1>1
  <2>2. SumOver(w, F) = SumOver(w, F \cap K) + SumOver(w, F \ (F \cap K))
    BY <1>1, <2>1, SumSplits
  <2> QED  BY <2>1, <2>2
<1>6. SumOver(w, K) = SumOver(w, F \cap K) + SumOver(w, K \ F)
  <2>1. F \cap K \in SUBSET K /\ K \ (F \cap K) = K \ F /\ \A i \in K : w[i] \in Int
    OBVIOUS
  <2>2. SumOver(w, K) = SumOver(w, F \cap K) + SumOver(w, K \ (F \cap K))
    BY <1>1, <2>1, SumSplits
  <2> QED  BY <2>1, <2>2
<1>7. SumOver(w, F \ K) <= v * Cardinality(F \ K)
  <2>1. \A i \in F \ K : w[i] \in Int /\ w[i] <= v
    BY <1>1, <1>2
  <2>2. v \in Int
    BY <1>2
  <2> QED  BY <1>3, <2>1, <2>2, SumAtMost, Zenon
<1>8. v * Cardinality(K \ F) <= SumOver(w, K \ F)
  <2>1. \A i \in K \ F : w[i] \in Int /\ v <= w[i]
    BY <1>2
  <2>2. v \in Int
    BY <1>2
  <2> QED  BY <1>3, <2>1, <2>2, SumAtLeast, Zenon
<1>9. /\ SumOver(w, F \cap K) \in Int /\ SumOver(w, F \ K) \in Int
      /\ SumOver(w, K \ F) \in Int /\ v * Cardinality(K \ F) \in Int
  <2>1. IsFiniteSet(F \cap K)
    BY <1>1, FS_Intersection
  <2>2. Cardinality(K \ F) \in Nat
    BY <1>3, FS_CardinalityType
  <2>3. /\ \A i \in F \cap K : w[i] \in Int
        /\ \A i \in F \ K : w[i] \in Int
        /\ \A i \in K \ F : w[i] \in Int
    BY <1>1
  <2>4. SumOver(w, F \cap K) \in Int /\ SumOver(w, F \ K) \in Int /\ SumOver(w, K \ F) \in Int
    BY <1>3, <2>1, <2>3, SumIsInteger
  <2> QED  BY <1>2, <2>2, <2>4
<1>10. SumOver(w, F) <= SumOver(w, K)
  BY <1>4, <1>5, <1>6, <1>7, <1>8, <1>9
<1> QED  BY <1>10 DEF F

(***************************************************************************)
(* The mean of the k fastest samples is at most the mean of all: each is   *)
(* at most the k-th of the sorted window, and each of the others at least. *)
(***************************************************************************)
LEMMA TimesKeepsOrder ==
  ASSUME NEW a \in Int, NEW b \in Int, a <= b, NEW c \in Nat
  PROVE  a * c <= b * c
OBVIOUS

LEMMA MeanNeverRises ==
  ASSUME NEW n \in Nat, NEW w \in [1..n -> Nat], NEW k \in 1..n
  PROVE  SumOver(w, Fastest(w, k)) * n <= SumOver(w, 1..n) * k
<1> DEFINE F == Fastest(w, k)
           R == (1..n) \ F
           v == Sorted(w)[k]
           f == SumOver(w, F)
           r == SumOver(w, R)
<1>1. IsFiniteSet(F) /\ Cardinality(F) = k /\ F \in SUBSET (1..n)
  <2>1. \A a \in 0..n : /\ Fastest(w, a) \subseteq 1..n /\ IsFiniteSet(Fastest(w, a))
                        /\ Cardinality(Fastest(w, a)) = a
    BY FastestCount
  <2> QED  BY <2>1
<1>2. v \in Nat /\ (\A i \in F : w[i] <= v) /\ (\A i \in R : v <= w[i])
  BY FastestBound
<1>3. IsFiniteSet(1..n) /\ Cardinality(1..n) = n /\ \A i \in 1..n : w[i] \in Int
  BY FS_Interval
<1> HIDE DEF F, v
<1>4. IsFiniteSet(R) /\ Cardinality(R) = n - k
  <2>1. Cardinality(R) = Cardinality(1..n) - Cardinality((1..n) \cap F) /\ IsFiniteSet(R)
    BY <1>3, FS_Difference
  <2>2. (1..n) \cap F = F
    BY <1>1
  <2> QED  BY <1>1, <1>3, <2>1, <2>2
<1>5. SumOver(w, 1..n) = f + r
  BY <1>1, <1>3, SumSplits
<1>6. f <= v * k
  <2>1. \A i \in F : w[i] \in Int /\ w[i] <= v
    BY <1>1, <1>2, <1>3
  <2>2. v \in Int
    BY <1>2
  <2>3. f <= v * Cardinality(F)
    BY <1>1, <2>1, <2>2, SumAtMost, Zenon
  <2> QED  BY <1>1, <2>3
<1>7. v * (n - k) <= r
  <2>1. \A i \in R : w[i] \in Int /\ v <= w[i]
    BY <1>2, <1>3
  <2> HIDE DEF R
  <2>2. v \in Int
    BY <1>2
  <2>3. v * Cardinality(R) <= r
    BY <1>4, <2>1, <2>2, SumAtLeast, Zenon
  <2> QED  BY <1>4, <2>3
<1>8. f \in Int /\ r \in Int
  <2>1. (\A i \in F : w[i] \in Int) /\ \A i \in R : w[i] \in Int
    BY <1>1, <1>3
  <2> HIDE DEF R
  <2> QED  BY <1>1, <1>4, <2>1, SumIsInteger
<1> HIDE DEF f, r
<1>9. f * (n - k) <= (v * k) * (n - k)
  <2>1. v * k \in Int /\ n - k \in Nat
    BY <1>2
  <2> QED  BY <1>6, <1>8, <2>1, TimesKeepsOrder
<1>10. (v * (n - k)) * k <= r * k
  <2>1. v * (n - k) \in Int /\ k \in Nat
    BY <1>2
  <2> QED  BY <1>7, <1>8, <2>1, TimesKeepsOrder
<1>11. (v * k) * (n - k) = (v * (n - k)) * k
  BY <1>2
<1>12. f * n = f * k + f * (n - k) /\ (f + r) * k = f * k + r * k
  BY <1>8
<1>13. /\ f * k \in Int /\ f * (n - k) \in Int /\ r * k \in Int
       /\ (v * k) * (n - k) \in Int
  BY <1>2, <1>8
<1>14. f * n <= (f + r) * k
  BY <1>9, <1>10, <1>11, <1>12, <1>13
<1> QED  BY <1>5, <1>14 DEF f, F

(***************************************************************************)
(* A slowest sample may be slower still: unless all are kept, the sum of   *)
(* the k fastest stays.                                                    *)
(***************************************************************************)
Slower(w, i) == [w EXCEPT ![i] = 10 * @]

LEMMA SlowerChangesNothing ==
  ASSUME NEW n \in Nat, NEW w \in [1..n -> Nat], NEW k \in 1..(n - 1),
         NEW i \in 1..n, Slowest(w, i)
  PROVE  SumOver(Slower(w, i), Fastest(Slower(w, i), k)) = SumOver(w, Fastest(w, k))
<1> DEFINE u == Slower(w, i)
           F == Fastest(w, k)
           G == Fastest(u, k)
<1>1. /\ u \in [1..n -> Nat] /\ (\A j \in 1..n : w[j] <= u[j])
      /\ \A j \in 1..n : j # i => u[j] = w[j]
  BY DEF Slower
<1> HIDE DEF u
<1>2. k \in Nat /\ k < n /\ k \in 0..n /\ k \in 1..n /\ k + 1 \in 1..n
  OBVIOUS
<1>3. /\ IsFiniteSet(F) /\ Cardinality(F) = k /\ F \in SUBSET (1..n)
      /\ IsFiniteSet(G) /\ Cardinality(G) = k /\ G \in SUBSET (1..n)
  <2>1. \A a \in 0..n : /\ Fastest(w, a) \subseteq 1..n /\ IsFiniteSet(Fastest(w, a))
                        /\ Cardinality(Fastest(w, a)) = a
    BY FastestCount
  <2>2. \A a \in 0..n : /\ Fastest(u, a) \subseteq 1..n /\ IsFiniteSet(Fastest(u, a))
                        /\ Cardinality(Fastest(u, a)) = a
    BY <1>1, FastestCount
  <2> QED  BY <1>2, <2>1, <2>2
<1>4. SumOver(w, F) <= SumOver(u, G)
  <2>1. SumOver(w, F) <= SumOver(w, G)
    BY <1>2, <1>3, FastestSumLeast
  <2>2. \A j \in G : w[j] \in Int /\ u[j] \in Int /\ w[j] <= u[j]
    BY <1>1, <1>3
  <2>3. SumOver(w, G) <= SumOver(u, G)
    BY <1>3, <2>2, SumGrows
  <2>4. SumOver(w, F) \in Int /\ SumOver(w, G) \in Int /\ SumOver(u, G) \in Int
    <3>1. \A j \in F : w[j] \in Int
      BY <1>3
    <3>2. (\A j \in G : w[j] \in Int) /\ \A j \in G : u[j] \in Int
      BY <2>2
    <3> QED  BY <1>3, <3>1, <3>2, SumIsInteger
  <2> QED  BY <2>1, <2>3, <2>4
<1>5. ASSUME NEW K \in SUBSET (1..n), IsFiniteSet(K), Cardinality(K) = k, i \notin K,
             SumOver(w, K) = SumOver(w, F)
      PROVE  SumOver(u, G) <= SumOver(w, F)
  <2>1. SumOver(u, G) <= SumOver(u, K)
    BY <1>1, <1>2, <1>5, FastestSumLeast
  <2>2. \A j \in K : w[j] \in Int /\ u[j] = w[j]
    BY <1>1, <1>5
  <2>3. SumOver(u, K) = SumOver(w, K)
    BY <1>5, <2>2, SumSame
  <2> QED  BY <1>5, <2>1, <2>3
<1>6. SumOver(u, G) <= SumOver(w, F)
  <2>1. CASE i \notin F
    BY <1>3, <1>5, <2>1
  <2>2. CASE i \in F
    <3> DEFINE j == Ranked(w, k + 1)
               E == F \ {i}
               K == E \cup {j}
    <3>1. j \in 1..n /\ j \notin F /\ Sorted(w)[k] <= w[j]
      <4>1. j \in 1..n /\ j \notin F
        BY <1>2, FastestGrow
      <4> QED  BY <1>2, <4>1, FastestBound
    <3> HIDE DEF j, F
    <3>2. w[j] = w[i]
      <4>1. w[j] <= w[i]
        BY <3>1 DEF Slowest
      <4>2. w[i] <= Sorted(w)[k] /\ Sorted(w)[k] \in Nat
        BY <1>2, <2>2, FastestBound DEF F
      <4>3. w[i] \in Nat /\ w[j] \in Nat
        BY <3>1
      <4> QED  BY <3>1, <4>1, <4>2, <4>3
    <3>3. /\ IsFiniteSet(E) /\ i \notin E /\ j \notin E /\ E \cup {i} = F /\ i \notin K
      BY <1>3, <2>2, <3>1, FS_RemoveElement
    <3>4. Cardinality(E) = k - 1
      BY <1>3, <2>2, FS_RemoveElement
    <3>5. IsFiniteSet(K) /\ Cardinality(K) = k
      <4>1. IsFiniteSet(K) /\ Cardinality(K) = Cardinality(E) + 1
        BY <3>3, FS_AddElement
      <4> QED  BY <3>4, <4>1
    <3>6. (\A t \in E \cup {i} : w[t] \in Int) /\ \A t \in E \cup {j} : w[t] \in Int
      BY <1>3, <3>1
    <3>7. K \in SUBSET (1..n)
      BY <1>3, <3>1
    <3> HIDE DEF E
    <3>8. SumOver(w, E \cup {i}) = SumOver(w, E) + w[i]
      BY <3>3, <3>6, SumAdds, Zenon
    <3>9. SumOver(w, E \cup {j}) = SumOver(w, E) + w[j]
      BY <3>3, <3>6, SumAdds, Zenon
    <3>10. SumOver(w, K) = SumOver(w, F)
      BY <3>2, <3>3, <3>8, <3>9, Zenon
    <3> HIDE DEF K
    <3> QED  BY <1>5, <3>3, <3>5, <3>7, <3>10
  <2> QED  BY <2>1, <2>2
<1>7. SumOver(w, F) \in Int /\ SumOver(u, G) \in Int
  <2>1. (\A j \in F : w[j] \in Int) /\ \A j \in G : u[j] \in Int
    BY <1>1, <1>3
  <2> QED  BY <1>3, <2>1, SumIsInteger
<1>8. SumOver(u, G) = SumOver(w, F)
  BY <1>4, <1>6, <1>7
<1> QED  BY <1>8 DEF F, G, u

(***************************************************************************)
(* What the trim leaves of any window of samples fits.                     *)
(***************************************************************************)
LEMMA TrimOfWindow ==
  ASSUME NEW n \in Nat \ {0}, NEW w \in [1..n -> Nat], NEW trim \in Nat
  PROVE  TrimFits(w, trim, Compute(w, trim))
<1> DEFINE c == Compute(w, trim)
           k == n - Drop(n, trim)
<1>1. Len(w) = n /\ DOMAIN w = 1..n
  BY LenOf
<1>2. Drop(n, trim) \in 0..(n - 1) /\ (n >= 2 => Drop(n, trim) <= n - 2)
  BY DropLeavesTwo
<1>3. /\ c.dropped = Drop(n, trim) /\ c.trimmed = k
      /\ c.sum = SumOver(w, 1..n) /\ c.trimmed_sum = SumOver(w, Fastest(w, k))
  BY TrimFields
<1>4. c.trimmed + c.dropped = n /\ (n >= 2 => c.trimmed >= 2) /\ k \in 1..n
  BY <1>2, <1>3
<1>5. c.trimmed_sum * n <= c.sum * c.trimmed
  BY <1>3, <1>4, MeanNeverRises
<1>6. ASSUME c.dropped > 0, NEW i \in 1..n, Slowest(w, i)
      PROVE  Compute([w EXCEPT ![i] = 10 * @], trim).trimmed_sum = c.trimmed_sum
  <2> DEFINE u == Slower(w, i)
  <2>1. k \in 1..(n - 1) /\ n \in Nat
    BY <1>2, <1>3, <1>6
  <2>2. SumOver(u, Fastest(u, k)) = SumOver(w, Fastest(w, k))
    BY <1>6, <2>1, SlowerChangesNothing
  <2>3. u \in [1..n -> Nat]
    BY DEF Slower
  <2> HIDE DEF u
  <2>4. Compute(u, trim).trimmed_sum = SumOver(u, Fastest(u, k))
    BY <2>3, TrimFields
  <2> QED  BY <1>3, <2>2, <2>4 DEF u, Slower
<1> HIDE DEF c
<1> QED  BY <1>1, <1>4, <1>5, <1>6 DEF TrimFits, c

LEMMA LiveIsWindow ==
  ASSUME TypeOK, size > 0
  PROVE  size \in Nat \ {0} /\ Live \in [1..size -> Nat]
<1>1. size \in Nat \ {0} /\ size <= Capacity
  BY ProfilerAssumption DEF TypeOK
<1>2. ASSUME NEW i \in 1..size PROVE samples[i - 1] \in Nat
  <2>1. i - 1 \in Cells
    BY <1>1, ProfilerAssumption DEF Cells
  <2>2. samples[i - 1] \in Samples \cup {0}
    BY <2>1 DEF TypeOK, NoSample
  <2>3. \A x \in Samples \cup {0} : x \in Nat
    BY ProfilerAssumption
  <2> QED  BY <2>2, <2>3, Zenon
<1> QED  BY <1>1, <1>2 DEF Live

(***************************************************************************)
(* The trim is an upper-tail trim that leaves two samples, whatever the    *)
(* capacity, the samples and the fraction ("Upper-tail trim ... always     *)
(* keeping at least two samples", src/src/profiler.hpp:145): the mean      *)
(* never rises, and a slowest sample that is any slower moves nothing.     *)
(***************************************************************************)
THEOREM TrimAlwaysDropsTheSlowest == Spec => []TrimDropsTheSlowest
<1>1. TypeOK => TrimDropsTheSlowest
  <2> SUFFICES ASSUME TypeOK, size > 0, NEW trim \in Trims
               PROVE  TrimFits(Live, trim, Compute(Live, trim))
    BY DEF TrimDropsTheSlowest
  <2>1. trim \in Nat
    BY ProfilerAssumption
  <2> QED  BY <2>1, LiveIsWindow, TrimOfWindow
<1>2. RingInv => TypeOK
  BY DEF RingInv
<1> QED  BY <1>1, <1>2, RingInvariant, PTL
-----------------------------------------------------------------------------
(***************************************************************************)
(* The percentiles.  Interpolated is 100 times the value at a position of  *)
(* the sorted samples, in hundredths of a sample.                          *)
(***************************************************************************)
Interpolated(s, n, pos) ==
  IF pos \div 100 + 1 >= n THEN 100 * s[n]
  ELSE 100 * s[pos \div 100 + 1] + (pos % 100) * (s[pos \div 100 + 2] - s[pos \div 100 + 1])

Ascending(s, n) == \A a, b \in 1..n : a <= b => s[a] <= s[b]

Before(pos) == pos \div 100
After(pos)  == pos % 100

LEMMA Position ==
  ASSUME NEW pos \in Nat
  PROVE  /\ Before(pos) \in Nat /\ After(pos) \in 0..99
         /\ pos = 100 * Before(pos) + After(pos)
BY DEF Before, After

LEMMA InterpolatedBetween ==
  ASSUME NEW n \in Nat \ {0}, NEW s \in [1..n -> Nat], Ascending(s, n),
         NEW pos \in 0..(100 * (n - 1))
  PROVE  /\ Interpolated(s, n, pos) \in Int
         /\ Before(pos) + 1 \in 1..n
         /\ 100 * s[Before(pos) + 1] <= Interpolated(s, n, pos)
         /\ Before(pos) + 1 < n => Interpolated(s, n, pos) <= 100 * s[Before(pos) + 2]
         /\ Before(pos) + 1 = n \/ After(pos) = 0
              => Interpolated(s, n, pos) = 100 * s[Before(pos) + 1]
<1> DEFINE i == Before(pos)
           r == After(pos)
           d == s[i + 2] - s[i + 1]
           p == Interpolated(s, n, pos)
<1>0. pos \in Nat
  OBVIOUS
<1>1. i \in Nat /\ r \in 0..99 /\ pos = 100 * i + r
  BY <1>0, Position
<1>2. p = IF i + 1 >= n THEN 100 * s[n] ELSE 100 * s[i + 1] + r * d
  BY DEF Interpolated, Before, After
<1> HIDE DEF i, r, p
<1>3. i + 1 \in 1..n
  BY <1>1
<1>4. CASE i + 1 = n
  <2>1. p = 100 * s[i + 1] /\ s[i + 1] \in Nat
    BY <1>2, <1>3, <1>4
  <2> QED  BY <1>3, <1>4, <2>1 DEF p, i, r
<1>5. CASE i + 1 < n
  <2>1. s[i + 1] \in Nat /\ s[i + 2] \in Nat /\ s[i + 1] <= s[i + 2]
    BY <1>1, <1>3, <1>5 DEF Ascending
  <2>2. p = 100 * s[i + 1] + r * d
    BY <1>1, <1>2, <1>5
  <2>3. d \in Nat /\ 100 * s[i + 1] + 100 * d = 100 * s[i + 2]
    BY <2>1
  <2> HIDE DEF d
  <2>4. 0 * d <= r * d /\ r * d <= 100 * d
    BY <1>1, <2>3, TimesKeepsOrder
  <2>5. r * d \in Int /\ (r = 0 => r * d = 0)
    BY <1>1, <2>3
  <2>6. p \in Int /\ 100 * s[i + 1] <= p /\ p <= 100 * s[i + 2] /\ (r = 0 => p = 100 * s[i + 1])
    BY <2>1, <2>2, <2>3, <2>4, <2>5
  <2> QED  BY <1>3, <1>5, <2>6 DEF p, i, r
<1> QED  BY <1>1, <1>3, <1>4, <1>5

LEMMA InterpolatedAscends ==
  ASSUME NEW n \in Nat \ {0}, NEW s \in [1..n -> Nat], Ascending(s, n),
         NEW pos \in 0..(100 * (n - 1)), NEW later \in 0..(100 * (n - 1)), pos <= later
  PROVE  Interpolated(s, n, pos) <= Interpolated(s, n, later)
<1> DEFINE i == Before(pos)
           a == After(pos)
           j == Before(later)
           b == After(later)
           d == s[i + 2] - s[i + 1]
           p == Interpolated(s, n, pos)
           q == Interpolated(s, n, later)
<1>0. pos \in Nat /\ later \in Nat
  OBVIOUS
<1>1. /\ i \in Nat /\ a \in 0..99 /\ pos = 100 * i + a
      /\ j \in Nat /\ b \in 0..99 /\ later = 100 * j + b
  BY <1>0, Position
<1>2. /\ p \in Int /\ i + 1 \in 1..n /\ 100 * s[i + 1] <= p
      /\ i + 1 < n => p <= 100 * s[i + 2]
      /\ i + 1 = n => p = 100 * s[i + 1]
  BY InterpolatedBetween
<1>3. /\ q \in Int /\ j + 1 \in 1..n /\ 100 * s[j + 1] <= q
      /\ j + 1 = n => q = 100 * s[j + 1]
  BY InterpolatedBetween
<1>4. i + 1 < n => p = 100 * s[i + 1] + a * d
  BY <1>1, <1>2 DEF Interpolated, Before, After
<1>5. j + 1 < n => q = 100 * s[j + 1] + b * (s[j + 2] - s[j + 1])
  BY <1>1, <1>3 DEF Interpolated, Before, After
<1> HIDE DEF i, a, j, b, p, q
<1>6. i <= j
  BY <1>1
<1>7. CASE i < j
  <2>1. i + 1 < n /\ i + 2 \in 1..n /\ i + 2 <= j + 1
    BY <1>1, <1>2, <1>3, <1>7
  <2>2. s[i + 2] <= s[j + 1] /\ s[i + 2] \in Nat /\ s[j + 1] \in Nat
    BY <1>3, <2>1 DEF Ascending
  <2>3. p <= q
    BY <1>2, <1>3, <2>1, <2>2
  <2> QED  BY <2>3 DEF p, q
<1>8. CASE i = j /\ i + 1 = n
  <2>1. p = q
    BY <1>2, <1>3, <1>8
  <2> QED  BY <1>2, <2>1 DEF p, q
<1>9. CASE i = j /\ i + 1 < n
  <2>1. s[i + 1] \in Nat /\ s[i + 2] \in Nat /\ s[i + 1] <= s[i + 2]
    BY <1>1, <1>2, <1>9 DEF Ascending
  <2>2. d \in Nat /\ a \in Nat /\ b \in Nat /\ a <= b
    BY <1>1, <1>9, <2>1
  <2>3. q = 100 * s[i + 1] + b * d
    BY <1>5, <1>9
  <2> HIDE DEF d
  <2>4. a * d <= b * d
    BY <2>2, TimesKeepsOrder
  <2>5. a * d \in Int /\ b * d \in Int
    BY <2>2
  <2>6. p <= q
    BY <1>4, <1>9, <2>1, <2>3, <2>4, <2>5
  <2> QED  BY <2>6 DEF p, q
<1> QED  BY <1>1, <1>2, <1>6, <1>7, <1>8, <1>9

(***************************************************************************)
(* How many samples there are on either side of a value of the sorted      *)
(* window.                                                                 *)
(***************************************************************************)
LEMMA AtMostCount ==
  ASSUME NEW n \in Nat, NEW w \in [1..n -> Nat], NEW a \in 1..n, NEW p \in Int,
         100 * Sorted(w)[a] <= p
  PROVE  AtMost(w, p) \in Nat /\ a <= AtMost(w, p)
<1> DEFINE S == {i \in DOMAIN w : 100 * w[i] <= p}
<1>1. IsFiniteSet(S) /\ Cardinality(S) \in Nat
  <2>1. IsFiniteSet(1..n) /\ S \in SUBSET (1..n)
    BY FS_Interval
  <2> QED  BY <2>1, FS_Subset, FS_CardinalityType
<1>2. Fastest(w, a) \in SUBSET S
  <2>1. Sorted(w)[a] \in Nat /\ \A i \in Fastest(w, a) : i \in 1..n /\ w[i] <= Sorted(w)[a]
    BY FastestBound DEF Fastest
  <2> QED  BY <2>1
<1>3. Cardinality(Fastest(w, a)) = a
  BY FastestCount
<1> HIDE DEF S
<1>4. a <= Cardinality(S)
  BY <1>1, <1>2, <1>3, FS_Subset
<1> QED  BY <1>1, <1>4 DEF AtMost, S

LEMMA AtLeastCount ==
  ASSUME NEW n \in Nat, NEW w \in [1..n -> Nat], NEW a \in 1..n, NEW p \in Int,
         p <= 100 * Sorted(w)[a]
  PROVE  AtLeast(w, p) \in Nat /\ n - a + 1 <= AtLeast(w, p)
<1> DEFINE S == {i \in DOMAIN w : 100 * w[i] >= p}
           F == Fastest(w, a - 1)
<1>1. IsFiniteSet(1..n) /\ Cardinality(1..n) = n
  BY FS_Interval
<1>2. IsFiniteSet(S) /\ Cardinality(S) \in Nat
  <2>1. S \in SUBSET (1..n)
    OBVIOUS
  <2> QED  BY <1>1, <2>1, FS_Subset, FS_CardinalityType
<1>3. (1..n) \ F \in SUBSET S
  <2>1. /\ Sorted(w) \in [1..n -> Nat]
        /\ \A i \in 1..n : Sorted(w)[Rank(w, i)] = w[i]
        /\ \A b, c \in 1..n : b <= c => Sorted(w)[b] <= Sorted(w)[c]
    BY SortedAscends
  <2>2. \A i \in 1..n : Rank(w, i) \in 1..n
    BY RankRange
  <2>3. ASSUME NEW i \in (1..n) \ F PROVE 100 * w[i] >= p
    <3>1. a <= Rank(w, i)
      BY <2>2 DEF Fastest
    <3>2. Sorted(w)[a] <= w[i] /\ Sorted(w)[a] \in Nat /\ w[i] \in Nat
      BY <2>1, <2>2, <3>1
    <3> QED  BY <3>2
  <2> QED  BY <2>3
<1>4. F \subseteq 1..n /\ Cardinality(F) = a - 1
  <2>1. a - 1 \in 0..n
    OBVIOUS
  <2> QED  BY <2>1, FastestCount
<1> HIDE DEF S, F
<1>5. Cardinality((1..n) \ F) = n - (a - 1)
  <2>1. Cardinality((1..n) \ F) = Cardinality(1..n) - Cardinality((1..n) \cap F)
    BY <1>1, FS_Difference
  <2>2. (1..n) \cap F = F
    BY <1>4
  <2> QED  BY <1>1, <1>4, <2>1, <2>2
<1>6. Cardinality((1..n) \ F) <= Cardinality(S)
  BY <1>2, <1>3, FS_Subset
<1> QED  BY <1>2, <1>5, <1>6 DEF AtLeast, S

(***************************************************************************)
(* With i whole samples before its position, a percentile of n samples has *)
(* i + 1 of them at or below it, n - i - 1 at or above, and one more above *)
(* when nothing is left to interpolate.                                    *)
(***************************************************************************)
LEMMA InterpolatedCounts ==
  ASSUME NEW n \in Nat \ {0}, NEW w \in [1..n -> Nat], NEW pos \in 0..(100 * (n - 1))
  PROVE  /\ Before(pos) + 1 <= AtMost(w, Interpolated(Sorted(w), n, pos))
         /\ n - Before(pos) - 1 <= AtLeast(w, Interpolated(Sorted(w), n, pos))
         /\ After(pos) = 0 => n - Before(pos) <= AtLeast(w, Interpolated(Sorted(w), n, pos))
         /\ AtMost(w, Interpolated(Sorted(w), n, pos)) \in Nat
         /\ AtLeast(w, Interpolated(Sorted(w), n, pos)) \in Nat
<1> DEFINE s == Sorted(w)
           p == Interpolated(s, n, pos)
           i == Before(pos)
           r == After(pos)
<1>0. n \in Nat /\ pos \in Nat
  OBVIOUS
<1>1. s \in [1..n -> Nat] /\ Ascending(s, n)
  BY SortedAscends DEF Ascending
<1>2. i \in Nat
  BY <1>0, Position
<1>3. /\ p \in Int /\ i + 1 \in 1..n /\ 100 * s[i + 1] <= p
      /\ i + 1 < n => p <= 100 * s[i + 2]
      /\ i + 1 = n \/ r = 0 => p = 100 * s[i + 1]
  BY <1>1, InterpolatedBetween
<1> HIDE DEF p, i, r
<1>4. AtMost(w, p) \in Nat /\ i + 1 <= AtMost(w, p)
  BY <1>0, <1>3, AtMostCount
<1>5. CASE i + 1 = n \/ r = 0
  <2>1. p <= 100 * s[i + 1]
    BY <1>1, <1>3, <1>5
  <2>2. AtLeast(w, p) \in Nat /\ n - (i + 1) + 1 <= AtLeast(w, p)
    BY <1>0, <1>3, <2>1, AtLeastCount
  <2>3. n - i - 1 <= AtLeast(w, p) /\ n - i <= AtLeast(w, p)
    BY <1>2, <2>2
  <2> QED  BY <1>4, <2>2, <2>3 DEF p, i, r
<1>6. CASE i + 1 < n /\ r # 0
  <2>1. i + 2 \in 1..n /\ p <= 100 * s[i + 2]
    BY <1>2, <1>3, <1>6
  <2>2. AtLeast(w, p) \in Nat /\ n - (i + 2) + 1 <= AtLeast(w, p)
    BY <1>0, <1>3, <2>1, AtLeastCount
  <2>3. n - i - 1 <= AtLeast(w, p)
    BY <1>2, <2>2
  <2> QED  BY <1>4, <1>6, <2>2, <2>3 DEF p, i, r
<1> QED  BY <1>3, <1>5, <1>6

(***************************************************************************)
(* A percentile q has its share of the n - 1 gaps between the samples on   *)
(* either side, and the median half of the samples.                        *)
(***************************************************************************)
LEMMA PercentileShares ==
  ASSUME NEW n \in Nat \ {0}, NEW w \in [1..n -> Nat], NEW q \in 0..100
  PROVE  /\ q * (n - 1) \in 0..(100 * (n - 1))
         /\ Percentile(Sorted(w), q) = Interpolated(Sorted(w), n, q * (n - 1))
         /\ 100 * AtMost(w, Percentile(Sorted(w), q)) >= q * (n - 1)
         /\ 100 * AtLeast(w, Percentile(Sorted(w), q)) >= (100 - q) * (n - 1)
<1> DEFINE pos == q * (n - 1)
           s   == Sorted(w)
           m   == AtMost(w, Interpolated(s, n, pos))
           l   == AtLeast(w, Interpolated(s, n, pos))
           i   == Before(pos)
           r   == After(pos)
<1>1. n - 1 \in Nat /\ q \in Int /\ q <= 100 /\ pos \in Nat
  OBVIOUS
<1>2. pos \in 0..(100 * (n - 1))
  <2>1. q * (n - 1) <= 100 * (n - 1)
    BY <1>1, TimesKeepsOrder
  <2> QED  BY <1>1, <2>1
<1>3. s \in [1..n -> Nat] /\ Len(s) = n
  <2>1. s \in [1..n -> Nat]
    BY SortedAscends
  <2> HIDE DEF s
  <2> QED  BY <2>1, LenOf
<1> HIDE DEF s
<1>4. Percentile(s, q) = Interpolated(s, n, pos)
  BY <1>3 DEF Percentile, Interpolated
<1>5. (100 - q) * (n - 1) = 100 * (n - 1) - pos
  BY <1>1
<1> HIDE DEF pos
<1>6. /\ i + 1 <= m /\ n - i - 1 <= l /\ m \in Nat /\ l \in Nat
  BY <1>2, InterpolatedCounts DEF s
<1>7. i \in Nat /\ r \in 0..99 /\ pos = 100 * i + r
  BY <1>1, Position
<1> HIDE DEF m, l, i, r
<1>8. 100 * m >= pos
  BY <1>6, <1>7
<1>9. 100 * l >= 100 * (n - 1) - pos
  BY <1>6, <1>7
<1> QED  BY <1>2, <1>4, <1>5, <1>8, <1>9 DEF m, l, pos, s

LEMMA MedianHalves ==
  ASSUME NEW n \in Nat \ {0}, NEW w \in [1..n -> Nat]
  PROVE  /\ 2 * AtMost(w, Percentile(Sorted(w), 50)) >= n
         /\ 2 * AtLeast(w, Percentile(Sorted(w), 50)) >= n
<1> DEFINE pos == 50 * (n - 1)
           m   == AtMost(w, Percentile(Sorted(w), 50))
           l   == AtLeast(w, Percentile(Sorted(w), 50))
           i   == Before(pos)
           r   == After(pos)
<1>1. /\ 50 \in 0..100 /\ pos \in Nat
  OBVIOUS
<1>2. pos \in 0..(100 * (n - 1)) /\ Percentile(Sorted(w), 50) = Interpolated(Sorted(w), n, pos)
  BY <1>1, PercentileShares
<1>3. /\ i + 1 <= m /\ n - i - 1 <= l /\ (r = 0 => n - i <= l) /\ m \in Nat /\ l \in Nat
  <2> HIDE DEF pos
  <2> QED  BY <1>2, InterpolatedCounts
<1>4. i \in Nat /\ r \in 0..99 /\ 50 * (n - 1) = 100 * i + r
  BY <1>1, Position
<1> HIDE DEF m, l, i, r
<1>5. 2 * m >= n
  BY <1>3, <1>4
<1>6. 2 * l >= n
  BY <1>3, <1>4
<1> QED  BY <1>5, <1>6 DEF m, l

LEMMA PercentilesOfWindow ==
  ASSUME NEW n \in Nat \ {0}, NEW w \in [1..n -> Nat], NEW trim
  PROVE  PercentilesFit(w, Compute(w, trim))
<1> DEFINE c == Compute(w, trim)
           s == Sorted(w)
           At(q) == Interpolated(s, n, q * (n - 1))
<1>1. Len(w) = n
  BY LenOf
<1>2. /\ c.min = s[1] /\ c.max = s[n]
      /\ c.median = Percentile(s, 50) /\ c.p95 = Percentile(s, 95) /\ c.p99 = Percentile(s, 99)
  BY <1>1 DEF Compute
<1>3. s \in [1..n -> Nat] /\ Ascending(s, n)
  BY SortedAscends DEF Ascending
<1>4. ASSUME NEW q \in {50, 95, 99}
      PROVE  /\ 100 * AtMost(w, Percentile(s, q)) >= q * (n - 1)
             /\ 100 * AtLeast(w, Percentile(s, q)) >= (100 - q) * (n - 1)
             /\ Percentile(s, q) = At(q)
             /\ q * (n - 1) \in 0..(100 * (n - 1))
  <2>1. q \in 0..100
    OBVIOUS
  <2> QED  BY <2>1, PercentileShares
<1>5. /\ 2 * AtMost(w, Percentile(s, 50)) >= n
      /\ 2 * AtLeast(w, Percentile(s, 50)) >= n
  BY MedianHalves
<1> HIDE DEF s, c
<1>6. Interpolated(s, n, 0) = 100 * s[1] /\ Interpolated(s, n, 100 * (n - 1)) = 100 * s[n]
  <2>1. 0 \div 100 = 0 /\ 0 % 100 = 0 /\ (100 * (n - 1)) \div 100 = n - 1
    OBVIOUS
  <2>2. Interpolated(s, n, 100 * (n - 1)) = 100 * s[n]
    BY <2>1 DEF Interpolated
  <2>3. 1 \in 1..n /\ s[1] \in Nat /\ (n > 1 => s[2] \in Nat)
    BY <1>3
  <2>4. n > 1 => Interpolated(s, n, 0) = 100 * s[1] + 0 * (s[2] - s[1])
    BY <2>1 DEF Interpolated
  <2>5. n = 1 => Interpolated(s, n, 0) = 100 * s[1]
    BY <2>1 DEF Interpolated
  <2> QED  BY <2>2, <2>3, <2>4, <2>5
<1>7. /\ 0 \in 0..(100 * (n - 1)) /\ 100 * (n - 1) \in 0..(100 * (n - 1))
      /\ 50 * (n - 1) \in 0..(100 * (n - 1)) /\ 95 * (n - 1) \in 0..(100 * (n - 1))
      /\ 99 * (n - 1) \in 0..(100 * (n - 1))
      /\ 0 <= 50 * (n - 1) /\ 50 * (n - 1) <= 95 * (n - 1)
      /\ 95 * (n - 1) <= 99 * (n - 1) /\ 99 * (n - 1) <= 100 * (n - 1)
  OBVIOUS
<1>8. Interpolated(s, n, 0) <= At(50)
  BY <1>3, <1>7, InterpolatedAscends
<1>9. At(50) <= At(95)
  BY <1>3, <1>7, InterpolatedAscends
<1>10. At(95) <= At(99)
  BY <1>3, <1>7, InterpolatedAscends
<1>11. At(99) <= Interpolated(s, n, 100 * (n - 1))
  BY <1>3, <1>7, InterpolatedAscends
<1>12. c.median = At(50) /\ c.p95 = At(95) /\ c.p99 = At(99)
  BY <1>2, <1>4
<1>13. /\ 100 * c.min <= c.median /\ c.median <= c.p95
       /\ c.p95 <= c.p99 /\ c.p99 <= 100 * c.max
  BY <1>2, <1>6, <1>8, <1>9, <1>10, <1>11, <1>12
<1>14. /\ 100 * AtMost(w, c.median) >= 50 * (n - 1)
       /\ 100 * AtLeast(w, c.median) >= (100 - 50) * (n - 1)
       /\ 100 * AtMost(w, c.p95) >= 95 * (n - 1)
       /\ 100 * AtLeast(w, c.p95) >= (100 - 95) * (n - 1)
       /\ 100 * AtMost(w, c.p99) >= 99 * (n - 1)
       /\ 100 * AtLeast(w, c.p99) >= (100 - 99) * (n - 1)
  BY <1>2, <1>4
<1>15. ASSUME NEW q \in {<<50, c.median>>, <<95, c.p95>>, <<99, c.p99>>}
       PROVE  /\ 100 * AtMost(w, q[2]) >= q[1] * (n - 1)
              /\ 100 * AtLeast(w, q[2]) >= (100 - q[1]) * (n - 1)
  <2>1. CASE q = <<50, c.median>>
    BY <1>14, <2>1
  <2>2. CASE q = <<95, c.p95>>
    BY <1>14, <2>2
  <2>3. CASE q = <<99, c.p99>>
    BY <1>14, <2>3
  <2> QED  BY <2>1, <2>2, <2>3
<1>16. 2 * AtMost(w, c.median) >= n /\ 2 * AtLeast(w, c.median) >= n
  BY <1>2, <1>5
<1>17. PercentilesFit(w, c)
  BY <1>1, <1>13, <1>15, <1>16 DEF PercentilesFit
<1> QED  BY <1>17 DEF c
-----------------------------------------------------------------------------
(***************************************************************************)
(* The variance.  The squares of s, and the squares of c s - t, which add  *)
(* up to a polynomial in the sums of s and of its squares.                 *)
(***************************************************************************)
Squares(s, m)       == [i \in 1..m |-> s[i] * s[i]]
Offsets(s, m, c, t) == [i \in 1..m |-> (c * s[i] - t) * (c * s[i] - t)]

LEMMA PrefixSums ==
  ASSUME NEW m \in Nat, NEW f, \A i \in 1..m : f[i] \in Int
  PROVE  /\ SumOver(f, 1..0) = 0
         /\ \A k \in 0..m : SumOver(f, 1..k) \in Int
         /\ \A k \in Nat : k < m => SumOver(f, 1..(k + 1)) = SumOver(f, 1..k) + f[k + 1]
<1>1. SumOver(f, 1..0) = 0
  <2>1. 1..0 = {}
    OBVIOUS
  <2> QED  BY <2>1, SumOfNothing
<1>2. ASSUME NEW k \in 0..m PROVE SumOver(f, 1..k) \in Int
  <2>1. IsFiniteSet(1..k) /\ \A i \in 1..k : f[i] \in Int
    BY FS_Interval
  <2> QED  BY <2>1, SumIsInteger
<1>3. ASSUME NEW k \in Nat, k < m
      PROVE  SumOver(f, 1..(k + 1)) = SumOver(f, 1..k) + f[k + 1]
  <2>1. \A i \in 1..(k + 1) : f[i] \in Int
    BY <1>3
  <2> QED  BY <2>1, SumToNext
<1> QED  BY <1>1, <1>2, <1>3

LEMMA SquareStep ==
  ASSUME NEW q \in Int, NEW a \in Int, NEW x \in Int, NEW c \in Int, NEW t \in Int, NEW k \in Int
  PROVE  ((c * c) * q - 2 * ((c * t) * a) + k * (t * t)) + (c * x - t) * (c * x - t)
           = (c * c) * (q + x * x) - 2 * ((c * t) * (a + x)) + (k + 1) * (t * t)
OBVIOUS

LEMMA SumOfOffsets ==
  ASSUME NEW m \in Nat, NEW s \in [1..m -> Int], NEW c \in Int, NEW t \in Int, NEW n \in 0..m
  PROVE  SumOver(Offsets(s, m, c, t), 1..n)
           = (c * c) * SumOver(Squares(s, m), 1..n) - 2 * ((c * t) * SumOver(s, 1..n))
               + n * (t * t)
<1> DEFINE off  == Offsets(s, m, c, t)
           sq   == Squares(s, m)
           O(k) == SumOver(off, 1..k)
           Q(k) == SumOver(sq, 1..k)
           S(k) == SumOver(s, 1..k)
           Good == {k \in Nat : k <= m =>
                      O(k) = (c * c) * Q(k) - 2 * ((c * t) * S(k)) + k * (t * t)}
<1>1. \A i \in 1..m : /\ s[i] \in Int
                      /\ sq[i] = s[i] * s[i] /\ sq[i] \in Int
                      /\ off[i] = (c * s[i] - t) * (c * s[i] - t) /\ off[i] \in Int
  BY DEF Squares, Offsets
<1> HIDE DEF off, sq
<1>2. /\ O(0) = 0 /\ \A k \in Nat : k < m => O(k + 1) = O(k) + off[k + 1]
      /\ Q(0) = 0 /\ (\A k \in 0..m : Q(k) \in Int)
      /\ \A k \in Nat : k < m => Q(k + 1) = Q(k) + sq[k + 1]
      /\ S(0) = 0 /\ (\A k \in 0..m : S(k) \in Int)
      /\ \A k \in Nat : k < m => S(k + 1) = S(k) + s[k + 1]
  <2>1. /\ \A i \in 1..m : off[i] \in Int
        /\ \A i \in 1..m : sq[i] \in Int
        /\ \A i \in 1..m : s[i] \in Int
    BY <1>1
  <2>2. /\ SumOver(off, 1..0) = 0
        /\ \A k \in Nat : k < m => SumOver(off, 1..(k + 1)) = SumOver(off, 1..k) + off[k + 1]
    BY <2>1, PrefixSums
  <2>3. /\ SumOver(sq, 1..0) = 0
        /\ \A k \in 0..m : SumOver(sq, 1..k) \in Int
        /\ \A k \in Nat : k < m => SumOver(sq, 1..(k + 1)) = SumOver(sq, 1..k) + sq[k + 1]
    BY <2>1, PrefixSums
  <2>4. /\ SumOver(s, 1..0) = 0
        /\ \A k \in 0..m : SumOver(s, 1..k) \in Int
        /\ \A k \in Nat : k < m => SumOver(s, 1..(k + 1)) = SumOver(s, 1..k) + s[k + 1]
    BY <2>1, PrefixSums
  <2> QED  BY <2>2, <2>3, <2>4
<1> HIDE DEF O, Q, S
<1>3. 0 \in Good
  BY <1>2
<1>4. ASSUME NEW k \in Good PROVE k + 1 \in Good
  <2> SUFFICES ASSUME k < m
               PROVE  O(k + 1) = (c * c) * Q(k + 1) - 2 * ((c * t) * S(k + 1)) + (k + 1) * (t * t)
    OBVIOUS
  <2>1. /\ k \in Nat /\ k \in 0..m /\ k + 1 \in 1..m
        /\ O(k) = (c * c) * Q(k) - 2 * ((c * t) * S(k)) + k * (t * t)
    BY <1>4
  <2> HIDE DEF Good
  <2>2. Q(k) \in Int /\ S(k) \in Int /\ s[k + 1] \in Int
    BY <1>2, <2>1
  <2>3. /\ O(k + 1) = O(k) + (c * s[k + 1] - t) * (c * s[k + 1] - t)
        /\ Q(k + 1) = Q(k) + s[k + 1] * s[k + 1] /\ S(k + 1) = S(k) + s[k + 1]
    BY <1>1, <1>2, <2>1
  <2>4. ((c * c) * Q(k) - 2 * ((c * t) * S(k)) + k * (t * t))
             + (c * s[k + 1] - t) * (c * s[k + 1] - t)
          = (c * c) * (Q(k) + s[k + 1] * s[k + 1]) - 2 * ((c * t) * (S(k) + s[k + 1]))
              + (k + 1) * (t * t)
    <3>1. k \in Int
      BY <2>1
    <3> DEFINE q == Q(k)
               a == S(k)
               x == s[k + 1]
    <3>2. q \in Int /\ a \in Int /\ x \in Int
      BY <2>2
    <3> HIDE DEF q, a, x
    <3>3. ((c * c) * q - 2 * ((c * t) * a) + k * (t * t)) + (c * x - t) * (c * x - t)
            = (c * c) * (q + x * x) - 2 * ((c * t) * (a + x)) + (k + 1) * (t * t)
      BY <3>1, <3>2, SquareStep
    <3> QED  BY <3>3 DEF q, a, x
  <2> QED  BY <2>1, <2>3, <2>4, Zenon
<1>5. \A k \in Nat : k \in Good
  BY <1>3, <1>4, EveryNatural
<1> QED  BY <1>5 DEF O, Q, S, off, sq

(***************************************************************************)
(* The squared differences of all pairs add up to m times the sum of the   *)
(* squares less the square of the sum.                                     *)
(***************************************************************************)
LEMMA DifferencesAre ==
  ASSUME NEW m \in Nat, NEW s \in [1..m -> Int], NEW k \in Nat, k < m
  PROVE  /\ DifferencesTo(s, k + 1) \in Int
         /\ DifferencesTo(s, k + 1)
              = SumOver(Squares(s, m), 1..k) - 2 * (s[k + 1] * SumOver(s, 1..k))
                  + k * (s[k + 1] * s[k + 1])
<1> DEFINE x    == s[k + 1]
           off  == Offsets(s, m, 1, x)
           diff == [i \in 1..k |-> (s[i] - x) * (s[i] - x)]
           q    == SumOver(Squares(s, m), 1..k)
           a    == SumOver(s, 1..k)
<1>1. x \in Int /\ 1 \in Int /\ k \in 0..m
  OBVIOUS
<1>2. (k + 1) - 1 = k
  OBVIOUS
<1>3. DifferencesTo(s, k + 1) = SumOver(diff, 1..k)
  BY <1>2 DEF DifferencesTo
<1>4. \A i \in 1..m : /\ s[i] \in Int
                      /\ Squares(s, m)[i] \in Int
                      /\ off[i] = (1 * s[i] - x) * (1 * s[i] - x)
  BY DEF Squares, Offsets
<1> HIDE DEF x
<1>5. \A i \in 1..k : diff[i] \in Int /\ off[i] = diff[i]
  BY <1>1, <1>4
<1>6. IsFiniteSet(1..k)
  BY FS_Interval
<1> HIDE DEF off, diff
<1>7. SumOver(off, 1..k) = SumOver(diff, 1..k) /\ SumOver(diff, 1..k) \in Int
  BY <1>5, <1>6, SumSame, SumIsInteger
<1>8. SumOver(off, 1..k) = (1 * 1) * q - 2 * ((1 * x) * a) + k * (x * x)
  BY <1>1, SumOfOffsets DEF off
<1>9. q \in Int /\ a \in Int
  <2>1. (\A i \in 1..k : Squares(s, m)[i] \in Int) /\ \A i \in 1..k : s[i] \in Int
    BY <1>4
  <2> QED  BY <1>6, <2>1, SumIsInteger
<1> HIDE DEF q, a
<1>10. (1 * 1) * q - 2 * ((1 * x) * a) + k * (x * x) = q - 2 * (x * a) + k * (x * x)
  BY <1>1, <1>9
<1> QED  BY <1>3, <1>7, <1>8, <1>10 DEF x, q, a

LEMMA PairStep ==
  ASSUME NEW q \in Int, NEW a \in Int, NEW x \in Int, NEW k \in Int
  PROVE  (k * q - a * a) + (q - 2 * (x * a) + k * (x * x))
           = (k + 1) * (q + x * x) - (a + x) * (a + x)
OBVIOUS

LEMMA PairDifferencesAre ==
  ASSUME NEW m \in Nat, NEW s \in [1..m -> Int]
  PROVE  PairDifferences(s)
           = m * SumOver(Squares(s, m), 1..m) - SumOver(s, 1..m) * SumOver(s, 1..m)
<1> DEFINE to   == [j \in 1..m |-> DifferencesTo(s, j)]
           sq   == Squares(s, m)
           D(k) == SumOver(to, 1..k)
           Q(k) == SumOver(sq, 1..k)
           S(k) == SumOver(s, 1..k)
           Good == {k \in Nat : k <= m => D(k) = k * Q(k) - S(k) * S(k)}
<1>1. \A k \in Nat : k < m =>
        /\ to[k + 1] \in Int
        /\ to[k + 1] = Q(k) - 2 * (s[k + 1] * S(k)) + k * (s[k + 1] * s[k + 1])
  <2> SUFFICES ASSUME NEW k \in Nat, k < m
               PROVE  /\ to[k + 1] \in Int
                      /\ to[k + 1] = Q(k) - 2 * (s[k + 1] * S(k)) + k * (s[k + 1] * s[k + 1])
    OBVIOUS
  <2>1. to[k + 1] = DifferencesTo(s, k + 1)
    OBVIOUS
  <2> HIDE DEF to
  <2>2. /\ DifferencesTo(s, k + 1) \in Int
        /\ DifferencesTo(s, k + 1) = Q(k) - 2 * (s[k + 1] * S(k)) + k * (s[k + 1] * s[k + 1])
    BY DifferencesAre
  <2> QED  BY <2>1, <2>2
<1>2. \A i \in 1..m : s[i] \in Int /\ sq[i] = s[i] * s[i] /\ sq[i] \in Int
  BY DEF Squares
<1> HIDE DEF to, sq
<1>3. \A i \in 1..m : to[i] \in Int
  <2>1. ASSUME NEW i \in 1..m PROVE to[i] \in Int
    <3>1. i - 1 \in Nat /\ i - 1 < m /\ (i - 1) + 1 = i
      OBVIOUS
    <3>2. to[(i - 1) + 1] \in Int
      BY <1>1, <3>1
    <3> QED  BY <3>1, <3>2
  <2> QED  BY <2>1
<1>4. /\ SumOver(to, 1..0) = 0
      /\ \A k \in Nat : k < m => SumOver(to, 1..(k + 1)) = SumOver(to, 1..k) + to[k + 1]
  BY <1>3, PrefixSums
<1>5. /\ SumOver(sq, 1..0) = 0
      /\ \A k \in 0..m : SumOver(sq, 1..k) \in Int
      /\ \A k \in Nat : k < m => SumOver(sq, 1..(k + 1)) = SumOver(sq, 1..k) + sq[k + 1]
  <2>1. \A i \in 1..m : sq[i] \in Int
    BY <1>2
  <2> QED  BY <2>1, PrefixSums
<1>6. /\ SumOver(s, 1..0) = 0
      /\ \A k \in 0..m : SumOver(s, 1..k) \in Int
      /\ \A k \in Nat : k < m => SumOver(s, 1..(k + 1)) = SumOver(s, 1..k) + s[k + 1]
  <2>1. \A i \in 1..m : s[i] \in Int
    BY <1>2
  <2> QED  BY <2>1, PrefixSums
<1>7. 0 \in Good
  BY <1>4, <1>5, <1>6
<1>8. ASSUME NEW k \in Good PROVE k + 1 \in Good
  <2> SUFFICES ASSUME k < m
               PROVE  D(k + 1) = (k + 1) * Q(k + 1) - S(k + 1) * S(k + 1)
    OBVIOUS
  <2>1. /\ k \in Nat /\ k \in Int /\ k \in 0..m /\ k + 1 \in 1..m
        /\ D(k) = k * Q(k) - S(k) * S(k)
    BY <1>8
  <2> HIDE DEF Good
  <2> DEFINE q == Q(k)
             a == S(k)
             x == s[k + 1]
  <2>2. q \in Int /\ a \in Int /\ x \in Int
    BY <1>2, <1>5, <1>6, <2>1
  <2>3. D(k + 1) = D(k) + to[k + 1]
    BY <1>4, <2>1
  <2>4. to[k + 1] = q - 2 * (x * a) + k * (x * x)
    BY <1>1, <2>1
  <2>5. Q(k + 1) = q + x * x
    BY <1>2, <1>5, <2>1
  <2>6. S(k + 1) = a + x
    BY <1>6, <2>1
  <2>7. D(k) = k * q - a * a
    BY <2>1
  <2> HIDE DEF D, Q, S, q, a, x
  <2>8. (k * q - a * a) + (q - 2 * (x * a) + k * (x * x))
          = (k + 1) * (q + x * x) - (a + x) * (a + x)
    BY <2>1, <2>2, PairStep
  <2> QED  BY <2>3, <2>4, <2>5, <2>6, <2>7, <2>8, Zenon
<1>9. \A k \in Nat : k \in Good
  BY <1>7, <1>8, EveryNatural
<1>10. D(m) = m * Q(m) - S(m) * S(m)
  BY <1>9
<1>11. PairDifferences(s) = D(m)
  BY DEF PairDifferences, Sum, to
<1> QED  BY <1>10, <1>11 DEF sq

(***************************************************************************)
(* The deviations from the mean, in two passes, are the squared            *)
(* differences of all pairs.                                               *)
(***************************************************************************)
LEMMA SpreadStep ==
  ASSUME NEW q \in Int, NEW a \in Int, NEW m \in Int
  PROVE  (m * m) * q - 2 * ((m * a) * a) + m * (a * a) = m * (m * q - a * a)
OBVIOUS

LEMMA DeviationIs ==
  ASSUME NEW m \in Nat \ {0}, NEW s \in [1..m -> Int]
  PROVE  Deviation(s, Sum(s), m) = m * PairDifferences(s)
<1> DEFINE q == SumOver(Squares(s, m), 1..m)
           a == SumOver(s, 1..m)
<1>0. m \in Nat /\ m \in Int /\ m \in 0..m
  OBVIOUS
<1>1. \A i \in 1..m : s[i] \in Int /\ Squares(s, m)[i] = s[i] * s[i] /\ Squares(s, m)[i] \in Int
  BY DEF Squares
<1>2. q \in Int /\ a \in Int
  <2>1. (\A i \in 1..m : Squares(s, m)[i] \in Int) /\ \A i \in 1..m : s[i] \in Int
    BY <1>1
  <2>2. IsFiniteSet(1..m)
    BY <1>0, FS_Interval
  <2> QED  BY <2>1, <2>2, SumIsInteger
<1>3. Sum(s) = a
  BY DEF Sum
<1>4. PairDifferences(s) = m * q - a * a
  BY <1>0, PairDifferencesAre
<1>5. SumOver(Offsets(s, m, m, a), 1..m) = (m * m) * q - 2 * ((m * a) * a) + m * (a * a)
  <2> HIDE DEF a
  <2>1. SumOver(Offsets(s, m, m, a), 1..m)
          = (m * m) * SumOver(Squares(s, m), 1..m) - 2 * ((m * a) * SumOver(s, 1..m)) + m * (a * a)
    BY <1>0, <1>2, SumOfOffsets
  <2> QED  BY <2>1 DEF a
<1> HIDE DEF q, a
<1>6. CASE m >= 2
  <2>1. Deviation(s, a, m) = SumOver(Offsets(s, m, m, a), 1..m)
    BY <1>6 DEF Deviation, Sum, Offsets
  <2>2. (m * m) * q - 2 * ((m * a) * a) + m * (a * a) = m * (m * q - a * a)
    BY <1>0, <1>2, SpreadStep
  <2> QED  BY <1>3, <1>4, <1>5, <2>1, <2>2, Zenon
<1>7. CASE m < 2
  <2>1. m = 1 /\ 1..0 = {} /\ 0 \in Nat /\ 0 < m /\ 0 + 1 = 1
    BY <1>7
  <2>2. a = SumOver(s, {}) + s[1] /\ q = SumOver(Squares(s, m), {}) + Squares(s, m)[1]
    <3>1. /\ \A i \in 1..(0 + 1) : s[i] \in Int
          /\ \A i \in 1..(0 + 1) : Squares(s, m)[i] \in Int
      BY <1>1, <2>1
    <3>2. /\ SumOver(s, 1..(0 + 1)) = SumOver(s, 1..0) + s[0 + 1]
          /\ SumOver(Squares(s, m), 1..(0 + 1))
               = SumOver(Squares(s, m), 1..0) + Squares(s, m)[0 + 1]
      BY <2>1, <3>1, SumToNext
    <3> QED  BY <2>1, <3>2 DEF a, q
  <2>3. a = s[1] /\ q = s[1] * s[1] /\ s[1] \in Int
    BY <1>1, <2>1, <2>2, SumOfNothing
  <2>4. m * (m * q - a * a) = 0
    BY <2>1, <2>3
  <2>5. Deviation(s, a, m) = 0
    BY <1>7 DEF Deviation
  <2> QED  BY <1>3, <1>4, <2>4, <2>5
<1> QED  BY <1>0, <1>6, <1>7

LEMMA PairDifferencesSorted ==
  ASSUME NEW n \in Nat, NEW w \in [1..n -> Nat]
  PROVE  PairDifferences(Sorted(w)) = PairDifferences(w)
<1> DEFINE s == Sorted(w)
<1>1. s \in [1..n -> Nat] /\ (\A a \in 1..n : s[a] = w[Ranked(w, a)])
  BY SortedAscends
<1>2. \A a \in 1..n : Ranked(w, a) \in 1..n
  BY RankedHasRank
<1> HIDE DEF s
<1>3. Fastest(w, n) = 1..n /\ n \in 0..n
  BY FastestCount
<1>4. SumOver(s, 1..n) = SumOver(w, 1..n)
  <2>1. (\A i \in 1..n : w[i] \in Int) /\ \A a \in 1..n : s[a] = w[Ranked(w, a)]
    BY <1>1
  <2>2. SumOver(s, 1..n) = SumOver(w, Fastest(w, n))
    BY <1>3, <2>1, SumInOrder
  <2> QED  BY <1>3, <2>2
<1>5. SumOver(Squares(s, n), 1..n) = SumOver(Squares(w, n), 1..n)
  <2> DEFINE f == Squares(w, n)
             g == Squares(s, n)
  <2>1. \A i \in 1..n : f[i] \in Int
    BY DEF Squares
  <2>2. \A a \in 1..n : g[a] = f[Ranked(w, a)]
    BY <1>1, <1>2 DEF Squares
  <2> HIDE DEF f, g
  <2>3. SumOver(g, 1..n) = SumOver(f, Fastest(w, n))
    BY <1>3, <2>1, <2>2, SumInOrder
  <2> QED  BY <1>3, <2>3 DEF f, g
<1>6. s \in [1..n -> Int] /\ w \in [1..n -> Int]
  BY <1>1
<1>7. PairDifferences(s)
        = n * SumOver(Squares(s, n), 1..n) - SumOver(s, 1..n) * SumOver(s, 1..n)
  BY <1>6, PairDifferencesAre
<1>8. PairDifferences(w)
        = n * SumOver(Squares(w, n), 1..n) - SumOver(w, 1..n) * SumOver(w, 1..n)
  BY <1>6, PairDifferencesAre
<1> QED  BY <1>4, <1>5, <1>7, <1>8, Zenon DEF s

LEMMA DeviationOfWindow ==
  ASSUME NEW n \in Nat \ {0}, NEW w \in [1..n -> Nat], NEW trim \in Nat
  PROVE  DeviationFits(w, Compute(w, trim))
<1> DEFINE c == Compute(w, trim)
           s == Sorted(w)
           k == n - Drop(n, trim)
           kept == SubSeq(s, 1, k)
<1>1. Len(w) = n
  BY LenOf
<1>2. /\ c.trimmed = k
      /\ c.deviation = Deviation(s, Sum(s), n)
      /\ c.trimmed_deviation = Deviation(kept, Sum(kept), k)
  BY <1>1 DEF Compute
<1>3. k \in 1..n
  <2>1. Drop(n, trim) \in 0..(n - 1)
    BY DropLeavesTwo
  <2> QED  BY <2>1
<1>4. s \in [1..n -> Nat] /\ s \in [1..n -> Int]
  <2>1. s \in [1..n -> Nat]
    BY SortedAscends
  <2> HIDE DEF s
  <2> QED  BY <2>1
<1> HIDE DEF c, k, s
<1>5. s \in Seq(Nat) /\ Len(s) = n
  BY <1>4, LenOf
<1>6. kept \in [1..k -> Int] /\ k \in Nat \ {0}
  <2>1. k \in Nat \ {0} /\ k <= n
    BY <1>3
  <2>2. kept \in Seq(Nat) /\ Len(kept) = k /\ \A i \in 1..k : kept[i] = s[i]
    BY <1>3, <1>5, SubSeqProperties
  <2>3. \A i \in 1..k : kept[i] \in Int
    BY <1>3, <1>4, <2>2
  <2> HIDE DEF kept
  <2>4. kept = [i \in 1..k |-> kept[i]]
    BY <2>1, <2>2
  <2> QED  BY <2>1, <2>3, <2>4
<1> HIDE DEF kept
<1>7. Deviation(s, Sum(s), n) = n * PairDifferences(s)
  BY <1>4, DeviationIs
<1>8. Deviation(kept, Sum(kept), k) = k * PairDifferences(kept)
  BY <1>6, DeviationIs
<1>9. PairDifferences(s) = PairDifferences(w)
  BY PairDifferencesSorted DEF s
<1>10. c.deviation = Len(w) * PairDifferences(w)
  BY <1>1, <1>2, <1>7, <1>9, Zenon
<1>11. c.trimmed_deviation = c.trimmed * PairDifferences(SubSeq(Sorted(w), 1, c.trimmed))
  BY <1>2, <1>8, Zenon DEF kept, s
<1>12. DeviationFits(w, c)
  BY <1>10, <1>11, Zenon DEF DeviationFits
<1> QED  BY <1>12 DEF c

(***************************************************************************)
(* Every statistic Compute reports is its definition on the unsorted       *)
(* window, whatever the capacity, the samples and the trim fraction:       *)
(* interpolating between two ranks of the sorted copy puts the stated      *)
(* share of the samples on each side of each percentile, and the two       *)
(* passes of the variance add up the squared differences of all pairs      *)
(* ("Linear-interpolated percentile", "Two-pass variance",                 *)
(* src/src/profiler.hpp:168 and 194).                                      *)
(***************************************************************************)
THEOREM StatisticsAreByDefinition == Spec => []StatisticsByDefinition
<1>1. TypeOK => StatisticsByDefinition
  <2> SUFFICES ASSUME TypeOK, size > 0, NEW trim \in Trims
               PROVE  /\ PercentilesFit(Live, Compute(Live, trim))
                      /\ DeviationFits(Live, Compute(Live, trim))
    BY DEF StatisticsByDefinition
  <2>1. trim \in Nat
    BY ProfilerAssumption
  <2> QED  BY <2>1, LiveIsWindow, PercentilesOfWindow, DeviationOfWindow
<1>2. RingInv => TypeOK
  BY DEF RingInv
<1> QED  BY <1>1, <1>2, RingInvariant, PTL
=============================================================================
