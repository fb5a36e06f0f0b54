-------------------------- MODULE AllocTrackerProofs --------------------------
(***************************************************************************)
(* A scope reads what its thread allocated, and the counters of the        *)
(* process are the sums of those of the threads, for any number of threads.*)
(***************************************************************************)
EXTENDS AllocTracker, FiniteSetTheorems, NaturalsInduction, WellFoundedInduction, TLAPS

(***************************************************************************)
(* The invariant: a thread's counter lags behind its calls exactly while   *)
(* it is between the first atomic and its own counter, and a scope begins  *)
(* and ends when the render thread is not.                                 *)
(***************************************************************************)
Counting(t) == pc[t] \in {"bytes", "own"}

ScopeInv ==
  /\ tls_allocs \in [Threads -> Int] /\ news \in [Threads -> Int]
  /\ news_at_entry \in Int
  /\ pc \in [Threads -> {"idle", "bytes", "own", "malloc", "release"}]
  /\ \A t \in Threads : tls_allocs[t] = IF Counting(t) THEN news[t] - 1 ELSE news[t]
  /\ entry # NoScope => entry.allocs = news_at_entry
  /\ hot_path_allocations = measured

LEMMA RenderIsThread == Render \in Threads
BY DEF Threads

LEMMA ScopeInit == Init => ScopeInv
<1> SUFFICES ASSUME Init PROVE ScopeInv  OBVIOUS
<1> QED  BY DEF Init, ScopeInv, NoneYet, Counting

(***************************************************************************)
(* One thread's step into or out of a call.                                *)
(***************************************************************************)
LEMMA CallStep ==
  ASSUME ScopeInv, NEW t \in Threads,
         CountCall(t) \/ CountBytes(t) \/ CountOwn(t) \/ Malloc(t) \/ Release(t) \/ ReleaseOwn(t)
  PROVE  ScopeInv'
<1>1. /\ entry' = entry /\ news_at_entry' = news_at_entry
      /\ hot_path_allocations' = hot_path_allocations /\ measured' = measured
  BY DEF CountCall, CountBytes, CountOwn, Malloc, Release, ReleaseOwn, scopeVars
<1>2. CASE CountCall(t)
  <2>1. /\ pc[t] = "idle" /\ pc' = [pc EXCEPT ![t] = "bytes"]
        /\ news' = [news EXCEPT ![t] = @ + 1] /\ tls_allocs' = tls_allocs
    BY <1>2 DEF CountCall, At, Plus1
  <2>2. \A u \in Threads : tls_allocs'[u] = IF pc'[u] \in {"bytes", "own"}
                                              THEN news'[u] - 1 ELSE news'[u]
    BY <2>1, SMT DEF ScopeInv, Counting
  <2> QED  BY <1>1, <2>1, <2>2, SMT DEF ScopeInv, Counting
<1>3. CASE CountOwn(t)
  <2>1. /\ pc[t] = "own" /\ pc' = [pc EXCEPT ![t] = "malloc"]
        /\ tls_allocs' = [tls_allocs EXCEPT ![t] = @ + 1] /\ news' = news
    BY <1>3 DEF CountOwn, At, Plus1
  <2>2. \A u \in Threads : tls_allocs'[u] = IF pc'[u] \in {"bytes", "own"}
                                              THEN news'[u] - 1 ELSE news'[u]
    BY <2>1, SMT DEF ScopeInv, Counting
  <2> QED  BY <1>1, <2>1, <2>2, SMT DEF ScopeInv, Counting
<1>4. CASE CountBytes(t)
  <2>1. /\ pc[t] = "bytes" /\ pc' = [pc EXCEPT ![t] = "own"]
        /\ tls_allocs' = tls_allocs /\ news' = news
    BY <1>4 DEF CountBytes, At
  <2> QED  BY <1>1, <2>1, SMT DEF ScopeInv, Counting
<1>5. CASE Malloc(t) \/ Release(t) \/ ReleaseOwn(t)
  <2>1. \E from \in {"malloc", "idle", "release"}, to \in {"idle", "release"} :
          pc[t] = from /\ pc' = [pc EXCEPT ![t] = to]
    BY <1>5 DEF Malloc, Release, ReleaseOwn, At
  <2>2. tls_allocs' = tls_allocs /\ news' = news
    BY <1>5 DEF Malloc, Release, ReleaseOwn
  <2> QED  BY <1>1, <2>1, <2>2, SMT DEF ScopeInv, Counting
<1> QED  BY <1>2, <1>3, <1>4, <1>5

(***************************************************************************)
(* What an open scope would read now.                                      *)
(***************************************************************************)
LEMMA ReadsOwn ==
  ASSUME ScopeInv, entry # NoScope, pc[Render] = "idle"
  PROVE  ThreadCounts.allocs - entry.allocs = news[Render] - news_at_entry
<1>1. ThreadCounts.allocs = tls_allocs[Render]  BY DEF ThreadCounts
<1>2. tls_allocs[Render] = news[Render]  BY RenderIsThread DEF ScopeInv, Counting
<1> QED  BY <1>1, <1>2 DEF ScopeInv

(***************************************************************************)
(* A scope begins and ends while the render thread is in no call.          *)
(***************************************************************************)
LEMMA ScopeStep ==
  ASSUME ScopeInv, BeginScope \/ \E sampled \in BOOLEAN : EndScope(sampled)
  PROVE  ScopeInv'
<1>1. tls_allocs' = tls_allocs /\ news' = news /\ pc' = pc
  BY DEF BeginScope, EndScope
<1>2. CASE BeginScope
  <2>1. /\ entry' = ThreadCounts /\ news_at_entry' = news[Render] /\ pc[Render] = "idle"
        /\ hot_path_allocations' = hot_path_allocations /\ measured' = measured
    BY <1>2 DEF BeginScope
  <2>2. entry'.allocs = tls_allocs[Render]  BY <2>1 DEF ThreadCounts
  <2>3. tls_allocs[Render] = news[Render]  BY <2>1, RenderIsThread DEF ScopeInv, Counting
  <2>4. news[Render] \in Int  BY RenderIsThread DEF ScopeInv
  <2> QED  BY <1>1, <2>1, <2>2, <2>3, <2>4 DEF ScopeInv, Counting
<1>3. ASSUME NEW sampled \in BOOLEAN, EndScope(sampled)
      PROVE  ScopeInv'
  <2>1. /\ entry' = NoScope /\ news_at_entry' = news_at_entry
        /\ entry # NoScope /\ pc[Render] = "idle"
    BY <1>3 DEF EndScope
  <2>2. NoScope' = NoScope  BY DEF NoScope
  <2>3. ThreadCounts.allocs - entry.allocs = news[Render] - news_at_entry
    BY <2>1, ReadsOwn
  <2>4. hot_path_allocations' = measured'
    BY <1>3, <2>3 DEF EndScope, ScopeInv
  <2> QED  BY <1>1, <2>1, <2>2, <2>4 DEF ScopeInv, Counting
<1> QED  BY <1>2, <1>3

(***************************************************************************)
(* What a scope reads at any point outside a call is what its own thread   *)
(* allocated in it, whatever the other threads do, and so is the count on  *)
(* display of the last sampled scope.                                      *)
(***************************************************************************)
THEOREM ScopesReadTheirThread == Spec => []ScopeReadsOwn
<1>1. Init => ScopeInv  BY ScopeInit
<1>2. ScopeInv /\ [Next]_vars => ScopeInv'
  <2> SUFFICES ASSUME ScopeInv, [Next]_vars PROVE ScopeInv'  OBVIOUS
  <2>1. ASSUME NEW t \in Threads,
               CountCall(t) \/ CountBytes(t) \/ CountOwn(t) \/ Malloc(t) \/ Release(t)
                 \/ ReleaseOwn(t)
        PROVE  ScopeInv'
    BY <2>1, CallStep
  <2>2. CASE BeginScope \/ \E sampled \in BOOLEAN : EndScope(sampled)
    BY <2>2, ScopeStep
  <2>3. CASE UNCHANGED vars
    BY <2>3 DEF vars, globalVars, scopeVars, ScopeInv, Counting, NoScope
  <2> QED  BY <2>1, <2>2, <2>3 DEF Next
<1>3. ScopeInv => ScopeReadsOwn
  BY ReadsOwn DEF ScopeInv, ScopeReadsOwn
<1> QED  BY <1>1, <1>2, <1>3, PTL DEF Spec
-----------------------------------------------------------------------------
(***************************************************************************)
(* Sums over a finite set.  `MapThenSumSet` chooses a recursive function   *)
(* on the subsets of the set; that there is one is proved by induction on  *)
(* the size of the subsets, in the form of facts about sets of numbers and *)
(* of subsets, and what it sums to by induction on the subsets themselves. *)
(***************************************************************************)
Sum(f, S) == MapThenSumSet(LAMBDA t : f[t], S)

Picked(s) == CHOOSE x \in s : TRUE

IsSum(sum, f, S) ==
  sum = [s \in SUBSET S |->
           IF s = {} THEN 0 ELSE f[Picked(s)] + sum[s \ {Picked(s)}]]

Partial(f, S) == CHOOSE sum : IsSum(sum, f, S)

LEMMA SumIsPartial == ASSUME NEW f, NEW S PROVE Sum(f, S) = Partial(f, S)[S]
BY Zenon DEF Sum, MapThenSumSet, MapThenFoldSet, Partial, IsSum, Picked

LEMMA LeastNatural ==
  ASSUME NEW S \in SUBSET Nat, S # {}
  PROVE  \E i \in S : \A j \in S : i <= j
<1>1. PICK i \in S : \A j \in S : ~(<<j, i>> \in OpToRel(<, Nat))
  BY NatLessThanWellFounded, WFMin
<1>2. \A j \in S : ~(j < i)
  BY <1>1 DEF OpToRel
<1> QED
  BY <1>2

LEMMA EveryNatural ==
  ASSUME NEW S \in SUBSET Nat, 0 \in S, \A n \in S : n + 1 \in S
  PROVE  \A n \in Nat : n \in S
<1> SUFFICES ASSUME Nat \ S # {} PROVE FALSE
  OBVIOUS
<1>1. PICK i \in Nat \ S : \A j \in Nat \ S : i <= j
  BY LeastNatural
<1>2. i # 0 /\ i - 1 \in Nat
  BY <1>1
<1>3. i - 1 \in S
  BY <1>1, <1>2
<1>4. (i - 1) + 1 \in S
  BY <1>3
<1> QED  BY <1>1, <1>4

(***************************************************************************)
(* A nonempty subset without the element picked from it.                   *)
(***************************************************************************)
LEMMA Fewer ==
  ASSUME NEW S, IsFiniteSet(S), NEW s \in SUBSET S, s # {}
  PROVE  /\ Picked(s) \in s /\ s \ {Picked(s)} \in SUBSET S
         /\ Cardinality(s) \in Nat \ {0}
         /\ Cardinality(s \ {Picked(s)}) = Cardinality(s) - 1
<1>1. Picked(s) \in s
  BY DEF Picked
<1>2. IsFiniteSet(s) /\ Cardinality(s) \in Nat
  BY FS_Subset, FS_CardinalityType
<1>3. Cardinality(s) # 0
  BY <1>2, FS_EmptySet
<1> QED  BY <1>1, <1>2, <1>3, FS_RemoveElement

(***************************************************************************)
(* Induction on the subsets: what holds of the empty set, and of a set     *)
(* when it does without the element picked, holds of every subset.         *)
(***************************************************************************)
LEMMA EverySubset ==
  ASSUME NEW S, IsFiniteSet(S), NEW P \in SUBSET SUBSET S, {} \in P,
         \A s \in SUBSET S : s # {} /\ s \ {Picked(s)} \in P => s \in P
  PROVE  P = SUBSET S
<1> DEFINE Sized == {n \in Nat : \A s \in SUBSET S : Cardinality(s) = n => s \in P}
<1>1. \A s \in SUBSET S : Cardinality(s) \in Nat /\ (Cardinality(s) = 0 <=> s = {})
  BY FS_Subset, FS_CardinalityType, FS_EmptySet
<1>2. 0 \in Sized
  <2>1. \A s \in SUBSET S : Cardinality(s) = 0 => s \in P
    BY <1>1, Zenon
  <2> QED  BY <2>1
<1>3. ASSUME NEW n \in Sized PROVE n + 1 \in Sized
  <2>1. ASSUME NEW s \in SUBSET S, Cardinality(s) = n + 1 PROVE s \in P
    <3>1. s # {}
      BY <1>1, <2>1
    <3>2. s \ {Picked(s)} \in P
      BY <2>1, <3>1, Fewer
    <3> QED  BY <3>1, <3>2
  <2> QED  BY <2>1
<1>4. \A n \in Nat : n \in Sized
  BY <1>2, <1>3, EveryNatural
<1> QED  BY <1>1, <1>4

Small(n, S) == {s \in SUBSET S : Cardinality(s) <= n}

(***************************************************************************)
(* The recursive function exists, built size by size.                      *)
(***************************************************************************)
LEMMA PartialSums ==
  ASSUME NEW S, IsFiniteSet(S), NEW f, \A t \in S : f[t] \in Int
  PROVE  /\ Partial(f, S) \in [SUBSET S -> Int]
         /\ Partial(f, S)[{}] = 0
         /\ \A s \in SUBSET S : s # {} =>
              Partial(f, S)[s] = f[Picked(s)] + Partial(f, S)[s \ {Picked(s)}]
<1> DEFINE UpTo(n, sum) ==
             /\ sum \in [Small(n, S) -> Int]
             /\ \A s \in Small(n, S) :
                  sum[s] = IF s = {} THEN 0 ELSE f[Picked(s)] + sum[s \ {Picked(s)}]
           Built == {n \in Nat : \E sum : UpTo(n, sum)}
<1>1. \A s \in SUBSET S : Cardinality(s) \in Nat /\ (Cardinality(s) = 0 <=> s = {})
  BY FS_Subset, FS_CardinalityType, FS_EmptySet
<1>2. 0 \in Built
  <2>1. \A s \in Small(0, S) : s = {}
    BY <1>1 DEF Small
  <2>2. UpTo(0, [s \in Small(0, S) |-> 0])
    BY <2>1
  <2> QED  BY <2>2
<1>3. ASSUME NEW n \in Built
      PROVE  n + 1 \in Built
  <2>1. PICK sum : UpTo(n, sum)
    BY <1>3
  <2> DEFINE next == [s \in Small(n + 1, S) |->
                        IF s = {} THEN 0 ELSE f[Picked(s)] + sum[s \ {Picked(s)}]]
  <2>2. ASSUME NEW s \in Small(n + 1, S), s # {}
        PROVE  /\ Picked(s) \in S /\ s \ {Picked(s)} \in Small(n, S)
               /\ s \ {Picked(s)} \in Small(n + 1, S)
    BY <2>2, Fewer DEF Small
  <2>3. \A s \in Small(n, S) : next[s] = sum[s]
    <3>1. \A s \in Small(n, S) : s \in Small(n + 1, S)
      BY <1>1 DEF Small
    <3> QED  BY <2>1, <3>1
  <2>4. next \in [Small(n + 1, S) -> Int]
    BY <2>1, <2>2
  <2>5. \A s \in Small(n + 1, S) :
          next[s] = IF s = {} THEN 0 ELSE f[Picked(s)] + next[s \ {Picked(s)}]
    BY <2>2, <2>3
  <2> HIDE DEF next
  <2>6. UpTo(n + 1, next)
    BY <2>4, <2>5
  <2> HIDE DEF UpTo
  <2> QED  BY <2>6
<1>4. Cardinality(S) \in Nat /\ \A n \in Nat : n \in Built
  BY <1>1, <1>2, <1>3, EveryNatural
<1>5. PICK sum : UpTo(Cardinality(S), sum)
  BY <1>4
<1>6. Small(Cardinality(S), S) = SUBSET S
  BY FS_Subset DEF Small
<1>7. IsSum(sum, f, S)
  BY <1>5, <1>6 DEF IsSum
<1>8. IsSum(Partial(f, S), f, S)
  BY <1>7 DEF Partial
<1> DEFINE it == Partial(f, S)
<1>9. it = [s \in SUBSET S |-> IF s = {} THEN 0 ELSE f[Picked(s)] + it[s \ {Picked(s)}]]
  BY <1>8 DEF IsSum
<1> HIDE DEF it
<1>10. it[{}] = 0 /\ \A s \in SUBSET S : s # {} => it[s] = f[Picked(s)] + it[s \ {Picked(s)}]
  BY <1>9
<1> DEFINE P == {s \in SUBSET S : it[s] \in Int}
<1>11. ASSUME NEW s \in SUBSET S, s # {}, s \ {Picked(s)} \in P PROVE s \in P
  <2>1. f[Picked(s)] \in Int
    BY <1>11, Fewer
  <2>2. it[s] = f[Picked(s)] + it[s \ {Picked(s)}]
    BY <1>10, <1>11
  <2> QED  BY <1>11, <2>1, <2>2
<1>12. P = SUBSET S
  <2>1. {} \in P
    BY <1>10
  <2> HIDE DEF P
  <2>2. P \in SUBSET SUBSET S
    BY DEF P
  <2> QED  BY <1>11, <2>1, <2>2, EverySubset
<1>13. it \in [SUBSET S -> Int]
  BY <1>9, <1>12
<1> QED  BY <1>10, <1>13 DEF it

(***************************************************************************)
(* What a proof needs to know of a sum: it is an integer, of zeros it is   *)
(* zero, and it moves with a change at one point.                          *)
(***************************************************************************)
LEMMA SumIsInteger ==
  ASSUME NEW S, IsFiniteSet(S), NEW f, \A t \in S : f[t] \in Int
  PROVE  Sum(f, S) \in Int
<1>1. Partial(f, S) \in [SUBSET S -> Int]
  BY PartialSums
<1> QED  BY <1>1, SumIsPartial

LEMMA SumMovesAtPoint ==
  ASSUME NEW S, IsFiniteSet(S), NEW f, NEW g, NEW x \in S,
         \A t \in S : f[t] \in Int /\ g[t] \in Int,
         \A t \in S \ {x} : g[t] = f[t]
  PROVE  Sum(g, S) = Sum(f, S) - f[x] + g[x]
<1> DEFINE a == Partial(f, S)
           b == Partial(g, S)
           Off(s) == IF x \in s THEN g[x] - f[x] ELSE 0
           P == {s \in SUBSET S : b[s] = a[s] + Off(s)}
<1>1. /\ a \in [SUBSET S -> Int] /\ a[{}] = 0
      /\ \A s \in SUBSET S : s # {} => a[s] = f[Picked(s)] + a[s \ {Picked(s)}]
  BY PartialSums
<1>2. /\ b \in [SUBSET S -> Int] /\ b[{}] = 0
      /\ \A s \in SUBSET S : s # {} => b[s] = g[Picked(s)] + b[s \ {Picked(s)}]
  BY PartialSums
<1>3. Sum(f, S) = a[S] /\ Sum(g, S) = b[S]
  BY SumIsPartial
<1> HIDE DEF a, b
<1>4. {} \in P
  BY <1>1, <1>2
<1>5. ASSUME NEW s \in SUBSET S, s # {}, s \ {Picked(s)} \in P PROVE s \in P
  <2> DEFINE e == Picked(s)
             r == s \ {e}
  <2>1. e \in s /\ e \in S /\ r \in SUBSET S /\ b[r] = a[r] + Off(r)
    BY <1>5, Fewer
  <2>2. b[s] = g[e] + b[r] /\ a[s] = f[e] + a[r]
    BY <1>1, <1>2, <1>5
  <2>3. e \notin r /\ (x \in s <=> x = e \/ x \in r) /\ (e # x => g[e] = f[e])
    BY <2>1
  <2>4. /\ a[r] \in Int /\ b[r] \in Int /\ g[e] \in Int /\ f[e] \in Int
        /\ g[x] \in Int /\ f[x] \in Int
    BY <1>1, <1>2, <2>1
  <2> HIDE DEF e, r
  <2>5. b[s] = a[s] + Off(s)
    BY <2>1, <2>2, <2>3, <2>4
  <2> QED  BY <2>5
<1>6. P \in SUBSET SUBSET S
  OBVIOUS
<1> HIDE DEF P
<1>7. P = SUBSET S
  BY <1>4, <1>5, <1>6, EverySubset
<1>8. b[S] = a[S] + Off(S)
  BY <1>7 DEF P
<1> QED  BY <1>1, <1>3, <1>8

LEMMA SumOfZeros ==
  ASSUME NEW S, IsFiniteSet(S), NEW f, \A t \in S : f[t] = 0
  PROVE  Sum(f, S) = 0
<1> DEFINE a == Partial(f, S)
           P == {s \in SUBSET S : a[s] = 0}
<1>0. \A t \in S : f[t] \in Int
  OBVIOUS
<1>1. /\ a[{}] = 0
      /\ \A s \in SUBSET S : s # {} => a[s] = f[Picked(s)] + a[s \ {Picked(s)}]
  BY <1>0, PartialSums
<1>2. Sum(f, S) = a[S]
  BY SumIsPartial
<1> HIDE DEF a
<1>3. {} \in P
  BY <1>1
<1>4. ASSUME NEW s \in SUBSET S, s # {}, s \ {Picked(s)} \in P PROVE s \in P
  <2>1. f[Picked(s)] = 0
    BY <1>4, Fewer
  <2>2. a[s] = f[Picked(s)] + a[s \ {Picked(s)}]
    BY <1>1, <1>4
  <2> QED  BY <1>4, <2>1, <2>2
<1>5. P \in SUBSET SUBSET S
  OBVIOUS
<1> HIDE DEF P
<1>6. P = SUBSET S
  BY <1>3, <1>4, <1>5, EverySubset
<1> QED  BY <1>2, <1>6 DEF P

-----------------------------------------------------------------------------
LEMMA FinitelyManyThreads == IsFiniteSet(Threads)
<1>1. IsFiniteSet({Render}) /\ IsFiniteSet(Workers) /\ IsFiniteSet(Others)
  BY FS_Singleton, TrackerAssumption
<1>2. IsFiniteSet({Render} \cup Workers)
  BY <1>1, FS_Union
<1> QED  BY <1>1, <1>2, FS_Union DEF Threads

(***************************************************************************)
(* One more in the counter of one thread is one more in the total.         *)
(***************************************************************************)
LEMMA TotalStep ==
  ASSUME NEW f \in [Threads -> Nat], NEW t \in Threads
  PROVE  /\ Plus1(f, t) \in [Threads -> Nat]
         /\ Total(f) \in Int
         /\ Total(Plus1(f, t)) = Total(f) + 1
<1> DEFINE g == Plus1(f, t)
<1>1. g \in [Threads -> Nat] /\ \A u \in Threads : f[u] \in Int /\ g[u] \in Int
  BY DEF Plus1
<1>2. g[t] = f[t] + 1 /\ f[t] \in Int /\ \A u \in Threads \ {t} : g[u] = f[u]
  BY DEF Plus1
<1> HIDE DEF g
<1>3. Sum(f, Threads) \in Int
  BY <1>1, FinitelyManyThreads, SumIsInteger
<1>4. Sum(g, Threads) = Sum(f, Threads) - f[t] + g[t]
  BY <1>1, <1>2, FinitelyManyThreads, SumMovesAtPoint
<1>5. Sum(g, Threads) = Sum(f, Threads) + 1
  BY <1>2, <1>3, <1>4
<1> QED  BY <1>1, <1>3, <1>5 DEF Total, Sum, g

LEMMA NothingCounted == Total(NoneYet) = 0
<1>1. \A t \in Threads : NoneYet[t] = 0
  BY DEF NoneYet
<1>2. Sum(NoneYet, Threads) = 0
  BY <1>1, FinitelyManyThreads, SumOfZeros
<1> QED  BY <1>2 DEF Total, Sum

(***************************************************************************)
(* How many threads are at one of some places, and how that number changes *)
(* when a thread goes from one place to another.                           *)
(***************************************************************************)
Places == {"idle", "bytes", "own", "malloc", "release"}

Among(places, s) == Cardinality({t \in Threads : places[t] \in s})

One(b) == IF b THEN 1 ELSE 0

LEMMA ThreadMoves ==
  ASSUME NEW p \in [Threads -> Places], NEW t \in Threads, NEW to \in Places, NEW s
  PROVE  /\ Among(p, s) \in Nat
         /\ Among([p EXCEPT ![t] = to], s)
              = Among(p, s) - One(p[t] \in s) + One(to \in s)
<1> DEFINE before == {u \in Threads : p[u] \in s}
           after  == {u \in Threads : [p EXCEPT ![t] = to][u] \in s}
           rest   == {u \in Threads \ {t} : p[u] \in s}
<1>1. IsFiniteSet(rest) /\ t \notin rest
  BY FinitelyManyThreads, FS_Subset
<1>2. /\ Cardinality(rest) \in Nat
      /\ Cardinality(rest \cup {t}) = Cardinality(rest) + 1
  BY <1>1, FS_CardinalityType, FS_AddElement
<1>3. before = IF p[t] \in s THEN rest \cup {t} ELSE rest
  OBVIOUS
<1>4. after = IF to \in s THEN rest \cup {t} ELSE rest
  OBVIOUS
<1>5. Among(p, s) = Cardinality(before) /\ Among([p EXCEPT ![t] = to], s) = Cardinality(after)
  BY DEF Among
<1> HIDE DEF before, after, rest
<1> QED  BY <1>2, <1>3, <1>4, <1>5 DEF One

LEMMA OneMoreBlock ==
  ASSUME NEW n \in Int PROVE Size * (n + 1) = Size * n + Size
BY TrackerAssumption

(***************************************************************************)
(* The invariant: the counters agree, and an open scope began with no more *)
(* than its thread has counted by now.                                     *)
(***************************************************************************)
AgreeInv ==
  /\ CountersAgree
  /\ entry # NoScope => entry.allocs <= tls_allocs[Render]

LEMMA AgreeInit == Init => AgreeInv
<1> SUFFICES ASSUME Init PROVE AgreeInv
  OBVIOUS
<1>1. TypeOK
  BY DEF Init, TypeOK, NoneYet
<1>2. Total(tls_allocs) = 0 /\ Total(tls_frees) = 0
  BY NothingCounted DEF Init
<1>3. ASSUME NEW s \in SUBSET (Places \ {"idle"}) PROVE Inside(s) = 0
  <2>1. {t \in Threads : pc[t] \in s} = {}
    BY DEF Init, Places
  <2> QED  BY <2>1, FS_EmptySet DEF Inside
<1>4. /\ Inside({"bytes", "own"}) = 0 /\ Inside({"release"}) = 0
      /\ Inside({"own"}) = 0 /\ Inside({"bytes", "own", "malloc"}) = 0
  BY <1>3 DEF Places
<1>5. Size * 0 = 0
  BY TrackerAssumption
<1> QED  BY <1>1, <1>2, <1>4, <1>5 DEF Init, AgreeInv, CountersAgree, NoScope

(***************************************************************************)
(* Every step of a call keeps the books.                                   *)
(***************************************************************************)
LEMMA AgreeCall ==
  ASSUME AgreeInv, NEW t \in Threads,
         CountCall(t) \/ CountBytes(t) \/ CountOwn(t) \/ Malloc(t) \/ Release(t) \/ ReleaseOwn(t)
  PROVE  AgreeInv'
<1> DEFINE B == {"bytes", "own"}
           O == {"own"}
           R == {"release"}
           M == {"bytes", "own", "malloc"}
<1>1. /\ tls_allocs \in [Threads -> Nat] /\ tls_frees \in [Threads -> Nat]
      /\ pc \in [Threads -> Places]
      /\ allocs \in Nat /\ frees \in Nat /\ bytes \in Nat /\ live \in Nat
      /\ hot_path_allocations \in Nat
      /\ entry = NoScope \/ entry \in [allocs : Nat, frees : Nat]
      /\ entry # NoScope => entry.allocs <= tls_allocs[Render]
  BY DEF AgreeInv, CountersAgree, TypeOK, Places
<1>2. /\ allocs = Total(tls_allocs) + Among(pc, B)
      /\ frees = Total(tls_frees) + Among(pc, R)
      /\ bytes = Size * (Total(tls_allocs) + Among(pc, O))
      /\ live + Among(pc, M) <= allocs - frees
  BY DEF AgreeInv, CountersAgree, Inside, Among
<1>3. /\ Total(tls_allocs) \in Int /\ Total(tls_frees) \in Int
      /\ Among(pc, B) \in Nat /\ Among(pc, O) \in Nat
      /\ Among(pc, R) \in Nat /\ Among(pc, M) \in Nat
  BY <1>1, TotalStep, ThreadMoves DEF Places
<1>4. ASSUME /\ allocs' \in Nat /\ frees' \in Nat /\ bytes' \in Nat /\ live' \in Nat
             /\ tls_allocs' \in [Threads -> Nat] /\ tls_frees' \in [Threads -> Nat]
             /\ pc' \in [Threads -> Places]
             /\ tls_allocs'[Render] >= tls_allocs[Render]
             /\ allocs' = Total(tls_allocs') + Among(pc', B)
             /\ frees' = Total(tls_frees') + Among(pc', R)
             /\ bytes' = Size * (Total(tls_allocs') + Among(pc', O))
             /\ live' + Among(pc', M) <= allocs' - frees'
      PROVE  AgreeInv'
  <2>1. entry' = entry /\ hot_path_allocations' = hot_path_allocations
    BY DEF CountCall, CountBytes, CountOwn, Malloc, Release, ReleaseOwn, scopeVars
  <2>2. TypeOK'
    BY <1>1, <1>4, <2>1 DEF TypeOK, Places, NoScope
  <2>3. entry' # NoScope' => entry'.allocs <= tls_allocs'[Render]
    BY <1>1, <1>4, <2>1, RenderIsThread DEF NoScope
  <2> QED  BY <1>4, <2>2, <2>3 DEF AgreeInv, CountersAgree, Inside, Among
<1>5. /\ tls_allocs[Render] \in Nat
      /\ Plus1(tls_allocs, t)[Render] >= tls_allocs[Render]
  BY <1>1, RenderIsThread DEF Plus1
<1>6. ASSUME NEW to \in Places, pc' = [pc EXCEPT ![t] = to]
      PROVE  /\ pc' \in [Threads -> Places]
             /\ Among(pc', B) = Among(pc, B) - One(pc[t] \in B) + One(to \in B)
             /\ Among(pc', O) = Among(pc, O) - One(pc[t] \in O) + One(to \in O)
             /\ Among(pc', R) = Among(pc, R) - One(pc[t] \in R) + One(to \in R)
             /\ Among(pc', M) = Among(pc, M) - One(pc[t] \in M) + One(to \in M)
  <2>1. pc' \in [Threads -> Places]
    BY <1>1, <1>6
  <2>2. \A s : Among(pc', s) = Among(pc, s) - One(pc[t] \in s) + One(to \in s)
    BY <1>1, <1>6, ThreadMoves
  <2> HIDE DEF B, O, R, M
  <2> QED  BY <2>1, <2>2
<1>7. CASE CountCall(t)
  <2>1. pc[t] = "idle" /\ pc' = [pc EXCEPT ![t] = "bytes"]
    BY <1>7 DEF CountCall, At
  <2>2. /\ allocs' = allocs + 1
        /\ UNCHANGED <<frees, bytes, live, tls_allocs, tls_frees>>
    BY <1>7 DEF CountCall
  <2>3. /\ Among(pc', B) = Among(pc, B) + 1 /\ Among(pc', O) = Among(pc, O)
        /\ Among(pc', R) = Among(pc, R) /\ Among(pc', M) = Among(pc, M) + 1
    BY <1>3, <1>6, <2>1 DEF One, Places
  <2>4. pc' \in [Threads -> Places]
    BY <1>6, <2>1 DEF Places
  <2> HIDE DEF B, O, R, M
  <2> QED  BY <1>1, <1>2, <1>3, <1>4, <1>5, <2>2, <2>3, <2>4
<1>8. CASE CountBytes(t)
  <2>1. pc[t] = "bytes" /\ pc' = [pc EXCEPT ![t] = "own"]
    BY <1>8 DEF CountBytes, At
  <2>2. /\ bytes' = bytes + Size
        /\ UNCHANGED <<allocs, frees, live, tls_allocs, tls_frees>>
    BY <1>8 DEF CountBytes
  <2>3. /\ Among(pc', B) = Among(pc, B) /\ Among(pc', O) = Among(pc, O) + 1
        /\ Among(pc', R) = Among(pc, R) /\ Among(pc', M) = Among(pc, M)
    BY <1>3, <1>6, <2>1 DEF One, Places
  <2>4. pc' \in [Threads -> Places]
    BY <1>6, <2>1 DEF Places
  <2>5. Size * (Total(tls_allocs) + Among(pc, O) + 1) = bytes + Size
    BY <1>2, <1>3, OneMoreBlock
  <2>6. /\ bytes + Size \in Nat
        /\ Total(tls_allocs) + (Among(pc, O) + 1) = Total(tls_allocs) + Among(pc, O) + 1
    BY <1>1, <1>3, TrackerAssumption
  <2> HIDE DEF B, O, R, M
  <2> QED  BY <1>1, <1>2, <1>3, <1>4, <1>5, <2>2, <2>3, <2>4, <2>5, <2>6
<1>9. CASE CountOwn(t)
  <2>1. pc[t] = "own" /\ pc' = [pc EXCEPT ![t] = "malloc"]
    BY <1>9 DEF CountOwn, At
  <2>2. /\ tls_allocs' = Plus1(tls_allocs, t)
        /\ UNCHANGED <<allocs, frees, bytes, live, tls_frees>>
    BY <1>9 DEF CountOwn, globalVars
  <2>3. /\ Among(pc', B) = Among(pc, B) - 1 /\ Among(pc', O) = Among(pc, O) - 1
        /\ Among(pc', R) = Among(pc, R) /\ Among(pc', M) = Among(pc, M)
    BY <1>3, <1>6, <2>1 DEF One, Places
  <2>4. pc' \in [Threads -> Places]
    BY <1>6, <2>1 DEF Places
  <2>5. /\ Total(tls_allocs') = Total(tls_allocs) + 1 /\ tls_allocs' \in [Threads -> Nat]
        /\ tls_allocs'[Render] >= tls_allocs[Render]
    BY <1>1, <1>5, <2>2, TotalStep
  <2>6. Total(tls_allocs) + 1 + (Among(pc, O) - 1) = Total(tls_allocs) + Among(pc, O)
    BY <1>3
  <2> HIDE DEF B, O, R, M
  <2> QED  BY <1>1, <1>2, <1>3, <1>4, <1>5, <2>2, <2>3, <2>4, <2>5, <2>6
<1>10. CASE Malloc(t)
  <2>1. pc[t] = "malloc" /\ pc' = [pc EXCEPT ![t] = "idle"]
    BY <1>10 DEF Malloc, At
  <2>2. /\ live' \in {live, live + 1}
        /\ UNCHANGED <<allocs, frees, bytes, tls_allocs, tls_frees>>
    BY <1>10 DEF Malloc, globalVars
  <2>3. /\ Among(pc', B) = Among(pc, B) /\ Among(pc', O) = Among(pc, O)
        /\ Among(pc', R) = Among(pc, R) /\ Among(pc', M) = Among(pc, M) - 1
    BY <1>3, <1>6, <2>1 DEF One, Places
  <2>4. pc' \in [Threads -> Places]
    BY <1>6, <2>1 DEF Places
  <2> HIDE DEF B, O, R, M
  <2> QED  BY <1>1, <1>2, <1>3, <1>4, <1>5, <2>2, <2>3, <2>4
<1>11. CASE Release(t)
  <2>1. pc[t] = "idle" /\ pc' = [pc EXCEPT ![t] = "release"]
    BY <1>11 DEF Release, At
  <2>2. /\ frees' = frees + 1 /\ live > 0 /\ live' = live - 1
        /\ UNCHANGED <<allocs, bytes, tls_allocs, tls_frees>>
    BY <1>11 DEF Release
  <2>3. /\ Among(pc', B) = Among(pc, B) /\ Among(pc', O) = Among(pc, O)
        /\ Among(pc', R) = Among(pc, R) + 1 /\ Among(pc', M) = Among(pc, M)
    BY <1>3, <1>6, <2>1 DEF One, Places
  <2>4. pc' \in [Threads -> Places]
    BY <1>6, <2>1 DEF Places
  <2> HIDE DEF B, O, R, M
  <2> QED  BY <1>1, <1>2, <1>3, <1>4, <1>5, <2>2, <2>3, <2>4
<1>12. CASE ReleaseOwn(t)
  <2>1. pc[t] = "release" /\ pc' = [pc EXCEPT ![t] = "idle"]
    BY <1>12 DEF ReleaseOwn, At
  <2>2. /\ tls_frees' = Plus1(tls_frees, t)
        /\ UNCHANGED <<allocs, frees, bytes, live, tls_allocs>>
    BY <1>12 DEF ReleaseOwn, globalVars
  <2>3. /\ Among(pc', B) = Among(pc, B) /\ Among(pc', O) = Among(pc, O)
        /\ Among(pc', R) = Among(pc, R) - 1 /\ Among(pc', M) = Among(pc, M)
    BY <1>3, <1>6, <2>1 DEF One, Places
  <2>4. pc' \in [Threads -> Places]
    BY <1>6, <2>1 DEF Places
  <2>5. Total(tls_frees') = Total(tls_frees) + 1 /\ tls_frees' \in [Threads -> Nat]
    BY <1>1, <2>2, TotalStep
  <2> HIDE DEF B, O, R, M
  <2> QED  BY <1>1, <1>2, <1>3, <1>4, <1>5, <2>2, <2>3, <2>4, <2>5
<1> QED  BY <1>7, <1>8, <1>9, <1>10, <1>11, <1>12

(***************************************************************************)
(* A scope reads the counters and changes none.                            *)
(***************************************************************************)
LEMMA AgreeScope ==
  ASSUME AgreeInv, BeginScope \/ \E sampled \in BOOLEAN : EndScope(sampled)
  PROVE  AgreeInv'
<1>1. UNCHANGED <<allocs, frees, bytes, live, tls_allocs, tls_frees, pc>>
  BY DEF BeginScope, EndScope, globalVars
<1>2. /\ tls_allocs \in [Threads -> Nat] /\ tls_frees \in [Threads -> Nat]
      /\ tls_allocs[Render] \in Nat /\ tls_frees[Render] \in Nat
      /\ hot_path_allocations \in Nat
      /\ entry # NoScope => /\ entry \in [allocs : Nat, frees : Nat]
                            /\ entry.allocs <= tls_allocs[Render]
  BY RenderIsThread DEF AgreeInv, CountersAgree, TypeOK
<1>3. /\ entry' = NoScope \/ entry' \in [allocs : Nat, frees : Nat]
      /\ entry' # NoScope => entry'.allocs <= tls_allocs[Render]
      /\ hot_path_allocations' \in Nat
  <2>1. CASE BeginScope
    BY <2>1, <1>2 DEF BeginScope, ThreadCounts
  <2>2. ASSUME NEW sampled \in BOOLEAN, EndScope(sampled)
        PROVE  entry' = NoScope /\ hot_path_allocations' \in Nat
    BY <2>2, <1>2 DEF EndScope, ThreadCounts
  <2> QED  BY <2>1, <2>2
<1>4. TypeOK'
  BY <1>1, <1>3 DEF AgreeInv, CountersAgree, TypeOK, NoScope
<1> QED  BY <1>1, <1>3, <1>4 DEF AgreeInv, CountersAgree, Inside, NoScope

(***************************************************************************)
(* The counters of the process are those of the threads and of the calls   *)
(* under way, at every moment, for any finite number of threads: no call   *)
(* is missed, however the threads' steps interleave.                       *)
(***************************************************************************)
THEOREM CountersAlwaysAgree == Spec => []CountersAgree
<1>1. Init => AgreeInv  BY AgreeInit
<1>2. AgreeInv /\ [Next]_vars => AgreeInv'
  <2> SUFFICES ASSUME AgreeInv, [Next]_vars PROVE AgreeInv'  OBVIOUS
  <2>1. ASSUME NEW t \in Threads,
               CountCall(t) \/ CountBytes(t) \/ CountOwn(t) \/ Malloc(t) \/ Release(t)
                 \/ ReleaseOwn(t)
        PROVE  AgreeInv'
    BY <2>1, AgreeCall
  <2>2. CASE BeginScope \/ \E sampled \in BOOLEAN : EndScope(sampled)
    BY <2>2, AgreeScope
  <2>3. CASE UNCHANGED vars
    BY <2>3 DEF vars, globalVars, scopeVars, AgreeInv, CountersAgree, TypeOK, Inside, NoScope
  <2> QED  BY <2>1, <2>2, <2>3 DEF Next
<1>3. AgreeInv => CountersAgree
  BY DEF AgreeInv
<1> QED  BY <1>1, <1>2, <1>3, PTL DEF Spec
=============================================================================
