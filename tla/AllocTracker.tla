----------------------------- MODULE AllocTracker -----------------------------
(***************************************************************************)
(* The allocation tripwire (src/src/alloc_tracker.cpp): every operator new *)
(* and delete is counted twice, in counters of the process, which all      *)
(* threads update at once, and in counters of the calling thread; an       *)
(* AllocationScope on the render thread reads the latter around a measured *)
(* frame.                                                                  *)
(*                                                                         *)
(* Blocks have one size.  What allocates is left open: the tripwire is     *)
(* there for the day when the measured code does.                          *)
(***************************************************************************)
EXTENDS Integers, FiniteSets, FiniteSetsExt

CONSTANTS
  Workers,   \* the pool's threads: they render the measured frame
  Others,    \* threads of the display and of the system
  Render,    \* the thread that measures
  Size,      \* bytes of a block
  MaxCalls   \* bound: new and delete calls of each thread

Threads == {Render} \cup Workers \cup Others

ASSUME TrackerAssumption ==
  /\ Size \in Nat /\ MaxCalls \in Nat
  /\ Render \notin Workers \cup Others /\ Workers \cap Others = {}
  /\ IsFiniteSet(Workers) /\ IsFiniteSet(Others)

VARIABLES
  allocs, frees, bytes,    \* the process-wide atomics
  tls_allocs, tls_frees,   \* of each thread
  pc,                      \* where each thread is in new or delete
  entry,                   \* the scope's counts at entry, or NoScope
  hot_path_allocations,    \* what the last scope read
  live,                    \* blocks handed out and not given back
  news, deletes,           \* history: the calls of each thread
  news_at_entry,           \* history: the scope's thread's calls when it began
  measured                 \* history: its calls in the last sampled scope

globalVars == <<allocs, frees, bytes>>
scopeVars  == <<entry, hot_path_allocations, news_at_entry, measured>>
vars == <<globalVars, tls_allocs, tls_frees, pc, scopeVars, live, news, deletes>>

NoScope == [allocs |-> -1, frees |-> -1]
NoneYet == [t \in Threads |-> 0]

Init ==
  /\ allocs = 0 /\ frees = 0 /\ bytes = 0
  /\ tls_allocs = NoneYet /\ tls_frees = NoneYet
  /\ pc = [t \in Threads |-> "idle"]
  /\ entry = NoScope /\ hot_path_allocations = 0
  /\ live = 0
  /\ news = NoneYet /\ deletes = NoneYet
  /\ news_at_entry = 0 /\ measured = 0

At(t, from, to) == pc[t] = from /\ pc' = [pc EXCEPT ![t] = to]
Plus1(f, t)     == [f EXCEPT ![t] = @ + 1]
-----------------------------------------------------------------------------
(***************************************************************************)
(* operator new: the two atomics, the thread's counter, then the memory,   *)
(* which there may be none of.                                             *)
(***************************************************************************)
CountCall(t) ==
  /\ news[t] + deletes[t] < MaxCalls
  /\ At(t, "idle", "bytes")
  /\ news' = Plus1(news, t)
  /\ allocs' = allocs + 1
  /\ UNCHANGED <<frees, bytes, tls_allocs, tls_frees, scopeVars, live, deletes>>

CountBytes(t) ==
  /\ At(t, "bytes", "own")
  /\ bytes' = bytes + Size
  /\ UNCHANGED <<allocs, frees, tls_allocs, tls_frees, scopeVars, live, news, deletes>>

CountOwn(t) ==
  /\ At(t, "own", "malloc")
  /\ tls_allocs' = Plus1(tls_allocs, t)
  /\ UNCHANGED <<globalVars, tls_frees, scopeVars, live, news, deletes>>

Malloc(t) ==
  /\ At(t, "malloc", "idle")
  /\ live' \in {live, live + 1}
  /\ UNCHANGED <<globalVars, tls_allocs, tls_frees, scopeVars, news, deletes>>

(***************************************************************************)
(* operator delete of a block, on any thread; of nullptr it does nothing.  *)
(***************************************************************************)
ReleaseCountsNull(t) ==
  /\ news[t] + deletes[t] < MaxCalls
  /\ At(t, "idle", "release")
  /\ deletes' = Plus1(deletes, t)
  /\ frees' = frees + 1
  /\ live' = IF live > 0 THEN live - 1 ELSE 0
  /\ UNCHANGED <<allocs, bytes, tls_allocs, tls_frees, scopeVars, news>>

Release(t) ==
  /\ news[t] + deletes[t] < MaxCalls /\ live > 0
  /\ At(t, "idle", "release")
  /\ deletes' = Plus1(deletes, t)
  /\ frees' = frees + 1
  /\ live' = live - 1
  /\ UNCHANGED <<allocs, bytes, tls_allocs, tls_frees, scopeVars, news>>

ReleaseOwn(t) ==
  /\ At(t, "release", "idle")
  /\ tls_frees' = Plus1(tls_frees, t)
  /\ UNCHANGED <<globalVars, tls_allocs, scopeVars, live, news, deletes>>
-----------------------------------------------------------------------------
(***************************************************************************)
(* The scope around a measured frame (src/src/main.cpp, RenderFractal); a  *)
(* frame rendered while paused is not sampled.                             *)
(***************************************************************************)
ProcessCounts == [allocs |-> allocs, frees |-> frees]

ThreadCounts == [allocs |-> tls_allocs[Render], frees |-> tls_frees[Render]]

BeginScope ==
  /\ pc[Render] = "idle" /\ entry = NoScope
  /\ entry' = ThreadCounts
  /\ news_at_entry' = news[Render]
  /\ UNCHANGED <<globalVars, tls_allocs, tls_frees, pc, hot_path_allocations, live, news,
                 deletes, measured>>

EndScope(sampled) ==
  /\ pc[Render] = "idle" /\ entry # NoScope
  /\ \A t \in Workers : pc[t] = "idle"
  /\ hot_path_allocations' = IF sampled THEN ThreadCounts.allocs - entry.allocs
                                          ELSE hot_path_allocations
  /\ entry' = NoScope
  /\ measured' = IF sampled THEN news[Render] - news_at_entry ELSE measured
  /\ UNCHANGED <<globalVars, tls_allocs, tls_frees, pc, live, news, deletes, news_at_entry>>

Next ==
  \/ \E t \in Threads : \/ CountCall(t) \/ CountBytes(t) \/ CountOwn(t) \/ Malloc(t)
                        \/ Release(t) \/ ReleaseOwn(t)
  \/ BeginScope \/ \E sampled \in BOOLEAN : EndScope(sampled)

Spec == Init /\ [][Next]_vars
-----------------------------------------------------------------------------
Total(f) == MapThenSumSet(LAMBDA t : f[t], Threads)
Inside(s) == Cardinality({t \in Threads : pc[t] \in s})

TypeOK ==
  /\ {allocs, frees, bytes, live, hot_path_allocations} \subseteq Nat
  /\ tls_allocs \in [Threads -> Nat] /\ tls_frees \in [Threads -> Nat]
  /\ pc \in [Threads -> {"idle", "bytes", "own", "malloc", "release"}]
  /\ entry = NoScope \/ entry \in [allocs : Nat, frees : Nat]

(***************************************************************************)
(* The counters of the process are those of the threads and of the calls   *)
(* under way, at every moment and however calls overlap: no call is missed *)
(* (src/src/alloc_tracker.cpp:3, "Any gap would let an allocation slip     *)
(* past the counter").  Blocks that are out have been counted and not been *)
(* counted back, also when there was no memory or nothing to free.         *)
(***************************************************************************)
CountersAgree ==
  /\ TypeOK
  /\ allocs = Total(tls_allocs) + Inside({"bytes", "own"})
  /\ frees = Total(tls_frees) + Inside({"release"})
  /\ bytes = Size * (Total(tls_allocs) + Inside({"own"}))
  /\ live + Inside({"bytes", "own", "malloc"}) <= allocs - frees

(***************************************************************************)
(* What a scope reads, at any point of the render thread's work, is what   *)
(* that thread allocated in it, whatever others do meanwhile               *)
(* (src/README.md:452, "the counters are kept both process-wide and        *)
(* per-thread"), and the count on display is that of the last sampled one. *)
(***************************************************************************)
ScopeReadsOwn ==
  /\ entry # NoScope /\ pc[Render] = "idle" =>
       ThreadCounts.allocs - entry.allocs = news[Render] - news_at_entry
  /\ hot_path_allocations = measured
=============================================================================
