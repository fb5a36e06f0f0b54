------------------------ MODULE RenderThreadPoolProofs ------------------------
(***************************************************************************)
(* Theorems about RenderThreadPool, for every pool size, every set of      *)
(* requests and every bound.                                               *)
(***************************************************************************)
EXTENDS RenderThreadPool, FiniteSetTheorems, NaturalsInduction,
        WellFoundedInduction, TLAPS

(***************************************************************************)
(* Every variable keeps its type.  The three parts of TypeOK are separate  *)
(* lemmas, because most steps move one participant and little else.        *)
(***************************************************************************)
LEMMA InitType == Init => TypeOK
<1> SUFFICES ASSUME Init PROVE TypeOK
  OBVIOUS
<1>1. /\ job \in [frame : Nat, height : 0..MaxHeight, thread_count : Nat]
      /\ request \in [height : 0..MaxHeight, thread_count : Nat]
      /\ work \in [Participants -> [frame : Nat, height : 0..MaxHeight]]
  BY PoolAssumption DEF Init
<1>2. /\ row_tally \in [Participants -> Nat]
      /\ seen \in [Participants -> Nat]
      /\ row \in [Participants -> Nat]
      /\ rows_done \in [Participants -> Nat]
      /\ painted \in [Rows -> Nat]
  BY DEF Init
<1>3. /\ worker_count \in Participants
      /\ mutex \in Participants \cup {Nobody}
      /\ unstored \in SUBSET Stores
  BY PoolAssumption DEF Init, Participants
<1>4. DataTypeOK
  BY <1>1, <1>2, <1>3 DEF Init, DataTypeOK
<1>5. LabelsOK
  BY PoolAssumption
     DEF Init, LabelsOK, CallerLabels, WorkerLabels, Participants, Workers
<1>6. \A p \in Participants : ~At(p, "render")
  BY DEF Init, At
<1> QED
  BY <1>4, <1>5, <1>6 DEF TypeOK

LEMMA StartCount ==
  ASSUME NEW m \in StartCounts
  PROVE  Clamp(m, 1, kMaxRenderThreads) - 1 \in Participants
BY PoolAssumption DEF Participants, Clamp, Max2, Min2

LEMMA EffectiveType ==
  ASSUME DataTypeOK, NEW h \in Heights, NEW n \in ThreadCounts
  PROVE  /\ h \in 0..MaxHeight
         /\ Effective(n, h) \in 1..(worker_count + 1)
<1>1. h \in 0..MaxHeight /\ n \in Int /\ worker_count \in Nat
  BY PoolAssumption DEF DataTypeOK, Participants
<1> QED
  BY <1>1 DEF Effective, Clamp, Max2, Min2

LEMMA NextData ==
  ASSUME TypeOK, [Next]_vars
  PROVE  DataTypeOK'
<1> USE DEF sharedVars, callerVars, drainVars
<1>0. DataTypeOK /\ 0 \in Participants /\ Workers \subseteq Participants
  BY PoolAssumption DEF TypeOK, Participants, Workers
<1>1. ASSUME NEW m \in StartCounts, Start(m)
      PROVE  DataTypeOK'
  <2>1. worker_count' \in Participants
    BY <1>1, StartCount DEF Start
  <2>2. starts' \in Nat
    BY <1>0, <1>1 DEF Start, DataTypeOK
  <2> QED
    BY <1>0, <1>1, <2>1, <2>2 DEF Start, DataTypeOK
<1>2. ASSUME NEW h \in Heights, NEW n \in ThreadCounts,
             RenderAlone(h, n) \/ RenderShared(h, n)
      PROVE  DataTypeOK'
  <2>1. h \in 0..MaxHeight /\ Effective(n, h) \in Nat
    BY <1>0, EffectiveType DEF DataTypeOK, Participants
  <2>2. ZeroedTally(Effective(n, h)) \in [Participants -> Nat]
    BY <1>0 DEF ZeroedTally, DataTypeOK
  <2>3. CASE RenderAlone(h, n)
    <3>1. painted' \in [Rows -> Nat] /\ row_tally' \in [Participants -> Nat]
      <4>1. painted \in [Rows -> Nat] /\ frame + 1 \in Nat
        BY <1>0 DEF DataTypeOK
      <4>2. painted' = [y \in Rows |-> IF y < h THEN frame + 1 ELSE painted[y]]
        BY <2>3 DEF RenderAlone
      <4>3. row_tally' = [ZeroedTally(Effective(n, h)) EXCEPT ![0] = h]
        BY <2>3 DEF RenderAlone
      <4>4. h \in Nat
        BY <2>1, <1>0, PoolAssumption DEF DataTypeOK
      <4>5. painted' \in [Rows -> Nat]
        BY <4>1, <4>2
      <4> QED
        BY <2>2, <4>3, <4>4, <4>5
    <3>2. /\ request' \in [height : 0..MaxHeight, thread_count : Nat]
          /\ last_thread_count' \in Nat /\ frame' \in Nat
      BY <1>0, <2>1, <2>3 DEF RenderAlone, BeginCall, DataTypeOK
    <3> QED
      BY <1>0, <2>3, <3>1, <3>2 DEF RenderAlone, DataTypeOK
  <2>4. CASE RenderShared(h, n)
    <3>1. /\ request' \in [height : 0..MaxHeight, thread_count : Nat]
          /\ last_thread_count' \in Nat /\ frame' \in Nat
      BY <1>0, <2>1, <2>4 DEF RenderShared, BeginCall, DataTypeOK
    <3> QED
      BY <1>0, <2>2, <2>4, <3>1 DEF RenderShared, DataTypeOK
  <2> QED
    BY <1>2, <2>3, <2>4
<1>3. CASE Publish
  <2>1. CASE PublishLock
    BY <1>0, <2>1 DEF PublishLock, DataTypeOK
  <2>2. ASSUME NEW s \in Stores, PublishStore(s)
        PROVE  DataTypeOK'
    <3>1. /\ job' \in [frame : Nat, height : 0..MaxHeight, thread_count : Nat]
          /\ next_row' \in Nat /\ workers_done' \in Nat
      BY <1>0, <2>2 DEF PublishStore, StoreJob, StoreCounter, DataTypeOK
    <3> QED
      BY <1>0, <2>2, <3>1 DEF PublishStore, DataTypeOK
  <2>3. CASE PublishBump
    BY <1>0, <2>3 DEF PublishBump, DataTypeOK
  <2>4. CASE PublishWake
    BY <1>0, <2>4 DEF PublishWake, DataTypeOK
  <2> QED
    BY <1>3, <2>1, <2>2, <2>3, <2>4 DEF Publish
<1>4. CASE Await
  BY <1>0, <1>4 DEF Await, AwaitReturn, AwaitDoze, DataTypeOK
<1>5. CASE Stop \/ StopCall
  <2>1. CASE StopCall \/ StopWake
    BY <1>0, <2>1 DEF StopCall, StopWake, DataTypeOK
  <2>2. CASE StopFlag
    BY <1>0, <2>2 DEF StopFlag, DataTypeOK
  <2>3. CASE StopBump
    BY <1>0, <2>3 DEF StopBump, DataTypeOK
  <2>4. CASE StopJoin
    BY <1>0, <2>4 DEF StopJoin, DataTypeOK
  <2> QED
    BY <1>5, <2>1, <2>2, <2>3, <2>4 DEF Stop
<1>6. ASSUME NEW p \in Participants, Drain(p)
      PROVE  DataTypeOK'
  <2>1. CASE DrainCopy(p)
    BY <1>0, <2>1 DEF DrainCopy, DataTypeOK
  <2>2. CASE DrainClaim(p)
    BY <1>0, <2>2 DEF DrainClaim, DataTypeOK
  <2>3. CASE DrainRender(p)
    <3>1. /\ painted \in [Rows -> Nat] /\ rows_done \in [Participants -> Nat]
          /\ work[p].frame \in Nat
      BY <1>0 DEF DataTypeOK
    <3>2. painted' \in [Rows -> Nat]
      BY <2>3, <3>1 DEF DrainRender
    <3>3. rows_done' \in [Participants -> Nat]
      BY <2>3, <3>1 DEF DrainRender
    <3> QED
      BY <1>0, <2>3, <3>2, <3>3 DEF DrainRender, DataTypeOK
  <2>4. CASE DrainTally(p)
    BY <1>0, <2>4 DEF DrainTally, DataTypeOK
  <2> QED
    BY <1>6, <2>1, <2>2, <2>3, <2>4 DEF Drain
<1>7. ASSUME NEW p \in Participants, FallAsleep(p) \/ SpuriousWake(p)
      PROVE  DataTypeOK'
  BY <1>0, <1>7 DEF FallAsleep, SpuriousWake, DataTypeOK
<1>8. ASSUME NEW w \in Workers, WorkerLoop(w)
      PROVE  DataTypeOK'
  BY <1>0, <1>8 DEF WorkerLoop, WorkerEnter, SpinStop, SpinCompare, ParkLeave,
     ParkDoze, Reload, Admit, Report, NotifyDone, DataTypeOK
<1>9. CASE UNCHANGED vars
  BY <1>0, <1>9 DEF vars, DataTypeOK
<1> QED
  BY <1>1, <1>2, <1>3, <1>4, <1>5, <1>6, <1>7, <1>8, <1>9
     DEF Next, RenderFrame

(***************************************************************************)
(* One participant moves to a label it may be at.                          *)
(***************************************************************************)
LEMMA GotoLabels ==
  ASSUME LabelsOK, NEW p \in Participants, NEW label, Goto(p, label),
         IF p = 0 THEN label \in CallerLabels ELSE label \in WorkerLabels
  PROVE  LabelsOK'
BY DEF LabelsOK, Goto, Workers

LEMMA WakeLabels ==
  ASSUME LabelsOK, NEW label \in CallerLabels, WakeAll(label)
  PROVE  LabelsOK'
BY PoolAssumption
   DEF LabelsOK, WakeAll, Workers, Participants, WorkerLabels, RestLabels

LEMMA NextLabels ==
  ASSUME TypeOK, [Next]_vars
  PROVE  LabelsOK'
<1>0. LabelsOK /\ 0 \in Participants /\ Workers \subseteq Participants
        /\ 0 \notin Workers
  BY PoolAssumption DEF TypeOK, Participants, Workers
<1>1. ASSUME NEW m \in StartCounts, Start(m)
      PROVE  LabelsOK'
  BY <1>0, <1>1 DEF Start, LabelsOK, Workers, WorkerLabels
<1>2. ASSUME NEW h \in Heights, NEW n \in ThreadCounts,
             RenderAlone(h, n) \/ RenderShared(h, n)
      PROVE  LabelsOK'
  <2>1. "lock" \in CallerLabels
    BY DEF CallerLabels, PublishLabels
  <2>2. UNCHANGED pc \/ Goto(0, "lock")
    BY <1>2 DEF RenderAlone, RenderShared
  <2> QED
    BY <1>0, <2>1, <2>2, GotoLabels DEF LabelsOK
<1>3. CASE Publish \/ Await \/ Stop \/ StopCall
  <2>1. {"store", "wake", "copy", "await", "dozing", "idle", "stop_lock",
         "stop_bump", "stop_wake", "join"} \subseteq CallerLabels
    BY DEF CallerLabels, PublishLabels, FrameLabels, StopLabels, DrainLabels,
       AwaitLabels
  <2>2. \/ UNCHANGED pc
        \/ \E label \in CallerLabels : Goto(0, label) \/ WakeAll(label)
    BY <1>3, <2>1 DEF Publish, PublishLock, PublishStore, PublishBump,
       PublishWake, Await, AwaitReturn, AwaitDoze, Stop, StopCall, StopFlag,
       StopBump, StopWake, StopJoin
  <2> QED
    BY <1>0, <2>2, GotoLabels, WakeLabels DEF LabelsOK
<1>4. ASSUME NEW p \in Participants,
             Drain(p) \/ FallAsleep(p) \/ SpuriousWake(p)
      PROVE  LabelsOK'
  <2>1. /\ {"claim", "render", "tally", "await", "asleep"} \subseteq CallerLabels
        /\ {"claim", "render", "tally", "report", "asleep", "park"}
              \subseteq WorkerLabels
    BY DEF CallerLabels, WorkerLabels, FrameLabels, DrainLabels, AwaitLabels,
       RestLabels
  <2>2. \E label : /\ Goto(p, label)
                   /\ IF p = 0 THEN label \in CallerLabels
                               ELSE label \in WorkerLabels
    BY <1>4, <2>1 DEF Drain, DrainCopy, DrainClaim, DrainRender, DrainTally,
       FallAsleep, SpuriousWake
  <2> QED
    BY <1>0, <2>2, GotoLabels
<1>5. ASSUME NEW w \in Workers, WorkerLoop(w)
      PROVE  LabelsOK'
  <2>1. {"spin", "exited", "compare", "reload", "park", "dozing", "admit",
         "copy", "notify"} \subseteq WorkerLabels
    BY DEF WorkerLabels, DrainLabels, RestLabels
  <2>2. CASE NotifyDone(w)
    <3>1. "await" \in CallerLabels
      BY DEF CallerLabels, FrameLabels, AwaitLabels
    <3> QED
      BY <1>0, <2>1, <2>2, <3>1 DEF NotifyDone, LabelsOK
  <2>3. CASE ~NotifyDone(w)
    <3>1. \E label \in WorkerLabels : Goto(w, label)
      BY <1>5, <2>1, <2>3 DEF WorkerLoop, WorkerEnter, SpinStop, SpinCompare,
         ParkLeave, ParkDoze, Reload, Admit, Report
    <3> QED
      BY <1>0, <3>1, GotoLabels
  <2> QED
    BY <2>2, <2>3
<1>6. CASE UNCHANGED vars
  BY <1>0, <1>6 DEF vars, LabelsOK
<1> QED
  BY <1>1, <1>2, <1>3, <1>4, <1>5, <1>6 DEF Next, RenderFrame

(***************************************************************************)
(* A participant that enters a kernel has claimed a row of its own copy of *)
(* the job, and keeps both until it leaves.                                *)
(***************************************************************************)
RowInJob == \A p \in Participants : At(p, "render") => row[p] < work[p].height

LEMMA NextRow ==
  ASSUME TypeOK, [Next]_vars
  PROVE  RowInJob'
<1> USE DEF drainVars, At, Goto
<1>a. RowInJob /\ DataTypeOK /\ LabelsOK
  BY DEF TypeOK, RowInJob
<1>b. 0 \in Participants /\ Workers \subseteq Participants
  BY PoolAssumption DEF Participants, Workers
<1>c. pc \in [Participants -> CallerLabels \cup WorkerLabels]
  BY <1>a DEF LabelsOK
<1>d. /\ next_row \in Nat /\ row \in [Participants -> Nat]
      /\ work \in [Participants -> [frame : Nat, height : 0..MaxHeight]]
  BY <1>a DEF DataTypeOK
<1>0. /\ RowInJob /\ 0 \in Participants /\ Workers \subseteq Participants
      /\ pc \in [Participants -> CallerLabels \cup WorkerLabels]
      /\ next_row \in Nat /\ row \in [Participants -> Nat]
      /\ work \in [Participants -> [frame : Nat, height : 0..MaxHeight]]
  BY <1>a, <1>b, <1>c, <1>d
<1>1. ASSUME NEW p \in Participants, DrainCopy(p)
      PROVE  RowInJob'
  <2>1. \A q \in Participants : pc'[q] = "render" =>
          q # p /\ pc[q] = "render" /\ row'[q] = row[q] /\ work'[q] = work[q]
    BY <1>0, <1>1 DEF DrainCopy
  <2> QED
    BY <1>0, <2>1 DEF RowInJob
<1>2. ASSUME NEW p \in Participants, DrainClaim(p)
      PROVE  RowInJob'
  <2>1. work' = work
    BY <1>2 DEF DrainClaim
  <2>2. \A q \in Participants \ {p} : pc'[q] = pc[q] /\ row'[q] = row[q]
    BY <1>0, <1>2 DEF DrainClaim
  <2>3. pc'[p] = "render" => row'[p] = next_row /\ next_row < work[p].height
    BY <1>0, <1>2 DEF DrainClaim
  <2> QED
    BY <1>0, <2>1, <2>2, <2>3 DEF RowInJob
<1>3. ASSUME UNCHANGED <<row, work>>,
             \A p \in Participants : pc'[p] = "render" => pc[p] = "render"
      PROVE  RowInJob'
  BY <1>0, <1>3 DEF RowInJob
<1>4. ASSUME NEW m \in StartCounts, Start(m)
      PROVE  RowInJob'
  BY <1>0, <1>3, <1>4 DEF Start
<1>5. ASSUME NEW h \in Heights, NEW n \in ThreadCounts,
             RenderAlone(h, n) \/ RenderShared(h, n)
      PROVE  RowInJob'
  BY <1>0, <1>3, <1>5 DEF RenderAlone, RenderShared
<1>6. CASE Publish
  BY <1>0, <1>3, <1>6
     DEF Publish, PublishLock, PublishStore, PublishBump, PublishWake, WakeAll
<1>7. CASE Await \/ StopCall \/ Stop
  BY <1>0, <1>3, <1>7 DEF Await, AwaitReturn, AwaitDoze, StopCall, Stop,
     StopFlag, StopBump, StopWake, StopJoin, WakeAll
<1>8. ASSUME NEW p \in Participants,
             DrainRender(p) \/ DrainTally(p) \/ FallAsleep(p) \/ SpuriousWake(p)
      PROVE  RowInJob'
  BY <1>0, <1>3, <1>8 DEF DrainRender, DrainTally, FallAsleep, SpuriousWake
<1>9. ASSUME NEW w \in Workers, WorkerLoop(w)
      PROVE  RowInJob'
  <2>1. CASE WorkerEnter(w) \/ SpinStop(w) \/ SpinCompare(w) \/ ParkLeave(w)
    BY <1>0, <1>3, <2>1 DEF WorkerEnter, SpinStop, SpinCompare, ParkLeave
  <2>2. CASE ParkDoze(w) \/ Reload(w) \/ Admit(w) \/ Report(w)
    BY <1>0, <1>3, <2>2 DEF ParkDoze, Reload, Admit, Report
  <2>3. CASE NotifyDone(w)
    BY <1>0, <1>3, <2>3 DEF NotifyDone
  <2> QED
    BY <1>9, <2>1, <2>2, <2>3 DEF WorkerLoop
<1>10. CASE UNCHANGED vars
  BY <1>3, <1>10 DEF vars
<1> QED
  BY <1>1, <1>2, <1>4, <1>5, <1>6, <1>7, <1>8, <1>9, <1>10
     DEF Next, RenderFrame, Drain

LEMMA NextType == TypeOK /\ [Next]_vars => TypeOK'
BY NextData, NextLabels, NextRow DEF TypeOK, RowInJob

THEOREM TypeCorrect == Spec => []TypeOK
BY InitType, NextType, PTL DEF Spec

-----------------------------------------------------------------------------
(***************************************************************************)
(* What the steps have in common.  Most steps change no data the invariant *)
(* looks at and move one participant between labels of one kind.           *)
(***************************************************************************)
SameData ==
  UNCHANGED <<job, next_row, workers_done, generation, stop, worker_count,
              started, last_thread_count, unstored, request, frame, row_tally,
              work, row, rows_done, painted>>

Elsewhere(p) == \A q \in Participants \ {p} : pc'[q] = pc[q]

LEMMA Basics ==
  ASSUME TypeOK
  PROVE  /\ 0 \in Participants /\ Workers \subseteq Participants
         /\ 0 \notin Workers
         /\ \A p \in Participants : p # 0 => p \in Workers
         /\ \A w \in Workers : w \in Nat /\ w >= 1
         /\ pc \in [Participants -> CallerLabels \cup WorkerLabels]
         /\ pc[0] \in CallerLabels
         /\ \A w \in Workers : pc[w] \in WorkerLabels
BY PoolAssumption DEF TypeOK, LabelsOK, Participants, Workers

LEMMA Numbers ==
  ASSUME TypeOK
  PROVE  /\ next_row \in Nat /\ workers_done \in Nat /\ generation \in Nat
         /\ job \in [frame : Nat, height : 0..MaxHeight, thread_count : Nat]
         /\ request \in [height : 0..MaxHeight, thread_count : Nat]
         /\ frame \in Nat /\ MaxHeight \in Nat /\ worker_count \in Nat
         /\ seen \in [Participants -> Nat] /\ row \in [Participants -> Nat]
         /\ work \in [Participants -> [frame : Nat, height : 0..MaxHeight]]
         /\ painted \in [Rows -> Nat]
<1>1. DataTypeOK /\ MaxHeight \in Nat
  BY PoolAssumption DEF TypeOK
<1>2. worker_count \in Nat
  BY <1>1, PoolAssumption DEF DataTypeOK, Participants
<1> QED
  BY <1>1, <1>2 DEF DataTypeOK

RestStep(w) ==
  SpinStop(w) \/ SpinCompare(w) \/ ParkLeave(w) \/ ParkDoze(w)
    \/ FallAsleep(w) \/ SpuriousWake(w)

LEMMA RestMoves ==
  ASSUME TypeOK, NEW w \in Workers, RestStep(w)
  PROVE  /\ SameData /\ UNCHANGED seen /\ Elsewhere(w)
         /\ pc[w] \in RestLabels
         /\ \/ pc'[w] \in RestLabels
            \/ pc'[w] = "exited" /\ stop
            \/ pc'[w] = "reload" /\ seen[w] # generation
<1> USE Basics DEF sharedVars, callerVars, drainVars, SameData, Elsewhere,
               At, Goto, RestLabels
<1>1. CASE SpinStop(w)
  BY <1>1 DEF SpinStop
<1>2. CASE SpinCompare(w)
  BY <1>2 DEF SpinCompare
<1>3. CASE ParkLeave(w)
  BY <1>3 DEF ParkLeave
<1>4. CASE ParkDoze(w)
  BY <1>4 DEF ParkDoze
<1>5. CASE FallAsleep(w) \/ SpuriousWake(w)
  BY <1>5 DEF FallAsleep, SpuriousWake
<1> QED
  BY <1>1, <1>2, <1>3, <1>4, <1>5 DEF RestStep

CallerWaitStep == AwaitDoze \/ FallAsleep(0) \/ SpuriousWake(0)

LEMMA CallerWaits ==
  ASSUME TypeOK, CallerWaitStep
  PROVE  /\ SameData /\ UNCHANGED seen /\ Elsewhere(0)
         /\ pc[0] \in AwaitLabels /\ pc'[0] \in AwaitLabels
BY Basics DEF CallerWaitStep, AwaitDoze, FallAsleep, SpuriousWake, sharedVars,
   callerVars, drainVars, SameData, Elsewhere, At, Goto, AwaitLabels

LEMMA Wakes ==
  ASSUME TypeOK, NEW label, WakeAll(label)
  PROVE  /\ pc'[0] = label
         /\ \A w \in Workers : \/ pc'[w] = pc[w]
                               \/ pc[w] = "asleep" /\ pc'[w] = "park"
BY Basics DEF WakeAll

LEMMA Notifies ==
  ASSUME TypeOK, NEW w \in Workers, NotifyDone(w)
  PROVE  /\ SameData /\ UNCHANGED seen
         /\ pc[w] = "notify" /\ pc'[w] = "spin"
         /\ \A v \in Workers \ {w} : pc'[v] = pc[v]
         /\ pc'[0] = pc[0] \/ (pc[0] \in AwaitLabels /\ pc'[0] \in AwaitLabels)
BY Basics DEF NotifyDone, sharedVars, callerVars, drainVars, SameData, At,
   AwaitLabels

(***************************************************************************)
(* Next, split the way the proofs below use it.                            *)
(***************************************************************************)
LEMMA NextCases ==
  ASSUME TypeOK, [Next]_vars
  PROVE  \/ \E m \in StartCounts : Start(m)
         \/ \E h \in Heights, n \in ThreadCounts :
              RenderAlone(h, n) \/ RenderShared(h, n)
         \/ PublishLock \/ (\E s \in Stores : PublishStore(s)) \/ PublishBump
         \/ PublishWake
         \/ AwaitReturn \/ CallerWaitStep
         \/ StopCall \/ StopFlag \/ StopBump \/ StopWake \/ StopJoin
         \/ \E p \in Participants : DrainCopy(p) \/ DrainClaim(p)
                                      \/ DrainRender(p) \/ DrainTally(p)
         \/ \E w \in Workers : RestStep(w) \/ WorkerEnter(w) \/ Reload(w)
                                 \/ Admit(w) \/ Report(w) \/ NotifyDone(w)
         \/ UNCHANGED vars
<1>1. ASSUME NEW p \in Participants, FallAsleep(p) \/ SpuriousWake(p)
      PROVE  CallerWaitStep \/ \E w \in Workers : RestStep(w)
  BY <1>1, Basics DEF CallerWaitStep, RestStep
<1>2. CASE \E p \in Participants : FallAsleep(p) \/ SpuriousWake(p)
  BY <1>1, <1>2
<1>3. CASE \E p \in Participants : Drain(p)
  BY <1>3 DEF Drain
<1>4. CASE \E w \in Workers : WorkerLoop(w)
  BY <1>4 DEF WorkerLoop, RestStep
<1>5. CASE Publish \/ Await \/ Stop
  BY <1>5 DEF Publish, Await, Stop, CallerWaitStep
<1> QED
  BY <1>2, <1>3, <1>4, <1>5 DEF Next, RenderFrame

-----------------------------------------------------------------------------
(***************************************************************************)
(* Workers that exist, and the stop flag.                                  *)
(***************************************************************************)
LEMMA SpawnedStep ==
  ASSUME TypeOK, Spawned, [Next]_vars
  PROVE  Spawned'
<1> USE Basics, Numbers DEF sharedVars, callerVars, drainVars, At, Goto
<1> DEFINE Kept == /\ UNCHANGED <<worker_count, started, stop, request>>
                   /\ InCall' => InCall
                   /\ pc'[0] \in StopLabels <=> pc[0] \in StopLabels
                   /\ \A w \in Workers : pc[w] = "exited" => pc'[w] = "exited"
<1>0. ASSUME Kept
      PROVE  Spawned'
  BY <1>0 DEF Spawned
<1>a. /\ \A l \in FrameLabels \cup PublishLabels : l \notin StopLabels
      /\ {"lock", "store"} \subseteq PublishLabels
      /\ {"wake", "copy", "claim", "render", "tally", "await", "dozing",
          "asleep"} \subseteq FrameLabels
      /\ {"stop_bump", "stop_wake", "join"} \subseteq StopLabels
      /\ \A l \in {"idle", "stop_lock"} :
           l \notin FrameLabels \cup PublishLabels \cup StopLabels
      /\ AwaitLabels \subseteq FrameLabels
  BY DEF FrameLabels, PublishLabels, StopLabels, DrainLabels, AwaitLabels
<1>1. ASSUME NEW m \in StartCounts, Start(m)
      PROVE  Spawned'
  <2> DEFINE count == Clamp(m, 1, kMaxRenderThreads) - 1
  <2>1. count \in Nat
    BY StartCount, PoolAssumption DEF Participants
  <2> HIDE DEF count
  <2>2. /\ ~started /\ started' /\ ~stop' /\ worker_count' = count
        /\ pc' = [p \in Participants |-> IF p \in 1..count THEN "load" ELSE pc[p]]
        /\ pc[0] = "idle"
    BY <1>1 DEF Start, count
  <2>3. \A w \in Workers : w > worker_count' => pc'[w] = "exited"
    BY <2>1, <2>2 DEF Spawned
  <2>4. pc'[0] = "idle"
    BY <2>2
  <2> QED
    BY <2>2, <2>3, <2>4, <1>a DEF Spawned, InCall
<1>2. ASSUME NEW h \in Heights, NEW n \in ThreadCounts,
             RenderAlone(h, n) \/ RenderShared(h, n)
      PROVE  Spawned'
  <2>1. CASE RenderAlone(h, n)
    BY <1>a, <2>1 DEF RenderAlone, BeginCall, Spawned, InCall
  <2>2. CASE RenderShared(h, n)
    <3>1. Effective(n, h) >= 1
      BY EffectiveType DEF TypeOK
    <3>2. request'.thread_count >= 1 /\ started' /\ ~stop' /\ started
      BY <1>a, <2>2, <3>1 DEF RenderShared, BeginCall, Spawned
    <3>3. \A w \in Workers : pc'[w] = pc[w]
      BY <2>2 DEF RenderShared
    <3>4. worker_count' = worker_count
      BY <2>2 DEF RenderShared
    <3> QED
      BY <3>2, <3>3, <3>4 DEF Spawned
  <2> QED
    BY <1>2, <2>1, <2>2
<1>3. CASE PublishLock \/ (\E s \in Stores : PublishStore(s)) \/ PublishBump
  <2>1. Kept
    BY <1>a, <1>3 DEF PublishLock, PublishStore, PublishBump, InCall
  <2> QED
    BY <1>0, <2>1
<1>4. CASE PublishWake
  <2>1. Kept
    BY <1>a, <1>4, Wakes DEF PublishWake, InCall
  <2> QED
    BY <1>0, <2>1
<1>5. CASE AwaitReturn \/ CallerWaitStep
  <2>1. Kept
    BY <1>a, <1>5, CallerWaits
       DEF AwaitReturn, InCall, SameData, Elsewhere, AwaitLabels
  <2> QED
    BY <1>0, <2>1
<1>6. CASE StopCall \/ StopFlag \/ StopBump
  <2>1. /\ pc'[0] \notin FrameLabels \cup PublishLabels
        /\ UNCHANGED <<worker_count, started>>
        /\ \A w \in Workers : pc'[w] = pc[w]
        /\ pc'[0] \notin StopLabels => pc[0] \notin StopLabels /\ stop' = stop
    BY <1>a, <1>6
       DEF StopCall, StopFlag, StopBump, FrameLabels, PublishLabels,
           StopLabels, DrainLabels, AwaitLabels
  <2> QED
    BY <2>1 DEF Spawned, InCall
<1>7. CASE StopWake
  <2>1. /\ pc'[0] = "join" /\ UNCHANGED <<worker_count, started>>
        /\ \A w \in Workers : pc[w] = "exited" => pc'[w] = "exited"
    BY <1>7, Wakes DEF StopWake
  <2>2. "join" \notin FrameLabels \cup PublishLabels
    BY DEF FrameLabels, PublishLabels, DrainLabels, AwaitLabels
  <2> QED
    BY <1>a, <2>1, <2>2 DEF Spawned, InCall
<1>8. CASE StopJoin
  <2>1. /\ worker_count' = 0 /\ ~started' /\ pc'[0] = "idle"
        /\ \A w \in Workers : pc'[w] = pc[w]
        /\ \A w \in 1..worker_count : pc[w] = "exited"
    BY <1>8 DEF StopJoin
  <2>2. \A w \in Workers : pc[w] = "exited"
    BY <2>1 DEF Spawned
  <2> QED
    BY <1>a, <2>1, <2>2 DEF Spawned, InCall
<1>9. ASSUME NEW p \in Participants,
             DrainCopy(p) \/ DrainClaim(p) \/ DrainRender(p) \/ DrainTally(p)
      PROVE  Spawned'
  <2>1. Kept
    BY <1>a, <1>9
       DEF DrainCopy, DrainClaim, DrainRender, DrainTally, InCall
  <2> QED
    BY <1>0, <2>1
<1>10. ASSUME NEW w \in Workers, RestStep(w)
       PROVE  Spawned'
  <2>1. Kept
    BY <1>10, RestMoves DEF InCall, SameData, Elsewhere, RestLabels
  <2> QED
    BY <1>0, <2>1
<1>11. ASSUME NEW w \in Workers,
              WorkerEnter(w) \/ Reload(w) \/ Admit(w) \/ Report(w)
       PROVE  Spawned'
  <2>1. Kept
    BY <1>11 DEF WorkerEnter, Reload, Admit, Report, InCall
  <2> QED
    BY <1>0, <2>1
<1>12. ASSUME NEW w \in Workers, NotifyDone(w)
       PROVE  Spawned'
  <2>1. Kept
    BY <1>a, <1>12, Notifies DEF InCall, SameData
  <2> QED
    BY <1>0, <2>1
<1>13. CASE UNCHANGED vars
  BY <1>13 DEF vars, Spawned, InCall
<1> QED
  BY NextCases, <1>1, <1>2, <1>3, <1>4, <1>5, <1>6, <1>7, <1>8, <1>9, <1>10,
     <1>11, <1>12, <1>13

-----------------------------------------------------------------------------
(***************************************************************************)
(* The counting argument: workers_done never exceeds the number of needed  *)
(* workers that have finished, so enough reports mean that all have.       *)
(***************************************************************************)
LEMMA WorkerSets ==
  ASSUME NEW S \in SUBSET Workers, NEW T \in SUBSET Workers
  PROVE  /\ IsFiniteSet(S)
         /\ Cardinality(S) \in Nat
         /\ S \subseteq T => Cardinality(S) <= Cardinality(T)
<1>1. Workers \subseteq 0..(kMaxRenderThreads - 1)
  BY DEF Workers, Participants
<1>2. IsFiniteSet(Workers)
  <2>1. kMaxRenderThreads - 1 \in Int
    BY PoolAssumption
  <2>2. IsFiniteSet(0..(kMaxRenderThreads - 1))
    BY <2>1, FS_Interval
  <2> QED
    BY <1>1, <2>2, FS_Subset
<1> QED
  BY <1>2, FS_Subset, FS_CardinalityType

LEMMA FullInterval ==
  ASSUME NEW n \in Nat, n >= 1, NEW S \in SUBSET (1..(n - 1)),
         Cardinality(S) >= n - 1
  PROVE  S = 1..(n - 1)
<1> DEFINE I == 1..(n - 1)
<1>1. IsFiniteSet(I) /\ Cardinality(I) = IF 1 > n - 1 THEN 0 ELSE (n - 1) - 1 + 1
  BY FS_Interval
<1>2. Cardinality(I) = n - 1
  BY <1>1
<1> HIDE DEF I
<1>3. S \in SUBSET I
  BY DEF I
<1>4. /\ IsFiniteSet(S)
      /\ Cardinality(S) <= Cardinality(I)
      /\ Cardinality(I) = Cardinality(S) => I = S
  BY <1>1, <1>3, FS_Subset
<1>5. Cardinality(S) \in Nat
  BY <1>4, FS_CardinalityType
<1> QED
  BY <1>2, <1>4, <1>5 DEF I

LEMMA EnoughReports ==
  ASSUME TypeOK, Draining, Spawned, pc[0] \in FrameLabels, AllReported,
         NEW w \in Workers, w < job.thread_count
  PROVE  Settled(w)
<1> USE Basics, Numbers
<1> DEFINE n == job.thread_count
<1>1. n = request.thread_count /\ n \in Nat /\ n >= 1
  BY DEF Draining, Spawned, InCall
<1>2. Finished \in SUBSET Workers /\ Finished \subseteq 1..(n - 1)
  BY <1>1 DEF Finished
<1>3. Cardinality(Finished) >= n - 1 /\ Cardinality(Finished) \in Nat
  <2>1. Cardinality(Finished) \in Nat
    BY <1>2, WorkerSets
  <2>2. workers_done <= Cardinality(Finished)
    BY DEF Draining
  <2> QED
    BY <1>1, <2>1, <2>2 DEF AllReported
<1>4. Finished = 1..(n - 1)
  BY <1>1, <1>2, <1>3, FullInterval
<1>5. w \in Finished
  BY <1>1, <1>4
<1> QED
  BY <1>5 DEF Finished

(***************************************************************************)
(* Outside a frame no worker touches rows, and the workers that are not    *)
(* up to date are not needed.                                              *)
(***************************************************************************)
LEMMA QuietStep ==
  ASSUME TypeOK, GrowthPaced, PoolInv, [Next]_vars
  PROVE  Quiet'
<1> USE Basics, Numbers DEF sharedVars, callerVars, drainVars, At, Goto
<1>q. Quiet /\ Spawned /\ Draining
  BY DEF PoolInv
<1>a. /\ {"lock", "store"} \subseteq PublishLabels
      /\ QuietLabels = {"idle", "stop_lock", "stop_bump", "lock", "store"}
      /\ FrameLabels = {"wake", "copy", "claim", "render", "tally", "await",
                        "dozing", "asleep"}
      /\ PublishLabels = {"lock", "store"}
      /\ DrainLabels = {"copy", "claim", "render", "tally"}
      /\ AwaitLabels = {"await", "dozing", "asleep"}
  BY DEF QuietLabels, FrameLabels, PublishLabels, DrainLabels, AwaitLabels
<1>1. ASSUME NEW m \in StartCounts, Start(m)
      PROVE  Quiet'
  <2>1. \A w \in Workers : pc'[w] = "load" \/ pc'[w] = "exited"
    BY <1>1, <1>q DEF Start, Spawned
  <2>2. pc'[0] = "idle"
    BY <1>1 DEF Start
  <2> QED
    BY <1>a, <2>1, <2>2 DEF Quiet, Stale, RestLabels
<1>2. ASSUME NEW h \in Heights, NEW n \in ThreadCounts, RenderAlone(h, n)
      PROVE  Quiet'
  BY <1>q, <1>a, <1>2 DEF RenderAlone, BeginCall, Quiet, Stale
<1>3. ASSUME NEW h \in Heights, NEW n \in ThreadCounts, RenderShared(h, n)
      PROVE  Quiet'
  <2>1. /\ pc[0] = "idle" /\ pc'[0] = "lock"
        /\ UNCHANGED <<job, generation, seen, worker_count>>
        /\ \A w \in Workers : pc'[w] = pc[w]
    BY <1>3 DEF RenderShared, BeginCall
  <2>2. Effective(n, h) \in Nat /\ request'.thread_count = Effective(n, h)
    BY <1>3, EffectiveType DEF RenderShared, BeginCall, TypeOK
  <2>3. \/ Effective(n, h) <= job.thread_count
        \/ \A w \in 1..worker_count : Calm(w)
    BY <1>3 DEF RenderShared, MayPublish
  <2>4. \A w \in Workers : Calm(w) => ~Stale(w)
    BY DEF Calm, Settled, Stale, RestLabels
  <2>5. \A w \in Workers : w > worker_count => ~Stale(w)
    BY <1>q DEF Spawned, Stale, RestLabels
  <2>6. \A w \in Workers : w > worker_count \/ w \in 1..worker_count
    OBVIOUS
  <2>7. \A w \in Workers :
          Stale(w) => w >= job.thread_count /\ w >= Effective(n, h)
    BY <1>q, <1>a, <2>1, <2>2, <2>3, <2>4, <2>5, <2>6 DEF Quiet
  <2> QED
    BY <1>q, <1>a, <2>1, <2>2, <2>7 DEF Quiet, Stale
<1>4. CASE PublishLock
  BY <1>q, <1>a, <1>4 DEF PublishLock, Quiet, Stale
<1>5. ASSUME NEW s \in Stores, PublishStore(s)
      PROVE  Quiet'
  <2>1. /\ pc[0] = "store" /\ UNCHANGED <<pc, seen, generation, request>>
        /\ \/ job'.thread_count = job.thread_count
           \/ job'.thread_count = request.thread_count
    BY <1>5 DEF PublishStore, StoreJob, StoreCounter
  <2> QED
    BY <1>q, <1>a, <2>1 DEF Quiet, Stale
<1>6. CASE PublishBump \/ PublishWake
  BY <1>a, <1>6, Wakes DEF PublishBump, PublishWake, Quiet
<1>7. CASE AwaitReturn
  <2>1. pc[0] = "await" /\ pc'[0] = "idle" /\ AllReported
    BY <1>7 DEF AwaitReturn
  <2>2. /\ UNCHANGED <<job, generation, seen>>
        /\ \A w \in Workers : pc'[w] = pc[w]
    BY <1>7 DEF AwaitReturn
  <2>3. \A w \in Workers : w < job.thread_count => Settled(w)
    BY <1>q, <1>a, <2>1, EnoughReports
  <2>4. \A w \in Workers : Settled(w) =>
          pc[w] \notin DrainLabels \cup {"report"} /\ ~Stale(w)
    BY <1>a DEF Settled, Stale, RestLabels
  <2>5. \A w \in Workers : pc[w] \in DrainLabels \cup {"report"} =>
          w < job.thread_count
    BY <1>q, <1>a, <2>1 DEF Draining
  <2> QED
    BY <1>a, <2>1, <2>2, <2>3, <2>4, <2>5 DEF Quiet, Stale
<1>8. CASE CallerWaitStep
  BY <1>a, <1>8, CallerWaits DEF Quiet
<1>9. CASE StopCall \/ StopFlag
  BY <1>q, <1>a, <1>9 DEF StopCall, StopFlag, Quiet, Stale
<1>10. CASE StopBump \/ StopWake
  BY <1>a, <1>10, Wakes DEF StopBump, StopWake, Quiet
<1>11. CASE StopJoin
  <2>1. \A w \in Workers : pc'[w] = "exited"
    BY <1>q, <1>11 DEF StopJoin, Spawned
  <2>2. pc'[0] = "idle"
    BY <1>11 DEF StopJoin
  <2> QED
    BY <1>a, <2>1, <2>2 DEF Quiet, Stale, RestLabels
<1>12. ASSUME NEW p \in Participants,
              DrainCopy(p) \/ DrainClaim(p) \/ DrainRender(p) \/ DrainTally(p)
       PROVE  Quiet'
  <2>1. pc[p] \in DrainLabels /\ (p # 0 => pc'[0] = pc[0])
    BY <1>a, <1>12 DEF DrainCopy, DrainClaim, DrainRender, DrainTally
  <2>2. p = 0 => pc'[0] \notin QuietLabels
    BY <1>a, <1>12 DEF DrainCopy, DrainClaim, DrainRender, DrainTally
  <2> QED
    BY <1>q, <1>a, <2>1, <2>2 DEF Quiet
<1>13. ASSUME NEW w \in Workers, RestStep(w)
       PROVE  Quiet'
  <2>1. \A v \in Workers : Stale(v)' => Stale(v)
    BY <1>13, RestMoves DEF SameData, Elsewhere, Stale, RestLabels
  <2>2. \A v \in Workers : pc'[v] = pc[v] \/ pc'[v] \notin DrainLabels \cup {"report"}
    BY <1>a, <1>13, RestMoves DEF Elsewhere, RestLabels
  <2>3. pc'[0] = pc[0] /\ UNCHANGED <<job, request>>
    BY <1>13, RestMoves DEF SameData, Elsewhere
  <2> QED
    BY <1>q, <2>1, <2>2, <2>3 DEF Quiet
<1>14. ASSUME NEW w \in Workers, WorkerEnter(w) \/ Reload(w)
       PROVE  Quiet'
  <2>1. /\ UNCHANGED <<job, request, generation>> /\ pc'[0] = pc[0]
        /\ \A v \in Workers \ {w} : pc'[v] = pc[v] /\ seen'[v] = seen[v]
    BY <1>14 DEF WorkerEnter, Reload
  <2>2. \/ pc'[w] = "spin" /\ seen'[w] = generation
        \/ pc[w] = "reload" /\ pc'[w] = "admit"
    BY <1>14 DEF WorkerEnter, Reload
  <2> QED
    BY <1>q, <1>a, <2>1, <2>2 DEF Quiet, Stale
<1>15. ASSUME NEW w \in Workers, Admit(w)
       PROVE  Quiet'
  <2>1. /\ UNCHANGED <<job, request, generation, seen>> /\ pc'[0] = pc[0]
        /\ \A v \in Workers \ {w} : pc'[v] = pc[v]
        /\ pc[w] = "admit"
        /\ pc'[w] = IF w >= job.thread_count THEN "spin" ELSE "copy"
    BY <1>15 DEF Admit
  <2> QED
    BY <1>q, <1>a, <2>1 DEF Quiet, Stale
<1>16. ASSUME NEW w \in Workers, Report(w)
       PROVE  Quiet'
  BY <1>q, <1>16 DEF Report, Quiet
<1>17. ASSUME NEW w \in Workers, NotifyDone(w)
       PROVE  Quiet'
  BY <1>q, <1>a, <1>17, Notifies DEF SameData, Quiet, Stale, RestLabels
<1>18. CASE UNCHANGED vars
  BY <1>q, <1>18 DEF vars, Quiet, Stale
<1> QED
  BY NextCases, <1>1, <1>2, <1>3, <1>4, <1>5, <1>6, <1>7, <1>8, <1>9, <1>10,
     <1>11, <1>12, <1>13, <1>14, <1>15, <1>16, <1>17, <1>18

(***************************************************************************)
(* While the caller publishes, what it has stored stays stored: nobody     *)
(* claims a row or reports.                                                *)
(***************************************************************************)
LEMMA PublishingStep ==
  ASSUME TypeOK, PoolInv, [Next]_vars
  PROVE  Publishing'
<1> USE Basics, Numbers DEF sharedVars, callerVars, drainVars, At, Goto
<1>q. Quiet /\ Publishing
  BY DEF PoolInv
<1>a. /\ {"store"} \subseteq QuietLabels /\ "store" \notin AwaitLabels
      /\ DrainLabels = {"copy", "claim", "render", "tally"}
  BY DEF QuietLabels, PublishLabels, AwaitLabels, DrainLabels
<1>b. SUFFICES ASSUME pc'[0] = "store"
               PROVE  \A s \in Stores \ unstored' : Stored(s)'
  BY DEF Publishing
<1>1. ASSUME pc[0] = "store",
             UNCHANGED <<job, request, frame, next_row, workers_done, unstored>>
      PROVE  \A s \in Stores \ unstored' : Stored(s)'
  BY <1>q, <1>1 DEF Publishing, Stored
<1>2. ASSUME NEW m \in StartCounts, Start(m)
      PROVE  FALSE
  BY <1>b, <1>2 DEF Start
<1>3. ASSUME NEW h \in Heights, NEW n \in ThreadCounts,
             RenderAlone(h, n) \/ RenderShared(h, n)
      PROVE  FALSE
  BY <1>b, <1>3 DEF RenderAlone, RenderShared, BeginCall
<1>4. CASE PublishLock
  BY <1>4 DEF PublishLock
<1>5. ASSUME NEW s \in Stores, PublishStore(s)
      PROVE  \A t \in Stores \ unstored' : Stored(t)'
  <2>1. /\ pc[0] = "store" /\ UNCHANGED <<request, frame>>
        /\ unstored' = unstored \ {s}
        /\ StoreJob(s) \/ StoreCounter(s)
    BY <1>5 DEF PublishStore
  <2>2. \A t \in Stores \ unstored : Stored(t)
    BY <1>q, <2>1 DEF Publishing
  <2>3. CASE s = "call"
    BY <2>1, <2>2, <2>3 DEF StoreJob, StoreCounter, Stores, Stored
  <2>4. CASE s = "height"
    BY <2>1, <2>2, <2>4 DEF StoreJob, StoreCounter, Stores, Stored
  <2>5. CASE s = "thread_count"
    BY <2>1, <2>2, <2>5 DEF StoreJob, StoreCounter, Stores, Stored
  <2>6. CASE s = "next_row"
    <3>1. next_row' = 0 /\ UNCHANGED <<job, workers_done>>
      BY <2>1, <2>6 DEF StoreJob, StoreCounter
    <3> QED
      BY <2>1, <2>2, <2>6, <3>1 DEF Stored
  <2>7. CASE s = "workers_done"
    <3>1. workers_done' = 0 /\ UNCHANGED <<job, next_row>>
      BY <2>1, <2>7 DEF StoreJob, StoreCounter
    <3> QED
      BY <2>1, <2>2, <2>7, <3>1 DEF Stored
  <2> QED
    BY <2>3, <2>4, <2>5, <2>6, <2>7 DEF Stores
<1>6. CASE PublishBump \/ PublishWake
  BY <1>b, <1>6, Wakes DEF PublishBump, PublishWake
<1>7. CASE AwaitReturn \/ CallerWaitStep
  BY <1>a, <1>b, <1>7, CallerWaits DEF AwaitReturn
<1>8. CASE StopCall \/ StopFlag \/ StopBump \/ StopWake \/ StopJoin
  BY <1>b, <1>8, Wakes DEF StopCall, StopFlag, StopBump, StopWake, StopJoin
<1>9. ASSUME NEW p \in Participants,
             DrainCopy(p) \/ DrainClaim(p) \/ DrainRender(p) \/ DrainTally(p)
      PROVE  FALSE
  <2>1. pc[p] \in DrainLabels
    BY <1>a, <1>9 DEF DrainCopy, DrainClaim, DrainRender, DrainTally
  <2>2. CASE p = 0
    BY <1>b, <1>9, <2>2 DEF DrainCopy, DrainClaim, DrainRender, DrainTally
  <2>3. CASE p # 0
    <3>1. pc[0] = "store"
      BY <1>b, <1>9, <2>3 DEF DrainCopy, DrainClaim, DrainRender, DrainTally
    <3> QED
      BY <1>q, <1>a, <2>1, <2>3, <3>1 DEF Quiet
  <2> QED
    BY <2>2, <2>3
<1>10. ASSUME NEW w \in Workers, RestStep(w)
       PROVE  \A s \in Stores \ unstored' : Stored(s)'
  BY <1>1, <1>b, <1>10, RestMoves DEF SameData, Elsewhere
<1>11. ASSUME NEW w \in Workers, WorkerEnter(w) \/ Reload(w) \/ Admit(w)
       PROVE  \A s \in Stores \ unstored' : Stored(s)'
  BY <1>1, <1>b, <1>11 DEF WorkerEnter, Reload, Admit
<1>12. ASSUME NEW w \in Workers, Report(w)
       PROVE  FALSE
  BY <1>q, <1>a, <1>b, <1>12 DEF Report, Quiet
<1>13. ASSUME NEW w \in Workers, NotifyDone(w)
       PROVE  \A s \in Stores \ unstored' : Stored(s)'
  BY <1>1, <1>a, <1>b, <1>13, Notifies DEF SameData
<1>14. CASE UNCHANGED vars
  BY <1>1, <1>b, <1>14 DEF vars
<1> QED
  BY NextCases, <1>2, <1>3, <1>4, <1>5, <1>6, <1>7, <1>8, <1>9, <1>10, <1>11,
     <1>12, <1>13, <1>14

-----------------------------------------------------------------------------
(***************************************************************************)
(* During a frame: the workers in it are needed and up to date, their copy *)
(* of the job is the current one, and the reports are not too many.        *)
(***************************************************************************)
Current(p) == work[p] = [frame |-> frame, height |-> request.height]

LEMMA CountKept ==
  ASSUME TypeOK, Finished \subseteq Finished', workers_done' = workers_done,
         workers_done <= Cardinality(Finished)
  PROVE  workers_done' <= Cardinality(Finished')
<1>1. Finished \in SUBSET Workers /\ Finished' \in SUBSET Workers
  BY DEF Finished
<1>2. /\ Cardinality(Finished) \in Nat /\ Cardinality(Finished') \in Nat
      /\ Cardinality(Finished) <= Cardinality(Finished')
  BY <1>1, WorkerSets
<1> QED
  BY <1>2, Numbers

LEMMA DrainingStep ==
  ASSUME TypeOK, PoolInv, [Next]_vars
  PROVE  Draining'
<1> USE Basics, Numbers DEF sharedVars, callerVars, drainVars, At, Goto
<1>q. Quiet /\ Publishing /\ Draining /\ Spawned
  BY DEF PoolInv
<1>a. /\ QuietLabels = {"idle", "stop_lock", "stop_bump", "lock", "store"}
      /\ FrameLabels = {"wake", "copy", "claim", "render", "tally", "await",
                        "dozing", "asleep"}
      /\ DrainLabels = {"copy", "claim", "render", "tally"}
      /\ AwaitLabels = {"await", "dozing", "asleep"}
  BY DEF QuietLabels, FrameLabels, PublishLabels, DrainLabels, AwaitLabels
<1>b. SUFFICES ASSUME pc'[0] \in FrameLabels
               PROVE  Draining'
  BY DEF Draining
<1> DEFINE
      Same == UNCHANGED <<job, request, frame, generation>>
      InFrame == /\ pc[0] \in FrameLabels /\ ~stop
                 /\ job = [frame |-> frame, height |-> request.height,
                           thread_count |-> request.thread_count]
                 /\ workers_done <= Cardinality(Finished)
      WorkersOK ==
        \A w \in Workers :
          /\ pc[w] \in DrainLabels \cup {"report"} =>
               w < job.thread_count /\ seen[w] = generation
          /\ At(w, "admit") => w >= job.thread_count \/ seen[w] = generation
      CopiesOK ==
        \A p \in Participants :
          pc[p] \in {"claim", "render", "tally"} => Current(p)
<1>c. pc[0] \in FrameLabels => InFrame /\ WorkersOK /\ CopiesOK
  BY <1>q DEF Draining, Spawned, InCall, StopLabels, FrameLabels, DrainLabels,
     AwaitLabels, Current
<1>d. ASSUME InFrame, Same, WorkersOK', CopiesOK',
             Finished \subseteq Finished', workers_done' = workers_done
      PROVE  Draining'
  <2>1. workers_done' <= Cardinality(Finished')
    BY <1>d, CountKept
  <2> QED
    BY <1>d, <2>1 DEF Draining, Current
<1>e. ASSUME Same, UNCHANGED seen,
             \A w \in Workers :
               pc[w] \in RestLabels \cup {"notify"} =>
                 \/ pc'[w] \in RestLabels \cup {"notify"}
                 \/ seen[w] # generation
      PROVE  Finished \subseteq Finished'
  BY <1>e DEF Finished, Settled
<1>1. ASSUME NEW m \in StartCounts, Start(m)
      PROVE  FALSE
  BY <1>a, <1>b, <1>1 DEF Start
<1>2. ASSUME NEW h \in Heights, NEW n \in ThreadCounts,
             RenderAlone(h, n) \/ RenderShared(h, n)
      PROVE  FALSE
  BY <1>a, <1>b, <1>2 DEF RenderAlone, RenderShared, BeginCall
<1>3. CASE PublishLock \/ (\E s \in Stores : PublishStore(s))
  BY <1>a, <1>b, <1>3 DEF PublishLock, PublishStore
<1>4. CASE PublishBump
  <2>1. /\ pc[0] = "store" /\ unstored = {}
        /\ UNCHANGED <<job, request, frame, next_row, workers_done, seen, work>>
        /\ \A w \in Workers : pc'[w] = pc[w]
        /\ pc'[0] = "wake"
    BY <1>4 DEF PublishBump
  <2>2. \A s \in Stores : Stored(s)
    BY <1>q, <2>1 DEF Publishing
  <2>3. /\ job.frame = frame /\ job.height = request.height
        /\ job.thread_count = request.thread_count /\ workers_done = 0
    BY <2>2 DEF Stores, Stored
  <2>4. job = [frame |-> frame, height |-> request.height,
               thread_count |-> request.thread_count]
    BY <2>3
  <2>5. \A w \in Workers : /\ pc[w] \notin DrainLabels \cup {"report"}
                           /\ pc[w] = "admit" => w >= job.thread_count
    BY <1>q, <1>a, <2>1 DEF Quiet, Stale
  <2>6. CopiesOK'
    BY <1>a, <2>1, <2>5
  <2>7. Finished' \in SUBSET Workers
    BY DEF Finished
  <2>8. workers_done' <= Cardinality(Finished')
    BY <2>1, <2>3, <2>7, WorkerSets
  <2> QED
    BY <2>1, <2>4, <2>5, <2>6, <2>8 DEF Draining, Current
<1>5. CASE PublishWake
  <2>1. InFrame /\ Same /\ UNCHANGED <<seen, work, workers_done>>
    BY <1>a, <1>c, <1>5 DEF PublishWake
  <2>2. /\ pc'[0] = "copy"
        /\ \A w \in Workers : \/ pc'[w] = pc[w]
                              \/ pc[w] = "asleep" /\ pc'[w] = "park"
    <3>1. WakeAll("copy")
      BY <1>5 DEF PublishWake
    <3> QED
      BY <3>1, Wakes
  <2>3. Finished \subseteq Finished'
    BY <1>e, <2>1, <2>2 DEF RestLabels
  <2>4. WorkersOK' /\ CopiesOK'
    BY <1>a, <1>c, <2>1, <2>2 DEF Current
  <2> QED
    BY <1>d, <2>1, <2>3, <2>4
<1>6. CASE AwaitReturn \/ StopCall \/ StopFlag \/ StopBump \/ StopWake
             \/ StopJoin
  BY <1>a, <1>b, <1>6, Wakes
     DEF AwaitReturn, StopCall, StopFlag, StopBump, StopWake, StopJoin
<1>7. CASE CallerWaitStep
  <2>1. InFrame /\ Same /\ UNCHANGED <<seen, work, workers_done>>
    BY <1>a, <1>c, <1>7, CallerWaits DEF SameData
  <2>2. /\ pc'[0] \in AwaitLabels /\ \A w \in Workers : pc'[w] = pc[w]
    BY <1>7, CallerWaits DEF Elsewhere
  <2>3. Finished \subseteq Finished'
    BY <1>e, <2>1, <2>2
  <2>4. WorkersOK' /\ CopiesOK'
    BY <1>a, <1>c, <2>1, <2>2 DEF Current
  <2> QED
    BY <1>d, <2>1, <2>3, <2>4
<1>8. ASSUME NEW p \in Participants,
             DrainCopy(p) \/ DrainClaim(p) \/ DrainRender(p) \/ DrainTally(p)
      PROVE  Draining'
  <2>1. /\ pc[p] \in DrainLabels /\ Same /\ UNCHANGED <<seen, workers_done>>
        /\ \A q \in Participants \ {p} : pc'[q] = pc[q] /\ work'[q] = work[q]
    BY <1>a, <1>8 DEF DrainCopy, DrainClaim, DrainRender, DrainTally
  <2>2. InFrame
    BY <1>a, <1>b, <1>c, <2>1
  <2>3. /\ pc'[p] \in DrainLabels \cup {"report", "await"}
        /\ p # 0 => pc'[p] # "await"
        /\ pc'[p] \in {"claim", "render", "tally"} =>
             work'[p] = IF pc[p] = "copy"
                          THEN [frame |-> job.frame, height |-> job.height]
                          ELSE work[p]
    BY <1>a, <1>8 DEF DrainCopy, DrainClaim, DrainRender, DrainTally
  <2>4. Finished \subseteq Finished'
    BY <1>a, <1>e, <2>1 DEF RestLabels
  <2>5. WorkersOK'
    BY <1>a, <1>c, <2>1, <2>2, <2>3
  <2>6. CopiesOK'
    BY <1>a, <1>c, <2>1, <2>2, <2>3 DEF Current
  <2> QED
    BY <1>d, <2>1, <2>2, <2>4, <2>5, <2>6
<1>9. ASSUME NEW w \in Workers, RestStep(w)
      PROVE  Draining'
  <2>1. /\ Same /\ UNCHANGED <<seen, work, workers_done>> /\ Elsewhere(w)
        /\ pc'[0] = pc[0]
    BY <1>9, RestMoves DEF SameData, Elsewhere
  <2>2. \/ pc'[w] \in RestLabels
        \/ pc'[w] = "exited" /\ stop
        \/ pc'[w] = "reload" /\ seen[w] # generation
    BY <1>9, RestMoves
  <2>3. InFrame
    BY <1>b, <1>c, <2>1
  <2>4. Finished \subseteq Finished'
    BY <1>e, <2>1, <2>2, <2>3 DEF Elsewhere
  <2>5. WorkersOK' /\ CopiesOK'
    BY <1>a, <1>c, <2>1, <2>2, <2>3 DEF Elsewhere, RestLabels, Current
  <2> QED
    BY <1>d, <2>1, <2>3, <2>4, <2>5
<1>10. ASSUME NEW w \in Workers, WorkerEnter(w) \/ Reload(w)
       PROVE  Draining'
  <2>1. /\ Same /\ UNCHANGED <<work, workers_done>> /\ Elsewhere(w)
        /\ pc'[0] = pc[0] /\ seen' = [seen EXCEPT ![w] = generation]
        /\ pc[w] \in {"load", "reload"} /\ pc'[w] \in {"spin", "admit"}
    BY <1>10 DEF WorkerEnter, Reload, Elsewhere
  <2>2. InFrame
    BY <1>b, <1>c, <2>1
  <2>3. Finished \subseteq Finished'
    BY <2>1 DEF Finished, Settled, Elsewhere, RestLabels
  <2>4. WorkersOK' /\ CopiesOK'
    BY <1>a, <1>c, <2>1, <2>2 DEF Elsewhere, Current
  <2> QED
    BY <1>d, <2>1, <2>2, <2>3, <2>4
<1>11. ASSUME NEW w \in Workers, Admit(w)
       PROVE  Draining'
  <2>1. /\ Same /\ UNCHANGED <<work, workers_done, seen>> /\ Elsewhere(w)
        /\ pc'[0] = pc[0] /\ pc[w] = "admit"
        /\ pc'[w] = IF w >= job.thread_count THEN "spin" ELSE "copy"
    BY <1>11 DEF Admit, Elsewhere
  <2>2. InFrame
    BY <1>b, <1>c, <2>1
  <2>3. Finished \subseteq Finished'
    BY <1>e, <2>1 DEF Elsewhere, RestLabels
  <2>4. WorkersOK' /\ CopiesOK'
    BY <1>a, <1>c, <2>1, <2>2 DEF Elsewhere, Current
  <2> QED
    BY <1>d, <2>1, <2>2, <2>3, <2>4
<1>12. ASSUME NEW w \in Workers, Report(w)
       PROVE  Draining'
  <2>1. /\ Same /\ UNCHANGED <<work, seen>> /\ Elsewhere(w)
        /\ workers_done' = workers_done + 1
        /\ pc'[0] = pc[0] /\ pc[w] = "report" /\ pc'[w] = "notify"
    BY <1>12 DEF Report, Elsewhere
  <2>2. InFrame /\ w < job.thread_count /\ seen[w] = generation
    BY <1>b, <1>c, <2>1
  <2>3. WorkersOK' /\ CopiesOK'
    BY <1>a, <1>c, <2>1, <2>2 DEF Elsewhere, Current
  <2>4. w \notin Finished /\ Finished' = Finished \cup {w}
    BY <2>1, <2>2 DEF Finished, Settled, Elsewhere, RestLabels
  <2>5. Finished \in SUBSET Workers /\ Finished' \in SUBSET Workers
    BY DEF Finished
  <2>6. Cardinality(Finished') = Cardinality(Finished) + 1
    BY <2>4, <2>5, WorkerSets, FS_AddElement
  <2>7. workers_done' <= Cardinality(Finished')
    BY <2>1, <2>2, <2>5, <2>6, WorkerSets
  <2> QED
    BY <2>1, <2>2, <2>3, <2>7 DEF Draining, Current
<1>13. ASSUME NEW w \in Workers, NotifyDone(w)
       PROVE  Draining'
  <2>1. /\ Same /\ UNCHANGED <<work, workers_done, seen>>
        /\ pc'[0] = pc[0] \/ (pc[0] \in AwaitLabels /\ pc'[0] \in AwaitLabels)
        /\ pc'[w] = "spin" /\ \A v \in Workers \ {w} : pc'[v] = pc[v]
    BY <1>13, Notifies DEF SameData
  <2>2. InFrame
    BY <1>a, <1>b, <1>c, <2>1
  <2>3. Finished \subseteq Finished'
    BY <1>e, <2>1 DEF RestLabels
  <2>4. WorkersOK' /\ CopiesOK'
    BY <1>a, <1>c, <2>1, <2>2 DEF Current
  <2> QED
    BY <1>d, <2>1, <2>2, <2>3, <2>4
<1>14. CASE UNCHANGED vars
  BY <1>q, <1>14 DEF vars, Draining, Finished, Settled
<1> QED
  BY NextCases, <1>1, <1>2, <1>3, <1>4, <1>5, <1>6, <1>7, <1>8, <1>9, <1>10,
     <1>11, <1>12, <1>13, <1>14

-----------------------------------------------------------------------------
(***************************************************************************)
(* During a frame: every claimed row is rendered or being rendered.        *)
(***************************************************************************)
RowsCovered ==
  \A y \in Rows : y < request.height /\ y < next_row =>
    \/ painted[y] = frame
    \/ \E p \in Participants : At(p, "render") /\ row[p] = y

RowsClaimed == \A p \in Participants : At(p, "render") => row[p] < next_row

LEMMA PaintingStep ==
  ASSUME TypeOK, PoolInv, [Next]_vars
  PROVE  Painting'
<1> USE Basics, Numbers DEF sharedVars, callerVars, drainVars, At, Goto
<1>q. Quiet /\ Publishing /\ Draining /\ Painting
  BY DEF PoolInv
<1>a. /\ QuietLabels = {"idle", "stop_lock", "stop_bump", "lock", "store"}
      /\ FrameLabels = {"wake", "copy", "claim", "render", "tally", "await",
                        "dozing", "asleep"}
      /\ DrainLabels = {"copy", "claim", "render", "tally"}
      /\ AwaitLabels = {"await", "dozing", "asleep"}
  BY DEF QuietLabels, FrameLabels, PublishLabels, DrainLabels, AwaitLabels
<1>b. SUFFICES ASSUME pc'[0] \in FrameLabels
               PROVE  Painting'
  BY DEF Painting
<1> DEFINE
      CallerOut(l) == l \in {"tally"} \cup AwaitLabels
      Same == UNCHANGED <<request, frame, next_row>>
<1>c. pc[0] \in FrameLabels =>
        /\ RowsCovered /\ RowsClaimed
        /\ CallerOut(pc[0]) => next_row >= request.height
        /\ \A p \in Participants : pc[p] \in {"claim", "render", "tally"} =>
             work[p] = [frame |-> frame, height |-> request.height]
  BY <1>q DEF Painting, Draining, RowsCovered, RowsClaimed
<1>d. ASSUME RowsCovered', RowsClaimed',
             CallerOut(pc'[0]) => next_row' >= request'.height
      PROVE  Painting'
  BY <1>d DEF Painting, RowsCovered, RowsClaimed
<1>e. ASSUME Same, UNCHANGED <<painted, row>>, pc[0] \in FrameLabels,
             CallerOut(pc'[0]) => CallerOut(pc[0]),
             \A p \in Participants : pc'[p] = "render" <=> pc[p] = "render"
      PROVE  Painting'
  BY <1>c, <1>d, <1>e DEF RowsCovered, RowsClaimed
<1>1. ASSUME NEW m \in StartCounts, Start(m)
      PROVE  FALSE
  BY <1>a, <1>b, <1>1 DEF Start
<1>2. ASSUME NEW h \in Heights, NEW n \in ThreadCounts,
             RenderAlone(h, n) \/ RenderShared(h, n)
      PROVE  FALSE
  BY <1>a, <1>b, <1>2 DEF RenderAlone, RenderShared, BeginCall
<1>3. CASE PublishLock \/ (\E s \in Stores : PublishStore(s))
  BY <1>a, <1>b, <1>3 DEF PublishLock, PublishStore
<1>4. CASE PublishBump
  <2>1. /\ pc[0] = "store" /\ unstored = {} /\ next_row' = next_row
        /\ \A w \in Workers : pc'[w] = pc[w]
        /\ pc'[0] = "wake"
    BY <1>4 DEF PublishBump
  <2>2. next_row = 0
    BY <1>q, <2>1 DEF Publishing, Stored, Stores
  <2>3. \A p \in Participants : pc'[p] # "render"
    BY <1>q, <1>a, <2>1 DEF Quiet
  <2>4. \A y \in Rows : ~(y < 0)
    BY DEF Rows
  <2> QED
    BY <1>a, <1>d, <2>1, <2>2, <2>3, <2>4 DEF RowsCovered, RowsClaimed
<1>5. CASE PublishWake
  <2>1. /\ Same /\ UNCHANGED <<painted, row>> /\ pc[0] = "wake"
        /\ WakeAll("copy")
    BY <1>5 DEF PublishWake
  <2>2. \A p \in Participants : pc'[p] = "render" <=> pc[p] = "render"
    BY <2>1, Wakes
  <2> QED
    BY <1>a, <1>e, <2>1, <2>2, Wakes
<1>6. CASE AwaitReturn \/ StopCall \/ StopFlag \/ StopBump \/ StopWake
             \/ StopJoin
  BY <1>a, <1>b, <1>6, Wakes
     DEF AwaitReturn, StopCall, StopFlag, StopBump, StopWake, StopJoin
<1>7. CASE CallerWaitStep
  <2>1. /\ Same /\ UNCHANGED <<painted, row>> /\ pc[0] \in AwaitLabels
        /\ pc'[0] \in AwaitLabels /\ \A w \in Workers : pc'[w] = pc[w]
    BY <1>7, CallerWaits DEF SameData, Elsewhere
  <2> QED
    BY <1>a, <1>e, <2>1
<1>8. ASSUME NEW p \in Participants, DrainCopy(p) \/ DrainTally(p)
      PROVE  Painting'
  <2>1. /\ Same /\ UNCHANGED <<painted, row>>
        /\ \/ pc[p] = "copy" /\ pc'[p] = "claim"
           \/ pc[p] = "tally" /\ pc'[p] \in {"await", "report"}
        /\ \A q \in Participants \ {p} : pc'[q] = pc[q]
    BY <1>8 DEF DrainCopy, DrainTally
  <2>2. pc[0] \in FrameLabels
    BY <1>a, <1>b, <2>1
  <2> QED
    BY <1>a, <1>e, <2>1, <2>2
<1>9. ASSUME NEW p \in Participants, DrainClaim(p)
      PROVE  Painting'
  <2>1. /\ UNCHANGED <<request, frame, painted>> /\ next_row' = next_row + 1
        /\ pc[p] = "claim"
        /\ \A q \in Participants \ {p} : pc'[q] = pc[q] /\ row'[q] = row[q]
    BY <1>9 DEF DrainClaim
  <2>2. pc[0] \in FrameLabels /\ work[p].height = request.height
    <3>1. pc[0] \in FrameLabels
      BY <1>a, <1>b, <2>1
    <3> QED
      BY <1>c, <2>1, <3>1
  <2>3. \/ /\ next_row >= request.height /\ pc'[p] = "tally"
           /\ row' = row
        \/ /\ next_row < request.height /\ pc'[p] = "render"
           /\ row'[p] = next_row
    BY <1>9, <2>2 DEF DrainClaim
  <2>4. RowsCovered'
    <3>1. SUFFICES ASSUME NEW y \in Rows, y < request.height, y < next_row + 1
                   PROVE  \/ painted[y] = frame
                          \/ \E q \in Participants :
                               pc'[q] = "render" /\ row'[q] = y
      BY <2>1 DEF RowsCovered
    <3>2. y \in Int
      BY DEF Rows
    <3>3. CASE y < next_row
      <4>1. \/ painted[y] = frame
            \/ \E q \in Participants : pc[q] = "render" /\ row[q] = y
        BY <1>c, <2>2, <3>1, <3>3 DEF RowsCovered
      <4> QED
        BY <2>1, <4>1
    <3>4. CASE y = next_row
      BY <2>3, <3>1, <3>4
    <3> QED
      BY <3>1, <3>2, <3>3, <3>4
  <2>5. RowsClaimed'
    BY <1>c, <2>1, <2>2, <2>3 DEF RowsClaimed
  <2>6. CallerOut(pc'[0]) => next_row' >= request'.height
    BY <1>a, <1>c, <2>1, <2>2, <2>3
  <2> QED
    BY <1>d, <2>4, <2>5, <2>6
<1>10. ASSUME NEW p \in Participants, DrainRender(p)
       PROVE  Painting'
  <2>1. /\ Same /\ UNCHANGED row /\ pc[p] = "render" /\ pc'[p] = "claim"
        /\ painted' = [painted EXCEPT ![row[p]] = work[p].frame]
        /\ \A q \in Participants \ {p} : pc'[q] = pc[q]
    BY <1>10 DEF DrainRender
  <2>2. pc[0] \in FrameLabels
    BY <1>a, <1>b, <2>1
  <2>3. work[p].frame = frame
    BY <1>c, <2>1, <2>2
  <2>4. RowsCovered'
    BY <1>c, <2>1, <2>2, <2>3 DEF RowsCovered
  <2>5. RowsClaimed'
    BY <1>c, <2>1, <2>2 DEF RowsClaimed
  <2> QED
    BY <1>a, <1>c, <1>d, <2>1, <2>2, <2>4, <2>5
<1>11. ASSUME NEW w \in Workers, RestStep(w)
       PROVE  Painting'
  <2>1. /\ Same /\ UNCHANGED <<painted, row>> /\ pc'[0] = pc[0]
        /\ pc[w] # "render" /\ pc'[w] # "render"
        /\ \A q \in Participants \ {w} : pc'[q] = pc[q]
    BY <1>11, RestMoves DEF SameData, Elsewhere, RestLabels
  <2> QED
    BY <1>b, <1>e, <2>1
<1>12. ASSUME NEW w \in Workers,
              WorkerEnter(w) \/ Reload(w) \/ Admit(w) \/ Report(w)
       PROVE  Painting'
  <2>1. /\ Same /\ UNCHANGED <<painted, row>> /\ pc'[0] = pc[0]
        /\ pc[w] # "render" /\ pc'[w] # "render"
        /\ \A q \in Participants \ {w} : pc'[q] = pc[q]
    BY <1>12 DEF WorkerEnter, Reload, Admit, Report
  <2> QED
    BY <1>b, <1>e, <2>1
<1>13. ASSUME NEW w \in Workers, NotifyDone(w)
       PROVE  Painting'
  <2>1. /\ Same /\ UNCHANGED <<painted, row>>
        /\ pc'[0] = pc[0] \/ (pc[0] \in AwaitLabels /\ pc'[0] \in AwaitLabels)
        /\ pc[w] # "render" /\ pc'[w] # "render"
        /\ \A q \in Workers \ {w} : pc'[q] = pc[q]
    BY <1>13, Notifies DEF SameData
  <2> QED
    BY <1>a, <1>b, <1>e, <2>1
<1>14. CASE UNCHANGED vars
  BY <1>q, <1>14 DEF vars, Painting
<1> QED
  BY NextCases, <1>1, <1>2, <1>3, <1>4, <1>5, <1>6, <1>7, <1>8, <1>9, <1>10,
     <1>11, <1>12, <1>13, <1>14

-----------------------------------------------------------------------------
(***************************************************************************)
(* Outside a call: the frame is whole, nobody is in a kernel, and a worker *)
(* that Stop sends through DrainRows finds no row.                         *)
(***************************************************************************)
Resting ==
  ~InCall => /\ next_row >= job.height
             /\ \A w \in Workers : At(w, "claim") => next_row >= work[w].height
             /\ \A w \in Workers : ~At(w, "render")
             /\ \A y \in Rows : y < request.height => painted[y] = frame

LEMMA RestingParts == Resting <=> Returned /\ FrameComplete /\ NoStraggler
BY DEF Resting, Returned, FrameComplete, NoStraggler

LEMMA RestingStep ==
  ASSUME TypeOK, PoolInv, [Next]_vars
  PROVE  Resting'
<1> USE Basics, Numbers DEF sharedVars, callerVars, drainVars, At, Goto
<1>q. Quiet /\ Draining /\ Painting /\ Spawned /\ Resting
  BY RestingParts DEF PoolInv
<1>a. /\ QuietLabels = {"idle", "stop_lock", "stop_bump", "lock", "store"}
      /\ PublishLabels = {"lock", "store"}
      /\ FrameLabels = {"wake", "copy", "claim", "render", "tally", "await",
                        "dozing", "asleep"}
      /\ DrainLabels = {"copy", "claim", "render", "tally"}
      /\ AwaitLabels = {"await", "dozing", "asleep"}
  BY DEF QuietLabels, FrameLabels, PublishLabels, DrainLabels, AwaitLabels
<1>b. SUFFICES ASSUME pc'[0] \notin PublishLabels \cup FrameLabels
               PROVE  Resting'
  BY DEF Resting, InCall
<1>c. pc[0] \notin PublishLabels \cup FrameLabels =>
        /\ next_row >= job.height
        /\ \A w \in Workers : pc[w] = "claim" => next_row >= work[w].height
        /\ \A w \in Workers : pc[w] # "render"
        /\ \A y \in Rows : y < request.height => painted[y] = frame
  BY <1>q DEF Resting, InCall
<1>d. ASSUME pc[0] \notin PublishLabels \cup FrameLabels,
             UNCHANGED <<job, next_row, work, request, frame, painted>>,
             \A w \in Workers : /\ pc'[w] = "claim" => pc[w] = "claim"
                                /\ pc'[w] = "render" => pc[w] = "render"
      PROVE  Resting'
  BY <1>c, <1>d DEF Resting
<1>1. ASSUME NEW m \in StartCounts, Start(m)
      PROVE  Resting'
  <2>1. /\ pc[0] = "idle"
        /\ UNCHANGED <<job, next_row, work, request, frame, painted>>
        /\ \A w \in Workers : pc'[w] = "load" \/ pc'[w] = pc[w]
    BY <1>1 DEF Start
  <2> QED
    BY <1>a, <1>d, <2>1
<1>2. ASSUME NEW h \in Heights, NEW n \in ThreadCounts, RenderAlone(h, n)
      PROVE  Resting'
  <2>1. /\ pc[0] = "idle" /\ UNCHANGED <<job, next_row, work, pc>>
        /\ request'.height = h /\ frame' = frame + 1
        /\ painted' = [y \in Rows |-> IF y < h THEN frame + 1 ELSE painted[y]]
    BY <1>2 DEF RenderAlone, BeginCall
  <2> QED
    BY <1>a, <1>c, <2>1 DEF Resting
<1>3. ASSUME NEW h \in Heights, NEW n \in ThreadCounts, RenderShared(h, n)
      PROVE  FALSE
  BY <1>a, <1>b, <1>3 DEF RenderShared
<1>4. CASE PublishLock \/ (\E s \in Stores : PublishStore(s)) \/ PublishBump
             \/ PublishWake
  BY <1>a, <1>b, <1>4, Wakes
     DEF PublishLock, PublishStore, PublishBump, PublishWake
<1>5. CASE AwaitReturn
  <2>1. /\ pc[0] = "await" /\ AllReported
        /\ UNCHANGED <<job, next_row, work, request, frame, painted>>
        /\ \A w \in Workers : pc'[w] = pc[w]
    BY <1>5 DEF AwaitReturn
  <2>2. \A w \in Workers : w < job.thread_count => Settled(w)
    BY <1>q, <1>a, <2>1, EnoughReports
  <2>3. \A w \in Workers : pc[w] \notin DrainLabels
    <3>1. \A w \in Workers : Settled(w) => pc[w] \notin DrainLabels
      BY <1>a DEF Settled, RestLabels
    <3>2. \A w \in Workers : pc[w] \in DrainLabels => w < job.thread_count
      BY <1>q, <1>a, <2>1 DEF Draining
    <3> QED
      BY <2>2, <3>1, <3>2
  <2>4. next_row >= request.height /\ job.height = request.height
    BY <1>q, <1>a, <2>1 DEF Painting, Draining
  <2>5. \A y \in Rows : y < request.height => painted[y] = frame
    <3>1. SUFFICES ASSUME NEW y \in Rows, y < request.height
                   PROVE  painted[y] = frame
      OBVIOUS
    <3>2. y < next_row
      BY <2>4, <3>1 DEF Rows
    <3>3. \A p \in Participants : pc[p] # "render"
      BY <1>a, <2>1, <2>3
    <3> QED
      BY <1>q, <1>a, <2>1, <3>1, <3>2, <3>3 DEF Painting
  <2> QED
    BY <1>a, <2>1, <2>3, <2>4, <2>5 DEF Resting
<1>6. CASE CallerWaitStep
  BY <1>a, <1>b, <1>6, CallerWaits
<1>7. CASE StopCall \/ StopFlag \/ StopBump \/ StopWake \/ StopJoin
  <2>1. /\ pc[0] \in {"idle", "stop_lock", "stop_bump", "stop_wake", "join"}
        /\ UNCHANGED <<job, next_row, work, request, frame, painted>>
        /\ \A w \in Workers : \/ pc'[w] = pc[w]
                              \/ pc'[w] = "park"
    BY <1>7, Wakes DEF StopCall, StopFlag, StopBump, StopWake, StopJoin
  <2> QED
    BY <1>a, <1>d, <2>1
<1>8. ASSUME NEW p \in Participants,
             DrainCopy(p) \/ DrainClaim(p) \/ DrainRender(p) \/ DrainTally(p)
      PROVE  Resting'
  <2>1. /\ UNCHANGED <<job, request, frame>> /\ pc[p] \in DrainLabels
        /\ \A q \in Participants \ {p} : pc'[q] = pc[q] /\ work'[q] = work[q]
        /\ p = 0 => pc'[0] \in FrameLabels
    BY <1>a, <1>8 DEF DrainCopy, DrainClaim, DrainRender, DrainTally
  <2>2. p \in Workers /\ pc[0] \notin PublishLabels \cup FrameLabels
    BY <1>a, <1>b, <2>1
  <2>3. ~DrainRender(p)
    BY <1>c, <2>2 DEF DrainRender
  <2>4. CASE DrainCopy(p)
    <3>1. /\ work'[p].height = job.height /\ UNCHANGED <<next_row, painted>>
          /\ pc'[p] = "claim"
      BY <2>4 DEF DrainCopy
    <3> QED
      BY <1>c, <2>1, <2>2, <3>1 DEF Resting
  <2>5. CASE DrainClaim(p)
    <3>1. /\ pc'[p] = "tally" /\ next_row' = next_row + 1
          /\ UNCHANGED <<work, painted>>
      BY <1>c, <2>2, <2>5 DEF DrainClaim
    <3> QED
      BY <1>c, <2>1, <2>2, <3>1 DEF Resting
  <2>6. CASE DrainTally(p)
    <3>1. /\ pc'[p] \in {"await", "report"} /\ UNCHANGED <<work, painted, next_row>>
      BY <2>6 DEF DrainTally
    <3> QED
      BY <1>d, <2>1, <2>2, <3>1
  <2> QED
    BY <1>8, <2>3, <2>4, <2>5, <2>6
<1>9. ASSUME NEW w \in Workers, RestStep(w)
      PROVE  Resting'
  <2>1. /\ UNCHANGED <<job, next_row, work, request, frame, painted>>
        /\ pc'[0] = pc[0] /\ pc'[w] \notin {"claim", "render"}
        /\ \A v \in Workers \ {w} : pc'[v] = pc[v]
    BY <1>9, RestMoves DEF SameData, Elsewhere, RestLabels
  <2> QED
    BY <1>b, <1>d, <2>1
<1>10. ASSUME NEW w \in Workers,
              WorkerEnter(w) \/ Reload(w) \/ Admit(w) \/ Report(w)
       PROVE  Resting'
  <2>1. /\ UNCHANGED <<job, next_row, work, request, frame, painted>>
        /\ pc'[0] = pc[0] /\ pc'[w] \notin {"claim", "render"}
        /\ \A v \in Workers \ {w} : pc'[v] = pc[v]
    BY <1>10 DEF WorkerEnter, Reload, Admit, Report
  <2> QED
    BY <1>b, <1>d, <2>1
<1>11. ASSUME NEW w \in Workers, NotifyDone(w)
       PROVE  Resting'
  <2>1. /\ UNCHANGED <<job, next_row, work, request, frame, painted>>
        /\ pc'[0] = pc[0] \/ pc'[0] \in AwaitLabels
        /\ pc'[w] = "spin" /\ \A v \in Workers \ {w} : pc'[v] = pc[v]
    BY <1>11, Notifies DEF SameData
  <2> QED
    BY <1>a, <1>b, <1>d, <2>1
<1>12. CASE UNCHANGED vars
  BY <1>b, <1>d, <1>12 DEF vars
<1> QED
  BY NextCases, <1>1, <1>2, <1>3, <1>4, <1>5, <1>6, <1>7, <1>8, <1>9, <1>10,
     <1>11, <1>12

-----------------------------------------------------------------------------
(***************************************************************************)
(* A row that is being rendered stays with its participant, and a row that *)
(* is claimed anew lies beyond all of them.                                *)
(***************************************************************************)
LEMMA RowsDisjointStep ==
  ASSUME TypeOK, PoolInv, [Next]_vars
  PROVE  RowsDisjoint'
<1> USE Basics, Numbers DEF sharedVars, callerVars, drainVars, At, Goto
<1>q. RowsDisjoint /\ Quiet /\ Painting
  BY DEF PoolInv
<1>r. \A p, q \in Participants :
        p # q /\ pc[p] = "render" /\ pc[q] = "render" => row[p] # row[q]
  BY <1>q DEF RowsDisjoint
<1>a. /\ {"lock", "store"} \subseteq QuietLabels
      /\ PublishLabels = {"lock", "store"}
      /\ FrameLabels = {"wake", "copy", "claim", "render", "tally", "await",
                        "dozing", "asleep"}
      /\ DrainLabels = {"copy", "claim", "render", "tally"}
  BY DEF QuietLabels, FrameLabels, PublishLabels, DrainLabels, AwaitLabels
<1>e. ASSUME UNCHANGED row,
             \A p \in Participants : pc'[p] = "render" => pc[p] = "render"
      PROVE  RowsDisjoint'
  BY <1>r, <1>e DEF RowsDisjoint
<1>1. ASSUME NEW m \in StartCounts, Start(m)
      PROVE  RowsDisjoint'
  BY <1>e, <1>1 DEF Start
<1>2. ASSUME NEW h \in Heights, NEW n \in ThreadCounts,
             RenderAlone(h, n) \/ RenderShared(h, n)
      PROVE  RowsDisjoint'
  BY <1>e, <1>2 DEF RenderAlone, RenderShared
<1>3. CASE PublishLock \/ (\E s \in Stores : PublishStore(s)) \/ PublishBump
             \/ PublishWake
  BY <1>e, <1>3 DEF PublishLock, PublishStore, PublishBump, PublishWake, WakeAll
<1>4. CASE AwaitReturn \/ CallerWaitStep \/ StopCall \/ StopFlag \/ StopBump
             \/ StopWake \/ StopJoin
  BY <1>e, <1>4 DEF AwaitReturn, CallerWaitStep, AwaitDoze, FallAsleep,
     SpuriousWake, StopCall, StopFlag, StopBump, StopWake, StopJoin, WakeAll
<1>5. ASSUME NEW p \in Participants,
             DrainCopy(p) \/ DrainRender(p) \/ DrainTally(p)
      PROVE  RowsDisjoint'
  BY <1>e, <1>5 DEF DrainCopy, DrainRender, DrainTally
<1>6. ASSUME NEW p \in Participants, DrainClaim(p)
      PROVE  RowsDisjoint'
  <2>1. /\ pc[p] = "claim"
        /\ \A q \in Participants \ {p} : pc'[q] = pc[q] /\ row'[q] = row[q]
    BY <1>6 DEF DrainClaim
  <2>2. CASE pc'[p] = "tally"
    <3>1. UNCHANGED row
      BY <1>6, <2>2 DEF DrainClaim
    <3> QED
      BY <1>e, <2>1, <2>2, <3>1
  <2>3. CASE pc'[p] = "render"
    <3>1. row'[p] = next_row
      BY <1>6, <2>3 DEF DrainClaim
    <3>2. pc[0] \in FrameLabels
      <4>1. pc[0] \notin PublishLabels
        BY <1>q, <1>a, <2>1 DEF Quiet
      <4>2. InCall
        <5>1. p = 0 => InCall
          BY <1>a, <2>1 DEF InCall
        <5>2. p # 0 => InCall'
          BY <2>3, RestingStep DEF Resting
        <5>3. p # 0 => pc'[0] = pc[0]
          BY <2>1
        <5> QED
          BY <5>1, <5>2, <5>3 DEF InCall
      <4> QED
        BY <4>1, <4>2 DEF InCall
    <3>3. \A q \in Participants : pc[q] = "render" => row[q] < next_row
      BY <1>q, <3>2 DEF Painting
    <3>4. \A q \in Participants \ {p} :
            pc'[q] = "render" => row'[q] # row'[p]
      BY <2>1, <3>1, <3>3
    <3> QED
      BY <1>r, <2>1, <3>4 DEF RowsDisjoint
  <2> QED
    BY <1>6, <2>2, <2>3 DEF DrainClaim
<1>7. ASSUME NEW w \in Workers,
             RestStep(w) \/ WorkerEnter(w) \/ Reload(w) \/ Admit(w)
               \/ Report(w) \/ NotifyDone(w)
      PROVE  RowsDisjoint'
  <2>1. CASE RestStep(w)
    BY <1>e, <2>1, RestMoves DEF SameData, Elsewhere, RestLabels
  <2>2. CASE WorkerEnter(w) \/ Reload(w) \/ Admit(w) \/ Report(w)
    BY <1>e, <2>2 DEF WorkerEnter, Reload, Admit, Report
  <2>3. CASE NotifyDone(w)
    BY <1>e, <2>3 DEF NotifyDone
  <2> QED
    BY <1>7, <2>1, <2>2, <2>3
<1>8. CASE UNCHANGED vars
  BY <1>e, <1>8 DEF vars
<1> QED
  BY NextCases, <1>1, <1>2, <1>3, <1>4, <1>5, <1>6, <1>7, <1>8

-----------------------------------------------------------------------------
LEMMA InitInv == Init => PoolInv
<1> SUFFICES ASSUME Init
             PROVE  PoolInv
  OBVIOUS
<1>1. /\ 0 \in Participants /\ Workers \subseteq Participants
      /\ 0 \notin Workers
  BY PoolAssumption DEF Participants, Workers
<1>2. pc[0] = "idle" /\ \A w \in Workers : pc[w] = "exited"
  BY <1>1 DEF Init
<1>3. ~InCall /\ pc[0] \notin FrameLabels
  BY <1>2 DEF InCall, FrameLabels, PublishLabels, DrainLabels, AwaitLabels
<1>4. Spawned /\ Quiet
  BY <1>2, <1>3 DEF Init, Spawned, Quiet, Stale, At, DrainLabels, RestLabels
<1>5. Publishing /\ Draining /\ Painting
  BY <1>2, <1>3 DEF Publishing, Draining, Painting, At
<1>6. Returned /\ NoStraggler
  BY <1>2 DEF Init, Returned, NoStraggler, At
<1>7. FrameComplete
  BY DEF Init, FrameComplete, Rows
<1>8. RowsDisjoint
  <2>1. \A p \in Participants : ~At(p, "render")
    BY DEF Init, At
  <2> QED
    BY <2>1 DEF RowsDisjoint
<1> QED
  BY <1>4, <1>5, <1>6, <1>7, <1>8, InitType DEF PoolInv

LEMMA NextInv ==
  ASSUME TypeOK, GrowthPaced, PoolInv, [Next]_vars
  PROVE  PoolInv'
<1>1. Spawned'
  BY SpawnedStep DEF PoolInv
<1>2. Quiet' /\ Publishing' /\ Draining' /\ Painting' /\ RowsDisjoint'
  BY QuietStep, PublishingStep, DrainingStep, PaintingStep, RowsDisjointStep
<1>3. Returned' /\ FrameComplete' /\ NoStraggler'
  BY RestingStep DEF Resting, Returned, FrameComplete, NoStraggler
<1> QED
  BY <1>1, <1>2, <1>3, NextType DEF PoolInv

(***************************************************************************)
(* The invariant, and the three safety properties of a frame, for a caller *)
(* that is paced in growth.                                                *)
(***************************************************************************)
THEOREM PoolInvariant ==
  ASSUME GrowthPaced
  PROVE  Spec => []PoolInv
<1>1. PoolInv /\ TypeOK /\ [Next]_vars => PoolInv'
  BY NextInv
<1> QED
  BY <1>1, InitInv, TypeCorrect, PTL DEF Spec

(***************************************************************************)
(* A call that has returned has written every row of its frame.            *)
(***************************************************************************)
THEOREM FrameIsComplete ==
  ASSUME GrowthPaced
  PROVE  Spec => []FrameComplete
<1>1. PoolInv => FrameComplete
  BY DEF PoolInv
<1> QED
  BY <1>1, PoolInvariant, PTL

(***************************************************************************)
(* No worker is in a kernel after the call that lent it the buffer.        *)
(***************************************************************************)
THEOREM NoWorkerStraggles ==
  ASSUME GrowthPaced
  PROVE  Spec => []NoStraggler
<1>1. PoolInv => NoStraggler
  BY DEF PoolInv
<1> QED
  BY <1>1, PoolInvariant, PTL

(***************************************************************************)
(* No row is rendered by two participants at once.                         *)
(***************************************************************************)
THEOREM RowsAreDisjoint ==
  ASSUME GrowthPaced
  PROVE  Spec => []RowsDisjoint
<1>1. PoolInv => RowsDisjoint
  BY DEF PoolInv
<1> QED
  BY <1>1, PoolInvariant, PTL

(***************************************************************************)
(* The job is written only while nobody works from it.                     *)
(***************************************************************************)
LEMMA JobStep ==
  ASSUME TypeOK, PoolInv, [Next]_vars, job' # job
  PROVE  \A p \in Participants : pc[p] \notin DrainLabels \cup {"report"}
<1> USE Basics DEF sharedVars, callerVars, drainVars, At, Goto
<1>1. pc[0] = "store"
  <2>1. ASSUME NEW w \in Workers, RestStep(w)
        PROVE  FALSE
    BY <2>1, RestMoves DEF SameData
  <2>2. ~CallerWaitStep
    BY CallerWaits DEF SameData
  <2>3. ASSUME NEW w \in Workers,
               WorkerEnter(w) \/ Reload(w) \/ Admit(w) \/ Report(w)
                 \/ NotifyDone(w)
        PROVE  FALSE
    BY <2>3 DEF WorkerEnter, Reload, Admit, Report, NotifyDone
  <2>4. ASSUME NEW p \in Participants,
               DrainCopy(p) \/ DrainClaim(p) \/ DrainRender(p) \/ DrainTally(p)
        PROVE  FALSE
    BY <2>4 DEF DrainCopy, DrainClaim, DrainRender, DrainTally
  <2>5. ~(StopCall \/ StopFlag \/ StopBump \/ StopWake \/ StopJoin
            \/ AwaitReturn \/ UNCHANGED vars)
    BY DEF StopCall, StopFlag, StopBump, StopWake, StopJoin, AwaitReturn, vars
  <2>6. ASSUME NEW h \in Heights, NEW n \in ThreadCounts,
               RenderAlone(h, n) \/ RenderShared(h, n)
        PROVE  FALSE
    BY <2>6 DEF RenderAlone, RenderShared
  <2>7. ASSUME NEW m \in StartCounts, Start(m)
        PROVE  FALSE
    BY <2>7 DEF Start
  <2>8. ~(PublishLock \/ PublishBump \/ PublishWake)
    BY DEF PublishLock, PublishBump, PublishWake
  <2>9. \E s \in Stores : PublishStore(s)
    BY NextCases, <2>1, <2>2, <2>3, <2>4, <2>5, <2>6, <2>7, <2>8
  <2> QED
    BY <2>9 DEF PublishStore
<1>2. \A w \in Workers : pc[w] \notin DrainLabels \cup {"report"}
  BY <1>1 DEF PoolInv, Quiet, QuietLabels, PublishLabels
<1>3. pc[0] \notin DrainLabels \cup {"report"}
  BY <1>1 DEF DrainLabels
<1> QED
  BY <1>2, <1>3

THEOREM JobIsStable ==
  ASSUME GrowthPaced
  PROVE  Spec => JobStable
<1>1. PoolInv /\ TypeOK /\ [Next]_vars =>
        [job' # job => \A p \in Participants :
                         pc[p] \notin DrainLabels \cup {"report"}]_vars
  BY JobStep
<1> QED
  BY <1>1, PoolInvariant, TypeCorrect, PTL DEF Spec, JobStable

-----------------------------------------------------------------------------
(***************************************************************************)
(* The pool implements FrameRenderer: a call, a painted row and a return   *)
(* are its steps, everything else is invisible to the application.         *)
(***************************************************************************)
Invisible == UNCHANGED <<InCall, frame, request, painted>>

LEMMA InvisibleSteps ==
  ASSUME TypeOK, [Next]_vars,
         ~(\E h \in Heights, n \in ThreadCounts :
             RenderAlone(h, n) \/ RenderShared(h, n)),
         ~(\E p \in Participants : DrainRender(p)),
         ~AwaitReturn
  PROVE  Invisible
<1> USE Basics DEF sharedVars, callerVars, drainVars, At, Goto
<1>a. /\ FrameLabels = {"wake", "copy", "claim", "render", "tally", "await",
                        "dozing", "asleep"}
      /\ PublishLabels = {"lock", "store"}
      /\ AwaitLabels = {"await", "dozing", "asleep"}
  BY DEF FrameLabels, PublishLabels, DrainLabels, AwaitLabels
<1>1. ASSUME NEW m \in StartCounts, Start(m)
      PROVE  Invisible
  <2>1. pc'[0] = pc[0] /\ UNCHANGED <<frame, request, painted>>
    BY <1>1 DEF Start
  <2> QED
    BY <2>1 DEF Invisible, InCall
<1>2. CASE PublishLock \/ (\E s \in Stores : PublishStore(s)) \/ PublishBump
             \/ PublishWake
  <2>1. /\ InCall /\ InCall' /\ UNCHANGED <<frame, request, painted>>
    BY <1>a, <1>2, Wakes
       DEF PublishLock, PublishStore, PublishBump, PublishWake, InCall
  <2> QED
    BY <2>1 DEF Invisible, InCall
<1>3. CASE CallerWaitStep
  BY <1>a, <1>3, CallerWaits DEF SameData, Invisible, InCall
<1>4. CASE StopCall \/ StopFlag \/ StopBump \/ StopWake \/ StopJoin
  <2>1. /\ ~InCall /\ ~InCall' /\ UNCHANGED <<frame, request, painted>>
    BY <1>a, <1>4, Wakes
       DEF StopCall, StopFlag, StopBump, StopWake, StopJoin, InCall
  <2> QED
    BY <2>1 DEF Invisible, InCall
<1>5. ASSUME NEW p \in Participants,
             DrainCopy(p) \/ DrainClaim(p) \/ DrainTally(p)
      PROVE  Invisible
  <2>1. /\ pc'[0] = pc[0] \/ (pc[0] \in FrameLabels /\ pc'[0] \in FrameLabels)
        /\ UNCHANGED <<frame, request, painted>>
    BY <1>a, <1>5 DEF DrainCopy, DrainClaim, DrainTally
  <2> QED
    BY <2>1 DEF Invisible, InCall
<1>6. ASSUME NEW w \in Workers, RestStep(w)
      PROVE  Invisible
  BY <1>6, RestMoves DEF SameData, Elsewhere, Invisible, InCall
<1>7. ASSUME NEW w \in Workers,
             WorkerEnter(w) \/ Reload(w) \/ Admit(w) \/ Report(w)
      PROVE  Invisible
  <2>1. pc'[0] = pc[0] /\ UNCHANGED <<frame, request, painted>>
    BY <1>7 DEF WorkerEnter, Reload, Admit, Report
  <2> QED
    BY <2>1 DEF Invisible, InCall
<1>8. ASSUME NEW w \in Workers, NotifyDone(w)
      PROVE  Invisible
  BY <1>a, <1>8, Notifies DEF SameData, Invisible, InCall
<1>9. CASE UNCHANGED vars
  BY <1>9 DEF vars, Invisible, InCall
<1> QED
  BY NextCases, <1>1, <1>2, <1>3, <1>4, <1>5, <1>6, <1>7, <1>8, <1>9

LEMMA RendererStep ==
  ASSUME TypeOK, PoolInv, PoolInv', [Next]_vars
  PROVE  [Renderer!Next]_(Renderer!vars)
<1> USE Basics, Numbers DEF sharedVars, callerVars, drainVars, At, Goto
<1>a. /\ FrameLabels = {"wake", "copy", "claim", "render", "tally", "await",
                        "dozing", "asleep"}
      /\ PublishLabels = {"lock", "store"}
      /\ Renderer!Rows = Rows
  BY DEF FrameLabels, PublishLabels, DrainLabels, AwaitLabels, Renderer!Rows,
         Rows
<1>1. ASSUME Invisible
      PROVE  UNCHANGED Renderer!vars
  BY <1>1 DEF Invisible, Renderer!vars
<1>2. ASSUME NEW h \in Heights, NEW n \in ThreadCounts, RenderAlone(h, n)
      PROVE  Renderer!CallAndReturn(h)
  <2>1. /\ ~InCall /\ UNCHANGED InCall /\ frame' = frame + 1
        /\ request'.height = h
    BY <1>a, <1>2 DEF RenderAlone, BeginCall, InCall
  <2>2. painted' = [y \in Rows |-> IF y < h THEN frame + 1 ELSE painted[y]]
    BY <1>2 DEF RenderAlone
  <2> QED
    BY <1>a, <2>1, <2>2 DEF Renderer!CallAndReturn
<1>3. ASSUME NEW h \in Heights, NEW n \in ThreadCounts, RenderShared(h, n)
      PROVE  Renderer!Call(h)
  <2>1. /\ ~InCall /\ InCall' /\ frame' = frame + 1
        /\ request'.height = h /\ UNCHANGED painted
    BY <1>a, <1>3 DEF RenderShared, BeginCall, InCall
  <2> QED
    BY <2>1 DEF Renderer!Call
<1>4. ASSUME AwaitReturn
      PROVE  Renderer!Return
  <2>1. /\ InCall /\ ~InCall' /\ UNCHANGED <<frame, request, painted>>
    BY <1>a, <1>4 DEF AwaitReturn, InCall
  <2>2. \A y \in Rows : y < request.height => painted[y] = frame
    BY <2>1 DEF PoolInv, FrameComplete
  <2> QED
    BY <1>a, <2>1, <2>2 DEF Renderer!Return, Renderer!Whole, InCall
<1>5. ASSUME NEW p \in Participants, DrainRender(p)
      PROVE  (\E y \in Rows : Renderer!Paint(y)) \/ Invisible
  <2>1. /\ pc[p] = "render" /\ UNCHANGED <<frame, request>>
        /\ painted' = [painted EXCEPT ![row[p]] = work[p].frame]
        /\ pc'[0] = pc[0] \/ (pc[0] \in FrameLabels /\ pc'[0] \in FrameLabels)
    BY <1>a, <1>5 DEF DrainRender
  <2>2. pc[0] \in FrameLabels
    <3>1. pc[0] \notin PublishLabels
      BY <1>a, <2>1 DEF PoolInv, Quiet, QuietLabels, DrainLabels
    <3>2. InCall
      BY <1>a, <2>1 DEF PoolInv, NoStraggler, InCall
    <3> QED
      BY <3>1, <3>2 DEF InCall
  <2>3. InCall /\ InCall'
    BY <2>1, <2>2 DEF InCall
  <2>4. work[p] = [frame |-> frame, height |-> request.height]
    BY <2>1, <2>2 DEF PoolInv, Draining
  <2>5. row[p] < request.height /\ row[p] \in Rows
    <3>1. row[p] < work[p].height
      BY <2>1 DEF TypeOK
    <3> QED
      BY <2>4, <3>1 DEF Rows
  <2>6. CASE painted[row[p]] = frame
    <3>1. painted' = painted
      BY <2>1, <2>4, <2>6
    <3> QED
      BY <2>1, <2>3, <3>1 DEF Invisible
  <2>7. CASE painted[row[p]] # frame
    <3>1. Renderer!Paint(row[p])
      BY <2>1, <2>3, <2>4, <2>5, <2>7 DEF Renderer!Paint
    <3> QED
      BY <2>5, <3>1
  <2> QED
    BY <2>6, <2>7
<1>6. CASE ~(\E h \in Heights, n \in ThreadCounts :
               RenderAlone(h, n) \/ RenderShared(h, n))
             /\ ~(\E p \in Participants : DrainRender(p)) /\ ~AwaitReturn
  BY <1>1, <1>6, InvisibleSteps
<1> QED
  BY <1>a, <1>1, <1>2, <1>3, <1>4, <1>5, <1>6 DEF Renderer!Next

THEOREM PoolImplementsRenderer ==
  ASSUME GrowthPaced
  PROVE  Spec => RendererSpec
<1>1. Init => Renderer!Init
  <2> SUFFICES ASSUME Init
               PROVE  Renderer!Init
    OBVIOUS
  <2>1. ~InCall
    BY PoolAssumption
       DEF Init, InCall, Participants, FrameLabels, PublishLabels,
           DrainLabels, AwaitLabels
  <2> QED
    BY <2>1 DEF Init, Renderer!Init, Renderer!Rows, Rows
<1>2. TypeOK /\ PoolInv /\ PoolInv' /\ [Next]_vars
        => [Renderer!Next]_(Renderer!vars)
  BY RendererStep
<1> QED
  BY <1>1, <1>2, PoolInvariant, TypeCorrect, PTL
     DEF Spec, RendererSpec, Renderer!Spec

-----------------------------------------------------------------------------
(***************************************************************************)
(* No wake-up is lost, whatever the pacing of the caller.  Who is about to *)
(* sleep holds the mutex, so what it waits for cannot become true before   *)
(* it sleeps; once it sleeps, whoever makes it true has yet to notify.     *)
(***************************************************************************)
MutexHeld ==
  /\ pc[0] \in {"store", "stop_bump", "dozing"} => mutex = 0
  /\ \A w \in Workers : pc[w] = "dozing" => mutex = w

CallerSleeps ==
  /\ pc[0] = "dozing" => ~AllReported
  /\ pc[0] = "asleep" /\ AllReported => \E w \in Workers : pc[w] = "notify"

WorkersSleep ==
  \A w \in Workers :
    /\ pc[w] = "dozing" => ~stop /\ generation = seen[w]
    /\ pc[w] = "asleep" /\ (stop \/ generation # seen[w]) =>
         pc[0] \in {"wake", "stop_bump", "stop_wake"}

WakeInv == MutexHeld /\ CallerSleeps /\ WorkersSleep

LEMMA WakeStart == Init => WakeInv
BY PoolAssumption
DEF Init, WakeInv, MutexHeld, CallerSleeps, WorkersSleep, Workers, Participants

LEMMA WakeStep ==
  ASSUME TypeOK, Spawned, WakeInv, [Next]_vars
  PROVE  WakeInv'
<1> USE Basics, Numbers DEF sharedVars, callerVars, drainVars, At, Goto
<1>0. MutexHeld /\ CallerSleeps /\ WorkersSleep
  BY DEF WakeInv
<1>a. Nobody # 0 /\ \A w \in Workers : w # Nobody /\ w # 0
  BY DEF Nobody
<1>1. ASSUME NEW m \in StartCounts, Start(m)
      PROVE  WakeInv'
  <2>1. pc'[0] = "idle" /\ \A w \in Workers : pc[w] = "exited"
    BY <1>1 DEF Start, Spawned
  <2>2. \A w \in Workers : pc'[w] \in {"exited", "load"}
    BY <1>1, <2>1 DEF Start
  <2> QED  BY <2>1, <2>2 DEF WakeInv, MutexHeld, CallerSleeps, WorkersSleep
<1>2. ASSUME NEW h \in Heights, NEW n \in ThreadCounts,
             RenderAlone(h, n) \/ RenderShared(h, n)
      PROVE  WakeInv'
  <2>1. /\ pc'[0] \in {"idle", "lock"} /\ pc[0] = "idle"
        /\ \A w \in Workers : pc'[w] = pc[w]
        /\ UNCHANGED <<mutex, stop, generation, seen>>
    BY <1>2 DEF RenderAlone, RenderShared, BeginCall
  <2> QED  BY <1>0, <2>1 DEF WakeInv, MutexHeld, CallerSleeps, WorkersSleep
<1>3. CASE PublishLock \/ (\E s \in Stores : PublishStore(s))
  <2>1. /\ pc[0] \in {"lock", "store"} /\ pc'[0] = "store" /\ mutex' = 0
        /\ \A w \in Workers : pc'[w] = pc[w]
        /\ UNCHANGED <<stop, generation, seen>>
        /\ mutex \in {0, Nobody}
    BY <1>0, <1>3 DEF PublishLock, PublishStore, MutexHeld
  <2> QED  BY <1>0, <1>a, <2>1 DEF WakeInv, MutexHeld, CallerSleeps, WorkersSleep
<1>4. CASE PublishBump \/ StopFlag \/ StopBump
  <2>1. /\ pc'[0] \in {"wake", "stop_bump", "stop_wake"}
        /\ pc'[0] = "stop_bump" => mutex' = 0
        /\ \A w \in Workers : pc'[w] = pc[w]
        /\ mutex \in {0, Nobody}
    BY <1>0, <1>4 DEF PublishBump, StopFlag, StopBump, MutexHeld
  <2>2. \A w \in Workers : pc'[w] # "dozing"
    BY <1>0, <1>a, <2>1 DEF MutexHeld
  <2> QED  BY <2>1, <2>2 DEF WakeInv, MutexHeld, CallerSleeps, WorkersSleep
<1>5. CASE PublishWake \/ StopWake
  <2>1. /\ pc'[0] \in {"copy", "join"}
        /\ \A w \in Workers : \/ pc'[w] = pc[w] /\ pc[w] # "asleep"
                              \/ pc'[w] = "park"
        /\ UNCHANGED <<mutex, stop, generation, seen>>
    BY <1>5 DEF PublishWake, StopWake, WakeAll
  <2> QED  BY <1>0, <2>1 DEF WakeInv, MutexHeld, CallerSleeps, WorkersSleep
<1>6. CASE AwaitReturn \/ StopCall \/ StopJoin
  <2>1. /\ pc[0] \in {"await", "idle", "join"} /\ pc'[0] \in {"idle", "stop_lock"}
        /\ \A w \in Workers : pc'[w] = pc[w]
        /\ UNCHANGED <<mutex, stop, generation, seen>>
    BY <1>6 DEF AwaitReturn, StopCall, StopJoin
  <2> QED  BY <1>0, <2>1 DEF WakeInv, MutexHeld, CallerSleeps, WorkersSleep
<1>7. CASE CallerWaitStep
  <2>1. /\ \A w \in Workers : pc'[w] = pc[w]
        /\ pc[0] \in {"await", "dozing", "asleep"}
        /\ UNCHANGED <<stop, generation, seen, workers_done, request>>
    BY <1>7 DEF CallerWaitStep, AwaitDoze, FallAsleep, SpuriousWake
  <2>2. MutexHeld'
    BY <1>0, <1>7, <1>a, <2>1
    DEF CallerWaitStep, AwaitDoze, FallAsleep, SpuriousWake, MutexHeld
  <2>3. CallerSleeps'
    BY <1>0, <1>7, <2>1
    DEF CallerWaitStep, AwaitDoze, FallAsleep, SpuriousWake, CallerSleeps, AllReported
  <2>4. WorkersSleep'
    BY <1>0, <2>1 DEF WorkersSleep
  <2> QED  BY <2>2, <2>3, <2>4 DEF WakeInv
<1>8. ASSUME NEW p \in Participants,
             DrainCopy(p) \/ DrainClaim(p) \/ DrainRender(p) \/ DrainTally(p)
      PROVE  WakeInv'
  <2>1. /\ pc[p] \in {"copy", "claim", "render", "tally"}
        /\ pc'[p] \in {"claim", "render", "tally", "await", "report"}
        /\ Elsewhere(p)
        /\ UNCHANGED <<mutex, stop, generation, seen, workers_done, request>>
    BY <1>8 DEF DrainCopy, DrainClaim, DrainRender, DrainTally, Elsewhere
  <2> QED
    BY <1>0, <2>1
    DEF WakeInv, MutexHeld, CallerSleeps, WorkersSleep, Elsewhere, AllReported
<1>9. ASSUME NEW w \in Workers, RestStep(w)
      PROVE  WakeInv'
  <2>1. /\ Elsewhere(w) /\ UNCHANGED <<stop, generation, seen, workers_done, request>>
        /\ pc[w] # "notify"
    BY <1>9, RestMoves DEF SameData, RestLabels
  <2>2. /\ pc'[w] = "asleep" => pc[w] = "dozing" /\ mutex' = Nobody
        /\ pc'[w] = "dozing" => /\ mutex = Nobody /\ mutex' = w
                                /\ ~stop /\ generation = seen[w]
        /\ pc'[w] \notin {"asleep", "dozing"} => mutex' = mutex
    BY <1>9 DEF RestStep, SpinStop, SpinCompare, ParkLeave, ParkDoze, FallAsleep, SpuriousWake
  <2>3. MutexHeld'
    BY <1>0, <1>a, <2>1, <2>2 DEF MutexHeld, Elsewhere
  <2>4. CallerSleeps'
    BY <1>0, <2>1 DEF CallerSleeps, Elsewhere, AllReported
  <2>5. WorkersSleep'
    BY <1>0, <2>1, <2>2 DEF WorkersSleep, Elsewhere
  <2> QED  BY <2>3, <2>4, <2>5 DEF WakeInv
<1>10. ASSUME NEW w \in Workers, WorkerEnter(w) \/ Reload(w) \/ Admit(w)
       PROVE  WakeInv'
  <2>1. /\ Elsewhere(w) /\ UNCHANGED <<mutex, stop, generation, workers_done, request>>
        /\ \A v \in Workers \ {w} : seen'[v] = seen[v]
        /\ pc[w] # "notify" /\ pc'[w] \notin {"asleep", "dozing"}
    BY <1>10 DEF WorkerEnter, Reload, Admit, Elsewhere
  <2> QED
    BY <1>0, <2>1
    DEF WakeInv, MutexHeld, CallerSleeps, WorkersSleep, Elsewhere, AllReported
<1>11. ASSUME NEW w \in Workers, Report(w)
       PROVE  WakeInv'
  <2>1. /\ Elsewhere(w) /\ UNCHANGED <<mutex, stop, generation, seen>>
        /\ mutex = Nobody /\ pc'[w] = "notify"
    BY <1>11 DEF Report, Elsewhere
  <2> QED  BY <1>0, <1>a, <2>1 DEF WakeInv, MutexHeld, CallerSleeps, WorkersSleep, Elsewhere
<1>12. ASSUME NEW w \in Workers, NotifyDone(w)
       PROVE  WakeInv'
  <2>1. /\ UNCHANGED <<mutex, stop, generation, seen, workers_done, request>>
        /\ pc'[w] = "spin" /\ \A v \in Workers \ {w} : pc'[v] = pc[v]
        /\ pc[0] = "asleep" => pc'[0] = "await"
        /\ pc[0] # "asleep" => pc'[0] = pc[0]
    BY <1>12 DEF NotifyDone
  <2>2. MutexHeld'
    BY <1>0, <2>1 DEF MutexHeld
  <2>3. CallerSleeps'
    BY <1>0, <2>1 DEF CallerSleeps, AllReported
  <2>4. WorkersSleep'
    BY <1>0, <2>1 DEF WorkersSleep
  <2> QED  BY <2>2, <2>3, <2>4 DEF WakeInv
<1>13. CASE UNCHANGED vars
  BY <1>0, <1>13 DEF vars, WakeInv, MutexHeld, CallerSleeps, WorkersSleep, AllReported
<1> QED
  BY NextCases, <1>1, <1>2, <1>3, <1>4, <1>5, <1>6, <1>7, <1>8, <1>9, <1>10,
     <1>11, <1>12, <1>13

(***************************************************************************)
(* Neither the caller nor a worker sleeps through what it waits for, for   *)
(* any number of threads and frames and however the calls are timed        *)
(* (RenderFrame, WorkerLoop, Stop).                                        *)
(***************************************************************************)
THEOREM NoWakeupIsLost == Spec => []NoLostWakeup
<1>1. Init => Spawned
  BY InitInv DEF PoolInv
<1>2. TypeOK /\ Spawned /\ WakeInv /\ [Next]_vars => Spawned' /\ WakeInv'
  BY SpawnedStep, WakeStep
<1>3. WakeInv => NoLostWakeup
  BY DEF WakeInv, MutexHeld, CallerSleeps, WorkersSleep, NoLostWakeup, At
<1> QED  BY <1>1, <1>2, <1>3, WakeStart, TypeCorrect, PTL DEF Spec

-----------------------------------------------------------------------------
(***************************************************************************)
(* The reports are exact, for a caller that is paced at the start too.  A  *)
(* worker that enters its loop in the middle of a frame would be settled   *)
(* without a report; the pacing at the start is what rules that out.       *)
(***************************************************************************)
Entered == InCall => \A w \in Workers : pc[w] # "load"

LEMMA EnteredStep ==
  ASSUME TypeOK, StartPaced, Entered, [Next]_vars
  PROVE  Entered'
<1> USE Basics, Numbers DEF sharedVars, callerVars, drainVars, At, Goto
<1>a. /\ {"lock", "store"} \subseteq PublishLabels
      /\ {"wake", "copy", "claim", "render", "tally", "await", "dozing",
          "asleep"} \subseteq FrameLabels
      /\ {"idle", "stop_lock", "stop_bump", "stop_wake", "join"}
           \cap (PublishLabels \cup FrameLabels) = {}
      /\ AwaitLabels \subseteq FrameLabels
  BY DEF FrameLabels, PublishLabels, DrainLabels, AwaitLabels
<1> DEFINE Kept == /\ InCall' => InCall
                   /\ \A w \in Workers : pc'[w] = "load" => pc[w] = "load"
<1>0. ASSUME Kept PROVE Entered'
  BY <1>0 DEF Entered
<1>1. ASSUME NEW m \in StartCounts, Start(m)
      PROVE  Entered'
  <2>1. pc'[0] = "idle"
    BY <1>1 DEF Start
  <2> QED  BY <1>a, <2>1 DEF Entered, InCall
<1>2. ASSUME NEW h \in Heights, NEW n \in ThreadCounts,
             RenderAlone(h, n) \/ RenderShared(h, n)
      PROVE  Entered'
  <2>1. CASE RenderAlone(h, n)
    BY <1>a, <2>1 DEF RenderAlone, BeginCall, Entered, InCall
  <2>2. CASE RenderShared(h, n)
    <3>1. \A w \in Workers : pc[w] # "load" /\ pc'[w] = pc[w]
      BY <2>2 DEF RenderShared, MayPublish
    <3> QED  BY <3>1 DEF Entered
  <2> QED  BY <1>2, <2>1, <2>2
<1>3. CASE PublishLock \/ (\E s \in Stores : PublishStore(s)) \/ PublishBump
  <2>1. Kept
    BY <1>a, <1>3 DEF PublishLock, PublishStore, PublishBump, InCall
  <2> QED  BY <1>0, <2>1
<1>4. CASE PublishWake
  <2>1. Kept
    BY <1>a, <1>4, Wakes DEF PublishWake, InCall
  <2> QED  BY <1>0, <2>1
<1>5. CASE AwaitReturn \/ CallerWaitStep
  <2>1. Kept
    BY <1>a, <1>5, CallerWaits DEF AwaitReturn, InCall, Elsewhere, AwaitLabels
  <2> QED  BY <1>0, <2>1
<1>6. CASE StopCall \/ StopFlag \/ StopBump \/ StopJoin
  <2>1. pc'[0] \in {"idle", "stop_lock", "stop_bump", "stop_wake", "join"}
    BY <1>6 DEF StopCall, StopFlag, StopBump, StopJoin
  <2> QED  BY <1>a, <2>1 DEF Entered, InCall
<1>7. CASE StopWake
  <2>1. pc'[0] = "join"
    BY <1>7, Wakes DEF StopWake
  <2> QED  BY <1>a, <2>1 DEF Entered, InCall
<1>8. ASSUME NEW p \in Participants,
             DrainCopy(p) \/ DrainClaim(p) \/ DrainRender(p) \/ DrainTally(p)
      PROVE  Entered'
  <2>1. Kept
    BY <1>a, <1>8 DEF DrainCopy, DrainClaim, DrainRender, DrainTally, InCall
  <2> QED  BY <1>0, <2>1
<1>9. ASSUME NEW w \in Workers, RestStep(w)
      PROVE  Entered'
  <2>1. Kept
    BY <1>9, RestMoves DEF InCall, Elsewhere, RestLabels
  <2> QED  BY <1>0, <2>1
<1>10. ASSUME NEW w \in Workers,
              WorkerEnter(w) \/ Reload(w) \/ Admit(w) \/ Report(w)
       PROVE  Entered'
  <2>1. Kept
    BY <1>10 DEF WorkerEnter, Reload, Admit, Report, InCall
  <2> QED  BY <1>0, <2>1
<1>11. ASSUME NEW w \in Workers, NotifyDone(w)
       PROVE  Entered'
  <2>1. Kept
    BY <1>a, <1>11, Notifies DEF InCall
  <2> QED  BY <1>0, <2>1
<1>12. CASE UNCHANGED vars
  BY <1>12 DEF vars, Entered, InCall
<1> QED
  BY NextCases, <1>1, <1>2, <1>3, <1>4, <1>5, <1>6, <1>7, <1>8, <1>9, <1>10,
     <1>11, <1>12

LEMMA CountStep ==
  ASSUME TypeOK, PoolInv, Entered, CountExact, [Next]_vars
  PROVE  CountExact'
<1> USE Basics, Numbers DEF sharedVars, callerVars, drainVars, At, Goto
<1>q. Quiet /\ Publishing /\ Draining /\ Spawned
  BY DEF PoolInv
<1>a. /\ FrameLabels = {"wake", "copy", "claim", "render", "tally", "await",
                        "dozing", "asleep"}
      /\ PublishLabels = {"lock", "store"}
      /\ QuietLabels = {"idle", "stop_lock", "stop_bump", "lock", "store"}
      /\ DrainLabels = {"copy", "claim", "render", "tally"}
      /\ RestLabels = {"spin", "compare", "park", "dozing", "asleep"}
      /\ StopLabels = {"stop_bump", "stop_wake", "join"}
  BY DEF FrameLabels, PublishLabels, QuietLabels, DrainLabels, AwaitLabels, RestLabels,
         StopLabels
<1> DEFINE Kept == /\ pc[0] \in FrameLabels
                   /\ workers_done' = workers_done /\ job' = job
                   /\ \A w \in Workers : w < job.thread_count => (Settled(w)' <=> Settled(w))
<1>0. ASSUME pc'[0] \in FrameLabels => Kept PROVE CountExact'
  <2>1. SUFFICES ASSUME pc'[0] \in FrameLabels
                 PROVE  workers_done' = Cardinality(Finished')
    BY DEF CountExact, FrameLabels, DrainLabels, AwaitLabels
  <2>2. Finished' = Finished
    BY <1>0, <2>1 DEF Finished
  <2> QED  BY <1>0, <2>1, <2>2 DEF CountExact
<1>1. ASSUME NEW m \in StartCounts, Start(m)
      PROVE  CountExact'
  BY <1>0, <1>1, <1>a DEF Start
<1>2. ASSUME NEW h \in Heights, NEW n \in ThreadCounts,
             RenderAlone(h, n) \/ RenderShared(h, n)
      PROVE  CountExact'
  BY <1>0, <1>2, <1>a DEF RenderAlone, RenderShared, BeginCall
<1>3. CASE PublishLock \/ (\E s \in Stores : PublishStore(s))
  BY <1>0, <1>3, <1>a DEF PublishLock, PublishStore
<1>4. CASE PublishBump
  <2>1. /\ pc[0] = "store" /\ unstored = {} /\ generation' = generation + 1
        /\ \A w \in Workers : pc'[w] = pc[w]
        /\ job' = job /\ seen' = seen /\ workers_done' = workers_done
    BY <1>4 DEF PublishBump
  <2>2. workers_done = 0
    BY <1>q, <2>1 DEF Publishing, Stored, Stores
  <2>3. \A w \in Workers : w < job.thread_count => ~Stale(w)
    BY <1>q, <1>a, <2>1 DEF Quiet
  <2>4. \A w \in Workers : seen[w] \in Nat
    OBVIOUS
  <2>5. \A w \in Workers : w < job.thread_count => ~(Settled(w)')
    BY <1>a, <2>1, <2>3, <2>4 DEF Settled, Stale
  <2>6. Finished' = {}
    BY <2>1, <2>5 DEF Finished
  <2> QED  BY <2>1, <2>2, <2>6, FS_EmptySet DEF CountExact
<1>5. CASE PublishWake
  <2>1. /\ pc[0] = "wake" /\ workers_done' = workers_done /\ job' = job
        /\ UNCHANGED <<seen, generation>>
        /\ \A w \in Workers : pc'[w] = pc[w] \/ (pc[w] = "asleep" /\ pc'[w] = "park")
    BY <1>5, Wakes DEF PublishWake
  <2> QED  BY <1>0, <1>a, <2>1 DEF Settled
<1>6. CASE AwaitReturn
  BY <1>0, <1>6, <1>a DEF AwaitReturn
<1>7. CASE CallerWaitStep
  <2>1. /\ pc[0] \in FrameLabels /\ workers_done' = workers_done /\ job' = job
        /\ UNCHANGED <<seen, generation>> /\ \A w \in Workers : pc'[w] = pc[w]
    BY <1>7, <1>a, CallerWaits DEF SameData, Elsewhere, AwaitLabels
  <2> QED  BY <1>0, <2>1 DEF Settled
<1>8. CASE StopCall \/ StopFlag \/ StopBump \/ StopWake \/ StopJoin
  <2>1. pc'[0] \in {"idle", "stop_lock", "stop_bump", "stop_wake", "join"}
    BY <1>8, Wakes DEF StopCall, StopFlag, StopBump, StopWake, StopJoin
  <2> QED  BY <1>0, <1>a, <2>1
<1>9. ASSUME NEW p \in Participants,
             DrainCopy(p) \/ DrainClaim(p) \/ DrainRender(p) \/ DrainTally(p)
      PROVE  CountExact'
  <2>1. /\ workers_done' = workers_done /\ job' = job /\ UNCHANGED <<seen, generation>>
        /\ pc[p] \in DrainLabels /\ pc'[p] \in {"claim", "render", "tally", "await", "report"}
        /\ Elsewhere(p)
    BY <1>9, <1>a DEF DrainCopy, DrainClaim, DrainRender, DrainTally, Elsewhere
  <2>2. pc'[0] \in FrameLabels => pc[0] \in FrameLabels
    BY <1>a, <2>1 DEF Elsewhere
  <2>3. \A w \in Workers : Settled(w)' <=> Settled(w)
    BY <1>a, <2>1 DEF Settled, Elsewhere
  <2> QED  BY <1>0, <2>1, <2>2, <2>3
<1>10. ASSUME NEW w \in Workers, RestStep(w)
       PROVE  CountExact'
  <2>1. /\ workers_done' = workers_done /\ job' = job /\ UNCHANGED <<seen, generation>>
        /\ Elsewhere(w) /\ pc[w] \in RestLabels /\ pc'[0] = pc[0]
        /\ \/ pc'[w] \in RestLabels
           \/ pc'[w] = "exited" /\ stop
           \/ pc'[w] = "reload" /\ seen[w] # generation
    BY <1>10, RestMoves DEF SameData, Elsewhere
  <2>2. pc[0] \in FrameLabels => ~stop
    BY <1>q, <1>a DEF Spawned, InCall
  <2>3. pc[0] \in FrameLabels => \A v \in Workers : Settled(v)' <=> Settled(v)
    BY <1>a, <2>1, <2>2 DEF Settled, Elsewhere
  <2> QED  BY <1>0, <2>1, <2>3
<1>11. ASSUME NEW w \in Workers, WorkerEnter(w) \/ Reload(w) \/ Admit(w)
       PROVE  CountExact'
  <2>1. /\ workers_done' = workers_done /\ job' = job /\ generation' = generation
        /\ Elsewhere(w) /\ pc'[0] = pc[0]
        /\ \A v \in Workers \ {w} : seen'[v] = seen[v]
    BY <1>11 DEF WorkerEnter, Reload, Admit, Elsewhere
  <2>2. pc[0] \in FrameLabels => pc[w] # "load"
    BY DEF Entered, InCall
  <2>3. pc[0] \in FrameLabels =>
          /\ pc[w] \in {"reload", "admit"}
          /\ pc'[w] \in {"admit", "copy"} \/ (pc'[w] = "spin" /\ w >= job.thread_count)
    BY <1>11, <2>2 DEF WorkerEnter, Reload, Admit
  <2>4. pc[0] \in FrameLabels =>
          \A v \in Workers : v < job.thread_count => (Settled(v)' <=> Settled(v))
    BY <1>a, <2>1, <2>3 DEF Settled, Elsewhere
  <2> QED  BY <1>0, <2>1, <2>4
<1>12. ASSUME NEW w \in Workers, Report(w)
       PROVE  CountExact'
  <2>1. SUFFICES ASSUME pc'[0] \in FrameLabels
                 PROVE  workers_done' = Cardinality(Finished')
    BY DEF CountExact, FrameLabels, DrainLabels, AwaitLabels
  <2>2. /\ pc[w] = "report" /\ pc'[w] = "notify" /\ Elsewhere(w) /\ pc'[0] = pc[0]
        /\ workers_done' = workers_done + 1 /\ UNCHANGED <<job, seen, generation>>
    BY <1>12 DEF Report, Elsewhere
  <2>3. w < job.thread_count /\ seen[w] = generation
    BY <1>q, <2>1, <2>2 DEF Draining
  <2>4. Settled(w)' /\ ~Settled(w) /\ \A v \in Workers \ {w} : Settled(v)' <=> Settled(v)
    BY <1>a, <2>2, <2>3 DEF Settled, Elsewhere
  <2>5. w \notin Finished /\ Finished' = Finished \cup {w}
    BY <2>2, <2>3, <2>4 DEF Finished
  <2>6. IsFiniteSet(Finished) /\ Cardinality(Finished) \in Nat
    BY WorkerSets DEF Finished
  <2>7. Cardinality(Finished') = Cardinality(Finished) + 1
    BY <2>5, <2>6, FS_AddElement
  <2> QED  BY <2>1, <2>2, <2>7 DEF CountExact
<1>13. ASSUME NEW w \in Workers, NotifyDone(w)
       PROVE  CountExact'
  <2>1. /\ workers_done' = workers_done /\ job' = job /\ UNCHANGED <<seen, generation>>
        /\ pc[w] = "notify" /\ pc'[w] = "spin"
        /\ \A v \in Workers \ {w} : pc'[v] = pc[v]
        /\ pc'[0] \in FrameLabels => pc[0] \in FrameLabels
    BY <1>13, <1>a, Notifies DEF SameData, AwaitLabels
  <2>2. \A v \in Workers : Settled(v)' <=> Settled(v)
    BY <1>a, <2>1 DEF Settled
  <2> QED  BY <1>0, <2>1, <2>2
<1>14. CASE UNCHANGED vars
  BY <1>0, <1>14 DEF vars, Settled
<1> QED
  BY NextCases, <1>1, <1>2, <1>3, <1>4, <1>5, <1>6, <1>7, <1>8, <1>9, <1>10,
     <1>11, <1>12, <1>13, <1>14

(***************************************************************************)
(* While a frame is drained, workers_done is exactly the number of needed  *)
(* workers that are through with it, so the caller neither returns early   *)
(* nor waits for a report that was already made (RenderFrame, WorkerLoop). *)
(***************************************************************************)
THEOREM ReportsAreExact ==
  ASSUME GrowthPaced, StartPaced
  PROVE  Spec => []CountExact
<1>1. Init => Entered /\ CountExact
  <2> SUFFICES ASSUME Init PROVE Entered /\ CountExact
    OBVIOUS
  <2>1. pc[0] = "idle"
    BY PoolAssumption DEF Init, Participants
  <2> QED
    BY <2>1 DEF Entered, CountExact, InCall, FrameLabels, PublishLabels, DrainLabels, AwaitLabels
<1>2. TypeOK /\ PoolInv /\ Entered /\ CountExact /\ [Next]_vars => Entered' /\ CountExact'
  BY EnteredStep, CountStep
<1> QED  BY <1>1, <1>2, PoolInvariant, TypeCorrect, PTL DEF Spec
-----------------------------------------------------------------------------
(***************************************************************************)
(* Sums over a finite set.  `MapThenSumSet` chooses a recursive function   *)
(* on the subsets of the set; that there is one is proved by induction on  *)
(* the size of the subsets, in the form of facts about sets of numbers and *)
(* of subsets, and what it sums to by induction on the subsets themselves. *)
(***************************************************************************)
Picked(s) == CHOOSE x \in s : TRUE

IsSum(sum, f, S) ==
  sum = [s \in SUBSET S |->
           IF s = {} THEN 0 ELSE f[Picked(s)] + sum[s \ {Picked(s)}]]

Partial(f, S) == CHOOSE sum : IsSum(sum, f, S)

LEMMA SumIsPartial == ASSUME NEW f, NEW S PROVE Sum(f, S) = Partial(f, S)[S]
BY Zenon DEF Sum, MapThenSumSet, MapThenFoldSet, Partial, IsSum, Picked

LEMMA LeastNatural ==
  ASSUME NEW S \in SUBSET Nat, S # {}
  PROVE  \E i \in S : \A j \in S : i <= j
<1>1. PICK i \in S : \A j \in S : ~(<<j, i>> \in OpToRel(<, Nat))
  BY NatLessThanWellFounded, WFMin
<1>2. \A j \in S : ~(j < i)
  BY <1>1 DEF OpToRel
<1> QED
  BY <1>2

LEMMA EveryNatural ==
  ASSUME NEW S \in SUBSET Nat, 0 \in S, \A n \in S : n + 1 \in S
  PROVE  \A n \in Nat : n \in S
<1> SUFFICES ASSUME Nat \ S # {} PROVE FALSE
  OBVIOUS
<1>1. PICK i \in Nat \ S : \A j \in Nat \ S : i <= j
  BY LeastNatural
<1>2. i # 0 /\ i - 1 \in Nat
  BY <1>1
<1>3. i - 1 \in S
  BY <1>1, <1>2
<1>4. (i - 1) + 1 \in S
  BY <1>3
<1> QED  BY <1>1, <1>4

(***************************************************************************)
(* A nonempty subset without the element picked from it.                   *)
(***************************************************************************)
LEMMA Fewer ==
  ASSUME NEW S, IsFiniteSet(S), NEW s \in SUBSET S, s # {}
  PROVE  /\ Picked(s) \in s /\ s \ {Picked(s)} \in SUBSET S
         /\ Cardinality(s) \in Nat \ {0}
         /\ Cardinality(s \ {Picked(s)}) = Cardinality(s) - 1
<1>1. Picked(s) \in s
  BY DEF Picked
<1>2. IsFiniteSet(s) /\ Cardinality(s) \in Nat
  BY FS_Subset, FS_CardinalityType
<1>3. Cardinality(s) # 0
  BY <1>2, FS_EmptySet
<1> QED  BY <1>1, <1>2, <1>3, FS_RemoveElement

(***************************************************************************)
(* Induction on the subsets: what holds of the empty set, and of a set     *)
(* when it does without the element picked, holds of every subset.         *)
(***************************************************************************)
LEMMA EverySubset ==
  ASSUME NEW S, IsFiniteSet(S), NEW P \in SUBSET SUBSET S, {} \in P,
         \A s \in SUBSET S : s # {} /\ s \ {Picked(s)} \in P => s \in P
  PROVE  P = SUBSET S
<1> DEFINE Sized == {n \in Nat : \A s \in SUBSET S : Cardinality(s) = n => s \in P}
<1>1. \A s \in SUBSET S : Cardinality(s) \in Nat /\ (Cardinality(s) = 0 <=> s = {})
  BY FS_Subset, FS_CardinalityType, FS_EmptySet
<1>2. 0 \in Sized
  <2>1. \A s \in SUBSET S : Cardinality(s) = 0 => s \in P
    BY <1>1, Zenon
  <2> QED  BY <2>1
<1>3. ASSUME NEW n \in Sized PROVE n + 1 \in Sized
  <2>1. ASSUME NEW s \in SUBSET S, Cardinality(s) = n + 1 PROVE s \in P
    <3>1. s # {}
      BY <1>1, <2>1
    <3>2. s \ {Picked(s)} \in P
      BY <2>1, <3>1, Fewer
    <3> QED  BY <3>1, <3>2
  <2> QED  BY <2>1
<1>4. \A n \in Nat : n \in Sized
  BY <1>2, <1>3, EveryNatural
<1> QED  BY <1>1, <1>4

Small(n, S) == {s \in SUBSET S : Cardinality(s) <= n}

(***************************************************************************)
(* The recursive function exists, built size by size.                      *)
(***************************************************************************)
LEMMA PartialSums ==
  ASSUME NEW S, IsFiniteSet(S), NEW f, \A t \in S : f[t] \in Int
  PROVE  /\ Partial(f, S) \in [SUBSET S -> Int]
         /\ Partial(f, S)[{}] = 0
         /\ \A s \in SUBSET S : s # {} =>
              Partial(f, S)[s] = f[Picked(s)] + Partial(f, S)[s \ {Picked(s)}]
<1> DEFINE UpTo(n, sum) ==
             /\ sum \in [Small(n, S) -> Int]
             /\ \A s \in Small(n, S) :
                  sum[s] = IF s = {} THEN 0 ELSE f[Picked(s)] + sum[s \ {Picked(s)}]
           Built == {n \in Nat : \E sum : UpTo(n, sum)}
<1>1. \A s \in SUBSET S : Cardinality(s) \in Nat /\ (Cardinality(s) = 0 <=> s = {})
  BY FS_Subset, FS_CardinalityType, FS_EmptySet
<1>2. 0 \in Built
  <2>1. \A s \in Small(0, S) : s = {}
    BY <1>1 DEF Small
  <2>2. UpTo(0, [s \in Small(0, S) |-> 0])
    BY <2>1
  <2> QED  BY <2>2
<1>3. ASSUME NEW n \in Built
      PROVE  n + 1 \in Built
  <2>1. PICK sum : UpTo(n, sum)
    BY <1>3
  <2> DEFINE next == [s \in Small(n + 1, S) |->
                        IF s = {} THEN 0 ELSE f[Picked(s)] + sum[s \ {Picked(s)}]]
  <2>2. ASSUME NEW s \in Small(n + 1, S), s # {}
        PROVE  /\ Picked(s) \in S /\ s \ {Picked(s)} \in Small(n, S)
               /\ s \ {Picked(s)} \in Small(n + 1, S)
    BY <2>2, Fewer DEF Small
  <2>3. \A s \in Small(n, S) : next[s] = sum[s]
    <3>1. \A s \in Small(n, S) : s \in Small(n + 1, S)
      BY <1>1 DEF Small
    <3> QED  BY <2>1, <3>1
  <2>4. next \in [Small(n + 1, S) -> Int]
    BY <2>1, <2>2
  <2>5. \A s \in Small(n + 1, S) :
          next[s] = IF s = {} THEN 0 ELSE f[Picked(s)] + next[s \ {Picked(s)}]
    BY <2>2, <2>3
  <2> HIDE DEF next
  <2>6. UpTo(n + 1, next)
    BY <2>4, <2>5
  <2> HIDE DEF UpTo
  <2> QED  BY <2>6
<1>4. Cardinality(S) \in Nat /\ \A n \in Nat : n \in Built
  BY <1>1, <1>2, <1>3, EveryNatural
<1>5. PICK sum : UpTo(Cardinality(S), sum)
  BY <1>4
<1>6. Small(Cardinality(S), S) = SUBSET S
  BY FS_Subset DEF Small
<1>7. IsSum(sum, f, S)
  BY <1>5, <1>6 DEF IsSum
<1>8. IsSum(Partial(f, S), f, S)
  BY <1>7 DEF Partial
<1> DEFINE it == Partial(f, S)
<1>9. it = [s \in SUBSET S |-> IF s = {} THEN 0 ELSE f[Picked(s)] + it[s \ {Picked(s)}]]
  BY <1>8 DEF IsSum
<1> HIDE DEF it
<1>10. it[{}] = 0 /\ \A s \in SUBSET S : s # {} => it[s] = f[Picked(s)] + it[s \ {Picked(s)}]
  BY <1>9
<1> DEFINE P == {s \in SUBSET S : it[s] \in Int}
<1>11. ASSUME NEW s \in SUBSET S, s # {}, s \ {Picked(s)} \in P PROVE s \in P
  <2>1. f[Picked(s)] \in Int
    BY <1>11, Fewer
  <2>2. it[s] = f[Picked(s)] + it[s \ {Picked(s)}]
    BY <1>10, <1>11
  <2> QED  BY <1>11, <2>1, <2>2
<1>12. P = SUBSET S
  <2>1. {} \in P
    BY <1>10
  <2> HIDE DEF P
  <2>2. P \in SUBSET SUBSET S
    BY DEF P
  <2> QED  BY <1>11, <2>1, <2>2, EverySubset
<1>13. it \in [SUBSET S -> Int]
  BY <1>9, <1>12
<1> QED  BY <1>10, <1>13 DEF it

(***************************************************************************)
(* What a proof needs to know of a sum: it is an integer, of zeros it is   *)
(* zero, and it moves with a change at one point.                          *)
(***************************************************************************)
LEMMA SumIsInteger ==
  ASSUME NEW S, IsFiniteSet(S), NEW f, \A t \in S : f[t] \in Int
  PROVE  Sum(f, S) \in Int
<1>1. Partial(f, S) \in [SUBSET S -> Int]
  BY PartialSums
<1> QED  BY <1>1, SumIsPartial

LEMMA SumMovesAtPoint ==
  ASSUME NEW S, IsFiniteSet(S), NEW f, NEW g, NEW x \in S,
         \A t \in S : f[t] \in Int /\ g[t] \in Int,
         \A t \in S \ {x} : g[t] = f[t]
  PROVE  Sum(g, S) = Sum(f, S) - f[x] + g[x]
<1> DEFINE a == Partial(f, S)
           b == Partial(g, S)
           Off(s) == IF x \in s THEN g[x] - f[x] ELSE 0
           P == {s \in SUBSET S : b[s] = a[s] + Off(s)}
<1>1. /\ a \in [SUBSET S -> Int] /\ a[{}] = 0
      /\ \A s \in SUBSET S : s # {} => a[s] = f[Picked(s)] + a[s \ {Picked(s)}]
  BY PartialSums
<1>2. /\ b \in [SUBSET S -> Int] /\ b[{}] = 0
      /\ \A s \in SUBSET S : s # {} => b[s] = g[Picked(s)] + b[s \ {Picked(s)}]
  BY PartialSums
<1>3. Sum(f, S) = a[S] /\ Sum(g, S) = b[S]
  BY SumIsPartial
<1> HIDE DEF a, b
<1>4. {} \in P
  BY <1>1, <1>2
<1>5. ASSUME NEW s \in SUBSET S, s # {}, s \ {Picked(s)} \in P PROVE s \in P
  <2> DEFINE e == Picked(s)
             r == s \ {e}
  <2>1. e \in s /\ e \in S /\ r \in SUBSET S /\ b[r] = a[r] + Off(r)
    BY <1>5, Fewer
  <2>2. b[s] = g[e] + b[r] /\ a[s] = f[e] + a[r]
    BY <1>1, <1>2, <1>5
  <2>3. e \notin r /\ (x \in s <=> x = e \/ x \in r) /\ (e # x => g[e] = f[e])
    BY <2>1
  <2>4. /\ a[r] \in Int /\ b[r] \in Int /\ g[e] \in Int /\ f[e] \in Int
        /\ g[x] \in Int /\ f[x] \in Int
    BY <1>1, <1>2, <2>1
  <2> HIDE DEF e, r
  <2>5. b[s] = a[s] + Off(s)
    BY <2>1, <2>2, <2>3, <2>4
  <2> QED  BY <2>5
<1>6. P \in SUBSET SUBSET S
  OBVIOUS
<1> HIDE DEF P
<1>7. P = SUBSET S
  BY <1>4, <1>5, <1>6, EverySubset
<1>8. b[S] = a[S] + Off(S)
  BY <1>7 DEF P
<1> QED  BY <1>1, <1>3, <1>8

LEMMA SumOfZeros ==
  ASSUME NEW S, IsFiniteSet(S), NEW f, \A t \in S : f[t] = 0
  PROVE  Sum(f, S) = 0
<1> DEFINE a == Partial(f, S)
           P == {s \in SUBSET S : a[s] = 0}
<1>0. \A t \in S : f[t] \in Int
  OBVIOUS
<1>1. /\ a[{}] = 0
      /\ \A s \in SUBSET S : s # {} => a[s] = f[Picked(s)] + a[s \ {Picked(s)}]
  BY <1>0, PartialSums
<1>2. Sum(f, S) = a[S]
  BY SumIsPartial
<1> HIDE DEF a
<1>3. {} \in P
  BY <1>1
<1>4. ASSUME NEW s \in SUBSET S, s # {}, s \ {Picked(s)} \in P PROVE s \in P
  <2>1. f[Picked(s)] = 0
    BY <1>4, Fewer
  <2>2. a[s] = f[Picked(s)] + a[s \ {Picked(s)}]
    BY <1>1, <1>4
  <2> QED  BY <1>4, <2>1, <2>2
<1>5. P \in SUBSET SUBSET S
  OBVIOUS
<1> HIDE DEF P
<1>6. P = SUBSET S
  BY <1>3, <1>4, <1>5, EverySubset
<1> QED  BY <1>2, <1>6 DEF P

-----------------------------------------------------------------------------
(***************************************************************************)
(* Every row is accounted for once.  While a frame is drained, what the    *)
(* needed participants have tallied, or would tally now with the row they  *)
(* are rendering, is the number of rows claimed so far: no participant     *)
(* counts rows of an earlier frame, because a tally is zero until its      *)
(* owner has been through this frame's rows.                               *)
(***************************************************************************)
Contribution ==
  [p \in Participants |->
     CASE At(p, "render")               -> rows_done[p] + 1
       [] pc[p] \in {"claim", "tally"} -> rows_done[p]
       [] OTHER                         -> row_tally[p]]

Needed == 0..(request.thread_count - 1)

Untallied(w) ==
  \/ pc[w] \in {"reload", "admit", "copy"}
  \/ pc[w] \in RestLabels \cup {"notify"} /\ seen[w] # generation

ArgsKept ==
  /\ last_thread_count = request.thread_count
  /\ request.thread_count \in 1..kMaxRenderThreads

NothingTallied ==
  /\ pc[0] \in PublishLabels => \A p \in Needed : row_tally[p] = 0
  /\ pc[0] \in {"wake", "copy"} => row_tally[0] = 0
  /\ pc[0] \in FrameLabels =>
       \A w \in Workers \cap Needed : Untallied(w) => row_tally[w] = 0

RowsAccounted ==
  pc[0] \in FrameLabels => Sum(Contribution, Needed) = Min2(next_row, request.height)

TallyInv == ArgsKept /\ NothingTallied /\ RowsAccounted /\ TalliesSumToHeight

LEMMA BelowCount ==
  /\ \A n \in 1..kMaxRenderThreads : \A p \in 0..(n - 1) : p \in Participants /\ p < n
  /\ \A n, p \in Nat : p < n => p \in 0..(n - 1)
BY PoolAssumption DEF Participants

LEMMA NeededParticipants ==
  ASSUME ArgsKept
  PROVE  /\ Needed \subseteq Participants /\ IsFiniteSet(Needed) /\ 0 \in Needed
         /\ ReportedRows = Sum(row_tally, Needed)
<1>1. Needed \subseteq Participants /\ 0 \in Needed
  BY PoolAssumption DEF ArgsKept, Needed, Participants
<1>2. IsFiniteSet(Needed)
  BY FS_Interval DEF ArgsKept, Needed
<1>3. Needed = 0..(last_thread_count - 1)
  BY DEF ArgsKept, Needed
<1> QED  BY <1>1, <1>2, <1>3 DEF ReportedRows

LEMMA ContributionType ==
  ASSUME TypeOK
  PROVE  \A p \in Participants : Contribution[p] \in Int /\ row_tally[p] \in Int
BY DEF TypeOK, DataTypeOK, Contribution

LEMMA ContributionMoves ==
  ASSUME TypeOK, TypeOK', ArgsKept, NEW p, p \in Needed,
         \A q \in Needed \ {p} : (Contribution')[q] = Contribution[q]
  PROVE  Sum(Contribution', Needed)
           = Sum(Contribution, Needed) - Contribution[p] + (Contribution')[p]
<1> DEFINE before == Contribution
           after == Contribution'
<1>1. \A q \in Participants : before[q] \in Int
  BY ContributionType
<1>2. \A q \in Participants : after[q] \in Int
  BY DEF TypeOK, DataTypeOK, Contribution
<1>3. Needed \subseteq Participants /\ IsFiniteSet(Needed)
  BY NeededParticipants
<1> HIDE DEF before, after
<1>4. \A q \in Needed : before[q] \in Int /\ after[q] \in Int
  BY <1>1, <1>2, <1>3
<1>5. \A q \in Needed \ {p} : after[q] = before[q]
  BY DEF before, after
<1>6. Sum(after, Needed) = Sum(before, Needed) - before[p] + after[p]
  <2>1. \A f, g : (\A q \in Needed : f[q] \in Int /\ g[q] \in Int) /\ (\A q \in Needed \ {p} : g[q] = f[q])
            => Sum(g, Needed) = Sum(f, Needed) - f[p] + g[p]
    BY <1>3, SumMovesAtPoint
  <2> QED BY <2>1, <1>4, <1>5
<1> QED  BY <1>6 DEF before, after

LEMMA ArgsStep ==
  ASSUME TypeOK, ArgsKept, [Next]_vars
  PROVE  ArgsKept'
<1> USE Basics, Numbers DEF sharedVars, callerVars, drainVars
<1>1. ASSUME NEW h \in Heights, NEW n \in ThreadCounts, BeginCall(h, n)
      PROVE  ArgsKept'
  <2>1. /\ request' = [height |-> h, thread_count |-> Effective(n, h)]
        /\ last_thread_count' = Effective(n, h)
    BY <1>1 DEF BeginCall
  <2>2. Effective(n, h) \in 1..kMaxRenderThreads
    <3>1. worker_count \in 0..(kMaxRenderThreads - 1) /\ n \in Int /\ h \in Int
      BY PoolAssumption DEF TypeOK, DataTypeOK, Participants
    <3> QED  BY <3>1, PoolAssumption DEF Effective, Clamp, Min2, Max2
  <2> QED  BY <2>1, <2>2 DEF ArgsKept
<1>2. CASE UNCHANGED <<last_thread_count, request>>
  BY <1>2 DEF ArgsKept
<1>3. ASSUME NEW h \in Heights, NEW n \in ThreadCounts,
             RenderAlone(h, n) \/ RenderShared(h, n)
      PROVE  ArgsKept'
  BY <1>1, <1>3 DEF RenderAlone, RenderShared
<1>4. ASSUME NEW p \in Participants,
             DrainCopy(p) \/ DrainClaim(p) \/ DrainRender(p) \/ DrainTally(p)
      PROVE  UNCHANGED <<last_thread_count, request>>
  BY <1>4 DEF DrainCopy, DrainClaim, DrainRender, DrainTally
<1>5. ASSUME NEW w \in Workers,
             RestStep(w) \/ WorkerEnter(w) \/ Reload(w) \/ Admit(w) \/ Report(w) \/ NotifyDone(w)
      PROVE  UNCHANGED <<last_thread_count, request>>
  BY <1>5, RestMoves DEF SameData, WorkerEnter, Reload, Admit, Report, NotifyDone
<1>6. CASE PublishLock \/ (\E s \in Stores : PublishStore(s)) \/ PublishBump \/ PublishWake
  BY <1>2, <1>6 DEF PublishLock, PublishStore, PublishBump, PublishWake
<1>7. CASE AwaitReturn \/ CallerWaitStep
  BY <1>2, <1>7, CallerWaits DEF SameData, AwaitReturn
<1>8. CASE StopCall \/ StopFlag \/ StopBump \/ StopWake \/ StopJoin
  BY <1>2, <1>8 DEF StopCall, StopFlag, StopBump, StopWake, StopJoin
<1>9. CASE \E m \in StartCounts : Start(m)
  BY <1>2, <1>9 DEF Start
<1>10. CASE UNCHANGED vars
  BY <1>2, <1>10 DEF vars
<1> QED  BY NextCases, <1>2, <1>3, <1>4, <1>5, <1>6, <1>7, <1>8, <1>9, <1>10

(***************************************************************************)
(* A tally is zero from the call of RenderFrame until its owner has been   *)
(* through the rows.                                                       *)
(***************************************************************************)
LEMMA NothingTalliedStep ==
  ASSUME TypeOK, PoolInv, ArgsKept, NothingTallied, [Next]_vars
  PROVE  NothingTallied'
<1> USE Basics, Numbers DEF sharedVars, callerVars, drainVars, At, Goto
<1>q. Quiet /\ Draining /\ Spawned
  BY DEF PoolInv
<1>a. /\ FrameLabels = {"wake", "copy", "claim", "render", "tally", "await",
                        "dozing", "asleep"}
      /\ PublishLabels = {"lock", "store"}
      /\ QuietLabels = {"idle", "stop_lock", "stop_bump", "lock", "store"}
      /\ DrainLabels = {"copy", "claim", "render", "tally"}
      /\ RestLabels = {"spin", "compare", "park", "dozing", "asleep"}
  BY DEF FrameLabels, PublishLabels, QuietLabels, DrainLabels, AwaitLabels, RestLabels
<1>n. Needed \subseteq Participants /\ row_tally \in [Participants -> Nat]
  BY NeededParticipants DEF TypeOK, DataTypeOK
<1> DEFINE Zeros == \A p \in Needed : row_tally[p] = 0
           Later == \A w \in Workers \cap Needed : Untallied(w) => row_tally[w] = 0
<1>k. /\ pc[0] \in PublishLabels => Zeros
      /\ pc[0] \in {"wake", "copy"} => row_tally[0] = 0
      /\ pc[0] \in FrameLabels => Later
  BY DEF NothingTallied
<1>0. ASSUME /\ pc'[0] \in PublishLabels => Zeros'
             /\ pc'[0] \in {"wake", "copy"} => row_tally'[0] = 0
             /\ pc'[0] \in FrameLabels => Later'
      PROVE  NothingTallied'
  BY <1>0 DEF NothingTallied
<1> DEFINE Args == request' = request /\ row_tally' = row_tally
<1>s. request' = request => Needed' = Needed
  BY DEF Needed
<1> HIDE DEF Zeros, Later
<1>1. ASSUME NEW m \in StartCounts, Start(m)
      PROVE  NothingTallied'
  BY <1>0, <1>1, <1>a DEF Start
<1>2. ASSUME NEW h \in Heights, NEW n \in ThreadCounts, RenderAlone(h, n)
      PROVE  NothingTallied'
  BY <1>0, <1>2, <1>a DEF RenderAlone, BeginCall
<1>3. ASSUME NEW h \in Heights, NEW n \in ThreadCounts, RenderShared(h, n)
      PROVE  NothingTallied'
  <2>1. /\ pc'[0] = "lock" /\ row_tally' = ZeroedTally(Effective(n, h))
        /\ request'.thread_count = Effective(n, h)
    BY <1>3 DEF RenderShared, BeginCall
  <2>2. request'.thread_count \in 1..kMaxRenderThreads
    BY ArgsStep DEF ArgsKept
  <2>3. ASSUME NEW p, p \in Needed' PROVE row_tally'[p] = 0
    <3>1. p \in 0..(request'.thread_count - 1)
      BY <2>3, Zenon DEF Needed
    <3>2. p \in Participants /\ p < request'.thread_count
      BY <2>2, <3>1, BelowCount
    <3> QED  BY <2>1, <3>2 DEF ZeroedTally
  <2>4. Zeros'
    BY <2>3 DEF Zeros
  <2> QED  BY <1>0, <1>a, <2>1, <2>4
<1>4. CASE PublishLock \/ (\E s \in Stores : PublishStore(s))
  <2>1. /\ pc[0] \in {"lock", "store"} /\ pc'[0] = "store" /\ Args
    BY <1>4 DEF PublishLock, PublishStore
  <2>2. Zeros'
    BY <1>k, <1>a, <1>s, <2>1 DEF Zeros
  <2> QED  BY <1>0, <1>a, <2>1, <2>2
<1>5. CASE PublishBump
  <2>1. pc[0] = "store" /\ pc'[0] = "wake" /\ Args
    BY <1>5 DEF PublishBump
  <2>2. \A p \in Needed' : row_tally'[p] = 0
    BY <1>k, <1>a, <1>s, <2>1 DEF Zeros
  <2>3. 0 \in Needed'
    BY <1>s, <2>1, NeededParticipants
  <2> QED  BY <1>0, <1>a, <2>1, <2>2, <2>3 DEF Later
<1>6. CASE PublishWake
  <2>1. /\ pc[0] = "wake" /\ pc'[0] = "copy" /\ Args /\ UNCHANGED <<seen, generation>>
        /\ \A w \in Workers : pc'[w] = pc[w] \/ (pc[w] = "asleep" /\ pc'[w] = "park")
    BY <1>6, Wakes DEF PublishWake
  <2>2. Later'
    BY <1>k, <1>a, <1>s, <2>1 DEF Later, Untallied
  <2> QED  BY <1>0, <1>a, <1>k, <2>1, <2>2
<1>7. CASE AwaitReturn \/ StopCall \/ StopFlag \/ StopBump \/ StopWake \/ StopJoin
  <2>1. pc'[0] \in {"idle", "stop_lock", "stop_bump", "stop_wake", "join"}
    BY <1>7, Wakes DEF AwaitReturn, StopCall, StopFlag, StopBump, StopWake, StopJoin
  <2> QED  BY <1>0, <1>a, <2>1
<1>8. CASE CallerWaitStep
  <2>1. /\ pc[0] \in AwaitLabels /\ pc'[0] \in AwaitLabels /\ Args
        /\ UNCHANGED <<seen, generation>> /\ \A w \in Workers : pc'[w] = pc[w]
    BY <1>8, CallerWaits DEF SameData, Elsewhere
  <2>2. Later'
    BY <1>k, <1>a, <1>s, <2>1 DEF Later, Untallied, AwaitLabels
  <2> QED  BY <1>0, <1>a, <2>1, <2>2 DEF AwaitLabels
<1>9. ASSUME NEW p \in Participants, DrainCopy(p) \/ DrainClaim(p) \/ DrainRender(p)
      PROVE  NothingTallied'
  <2>1. /\ Args /\ UNCHANGED <<seen, generation>> /\ Elsewhere(p)
        /\ pc[p] \in DrainLabels /\ pc'[p] \in {"claim", "render", "tally"}
    BY <1>9, <1>a DEF DrainCopy, DrainClaim, DrainRender, Elsewhere
  <2>2. pc'[0] \in FrameLabels => pc[0] \in FrameLabels
    BY <1>a, <2>1 DEF Elsewhere
  <2>3. pc[0] \in FrameLabels => Later'
    BY <1>k, <1>a, <1>s, <2>1 DEF Later, Untallied, Elsewhere
  <2>4. pc'[0] \in PublishLabels \cup {"wake", "copy"} => pc'[0] = pc[0]
    BY <1>a, <2>1 DEF Elsewhere
  <2>5. Zeros => Zeros'
    BY <1>s, <2>1 DEF Zeros
  <2> QED  BY <1>0, <1>k, <2>1, <2>2, <2>3, <2>4, <2>5
<1>10. ASSUME NEW p \in Participants, DrainTally(p)
       PROVE  NothingTallied'
  <2>1. /\ request' = request /\ UNCHANGED <<seen, generation>> /\ Elsewhere(p)
        /\ pc[p] = "tally" /\ pc'[p] = IF p = 0 THEN "await" ELSE "report"
        /\ \A q \in Participants \ {p} : row_tally'[q] = row_tally[q]
    BY <1>10, <1>n DEF DrainTally, Elsewhere
  <2>2. pc'[0] \in FrameLabels => pc[0] \in FrameLabels
    BY <1>a, <2>1 DEF Elsewhere
  <2>3. pc[0] \notin PublishLabels
    BY <1>q, <1>a, <2>1 DEF Quiet
  <2>4. pc'[0] \notin PublishLabels /\ (pc'[0] \in {"wake", "copy"} => p # 0 /\ pc'[0] = pc[0])
    BY <1>a, <2>1, <2>3 DEF Elsewhere
  <2>5. pc[0] \in FrameLabels => Later'
    BY <1>k, <1>a, <1>n, <1>s, <2>1 DEF Later, Untallied, Elsewhere
  <2> QED  BY <1>0, <1>k, <2>1, <2>2, <2>4, <2>5
<1>11. ASSUME NEW w \in Workers,
              RestStep(w) \/ WorkerEnter(w) \/ Reload(w) \/ Admit(w) \/ Report(w) \/ NotifyDone(w)
       PROVE  NothingTallied'
  <2>1. /\ Args /\ UNCHANGED generation
        /\ \A v \in Workers \ {w} : pc'[v] = pc[v] /\ seen'[v] = seen[v]
        /\ pc'[0] = pc[0] \/ (pc[0] \in AwaitLabels /\ pc'[0] \in AwaitLabels)
    BY <1>11, RestMoves, Notifies
       DEF SameData, Elsewhere, WorkerEnter, Reload, Admit, Report
  <2>2. pc[0] \in FrameLabels /\ Untallied(w)' => Untallied(w)
    <3>1. CASE RestStep(w)
      BY <3>1, <1>a, <2>1, RestMoves DEF SameData, Untallied
    <3>2. CASE WorkerEnter(w)
      BY <3>2, <1>a DEF WorkerEnter, Untallied
    <3>3. CASE Reload(w) \/ Admit(w)
      BY <3>3, <1>a DEF Reload, Admit, Untallied
    <3>4. CASE Report(w)
      <4>1. pc[0] \in FrameLabels => seen[w] = generation
        BY <3>4, <1>q DEF Report, Draining
      <4> QED  BY <3>4, <4>1, <1>a DEF Report, Untallied
    <3>5. CASE NotifyDone(w)
      BY <3>5, <1>a, Notifies DEF SameData, Untallied
    <3> QED  BY <1>11, <3>1, <3>2, <3>3, <3>4, <3>5
  <2>3. \A v \in Workers \ {w} : Untallied(v)' <=> Untallied(v)
    BY <2>1 DEF Untallied
  <2>4. pc[0] \in FrameLabels => Later'
    BY <1>k, <1>s, <2>1, <2>2, <2>3 DEF Later
  <2>5. Zeros => Zeros'
    BY <1>s, <2>1 DEF Zeros
  <2> QED  BY <1>0, <1>k, <1>a, <2>1, <2>4, <2>5 DEF AwaitLabels
<1>12. CASE UNCHANGED vars
  <2>1. Args /\ UNCHANGED <<pc, seen, generation>>
    BY <1>12 DEF vars
  <2>2. (Zeros => Zeros') /\ (Later => Later')
    BY <1>s, <2>1 DEF Zeros, Later, Untallied
  <2> QED  BY <1>0, <1>k, <2>1, <2>2
<1> QED
  BY NextCases, <1>1, <1>2, <1>3, <1>4, <1>5, <1>6, <1>7, <1>8, <1>9, <1>10,
     <1>11, <1>12

(***************************************************************************)
(* Two sums of the same numbers.                                           *)
(***************************************************************************)
LEMMA SameSum ==
  ASSUME NEW S, IsFiniteSet(S), NEW f, NEW g, NEW x \in S,
         \A t \in S : f[t] \in Int /\ g[t] = f[t]
  PROVE  Sum(g, S) = Sum(f, S)
<1>1. Sum(f, S) \in Int /\ f[x] \in Int /\ g[x] = f[x]
  BY SumIsInteger
<1>2. Sum(g, S) = Sum(f, S) - f[x] + g[x]
  BY SumMovesAtPoint
<1> QED  BY <1>1, <1>2

(***************************************************************************)
(* The contributions keep up with the rows claimed: only a claim of a row  *)
(* changes them, by one.                                                   *)
(***************************************************************************)
LEMMA RowsAccountedStep ==
  ASSUME TypeOK, TypeOK', PoolInv, ArgsKept, NothingTallied, RowsAccounted, [Next]_vars
  PROVE  RowsAccounted'
<1> USE Basics, Numbers DEF sharedVars, callerVars, drainVars, At, Goto
<1>q. Quiet /\ Draining /\ Publishing
  BY DEF PoolInv
<1>a. /\ FrameLabels = {"wake", "copy", "claim", "render", "tally", "await",
                        "dozing", "asleep"}
      /\ PublishLabels = {"lock", "store"}
      /\ QuietLabels = {"idle", "stop_lock", "stop_bump", "lock", "store"}
      /\ DrainLabels = {"copy", "claim", "render", "tally"}
      /\ RestLabels = {"spin", "compare", "park", "dozing", "asleep"}
  BY DEF FrameLabels, PublishLabels, QuietLabels, DrainLabels, AwaitLabels, RestLabels
<1>n. /\ Needed \subseteq Participants /\ IsFiniteSet(Needed) /\ 0 \in Needed
      /\ row_tally \in [Participants -> Nat] /\ rows_done \in [Participants -> Nat]
  BY NeededParticipants DEF TypeOK, DataTypeOK
<1>t. /\ \A p \in Participants : Contribution[p] \in Int
      /\ \A p \in Participants : (Contribution')[p] \in Int
      /\ \A p \in Needed : Contribution[p] \in Int /\ (Contribution')[p] \in Int
  <2>1. \A p \in Participants : (Contribution')[p] \in Int
    BY DEF TypeOK, DataTypeOK, Contribution
  <2> QED  BY <1>n, <2>1, ContributionType
<1>c. \A p \in Participants :
        /\ pc[p] = "render" => Contribution[p] = rows_done[p] + 1
        /\ pc[p] \in {"claim", "tally"} => Contribution[p] = rows_done[p]
        /\ pc[p] \notin {"claim", "render", "tally"} => Contribution[p] = row_tally[p]
  BY DEF Contribution
<1>d. \A p \in Participants :
        /\ pc'[p] = "render" => (Contribution')[p] = rows_done'[p] + 1
        /\ pc'[p] \in {"claim", "tally"} => (Contribution')[p] = rows_done'[p]
        /\ pc'[p] \notin {"claim", "render", "tally"} => (Contribution')[p] = row_tally'[p]
  BY DEF Contribution
<1>s. request' = request => Needed' = Needed
  BY DEF Needed
<1> DEFINE Kept == /\ pc[0] \in FrameLabels
                   /\ request' = request /\ next_row' = next_row
                   /\ \A p \in Needed : (Contribution')[p] = Contribution[p]
<1>0. ASSUME pc'[0] \in FrameLabels => Kept PROVE RowsAccounted'
  <2> SUFFICES ASSUME pc'[0] \in FrameLabels
               PROVE  Sum(Contribution', Needed') = Min2(next_row', request'.height)
    BY <1>a DEF RowsAccounted
  <2>1. Sum(Contribution, Needed) = Min2(next_row, request.height)
    BY <1>0 DEF RowsAccounted
  <2>2. Sum(Contribution', Needed) = Sum(Contribution, Needed)
    BY <1>0, <1>n, <1>t, SameSum
  <2> QED  BY <1>0, <1>s, <2>1, <2>2
<1>1. ASSUME NEW m \in StartCounts, Start(m)
      PROVE  RowsAccounted'
  BY <1>0, <1>1, <1>a DEF Start
<1>2. ASSUME NEW h \in Heights, NEW n \in ThreadCounts, RenderAlone(h, n) \/ RenderShared(h, n)
      PROVE  RowsAccounted'
  BY <1>0, <1>2, <1>a DEF RenderAlone, RenderShared, BeginCall
<1>3. CASE PublishLock \/ (\E s \in Stores : PublishStore(s))
  BY <1>0, <1>3, <1>a DEF PublishLock, PublishStore
<1>4. CASE PublishBump
  <2>1. /\ pc[0] = "store" /\ unstored = {} /\ pc'[0] = "wake"
        /\ \A w \in Workers : pc'[w] = pc[w]
        /\ UNCHANGED <<request, next_row, row_tally>>
    BY <1>4 DEF PublishBump
  <2>2. next_row = 0
    BY <1>q, <2>1 DEF Publishing, Stored, Stores
  <2>3. \A p \in Needed : row_tally[p] = 0
    BY <1>a, <2>1 DEF NothingTallied
  <2>4. \A p \in Participants : pc'[p] \notin {"claim", "render", "tally"}
    BY <1>q, <1>a, <2>1 DEF Quiet
  <2>5. \A p \in Needed : (Contribution')[p] = 0
    BY <1>d, <1>n, <2>1, <2>3, <2>4
  <2>6. Sum(Contribution', Needed) = 0
    BY <1>n, <2>5, SumOfZeros
  <2>7. Min2(next_row', request'.height) = 0
    BY <2>1, <2>2 DEF Min2
  <2> QED  BY <1>s, <2>1, <2>6, <2>7 DEF RowsAccounted
<1>5. CASE PublishWake
  <2>1. /\ pc[0] = "wake" /\ pc'[0] = "copy"
        /\ UNCHANGED <<request, next_row, row_tally, rows_done>>
        /\ \A w \in Workers : pc'[w] = pc[w] \/ (pc[w] = "asleep" /\ pc'[w] = "park")
    BY <1>5, Wakes DEF PublishWake
  <2>2. \A p \in Participants : (Contribution')[p] = Contribution[p]
    BY <1>c, <1>d, <2>1
  <2> QED  BY <1>0, <1>a, <1>n, <2>1, <2>2
<1>6. CASE AwaitReturn \/ StopCall \/ StopFlag \/ StopBump \/ StopWake \/ StopJoin
  <2>1. pc'[0] \in {"idle", "stop_lock", "stop_bump", "stop_wake", "join"}
    BY <1>6, Wakes DEF AwaitReturn, StopCall, StopFlag, StopBump, StopWake, StopJoin
  <2> QED  BY <1>0, <1>a, <2>1
<1>7. CASE CallerWaitStep
  <2>1. /\ pc[0] \in AwaitLabels /\ pc'[0] \in AwaitLabels
        /\ UNCHANGED <<request, next_row, row_tally, rows_done>>
        /\ \A w \in Workers : pc'[w] = pc[w]
    BY <1>7, CallerWaits DEF SameData, Elsewhere
  <2>2. \A p \in Participants : (Contribution')[p] = Contribution[p]
    BY <1>c, <1>d, <2>1 DEF AwaitLabels
  <2> QED  BY <1>0, <1>a, <1>n, <2>1, <2>2 DEF AwaitLabels
<1>8. ASSUME NEW p \in Participants, DrainCopy(p) \/ DrainRender(p) \/ DrainTally(p)
      PROVE  RowsAccounted'
  <2>1. /\ UNCHANGED <<request, next_row>> /\ Elsewhere(p) /\ pc[p] \in DrainLabels
        /\ pc'[0] \in FrameLabels => pc[0] \in FrameLabels
        /\ \A q \in Participants \ {p} :
             row_tally'[q] = row_tally[q] /\ rows_done'[q] = rows_done[q]
    BY <1>8, <1>a, <1>n DEF DrainCopy, DrainRender, DrainTally, Elsewhere
  <2>2. \A q \in Participants \ {p} : (Contribution')[q] = Contribution[q]
    BY <1>c, <1>d, <2>1 DEF Elsewhere
  <2>3. ASSUME pc[0] \in FrameLabels, p \in Needed PROVE (Contribution')[p] = Contribution[p]
    <3>1. CASE DrainCopy(p)
      <4>1. /\ pc[p] = "copy" /\ pc'[p] = "claim" /\ row_tally' = row_tally
            /\ rows_done'[p] = 0
        BY <1>n, <3>1 DEF DrainCopy
      <4>2. row_tally[p] = 0
        BY <2>3, <4>1 DEF NothingTallied, Untallied
      <4> QED  BY <1>c, <1>d, <4>1, <4>2
    <3>2. CASE DrainRender(p)
      <4>1. pc[p] = "render" /\ pc'[p] = "claim" /\ rows_done'[p] = rows_done[p] + 1
        BY <1>n, <3>2 DEF DrainRender
      <4> QED  BY <1>c, <1>d, <4>1
    <3>3. CASE DrainTally(p)
      <4>1. pc[p] = "tally" /\ pc'[p] \in {"await", "report"} /\ row_tally'[p] = rows_done[p]
        BY <1>n, <3>3 DEF DrainTally
      <4> QED  BY <1>c, <1>d, <4>1
    <3> QED  BY <1>8, <3>1, <3>2, <3>3
  <2> QED  BY <1>0, <1>n, <2>1, <2>2, <2>3
<1>9. ASSUME NEW p \in Participants, DrainClaim(p)
      PROVE  RowsAccounted'
  <2> SUFFICES ASSUME pc'[0] \in FrameLabels
               PROVE  Sum(Contribution', Needed') = Min2(next_row', request'.height)
    BY <1>a DEF RowsAccounted
  <2>1. /\ request' = request /\ next_row' = next_row + 1 /\ Elsewhere(p) /\ pc[p] = "claim"
        /\ UNCHANGED <<row_tally, rows_done>>
        /\ pc'[p] = IF next_row >= work[p].height THEN "tally" ELSE "render"
        /\ pc[0] \in FrameLabels
    BY <1>9, <1>a DEF DrainClaim, Elsewhere
  <2>2. p \in Needed /\ work[p].height = request.height
    <3>1. job.thread_count = request.thread_count
      BY <1>q, <2>1 DEF Draining
    <3>2. p # 0 => p < request.thread_count
      BY <1>q, <1>a, <2>1, <3>1 DEF Draining
    <3>3. work[p] = [frame |-> frame, height |-> request.height]
      BY <1>q, <2>1 DEF Draining
    <3>4. p \in Nat /\ request.thread_count \in Nat
      BY DEF Workers
    <3>5. p \in Needed
      BY <1>n, <3>2, <3>4, BelowCount DEF Needed
    <3> QED  BY <3>3, <3>5
  <2>3. \A q \in Needed \ {p} : (Contribution')[q] = Contribution[q]
    BY <1>c, <1>d, <1>n, <2>1 DEF Elsewhere
  <2>4. (Contribution')[p] = Contribution[p] + IF next_row >= request.height THEN 0 ELSE 1
    BY <1>c, <1>d, <1>n, <2>1, <2>2
  <2>5. Sum(Contribution, Needed) = Min2(next_row, request.height)
    BY <2>1 DEF RowsAccounted
  <2>6. Sum(Contribution', Needed) = Sum(Contribution, Needed) - Contribution[p] + (Contribution')[p]
    BY <2>2, <2>3, ContributionMoves
  <2>7. next_row \in Nat /\ request.height \in Nat /\ Contribution[p] \in Int
    BY <1>t
  <2>8. Sum(Contribution', Needed) = Min2(next_row + 1, request.height)
    BY <2>4, <2>5, <2>6, <2>7 DEF Min2
  <2> QED  BY <1>s, <2>1, <2>8
<1>10. ASSUME NEW w \in Workers,
              RestStep(w) \/ WorkerEnter(w) \/ Reload(w) \/ Admit(w) \/ Report(w) \/ NotifyDone(w)
       PROVE  RowsAccounted'
  <2>1. /\ UNCHANGED <<request, next_row, row_tally, rows_done>>
        /\ \A v \in Workers \ {w} : pc'[v] = pc[v]
        /\ pc'[0] = pc[0] \/ (pc[0] \in AwaitLabels /\ pc'[0] \in AwaitLabels)
    BY <1>10, RestMoves, Notifies
       DEF SameData, Elsewhere, WorkerEnter, Reload, Admit, Report
  <2>2. /\ pc[w] \notin {"claim", "render", "tally"}
        /\ pc'[w] \notin {"claim", "render", "tally"}
    BY <1>10, <1>a, RestMoves, Notifies DEF WorkerEnter, Reload, Admit, Report
  <2>3. \A p \in Participants : (Contribution')[p] = Contribution[p]
    BY <1>c, <1>d, <2>1, <2>2 DEF AwaitLabels
  <2> QED  BY <1>0, <1>a, <1>n, <2>1, <2>3 DEF AwaitLabels
<1>11. CASE UNCHANGED vars
  BY <1>0, <1>11, <1>c, <1>d, <1>n DEF vars
<1> QED
  BY NextCases, <1>1, <1>2, <1>3, <1>4, <1>5, <1>6, <1>7, <1>8, <1>9, <1>10, <1>11

(***************************************************************************)
(* When a call returns, every contribution is a tally: the workers it      *)
(* needed have reported, and the rows have run out.                        *)
(***************************************************************************)
LEMMA AllTallied ==
  ASSUME TypeOK, PoolInv, ArgsKept, RowsAccounted, AwaitReturn
  PROVE  Sum(row_tally, Needed) = request.height
<1> USE Basics, Numbers
<1>1. pc[0] = "await" /\ AllReported
  BY DEF AwaitReturn, At
<1>2. pc[0] \in FrameLabels /\ pc[0] \in AwaitLabels
  BY <1>1 DEF FrameLabels, AwaitLabels
<1>3. Draining /\ Spawned /\ Painting
  BY DEF PoolInv
<1>4. next_row >= request.height
  BY <1>2, <1>3 DEF Painting
<1>5. Needed \subseteq Participants /\ IsFiniteSet(Needed) /\ 0 \in Needed
  BY NeededParticipants
<1>6. ASSUME NEW p, p \in Needed PROVE pc[p] \notin {"claim", "render", "tally"}
  <2>1. CASE p = 0
    BY <1>1, <2>1
  <2>2. CASE p # 0
    <3>1. request.thread_count \in 1..kMaxRenderThreads
      BY DEF ArgsKept
    <3>2. p \in 0..(request.thread_count - 1)
      BY <1>6 DEF Needed
    <3>3. p \in Workers /\ p < request.thread_count
      BY <2>2, <3>1, <3>2, BelowCount DEF Workers
    <3>4. request.thread_count = job.thread_count
      BY <1>2, <1>3 DEF Draining
    <3>5. Settled(p)
      BY <1>1, <1>2, <1>3, <3>3, <3>4, EnoughReports
    <3> QED  BY <3>5 DEF Settled, RestLabels
  <2> QED  BY <2>1, <2>2
<1>7. \A p \in Needed : Contribution[p] = row_tally[p] /\ Contribution[p] \in Int
  <2>1. \A p \in Participants : Contribution[p] \in Int
    BY ContributionType
  <2>2. \A p \in Participants :
          pc[p] \notin {"claim", "render", "tally"} => Contribution[p] = row_tally[p]
    BY DEF Contribution, At
  <2> QED  BY <1>5, <1>6, <2>1, <2>2
<1>8. Sum(row_tally, Needed) = Sum(Contribution, Needed)
  <2>1. \A f, g : (\A q \in Needed : f[q] \in Int /\ g[q] = f[q]) => Sum(g, Needed) = Sum(f, Needed)
    BY <1>5, SameSum
  <2> QED  BY <1>7, <2>1
<1>9. Sum(Contribution, Needed) = Min2(next_row, request.height)
  BY <1>2 DEF RowsAccounted
<1>10. Min2(next_row, request.height) = request.height
  BY <1>4 DEF Min2
<1> QED  BY <1>8, <1>9, <1>10

(***************************************************************************)
(* A frame rendered on the caller alone is tallied by it.                  *)
(***************************************************************************)
LEMMA AloneTallied ==
  ASSUME TypeOK, TypeOK', ArgsKept, ArgsKept',
         NEW h \in Heights, NEW n \in ThreadCounts, RenderAlone(h, n), started
  PROVE  Sum(row_tally', Needed') = request'.height
<1>1. /\ request' = [height |-> h, thread_count |-> 1]
      /\ row_tally' = [ZeroedTally(1) EXCEPT ![0] = h]
  BY DEF RenderAlone, BeginCall
<1>2. Needed' = {0}
  <2>1. Needed' = 0..(request'.thread_count - 1)
    BY DEF Needed
  <2> QED  BY <1>1, <2>1
<1>3. 0 \in Participants /\ h \in Int
  BY PoolAssumption DEF Participants
<1> DEFINE zeros == [p \in {0} |-> 0]
           alone == [p \in {0} |-> h]
<1>4. IsFiniteSet({0}) /\ 0 \in {0}
  BY FS_Singleton
<1>5. Sum(zeros, {0}) = 0
  BY <1>4, SumOfZeros
<1>6. row_tally'[0] = h
  BY <1>1, <1>3 DEF ZeroedTally
<1> DEFINE tally == row_tally'
<1>7. /\ \A t \in {0} : zeros[t] \in Int /\ tally[t] \in Int
      /\ \A t \in {0} \ {0} : tally[t] = zeros[t]
  BY <1>3, <1>6
<1>8. \A f, g : (\A t \in {0} : f[t] \in Int /\ g[t] \in Int) => Sum(g, {0}) = Sum(f, {0}) - f[0] + g[0]
  BY <1>4, SumMovesAtPoint
<1>9. zeros[0] = 0 /\ tally[0] = h
  BY <1>6
<1> HIDE DEF zeros, tally
<1>10. Sum(tally, {0}) = Sum(zeros, {0}) - zeros[0] + tally[0]
  BY <1>7, <1>8
<1>11. Sum(tally, {0}) = h
  BY <1>3, <1>5, <1>9, <1>10
<1> QED  BY <1>1, <1>2, <1>11 DEF tally

LEMMA TalliesStep ==
  ASSUME TypeOK, TypeOK', PoolInv, ArgsKept, ArgsKept', RowsAccounted, TalliesSumToHeight,
         [Next]_vars
  PROVE  TalliesSumToHeight'
<1> USE Basics, Numbers DEF sharedVars, callerVars, drainVars, At, Goto
<1>q. Quiet
  BY DEF PoolInv
<1>a. /\ QuietLabels = {"idle", "stop_lock", "stop_bump", "lock", "store"}
      /\ DrainLabels = {"copy", "claim", "render", "tally"}
      /\ AwaitLabels = {"await", "dozing", "asleep"}
  BY DEF QuietLabels, PublishLabels, DrainLabels, AwaitLabels
<1>r. ReportedRows = Sum(row_tally, Needed) /\ ReportedRows' = Sum(row_tally', Needed')
  <2>1. ReportedRows' = Sum(row_tally', 0..(last_thread_count' - 1))
    BY DEF ReportedRows
  <2>2. Needed' = 0..(last_thread_count' - 1)
    BY DEF ArgsKept, Needed
  <2> QED  BY <2>1, <2>2, NeededParticipants
<1>s. ASSUME request' = request /\ row_tally' = row_tally
      PROVE  ReportedRows' = ReportedRows
  <2>1. Needed' = Needed
    BY <1>s DEF Needed
  <2> QED  BY <1>s, <1>r, <2>1
<1> DEFINE Same == /\ pc[0] = "idle" /\ started' = started /\ generation' = generation
                   /\ request' = request /\ row_tally' = row_tally
<1>0. ASSUME pc'[0] = "idle" => Same \/ ~started' \/ generation' = 0
      PROVE  TalliesSumToHeight'
  <2> SUFFICES ASSUME pc'[0] = "idle", started', generation' > 0
               PROVE  ReportedRows' = request'.height
    BY DEF TalliesSumToHeight
  <2>0. generation' # 0
    OBVIOUS
  <2>1. Same
    BY <1>0, <2>0, Zenon
  <2>2. ReportedRows = request.height
    BY <2>1 DEF TalliesSumToHeight
  <2> QED  BY <1>s, <2>1, <2>2
<1>1. ASSUME NEW m \in StartCounts, Start(m)
      PROVE  TalliesSumToHeight'
  BY <1>0, <1>1 DEF Start
<1>2. ASSUME NEW h \in Heights, NEW n \in ThreadCounts, RenderAlone(h, n)
      PROVE  TalliesSumToHeight'
  <2>1. started' = started
    BY <1>2 DEF RenderAlone
  <2>2. CASE started
    <3>1. Sum(row_tally', Needed') = request'.height
      BY <1>2, <2>2, AloneTallied
    <3> QED  BY <1>r, <3>1 DEF TalliesSumToHeight
  <2> QED  BY <1>0, <2>1, <2>2
<1>3. ASSUME NEW h \in Heights, NEW n \in ThreadCounts, RenderShared(h, n)
      PROVE  TalliesSumToHeight'
  BY <1>0, <1>3 DEF RenderShared, BeginCall
<1>4. CASE PublishLock \/ (\E s \in Stores : PublishStore(s)) \/ PublishBump
  BY <1>0, <1>4 DEF PublishLock, PublishStore, PublishBump
<1>5. CASE PublishWake \/ StopCall \/ StopFlag \/ StopBump \/ StopWake
  <2>1. pc'[0] # "idle"
    BY <1>5, Wakes DEF PublishWake, StopCall, StopFlag, StopBump, StopWake
  <2> QED  BY <1>0, <2>1
<1>6. CASE AwaitReturn
  <2>1. request' = request /\ row_tally' = row_tally
    BY <1>6 DEF AwaitReturn
  <2> QED  BY <1>6, <1>r, <1>s, <2>1, AllTallied DEF TalliesSumToHeight
<1>7. CASE CallerWaitStep
  BY <1>0, <1>7, <1>a, CallerWaits
<1>8. CASE StopJoin
  BY <1>0, <1>8 DEF StopJoin
<1>9. ASSUME NEW p \in Participants,
             DrainCopy(p) \/ DrainClaim(p) \/ DrainRender(p) \/ DrainTally(p)
      PROVE  TalliesSumToHeight'
  <2>1. pc[p] \in DrainLabels /\ pc'[p] # "idle" /\ Elsewhere(p)
    BY <1>9, <1>a DEF DrainCopy, DrainClaim, DrainRender, DrainTally, Elsewhere
  <2>2. pc'[0] # "idle"
    BY <1>q, <1>a, <2>1 DEF Quiet, Elsewhere
  <2> QED  BY <1>0, <2>2
<1>10. ASSUME NEW w \in Workers,
              RestStep(w) \/ WorkerEnter(w) \/ Reload(w) \/ Admit(w) \/ Report(w) \/ NotifyDone(w)
       PROVE  TalliesSumToHeight'
  <2>1. /\ UNCHANGED <<started, generation, request, row_tally>>
        /\ pc'[0] = pc[0] \/ pc'[0] \in AwaitLabels
    BY <1>10, RestMoves, Notifies
       DEF SameData, Elsewhere, WorkerEnter, Reload, Admit, Report
  <2> QED  BY <1>0, <1>a, <2>1
<1>11. CASE UNCHANGED vars
  BY <1>0, <1>11 DEF vars
<1> QED
  BY NextCases, <1>1, <1>2, <1>3, <1>4, <1>5, <1>6, <1>7, <1>8, <1>9, <1>10, <1>11

(***************************************************************************)
(* "Every row must be claimed exactly once: the tallies have to sum to     *)
(* height" (src/tests/verify_kernels.cpp:689): after a frame shared since  *)
(* Start, for any number of threads and rows, whatever the interleaving.   *)
(***************************************************************************)
THEOREM TalliesAlwaysSum ==
  ASSUME GrowthPaced
  PROVE  Spec => []TalliesSumToHeight
<1>1. Init => TallyInv
  <2> SUFFICES ASSUME Init PROVE TallyInv
    OBVIOUS
  <2>1. pc[0] = "idle" /\ generation = 0 /\ ArgsKept
    BY PoolAssumption DEF Init, Participants, ArgsKept
  <2> QED
    BY <2>1 DEF TallyInv, NothingTallied, RowsAccounted, TalliesSumToHeight,
       PublishLabels, FrameLabels, DrainLabels, AwaitLabels
<1>2. TypeOK /\ TypeOK' /\ PoolInv /\ TallyInv /\ [Next]_vars => TallyInv'
  <2> SUFFICES ASSUME TypeOK, TypeOK', PoolInv, TallyInv, [Next]_vars PROVE TallyInv'
    OBVIOUS
  <2>1. ArgsKept'
    BY ArgsStep DEF TallyInv
  <2>2. NothingTallied'
    BY NothingTalliedStep DEF TallyInv
  <2>3. RowsAccounted'
    BY RowsAccountedStep DEF TallyInv
  <2>4. TalliesSumToHeight'
    BY <2>1, TalliesStep DEF TallyInv
  <2> QED  BY <2>1, <2>2, <2>3, <2>4 DEF TallyInv
<1>3. TallyInv => TalliesSumToHeight
  BY DEF TallyInv
<1> QED  BY <1>1, <1>2, <1>3, PoolInvariant, TypeCorrect, PTL DEF Spec
=============================================================================
