--------------------------- MODULE RenderThreadPool ---------------------------
(***************************************************************************)
(* The persistent worker pool that renders one frame on several cores      *)
(* (src/src/thread_pool.{hpp,cpp}).                                        *)
(*                                                                         *)
(* Participant 0 is the thread that calls Start, RenderFrame and Stop;     *)
(* participant w > 0 is the worker thread with worker_index w - 1.  Every  *)
(* atomic load, atomic store and read-modify-write that another thread can *)
(* observe is a step of its own, and so are taking the mutex, sleeping on  *)
(* a condition variable and each store of the publication of a job, which  *)
(* may become visible in any order before the release store of             *)
(* `generation`.  A critical section nobody can observe half-way is one    *)
(* step that needs the mutex to be free.  An operator named after another  *)
(* one and a slip (PublishBumpEarly, ReportUnlocked ...) is that slip: the *)
(* specification does not use it, it shows what the properties catch.      *)
(*                                                                         *)
(* The kernel, the output buffer and the parameters of a call are one      *)
(* value, the number of the call: `painted[y]` is the call whose kernel    *)
(* last wrote row y.                                                       *)
(***************************************************************************)
EXTENDS Integers, FiniteSets, FiniteSetsExt

CONSTANTS
  kMaxRenderThreads, \* the size of threads_ and row_tally_ (64 in the code)
  StartCounts,       \* the arguments Start is called with
  ThreadCounts,      \* the thread_count arguments of RenderFrame
  Heights,           \* the params->height of the calls
  MaxHeight,         \* the number of rows of the output buffer
  MaxFrames,         \* bound: calls of RenderFrame
  MaxStarts,         \* bound: calls of Start
  StartPaced,        \* these two restrict the caller, see MayPublish; the
  GrowthPaced        \*   code imposes neither

ASSUME PoolAssumption ==
  /\ kMaxRenderThreads \in Nat \ {0}
  /\ StartCounts \subseteq Int
  /\ ThreadCounts \subseteq Int
  /\ MaxHeight \in Nat
  /\ Heights \subseteq 0..MaxHeight
  /\ MaxFrames \in Nat
  /\ MaxStarts \in Nat
  /\ StartPaced \in BOOLEAN
  /\ GrowthPaced \in BOOLEAN

VARIABLES
  job,               \* the published job: [frame, height, thread_count]
  next_row,          \* the next row nobody has claimed
  workers_done,      \* the reports of workers for the current job
  generation,        \* the generation counter
  stop,              \* the stop flag
  row_tally,         \* rows each participant reports to have rendered
  worker_count,      \* the number of worker threads that exist
  started,
  last_thread_count,
  mutex,             \* the participant holding mutex_, or Nobody
  pc,                \* where each participant is
  seen,              \* the generation a worker last acted on
  work,              \* DrainRows' local copy of the job: [frame, height]
  row,               \* the row a participant is rendering
  rows_done,         \* DrainRows' local count
  unstored,          \* the stores of the publication not yet visible
  request,           \* the clamped arguments of the current RenderFrame
  painted,           \* history: the call that last wrote each row
  frame,             \* history: the number of RenderFrame calls
  starts             \* history: the number of Start calls

sharedVars == <<job, next_row, workers_done, generation, stop>>
callerVars == <<worker_count, started, last_thread_count, unstored, request,
                frame, starts>>
drainVars  == <<row_tally, work, row, rows_done, painted>>
vars       == <<sharedVars, callerVars, drainVars, mutex, pc, seen>>

Participants == 0..(kMaxRenderThreads - 1)
Workers      == Participants \ {0}
Rows         == 0..(MaxHeight - 1)
Nobody       == -1

Max2(a, b) == IF a > b THEN a ELSE b
Min2(a, b) == IF a < b THEN a ELSE b
Clamp(n, low, high) == Min2(Max2(n, low), high)

Goto(p, label) == pc' = [pc EXCEPT ![p] = label]
At(p, label)   == pc[p] = label

-----------------------------------------------------------------------------
(***************************************************************************)
(* Where a thread can be.  A worker at rest is spinning on or parked on    *)
(* the generation counter; "dozing" is between a false predicate and the   *)
(* sleep, with the mutex held.                                             *)
(***************************************************************************)
RestLabels   == {"spin", "compare", "park", "dozing", "asleep"}
DrainLabels  == {"copy", "claim", "render", "tally"}
WorkerLabels == {"exited", "load", "reload", "admit", "report", "notify"}
                  \cup RestLabels \cup DrainLabels

PublishLabels == {"lock", "store"}
AwaitLabels   == {"await", "dozing", "asleep"}
FrameLabels   == {"wake"} \cup DrainLabels \cup AwaitLabels
StopLabels    == {"stop_bump", "stop_wake", "join"}
CallerLabels  == {"idle", "stop_lock"} \cup PublishLabels \cup FrameLabels
                   \cup StopLabels

InCall == pc[0] \in PublishLabels \cup FrameLabels

(***************************************************************************)
(* A worker is settled once it has dealt with the current generation and   *)
(* is on its way back to the wait for the next one.                        *)
(***************************************************************************)
Settled(w) == pc[w] \in RestLabels \cup {"notify"} /\ seen[w] = generation

(***************************************************************************)
(* The environment.  The code lets RenderFrame be called at any time.  A   *)
(* caller paced at the start waits until every spawned worker has entered  *)
(* its loop; a caller paced in growth asks for more threads than the last  *)
(* published job only when no worker is still looking at that job.         *)
(***************************************************************************)
Calm(w) == Settled(w) \/ At(w, "load")

MayPublish(n) ==
  /\ StartPaced => \A w \in Workers : ~At(w, "load")
  /\ GrowthPaced => n <= job.thread_count \/ \A w \in 1..worker_count : Calm(w)

-----------------------------------------------------------------------------
Init ==
  /\ job = [frame |-> 0, height |-> 0, thread_count |-> 1]
  /\ next_row = 0
  /\ workers_done = 0
  /\ generation = 0
  /\ stop = FALSE
  /\ row_tally = [p \in Participants |-> 0]
  /\ worker_count = 0
  /\ started = FALSE
  /\ last_thread_count = 1
  /\ mutex = Nobody
  /\ pc = [p \in Participants |-> IF p = 0 THEN "idle" ELSE "exited"]
  /\ seen = [p \in Participants |-> 0]
  /\ work = [p \in Participants |-> [frame |-> 0, height |-> 0]]
  /\ row = [p \in Participants |-> 0]
  /\ rows_done = [p \in Participants |-> 0]
  /\ unstored = {}
  /\ request = [height |-> 0, thread_count |-> 1]
  /\ painted = [y \in Rows |-> 0]
  /\ frame = 0
  /\ starts = 0

(***************************************************************************)
(* Start: nothing runs yet, so the spawning loop is one step.              *)
(***************************************************************************)
Start(max_thread_count) ==
  LET count == Clamp(max_thread_count, 1, kMaxRenderThreads) - 1 IN
  /\ At(0, "idle")
  /\ ~started
  /\ starts < MaxStarts
  /\ worker_count' = count
  /\ stop' = FALSE
  /\ generation' = 0
  /\ started' = TRUE
  /\ starts' = starts + 1
  /\ pc' = [p \in Participants |-> IF p \in 1..count THEN "load" ELSE pc[p]]
  /\ UNCHANGED <<job, next_row, workers_done, last_thread_count, unstored,
                 request, frame, drainVars, mutex, seen>>

-----------------------------------------------------------------------------
(***************************************************************************)
(* RenderFrame.  A call with a null kernel, buffer or parameter block      *)
(* returns at once and changes nothing.                                    *)
(***************************************************************************)
Effective(n, height) ==
  IF height <= 1 THEN 1 ELSE Clamp(n, 1, worker_count + 1)

ZeroedTally(n) == [p \in Participants |-> IF p < n THEN 0 ELSE row_tally[p]]

BeginCall(height, n) ==
  /\ At(0, "idle")
  /\ frame < MaxFrames
  /\ frame' = frame + 1
  /\ request' = [height |-> height, thread_count |-> Effective(n, height)]
  /\ last_thread_count' = Effective(n, height)

(***************************************************************************)
(* The fast path: one direct call of the kernel for the whole frame.       *)
(***************************************************************************)
RenderAlone(height, n) ==
  /\ BeginCall(height, n)
  /\ Effective(n, height) = 1 \/ ~started
  /\ painted' = [y \in Rows |-> IF y < height THEN frame + 1 ELSE painted[y]]
  /\ row_tally' = [ZeroedTally(Effective(n, height)) EXCEPT ![0] = height]
  /\ UNCHANGED <<sharedVars, worker_count, started, unstored, starts, work,
                 row, rows_done, mutex, pc, seen>>

RenderShared(height, n) ==
  /\ BeginCall(height, n)
  /\ Effective(n, height) # 1 /\ started
  /\ MayPublish(Effective(n, height))
  /\ row_tally' = ZeroedTally(Effective(n, height))
  /\ Goto(0, "lock")
  /\ UNCHANGED <<sharedVars, worker_count, started, unstored, starts, work,
                 row, rows_done, painted, mutex, seen>>

(***************************************************************************)
(* Publication: the stores to the job, next_row and workers_done are plain *)
(* or relaxed, so they are seen in any order, but never after the release  *)
(* increment of generation that follows them.                              *)
(***************************************************************************)
Stores == {"call", "height", "thread_count", "next_row", "workers_done"}

PublishLock ==
  /\ At(0, "lock")
  /\ mutex = Nobody
  /\ mutex' = 0
  /\ unstored' = Stores
  /\ Goto(0, "store")
  /\ UNCHANGED <<sharedVars, worker_count, started, last_thread_count,
                 request, frame, starts, drainVars, seen>>

StoreJob(s) ==
  /\ s \in {"call", "height", "thread_count"}
  /\ job' = CASE s = "call"         -> [job EXCEPT !.frame = frame]
              [] s = "height"       -> [job EXCEPT !.height = request.height]
              [] s = "thread_count" ->
                   [job EXCEPT !.thread_count = request.thread_count]
  /\ UNCHANGED <<next_row, workers_done>>

StoreCounter(s) ==
  \/ s = "next_row" /\ next_row' = 0 /\ UNCHANGED <<job, workers_done>>
  \/ s = "workers_done" /\ workers_done' = 0 /\ UNCHANGED <<job, next_row>>

PublishStore(s) ==
  /\ At(0, "store")
  /\ s \in unstored
  /\ unstored' = unstored \ {s}
  /\ StoreJob(s) \/ StoreCounter(s)
  /\ UNCHANGED <<generation, stop, worker_count, started, last_thread_count,
                 request, frame, starts, drainVars, mutex, pc, seen>>

PublishBumpEarly ==
  /\ At(0, "store")
  /\ generation' = generation + 1
  /\ mutex' = Nobody
  /\ Goto(0, "wake")
  /\ UNCHANGED <<job, next_row, workers_done, stop, callerVars, drainVars,
                 seen>>

PublishBump ==
  /\ At(0, "store")
  /\ unstored = {}
  /\ generation' = generation + 1
  /\ mutex' = Nobody
  /\ Goto(0, "wake")
  /\ UNCHANGED <<job, next_row, workers_done, stop, callerVars, drainVars,
                 seen>>

(***************************************************************************)
(* wake_cv_.notify_all: every worker that sleeps evaluates its predicate   *)
(* again.                                                                  *)
(***************************************************************************)
WakeAll(label) ==
  pc' = [p \in Participants |->
           IF p = 0 THEN label
           ELSE IF pc[p] = "asleep" THEN "park" ELSE pc[p]]

PublishWake ==
  /\ At(0, "wake")
  /\ WakeAll("copy")
  /\ UNCHANGED <<sharedVars, callerVars, drainVars, mutex, seen>>

-----------------------------------------------------------------------------
(***************************************************************************)
(* DrainRows, run by the caller and by every worker a frame needs.         *)
(***************************************************************************)
DrainCopyKeepsCount(p) ==
  /\ At(p, "copy")
  /\ work' = [work EXCEPT ![p] = [frame |-> job.frame, height |-> job.height]]
  /\ Goto(p, "claim")
  /\ UNCHANGED <<sharedVars, callerVars, row_tally, row, rows_done, painted,
                 mutex, seen>>

DrainCopy(p) ==
  /\ At(p, "copy")
  /\ work' = [work EXCEPT ![p] = [frame |-> job.frame, height |-> job.height]]
  /\ rows_done' = [rows_done EXCEPT ![p] = 0]
  /\ Goto(p, "claim")
  /\ UNCHANGED <<sharedVars, callerVars, row_tally, row, painted, mutex, seen>>

DrainClaim(p) ==
  /\ At(p, "claim")
  /\ next_row' = next_row + 1
  /\ IF next_row >= work[p].height
       THEN Goto(p, "tally") /\ UNCHANGED row
       ELSE Goto(p, "render") /\ row' = [row EXCEPT ![p] = next_row]
  /\ UNCHANGED <<job, workers_done, generation, stop, callerVars, row_tally,
                 work, rows_done, painted, mutex, seen>>

DrainRender(p) ==
  /\ At(p, "render")
  /\ painted' = [painted EXCEPT ![row[p]] = work[p].frame]
  /\ rows_done' = [rows_done EXCEPT ![p] = @ + 1]
  /\ Goto(p, "claim")
  /\ UNCHANGED <<sharedVars, callerVars, row_tally, work, row, mutex, seen>>

DrainTally(p) ==
  /\ At(p, "tally")
  /\ row_tally' = [row_tally EXCEPT ![p] = rows_done[p]]
  /\ Goto(p, IF p = 0 THEN "await" ELSE "report")
  /\ UNCHANGED <<sharedVars, callerVars, work, row, rows_done, painted, mutex,
                 seen>>

Drain(p) == DrainCopy(p) \/ DrainClaim(p) \/ DrainRender(p) \/ DrainTally(p)

-----------------------------------------------------------------------------
(***************************************************************************)
(* The end of RenderFrame: the caller waits on done_cv_ for the reports.   *)
(***************************************************************************)
AllButOneReported == workers_done >= request.thread_count - 2
AllReported == workers_done >= request.thread_count - 1

AwaitReturnAtOnce ==
  /\ At(0, "await")
  /\ mutex = Nobody
  /\ Goto(0, "idle")
  /\ UNCHANGED <<sharedVars, callerVars, drainVars, mutex, seen>>

AwaitReturn ==
  /\ At(0, "await")
  /\ mutex = Nobody
  /\ AllReported
  /\ Goto(0, "idle")
  /\ UNCHANGED <<sharedVars, callerVars, drainVars, mutex, seen>>

AwaitDoze ==
  /\ At(0, "await")
  /\ mutex = Nobody
  /\ ~AllReported
  /\ mutex' = 0
  /\ Goto(0, "dozing")
  /\ UNCHANGED <<sharedVars, callerVars, drainVars, seen>>

(***************************************************************************)
(* condition_variable::wait releases the mutex and sleeps in one step; it  *)
(* may also wake for no reason.  Both hold for the caller on done_cv_ and  *)
(* for a worker on wake_cv_.                                               *)
(***************************************************************************)
FallAsleep(p) ==
  /\ At(p, "dozing")
  /\ mutex' = Nobody
  /\ Goto(p, "asleep")
  /\ UNCHANGED <<sharedVars, callerVars, drainVars, seen>>

SpuriousWake(p) ==
  /\ At(p, "asleep")
  /\ Goto(p, IF p = 0 THEN "await" ELSE "park")
  /\ UNCHANGED <<sharedVars, callerVars, drainVars, mutex, seen>>

-----------------------------------------------------------------------------
(***************************************************************************)
(* WorkerLoop.                                                             *)
(***************************************************************************)
WorkerEnter(w) ==
  /\ At(w, "load")
  /\ seen' = [seen EXCEPT ![w] = generation]
  /\ Goto(w, "spin")
  /\ UNCHANGED <<sharedVars, callerVars, drainVars, mutex>>

SpinStop(w) ==
  /\ At(w, "spin")
  /\ Goto(w, IF stop THEN "exited" ELSE "compare")
  /\ UNCHANGED <<sharedVars, callerVars, drainVars, mutex, seen>>

(***************************************************************************)
(* An unchanged generation leads to the next iteration of the spin or, the *)
(* kSpinRelaxIterations-th time, to the park; the model counts no spins.   *)
(***************************************************************************)
SpinCompare(w) ==
  /\ At(w, "compare")
  /\ IF generation # seen[w]
       THEN Goto(w, "reload")
       ELSE \E next \in {"spin", "park"} : Goto(w, next)
  /\ UNCHANGED <<sharedVars, callerVars, drainVars, mutex, seen>>

(***************************************************************************)
(* The predicate of wake_cv_.wait and the stop check after it, evaluated   *)
(* with the mutex held.                                                    *)
(***************************************************************************)
ParkLeave(w) ==
  /\ At(w, "park")
  /\ mutex = Nobody
  /\ stop \/ generation # seen[w]
  /\ Goto(w, IF stop THEN "exited" ELSE "reload")
  /\ UNCHANGED <<sharedVars, callerVars, drainVars, mutex, seen>>

ParkDoze(w) ==
  /\ At(w, "park")
  /\ mutex = Nobody
  /\ ~stop /\ generation = seen[w]
  /\ mutex' = w
  /\ Goto(w, "dozing")
  /\ UNCHANGED <<sharedVars, callerVars, drainVars, seen>>

Reload(w) ==
  /\ At(w, "reload")
  /\ seen' = [seen EXCEPT ![w] = generation]
  /\ Goto(w, "admit")
  /\ UNCHANGED <<sharedVars, callerVars, drainVars, mutex>>

(***************************************************************************)
(* The idle check reads job_.thread_count without the mutex.               *)
(***************************************************************************)
AdmitOneMore(w) ==
  /\ At(w, "admit")
  /\ Goto(w, IF w > job.thread_count THEN "spin" ELSE "copy")
  /\ UNCHANGED <<sharedVars, callerVars, drainVars, mutex, seen>>

AdmitReportsIdle(w) ==
  /\ At(w, "admit")
  /\ Goto(w, IF w >= job.thread_count THEN "report" ELSE "copy")
  /\ UNCHANGED <<sharedVars, callerVars, drainVars, mutex, seen>>

Admit(w) ==
  /\ At(w, "admit")
  /\ Goto(w, IF w >= job.thread_count THEN "spin" ELSE "copy")
  /\ UNCHANGED <<sharedVars, callerVars, drainVars, mutex, seen>>

ReportUnlocked(w) ==
  /\ At(w, "report")
  /\ workers_done' = workers_done + 1
  /\ Goto(w, "notify")
  /\ UNCHANGED <<job, next_row, generation, stop, callerVars, drainVars,
                 mutex, seen>>

Report(w) ==
  /\ At(w, "report")
  /\ mutex = Nobody
  /\ workers_done' = workers_done + 1
  /\ Goto(w, "notify")
  /\ UNCHANGED <<job, next_row, generation, stop, callerVars, drainVars,
                 mutex, seen>>

NotifyNobody(w) ==
  /\ At(w, "notify")
  /\ Goto(w, "spin")
  /\ UNCHANGED <<sharedVars, callerVars, drainVars, mutex, seen>>

NotifyDone(w) ==
  /\ At(w, "notify")
  /\ pc' = [pc EXCEPT ![w] = "spin",
                      ![0] = IF pc[0] = "asleep" THEN "await" ELSE pc[0]]
  /\ UNCHANGED <<sharedVars, callerVars, drainVars, mutex, seen>>

-----------------------------------------------------------------------------
(***************************************************************************)
(* Stop, which the destructor calls too.                                   *)
(***************************************************************************)
StopCall ==
  /\ At(0, "idle")
  /\ started
  /\ Goto(0, "stop_lock")
  /\ UNCHANGED <<sharedVars, callerVars, drainVars, mutex, seen>>

StopFlag ==
  /\ At(0, "stop_lock")
  /\ mutex = Nobody
  /\ mutex' = 0
  /\ stop' = TRUE
  /\ Goto(0, "stop_bump")
  /\ UNCHANGED <<job, next_row, workers_done, generation, callerVars,
                 drainVars, seen>>

StopBump ==
  /\ At(0, "stop_bump")
  /\ generation' = generation + 1
  /\ mutex' = Nobody
  /\ Goto(0, "stop_wake")
  /\ UNCHANGED <<job, next_row, workers_done, stop, callerVars, drainVars,
                 seen>>

StopWakeNobody ==
  /\ At(0, "stop_wake")
  /\ Goto(0, "join")
  /\ UNCHANGED <<sharedVars, callerVars, drainVars, mutex, seen>>

StopWake ==
  /\ At(0, "stop_wake")
  /\ WakeAll("join")
  /\ UNCHANGED <<sharedVars, callerVars, drainVars, mutex, seen>>

StopJoin ==
  /\ At(0, "join")
  /\ \A w \in 1..worker_count : At(w, "exited")
  /\ worker_count' = 0
  /\ started' = FALSE
  /\ Goto(0, "idle")
  /\ UNCHANGED <<sharedVars, last_thread_count, unstored, request, frame,
                 starts, drainVars, mutex, seen>>

-----------------------------------------------------------------------------
Publish == PublishLock \/ (\E s \in Stores : PublishStore(s)) \/ PublishBump
             \/ PublishWake
Await   == AwaitReturn \/ AwaitDoze
Stop    == StopFlag \/ StopBump \/ StopWake \/ StopJoin
WorkerLoop(w) ==
  WorkerEnter(w) \/ SpinStop(w) \/ SpinCompare(w) \/ ParkLeave(w)
    \/ ParkDoze(w) \/ Reload(w) \/ Admit(w) \/ Report(w) \/ NotifyDone(w)

RenderFrame ==
  \E height \in Heights, n \in ThreadCounts :
    RenderAlone(height, n) \/ RenderShared(height, n)

Next ==
  \/ \E m \in StartCounts : Start(m)
  \/ RenderFrame
  \/ StopCall
  \/ Publish \/ Await \/ Stop
  \/ \E p \in Participants : Drain(p) \/ FallAsleep(p) \/ SpuriousWake(p)
  \/ \E w \in Workers : WorkerLoop(w)

Spec == Init /\ [][Next]_vars

(***************************************************************************)
(* The scheduler runs every thread that can run, and a thread that waits   *)
(* for a mutex released again and again gets it.  Nothing obliges the      *)
(* application to call the pool, or a sleeper to wake without reason.      *)
(***************************************************************************)
CallerTakesMutex == PublishLock \/ Await \/ StopFlag
WorkerTakesMutex(w) == ParkLeave(w) \/ ParkDoze(w) \/ Report(w)

Fairness ==
  /\ WF_vars(Publish \/ Stop)
  /\ SF_vars(CallerTakesMutex)
  /\ \A p \in Participants : WF_vars(Drain(p) \/ FallAsleep(p))
  /\ \A w \in Workers : WF_vars(WorkerLoop(w)) /\ SF_vars(WorkerTakesMutex(w))

FairSpec == Spec /\ Fairness
-----------------------------------------------------------------------------
(***************************************************************************)
(* Types.  A counter has no upper bound of its own: generation grows with  *)
(* every frame, next_row by one for every participant that finds no row.   *)
(***************************************************************************)
DataTypeOK ==
  /\ job \in [frame : Nat, height : 0..MaxHeight, thread_count : Nat]
  /\ next_row \in Nat /\ workers_done \in Nat /\ generation \in Nat
  /\ stop \in BOOLEAN /\ started \in BOOLEAN
  /\ row_tally \in [Participants -> Nat]
  /\ worker_count \in Participants
  /\ last_thread_count \in Nat
  /\ mutex \in Participants \cup {Nobody}
  /\ seen \in [Participants -> Nat]
  /\ work \in [Participants -> [frame : Nat, height : 0..MaxHeight]]
  /\ row \in [Participants -> Nat]
  /\ rows_done \in [Participants -> Nat]
  /\ unstored \in SUBSET Stores
  /\ request \in [height : 0..MaxHeight, thread_count : Nat]
  /\ painted \in [Rows -> Nat]
  /\ frame \in Nat /\ starts \in Nat

LabelsOK ==
  /\ pc \in [Participants -> CallerLabels \cup WorkerLabels]
  /\ pc[0] \in CallerLabels
  /\ \A w \in Workers : pc[w] \in WorkerLabels

TypeOK ==
  /\ DataTypeOK
  /\ LabelsOK
  /\ \A p \in Participants : At(p, "render") => row[p] < work[p].height

(***************************************************************************)
(* When RenderFrame has returned, every row of the frame was written by    *)
(* that call ("Blocks until the whole frame is complete",                  *)
(* src/src/thread_pool.hpp:83), and stays so while Stop runs.              *)
(***************************************************************************)
FrameComplete ==
  ~InCall => \A y \in Rows : y < request.height => painted[y] = frame

(***************************************************************************)
(* No worker is inside a kernel unless RenderFrame is waiting for it: the  *)
(* buffer and the parameters, which live on the caller's stack, are not    *)
(* used after the return, and Stop, whose bump of the generation can send  *)
(* a worker through DrainRows once more, renders no row.                   *)
(***************************************************************************)
NoStraggler == ~InCall => \A w \in Workers : ~At(w, "render")

(***************************************************************************)
(* No two participants render the same row at the same time ("Row bands    *)
(* are disjoint", src/src/thread_pool.hpp:5).                              *)
(***************************************************************************)
RowsDisjoint ==
  \A p, q \in Participants :
    p # q /\ At(p, "render") /\ At(q, "render") => row[p] # row[q]

(***************************************************************************)
(* The job does not change while a participant is working from it          *)
(* ("stable for the duration of a generation", src/src/thread_pool.cpp:64).*)
(***************************************************************************)
JobStable ==
  [][job' # job => \A p \in Participants :
                     pc[p] \notin DrainLabels \cup {"report"}]_vars

(***************************************************************************)
(* While a frame is drained, workers_done counts every needed worker that  *)
(* has finished with this generation, once, and nobody else.               *)
(***************************************************************************)
Finished == {w \in Workers : w < job.thread_count /\ Settled(w)}

CountExact == pc[0] \in FrameLabels => workers_done = Cardinality(Finished)

(***************************************************************************)
(* "Every row must be claimed exactly once: the tallies have to sum to     *)
(* height" (src/tests/verify_kernels.cpp:689): between the first frame     *)
(* shared since Start and the next Stop, the tallies of the participants   *)
(* LastRowSpread looks at account for every row of the last frame.         *)
(***************************************************************************)
Sum(f, S) == MapThenSumSet(LAMBDA p : f[p], S)

ReportedRows == Sum(row_tally, 0..(last_thread_count - 1))

TalliesSumToHeight ==
  At(0, "idle") /\ started /\ generation > 0 => ReportedRows = request.height

(***************************************************************************)
(* Nobody sleeps through the event it waits for: the waker that has made a *)
(* predicate true still has its notification to send                       *)
(* (src/src/thread_pool.cpp:124, "so the waiting caller cannot be between  *)
(* evaluating its predicate and sleeping").                                *)
(***************************************************************************)
NoLostWakeup ==
  /\ pc[0] \in {"dozing", "asleep"} /\ AllReported =>
       \E w \in Workers : At(w, "notify")
  /\ \A w \in Workers :
       pc[w] \in {"dozing", "asleep"} /\ (stop \/ generation # seen[w]) =>
         pc[0] \in {"wake", "stop_bump", "stop_wake"}

(***************************************************************************)
(* RenderFrame returns, and Stop joins every worker and returns.           *)
(***************************************************************************)
CallReturns == InCall ~> ~InCall
StopReturns == pc[0] = "stop_lock" ~> (pc[0] = "idle" /\ ~started)

(***************************************************************************)
(* The pool implements the renderer it stands for.                         *)
(***************************************************************************)
Renderer == INSTANCE FrameRenderer
              WITH rendering <- InCall, height <- request.height
RendererSpec == Renderer!Spec
-----------------------------------------------------------------------------
(***************************************************************************)
(* The inductive invariant behind FrameComplete, NoStraggler, RowsDisjoint *)
(* and JobStable, for a caller paced in growth.  A worker is stale while   *)
(* the generation it acts on may not be the current one: it must be a      *)
(* worker that neither the published job nor the next one needs, because   *)
(* the idle check is all that keeps it out of the rows.                    *)
(***************************************************************************)
Stale(w) ==
  \/ pc[w] \in {"reload", "admit"}
  \/ pc[w] \in RestLabels \cup {"notify"} /\ seen[w] # generation

QuietLabels == {"idle", "stop_lock", "stop_bump"} \cup PublishLabels

Spawned ==
  /\ \A w \in Workers : w > worker_count \/ ~started => At(w, "exited")
  /\ InCall => started /\ request.thread_count >= 1
  /\ started /\ pc[0] \notin StopLabels => ~stop

Quiet ==
  pc[0] \in QuietLabels => \A w \in Workers :
    /\ pc[w] \notin DrainLabels \cup {"report"}
    /\ Stale(w) => /\ w >= job.thread_count
                   /\ pc[0] \in PublishLabels => w >= request.thread_count

Stored(s) ==
  /\ s = "call"         => job.frame = frame
  /\ s = "height"       => job.height = request.height
  /\ s = "thread_count" => job.thread_count = request.thread_count
  /\ s = "next_row"     => next_row = 0
  /\ s = "workers_done" => workers_done = 0

Publishing == At(0, "store") => \A s \in Stores \ unstored : Stored(s)

Draining ==
  pc[0] \in FrameLabels =>
    /\ job = [frame |-> frame, height |-> request.height,
              thread_count |-> request.thread_count]
    /\ \A w \in Workers :
         /\ pc[w] \in DrainLabels \cup {"report"} =>
              w < job.thread_count /\ seen[w] = generation
         /\ At(w, "admit") => w >= job.thread_count \/ seen[w] = generation
    /\ \A p \in Participants : pc[p] \in {"claim", "render", "tally"} =>
         work[p] = [frame |-> frame, height |-> request.height]
    /\ workers_done <= Cardinality(Finished)

Painting ==
  pc[0] \in FrameLabels =>
    /\ \A y \in Rows : y < request.height /\ y < next_row =>
         \/ painted[y] = frame
         \/ \E p \in Participants : At(p, "render") /\ row[p] = y
    /\ pc[0] \in {"tally"} \cup AwaitLabels => next_row >= request.height
    /\ \A p \in Participants : At(p, "render") => row[p] < next_row

Returned ==
  ~InCall =>
    /\ next_row >= job.height
    /\ \A w \in Workers : At(w, "claim") => next_row >= work[w].height

PoolInv ==
  /\ TypeOK
  /\ Spawned /\ Quiet /\ Publishing /\ Draining /\ Painting /\ Returned
  /\ FrameComplete /\ NoStraggler /\ RowsDisjoint
=============================================================================
