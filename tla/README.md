# Mandelbrot Benchmark: TLA+ models, checks and proofs

This directory specifies the Mandelbrot benchmark of this repository in TLA+.
The program renders the set with five interchangeable kernels on a persistent
pool of threads, measures every frame, and shows statistics that compare the
kernels. The interesting questions are two: does a frame that `RenderFrame`
reports as finished really contain what it should, however the threads
interleave; and does every number on the dashboard describe what its label
says, whatever the user did between measuring and showing it.

`tlc -config X.cfg M` runs a check, `tlapm M.tla` a proof; the modules use only
the standard and community modules. Paths below are relative to the repository
root (the C++ sources are in `src/src/`).

## 1. Inventory

| Component (source) | State | Operations | Correct when |
|---|---|---|---|
| **Render thread pool** (`thread_pool.{hpp,cpp}`) | the published job, `next_row_`, `workers_done_`, `generation_`, `stop_`, `row_tally_`, one mutex, two condition variables, one loop per worker | `Start`, `RenderFrame`, `Stop`, `WorkerLoop`, `DrainRows`, `LastRowSpread` | a returned call has written every row once, nobody writes afterwards, nobody sleeps for ever |
| **Latency profiler** (`profiler.hpp`) | a ring of samples, head, size, total | `Push`, `Reset`, `Compute` | `Compute` reads exactly the newest samples; its statistics are those of that window |
| **Benchmark sweep** (`main.cpp`, `BenchmarkSweep`) | phase, kernel, counts, targets, a profiler and statistics per kernel | `Configure`, `Start`, `Cancel`, `Step`, `progress` | the results are complete and of one sweep; progress stays in the bar; a sweep ends |
| **Application frame loop** (`main.cpp`, `App`) | view, kernel, palette, pause, the two rolling windows, the live rate, the scalar baseline, the last rendered signature | events, `RenderFractal`, the dashboard, the sweep's slice, `Present` | what is divided, compared or counted belongs together |
| **Kernels** (`kernels_*.cpp`, `asm/`) | registers of one batch | one call over a range of rows | bit for bit the scalar kernel's counts, in its rows and nowhere else |
| **Render target, palettes** (`render_target.{hpp,cpp}`) | iteration buffer, reference buffer, palette table and its key | `EnsurePaletteLut`, `Colourize`, `SumIterations`, `CompareBuffers` | picture and total are those of the displayed frame |
| **Verification** (`main.cpp`, `RunVerification`) | a row per kernel | one pass | a kernel that writes its pixels passes exactly when it agrees with the scalar one |
| **Registry, CPU features** (`kernel_registry.*`, `cpu_features.*`) | flags, descriptors, default kernel | `Detect`, `Build`, selection | exactly the kernels the machine can run are offered |
| **Allocation tracker** (`alloc_tracker.*`) | process-wide atomics, thread-local counters | `operator new`, `operator delete`, `AllocationScope` | no call missed; a scope reads its own thread |
| **View navigation** (`main.cpp`, `App`: `FractalRect`, `WindowToComplex`, `ZoomAt`, the mouse) | centre and span, resolution, window, cursor, drag | wheel, drag, resize, the drop-downs of resolution and place | the picture lies inside the window, undistorted; the point under the cursor stays there |
| **Performance grades** (`performance_grade.*`) | none | tier, colour and meter of a rate; `DescribeUtilisation` | verdict, scale and utilisation agree with each other and with the frame |
| **Hardware information** (`hardware_info.*`) | a snapshot, made once | native probe, hwinfo laid over it, defaults | every number was reported by somebody and is plausible; a preferred source that does not know a field leaves it alone |
| Timing (`timing.*`) | a cached granularity | `Now`, `ElapsedNanos` | not modelled |
| Dashboard drawing, presentation (`main.cpp`) | SDL and ImGui objects | drawing | only the state its controls change and the claims of the panel are modelled, in `App` and `Dashboard` |
| Self-test (`tests/verify_kernels.cpp`), build scripts | none | | not modelled; the assertions of the test are among the properties |

How they interact. `main` asks for the hardware snapshot, detects the processor's
features, builds the registry and starts the pool with a worker per physical
core. From then on the frame loop is one thread: it reads the controls, calls
`ThreadPool::RenderFrame` with a kernel function from the registry, sums and
colours the shared iteration buffer, pushes the frame's latency into a rolling
profiler, draws the dashboard, whose controls change what the next frame does
*in the middle* of this one, and gives the rest of its budget to the sweep,
which renders into the same buffer through the same pool. The pool's workers
call the kernel concurrently on different rows. `operator new` and `delete`
run on every thread.

What is hard:

- the hand-over of a job to workers that spin, park, arrive late or are not
  needed this time, with one check (`thread_pool.cpp:118`) outside the mutex;
- stopping and restarting the pool;
- state that outlives what it was computed from: the window, the iteration
  total, the live rate, the baseline, the results, the palette table;
- lanes of one SIMD batch that escape at different iterations;
- numbers outside a range: typed slider values, one-row images, tiny windows,
  coordinates that are not finite, sentinels in unsigned fields;
- the same quantity clamped, scaled or described at several places: thread
  counts, tiers, iteration limits.

`PROJECT.json` lists every hazard at its line with the properties that answer it.

## 2. Modules

| Module | Models | Composes / refines |
|---|---|---|
| `FrameRenderer` | abstract: what `RenderFrame` promises | |
| `RenderThreadPool` | the pool | implements `FrameRenderer` (`RendererSpec`) |
| `RenderThreadPoolProofs` | ten theorems | |
| `SampleWindow` | abstract: a window of the newest samples | used by the next three |
| `LatencyProfiler` | the ring, with the statistics of what it holds | implements `SampleWindow` (`WindowSpec`) |
| `LatencyStats` | `Compute` on exact fractions, and its statistics by their definitions | |
| `LatencyProfilerProofs` | five theorems | |
| `BenchmarkSweep`, `MCBenchmarkSweep` | the sweep | its profilers are `SampleWindow`s |
| `BenchmarkSweepProofs` | five theorems | |
| `App` | the frame loop | instances of `BenchmarkSweep` and `SampleWindow` |
| `AppProofs` | five theorems | implements `BenchmarkSweep` (`UsesTheSweep`) |
| `EscapeKernel`, `MCEscapeKernel` | all five kernels | |
| `EscapeKernelProofs` | three theorems | |
| `RenderTarget`, `MCRenderTarget` | buffers, palette table, verification | |
| `RenderTargetProofs` | five theorems | |
| `KernelRegistry` | detection, registry, selection | |
| `HardwareInfo` | the hardware snapshot | |
| `ViewNavigation` | letterbox, zoom, drag | |
| `PerformanceGrade` | tiers, scale, utilisation | |
| `Dashboard`, `MCDashboard` | from `main` to the panel | the four above |
| `DashboardProofs` | ten theorems | |
| `AllocTracker` | the tripwire | |
| `AllocTrackerProofs` | two theorems | |

A definition named after another one and a slip (`PublishBumpEarly`,
`AdvanceAnyKernel`, ...) is a plausible bug of that definition. No specification
uses these; each shows that one property would notice.

### Render thread pool

Participant 0 is the caller, participant `w` the worker with index `w - 1`. A
step is one access other threads can observe: an atomic load or store, taking
the mutex, going to sleep, and each store of the publication, which may become
visible in any order before the release increment of `generation` that follows
them. `pc` names the place in the code: `lock`, `store`, `wake`, then the
labels of `DrainRows` (`copy`, `claim`, `render`, `tally`), then `await`,
`dozing` (predicate false, mutex still held) and `asleep`; a worker has `load`,
`spin`, `compare`, `park`, `reload`, `admit`, `report`, `notify`. Condition
variables may wake without reason. A kernel call on one row is one step that
writes the number of the call into `painted`; function, buffer and parameters
are that number. The 4096 relax iterations are not counted: an unchanged
generation may lead to another spin or to the park.

The code lets the application call `RenderFrame` at any time. Two constants
restrict it. `StartPaced`: no frame is shared before every new worker has read
its first generation. `GrowthPaced`: a frame asks for more threads than the last
published job only when no worker still looks at that job. Nothing in the
program enforces either; the application often meets them because frames are
long, but the thread slider moves up, and a sweep keeps the two threads it was
started with while the frames between its slices are displayed on more. (A
request for one thread takes the serial path and publishes no job: it leaves
the last published job's count as it was.) The runs with `FALSE` show what then
happens.

### Latency profiler and statistics

`LatencyProfiler` is the ring with its head and size. `LatencyStats` is
`Compute`: sort, trim, interpolated percentiles, mean and variance. A sample's
place in the sorted copy is its rank, the number of samples that do not come
after it, so sorting needs no algorithm. Fractions are percent, a percentile is in hundredths of a sample, a mean is a pair of a
sum and a count and a deviation is multiplied out, so all values are exact
integers. Square roots and rounding are left out.

### Sweep and frame loop

In `BenchmarkSweep` a sample is *what was measured* (kernel, job, sweep and the
number of the frame) rather than a time, and a statistics block is the window it
was computed from. `Step` is `StepBegin`, any number of frames, `StepReturn`,
because the budget may be spent at any reading of the clock. The test for a
kernel past the registry inside `Step` is left out: `RunnableKernel` (proved)
shows that it never holds.

In `App` a workload stands for all that `CurrentWorkload` reads, a sample for
the workload and kernel it was measured on, a rate for what it was computed
from. `pc` is the place in the frame: `events`, `render`, `ui` (the window's
statistics and the baseline), `controls` (at most one widget), `panel` (the
comparison), `step` (the sweep's slice) and `present`.

### Kernels

One module for the scalar, AVX2 and NEON kernels, in intrinsics and assembly:
they differ in lanes, in how the pack narrows a count (saturating or
truncating) and in what their comparison says of NaN. An orbit is abstracted to
the iteration at which it is first outside the radius and how it leaves.
That an escaped lane stays outside is what the kernels rely on; the comment of
the module says why it holds. Floating point rounding is not modelled.

### Render target and verification

The buffers with their three users. A view gives each pixel its escape
iteration, a colour is `Black` or the palette, index and limit the gradient is
sampled at. Each kernel but the scalar one may count, miscount or skip each
pixel (`Faults`, chosen at the start); a skipped pixel keeps what the buffer held.

`RunVerification` is one handler in several steps, one per kernel of the
registry (`VerifyKernel`), because its kernels run one after the other into the
same iteration buffer, which nobody clears; `checking` holds the kernels still
to come, and no other action is enabled until it is empty. A step runs the
kernel over what the last one left and compares the buffer, not the kernel's
output.

### From main to the panel

`Dashboard` puts four parts into one behaviour: the snapshot is taken, the
features are detected and the registry is built, `App::Init` starts the pool
with the snapshot's cores, and then frames alternate with the controls of
kernel, threads and view. What the panel claims of the machine can so be held
against what the last frame did.

In `KernelRegistry` a machine is what `CPUID` may report and what its system
enables; each read of a leaf or of `XCR0` is a step. An instruction without
support sets `faulted`.

`HardwareInfo` keeps what the native probe parses (the keys of `/proc/cpuinfo`
in the order of its lines, the cache entries with their suffixes, the `sysctl`
keys of macOS), the report of hwinfo and the order in which one is laid over
the other. hwinfo itself is a library outside this repository: it may report
any cores, with -1 for what it does not know. The model reads the first
package, as the code does.

`ViewNavigation` measures the plane in a unit in which every division of the
instance is exact; `CursorKeepsPoint` would notice one that is not. A window's
point is a pixel (the program does not ask for a high-density window), and the
cursor's position is that of the event or of the moment it is handled.

`PerformanceGrade` is made of functions only; rates are whole MIter/s and the
percentage and the projection are exact fractions.

### Allocation tracker

Each update of a counter in `operator new` and `delete` is a step of its
thread. A scope opens and closes on the render thread between its calls.

## 3. Runs

All passing runs check deadlock, except where the system may stop: the pool at
rest after its last call, the application after quitting, a finished kernel
call and the allocation bound.

| Run | Question | Bounds and why they are enough |
|---|---|---|
| `PoolPaced` | Is every returned frame whole, once, by this call, for a paced caller; does the pool implement `FrameRenderer`; is `PoolInv` invariant? | up to 3 participants (one always needed, one sometimes), 3 frames so that a worker can be a whole job behind, 2 starts of different sizes so that a second life inherits what the first left, thread counts below 1, inside and above the pool, heights of one row and two |
| `PoolLiveness` | Does every call return, does `Stop` join everyone, is no wake lost? | as `PoolPaced` with 2 frames and 1 start |
| `PoolGrowing` (violation) | Frame completeness without `GrowthPaced` | finding 1 |
| `PoolStartup` (violation) | Return of the call without `StartPaced` | finding 2 |
| `Profiler` | Does the ring implement the window, and do the statistics agree with definitions by counting? | 5 cells, 8 pushes: filled, wrapped and reset at every head; trims of 0, 5, 40 and 100 per cent |
| `Sweep` | Are the results complete and of one sweep; does the progress stay in its bar; does a sweep end? | three kernels, the middle one not available; three sweeps; targets below, inside and above their ranges |
| `App` | Is everything on the dashboard of one workload and kernel; is a requested step rendered? | two workloads, two palettes, two kernels and one that is not available, windows of two, two sweeps; every control at every frame |
| `Kernels` | Do all kernels write the scalar counts, in their rows only? | batches of 1, 2 and 4 lanes, two rows of 3 pixels padded to 4, caps 0 to 2, *every* assignment of escape iterations and every range of rows. A count has two bits and the largest cap of iterations is 2, below the 3 a count can hold, as the cap of 65535 is never above what 16 bits hold: narrowing is exercised up to the cap and not beyond, where the packs would differ |
| `KernelsNan` (violation) | The same with coordinates that are not finite | finding 3 |
| `Target` | Are picture, total and table of what they claim; what is a verdict worth when the kernels share a buffer? | two pixels, resolutions 1 and 2, limits -1, 1 and 4 around the cap of 3 (one view: three limits give it three different buffers); four kernels, one not available: 0 is scalar, 2 does anything with each pixel, 3 is right or writes nothing, so a skipped pixel is met after the scalar kernel, after a right one and after a wrong one. Palettes are symmetric |
| `Alloc` | Is no call missed, does a scope read its own thread, is the display the last sampled scope's? | three threads with two calls each |
| `Dashboard` | No illegal instruction; exactly the runnable kernels offered, the others with a true reason; is the snapshot sourced and the panel true; does the mouse keep its point? | The four inputs hardly influence each other, so they vary in turn (`setting`): every machine; reports of Linux, macOS and an unknown system with every kind of hwinfo report; rates on, just below and just above every tier's bound with thread counts below, inside and above the pool of three; windows wider and narrower than the picture, of one pixel and of none, with four moves of the mouse or the view. `MinSpan` and `MaxSpan` bound the zoom; the finer resolution at the deeper place is below the precision limit there |

A type invariant is the first part of one invariant of every passing run:
`PoolInv`, `RingInv`, `SweepInRange`, `WindowIsHomogeneous`, `KernelInv`,
`TableIsWhole`, `CountersAgree`, and for `Dashboard` `OffersWhatRuns` (the
registry) and `PanelMatchesPool` (the rest). `PoolLiveness` has the instances of
`PoolPaced`.

### Properties worth reading first

- `FrameComplete`, `JobStable`, `CountExact` and `NoLostWakeup` of the pool, and
  `NoStraggler` and `RowsDisjoint`, which `PoolInv` contains. `CountExact` says that `workers_done` counts every
  needed worker once and nobody else: it is what finding 1 breaks.
- `StatsAreTheSweeps`: all statistics are of the last sweep, its job and its
  kernels, with no warm-up frame and no sample missing.
- `WindowIsHomogeneous`, `DashboardIsCurrent` and `SettledComparison` of the
  frame loop. `SettledComparison` is what holds of the comparison; section 6 says
  what does not.
- `KernelInv`: a lane's count lags behind the loop exactly when its pixel has
  escaped.
- `PictureIsOfFrame`: the buffers are shared, yet picture and total are the
  displayed frame's, and the set, and nothing else, is black (`TheSetIsBlack`).
- `VerdictIsTruth`: what a verdict says. It is the truth about a kernel that
  writes every visible pixel. A skipped pixel is judged by the kernel that wrote
  it last in the same pass, so the verdict says nothing of the kernel there
  (section 6).
- `PanelMatchesPool`: three places clamp the number of threads, and the panel's
  words hold of the frame behind the number.
- `SnapshotIsSourced`: whatever subset of the fields and cores each source knows,
  in whatever order, a number on display is the greatest believable one of the
  preferred source that has any.
- `CursorKeepsPoint`: through letterboxing, resizing and both directions of
  zooming.

## 4. Fairness

- Pool: weak fairness for the caller's and every worker's steps (the system
  runs every thread that can run) and strong fairness for taking the mutex
  (it is released again and again, and a thread waiting for it gets it in the
  end). None for calls of the application or for spurious wakes.
- Sweep: `Step` is called in every displayed frame and returns (weak); its
  frames are strongly fair: the budget may be spent at the first reading of
  the clock in one frame, but not in every frame from some point on.
- App: the event queue is drained and each phase is left (weak). Nothing is
  assumed of the user, who may quit.
- Kernel: the call runs.

## 5. What is proved

TLAPS checks these for every value of the constants, under the assumptions
named in the modules (`PoolAssumption`, `SweepAssumption`, ...), which TLC
evaluates on the instances. They are types and bounds of the configuration, and
three facts about the surroundings: a process has finitely many threads
(`TrackerAssumption`), samples and trim fractions are natural numbers
(`ProfilerAssumption`), and what the operating system and hwinfo report has the
types of its fields, with numbers that are not negative and at least one
processor on the platforms the code supports (`ReportTypes` in
`DashboardAssumption`).

Every invariant and action property of the passing runs is stated by a theorem.
Some theorems have a hypothesis the code does not establish: the pacing of the
pool (`GrowthPaced`, `StartPaced`; findings 1 and 2 show that it is needed),
`FiniteImage` of the kernels (finding 3) and the exact division of a drag.

*Sums.* The library's induction theorems take a predicate as an operator, which
the installed provers cannot instantiate. The proofs use sets instead: a
nonempty set of naturals has a least element (well-founded order on `Nat`), so a
set of naturals that contains 0 and with each number the next is `Nat`
(`EveryNatural`), and a set of subsets of a finite set that contains `{}` and
each set it contains without the element picked contains all of them
(`EverySubset`). On these rest the existence and the laws of the recursive sum
over a finite set (`SumAdds`, `SumSplits`, `SumGrows`, ...), for the allocation
counters, the tallies of the pool, the iteration total and the statistics.

**Pool** (`RenderThreadPoolProofs`). `TypeCorrect` needs no pacing. The others
assume `GrowthPaced`, because without it they are false (finding 1); they do not
need `StartPaced`, since a late worker delays a call but never spoils a frame.
The inductive invariant `PoolInv` has six parts besides the types and the
properties. `Quiet`:
outside the drained frame no worker is near the rows, and a worker whose
generation may be old (`Stale`) is one the job, and the next request, do not
need, because the idle check is all that keeps it out. `Publishing`: the stores
made so far have their final values. `Draining`: participants work from the
current job, and reports never outnumber the workers that have finished
(`workers_done <= Cardinality(Finished)`), which makes the caller's wait mean
what it should. `Painting`: every row handed out is painted or being painted.
`Returned`: after the call the row counter stays past the end, so a worker sent
round once more by `Stop` finds nothing. `FrameIsComplete`, `NoWorkerStraggles`,
`RowsAreDisjoint`, `JobIsStable` follow, and `PoolImplementsRenderer` maps every
step to a step of `FrameRenderer` or a stutter. Two more have invariants of their
own. `NoWakeupIsLost` needs no pacing at all: `WakeInv` says that whoever has evaluated its predicate and not slept yet holds
the mutex and found it false, and that for a sleeper whose predicate has become true
somebody is still about to send the wake. `ReportsAreExact` is where both kinds of pacing are
needed: a worker that enters the rows while its generation is old would report
twice (growth), one that skipped a frame not at all (start).
`TalliesAlwaysSum`, again for a caller paced in growth: while a frame is drained, what
the needed participants have tallied, or would tally now with the row they render, is
the number of rows claimed (`RowsAccounted`), which rests on every tally being zero
until its owner has been through the rows of this frame (`NothingTallied`).

**Profiler** (`LatencyProfilerProofs`). `RingInv` adds to the types that an
unfilled ring has its head at its size (`RingInvariant`). It gives
`ComputeReadsTheWindow`
(reading from cell 0 without looking at the head is right) and
`ProfilerImplementsWindow`. The statistics are proved for a window of any number of
natural samples. Ranks separate the samples and preserve their order, so each rank is
taken once (pigeonhole) and the k fastest samples are k and hold the first k of the
sorted copy. `StatisticsAreByDefinition`: interpolating at a position with i whole
samples before it leaves i + 1 samples at or below and n - i - 1 at or above, one more
when nothing is interpolated, which gives the share of every percentile and the halves
of the median; interpolation is monotone in the position, which gives their order; and
both the two-pass deviation and the squared differences of all pairs are
n times the sum of the squares less the square of the sum. `TrimAlwaysDropsTheSlowest`:
no k samples add up to less than the k fastest, so replacing a slowest sample that was
kept by an equal one that was dropped shows that it may grow; and as each kept sample is
at most the k-th and each dropped one at least that, the mean does not rise.

**Sweep** (`BenchmarkSweepProofs`). `SweepInv` relates the count of the phase,
the frames and the samples: the kernel being measured has exactly the samples
taken so far, those after it none. It gives `ResultsAreTheSweeps`,
`MeasuresRunnableKernels`, `SweepsAreComplete` (only the last sample of the last
available kernel ends a sweep that is not cancelled), `ComparesOnePlan` and
`ProgressStaysInBar`. The last is nonlinear: the bar is a quotient of counts whose
bounds are the targets, so the products are bounded step by step. A lemma on the
least element of a set of naturals stands behind the search for the next
available kernel.

**Frame loop** (`AppProofs`). `AppInv` has, besides the property about the
baseline, four parts. `Shape`: the types. `Homogeneous`: every sample in the window
and the iteration total are of the last render's workload and kernel. `Rated`: the
live rate is of that window. `Displayed`: when the dashboard is drawn, the picture is
of what is selected. They give
`WindowsAverageOneThing`, `DrawnForWhatIsSelected` and `BaselinesAreScalar`.
`ComparesLikeWithLike` needs the sweep as well. It is not proved anew for the sweep
inside the frame loop: `UsesTheSweep` shows that every step of the loop is a step of
`BenchmarkSweep` or leaves it alone, and the theorems of `BenchmarkSweepProofs` are
then used on that instance.

**Render target** (`RenderTargetProofs`). `TableCoversEveryCount` and
`PictureIsTheLastFrames`: the pixels and the total on display are those of the last
displayed frame, although verification renders into the buffer afterwards.
`VerdictsAreTrue` needs the state in the middle of a pass (`PassInv`): the kernels the
pass has been through come before the others in the registry, the reference holds the
scalar counts, and every visible pixel holds the count of the last kernel that wrote
it. That there is one rests on the scalar kernel being the first of the registry and
always available (`kernel_registry.cpp:15-26`); without that, a skipped pixel would be
judged by what the last frame left. Two theorems say what follows:
`WritersAreJudgedTruly` (the verdict on a kernel that writes all of the picture depends
on that kernel alone) and `SilentKernelsInherit` (one that writes none of it gets its
predecessor's verdict).

**From main to the panel** (`DashboardProofs`), for every machine, report, pool
size, window and rate: `NoInstructionFaults` and `OffersExactlyWhatRuns`, from an
invariant on which reads the detection has behind it; `PanelDescribesTheFrame`;
`ScaleMatchesTheGrade`, from `ScaleFitsEveryRate` (for every natural rate, whatever the
state); and `PictureIsInside`, from bounds on rounded quotients.
`EverythingShownIsSourced` follows each field of the snapshot through the native probe,
hwinfo and the defaults: a value that is kept was found by one source, and a source is
overruled only by a believable value of the preferred one. The search for the first line
or entry with a key is by least index. Of the mouse, `WheelKeepsPoint` says that a turn
of the wheel keeps the point under the cursor exactly, whatever the window, and
`DragFollowsCursor` that a drag moves it by at most one unit of the rounding; a drag
rounds down where the code divides floating point numbers. `ExactDragsKeepPoint` is
`CursorKeepsPoint` for drags whose divisions leave no remainder, as on the instance of
the run (there every drag is of this kind).

**Kernels** (`EscapeKernelProofs`). For images, caps and batches of any size
that divide the padding: `KernelsKeepInv`, `KernelsReproduceScalar` and
`KernelsWriteTheirRows`, under `FiniteImage` (no orbit leaves as NaN; finding 3
shows that this is needed).

**Allocation tracker** (`AllocTrackerProofs`). `ScopesReadTheirThread`, for any
number of threads and calls: a thread's counter lags behind its calls only inside
a call, and scopes begin and end outside. `CountersAlwaysAgree`: at every moment the
process-wide counters are the sums of the threads' own, corrected for the calls that
have done one half of their updates.

**Only model-checked**: liveness (`CallReturns`, `StopReturns`, `SweepEnds`,
`StepRenders`, `KernelEnds`), which is beyond TLAPS, as is `ENABLED`; and that the
view's divisions are exact on the instance, which an arbitrary one does not offer
(`CursorKeepsPoint` without the hypothesis of `ExactDragsKeepPoint`).

## 6. Findings

Disagreements between the code and what the repository says of it, each the
counterexample of a run:

1. `PoolGrowing`: a frame that asks for more threads than the one before can
   admit a worker that still carries the old generation. It reports twice and
   `RenderFrame` returns before the frame is whole.
2. `PoolStartup`: a worker that starts after the first frame was published
   takes its generation as already seen; the call never returns.
3. `KernelsNan`: the scalar kernel counts a NaN coordinate as inside, the SIMD
   kernels as outside. Zooming out without limit reaches such coordinates. The trace
   follows the source text: the scalar file is compiled with finite-math-only, which
   allows a compiler to decide a comparison either way for a NaN; the assembly
   kernels leave it no choice.

Smaller observations made while modelling; the models behave as the code does
where they reach it, and no run is spent on these:

- `Stop` can send a worker through `DrainRows` once more, which overwrites its
  tally of the last frame with 0 (`thread_pool.cpp:47`); `TalliesSumToHeight`
  therefore speaks of the time until `Stop`.
- A warm-up of 0 renders one warm-up frame, because `Step` compares after it
  renders (`main.cpp:256`); `StatsAreTheSweeps` numbers the samples accordingly.
- The sample count under the results follows the slider, not the results
  (`main.cpp:1482`).
- A control used between computing the live rate and comparing it makes one
  frame compare rates of two views or two kernels (`main.cpp:821`);
  `SettledComparison` speaks of the frames whose controls left both alone.
- With a limit of 0, which can be typed, points of the set take the palette's
  first colour, because two places clamp the limit to different ranges
  (`render_target.cpp:94`, `main.cpp:140`); `TheSetIsBlack` speaks of limits of at least 1.
- The tripwire reads the render thread only, so an allocation by a pool worker in
  the measured region leaves the display at 0 (`main.cpp:671`).
- A frame's panel reads the thread count after its control
  (`main.cpp:1021`), so for one frame the utilisation is of the next frame's
  threads; `PanelMatchesPool` speaks of frames without a control in between.
- Above 64 cores the pool stops at 64, and the panel still says that the slider
  reaches all of them and that they are not all used.
- Where hwinfo knows only the physical cores of a package and the system has
  fewer processors online, there are more workers than processors; a machine with
  several packages is described by its first.
- A believable clock of hwinfo below 1 MHz replaces the native one by 0
  (`hardware_info.cpp:395`).
- The native cache line size is kept whatever it is; only 0 is replaced
  (`hardware_info.cpp:440`).
- Only zooming in is held at half an ULP per pixel, and with the centre before the
  zoom (`main.cpp:585`); a finer resolution chosen afterwards, or moving away from
  the origin, goes below what the panel calls a clamp (`main.cpp:1384`).
- Verification does not clear the buffer between kernels (`main.cpp:706-713`), so a
  kernel that wrote nothing would get its predecessor's verdict, "PASS" right after the
  scalar kernel (`SilentKernelsInherit`). The self-test poisons the buffer "so a kernel
  that silently writes nothing fails" (`tests/verify_kernels.cpp:117`). The program's
  kernels write every pixel of their rows (`WritesItsRows`, `ReproducesScalar`), so this
  is a gap of the check and no wrong verdict of the program as it is.
- Verification leaves the last kernel's counts in the buffer until "the next frame
  overwrites it" (`main.cpp:725`); while paused there is none. Picture and total are
  not recomputed either, so nothing shows it (`PictureIsOfFrame`).
- An empty window of samples has deviation 0 and is called "Rock solid"; a rate of 0
  gets the lowest tier's name in grey.
- A comment calls the benchmark "single-threaded on purpose" (`main.cpp:1000`);
  it is not any more.

## 7. Not modelled, and why

- Floating point arithmetic: reals are out of reach. Orbits stand for the
  kernels' coordinates, workloads for the view of a frame, and the view's own
  geometry is on integers.
- The two tables of words for consistency and smoothness
  (`performance_grade.cpp:160-199`): fixed thresholds with no second place that
  they would have to agree with.
- The overloads of `operator new` and `delete` one by one: the model has one call of
  each kind, so an overload that forgets to count would not be seen.
- The colours of the gradients: no property tells two colours apart.
- SDL and ImGui calls, start-up and shutdown of the window.
- Timing: where a duration decides something, the model takes every outcome.
- A first use of `Kernels()` or `Cpu()` from several threads at once: both are
  called from the main thread before the pool exists.
- Null arguments of `RenderFrame`: it returns and changes nothing.

## 8. Plan

Done: every component the inventory prints in bold, with the theorems of section 5. Left:

1. The palette gradient on scaled integers, if a property ever distinguishes two
   colours.
2. A composition of the frame loop with the pool in which the sequence of thread
   counts is derived instead of assumed. With the slider moved up, or a sweep on two
   threads between frames on more, it violates `GrowthPaced`, so it would show finding 1
   from the user's side.
3. A verification pass that poisons the buffer as the self-test does, for which a
   verdict is the truth about every kernel.
4. A repair of findings 1 and 2 as a variant of the pool, with the same theorems and
   without the two assumptions on pacing.
