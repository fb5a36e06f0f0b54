---------------------------------- MODULE App ----------------------------------
(***************************************************************************)
(* The frame loop of the application (src/src/main.cpp, class App): events,*)
(* one rendered and measured frame, the dashboard, a slice of the sweep,   *)
(* the presentation.  One thread runs it; what makes it hard is that every *)
(* value on the dashboard was computed at one point of a frame from state  *)
(* that other points of it change.                                         *)
(*                                                                         *)
(* A workload stands for all that CurrentWorkload reads (the view, the     *)
(* resolution, the iteration limit and the thread count), a sample for the *)
(* workload and kernel it was measured on and a rate for what it was       *)
(* computed from.                                                          *)
(***************************************************************************)
EXTENDS Integers, Sequences, SequencesExt

CONSTANTS
  Workloads, Palettes,
  CltMin,           \* kCltMinSamples
  RollingCapacity,  \* 512
  FrameCapacity,    \* 256
  NoWorkload, NoRate, NoPalette,
  \* the sweep's
  KernelCount, Available, MaxWarmup, MinSamples, SampleCapacity,
  WarmupInputs, SampleInputs, DefaultWarmup, DefaultSamples, NoJob, MaxSweeps

Scalar == 0

ASSUME AppAssumption ==
  /\ Scalar \in Available
  /\ CltMin \in Nat \ {0}
  /\ RollingCapacity \in Nat /\ RollingCapacity >= 2
  /\ FrameCapacity \in Nat /\ FrameCapacity >= 2

ASSUME SweepConstants ==
  /\ KernelCount \in Nat /\ Available \subseteq 0..(KernelCount - 1)
  /\ MaxWarmup \in Nat /\ MaxSweeps \in Nat
  /\ MinSamples \in Nat \ {0}
  /\ SampleCapacity \in Nat /\ SampleCapacity >= MinSamples
  /\ WarmupInputs \subseteq Int /\ SampleInputs \subseteq Int
  /\ DefaultWarmup \in Int /\ DefaultSamples \in Int

VARIABLES
  pc,                    \* where in the frame Run is, or "done"
  workload,              \* view_, resolution_index_ and thread_count_
  kernel_index, palette,
  paused, step_once,
  rolling, frame_time,   \* the windows of kernel and frame times
  last_iteration_total,  \* the workload it counts, or NoWorkload for 0
  live_mips,             \* live_mega_iters_per_sec_, or NoRate for 0
  scalar_baseline,       \* its rate and workload, or NoRate when not valid
  last_render,           \* the signature of the last rendered frame
  sampled,               \* what RenderFractal returned
  rendered,              \* history: whether this frame ran the kernel
  \* the sweep's
  phase, kernel, completed, warmup_target, sample_target, any_results,
  job, profilers, stats, has_stats, stepping, sweeps, plan, frames

controlVars  == <<workload, kernel_index, palette, paused, step_once>>
measuredVars == <<rolling, frame_time, last_iteration_total, live_mips, scalar_baseline>>
frameVars    == <<last_render, sampled, rendered>>
sweepVars    == <<phase, kernel, completed, warmup_target, sample_target, any_results,
                  job, profilers, stats, has_stats, stepping, sweeps, plan, frames>>

Sweep == INSTANCE BenchmarkSweep WITH Jobs <- Workloads
Rolling == INSTANCE SampleWindow
             WITH Capacity <- RollingCapacity, Samples <- {}, window <- rolling
FrameTime == INSTANCE SampleWindow
             WITH Capacity <- FrameCapacity, Samples <- {}, window <- frame_time

vars == <<pc, controlVars, measuredVars, frameVars, sweepVars>>

(***************************************************************************)
(* default_index of the registry: its first available kernel.              *)
(***************************************************************************)
DefaultKernel == CHOOSE k \in Available : \A j \in Available : k <= j

CurrentRender == [workload |-> workload, palette |-> palette, kernel |-> kernel_index]

Init ==
  /\ pc = "events"
  /\ workload \in Workloads
  /\ kernel_index = DefaultKernel
  /\ palette \in Palettes
  /\ paused = FALSE /\ step_once = FALSE
  /\ rolling = <<>> /\ frame_time = <<>>
  /\ last_iteration_total = NoWorkload
  /\ live_mips = NoRate /\ scalar_baseline = NoRate
  /\ last_render = [workload |-> NoWorkload, palette |-> NoPalette, kernel |-> -1]
  /\ sampled = FALSE /\ rendered = FALSE
  /\ Sweep!Init
-----------------------------------------------------------------------------
(***************************************************************************)
(* HandleEvents.  The mouse moves the view, keys pause and pick a kernel.  *)
(***************************************************************************)
MoveView(w) ==
  /\ workload' = w
  /\ UNCHANGED <<kernel_index, palette, paused, step_once>>

SetPause(b) ==
  /\ paused' = b
  /\ UNCHANGED <<workload, kernel_index, palette, step_once>>

SelectKernel(k) ==
  /\ k \in Available
  /\ kernel_index' = k
  /\ UNCHANGED <<workload, palette, paused, step_once>>

HandleEvent ==
  /\ pc = "events"
  /\ \/ \E w \in Workloads : MoveView(w)
     \/ SetPause(~paused)
     \/ \E k \in Sweep!Kernels : SelectKernel(k)
  /\ UNCHANGED <<pc, measuredVars, frameVars, sweepVars>>

Quit ==
  /\ pc = "events"
  /\ pc' = "done"
  /\ UNCHANGED <<controlVars, measuredVars, frameVars, sweepVars>>

EventsDone ==
  /\ pc = "events"
  /\ pc' = "render"
  /\ UNCHANGED <<controlVars, measuredVars, frameVars, sweepVars>>
-----------------------------------------------------------------------------
(***************************************************************************)
(* RenderFractal.  An unavailable kernel gives way to the default one.     *)
(***************************************************************************)
Runnable  == IF kernel_index \in Available THEN kernel_index ELSE DefaultKernel
Signature == [CurrentRender EXCEPT !.kernel = Runnable]

InvalidatedByWorkload == Signature.workload # last_render.workload

Invalidated ==
  \/ Signature.workload # last_render.workload
  \/ Signature.kernel # last_render.kernel

SkipsIgnoringPalette == paused /\ ~Invalidated /\ ~step_once

Skips == paused /\ Signature = last_render /\ ~step_once

RenderSkip ==
  /\ pc = "render" /\ Skips
  /\ kernel_index' = Runnable
  /\ sampled' = FALSE /\ rendered' = FALSE
  /\ pc' = "ui"
  /\ UNCHANGED <<workload, palette, paused, step_once, measuredVars, last_render, sweepVars>>

Render(takesSample, step) ==
  /\ pc = "render" /\ ~Skips
  /\ kernel_index' = Runnable
  /\ LET kept   == IF Invalidated THEN <<>> ELSE rolling
         sample == [workload |-> workload, kernel |-> Runnable]
     IN  rolling' = IF takesSample THEN Rolling!Pushed(kept, sample) ELSE kept
  /\ live_mips' = IF Invalidated THEN NoRate ELSE live_mips
  /\ last_iteration_total' = workload
  /\ step_once' = step
  /\ last_render' = Signature
  /\ sampled' = takesSample /\ rendered' = TRUE
  /\ pc' = "ui"
  /\ UNCHANGED <<workload, palette, paused, frame_time, scalar_baseline, sweepVars>>

RenderKeepsStep == Render(~paused, step_once)

RenderRun == Render(~paused, FALSE)
-----------------------------------------------------------------------------
(***************************************************************************)
(* DrawUi: the statistics of the window and UpdateThroughputEstimate.      *)
(***************************************************************************)
Estimate ==
  IF rolling # <<>> /\ last_iteration_total # NoWorkload
    THEN [iterations |-> last_iteration_total, times |-> ToSet(rolling)]
    ELSE NoRate

LatchesAlways == kernel_index = Scalar /\ Estimate # NoRate

Latches == kernel_index = Scalar /\ Len(rolling) >= CltMin /\ Estimate # NoRate

BeginUi ==
  /\ pc = "ui"
  /\ live_mips' = Estimate
  /\ scalar_baseline' = IF Latches
                          THEN [rate |-> Estimate, workload |-> workload, n |-> Len(rolling)]
                          ELSE scalar_baseline
  /\ pc' = "controls"
  /\ UNCHANGED <<controlVars, rolling, frame_time, last_iteration_total, frameVars, sweepVars>>

(***************************************************************************)
(* The controls of the dashboard; at most one is used in a frame, because  *)
(* one widget is active at a time.                                         *)
(***************************************************************************)
Step ==
  /\ paused
  /\ step_once' = TRUE
  /\ UNCHANGED <<workload, kernel_index, palette, paused>>

SetPalette(p) ==
  /\ palette' = p
  /\ UNCHANGED <<workload, kernel_index, paused, step_once>>

ResetStats ==
  /\ rolling' = <<>> /\ frame_time' = <<>>
  /\ live_mips' = NoRate
  /\ last_iteration_total' = NoWorkload
  /\ scalar_baseline' = NoRate
  /\ UNCHANGED <<controlVars, sweepVars>>

UseControl ==
  \/ SetPause(~paused)
  \/ Step
  \/ \E k \in Sweep!Kernels : SelectKernel(k)
  \/ \E w \in Workloads : MoveView(w)
  \/ \E p \in Palettes : SetPalette(p)

UseSweepControl ==
  \/ \E w \in WarmupInputs, s \in SampleInputs : Sweep!Configure(w, s)
  \/ Sweep!Start(workload)
  \/ Sweep!Cancel

Controls ==
  /\ pc = "controls"
  /\ \/ UseControl /\ UNCHANGED <<measuredVars, sweepVars>>
     \/ ResetStats
     \/ UseSweepControl /\ UNCHANGED <<controlVars, measuredVars>>
     \/ UNCHANGED <<controlVars, measuredVars, sweepVars>>
  /\ pc' = "panel"
  /\ UNCHANGED frameVars

(***************************************************************************)
(* DrawSimplePanel shows the comparison defined below.                     *)
(***************************************************************************)
DrawSimplePanel ==
  /\ pc = "panel"
  /\ pc' = "step"
  /\ UNCHANGED <<controlVars, measuredVars, frameVars, sweepVars>>

(***************************************************************************)
(* The sweep's slice of the frame.                                         *)
(***************************************************************************)
SweepStep ==
  /\ pc = "step"
  /\ \/ Sweep!StepBegin /\ UNCHANGED pc
     \/ Sweep!StepFrame /\ UNCHANGED pc
     \/ Sweep!StepReturn /\ pc' = "present"
     \/ ~Sweep!SweepRunning /\ ~stepping /\ pc' = "present" /\ UNCHANGED sweepVars
  /\ UNCHANGED <<controlVars, measuredVars, frameVars>>

(***************************************************************************)
(* Present, and the end of a turn of Run.                                  *)
(***************************************************************************)
Present ==
  /\ pc = "present"
  /\ frame_time' = IF sampled THEN FrameTime!Pushed(frame_time, rendered) ELSE frame_time
  /\ pc' = "events"
  /\ UNCHANGED <<controlVars, rolling, last_iteration_total, live_mips, scalar_baseline,
                 frameVars, sweepVars>>

RenderFractal == RenderSkip \/ RenderRun
DrawUi == BeginUi \/ Controls \/ DrawSimplePanel \/ SweepStep

Next == HandleEvent \/ Quit \/ EventsDone \/ RenderFractal \/ DrawUi \/ Present

Spec == Init /\ [][Next]_vars

(***************************************************************************)
(* The frame loop goes on: the event queue is drained and every phase of a *)
(* frame is left.                                                          *)
(***************************************************************************)
FairSpec ==
  /\ Spec
  /\ WF_vars(EventsDone) /\ WF_vars(RenderFractal) /\ WF_vars(DrawUi) /\ WF_vars(Present)
-----------------------------------------------------------------------------
Sample == [workload : Workloads, kernel : Available]
Rate   == [iterations : Workloads, times : SUBSET Sample]

TypeOK ==
  /\ pc \in {"events", "render", "ui", "controls", "panel", "step", "present", "done"}
  /\ workload \in Workloads /\ palette \in Palettes
  /\ kernel_index \in Available
  /\ {paused, step_once, sampled, rendered} \subseteq BOOLEAN
  /\ rolling \in Seq(Sample) /\ Len(rolling) <= RollingCapacity
  /\ Len(frame_time) <= FrameCapacity
  /\ last_iteration_total \in Workloads \cup {NoWorkload}
  /\ live_mips \in Rate \cup {NoRate}

(***************************************************************************)
(* The two windows hold what they are averaged as, whichever way pausing,  *)
(* stepping and the controls interleave with a frame.  Every sample of the *)
(* latency window was measured on the workload and kernel of the last      *)
(* rendered frame (src/src/main.cpp:92, "Averaging frames that rendered    *)
(* different amounts of work yields a mean describing neither"), and so    *)
(* was the iteration count that is divided by their mean.  The frame time  *)
(* window holds only frames that ran the kernel (src/README.md:261,        *)
(* "Paused frames are also excluded from the FPS window").                 *)
(***************************************************************************)
WindowIsHomogeneous ==
  /\ TypeOK
  /\ \A s \in ToSet(rolling) :
       s = [workload |-> last_render.workload, kernel |-> last_render.kernel]
  /\ last_iteration_total \in {NoWorkload, last_render.workload}
  /\ \A ran \in ToSet(frame_time) : ran

(***************************************************************************)
(* Whenever the dashboard starts to draw, the picture and the rate are     *)
(* those of the selected view and kernel, frozen or not (src/README.md:260,*)
(* "so the picture matches the controls").                                 *)
(***************************************************************************)
RateOf(w, k) == [iterations |-> w, times |-> {[workload |-> w, kernel |-> k]}]

DashboardIsCurrent ==
  /\ pc = "ui" => last_render = CurrentRender
  /\ pc = "ui" /\ Estimate # NoRate => Estimate = RateOf(workload, kernel_index)

(***************************************************************************)
(* A baseline is the scalar kernel's rate on the workload stored with it,  *)
(* over a window that is statistically meaningful (src/src/main.cpp:778,   *)
(* "Only latch the baseline once the window is statistically meaningful"). *)
(***************************************************************************)
BaselineIsScalar ==
  scalar_baseline # NoRate =>
    /\ scalar_baseline.rate = RateOf(scalar_baseline.workload, Scalar)
    /\ scalar_baseline.n >= CltMin

(***************************************************************************)
(* CompareToScalar: the sweep's ratio when the sweep has both kernels,     *)
(* else the live rate against the stored baseline.                         *)
(***************************************************************************)
FromSweep == has_stats[Scalar] /\ has_stats[kernel_index]
FromLiveAnyWorkload ==
  /\ ~FromSweep
  /\ scalar_baseline # NoRate /\ live_mips # NoRate

FromLive ==
  /\ ~FromSweep
  /\ scalar_baseline # NoRate /\ live_mips # NoRate
  /\ scalar_baseline.workload = workload

LiveIsComparable ==
  FromLive => /\ live_mips = RateOf(scalar_baseline.workload, kernel_index)
              /\ scalar_baseline.rate = RateOf(scalar_baseline.workload, Scalar)

(***************************************************************************)
(* The comparison the panel shows, in a frame whose controls left the view *)
(* and kernel alone, is of the selected kernel with the scalar one, on one *)
(* workload; a sweep's, in any frame, is from one sweep.                   *)
(***************************************************************************)
SweepIsComparable ==
  FromSweep =>
    \E j \in Workloads, n \in MinSamples..SampleCapacity :
      \A k \in {Scalar, kernel_index} :
        /\ Len(stats[k]) = n
        /\ \A s \in ToSet(stats[k]) : s.kernel = k /\ s.job = j /\ s.sweep = sweeps

SettledComparison ==
  pc = "panel" =>
    /\ last_render = CurrentRender => LiveIsComparable
    /\ SweepIsComparable

(***************************************************************************)
(* The Step button renders its frame, unless the user quits first.         *)
(***************************************************************************)
StepRenders == step_once ~> (~step_once \/ pc = "done")
=============================================================================
