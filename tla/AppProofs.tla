------------------------------- MODULE AppProofs -------------------------------
(***************************************************************************)
(* The frame loop shows what belongs together: for any number of workloads *)
(* and kernels, windows of any size and every order of events, controls    *)
(* and frames.                                                             *)
(***************************************************************************)
EXTENDS App, SequenceTheorems, TLAPS

SweepProofs == INSTANCE BenchmarkSweepProofs WITH Jobs <- Workloads

(***************************************************************************)
(* The invariant.  The last rendered frame is what everything measured is  *)
(* of: the samples and the iteration count by the first part, the rate     *)
(* computed from them by the second.  The third says that the dashboard is *)
(* drawn for a frame that was rendered or did not need to be.              *)
(***************************************************************************)
LastSample == [workload |-> last_render.workload, kernel |-> last_render.kernel]

LastRate == [iterations |-> last_render.workload, times |-> {LastSample}]

Shape ==
  /\ pc \in {"events", "render", "ui", "controls", "panel", "step", "present", "done"}
  /\ workload \in Workloads /\ palette \in Palettes
  /\ kernel_index \in Available
  /\ paused \in BOOLEAN /\ step_once \in BOOLEAN
  /\ sampled \in BOOLEAN /\ rendered \in BOOLEAN
  /\ rolling \in Seq(Sample) /\ Len(rolling) <= RollingCapacity
  /\ frame_time \in Seq(BOOLEAN) /\ Len(frame_time) <= FrameCapacity
  /\ last_iteration_total \in Workloads \cup {NoWorkload}

Homogeneous ==
  /\ \A i \in DOMAIN rolling : rolling[i] = LastSample
  /\ last_iteration_total \in {NoWorkload, last_render.workload}
  /\ \A i \in DOMAIN frame_time : frame_time[i] = TRUE
  /\ sampled => rendered

Rated ==
  /\ live_mips \in Rate \cup {NoRate}
  /\ live_mips # NoRate => live_mips = LastRate

Displayed == pc = "ui" => last_render = CurrentRender

AppInv == Shape /\ Homogeneous /\ Rated /\ Displayed /\ BaselineIsScalar

LEMMA LeastKernel == DefaultKernel \in Available
<1>1. Scalar \in Available /\ \A j \in Available : Scalar <= j
  BY AppAssumption, SweepConstants DEF Scalar
<1> QED  BY <1>1 DEF DefaultKernel

(***************************************************************************)
(* A window of capacity c after one more sample.                           *)
(***************************************************************************)
LEMMA PushedWindow ==
  ASSUME NEW S, NEW w \in Seq(S), NEW s \in S, NEW c \in Nat, c >= 1, Len(w) <= c,
         NEW p, p = IF Len(w) < c THEN Append(w, s) ELSE Append(Tail(w), s)
  PROVE  /\ p \in Seq(S) /\ Len(p) <= c
         /\ \A v : v = s /\ (\A i \in DOMAIN w : w[i] = v) => \A i \in DOMAIN p : p[i] = v
<1>1. CASE Len(w) < c
  BY <1>1
<1>2. CASE ~(Len(w) < c)
  <2>1. w # <<>> /\ Len(w) = c
    BY <1>2
  <2> DEFINE t == Tail(w)
  <2>2. t \in Seq(S) /\ Len(t) = c - 1 /\ \A i \in 1..Len(t) : t[i] = w[i + 1]
    BY <2>1, HeadTailProperties
  <2>3. p = Append(t, s)
    BY <1>2
  <2> HIDE DEF t
  <2>4. p \in Seq(S) /\ Len(p) = c
    BY <2>2, <2>3
  <2>5. \A v : v = s /\ (\A i \in DOMAIN w : w[i] = v) => \A i \in DOMAIN p : p[i] = v
    <3>1. SUFFICES ASSUME NEW v, v = s, \A i \in DOMAIN w : w[i] = v, NEW i \in DOMAIN p
                   PROVE  p[i] = v
      OBVIOUS
    <3>2. i \in 1..c
      BY <2>4, <3>1
    <3>3. CASE i = c
      BY <2>2, <2>3, <3>1, <3>3
    <3>4. CASE i # c
      <4>1. i \in 1..Len(t) /\ i + 1 \in DOMAIN w
        BY <2>1, <2>2, <3>2, <3>4
      <4> QED  BY <2>2, <2>3, <3>1, <4>1
    <3> QED  BY <3>3, <3>4
  <2> QED  BY <2>4, <2>5
<1> QED  BY <1>1, <1>2

LEMMA AppStart == Init => AppInv
<1> SUFFICES ASSUME Init PROVE AppInv
  OBVIOUS
<1>1. /\ pc = "events" /\ workload \in Workloads /\ kernel_index = DefaultKernel
      /\ palette \in Palettes /\ paused = FALSE /\ step_once = FALSE
      /\ rolling = <<>> /\ frame_time = <<>> /\ last_iteration_total = NoWorkload
      /\ live_mips = NoRate /\ scalar_baseline = NoRate /\ sampled = FALSE /\ rendered = FALSE
  BY DEF Init
<1>2. /\ rolling \in Seq(Sample) /\ Len(rolling) <= RollingCapacity
      /\ frame_time \in Seq(BOOLEAN) /\ Len(frame_time) <= FrameCapacity
  BY <1>1, AppAssumption
<1>3. /\ paused \in BOOLEAN /\ step_once \in BOOLEAN
      /\ sampled \in BOOLEAN /\ rendered \in BOOLEAN
  BY <1>1, Zenon
<1>4. kernel_index \in Available
  BY <1>1, LeastKernel
<1>5. Shape
  BY <1>1, <1>2, <1>3, <1>4, Zenon DEF Shape
<1>6. Homogeneous /\ Rated /\ Displayed /\ BaselineIsScalar
  BY <1>1 DEF Homogeneous, Rated, Displayed, BaselineIsScalar
<1> QED  BY <1>5, <1>6 DEF AppInv

(***************************************************************************)
(* The estimate, whenever there is one, is of the last rendered frame.     *)
(***************************************************************************)
LEMMA EstimateIsOfTheFrame ==
  ASSUME Shape, Homogeneous
  PROVE  /\ Estimate \in Rate \cup {NoRate}
         /\ Estimate # NoRate => Estimate = LastRate
<1>1. CASE rolling # <<>> /\ last_iteration_total # NoWorkload
  <2>1. Estimate = [iterations |-> last_iteration_total, times |-> ToSet(rolling)]
    BY <1>1 DEF Estimate
  <2>2. ToSet(rolling) = {LastSample}
    <3>1. 1 \in DOMAIN rolling
      BY <1>1 DEF Shape
    <3> QED  BY <3>1 DEF ToSet, Homogeneous
  <2>3. last_iteration_total = last_render.workload /\ last_iteration_total \in Workloads
    BY <1>1 DEF Shape, Homogeneous
  <2>4. ToSet(rolling) \subseteq Sample
    BY DEF ToSet, Shape
  <2> QED  BY <2>1, <2>2, <2>3, <2>4 DEF LastRate, Rate
<1>2. CASE ~(rolling # <<>> /\ last_iteration_total # NoWorkload)
  BY <1>2 DEF Estimate
<1> QED  BY <1>1, <1>2

(***************************************************************************)
(* What an event, a control or the sweep may do leaves the invariant: it   *)
(* does not touch what was measured, and the frame is not at its "ui".     *)
(***************************************************************************)
Controlled ==
  /\ pc \in {"events", "render", "controls", "panel", "step", "present", "done"}
  /\ workload \in Workloads /\ palette \in Palettes
  /\ kernel_index \in Available
  /\ paused \in BOOLEAN /\ step_once \in BOOLEAN

LEMMA MeasuredKept ==
  ASSUME AppInv, UNCHANGED <<measuredVars, frameVars>>, Controlled'
  PROVE  AppInv'
<1>1. /\ rolling' = rolling /\ frame_time' = frame_time
      /\ last_iteration_total' = last_iteration_total /\ live_mips' = live_mips
      /\ scalar_baseline' = scalar_baseline /\ last_render' = last_render
      /\ sampled' = sampled /\ rendered' = rendered
  BY DEF measuredVars, frameVars
<1>2. Shape'
  BY <1>1, Zenon DEF AppInv, Shape, Controlled, Sample
<1>3. LastSample' = LastSample /\ LastRate' = LastRate
  BY <1>1 DEF LastSample, LastRate
<1>4. Homogeneous'
  BY <1>1, <1>3, Zenon DEF AppInv, Homogeneous
<1>5. Rated'
  BY <1>1, <1>3 DEF AppInv, Rated, Rate, Sample
<1>6. Displayed'
  BY DEF Controlled, Displayed
<1>7. BaselineIsScalar'
  BY <1>1, Zenon DEF AppInv, BaselineIsScalar, RateOf
<1> QED  BY <1>2, <1>4, <1>5, <1>6, <1>7 DEF AppInv

(***************************************************************************)
(* The handlers, one lemma each.                                           *)
(***************************************************************************)
LEMMA HandlingAnEvent == ASSUME AppInv, HandleEvent PROVE AppInv'
<1>1. UNCHANGED <<measuredVars, frameVars>>
  BY DEF HandleEvent
<1>2. pc' = "events"
  BY DEF HandleEvent
<1>3. workload' \in Workloads
  BY DEF AppInv, Shape, HandleEvent, MoveView, SetPause, SelectKernel
<1>4. palette' \in Palettes /\ kernel_index' \in Available /\ step_once' \in BOOLEAN
  BY Zenon DEF AppInv, Shape, HandleEvent, MoveView, SetPause, SelectKernel
<1>5. paused' \in BOOLEAN
  BY Zenon DEF AppInv, Shape, HandleEvent, MoveView, SetPause, SelectKernel
<1>6. Controlled'
  BY <1>2, <1>3, <1>4, <1>5, Zenon DEF Controlled
<1> QED  BY <1>1, <1>6, MeasuredKept

LEMMA UsingAControl == ASSUME AppInv, Controls PROVE AppInv'
<1>1. pc' = "panel" /\ UNCHANGED frameVars
  BY DEF Controls
<1>2. CASE UseControl /\ UNCHANGED <<measuredVars, sweepVars>>
  <2>1. workload' \in Workloads
    BY <1>2 DEF AppInv, Shape, UseControl, MoveView, SetPause, SelectKernel, Step, SetPalette
  <2>2. palette' \in Palettes /\ kernel_index' \in Available
    BY <1>2, Zenon
    DEF AppInv, Shape, UseControl, MoveView, SetPause, SelectKernel, Step, SetPalette
  <2>3. paused' \in BOOLEAN /\ step_once' \in BOOLEAN
    BY <1>2, Zenon
    DEF AppInv, Shape, UseControl, MoveView, SetPause, SelectKernel, Step, SetPalette
  <2>4. Controlled'
    BY <1>1, <2>1, <2>2, <2>3, Zenon DEF Controlled
  <2>5. UNCHANGED <<measuredVars, frameVars>>
    BY <1>1, <1>2
  <2> QED  BY <2>4, <2>5, MeasuredKept
<1>3. CASE ResetStats
  <2>1. /\ rolling' = <<>> /\ frame_time' = <<>> /\ live_mips' = NoRate
        /\ last_iteration_total' = NoWorkload /\ scalar_baseline' = NoRate
        /\ sampled' = sampled /\ rendered' = rendered
    BY <1>1, <1>3 DEF ResetStats, frameVars
  <2>2. /\ workload' = workload /\ palette' = palette /\ kernel_index' = kernel_index
        /\ paused' = paused /\ step_once' = step_once
    BY <1>3, Zenon DEF ResetStats, controlVars
  <2>3. /\ rolling' \in Seq(Sample') /\ Len(rolling') <= RollingCapacity
        /\ frame_time' \in Seq(BOOLEAN) /\ Len(frame_time') <= FrameCapacity
        /\ last_iteration_total' \in Workloads \cup {NoWorkload}
    BY <2>1, AppAssumption
  <2>4. Shape'
    BY <1>1, <2>1, <2>2, <2>3, Zenon DEF AppInv, Shape
  <2>5. sampled' => rendered'
    BY <2>1, Zenon DEF AppInv, Homogeneous
  <2>6. Homogeneous'
    BY <2>1, <2>5 DEF Homogeneous
  <2>7. Rated' /\ Displayed' /\ BaselineIsScalar'
    BY <1>1, <2>1 DEF Rated, Displayed, BaselineIsScalar
  <2> QED  BY <2>4, <2>6, <2>7 DEF AppInv
<1>4. CASE UNCHANGED <<controlVars, measuredVars>>
  <2>1. Controlled'
    BY <1>1, <1>4, Zenon DEF AppInv, Shape, Controlled, controlVars
  <2>2. UNCHANGED <<measuredVars, frameVars>>
    BY <1>1, <1>4
  <2> QED  BY <2>1, <2>2, MeasuredKept
<1> QED  BY <1>2, <1>3, <1>4 DEF Controls

LEMMA MovingOn ==
  ASSUME AppInv, Quit \/ EventsDone \/ DrawSimplePanel \/ SweepStep
  PROVE  AppInv'
<1>1. UNCHANGED <<controlVars, measuredVars, frameVars>>
  BY DEF Quit, EventsDone, DrawSimplePanel, SweepStep
<1>2. pc' \in {"done", "render", "step", "present"}
  BY DEF Quit, EventsDone, DrawSimplePanel, SweepStep
<1>3. Controlled'
  BY <1>1, <1>2, Zenon DEF AppInv, Shape, Controlled, controlVars
<1> QED  BY <1>1, <1>3, MeasuredKept

(***************************************************************************)
(* A skipped render needs no picture: its inputs are those of the last.    *)
(***************************************************************************)
LEMMA SkippingTheRender == ASSUME AppInv, RenderSkip PROVE AppInv'
<1>1. /\ rolling' = rolling /\ frame_time' = frame_time
      /\ last_iteration_total' = last_iteration_total /\ live_mips' = live_mips
      /\ scalar_baseline' = scalar_baseline /\ last_render' = last_render
  BY DEF RenderSkip, measuredVars
<1>2. /\ pc' = "ui" /\ workload' = workload /\ palette' = palette
      /\ kernel_index' = Runnable
  BY DEF RenderSkip
<1>3. /\ paused' = paused /\ step_once' = step_once
      /\ sampled' \in BOOLEAN /\ rendered' \in BOOLEAN /\ ~sampled'
  BY Zenon DEF RenderSkip
<1>4. Runnable = kernel_index
  BY DEF AppInv, Shape, Runnable
<1>5. Shape'
  BY <1>1, <1>2, <1>3, <1>4, Zenon DEF AppInv, Shape, Sample
<1>6. LastSample' = LastSample /\ LastRate' = LastRate
  BY <1>1 DEF LastSample, LastRate
<1>7. Homogeneous'
  BY <1>1, <1>3, <1>6, Zenon DEF AppInv, Homogeneous
<1>8. Rated'
  BY <1>1, <1>6 DEF AppInv, Rated, Rate, Sample
<1>9. Displayed'
  <2>1. last_render = Signature
    BY Zenon DEF RenderSkip, Skips
  <2>2. Signature = [workload |-> workload, palette |-> palette, kernel |-> kernel_index]
    BY <1>4 DEF Signature, CurrentRender
  <2> QED  BY <1>1, <1>2, <1>4, <2>1, <2>2, Zenon DEF Displayed, CurrentRender
<1>10. BaselineIsScalar'
  BY <1>1, Zenon DEF AppInv, BaselineIsScalar, RateOf
<1> QED  BY <1>5, <1>7, <1>8, <1>9, <1>10 DEF AppInv

(***************************************************************************)
(* A rendered frame starts the window again when the workload or the       *)
(* kernel is not that of the last; its own sample is of both.              *)
(***************************************************************************)
LEMMA RenderingAFrame == ASSUME AppInv, RenderRun PROVE AppInv'
<1> DEFINE sig == [workload |-> workload, palette |-> palette, kernel |-> kernel_index]
           kept == IF Invalidated THEN <<>> ELSE rolling
           sample == [workload |-> workload, kernel |-> kernel_index]
           pushed == Rolling!Pushed(kept, sample)
<1>1. Runnable = kernel_index
  BY DEF AppInv, Shape, Runnable
<1>2. Signature = sig
  BY <1>1 DEF Signature, CurrentRender
<1>3. /\ pc' = "ui" /\ workload' = workload /\ palette' = palette
      /\ kernel_index' = kernel_index /\ frame_time' = frame_time
      /\ scalar_baseline' = scalar_baseline
      /\ last_iteration_total' = workload /\ last_render' = sig
  BY <1>1, <1>2 DEF RenderRun, Render
<1>4. live_mips' = IF Invalidated THEN NoRate ELSE live_mips
  BY DEF RenderRun, Render
<1>5. /\ paused' = paused /\ step_once' \in BOOLEAN
      /\ sampled' \in BOOLEAN /\ rendered' \in BOOLEAN /\ rendered'
  <2>1. rendered' = TRUE /\ step_once' = FALSE /\ paused' = paused /\ sampled' = ~paused
    BY Zenon DEF RenderRun, Render
  <2> QED  BY <2>1, Zenon
<1>6. rolling' = kept \/ rolling' = pushed
  BY <1>1 DEF RenderRun, Render
<1>7. LastSample' = sample /\ LastRate' = [iterations |-> workload, times |-> {sample}]
  BY <1>3 DEF LastSample, LastRate
<1>8. sample \in Sample
  BY DEF AppInv, Shape, Sample
<1>9. ~Invalidated => LastSample = sample /\ last_render.workload = workload
  BY <1>2 DEF Invalidated, LastSample
<1>10. /\ kept \in Seq(Sample) /\ Len(kept) <= RollingCapacity
       /\ \A i \in DOMAIN kept : kept[i] = sample
  <2>1. CASE Invalidated
    BY <2>1, AppAssumption
  <2>2. CASE ~Invalidated
    BY <1>9, <2>2 DEF AppInv, Shape, Homogeneous
  <2> QED  BY <2>1, <2>2
<1> HIDE DEF sample, kept
<1>11. /\ pushed \in Seq(Sample) /\ Len(pushed) <= RollingCapacity
       /\ \A i \in DOMAIN pushed : pushed[i] = sample
  <2>1. RollingCapacity \in Nat /\ RollingCapacity >= 1
    BY AppAssumption
  <2>2. pushed = IF Len(kept) < RollingCapacity THEN Append(kept, sample)
                                                ELSE Append(Tail(kept), sample)
    BY DEF Rolling!Pushed
  <2> HIDE DEF pushed
  <2> QED  BY <1>8, <1>10, <2>1, <2>2, PushedWindow
<1> HIDE DEF pushed
<1>12. /\ rolling' \in Seq(Sample) /\ Len(rolling') <= RollingCapacity
       /\ \A i \in DOMAIN rolling' : rolling'[i] = sample
  BY <1>6, <1>10, <1>11
<1>13. Shape'
  BY <1>3, <1>5, <1>12, Zenon DEF AppInv, Shape, Sample
<1>14. Homogeneous'
  <2>1. last_iteration_total' = last_render'.workload
    BY <1>3
  <2>2. \A i \in DOMAIN frame_time' : frame_time'[i] = TRUE
    BY <1>3, Zenon DEF AppInv, Homogeneous
  <2>3. \A i \in DOMAIN rolling' : rolling'[i] = LastSample'
    BY <1>7, <1>12
  <2> QED  BY <1>5, <2>1, <2>2, <2>3, Zenon DEF Homogeneous
<1>15. Rated'
  <2>1. CASE Invalidated
    BY <1>4, <2>1 DEF Rated
  <2>2. CASE ~Invalidated
    <3>1. live_mips' = live_mips
      BY <1>4, <2>2
    <3>2. LastRate = [iterations |-> workload, times |-> {sample}]
      BY <1>9, <2>2 DEF LastRate
    <3> QED  BY <1>7, <3>1, <3>2 DEF AppInv, Rated, Rate, Sample
  <2> QED  BY <2>1, <2>2
<1>16. Displayed'
  BY <1>3 DEF Displayed, CurrentRender
<1>17. BaselineIsScalar'
  BY <1>3, Zenon DEF AppInv, BaselineIsScalar, RateOf
<1> QED  BY <1>13, <1>14, <1>15, <1>16, <1>17 DEF AppInv

(***************************************************************************)
(* The panels start with the estimate of the frame they are drawn over,    *)
(* and a baseline is latched there.                                        *)
(***************************************************************************)
LEMMA BeginningThePanels == ASSUME AppInv, BeginUi PROVE AppInv'
<1>1. /\ rolling' = rolling /\ frame_time' = frame_time
      /\ last_iteration_total' = last_iteration_total /\ last_render' = last_render
      /\ workload' = workload /\ palette' = palette /\ kernel_index' = kernel_index
      /\ pc = "ui" /\ pc' = "controls" /\ live_mips' = Estimate
  BY DEF BeginUi, controlVars, frameVars
<1>2. /\ paused' = paused /\ step_once' = step_once
      /\ sampled' = sampled /\ rendered' = rendered
  BY Zenon DEF BeginUi, controlVars, frameVars
<1>3. Shape'
  BY <1>1, <1>2, Zenon DEF AppInv, Shape, Sample
<1>4. LastSample' = LastSample /\ LastRate' = LastRate
  BY <1>1 DEF LastSample, LastRate
<1>5. Homogeneous'
  BY <1>1, <1>2, <1>4, Zenon DEF AppInv, Homogeneous
<1>6. Estimate \in Rate \cup {NoRate} /\ (Estimate # NoRate => Estimate = LastRate)
  BY EstimateIsOfTheFrame DEF AppInv
<1>7. Rated'
  BY <1>1, <1>4, <1>6 DEF Rated, Rate, Sample
<1>8. BaselineIsScalar'
  <2>1. CASE Latches
    <3>1. scalar_baseline' = [rate |-> Estimate, workload |-> workload, n |-> Len(rolling)]
      BY <2>1 DEF BeginUi
    <3>2. kernel_index = Scalar /\ Estimate = LastRate /\ Len(rolling) >= CltMin
      BY <1>6, <2>1 DEF Latches
    <3>3. last_render = CurrentRender
      BY <1>1 DEF AppInv, Displayed
    <3>4. LastRate = RateOf(workload, Scalar)
      BY <3>2, <3>3 DEF LastRate, LastSample, CurrentRender, RateOf
    <3> QED  BY <3>1, <3>2, <3>4 DEF BaselineIsScalar
  <2>2. CASE ~Latches
    <3>1. scalar_baseline' = scalar_baseline
      BY <2>2 DEF BeginUi
    <3> QED  BY <3>1, Zenon DEF AppInv, BaselineIsScalar, RateOf
  <2> QED  BY <2>1, <2>2
<1>9. Displayed'
  BY <1>1 DEF Displayed
<1> QED  BY <1>3, <1>5, <1>7, <1>8, <1>9 DEF AppInv

(***************************************************************************)
(* Only a frame that ran the kernel adds its time.                         *)
(***************************************************************************)
LEMMA PresentingAFrame == ASSUME AppInv, Present PROVE AppInv'
<1> DEFINE pushed == FrameTime!Pushed(frame_time, TRUE)
<1>1. /\ rolling' = rolling /\ last_iteration_total' = last_iteration_total
      /\ live_mips' = live_mips /\ scalar_baseline' = scalar_baseline
      /\ last_render' = last_render /\ pc' = "events"
      /\ workload' = workload /\ palette' = palette /\ kernel_index' = kernel_index
  BY DEF Present, controlVars, frameVars
<1>2. /\ paused' = paused /\ step_once' = step_once
      /\ sampled' = sampled /\ rendered' = rendered
  BY Zenon DEF Present, controlVars, frameVars
<1>3. frame_time' = frame_time \/ frame_time' = pushed
  <2>1. CASE sampled
    <3>1. rendered = TRUE
      BY <2>1, Zenon DEF AppInv, Shape, Homogeneous
    <3>2. frame_time' = FrameTime!Pushed(frame_time, rendered)
      BY <2>1, Zenon DEF Present
    <3> QED  BY <3>1, <3>2, Zenon
  <2>2. CASE ~sampled
    BY <2>2, Zenon DEF Present
  <2> QED  BY <2>1, <2>2
<1>4. /\ frame_time' \in Seq(BOOLEAN) /\ Len(frame_time') <= FrameCapacity
      /\ \A i \in DOMAIN frame_time' : frame_time'[i] = TRUE
  <2>1. /\ frame_time \in Seq(BOOLEAN) /\ Len(frame_time) <= FrameCapacity
        /\ \A i \in DOMAIN frame_time : frame_time[i] = TRUE
    BY Zenon DEF AppInv, Shape, Homogeneous
  <2>2. CASE frame_time' = frame_time
    BY <2>1, <2>2, Zenon
  <2>3. CASE frame_time' = pushed
    <3>1. FrameCapacity \in Nat /\ FrameCapacity >= 1
      BY AppAssumption
    <3> DEFINE s == TRUE
               B == BOOLEAN
    <3>2. s \in B /\ s = TRUE /\ frame_time \in Seq(B) /\ Len(frame_time) <= FrameCapacity
      BY <2>1, Zenon
    <3>3. pushed = IF Len(frame_time) < FrameCapacity THEN Append(frame_time, s)
                                                      ELSE Append(Tail(frame_time), s)
      BY Zenon DEF FrameTime!Pushed
    <3>4. B = BOOLEAN
      OBVIOUS
    <3> HIDE DEF pushed, s, B
    <3>5. /\ pushed \in Seq(B) /\ Len(pushed) <= FrameCapacity
          /\ \A v : v = s /\ (\A i \in DOMAIN frame_time : frame_time[i] = v)
                    => \A i \in DOMAIN pushed : pushed[i] = v
      <4>1. s \in B /\ frame_time \in Seq(B) /\ Len(frame_time) <= FrameCapacity
        BY <3>2, Zenon
      <4> QED  BY <3>1, <3>3, <4>1, PushedWindow
    <3>6. \A i \in DOMAIN pushed : pushed[i] = TRUE
      BY <2>1, <3>2, <3>5, Zenon
    <3> QED  BY <2>3, <3>4, <3>5, <3>6, Zenon
  <2> QED  BY <1>3, <2>2, <2>3
<1>5. Shape'
  BY <1>1, <1>2, <1>4, Zenon DEF AppInv, Shape, Sample
<1>6. LastSample' = LastSample /\ LastRate' = LastRate
  BY <1>1 DEF LastSample, LastRate
<1>7. Homogeneous'
  BY <1>1, <1>2, <1>4, <1>6, Zenon DEF AppInv, Homogeneous
<1>8. Rated'
  BY <1>1, <1>6 DEF AppInv, Rated, Rate, Sample
<1>9. Displayed'
  BY <1>1 DEF Displayed
<1>10. BaselineIsScalar'
  BY <1>1, Zenon DEF AppInv, BaselineIsScalar, RateOf
<1> QED  BY <1>5, <1>7, <1>8, <1>9, <1>10 DEF AppInv

LEMMA NothingHappens == ASSUME AppInv, UNCHANGED vars PROVE AppInv'
<1>1. UNCHANGED <<pc, workload, palette, kernel_index, rolling, frame_time,
                  last_iteration_total, live_mips, scalar_baseline, last_render>>
  BY DEF vars, controlVars, measuredVars, frameVars
<1>2. /\ paused' = paused /\ step_once' = step_once
      /\ sampled' = sampled /\ rendered' = rendered
  BY Zenon DEF vars, controlVars, frameVars
<1>3. Shape'
  BY <1>1, <1>2, Zenon DEF AppInv, Shape, Sample
<1>4. LastSample' = LastSample /\ LastRate' = LastRate
  BY <1>1 DEF LastSample, LastRate
<1>5. Homogeneous'
  BY <1>1, <1>2, <1>4, Zenon DEF AppInv, Homogeneous
<1>6. Rated'
  BY <1>1, <1>4 DEF AppInv, Rated, Rate, Sample
<1>7. Displayed' /\ BaselineIsScalar'
  BY <1>1, Zenon DEF AppInv, Displayed, CurrentRender, BaselineIsScalar, RateOf
<1> QED  BY <1>3, <1>5, <1>6, <1>7 DEF AppInv

LEMMA AppInvariant == Spec => []AppInv
<1>1. AppInv /\ [Next]_vars => AppInv'
  BY HandlingAnEvent, UsingAControl, MovingOn, SkippingTheRender, RenderingAFrame,
     BeginningThePanels, PresentingAFrame, NothingHappens, Zenon
  DEF Next, RenderFractal, DrawUi
<1> QED  BY AppStart, <1>1, PTL DEF Spec

(***************************************************************************)
(* The latency window holds only samples of the last rendered workload and *)
(* kernel and the frame time window only frames that ran the kernel, for   *)
(* windows of any capacity and however events, controls and pauses         *)
(* interleave with the frames (App::RenderFractal, DrawUi, Present).       *)
(***************************************************************************)
THEOREM WindowsAverageOneThing == Spec => []WindowIsHomogeneous
<1>1. AppInv => WindowIsHomogeneous
  <2> SUFFICES ASSUME AppInv PROVE WindowIsHomogeneous
    OBVIOUS
  <2>1. {paused, step_once, sampled, rendered} \subseteq BOOLEAN
    BY Zenon DEF AppInv, Shape
  <2>2. TypeOK
    BY <2>1, Zenon DEF AppInv, Shape, Rated, TypeOK
  <2>3. \A s \in ToSet(rolling) : s = LastSample
    BY DEF AppInv, Homogeneous, ToSet
  <2>4. \A ran \in ToSet(frame_time) : ran
    BY Zenon DEF AppInv, Homogeneous, ToSet
  <2>5. last_iteration_total \in {NoWorkload, last_render.workload}
    BY DEF AppInv, Homogeneous
  <2> QED  BY <2>2, <2>3, <2>4, <2>5, Zenon DEF WindowIsHomogeneous, LastSample
<1> QED  BY AppInvariant, <1>1, PTL

(***************************************************************************)
(* The dashboard is drawn for the picture and the rate of the selected     *)
(* view and kernel, however long the program has been paused               *)
(* (App::RenderFractal, UpdateThroughputEstimate).                         *)
(***************************************************************************)
THEOREM DrawnForWhatIsSelected == Spec => []DashboardIsCurrent
<1>1. AppInv => DashboardIsCurrent
  <2> SUFFICES ASSUME AppInv, pc = "ui"
               PROVE  /\ last_render = CurrentRender
                      /\ Estimate # NoRate => Estimate = RateOf(workload, kernel_index)
    BY DEF DashboardIsCurrent
  <2>1. last_render = CurrentRender
    BY DEF AppInv, Displayed
  <2>2. Estimate # NoRate => Estimate = LastRate
    BY EstimateIsOfTheFrame DEF AppInv
  <2>3. LastRate = RateOf(workload, kernel_index)
    BY <2>1 DEF LastRate, LastSample, CurrentRender, RateOf
  <2> QED  BY <2>1, <2>2, <2>3
<1> QED  BY AppInvariant, <1>1, PTL

(***************************************************************************)
(* A baseline is a rate of the scalar kernel on the workload it is stored  *)
(* with, over at least kCltMinSamples frames (App::DrawUi).                *)
(***************************************************************************)
THEOREM BaselinesAreScalar == Spec => []BaselineIsScalar
<1>1. AppInv => BaselineIsScalar
  BY DEF AppInv
<1> QED  BY AppInvariant, <1>1, PTL

(***************************************************************************)
(* The frame loop uses the sweep only as the sweep is written to be used:  *)
(* each of its steps is one of the sweep's or leaves it alone, so all that *)
(* holds of a sweep holds of the application's (App::DrawUi).              *)
(***************************************************************************)
THEOREM UsesTheSweep == Spec => Sweep!Spec
<1>1. Init => Sweep!Init
  BY DEF Init
<1>2. AppInv /\ [Next]_vars => [Sweep!Next]_(Sweep!sweepVars)
  <2> SUFFICES ASSUME AppInv, [Next]_vars PROVE Sweep!Next \/ UNCHANGED sweepVars
    BY DEF sweepVars, Sweep!sweepVars
  <2>1. CASE HandleEvent \/ Quit \/ EventsDone \/ RenderSkip \/ RenderRun
             \/ BeginUi \/ DrawSimplePanel \/ Present \/ UNCHANGED vars
    BY <2>1, Zenon DEF HandleEvent, Quit, EventsDone, RenderSkip, RenderRun, Render, BeginUi,
                       DrawSimplePanel, Present, vars
  <2>2. CASE Controls
    <3>1. CASE UseSweepControl
      <4>1. workload \in Workloads
        BY DEF AppInv, Shape
      <4> QED  BY <3>1, <4>1, Zenon DEF UseSweepControl, Sweep!Next, Sweep!SweepControl
    <3>2. CASE UNCHANGED sweepVars
      BY <3>2
    <3> QED  BY <2>2, <3>1, <3>2, Zenon DEF Controls, ResetStats
  <2>3. CASE SweepStep
    BY <2>3, Zenon DEF SweepStep, Sweep!Next
  <2> QED  BY <2>1, <2>2, <2>3, Zenon DEF Next, RenderFractal, DrawUi
<1> QED  BY AppInvariant, <1>1, <1>2, PTL DEF Spec, Sweep!Spec

(***************************************************************************)
(* What is proved of a sweep holds of the application's.  SweepProofs is   *)
(* another instance of the module Sweep is one of, so its definitions are  *)
(* the same ones; the lemmas say so.                                       *)
(***************************************************************************)
LEMMA SameInit == Sweep!Init => SweepProofs!Init
BY Zenon DEF Sweep!Init, SweepProofs!Init, Sweep!Clamp, SweepProofs!Clamp,
             Sweep!Kernels, SweepProofs!Kernels

LEMMA SameAdvance == ASSUME NEW k PROVE Sweep!Advance(k) <=> SweepProofs!Advance(k)
BY Zenon DEF Sweep!Advance, SweepProofs!Advance

LEMMA SameNext == Sweep!Next => SweepProofs!Next
<1>1. Sweep!SweepRunning <=> SweepProofs!SweepRunning
  BY Zenon DEF Sweep!SweepRunning, SweepProofs!SweepRunning
<1>2. Sweep!Kernels = SweepProofs!Kernels
  BY Zenon DEF Sweep!Kernels, SweepProofs!Kernels
<1>3. Sweep!TakeSample <=> SweepProofs!TakeSample
  BY Zenon DEF Sweep!TakeSample, SweepProofs!TakeSample, Sweep!Measured, SweepProofs!Measured,
               Sweep!Window!Pushed, SweepProofs!Window!Pushed
<1>4. Sweep!SweepControl => SweepProofs!SweepControl
  BY <1>1, <1>2, SameAdvance, Zenon
  DEF Sweep!SweepControl, SweepProofs!SweepControl, Sweep!Configure, SweepProofs!Configure,
      Sweep!Start, SweepProofs!Start, Sweep!Cancel, SweepProofs!Cancel,
      Sweep!Clamp, SweepProofs!Clamp
<1>5. Sweep!StepFrame => SweepProofs!StepFrame
  <2>1. Sweep!StepWarmup => SweepProofs!StepWarmup
    BY Zenon DEF Sweep!StepWarmup, SweepProofs!StepWarmup
  <2>2. Sweep!SampleMore => SweepProofs!SampleMore
    BY <1>3, Zenon DEF Sweep!SampleMore, SweepProofs!SampleMore
  <2>3. Sweep!SampleLast => SweepProofs!SampleLast
    BY <1>3, SameAdvance, Zenon DEF Sweep!SampleLast, SweepProofs!SampleLast
  <2> QED  BY <2>1, <2>2, <2>3, Zenon DEF Sweep!StepFrame, SweepProofs!StepFrame
<1>6. Sweep!StepBegin \/ Sweep!StepReturn => SweepProofs!StepBegin \/ SweepProofs!StepReturn
  BY <1>1, Zenon
  DEF Sweep!StepBegin, Sweep!StepReturn, SweepProofs!StepBegin, SweepProofs!StepReturn
<1> QED  BY <1>4, <1>5, <1>6, Zenon DEF Sweep!Next, SweepProofs!Next

LEMMA SweepFacts == Spec => []SweepProofs!StatsAreTheSweeps /\ []SweepProofs!Planned
<1>1. SweepProofs!Spec => []SweepProofs!StatsAreTheSweeps
  BY SweepConstants, SweepProofs!ResultsAreTheSweeps DEF SweepProofs!Kernels
<1>2. SweepProofs!Spec => []SweepProofs!Planned
  BY SweepConstants, SweepProofs!ComparesOnePlan DEF SweepProofs!Kernels
<1>3. [Sweep!Next]_(Sweep!sweepVars) => [SweepProofs!Next]_(SweepProofs!sweepVars)
  BY SameNext DEF Sweep!sweepVars, SweepProofs!sweepVars
<1>4. Sweep!Spec => SweepProofs!Spec
  BY SameInit, <1>3, PTL DEF Sweep!Spec, SweepProofs!Spec
<1> QED  BY UsesTheSweep, <1>1, <1>2, <1>4, PTL

(***************************************************************************)
(* The speedup on the panel compares the selected kernel with the scalar   *)
(* one on one workload: over two windows of one sweep, of equal length, or *)
(* over a live rate and a baseline (App::CompareToScalar).                 *)
(***************************************************************************)
THEOREM ComparesLikeWithLike == Spec => []SettledComparison
<1>1. ASSUME AppInv, last_render = CurrentRender PROVE LiveIsComparable
  <2>1. SUFFICES ASSUME FromLive
                 PROVE  /\ live_mips = RateOf(scalar_baseline.workload, kernel_index)
                        /\ scalar_baseline.rate = RateOf(scalar_baseline.workload, Scalar)
    BY DEF LiveIsComparable
  <2>2. live_mips = LastRate /\ scalar_baseline.workload = workload
    BY <1>1, <2>1 DEF FromLive, AppInv, Rated
  <2>3. LastRate = RateOf(workload, kernel_index)
    BY <1>1 DEF LastRate, LastSample, CurrentRender, RateOf
  <2>4. scalar_baseline.rate = RateOf(scalar_baseline.workload, Scalar)
    BY <1>1, <2>1 DEF FromLive, AppInv, BaselineIsScalar
  <2> QED  BY <2>2, <2>3, <2>4
<1>2. ASSUME AppInv, SweepProofs!StatsAreTheSweeps, SweepProofs!Planned PROVE SweepIsComparable
  <2>1. SUFFICES ASSUME FromSweep
                 PROVE  \A k \in {Scalar, kernel_index} :
                          /\ job \in Workloads /\ plan[2] \in MinSamples..SampleCapacity
                          /\ Len(stats[k]) = plan[2]
                          /\ \A s \in ToSet(stats[k]) :
                               s.kernel = k /\ s.job = job /\ s.sweep = sweeps
    BY DEF SweepIsComparable
  <2>2. SUFFICES ASSUME NEW k \in {Scalar, kernel_index}
                 PROVE  /\ job \in Workloads /\ plan[2] \in MinSamples..SampleCapacity
                        /\ Len(stats[k]) = plan[2]
                        /\ \A s \in ToSet(stats[k]) :
                             s.kernel = k /\ s.job = job /\ s.sweep = sweeps
    OBVIOUS
  <2>3. has_stats[k] /\ k \in SweepProofs!Kernels
    BY <1>2, <2>1, AppAssumption, SweepConstants
    DEF FromSweep, AppInv, Shape, SweepProofs!Kernels
  <2>4. job \in Workloads /\ plan[2] \in MinSamples..SampleCapacity
    BY <1>2, <2>3 DEF SweepProofs!Planned
  <2>5. stats[k] = SweepProofs!Measurement(k)
    BY <1>2, <2>3 DEF SweepProofs!StatsAreTheSweeps
  <2> DEFINE n == plan[2]
             m(i) == [kernel |-> k, job |-> job, sweep |-> sweeps,
                      frame |-> SweepProofs!Warmups + i]
  <2>6. n \in Nat
    BY <2>4, SweepConstants
  <2>7. stats[k] = [i \in 1..n |-> m(i)]
    BY <2>5 DEF SweepProofs!Measurement
  <2>8. \A i : m(i).kernel = k /\ m(i).job = job /\ m(i).sweep = sweeps
    OBVIOUS
  <2> HIDE DEF n, m
  <2>9. Len(stats[k]) = n
    BY <2>6, <2>7
  <2>10. \A s \in ToSet(stats[k]) : s.kernel = k /\ s.job = job /\ s.sweep = sweeps
    BY <2>7, <2>8 DEF ToSet
  <2> QED  BY <2>4, <2>9, <2>10 DEF n
<1>3. AppInv /\ SweepProofs!StatsAreTheSweeps /\ SweepProofs!Planned => SettledComparison
  BY <1>1, <1>2 DEF SettledComparison
<1> QED  BY AppInvariant, SweepFacts, <1>3, PTL
=============================================================================
