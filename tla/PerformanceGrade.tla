---------------------------- MODULE PerformanceGrade ----------------------------
(***************************************************************************)
(* The plain-language ratings (src/src/performance_grade.cpp): the tier of *)
(* a rate, the scale that the panel shows beside it, and how much of the   *)
(* machine a frame used.  All are functions of their arguments; rates are  *)
(* whole MIter/s, a colour stands for itself and of the logarithmic meter  *)
(* only its ends are kept.                                                 *)
(***************************************************************************)
EXTENDS Integers, Sequences

(***************************************************************************)
(* The inclusive lower bounds of the tiers, worst to best.                 *)
(***************************************************************************)
kTiers == <<0, 80, 200, 350, 500, 700, 950, 1300, 1800, 2400, 3100, 4200, 6000, 9000>>

kGradeTierCount == 14
Tiers == 0..(kGradeTierCount - 1)
Lower(t) == kTiers[t + 1]

kMeterLowMips  == 80
kMeterHighMips == 9000

NoDataColour == -1

TierAbove(mips) ==
  CHOOSE t \in Tiers : /\ t = 0 \/ Lower(t) < mips
                       /\ \A u \in Tiers : u > t => mips <= Lower(u)

TierOf(mips) ==
  CHOOSE t \in Tiers : /\ Lower(t) <= mips
                       /\ \A u \in Tiers : u > t => mips < Lower(u)

Meter(mips) ==
  CASE mips <= kMeterLowMips  -> "empty"
    [] mips >= kMeterHighMips -> "full"
    [] OTHER                  -> "partial"

GradeIterationRate(mips) ==
  IF mips > 0 THEN [tier |-> TierOf(mips), colour |-> TierOf(mips), meter |-> Meter(mips)]
              ELSE [tier |-> 0, colour |-> NoDataColour, meter |-> "empty"]

(***************************************************************************)
(* GradeTierRange: an upper bound of 0 means that there is none.           *)
(***************************************************************************)
Upper(t) == IF t + 1 < kGradeTierCount THEN Lower(t + 1) ELSE 0

(***************************************************************************)
(* A row of "Show the whole scale" while mips is on display.  Its colour   *)
(* is that of a rate inside the tier.                                      *)
(***************************************************************************)
ScaleRow(t, mips) ==
  [active |-> t = GradeIterationRate(mips).tier,
   colour |-> GradeIterationRate(IF Lower(t) > 0 THEN Lower(t) ELSE 1).colour,
   lower |-> Lower(t), upper |-> Upper(t)]

(***************************************************************************)
(* DescribeUtilisation, for a total rate that threads_used threads made.   *)
(* The percentage and the projection are fractions <<n, d>>.               *)
(***************************************************************************)
DescribeUtilisation(mips, physical_cores, threads_used) ==
  LET total == IF physical_cores < 1 THEN 1 ELSE physical_cores
      asked == IF threads_used < 1 THEN 1 ELSE threads_used
      used  == IF asked > total THEN total ELSE asked
  IN  [cores_total |-> total, cores_used |-> used,
       percent_of_chip  |-> <<100 * used, total>>,
       using_whole_chip |-> used >= total,
       projection_valid |-> mips > 0 /\ used < total,
       projected_all_core_mips |-> <<mips * total, used>>]
-----------------------------------------------------------------------------
(***************************************************************************)
(* A row of the scale shows the tier's own colour, and the rate lies in    *)
(* the range that the active row prints and in no other.                   *)
(***************************************************************************)
InRow(t, mips) ==
  /\ ScaleRow(t, mips).lower <= mips
  /\ ScaleRow(t, mips).upper = 0 \/ mips < ScaleRow(t, mips).upper

ScaleFits(mips) ==
  /\ \A t \in Tiers : ScaleRow(t, mips).colour = t
  /\ mips > 0 => \A t \in Tiers : ScaleRow(t, mips).active <=> InRow(t, mips)
  /\ GradeIterationRate(mips).meter = "full" <=>
       GradeIterationRate(mips).tier = kGradeTierCount - 1
  /\ GradeIterationRate(mips).tier = 0 => GradeIterationRate(mips).meter = "empty"
=============================================================================
