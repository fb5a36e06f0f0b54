----------------------------- MODULE DashboardProofs -----------------------------
(***************************************************************************)
(* What the panel says, on every machine and whatever it reports, for      *)
(* every rate, window and resolution.                                      *)
(***************************************************************************)
EXTENDS Dashboard, SequenceTheorems, NaturalsInduction, WellFoundedInduction, TLAPS

(***************************************************************************)
(* The scale: a tier begins where the one below it ends, so every rate     *)
(* lies in exactly one.                                                    *)
(***************************************************************************)
LEMMA TiersAscend ==
  /\ Tiers = 0..13
  /\ \A t \in Tiers : Lower(t) \in Nat
  /\ Lower(0) = 0 /\ Lower(13) = kMeterHighMips /\ Lower(1) = kMeterLowMips
  /\ \A t, u \in Tiers : t < u => Lower(t) < Lower(u)
<1>1. Tiers = 0..13
  BY DEF Tiers, kGradeTierCount
<1>2. /\ Lower(0) = 0 /\ Lower(1) = 80 /\ Lower(2) = 200 /\ Lower(3) = 350 /\ Lower(4) = 500
      /\ Lower(5) = 700 /\ Lower(6) = 950 /\ Lower(7) = 1300 /\ Lower(8) = 1800
      /\ Lower(9) = 2400 /\ Lower(10) = 3100 /\ Lower(11) = 4200 /\ Lower(12) = 6000
      /\ Lower(13) = 9000
  BY DEF Lower, kTiers
<1>3. \A t \in 0..13 : t \in {0, 1, 2, 3, 4, 5, 6, 7, 8, 9, 10, 11, 12, 13}
  OBVIOUS
<1>4. \A t \in Tiers : Lower(t) \in Nat
  BY <1>1, <1>2, <1>3
<1>5. \A t, u \in Tiers : t < u => Lower(t) < Lower(u)
  BY <1>1, <1>2, <1>3, SMTT(60)
<1> QED  BY <1>1, <1>2, <1>4, <1>5 DEF kMeterHighMips, kMeterLowMips

LEMMA TierOfRate ==
  ASSUME NEW mips \in Nat
  PROVE  /\ TierOf(mips) \in Tiers
         /\ Lower(TierOf(mips)) <= mips
         /\ \A u \in Tiers : u > TierOf(mips) => mips < Lower(u)
<1> DEFINE Fits(t) == /\ Lower(t) <= mips
                      /\ \A u \in Tiers : u > t => mips < Lower(u)
           Tops(t) == t \in Tiers /\ Lower(t) <= mips
                        /\ (t = 13 \/ mips < Lower(t + 1))
<1>1. \E t \in Tiers : Fits(t)
  <2>1. PICK t \in Tiers : Tops(t)
    <3>1. /\ 0 \in Tiers /\ Lower(0) <= mips
          /\ \A t \in Tiers : t # 13 => t + 1 \in Tiers
      BY TiersAscend
    <3>2. SUFFICES ASSUME \A t \in Tiers : ~Tops(t) PROVE FALSE
      OBVIOUS
    <3>3. \A t \in Tiers : Lower(t) <= mips => Lower(t + 1) <= mips /\ t + 1 \in Tiers
      BY <3>1, <3>2, TiersAscend
    <3>4. Lower(1) <= mips /\ Lower(2) <= mips /\ Lower(3) <= mips /\ Lower(4) <= mips
      BY <3>1, <3>3, TiersAscend
    <3>5. Lower(5) <= mips /\ Lower(6) <= mips /\ Lower(7) <= mips /\ Lower(8) <= mips
      BY <3>4, <3>3, TiersAscend
    <3>6. Lower(9) <= mips /\ Lower(10) <= mips /\ Lower(11) <= mips /\ Lower(12) <= mips
      BY <3>5, <3>3, TiersAscend
    <3>7. Lower(13) <= mips
      BY <3>6, <3>3, TiersAscend
    <3> QED  BY <3>3, <3>7, TiersAscend
  <2>2. \A u \in Tiers : u > t => mips < Lower(u)
    <3>1. SUFFICES ASSUME NEW u \in Tiers, u > t PROVE mips < Lower(u)
      OBVIOUS
    <3>2. t # 13 /\ t + 1 \in Tiers /\ mips < Lower(t + 1)
      BY <2>1, <3>1, TiersAscend
    <3> QED  BY <3>1, <3>2, TiersAscend
  <2> QED  BY <2>1, <2>2
<1>2. TierOf(mips) = CHOOSE t \in Tiers : Fits(t)
  BY DEF TierOf
<1> QED  BY <1>1, <1>2

(***************************************************************************)
(* For every rate the verdict, its colour and its meter agree with the     *)
(* scale printed below them: exactly the active row's range contains the   *)
(* rate (src/src/performance_grade.cpp:54 and :102).                       *)
(***************************************************************************)
THEOREM ScaleFitsEveryRate == ASSUME NEW mips \in Nat PROVE ScaleFits(mips)
<1>1. \A t \in Tiers : TierOf(IF Lower(t) > 0 THEN Lower(t) ELSE 1) = t
  <2>1. SUFFICES ASSUME NEW t \in Tiers
                 PROVE  TierOf(IF Lower(t) > 0 THEN Lower(t) ELSE 1) = t
    OBVIOUS
  <2> DEFINE inside == IF Lower(t) > 0 THEN Lower(t) ELSE 1
  <2>2. inside \in Nat /\ Lower(t) <= inside /\ (t # 13 => inside < Lower(t + 1))
    <3>1. CASE t = 0
      BY <3>1, TiersAscend DEF kMeterLowMips
    <3>2. CASE t # 0
      BY <3>2, TiersAscend
    <3> QED  BY <3>1, <3>2
  <2>3. /\ TierOf(inside) \in Tiers /\ Lower(TierOf(inside)) <= inside
        /\ \A u \in Tiers : u > TierOf(inside) => inside < Lower(u)
    BY <2>2, TierOfRate
  <2> HIDE DEF inside
  <2>4. ~(t > TierOf(inside))
    BY <2>2, <2>3, TiersAscend
  <2>5. ~(TierOf(inside) > t)
    BY <2>2, <2>3, TiersAscend
  <2>6. TierOf(inside) = t
    BY <2>3, <2>4, <2>5, TiersAscend
  <2> QED  BY <2>6 DEF inside
<1>2. \A t \in Tiers : ScaleRow(t, mips).colour = t
  <2>1. SUFFICES ASSUME NEW t \in Tiers PROVE ScaleRow(t, mips).colour = t
    OBVIOUS
  <2>2. (IF Lower(t) > 0 THEN Lower(t) ELSE 1) > 0
    BY TiersAscend
  <2> QED  BY <1>1, <2>2 DEF ScaleRow, GradeIterationRate
<1>3. mips > 0 => \A t \in Tiers : ScaleRow(t, mips).active <=> InRow(t, mips)
  <2>1. SUFFICES ASSUME mips > 0, NEW t \in Tiers
                 PROVE  (t = TierOf(mips)) <=> InRow(t, mips)
    BY DEF ScaleRow, GradeIterationRate
  <2>2. InRow(t, mips) <=> Lower(t) <= mips /\ (t = 13 \/ mips < Lower(t + 1))
    <3>1. t # 13 => t + 1 \in Tiers /\ Lower(t + 1) # 0
      BY TiersAscend
    <3> QED  BY <3>1, TiersAscend DEF InRow, ScaleRow, Upper, kGradeTierCount
  <2> QED  BY <2>2, TierOfRate, TiersAscend
<1>4. /\ GradeIterationRate(mips).meter = "full" <=>
           GradeIterationRate(mips).tier = kGradeTierCount - 1
      /\ GradeIterationRate(mips).tier = 0 => GradeIterationRate(mips).meter = "empty"
  <2>1. CASE mips = 0
    BY <2>1 DEF GradeIterationRate, kGradeTierCount
  <2>2. CASE mips > 0
    <3>1. (TierOf(mips) = 13) <=> mips >= kMeterHighMips
      BY TierOfRate, TiersAscend
    <3>2. TierOf(mips) = 0 => mips <= kMeterLowMips
      BY TierOfRate, TiersAscend
    <3>3. kMeterLowMips < kMeterHighMips
      BY DEF kMeterLowMips, kMeterHighMips
    <3> QED  BY <2>2, <3>1, <3>2, <3>3 DEF GradeIterationRate, Meter, kGradeTierCount,
               kMeterLowMips, kMeterHighMips
  <2> QED  BY <2>1, <2>2
<1> QED  BY <1>2, <1>3, <1>4 DEF ScaleFits
-----------------------------------------------------------------------------
(***************************************************************************)
(* The letterbox.  Rounding to the nearest is off by half a unit at most.  *)
(***************************************************************************)
LEMMA DivBounds ==
  ASSUME NEW n \in Nat, NEW d \in Nat \ {0}
  PROVE  n \div d \in Nat /\ d * (n \div d) <= n /\ n < d * (n \div d) + d
BY SMT

LEMMA Halves ==
  ASSUME NEW n \in Nat
  PROVE  n \div 2 \in Nat /\ n - n \div 2 \in {n \div 2, n \div 2 + 1}
BY SMT

LEMMA RoundDivBounds ==
  ASSUME NEW n \in Nat, NEW d \in Nat \ {0}
  PROVE  /\ RoundDiv(n, d) \in Nat
         /\ 2 * (d * RoundDiv(n, d)) <= 2 * n + d
         /\ 2 * n < 2 * (d * RoundDiv(n, d)) + d
<1>1. 2 * n + d \in Nat /\ 2 * d \in Nat \ {0}
  OBVIOUS
<1>2. /\ RoundDiv(n, d) \in Nat
      /\ (2 * d) * RoundDiv(n, d) <= 2 * n + d
      /\ 2 * n + d < (2 * d) * RoundDiv(n, d) + 2 * d
  BY <1>1, DivBounds DEF RoundDiv
<1>3. (2 * d) * RoundDiv(n, d) = 2 * (d * RoundDiv(n, d))
  BY <1>2
<1>4. d * RoundDiv(n, d) \in Nat
  BY <1>2
<1> QED  BY <1>2, <1>3, <1>4

(***************************************************************************)
(* A length that fits exactly still fits after rounding.                   *)
(***************************************************************************)
LEMMA RoundDivFits ==
  ASSUME NEW n \in Nat, NEW d \in Nat \ {0}, NEW w \in Nat, n <= w * d
  PROVE  RoundDiv(n, d) <= w
<1> DEFINE q == RoundDiv(n, d)
<1>1. q \in Nat /\ 2 * (d * q) <= 2 * n + d
  BY RoundDivBounds
<1> HIDE DEF q
<1>2. SUFFICES ASSUME q >= w + 1 PROVE FALSE
  BY <1>1 DEF q
<1>3. d * q >= d * (w + 1)
  BY <1>1, <1>2
<1>4. d * (w + 1) = w * d + d
  OBVIOUS
<1>5. d * q \in Nat /\ w * d \in Nat
  BY <1>1
<1> QED  BY <1>1, <1>3, <1>4, <1>5

SizeOK ==
  /\ window \in [w : Nat, h : Nat]
  /\ Resolution \in [width : Nat \ {0}, height : Nat \ {0}]

LEMMA LetterboxFits == SizeOK => LetterboxInside
<1> SUFFICES ASSUME SizeOK PROVE LetterboxInside
  OBVIOUS
<1> DEFINE r == FractalRect
           W == Resolution.width
           H == Resolution.height
<1>1. window.w \in Nat /\ window.h \in Nat /\ W \in Nat \ {0} /\ H \in Nat \ {0}
  BY DEF SizeOK
<1>2. \/ /\ IsWide /\ r.h = window.h /\ r.w = RoundDiv(window.h * W, H)
      \/ /\ ~IsWide /\ r.w = window.w /\ r.h = RoundDiv(window.w * H, W)
  BY DEF FractalRect
<1>3. r.x = (window.w - r.w) \div 2 /\ r.y = (window.h - r.h) \div 2
  BY DEF FractalRect
<1>4. window.h * W \in Nat /\ window.w * H \in Nat
  BY <1>1
<1> HIDE DEF r, W, H
<1>5. /\ r.w \in 0..window.w /\ r.h \in 0..window.h
      /\ \/ r.h = window.h /\ 2 * Abs(r.w * H - r.h * W) <= H
         \/ r.w = window.w /\ 2 * Abs(r.w * H - r.h * W) <= W
  <2>1. CASE IsWide /\ r.h = window.h /\ r.w = RoundDiv(window.h * W, H)
    <3>1. window.h * W <= window.w * H
      BY <1>1, <1>4, <2>1 DEF IsWide, W, H
    <3>2. r.w \in Nat /\ r.w <= window.w
      BY <1>1, <1>4, <2>1, <3>1, RoundDivFits, RoundDivBounds
    <3>3. /\ 2 * (H * r.w) <= 2 * (window.h * W) + H
          /\ 2 * (window.h * W) < 2 * (H * r.w) + H
      BY <1>1, <1>4, <2>1, RoundDivBounds
    <3>4. r.w * H = H * r.w /\ H * r.w \in Nat /\ r.h * W = window.h * W
      BY <1>1, <2>1, <3>2
    <3>5. 2 * Abs(r.w * H - r.h * W) <= H
      BY <1>1, <1>4, <3>3, <3>4 DEF Abs
    <3> QED  BY <1>1, <2>1, <3>2, <3>5
  <2>2. CASE ~IsWide /\ r.w = window.w /\ r.h = RoundDiv(window.w * H, W)
    <3>1. window.w * H <= window.h * W
      <4>1. W * window.h = window.h * W
        BY <1>1
      <4> QED  BY <1>1, <1>4, <2>2, <4>1 DEF IsWide, W, H
    <3>2. r.h \in Nat /\ r.h <= window.h
      BY <1>1, <1>4, <2>2, <3>1, RoundDivFits, RoundDivBounds
    <3>3. /\ 2 * (W * r.h) <= 2 * (window.w * H) + W
          /\ 2 * (window.w * H) < 2 * (W * r.h) + W
      BY <1>1, <1>4, <2>2, RoundDivBounds
    <3>4. r.h * W = W * r.h /\ W * r.h \in Nat /\ r.w * H = window.w * H
      BY <1>1, <2>2, <3>2
    <3>5. 2 * Abs(r.w * H - r.h * W) <= W
      BY <1>1, <1>4, <3>3, <3>4 DEF Abs
    <3> QED  BY <1>1, <2>2, <3>2, <3>5
  <2> QED  BY <1>2, <2>1, <2>2
<1>6. /\ 0 <= r.x /\ window.w - r.w - r.x \in {r.x, r.x + 1}
      /\ 0 <= r.y /\ window.h - r.h - r.y \in {r.y, r.y + 1}
  <2>1. window.w - r.w \in Nat /\ window.h - r.h \in Nat
    BY <1>1, <1>5
  <2> QED  BY <1>3, <2>1, Halves
<1> QED  BY <1>5, <1>6 DEF LetterboxInside, r, W, H
-----------------------------------------------------------------------------
(***************************************************************************)
(* The detection: at each point of it the flags found so far are those of  *)
(* the machine, and the state of the YMM registers counts as preserved     *)
(* only where XGETBV could be executed.                                    *)
(***************************************************************************)
YmmKept  == {"osxsave", "xmm", "ymm"} \subseteq cpu
RunsAvx2 == {"avx", "avx2"} \subseteq cpu /\ YmmKept

FeatureSets ==
  [osxsave : BOOLEAN, avx : BOOLEAN, ymm_state : BOOLEAN, avx2 : BOOLEAN, fma : BOOLEAN,
   neon : BOOLEAN, simd_kernels_usable : BOOLEAN]

FirstLeafRead ==
  /\ features.osxsave <=> "osxsave" \in cpu
  /\ features.avx <=> "avx" \in cpu
  /\ arch = "x86"

Detected ==
  /\ features.simd_kernels_usable <=> (arch = "x86" /\ RunsAvx2) \/ arch = "arm"
  /\ features.neon <=> arch = "arm"
  /\ features.avx2 <=> "avx2" \in cpu

RegistryInv ==
  /\ arch \in {"x86", "arm", "other"}
  /\ cpu \in Machines /\ (arch = "x86" \/ cpu = {})
  /\ pc \in {"leaf1", "xgetbv", "leaf7", "build", "run"}
  /\ features \in FeatureSets
  /\ pc = "leaf1" => features = Nothing
  /\ pc \in {"xgetbv", "leaf7"} => FirstLeafRead /\ ~features.neon
  /\ pc = "xgetbv" => ~features.ymm_state
  /\ pc = "leaf7" => (features.ymm_state <=> YmmKept)
  /\ pc \in {"build", "run"} => Detected
  /\ pc = "run" => /\ kernels = Registry
                   /\ default_index \in Available(kernels)
                   /\ kernel_index \in Available(kernels)
  /\ faulted = FALSE

(***************************************************************************)
(* The registry by architecture.                                           *)
(***************************************************************************)
LEMMA DescFields ==
  \A isa, reason : \A available \in BOOLEAN :
    /\ Desc(isa, available, reason).isa = isa
    /\ Desc(isa, available, reason).available = available
    /\ Desc(isa, available, reason).reason = reason
BY DEF Desc

LEMMA ScalarFirst ==
  ASSUME NEW a, NEW b
  PROVE  /\ Len(<<a>> \o <<b, b>>) = 3 /\ (<<a>> \o <<b, b>>)[1] = a
         /\ \A i \in 2..3 : (<<a>> \o <<b, b>>)[i] = b
         /\ Len(<<a>> \o <<>>) = 1 /\ (<<a>> \o <<>>)[1] = a
<1> DEFINE S == {a, b}
           one == <<a>>
           two == <<b, b>>
<1>1. one \in Seq(S) /\ two \in Seq(S) /\ <<>> \in Seq(S)
  OBVIOUS
<1>2. Len(one) = 1 /\ one[1] = a /\ Len(two) = 2 /\ \A i \in 1..2 : two[i] = b
  OBVIOUS
<1> HIDE DEF one, two, S
<1>3. /\ Len(one \o two) = 3 /\ (one \o two)[1] = one[1]
      /\ (one \o two)[2] = two[1] /\ (one \o two)[3] = two[2]
  <2>1. /\ Len(one \o two) = Len(one) + Len(two)
        /\ \A i \in 1..(Len(one) + Len(two)) :
             (one \o two)[i] = IF i <= Len(one) THEN one[i] ELSE two[i - Len(one)]
    BY <1>1, ConcatProperties
  <2> QED  BY <1>2, <2>1
<1>4. Len(one \o <<>>) = 1 /\ (one \o <<>>)[1] = one[1]
  BY <1>1, <1>2
<1>5. \A i \in 2..3 : i = 2 \/ i = 3
  OBVIOUS
<1>6. \A i \in 2..3 : (one \o two)[i] = b
  BY <1>2, <1>3, <1>5
<1> QED  BY <1>2, <1>3, <1>4, <1>6 DEF one, two

LEMMA RegistryShape ==
  ASSUME arch \in {"x86", "arm", "other"}
  PROVE  /\ Len(Registry) \in 1..3
         /\ Registry[1] = Desc("Scalar", TRUE, "")
         /\ \A i \in 1..Len(Registry) : i # 1 =>
              \/ arch = "x86" /\ Registry[i] = Desc("AVX2", features.simd_kernels_usable, Avx2Reason)
              \/ arch = "arm" /\ Registry[i] = Desc("NEON", features.neon, "NEON/ASIMD not reported")
<1> DEFINE scalar == Desc("Scalar", TRUE, "")
           avx2   == Desc("AVX2", features.simd_kernels_usable, Avx2Reason)
           neon   == Desc("NEON", features.neon, "NEON/ASIMD not reported")
<1>1. \/ arch = "x86" /\ Registry = <<scalar>> \o <<avx2, avx2>>
      \/ arch = "arm" /\ Registry = <<scalar>> \o <<neon, neon>>
      \/ arch = "other" /\ Registry = <<scalar>> \o <<>>
  <2>1. CASE arch = "x86"
    BY <2>1, Zenon DEF Registry
  <2>2. CASE arch = "arm"
    BY <2>2 DEF Registry
  <2>3. CASE arch = "other"
    BY <2>3 DEF Registry
  <2> QED  BY <2>1, <2>2, <2>3
<1> HIDE DEF scalar, avx2, neon
<1>2. CASE arch = "x86" /\ Registry = <<scalar>> \o <<avx2, avx2>>
  <2>1. Len(Registry) = 3 /\ Registry[1] = scalar /\ \A i \in 2..3 : Registry[i] = avx2
    BY <1>2, ScalarFirst
  <2>2. Len(Registry) \in 1..3 /\ \A i \in 1..Len(Registry) : i # 1 => Registry[i] = avx2
    BY <2>1
  <2> QED  BY <1>2, <2>1, <2>2, Zenon DEF scalar, avx2
<1>3. CASE arch = "arm" /\ Registry = <<scalar>> \o <<neon, neon>>
  <2>1. Len(Registry) = 3 /\ Registry[1] = scalar /\ \A i \in 2..3 : Registry[i] = neon
    BY <1>3, ScalarFirst
  <2>2. Len(Registry) \in 1..3 /\ \A i \in 1..Len(Registry) : i # 1 => Registry[i] = neon
    BY <2>1
  <2> QED  BY <1>3, <2>1, <2>2, Zenon DEF scalar, neon
<1>4. CASE arch = "other" /\ Registry = <<scalar>> \o <<>>
  <2>1. Len(Registry) = 1 /\ Registry[1] = scalar
    BY <1>4, ScalarFirst
  <2>2. Len(Registry) \in 1..3 /\ \A i \in 1..Len(Registry) : ~(i # 1)
    BY <2>1
  <2> QED  BY <2>1, <2>2, Zenon DEF scalar
<1> QED  BY <1>1, <1>2, <1>3, <1>4

(***************************************************************************)
(* With everything detected, a kernel of the registry is available exactly *)
(* when the machine can run it.                                            *)
(***************************************************************************)
LEMMA RegistryOffers ==
  ASSUME arch \in {"x86", "arm", "other"}, cpu \in Machines, features \in FeatureSets, Detected
  PROVE  \A i \in 1..Len(Registry) :
           /\ Registry[i].available <=> CanRun(Registry[i].isa)
           /\ ~Registry[i].available => ReasonIsTrue(Registry[i])
<1>1. SUFFICES ASSUME NEW i \in 1..Len(Registry)
               PROVE  /\ Registry[i].available <=> CanRun(Registry[i].isa)
                      /\ ~Registry[i].available => ReasonIsTrue(Registry[i])
  OBVIOUS
<1>2. CASE i = 1
  <2>1. Registry[i] = Desc("Scalar", TRUE, "")
    BY <1>2, RegistryShape, Zenon
  <2>2. Registry[i].available /\ Registry[i].isa = "Scalar"
    <3>1. Desc("Scalar", TRUE, "").available /\ Desc("Scalar", TRUE, "").isa = "Scalar"
      BY DEF Desc
    <3> QED  BY <2>1, <3>1, Zenon
  <2>3. CanRun("Scalar")
    BY DEF CanRun
  <2> QED  BY <2>2, <2>3, Zenon
<1>3. CASE i # 1 /\ arch = "x86"
  <2>1. Registry[i] = Desc("AVX2", features.simd_kernels_usable, Avx2Reason)
    BY <1>1, <1>3, RegistryShape
  <2>2. features.simd_kernels_usable <=> RunsAvx2
    BY <1>3 DEF Detected
  <2>3. CanRun("AVX2") <=> RunsAvx2
    BY DEF CanRun, RunsAvx2, YmmKept
  <2>4. ~RunsAvx2 => ReasonIsTrue(Registry[i])
    <3>1. SUFFICES ASSUME ~RunsAvx2, "avx2" \in cpu PROVE ~({"osxsave", "xmm", "ymm"} \subseteq cpu)
      <4>1. Registry[i].reason = Avx2Reason
        BY <2>1 DEF Desc
      <4>2. Avx2Reason = IF "avx2" \in cpu THEN "OS is not preserving YMM state"
                                           ELSE "CPU does not report AVX2"
        BY DEF Avx2Reason, Detected
      <4> QED  BY <4>1, <4>2 DEF ReasonIsTrue
    <3>2. "avx" \in cpu
      BY <3>1 DEF Machines
    <3> QED  BY <3>1, <3>2 DEF RunsAvx2, YmmKept
  <2>5. Registry[i].available = features.simd_kernels_usable /\ Registry[i].isa = "AVX2"
    BY <2>1 DEF Desc
  <2> QED  BY <2>2, <2>3, <2>4, <2>5, Zenon
<1>4. CASE i # 1 /\ arch = "arm"
  <2>1. Registry[i] = Desc("NEON", features.neon, "NEON/ASIMD not reported")
    BY <1>1, <1>4, RegistryShape
  <2>2. features.neon
    BY <1>4 DEF Detected
  <2>3. CanRun("NEON")
    BY <1>4 DEF CanRun
  <2>4. Registry[i].available = features.neon /\ Registry[i].isa = "NEON"
    <3>1. features.neon \in BOOLEAN
      BY DEF FeatureSets
    <3> DEFINE reason == "NEON/ASIMD not reported"
    <3>2. Registry[i] = Desc("NEON", features.neon, reason)
      BY <2>1
    <3> HIDE DEF reason
    <3> QED  BY <3>1, <3>2, DescFields
  <2> QED  BY <2>2, <2>3, <2>4, Zenon
<1> QED  BY <1>1, <1>2, <1>3, <1>4, RegistryShape

LEMMA NothingFields ==
  /\ Nothing \in FeatureSets
  /\ ~Nothing.neon /\ ~Nothing.simd_kernels_usable /\ ~Nothing.avx2 /\ ~Nothing.ymm_state
BY DEF Nothing, FeatureSets

LEMMA YmmField ==
  \A f \in FeatureSets : \A a \in BOOLEAN :
    /\ [f EXCEPT !.ymm_state = a] \in FeatureSets
    /\ [f EXCEPT !.ymm_state = a].ymm_state = a
    /\ [f EXCEPT !.ymm_state = a].osxsave = f.osxsave
    /\ [f EXCEPT !.ymm_state = a].avx = f.avx
    /\ [f EXCEPT !.ymm_state = a].neon = f.neon
BY DEF FeatureSets

LEMMA Avx2Field ==
  \A f \in FeatureSets : \A a \in BOOLEAN :
    /\ [f EXCEPT !.avx2 = a] \in FeatureSets
    /\ [f EXCEPT !.avx2 = a].avx2 = a
    /\ [f EXCEPT !.avx2 = a].osxsave = f.osxsave
    /\ [f EXCEPT !.avx2 = a].avx = f.avx
    /\ [f EXCEPT !.avx2 = a].ymm_state = f.ymm_state
    /\ [f EXCEPT !.avx2 = a].neon = f.neon
BY DEF FeatureSets

LEMMA UsableField ==
  \A f \in FeatureSets : \A a \in BOOLEAN :
    /\ [f EXCEPT !.simd_kernels_usable = a] \in FeatureSets
    /\ [f EXCEPT !.simd_kernels_usable = a].simd_kernels_usable = a
    /\ [f EXCEPT !.simd_kernels_usable = a].avx2 = f.avx2
    /\ [f EXCEPT !.simd_kernels_usable = a].neon = f.neon
BY DEF FeatureSets

LEMMA RegistryStart == Init => RegistryInv
BY NothingFields DEF Init, RegistryInit, RegistryInv

(***************************************************************************)
(* One step of the detection.                                              *)
(***************************************************************************)
LEMMA OtherStep ==
  ASSUME RegistryInv, DetectOther
  PROVE  RegistryInv'
<1>1. /\ features' = [Nothing EXCEPT !.neon = arch = "arm", !.simd_kernels_usable = arch = "arm"]
      /\ pc' = "build" /\ arch' = arch /\ cpu' = cpu /\ faulted' = faulted
      /\ arch # "x86" /\ "avx2" \notin cpu
  BY DEF DetectOther, Found, RegistryInv
<1>2. /\ features' \in FeatureSets /\ ~features'.avx2
      /\ features'.neon <=> arch = "arm"
      /\ features'.simd_kernels_usable <=> arch = "arm"
  BY <1>1 DEF Nothing, FeatureSets
<1>3. Detected'
  BY <1>1, <1>2 DEF Detected
<1> QED  BY <1>1, <1>2, <1>3 DEF RegistryInv

LEMMA LeafOneStep ==
  ASSUME RegistryInv, ReadLeaf1
  PROVE  RegistryInv'
<1>1. /\ pc = "leaf1" /\ arch = "x86" /\ features = Nothing /\ cpu \in Machines
      /\ features \in FeatureSets
      /\ arch' = arch /\ cpu' = cpu /\ faulted' = faulted /\ faulted = FALSE
  BY DEF ReadLeaf1, Found, RegistryInv
<1>2. CASE "leaf1" \in cpu
  <2>1. /\ features' = [features EXCEPT !.osxsave = "osxsave" \in cpu, !.avx = "avx" \in cpu,
                                      !.fma = "fma" \in cpu]
        /\ pc' = "xgetbv"
    BY <1>2 DEF ReadLeaf1, Found
  <2>2. ("osxsave" \in cpu) \in BOOLEAN /\ ("avx" \in cpu) \in BOOLEAN /\ ("fma" \in cpu) \in BOOLEAN
    OBVIOUS
  <2> DEFINE os == "osxsave" \in cpu
             avx == "avx" \in cpu
             fma == "fma" \in cpu
  <2>3. /\ features' \in FeatureSets
        /\ features'.osxsave = ("osxsave" \in cpu) /\ features'.avx = ("avx" \in cpu)
        /\ features'.neon = features.neon /\ features'.ymm_state = features.ymm_state
    <3>1. os \in BOOLEAN /\ avx \in BOOLEAN /\ fma \in BOOLEAN
      BY <2>2
    <3>2. features' = [features EXCEPT !.osxsave = os, !.avx = avx, !.fma = fma]
      BY <2>1
    <3> HIDE DEF os, avx, fma
    <3>3. features' \in FeatureSets
      BY <1>1, <3>1, <3>2 DEF FeatureSets
    <3>4. features'.osxsave = os /\ features'.avx = avx
      BY <1>1, <3>1, <3>2 DEF FeatureSets
    <3>5. features'.neon = features.neon /\ features'.ymm_state = features.ymm_state
      BY <1>1, <3>1, <3>2 DEF FeatureSets
    <3> QED  BY <3>3, <3>4, <3>5, Zenon DEF os, avx
  <2>4. ~features'.neon /\ ~features'.ymm_state /\ FirstLeafRead'
    BY <1>1, <2>3, NothingFields DEF FirstLeafRead
  <2> QED  BY <1>1, <2>1, <2>3, <2>4 DEF RegistryInv
<1>3. CASE "leaf1" \notin cpu
  <2>1. features' = Nothing /\ pc' = "build"
    BY <1>1, <1>3 DEF ReadLeaf1, Found
  <2>2. "avx" \notin cpu /\ "avx2" \notin cpu
    BY <1>1, <1>3 DEF Machines
  <2>3. Detected'
    BY <1>1, <2>1, <2>2, NothingFields DEF Detected, RunsAvx2
  <2> QED  BY <1>1, <2>1, <2>3, NothingFields DEF RegistryInv
<1> QED  BY <1>2, <1>3

LEMMA Xcr0Step ==
  ASSUME RegistryInv, ReadXcr0
  PROVE  RegistryInv'
<1>1. /\ pc = "xgetbv" /\ pc' = "leaf7" /\ arch' = arch /\ cpu' = cpu
      /\ FirstLeafRead /\ ~features.neon /\ ~features.ymm_state
      /\ features \in FeatureSets /\ faulted = FALSE
  BY DEF ReadXcr0, Found, RegistryInv
<1>2. CASE features.osxsave
  <2>1. /\ features' = [features EXCEPT !.ymm_state = {"xmm", "ymm"} \subseteq cpu]
        /\ faulted' = (faulted \/ "osxsave" \notin cpu)
    BY <1>2 DEF ReadXcr0, Found
  <2>2. "osxsave" \in cpu
    BY <1>1, <1>2 DEF FirstLeafRead
  <2>3. ({"xmm", "ymm"} \subseteq cpu) \in BOOLEAN
    OBVIOUS
  <2>4. /\ features' \in FeatureSets
        /\ features'.ymm_state = ({"xmm", "ymm"} \subseteq cpu)
        /\ features'.osxsave = features.osxsave /\ features'.avx = features.avx
        /\ features'.neon = features.neon
    BY <1>1, <2>1, <2>3, YmmField, Zenon
  <2>5. faulted' = FALSE
    BY <1>1, <2>1, <2>2
  <2>6. FirstLeafRead' /\ ~features'.neon
    BY <1>1, <2>4 DEF FirstLeafRead
  <2>7. features'.ymm_state <=> YmmKept'
    BY <1>1, <2>2, <2>4 DEF YmmKept
  <2> QED  BY <1>1, <2>4, <2>5, <2>6, <2>7 DEF RegistryInv
<1>3. CASE ~features.osxsave
  <2>1. features' = features /\ faulted' = faulted
    BY <1>3 DEF ReadXcr0, Found
  <2>2. ~YmmKept' /\ FirstLeafRead'
    BY <1>1, <1>3, <2>1 DEF FirstLeafRead, YmmKept
  <2> QED  BY <1>1, <2>1, <2>2 DEF RegistryInv
<1> QED  BY <1>2, <1>3

LEMMA LeafSevenStep ==
  ASSUME RegistryInv, ReadLeaf7
  PROVE  RegistryInv'
<1> DEFINE f == [features EXCEPT !.avx2 = {"leaf7", "avx2"} \subseteq cpu]
<1>1. /\ features' = [f EXCEPT !.simd_kernels_usable = Usable(f)] /\ pc' = "build"
      /\ arch' = arch /\ cpu' = cpu /\ faulted' = faulted
  BY DEF ReadLeaf7, Found
<1>2. /\ pc = "leaf7" /\ FirstLeafRead /\ ~features.neon /\ (features.ymm_state <=> YmmKept)
      /\ features \in FeatureSets /\ faulted = FALSE /\ arch = "x86"
      /\ "avx2" \in cpu => {"avx", "leaf7"} \subseteq cpu
  BY DEF ReadLeaf7, RegistryInv, FirstLeafRead, Machines
<1>3. ({"leaf7", "avx2"} \subseteq cpu) \in BOOLEAN
  OBVIOUS
<1>4. /\ f \in FeatureSets /\ f.avx2 = ({"leaf7", "avx2"} \subseteq cpu) /\ f.avx = features.avx
      /\ f.osxsave = features.osxsave /\ f.ymm_state = features.ymm_state
      /\ f.neon = features.neon
  BY <1>2, <1>3, Avx2Field, Zenon
<1> HIDE DEF f
<1>5. Usable(f) <=> RunsAvx2
  BY <1>2, <1>4 DEF Usable, RunsAvx2, FirstLeafRead, YmmKept
<1>6. Usable(f) \in BOOLEAN
  BY DEF Usable
<1>7. /\ features' \in FeatureSets /\ features'.simd_kernels_usable = Usable(f)
      /\ features'.neon = f.neon /\ features'.avx2 = f.avx2
  BY <1>1, <1>4, <1>6, UsableField, Zenon
<1>8. Detected'
  <2>1. features'.avx2 <=> "avx2" \in cpu
    BY <1>2, <1>4, <1>7
  <2>2. ~features'.neon
    BY <1>2, <1>4, <1>7
  <2>3. RunsAvx2' <=> RunsAvx2
    BY <1>1 DEF RunsAvx2, YmmKept
  <2>4. features'.simd_kernels_usable <=> RunsAvx2
    BY <1>5, <1>7
  <2> QED  BY <1>1, <1>2, <2>1, <2>2, <2>3, <2>4 DEF Detected
<1> QED  BY <1>1, <1>2, <1>7, <1>8 DEF RegistryInv

LEMMA DetectStep == RegistryInv /\ Detect => RegistryInv'
BY OtherStep, LeafOneStep, Xcr0Step, LeafSevenStep DEF Detect

LEMMA RegistryUnchanged == RegistryInv /\ UNCHANGED registryVars => RegistryInv'
<1> SUFFICES ASSUME RegistryInv, UNCHANGED registryVars PROVE RegistryInv'
  OBVIOUS
<1>1. /\ arch' = arch /\ cpu' = cpu /\ pc' = pc /\ features' = features /\ kernels' = kernels
      /\ default_index' = default_index /\ kernel_index' = kernel_index /\ faulted' = faulted
  BY DEF registryVars
<1>2. Registry' = Registry
  BY <1>1 DEF Registry, Avx2Reason
<1> QED  BY <1>1, <1>2 DEF RegistryInv, FirstLeafRead, Detected, RunsAvx2, YmmKept, Available

LEMMA BuildStep == RegistryInv /\ Build => RegistryInv'
<1> SUFFICES ASSUME RegistryInv, Build PROVE RegistryInv'
  OBVIOUS
<1>1. /\ pc = "build" /\ pc' = "run" /\ arch' = arch /\ cpu' = cpu /\ features' = features
      /\ faulted' = faulted /\ kernels' = Registry /\ kernel_index' = default_index'
      /\ default_index' = CHOOSE i \in Available(Registry) :
                            \A j \in Available(Registry) : i <= j
  BY DEF Build
<1>2. 1 \in Available(Registry) /\ \A j \in Available(Registry) : 1 <= j
  <2>1. Len(Registry) \in 1..3 /\ Registry[1] = Desc("Scalar", TRUE, "")
    BY RegistryShape DEF RegistryInv
  <2>2. Desc("Scalar", TRUE, "").available
    BY DEF Desc
  <2>3. Registry[1].available
    BY <2>1, <2>2, Zenon
  <2>4. 1 \in 1..Len(Registry) /\ \A j \in 1..Len(Registry) : 1 <= j
    <3>1. Len(Registry) \in 1..3
      BY <2>1, Zenon
    <3> QED  BY <3>1
  <2>5. Available(Registry) \subseteq 1..Len(Registry)
    BY Zenon DEF Available
  <2>6. 1 \in Available(Registry)
    BY <2>3, <2>4, Zenon DEF Available
  <2> QED  BY <2>4, <2>5, <2>6
<1>3. default_index' \in Available(Registry)
  BY <1>1, <1>2
<1>4. Registry' = Registry /\ Detected'
  BY <1>1 DEF Registry, Avx2Reason, RegistryInv, Detected, RunsAvx2, YmmKept
<1>5. Available(kernels)' = Available(Registry)
  BY <1>1 DEF Available
<1> QED  BY <1>1, <1>3, <1>4, <1>5 DEF RegistryInv

LEMMA SelectStep == RegistryInv /\ SelectAny => RegistryInv'
<1> SUFFICES ASSUME RegistryInv, NEW i \in 1..9, Select(i) PROVE RegistryInv'
  BY DEF SelectAny
<1>1. /\ pc = "run" /\ i \in Available(kernels) /\ kernel_index' = i
      /\ arch' = arch /\ cpu' = cpu /\ pc' = pc /\ features' = features /\ kernels' = kernels
      /\ default_index' = default_index /\ faulted' = faulted
  <2>1. kernels = Registry
    BY DEF Select, RegistryInv
  <2>2. Len(kernels) \in 1..3
    BY <2>1, RegistryShape DEF RegistryInv
  <2> QED  BY <2>2 DEF Select, Available
<1>2. Registry' = Registry /\ Available(kernels)' = Available(kernels)
  BY <1>1 DEF Registry, Avx2Reason, Available
<1> QED  BY <1>1, <1>2 DEF RegistryInv, Detected, RunsAvx2, YmmKept

LEMMA RunStep == RegistryInv /\ Run => RegistryInv'
<1> SUFFICES ASSUME RegistryInv, Run PROVE RegistryInv'
  OBVIOUS
<1>1. /\ pc = "run" /\ faulted' = (faulted \/ ~CanRun(kernels[kernel_index].isa))
      /\ arch' = arch /\ cpu' = cpu /\ pc' = pc /\ features' = features /\ kernels' = kernels
      /\ default_index' = default_index /\ kernel_index' = kernel_index
  BY DEF Run
<1>2. CanRun(kernels[kernel_index].isa)
  <2>1. kernels = Registry /\ kernel_index \in Available(kernels) /\ Detected
    BY <1>1 DEF RegistryInv
  <2>2. kernel_index \in 1..Len(Registry) /\ Registry[kernel_index].available
    BY <2>1 DEF Available
  <2> QED  BY <2>1, <2>2, RegistryOffers DEF RegistryInv
<1>3. faulted' = FALSE
  BY <1>1, <1>2 DEF RegistryInv
<1>4. Registry' = Registry /\ Available(kernels)' = Available(kernels)
  BY <1>1 DEF Registry, Avx2Reason, Available
<1> QED  BY <1>1, <1>3, <1>4 DEF RegistryInv, Detected, RunsAvx2, YmmKept

LEMMA RegistryStep == RegistryInv /\ [Next]_vars => RegistryInv'
<1> SUFFICES ASSUME RegistryInv, [Next]_vars PROVE RegistryInv'
  OBVIOUS
<1>1. CASE MakeRegistry
  BY <1>1, DetectStep, BuildStep DEF MakeRegistry
<1>2. CASE Frame
  BY <1>2, RunStep DEF Frame
<1>3. CASE UseKernel
  BY <1>3, SelectStep DEF UseKernel
<1>4. CASE AskHardware \/ InitApp \/ SetThreads \/ UseView \/ UNCHANGED vars
  BY <1>4, RegistryUnchanged DEF AskHardware, InitApp, SetThreads, UseView, vars
<1> QED  BY <1>1, <1>2, <1>3, <1>4 DEF Next

(***************************************************************************)
(* No instruction is executed that the machine and its system do not       *)
(* support (src/src/cpu_features.cpp:6), whatever flags it reports, and    *)
(* whichever kernels the user picks.                                       *)
(***************************************************************************)
THEOREM NoInstructionFaults == Spec => []NoIllegalInstruction
<1>1. RegistryInv => NoIllegalInstruction
  BY DEF RegistryInv, NoIllegalInstruction
<1> QED  BY <1>1, RegistryStart, RegistryStep, PTL DEF Spec

(***************************************************************************)
(* The registry offers exactly the kernels the machine can run, and what   *)
(* it says of the others is true (src/src/kernel_registry.cpp:11).         *)
(***************************************************************************)
THEOREM OffersExactlyWhatRuns == Spec => []OffersWhatRuns
<1>1. RegistryInv => OffersWhatRuns
  <2>1. SUFFICES ASSUME RegistryInv PROVE OffersWhatRuns
    OBVIOUS
  <2>2. DOMAIN features = DOMAIN Nothing
    BY <2>1 DEF RegistryInv, FeatureSets, Nothing
  <2>3. CASE pc = "run"
    <3>1. kernels = Registry /\ Detected /\ default_index \in Available(kernels)
          /\ kernel_index \in Available(kernels)
      BY <2>1, <2>3 DEF RegistryInv
    <3>2. Len(kernels) \in 1..4
      <4>1. arch \in {"x86", "arm", "other"}
        BY <2>1 DEF RegistryInv
      <4>2. Len(Registry) \in 1..3
        BY <4>1, RegistryShape
      <4>3. \A n \in 1..3 : n \in 1..4
        OBVIOUS
      <4> QED  BY <3>1, <4>2, <4>3, Zenon
    <3>3. \A i \in 1..Len(kernels) :
            /\ kernels[i].available <=> CanRun(kernels[i].isa)
            /\ ~kernels[i].available => ReasonIsTrue(kernels[i])
      BY <2>1, <3>1, RegistryOffers DEF RegistryInv
    <3>4. kernel_index \in 1..Len(kernels)
      BY <3>1 DEF Available
    <3>5. RegistryTypeOK
      BY <2>2, <3>1, <3>2, <3>4, Zenon DEF RegistryTypeOK
    <3> QED  BY <3>3, <3>5 DEF OffersWhatRuns
  <2>4. CASE pc # "run"
    BY <2>2, <2>4 DEF OffersWhatRuns, RegistryTypeOK
  <2> QED  BY <2>3, <2>4
<1> QED  BY <1>1, RegistryStart, RegistryStep, PTL DEF Spec
-----------------------------------------------------------------------------
(***************************************************************************)
(* The view keeps its types, so the picture lies inside whatever window    *)
(* the navigation and the resizing lead to.                                *)
(***************************************************************************)
Points == [x : Int, y : Int]
Views  == [x : Int, y : Int, span : Nat \ {0}]

ViewInv ==
  /\ view \in Views
  /\ resolution_index \in DOMAIN Resolutions
  /\ window \in [w : Nat, h : Nat]
  /\ cursor \in Points
  /\ dragging \in BOOLEAN

LEMMA ElementIn == ASSUME NEW S, NEW s \in Seq(S), NEW i \in DOMAIN s PROVE s[i] \in S
OBVIOUS

LEMMA ViewSizes == ViewInv => SizeOK
<1> SUFFICES ASSUME ViewInv PROVE SizeOK
  OBVIOUS
<1>1. Resolutions \in Seq([width : Nat \ {0}, height : Nat \ {0}])
  BY ViewAssumption
<1>2. Resolution \in [width : Nat \ {0}, height : Nat \ {0}]
  BY <1>1, ElementIn DEF Resolution, ViewInv
<1> QED  BY <1>2 DEF SizeOK, ViewInv

LEMMA IntDiv == ASSUME NEW a \in Int, NEW b \in Nat \ {0} PROVE a \div b \in Int
BY SMT

LEMMA RectTypes ==
  ASSUME SizeOK
  PROVE  FractalRect.x \in Int /\ FractalRect.y \in Int /\ FractalRect.w \in Nat /\ FractalRect.h \in Nat
<1>1. /\ window.w \in Nat /\ window.h \in Nat
      /\ Resolution.width \in Nat \ {0} /\ Resolution.height \in Nat \ {0}
  BY DEF SizeOK
<1>2. window.h * Resolution.width \in Nat /\ window.w * Resolution.height \in Nat
  BY <1>1
<1>3. /\ RoundDiv(window.h * Resolution.width, Resolution.height) \in Nat
      /\ RoundDiv(window.w * Resolution.height, Resolution.width) \in Nat
  BY <1>1, <1>2, RoundDivBounds
<1>4. FractalRect.w \in Nat /\ FractalRect.h \in Nat
  BY <1>1, <1>3 DEF FractalRect
<1>5. /\ FractalRect.x = (window.w - FractalRect.w) \div 2
      /\ FractalRect.y = (window.h - FractalRect.h) \div 2
  BY DEF FractalRect
<1> QED  BY <1>1, <1>4, <1>5, IntDiv

LEMMA SpanYInt ==
  ASSUME SizeOK, NEW span \in Int
  PROVE  SpanY(span) \in Int
<1>1. Resolution.width \in Nat \ {0} /\ span * Resolution.height \in Int
  BY DEF SizeOK
<1> QED  BY <1>1, IntDiv DEF SpanY

LEMMA FromMiddleInt ==
  ASSUME NEW pixel \in Int, NEW length \in Nat, NEW span \in Int
  PROVE  FromMiddle(pixel, length, span) \in Int
<1>1. (2 * pixel - length) * span \in Int
  OBVIOUS
<1>2. CASE length > 0
  <2>1. 2 * length \in Nat \ {0}
    BY <1>2
  <2> QED  BY <1>1, <1>2, <2>1, IntDiv DEF FromMiddle
<1>3. CASE ~(length > 0)
  BY <1>3 DEF FromMiddle
<1> QED  BY <1>2, <1>3

LEMMA ZoomTypes ==
  ASSUME ViewInv, NEW span \in Nat \ {0}
  PROVE  Zoomed(span) \in Views
<1> DEFINE r == FractalRect
           anchor == WindowToComplex(view, cursor)
<1>1. SizeOK /\ view \in Views /\ cursor \in Points
  BY ViewSizes DEF ViewInv
<1>2. r.x \in Int /\ r.y \in Int /\ r.w \in Nat /\ r.h \in Nat
  BY <1>1, RectTypes
<1>3. /\ cursor.x - r.x \in Int /\ cursor.y - r.y \in Int /\ view.x \in Int /\ view.y \in Int
      /\ view.span \in Int /\ span \in Int
  BY <1>1, <1>2 DEF Points, Views
<1>4. SpanY(view.span) \in Int /\ SpanY(span) \in Int
  BY <1>1, <1>3, SpanYInt
<1>5. /\ anchor.x = view.x + FromMiddle(cursor.x - r.x, r.w, view.span)
      /\ anchor.y = view.y + FromMiddle(cursor.y - r.y, r.h, SpanY(view.span))
  BY DEF WindowToComplex
<1>6. Zoomed(span) = [span |-> span,
                      x |-> anchor.x - FromMiddle(cursor.x - r.x, r.w, span),
                      y |-> anchor.y - FromMiddle(cursor.y - r.y, r.h, SpanY(span))]
  BY DEF Zoomed
<1> HIDE DEF r, anchor
<1>7. /\ FromMiddle(cursor.x - r.x, r.w, view.span) \in Int
      /\ FromMiddle(cursor.y - r.y, r.h, SpanY(view.span)) \in Int
      /\ FromMiddle(cursor.x - r.x, r.w, span) \in Int
      /\ FromMiddle(cursor.y - r.y, r.h, SpanY(span)) \in Int
  BY <1>2, <1>3, <1>4, FromMiddleInt
<1>8. anchor.x \in Int /\ anchor.y \in Int
  BY <1>3, <1>5, <1>7
<1> QED  BY <1>6, <1>7, <1>8 DEF Views

LEMMA DragTypes ==
  ASSUME ViewInv, NEW p \in Points, NEW captured, MoveMouse(p, captured)
  PROVE  ViewInv'
<1> DEFINE r == FractalRect
<1>1. /\ cursor' = p /\ resolution_index' = resolution_index /\ window' = window
      /\ dragging' = dragging
      /\ \/ view' = view
         \/ ~IsEmpty(r) /\ view' = [view EXCEPT
                    !.x = @ - ((p.x - cursor.x) * view.span) \div r.w,
                    !.y = @ - ((p.y - cursor.y) * SpanY(view.span)) \div r.h]
  BY DEF MoveMouse
<1>2. SizeOK /\ view \in Views /\ cursor \in Points
  BY ViewSizes DEF ViewInv
<1>3. r.w \in Nat /\ r.h \in Nat
  BY <1>2, RectTypes
<1> HIDE DEF r
<1>4. view' \in Views
  <2>1. SUFFICES ASSUME ~IsEmpty(r),
                        view' = [view EXCEPT
                          !.x = @ - ((p.x - cursor.x) * view.span) \div r.w,
                          !.y = @ - ((p.y - cursor.y) * SpanY(view.span)) \div r.h]
                 PROVE  view' \in Views
    BY <1>1, <1>2
  <2>2. r.w \in Nat \ {0} /\ r.h \in Nat \ {0}
    BY <1>3, <2>1 DEF IsEmpty
  <2>3. (p.x - cursor.x) * view.span \in Int
    BY <1>2 DEF Points, Views
  <2>4. (p.y - cursor.y) * SpanY(view.span) \in Int
    <3>1. SpanY(view.span) \in Int /\ p.y - cursor.y \in Int
      BY <1>2, SpanYInt DEF Points, Views
    <3> QED  BY <3>1
  <2>5. /\ ((p.x - cursor.x) * view.span) \div r.w \in Int
        /\ ((p.y - cursor.y) * SpanY(view.span)) \div r.h \in Int
    BY <2>2, <2>3, <2>4, IntDiv
  <2> DEFINE dx == ((p.x - cursor.x) * view.span) \div r.w
             dy == ((p.y - cursor.y) * SpanY(view.span)) \div r.h
  <2>6. dx \in Int /\ dy \in Int /\ view' = [view EXCEPT !.x = @ - dx, !.y = @ - dy]
    BY <2>1, <2>5
  <2> HIDE DEF dx, dy
  <2>7. view.x \in Int /\ view.y \in Int /\ view.span \in Nat \ {0}
    BY <1>2 DEF Views
  <2>8. view.x - dx \in Int /\ view.y - dy \in Int
    BY <2>6, <2>7
  <2>9. view' = [x |-> view.x - dx, y |-> view.y - dy, span |-> view.span]
    <3> DEFINE nx == view.x - dx
               ny == view.y - dy
    <3>1. view' = [view EXCEPT !.x = nx, !.y = ny]
      BY <2>6
    <3> HIDE DEF nx, ny
    <3>2. view' = [x |-> nx, y |-> ny, span |-> view.span]
      BY <1>2, <3>1 DEF Views
    <3> QED  BY <3>2 DEF nx, ny
  <2> QED  BY <2>7, <2>8, <2>9 DEF Views
<1> QED  BY <1>1, <1>4 DEF ViewInv

LEMMA NavigateTypes == ViewInv /\ Navigate => ViewInv'
<1> SUFFICES ASSUME ViewInv, Navigate PROVE ViewInv'
  OBVIOUS
<1>1. CASE Press \/ Release
  BY <1>1 DEF Press, Release, ViewInv
<1>2. CASE Wheel
  <2>1. PICK span \in MinSpan..MaxSpan :
          /\ view' = Zoomed(span) /\ UNCHANGED <<resolution_index, window, cursor, dragging>>
    BY <1>2 DEF Wheel, ZoomAt
  <2>2. span \in Nat \ {0}
    BY <2>1, ViewAssumption
  <2> QED  BY <2>1, <2>2, ZoomTypes DEF ViewInv
<1>3. CASE \E p \in Pixels : DragTo(p) \/ MoveMouse(p, TRUE)
  <2>1. PICK p \in Pixels : DragTo(p) \/ MoveMouse(p, TRUE)
    BY <1>3
  <2>2. p \in Points
    BY <2>1 DEF Pixels, Points, ViewInv
  <2> QED  BY <2>1, <2>2, DragTypes DEF DragTo
<1>4. CASE \E i \in DOMAIN Resolutions : SelectResolution(i)
  BY <1>4 DEF SelectResolution, ViewInv
<1>5. CASE \E i \in DOMAIN Places : GoTo(Places[i])
  <2>1. \A i \in DOMAIN Places : Places[i] \in Views
    BY ViewAssumption, ElementIn DEF Views
  <2> QED  BY <1>5, <2>1 DEF GoTo, ViewInv
<1> QED  BY <1>1, <1>2, <1>3, <1>4, <1>5 DEF Navigate
-----------------------------------------------------------------------------
(***************************************************************************)
(* The point under the cursor.  Zooming takes the same quotient away that  *)
(* it adds; dragging divides the way of the cursor on its own, and the two *)
(* roundings differ by a unit at most, by nothing where they are exact.    *)
(***************************************************************************)
Exact(n, d) == d * (n \div d) = n

LEMMA IntDivBounds ==
  ASSUME NEW n \in Int, NEW d \in Nat \ {0}
  PROVE  n \div d \in Int /\ d * (n \div d) <= n /\ n < d * (n \div d) + d
BY SMT

LEMMA Cancel ==
  ASSUME NEW d \in Nat \ {0}, NEW a \in Int, NEW b \in Int, d * a < d * b
  PROVE  a < b
<1>1. SUFFICES ASSUME b <= a PROVE FALSE
  OBVIOUS
<1>2. a - b \in Nat
  BY <1>1
<1>3. d * (a - b) \in Nat
  BY <1>2
<1>4. d * (a - b) = d * a - d * b
  OBVIOUS
<1>5. d * a \in Int /\ d * b \in Int
  OBVIOUS
<1> QED  BY <1>3, <1>4, <1>5

LEMMA QuotientsAdd ==
  ASSUME NEW A \in Int, NEW B \in Int, NEW w \in Nat \ {0}
  PROVE  LET drift == (A + 2 * B) \div (2 * w) - A \div (2 * w) - B \div w
         IN  drift \in {0, 1} /\ (Exact(A, 2 * w) /\ Exact(B, w) => drift = 0)
<1> DEFINE d == 2 * w
           a == A \div d
           b == B \div w
           c == (A + 2 * B) \div d
<1>1. d \in Nat \ {0} /\ A + 2 * B \in Int
  OBVIOUS
<1>2. /\ a \in Int /\ d * a <= A /\ A < d * a + d
      /\ c \in Int /\ d * c <= A + 2 * B /\ A + 2 * B < d * c + d
  BY <1>1, IntDivBounds
<1>3. b \in Int /\ w * b <= B /\ B < w * b + w
  BY IntDivBounds
<1>4. d * b = 2 * (w * b) /\ w * b \in Int
  BY <1>3
<1> HIDE DEF a, b, c
<1>5. d * (a + b) = d * a + d * b /\ d * (c + 1) = d * c + d /\ d * (a + b + 2) = d * a + d * b + 2 * d
  BY <1>1, <1>2, <1>3
<1>6. d * a \in Int /\ d * b \in Int /\ d * c \in Int
  BY <1>1, <1>2, <1>3
<1>7. d = 2 * w
  OBVIOUS
<1> HIDE DEF d
<1>8. a + b < c + 1
  <2>1. d * (a + b) < d * (c + 1)
    BY <1>1, <1>2, <1>3, <1>4, <1>5, <1>6
  <2> QED  BY <1>1, <1>2, <1>3, <2>1, Cancel
<1>9. c < a + b + 2
  <2>1. d * c < d * (a + b + 2)
    BY <1>1, <1>2, <1>3, <1>4, <1>5, <1>6, <1>7
  <2> QED  BY <1>1, <1>2, <1>3, <2>1, Cancel
<1>10. ASSUME d * a = A, w * b = B PROVE c < a + b + 1
  <2>1. d * c < d * (a + b + 1)
    <3>1. d * (a + b + 1) = d * a + d * b + d
      BY <1>1, <1>2, <1>3
    <3> QED  BY <1>1, <1>2, <1>4, <1>6, <1>10, <3>1
  <2> QED  BY <1>1, <1>2, <1>3, <2>1, Cancel
<1>11. c - a - b \in {0, 1} /\ (d * a = A /\ w * b = B => c - a - b = 0)
  BY <1>2, <1>3, <1>8, <1>9, <1>10
<1> QED  BY <1>11 DEF Exact, a, b, c, d

(***************************************************************************)
(* One direction of a drag: the cursor goes from one pixel to another of a *)
(* span that covers length pixels.                                         *)
(***************************************************************************)
Shift(from, to, length, span) == ((to - from) * span) \div length

Drift(from, to, length, span) ==
  FromMiddle(to, length, span) - FromMiddle(from, length, span) - Shift(from, to, length, span)

ExactlyDivided(from, to, length, span) ==
  Exact((2 * from - length) * span, 2 * length) /\ Exact((to - from) * span, length)

LEMMA DriftIsSmall ==
  ASSUME NEW from \in Int, NEW to \in Int, NEW length \in Nat \ {0}, NEW span \in Int
  PROVE  /\ Drift(from, to, length, span) \in {0, 1}
         /\ ExactlyDivided(from, to, length, span) => Drift(from, to, length, span) = 0
<1> DEFINE A == (2 * from - length) * span
           B == (to - from) * span
<1>1. A \in Int /\ B \in Int
  OBVIOUS
<1>2. (2 * to - length) * span = A + 2 * B
  <2> DEFINE u == 2 * from - length
             v == to - from
  <2>1. u \in Int /\ v \in Int /\ 2 * to - length = u + 2 * v
    OBVIOUS
  <2> HIDE DEF u, v
  <2>2. (u + 2 * v) * span = u * span + 2 * (v * span)
    BY <2>1
  <2> QED  BY <2>1, <2>2 DEF u, v
<1> HIDE DEF A, B
<1>3. Drift(from, to, length, span)
        = (A + 2 * B) \div (2 * length) - A \div (2 * length) - B \div length
  BY <1>2 DEF Drift, FromMiddle, Shift, A, B
<1> QED  BY <1>1, <1>3, QuotientsAdd DEF ExactlyDivided, A, B

Dragged == dragging /\ ~IsEmpty(FractalRect) /\ \E p \in Pixels : DragTo(p)

DriftX == Drift(cursor.x - FractalRect.x, cursor'.x - FractalRect.x, FractalRect.w, view.span)

DriftY == Drift(cursor.y - FractalRect.y, cursor'.y - FractalRect.y, FractalRect.h,
                SpanY(view.span))

DragIsExact ==
  LET r == FractalRect
  IN  /\ ExactlyDivided(cursor.x - r.x, cursor'.x - r.x, r.w, view.span)
      /\ ExactlyDivided(cursor.y - r.y, cursor'.y - r.y, r.h, SpanY(view.span))

LEMMA WheelKeeps ==
  ViewInv /\ Wheel => WindowToComplex(view', cursor') = WindowToComplex(view, cursor)
<1> SUFFICES ASSUME ViewInv, Wheel
             PROVE  WindowToComplex(view', cursor') = WindowToComplex(view, cursor)
  OBVIOUS
<1> DEFINE r == FractalRect
           anchor == WindowToComplex(view, cursor)
<1>1. PICK span : span \in Nat \ {0} /\ view' = Zoomed(span) /\ cursor' = cursor
  <2>1. PICK factor \in {<<4, 5>>, <<5, 4>>} : ZoomAt(factor)
    BY DEF Wheel
  <2> DEFINE s == (view.span * factor[1]) \div factor[2]
  <2>2. s \in MinSpan..MaxSpan /\ view' = Zoomed(s) /\ cursor' = cursor
    BY <2>1 DEF ZoomAt
  <2> HIDE DEF s
  <2>3. s \in Nat \ {0}
    BY <2>2, ViewAssumption
  <2> QED  BY <2>2, <2>3
<1>2. SizeOK /\ view \in Views /\ cursor \in Points
  BY ViewSizes DEF ViewInv
<1>3. r.x \in Int /\ r.y \in Int /\ r.w \in Nat /\ r.h \in Nat
  BY <1>2, RectTypes
<1>4. /\ cursor.x - r.x \in Int /\ cursor.y - r.y \in Int /\ view.x \in Int /\ view.y \in Int
      /\ view.span \in Int /\ span \in Int
  BY <1>1, <1>2, <1>3 DEF Points, Views
<1>5. SpanY(view.span) \in Int /\ SpanY(span) \in Int
  BY <1>2, <1>4, SpanYInt
<1>6. anchor = [x |-> view.x + FromMiddle(cursor.x - r.x, r.w, view.span),
                y |-> view.y + FromMiddle(cursor.y - r.y, r.h, SpanY(view.span))]
  BY DEF WindowToComplex
<1> DEFINE fx == FromMiddle(cursor.x - r.x, r.w, span)
           fy == FromMiddle(cursor.y - r.y, r.h, SpanY(span))
<1>7. Zoomed(span) = [span |-> span, x |-> anchor.x - fx, y |-> anchor.y - fy]
  BY DEF Zoomed
<1>8. WindowToComplex(Zoomed(span), cursor)
        = [x |-> Zoomed(span).x + FromMiddle(cursor.x - r.x, r.w, Zoomed(span).span),
           y |-> Zoomed(span).y + FromMiddle(cursor.y - r.y, r.h, SpanY(Zoomed(span).span))]
  BY DEF WindowToComplex
<1> HIDE DEF r, anchor
<1>9. /\ FromMiddle(cursor.x - r.x, r.w, view.span) \in Int
      /\ FromMiddle(cursor.y - r.y, r.h, SpanY(view.span)) \in Int
      /\ fx \in Int /\ fy \in Int
  BY <1>3, <1>4, <1>5, FromMiddleInt
<1>10. Zoomed(span).span = span /\ Zoomed(span).x = anchor.x - fx /\ Zoomed(span).y = anchor.y - fy
  BY <1>7
<1>11. WindowToComplex(Zoomed(span), cursor)
        = [x |-> (anchor.x - fx) + fx, y |-> (anchor.y - fy) + fy]
  BY <1>8, <1>10
<1> HIDE DEF fx, fy
<1>12. anchor.x \in Int /\ anchor.y \in Int /\ anchor = [x |-> anchor.x, y |-> anchor.y]
  BY <1>4, <1>6, <1>9
<1>13. (anchor.x - fx) + fx = anchor.x /\ (anchor.y - fy) + fy = anchor.y
  BY <1>9, <1>12
<1> QED  BY <1>1, <1>11, <1>12, <1>13 DEF anchor

LEMMA DragDrifts ==
  ASSUME ViewInv, Dragged
  PROVE  /\ WindowToComplex(view, cursor) \in Points
         /\ WindowToComplex(view', cursor') = [x |-> WindowToComplex(view, cursor).x + DriftX,
                                               y |-> WindowToComplex(view, cursor).y + DriftY]
         /\ DriftX \in {0, 1} /\ DriftY \in {0, 1}
         /\ DragIsExact => DriftX = 0 /\ DriftY = 0
<1> DEFINE r == FractalRect
           tall == SpanY(view.span)
           ax == cursor.x - r.x
           ay == cursor.y - r.y
           bx == cursor'.x - r.x
           by == cursor'.y - r.y
<1>1. PICK p \in Pixels : MoveMouse(p, FALSE)
  BY DEF Dragged, DragTo
<1>2. SizeOK /\ view \in Views /\ cursor \in Points
  BY ViewSizes DEF ViewInv
<1>3. p \in Points
  BY <1>1, <1>2 DEF Pixels, Points, SizeOK
<1>4. /\ cursor' = p
      /\ view' = [view EXCEPT !.x = @ - ((p.x - cursor.x) * view.span) \div r.w,
                              !.y = @ - ((p.y - cursor.y) * tall) \div r.h]
  BY <1>1 DEF MoveMouse, Dragged
<1>5. r.x \in Int /\ r.y \in Int /\ r.w \in Nat \ {0} /\ r.h \in Nat \ {0}
  BY <1>2, RectTypes DEF Dragged, IsEmpty
<1>6. tall \in Int /\ view.span \in Int /\ view.x \in Int /\ view.y \in Int
  BY <1>2, SpanYInt DEF Views
<1>7. WindowToComplex(view, cursor)
        = [x |-> view.x + FromMiddle(ax, r.w, view.span), y |-> view.y + FromMiddle(ay, r.h, tall)]
  BY DEF WindowToComplex
<1>8. WindowToComplex(view', cursor')
        = [x |-> view'.x + FromMiddle(bx, r.w, view'.span),
           y |-> view'.y + FromMiddle(by, r.h, SpanY(view'.span))]
  BY DEF WindowToComplex
<1> HIDE DEF r, tall
<1>9. ax \in Int /\ ay \in Int /\ bx \in Int /\ by \in Int
      /\ p.x - cursor.x = bx - ax /\ p.y - cursor.y = by - ay
  BY <1>2, <1>3, <1>4, <1>5 DEF Points
<1> HIDE DEF ax, ay, bx, by
<1> DEFINE sx == Shift(ax, bx, r.w, view.span)
           sy == Shift(ay, by, r.h, tall)
<1>10. view' = [view EXCEPT !.x = @ - sx, !.y = @ - sy]
  BY <1>4, <1>9 DEF Shift
<1>11. sx \in Int /\ sy \in Int
  <2>1. (bx - ax) * view.span \in Int /\ (by - ay) * tall \in Int
    BY <1>6, <1>9
  <2> QED  BY <1>5, <2>1, IntDiv DEF Shift
<1>12. /\ FromMiddle(ax, r.w, view.span) \in Int /\ FromMiddle(bx, r.w, view.span) \in Int
       /\ FromMiddle(ay, r.h, tall) \in Int /\ FromMiddle(by, r.h, tall) \in Int
  BY <1>5, <1>6, <1>9, FromMiddleInt
<1> HIDE DEF sx, sy
<1>13. view'.x = view.x - sx /\ view'.y = view.y - sy /\ view'.span = view.span
  BY <1>2, <1>10 DEF Views
<1>14. /\ Drift(ax, bx, r.w, view.span)
            = FromMiddle(bx, r.w, view.span) - FromMiddle(ax, r.w, view.span) - sx
       /\ Drift(ay, by, r.h, tall) = FromMiddle(by, r.h, tall) - FromMiddle(ay, r.h, tall) - sy
  BY DEF Drift, sx, sy
<1>15. WindowToComplex(view, cursor) \in Points
  BY <1>6, <1>7, <1>12 DEF Points
<1>16. /\ view'.x + FromMiddle(bx, r.w, view.span)
            = (view.x + FromMiddle(ax, r.w, view.span)) + Drift(ax, bx, r.w, view.span)
       /\ view'.y + FromMiddle(by, r.h, tall)
            = (view.y + FromMiddle(ay, r.h, tall)) + Drift(ay, by, r.h, tall)
  BY <1>6, <1>11, <1>12, <1>13, <1>14
<1>17. WindowToComplex(view', cursor')
         = [x |-> WindowToComplex(view, cursor).x + Drift(ax, bx, r.w, view.span),
            y |-> WindowToComplex(view, cursor).y + Drift(ay, by, r.h, tall)]
  <2>1. SpanY(view'.span) = tall
    BY <1>13 DEF tall
  <2> QED  BY <1>7, <1>8, <1>13, <1>16, <2>1
<1>18. /\ Drift(ax, bx, r.w, view.span) \in {0, 1} /\ Drift(ay, by, r.h, tall) \in {0, 1}
       /\ ExactlyDivided(ax, bx, r.w, view.span) => Drift(ax, bx, r.w, view.span) = 0
       /\ ExactlyDivided(ay, by, r.h, tall) => Drift(ay, by, r.h, tall) = 0
  BY <1>5, <1>6, <1>9, DriftIsSmall
<1>19. DriftX = Drift(ax, bx, r.w, view.span) /\ DriftY = Drift(ay, by, r.h, tall)
  BY DEF DriftX, DriftY, ax, ay, bx, by, tall, r
<1>20. DragIsExact <=>
         ExactlyDivided(ax, bx, r.w, view.span) /\ ExactlyDivided(ay, by, r.h, tall)
  BY DEF DragIsExact, ax, ay, bx, by, tall, r
<1> QED  BY <1>15, <1>17, <1>18, <1>19, <1>20
-----------------------------------------------------------------------------
(***************************************************************************)
(* The hardware snapshot.  Numbers below a limit have a greatest.          *)
(***************************************************************************)
LEMMA LeastNatural ==
  ASSUME NEW S \in SUBSET Nat, S # {}
  PROVE  \E i \in S : \A j \in S : i <= j
<1>1. PICK i \in S : \A j \in S : ~(<<j, i>> \in OpToRel(<, Nat))
  BY NatLessThanWellFounded, WFMin
<1>2. \A j \in S : ~(j < i)
  BY <1>1 DEF OpToRel
<1> QED
  BY <1>2

LEMMA GreatestIsLast ==
  ASSUME NEW limit \in Nat, NEW S \in SUBSET (0..limit), S # {}
  PROVE  Greatest(S) \in S /\ \A m \in S : m <= Greatest(S)
<1>1. PICK room \in {limit - n : n \in S} : \A other \in {limit - n : n \in S} : room <= other
  <2>1. \A n \in S : limit - n \in Nat
    OBVIOUS
  <2>2. {limit - n : n \in S} \in SUBSET Nat /\ {limit - n : n \in S} # {}
    BY <2>1, Zenon
  <2> QED  BY <2>2, LeastNatural
<1>2. PICK n \in S : room = limit - n
  BY <1>1
<1>3. \A m \in S : m <= n
  <2>1. SUFFICES ASSUME NEW m \in S PROVE m <= n
    OBVIOUS
  <2>2. limit - n <= limit - m
    BY <1>1, <1>2
  <2> QED  BY <2>2
<1> QED  BY <1>2, <1>3 DEF Greatest

LEMMA FirstSetType ==
  ASSUME NEW values, NEW unset \in Nat, DOMAIN values \subseteq Nat,
         \A i \in DOMAIN values : values[i] \in Nat
  PROVE  FirstSet(values, unset) \in Nat
<1> DEFINE set == {i \in DOMAIN values : values[i] # unset}
<1>1. CASE set = {}
  BY <1>1 DEF FirstSet
<1>2. CASE set # {}
  <2>1. \E i \in set : \A j \in set : i <= j
    BY <1>2, LeastNatural
  <2>2. (CHOOSE i \in set : \A j \in set : i <= j) \in DOMAIN values
    BY <2>1
  <2> QED  BY <1>2, <2>2 DEF FirstSet
<1> QED  BY <1>1, <1>2

LEMMA DivGrows ==
  ASSUME NEW m \in Nat, NEW n \in Nat, NEW d \in Nat \ {0}, m <= n
  PROVE  m \div d <= n \div d
<1> DEFINE a == m \div d
           b == n \div d
<1>1. a \in Nat /\ b \in Nat /\ d * a <= m /\ n < d * b + d
  BY DivBounds
<1> HIDE DEF a, b
<1>2. SUFFICES ASSUME a >= b + 1 PROVE FALSE
  BY <1>1 DEF a, b
<1>3. d * a >= d * (b + 1)
  BY <1>1, <1>2
<1>4. d * (b + 1) = d * b + d /\ d * a \in Nat /\ d * b \in Nat
  BY <1>1
<1> QED  BY <1>1, <1>3, <1>4

(***************************************************************************)
(* What a list of cores believably says of a field, and the field shown    *)
(* for it in another unit.                                                 *)
(***************************************************************************)
Said(cores, field, limit) == {c[field] : c \in {x \in ToSet(cores) : x[field] \in 1..limit}}

LEMMA BestIsGreatest ==
  ASSUME NEW cores, NEW field, NEW limit \in Nat
  PROVE  /\ Best(cores, field, limit) \in Said(cores, field, limit) \cup {0}
         /\ \A n \in Said(cores, field, limit) : n <= Best(cores, field, limit)
         /\ Said(cores, field, limit) \subseteq 1..limit
<1> DEFINE said == Said(cores, field, limit)
<1>1. said \subseteq 1..limit
  BY DEF Said
<1>2. Best(cores, field, limit) = Greatest({0} \cup said)
  BY DEF Best, Said
<1> HIDE DEF said
<1>3. {0} \cup said \in SUBSET (0..limit) /\ {0} \cup said # {}
  BY <1>1
<1>4. Greatest({0} \cup said) \in {0} \cup said /\ \A m \in {0} \cup said : m <= Greatest({0} \cup said)
  BY <1>3, GreatestIsLast
<1> QED  BY <1>1, <1>2, <1>4 DEF said

LEMMA ShownFits ==
  ASSUME NEW cores, NEW field, NEW limit \in Nat, NEW unit \in Nat \ {0}, NEW native
  PROVE  ShownIsSourced(IF Best(cores, field, limit) # 0
                        THEN Best(cores, field, limit) \div unit ELSE native,
                        {n \div unit : n \in Said(cores, field, limit)}, native)
<1> DEFINE said == Said(cores, field, limit)
           best == Best(cores, field, limit)
           shown == IF best # 0 THEN best \div unit ELSE native
           reported == {n \div unit : n \in said}
<1>1. best \in said \cup {0} /\ (\A n \in said : n <= best) /\ said \subseteq 1..limit
  BY BestIsGreatest
<1> HIDE DEF said, best
<1>2. CASE best # 0
  <2>1. best \in said /\ shown = best \div unit
    BY <1>1, <1>2
  <2>2. \A n \in reported : n <= shown
    <3>1. SUFFICES ASSUME NEW k \in said PROVE k \div unit <= best \div unit
      BY <2>1
    <3>2. k \in Nat /\ best \in Nat /\ k <= best
      BY <1>1, <2>1
    <3> QED  BY <3>2, DivGrows
  <2> QED  BY <2>1, <2>2 DEF ShownIsSourced, said, best
<1>3. CASE best = 0
  <2>1. said = {}
    <3>1. SUFFICES ASSUME NEW k \in said PROVE FALSE
      OBVIOUS
    <3>2. k \in 1..limit /\ k <= 0
      BY <1>1, <1>3
    <3> QED  BY <3>2
  <2> QED  BY <1>3, <2>1 DEF ShownIsSourced, said, best
<1> QED  BY <1>2, <1>3

(***************************************************************************)
(* The native part of a report.                                            *)
(***************************************************************************)
LEMMA SequenceDomain ==
  ASSUME NEW S, NEW s \in Seq(S) PROVE DOMAIN s = 1..Len(s) /\ DOMAIN s \subseteq Nat
BY LenProperties

LEMMA LinuxTypes ==
  ASSUME NEW from, ReportTypes(from), from.system.platform = "linux"
  PROVE  LET s == FillLinux(from.system)
         IN  /\ DOMAIN s = DOMAIN Blank
             /\ s.line \in Nat /\ s.physical_cores \in Nat \ {0}
             /\ s.clusters = <<>>
<1> DEFINE system == from.system
           coresRead == [i \in DOMAIN system.cpuinfo |->
                           IF system.cpuinfo[i].key = "cpu cores"
                           THEN system.cpuinfo[i].value ELSE 0]
           linesRead == [i \in DOMAIN system.caches |-> system.caches[i].line]
           cores == FirstSet(coresRead, 0)
<1>1. /\ DOMAIN FillLinux(system) = DOMAIN Blank
      /\ FillLinux(system).line = FirstSet(linesRead, 0)
      /\ FillLinux(system).physical_cores = IF cores = 0 THEN system.online ELSE cores
      /\ FillLinux(system).clusters = <<>>
  BY DEF FillLinux, Blank
<1>2. /\ system.cpuinfo \in Seq(ToSet(system.cpuinfo))
      /\ system.caches \in Seq(ToSet(system.caches))
      /\ \A i \in DOMAIN system.cpuinfo :
           system.cpuinfo[i].key = "cpu cores" => system.cpuinfo[i].value \in Nat
      /\ system.online \in Nat \ {0}
      /\ \A i \in DOMAIN system.caches : system.caches[i].line \in Nat
  BY Zenon DEF ReportTypes
<1>3. DOMAIN system.cpuinfo \subseteq Nat /\ DOMAIN system.caches \subseteq Nat
  BY <1>2, SequenceDomain
<1>4. cores \in Nat
  <2>1. DOMAIN coresRead \subseteq Nat /\ \A i \in DOMAIN coresRead : coresRead[i] \in Nat
    BY <1>2, <1>3
  <2> HIDE DEF coresRead
  <2> QED  BY <2>1, FirstSetType
<1>5. FirstSet(linesRead, 0) \in Nat
  <2>1. DOMAIN linesRead \subseteq Nat /\ \A i \in DOMAIN linesRead : linesRead[i] \in Nat
    BY <1>2, <1>3
  <2> HIDE DEF linesRead
  <2> QED  BY <2>1, FirstSetType
<1> HIDE DEF cores, linesRead
<1> QED  BY <1>1, <1>2, <1>4, <1>5

LEMMA MacTypes ==
  ASSUME NEW from, ReportTypes(from), from.system.platform = "macos"
  PROVE  LET s == FillMac(from.system)
         IN  /\ DOMAIN s = DOMAIN Blank
             /\ s.line \in Nat /\ s.physical_cores \in Nat \ {0}
             /\ Len(s.clusters) <= MaxClusters
<1> DEFINE system == from.system
           number(key) == IF key \in DOMAIN system.numbers THEN system.numbers[key] ELSE 0
           room == IF Len(system.clusters) < MaxClusters THEN Len(system.clusters)
                                                         ELSE MaxClusters
<1>1. /\ DOMAIN FillMac(system) = DOMAIN Blank
      /\ FillMac(system).line = number("cachelinesize")
      /\ FillMac(system).physical_cores = number("physicalcpu")
      /\ FillMac(system).clusters = SubSeq(system.clusters, 1, room)
  <2> DEFINE brand == IF "brand_string" \in DOMAIN system.names
                      THEN system.names["brand_string"] ELSE "unknown"
             model == IF brand \in {"unknown", ""}
                      THEN IF "hw.model" \in DOMAIN system.names
                           THEN system.names["hw.model"] ELSE brand
                      ELSE brand
             clock(key) == number(key) \div HzPerMHz
             clusters == SubSeq(system.clusters, 1, room)
  <2>1. FillMac(system) =
          [Blank EXCEPT
             !.provider = "native", !.model = model,
             !.physical_cores = number("physicalcpu"), !.logical_cores = number("logicalcpu"),
             !.max_clock_mhz = clock("cpufrequency_max"),
             !.base_clock_mhz = clock("cpufrequency"),
             !.l1d = number("l1dcachesize"), !.l1i = number("l1icachesize"),
             !.l2 = number("l2cachesize"), !.l3 = number("l3cachesize"),
             !.line = number("cachelinesize"), !.clusters = clusters,
             !.ram = number("memsize")]
    BY Zenon DEF FillMac
  <2> HIDE DEF brand, model, clock, clusters, number
  <2>2. /\ DOMAIN FillMac(system) = DOMAIN Blank
        /\ FillMac(system).line = number("cachelinesize")
        /\ FillMac(system).physical_cores = number("physicalcpu")
        /\ FillMac(system).clusters = clusters
    BY <2>1 DEF Blank
  <2> QED  BY <2>2 DEF clusters
<1>2. /\ number("cachelinesize") \in Nat /\ number("physicalcpu") \in Nat \ {0}
      /\ system.clusters \in Seq(Nat)
  BY DEF ReportTypes
<1>3. Len(SubSeq(system.clusters, 1, room)) <= MaxClusters
  <2>1. room \in Nat /\ room <= Len(system.clusters) /\ room <= MaxClusters
    BY <1>2, HardwareAssumption
  <2> HIDE DEF room
  <2>2. Len(SubSeq(system.clusters, 1, room)) = room
    BY <1>2, <2>1
  <2> QED  BY <2>1, <2>2
<1> HIDE DEF number, room
<1> QED  BY <1>1, <1>2, <1>3

LEMMA NativeTypes ==
  ASSUME NEW from, ReportTypes(from)
  PROVE  LET s == FillNative(from.system)
         IN  /\ DOMAIN s = DOMAIN Blank
             /\ s.line \in Nat /\ s.physical_cores \in Nat
             /\ from.system.platform # "other" => s.physical_cores > 0
             /\ Len(s.clusters) <= MaxClusters
<1>1. from.system.platform \in {"linux", "macos", "other"}
  BY DEF ReportTypes
<1>2. Len(<<>>) <= MaxClusters
  BY HardwareAssumption
<1>3. CASE from.system.platform = "linux"
  <2>1. FillNative(from.system) = FillLinux(from.system)
    BY <1>3 DEF FillNative
  <2> QED  BY <1>2, <1>3, <2>1, LinuxTypes
<1>4. CASE from.system.platform = "macos"
  <2>1. FillNative(from.system) = FillMac(from.system)
    BY <1>4 DEF FillNative
  <2> QED  BY <1>4, <2>1, MacTypes
<1>5. CASE from.system.platform = "other"
  <2>1. FillNative(from.system) = Blank
    BY <1>5 DEF FillNative
  <2> QED  BY <1>2, <1>5, <2>1 DEF Blank
<1> QED  BY <1>1, <1>3, <1>4, <1>5

(***************************************************************************)
(* The snapshot's fields.  What hwinfo says of a field lies over what the  *)
(* system says of it; only a blank line size changes after that.           *)
(***************************************************************************)
Fields == DOMAIN Blank

Laid == Caches \cup {"max_clock_mhz", "base_clock_mhz", "clusters", "physical_cores", "line"}

Clock(cores, field, native) ==
  IF Best(cores, field, MaxHz) # 0 THEN Best(cores, field, MaxHz) \div HzPerMHz ELSE native

CpuLaid(s, hwinfo) == IF hwinfo.cpus = <<>> THEN s ELSE FillCpu(s, Head(hwinfo.cpus))

LEMMA CpuFields ==
  ASSUME NEW s, DOMAIN s = Fields, NEW said
  PROVE  /\ DOMAIN FillCpu(s, said) = Fields
         /\ FillCpu(s, said).line = s.line /\ FillCpu(s, said).clusters = s.clusters
         /\ FillCpu(s, said).physical_cores
              = IF said.physical > 0 THEN said.physical ELSE s.physical_cores
         /\ FillCpu(s, said).l1d = Over(Best(said.cores, "l1d", MaxCacheBytes), s.l1d)
         /\ FillCpu(s, said).l1i = Over(Best(said.cores, "l1i", MaxCacheBytes), s.l1i)
         /\ FillCpu(s, said).l2 = Over(Best(said.cores, "l2", MaxCacheBytes), s.l2)
         /\ FillCpu(s, said).l3 = Over(Best(said.cores, "l3", MaxCacheBytes), s.l3)
         /\ FillCpu(s, said).max_clock_mhz = Clock(said.cores, "max_hz", s.max_clock_mhz)
         /\ FillCpu(s, said).base_clock_mhz = Clock(said.cores, "regular_hz", s.base_clock_mhz)
BY DEF FillCpu, Clock, Fields, Blank

LEMMA LaidAreFields == Laid \subseteq Fields
BY DEF Laid, Fields, Blank, Caches

LEMMA HwinfoFields ==
  ASSUME NEW s, DOMAIN s = Fields, NEW hwinfo
  PROVE  /\ DOMAIN FillHwinfo(s, hwinfo) = Fields
         /\ \A field \in Laid : FillHwinfo(s, hwinfo)[field] = CpuLaid(s, hwinfo)[field]
<1> DEFINE filled == CpuLaid(s, hwinfo)
           any    == hwinfo.cpus # <<>> \/ hwinfo.ram > 0 \/ hwinfo.os
<1>1. DOMAIN filled = Fields
  BY CpuFields DEF CpuLaid
<1>2. FillHwinfo(s, hwinfo)
        = [filled EXCEPT !.ram = IF hwinfo.ram > 0 THEN hwinfo.ram ELSE @,
                         !.provider = IF any THEN "hwinfo" ELSE @]
  BY Zenon DEF FillHwinfo, CpuLaid
<1>3. "ram" \notin Laid /\ "provider" \notin Laid
  BY DEF Laid, Caches
<1> HIDE DEF filled, any
<1> QED  BY <1>1, <1>2, <1>3, LaidAreFields DEF filled

LEMMA SnapshotFields ==
  ASSUME NEW s, DOMAIN s = Fields, NEW hwinfo, NEW from,
         FillNative(from.system) = s, from.hwinfo = hwinfo
  PROVE  /\ BuildSnapshot(from).line = Over(CpuLaid(s, hwinfo).line, kCacheLineBytes)
         /\ \A field \in Laid \ {"line"} : BuildSnapshot(from)[field] = CpuLaid(s, hwinfo)[field]
<1> DEFINE f == FillHwinfo(s, hwinfo)
<1>1. DOMAIN f = Fields /\ \A field \in Laid : f[field] = CpuLaid(s, hwinfo)[field]
  BY HwinfoFields
<1>2. BuildSnapshot(from) = [f EXCEPT !.line = Over(@, kCacheLineBytes),
                                      !.logical_cores = Over(@, f.physical_cores)]
  BY Zenon DEF BuildSnapshot
<1>3. "logical_cores" \notin Laid /\ "line" \in Laid
  BY DEF Laid, Caches
<1> HIDE DEF f
<1>4. /\ BuildSnapshot(from).line = Over(f.line, kCacheLineBytes)
      /\ \A field \in Laid \ {"line"} : BuildSnapshot(from)[field] = f[field]
  BY <1>1, <1>2, <1>3, LaidAreFields
<1> QED  BY <1>1, <1>3, <1>4

LEMMA CoresAreInt == ASSUME NEW from, ReportTypes(from) PROVE BuildSnapshot(from).physical_cores \in Int
<1> DEFINE native == FillNative(from.system)
           top    == Head(from.hwinfo.cpus)
<1>1. DOMAIN native = Fields /\ native.physical_cores \in Nat
  BY NativeTypes DEF Fields
<1>2. from.hwinfo.cpus # <<>> => top.physical \in Int
  BY DEF ReportTypes
<1> HIDE DEF native, top
<1>3. BuildSnapshot(from).physical_cores = CpuLaid(native, from.hwinfo).physical_cores
  <2>1. "physical_cores" \in Laid \ {"line"}
    BY DEF Laid
  <2> QED  BY <1>1, <2>1, SnapshotFields DEF native
<1>4. CASE from.hwinfo.cpus = <<>>
  BY <1>1, <1>3, <1>4 DEF CpuLaid
<1>5. CASE from.hwinfo.cpus # <<>>
  <2>1. CpuLaid(native, from.hwinfo) = FillCpu(native, top)
    BY <1>5 DEF CpuLaid, top
  <2>2. FillCpu(native, top).physical_cores
          = IF top.physical > 0 THEN top.physical ELSE native.physical_cores
    BY <1>1, CpuFields
  <2> QED  BY <1>1, <1>2, <1>3, <1>5, <2>1, <2>2
<1> QED  BY <1>4, <1>5

(***************************************************************************)
(* The statement of SnapshotIsSourced for one report.                      *)
(***************************************************************************)
SaidOf(hwinfo, field, limit, unit) ==
  {core[field] \div unit : core \in {c \in CoresOf(hwinfo) : c[field] \in 1..limit}}

SourcedFields(shown, native, hwinfo) ==
  /\ \A field \in Caches :
       ShownIsSourced(shown[field], SaidOf(hwinfo, field, MaxCacheBytes, 1), native[field])
  /\ ShownIsSourced(shown.max_clock_mhz, SaidOf(hwinfo, "max_hz", MaxHz, HzPerMHz),
                    native.max_clock_mhz)
  /\ ShownIsSourced(shown.base_clock_mhz, SaidOf(hwinfo, "regular_hz", MaxHz, HzPerMHz),
                    native.base_clock_mhz)

LEMMA LaidIsSourced ==
  ASSUME NEW s, DOMAIN s = Fields, NEW hwinfo
  PROVE  SourcedFields(CpuLaid(s, hwinfo), s, hwinfo)
<1>1. CASE hwinfo.cpus = <<>>
  <2>1. CpuLaid(s, hwinfo) = s
    BY <1>1 DEF CpuLaid
  <2>2. \A field, limit, unit : SaidOf(hwinfo, field, limit, unit) = {}
    BY <1>1 DEF SaidOf, CoresOf
  <2> QED  BY <2>1, <2>2 DEF SourcedFields, ShownIsSourced
<1>2. CASE hwinfo.cpus # <<>>
  <2> DEFINE top == Head(hwinfo.cpus)
             f   == FillCpu(s, top)
  <2>1. CpuLaid(s, hwinfo) = f /\ CoresOf(hwinfo) = ToSet(top.cores)
    BY <1>2 DEF CpuLaid, CoresOf
  <2>2. \A field, limit, unit :
          SaidOf(hwinfo, field, limit, unit) = {n \div unit : n \in Said(top.cores, field, limit)}
    BY <2>1 DEF SaidOf, Said
  <2>3. /\ f.l1d = Over(Best(top.cores, "l1d", MaxCacheBytes), s.l1d)
        /\ f.l1i = Over(Best(top.cores, "l1i", MaxCacheBytes), s.l1i)
        /\ f.l2 = Over(Best(top.cores, "l2", MaxCacheBytes), s.l2)
        /\ f.l3 = Over(Best(top.cores, "l3", MaxCacheBytes), s.l3)
        /\ f.max_clock_mhz = Clock(top.cores, "max_hz", s.max_clock_mhz)
        /\ f.base_clock_mhz = Clock(top.cores, "regular_hz", s.base_clock_mhz)
    BY CpuFields
  <2> HIDE DEF top, f
  <2>4. \A field \in Caches :
          f[field] = Over(Best(top.cores, field, MaxCacheBytes), s[field])
    BY <2>3 DEF Caches
  <2>5. \A field \in Caches :
          ShownIsSourced(f[field], SaidOf(hwinfo, field, MaxCacheBytes, 1), s[field])
    <3>1. SUFFICES ASSUME NEW field \in Caches
                   PROVE  ShownIsSourced(f[field], SaidOf(hwinfo, field, MaxCacheBytes, 1), s[field])
      OBVIOUS
    <3> DEFINE best == Best(top.cores, field, MaxCacheBytes)
    <3>2. best \in Nat
      <4>1. MaxCacheBytes \in Nat
        BY HardwareAssumption
      <4> QED  BY <4>1, BestIsGreatest
    <3>3. f[field] = IF best # 0 THEN best \div 1 ELSE s[field]
      <4>1. f[field] = Over(best, s[field])
        BY <2>4
      <4> HIDE DEF best
      <4> QED  BY <3>2, <4>1 DEF Over
    <3>4. ShownIsSourced(IF best # 0 THEN best \div 1 ELSE s[field],
                         {n \div 1 : n \in Said(top.cores, field, MaxCacheBytes)}, s[field])
      <4>1. MaxCacheBytes \in Nat /\ 1 \in Nat \ {0}
        BY HardwareAssumption
      <4> QED  BY <4>1, ShownFits
    <3> HIDE DEF best
    <3> QED  BY <2>2, <3>3, <3>4
  <2>6. \A field, native :
          ShownIsSourced(Clock(top.cores, field, native),
                         SaidOf(hwinfo, field, MaxHz, HzPerMHz), native)
    <3>1. ASSUME NEW field, NEW native
          PROVE  ShownIsSourced(Clock(top.cores, field, native),
                                {n \div HzPerMHz : n \in Said(top.cores, field, MaxHz)}, native)
      <4>1. MaxHz \in Nat /\ HzPerMHz \in Nat \ {0}
        BY HardwareAssumption
      <4> QED  BY <4>1, ShownFits DEF Clock
    <3> QED  BY <2>2, <3>1
  <2> QED  BY <2>1, <2>3, <2>5, <2>6 DEF SourcedFields
<1> QED  BY <1>1, <1>2

LEMMA SnapshotSourced ==
  ASSUME NEW from, ReportTypes(from)
  PROVE  /\ SourcedFields(BuildSnapshot(from), FillNative(from.system), from.hwinfo)
         /\ BuildSnapshot(from).line > 0 /\ Len(BuildSnapshot(from).clusters) <= MaxClusters
         /\ from.system.platform # "other" => BuildSnapshot(from).physical_cores > 0
<1> DEFINE native == FillNative(from.system)
           hwinfo == from.hwinfo
           laid   == CpuLaid(native, hwinfo)
           shown  == BuildSnapshot(from)
<1>1. /\ DOMAIN native = Fields
      /\ native.line \in Nat
      /\ from.system.platform # "other" => native.physical_cores > 0
      /\ Len(native.clusters) <= MaxClusters
  BY NativeTypes DEF Fields
<1> HIDE DEF native
<1>2. /\ shown.line = Over(laid.line, kCacheLineBytes)
      /\ \A field \in Laid \ {"line"} : shown[field] = laid[field]
  BY <1>1, SnapshotFields DEF native
<1>3. SourcedFields(laid, native, hwinfo)
  BY <1>1, LaidIsSourced
<1>4. /\ laid.line = native.line /\ laid.clusters = native.clusters
      /\ from.system.platform # "other" => laid.physical_cores > 0
  <2>1. CASE hwinfo.cpus = <<>>
    BY <1>1, <2>1 DEF CpuLaid
  <2>2. CASE hwinfo.cpus # <<>>
    <3> DEFINE top == Head(hwinfo.cpus)
    <3>1. laid = FillCpu(native, top)
      BY <2>2 DEF CpuLaid
    <3>2. /\ FillCpu(native, top).line = native.line
          /\ FillCpu(native, top).clusters = native.clusters
          /\ FillCpu(native, top).physical_cores
               = IF top.physical > 0 THEN top.physical ELSE native.physical_cores
      BY <1>1, CpuFields
    <3> HIDE DEF top, laid
    <3> QED  BY <1>1, <3>1, <3>2
  <2> QED  BY <2>1, <2>2
<1> HIDE DEF laid, shown, hwinfo
<1>5. /\ \A field \in Caches : shown[field] = laid[field]
      /\ shown.max_clock_mhz = laid.max_clock_mhz /\ shown.base_clock_mhz = laid.base_clock_mhz
      /\ shown.clusters = laid.clusters /\ shown.physical_cores = laid.physical_cores
  BY <1>2 DEF Laid, Caches
<1>6. SourcedFields(shown, native, hwinfo)
  BY <1>3, <1>5 DEF SourcedFields
<1>7. shown.line > 0
  BY <1>1, <1>2, <1>4, HardwareAssumption DEF Over
<1> QED  BY <1>1, <1>4, <1>5, <1>6, <1>7 DEF shown, native, hwinfo
-----------------------------------------------------------------------------
(***************************************************************************)
(* The panel: the thread count reaches the pool, the frame and the report  *)
(* by three clamps; until the next control the report is of the last frame.*)
(***************************************************************************)
PoolInv ==
  /\ \E i \in Instances : source = i.source /\ setting = i.setting
  /\ snapshot \in {NoSnapshot, BuildSnapshot(source)}
  /\ pc # "leaf1" => snapshot # NoSnapshot
  /\ started \in BOOLEAN /\ fresh \in BOOLEAN
  /\ thread_count \in Int /\ live_mips \in Nat
  /\ max_thread_count \in 1..kMaxRenderThreads
  /\ last_thread_count \in 1..max_thread_count
  /\ started => pc = "run" /\ max_thread_count = AtMost(Cores, kMaxRenderThreads)
  /\ ~started => max_thread_count = 1 /\ thread_count = 1 /\ ~fresh
  /\ fresh => last_thread_count = Participants

LEMMA SettingTypes ==
  ASSUME PoolInv
  PROVE  /\ snapshot.physical_cores \in Int
         /\ setting.rates \subseteq Nat
         /\ setting.windows \subseteq [w : Nat, h : Nat]
<1>1. PICK i \in Instances : source = i.source /\ setting = i.setting
  BY DEF PoolInv
<1>2. /\ ReportTypes(i.source)
      /\ i.setting.rates \subseteq Nat /\ i.setting.windows \subseteq [w : Nat, h : Nat]
  BY DashboardAssumption
<1>3. NoSnapshot.physical_cores = 0
  BY DEF NoSnapshot, Blank
<1> QED  BY <1>1, <1>2, <1>3, CoresAreInt DEF PoolInv

PanelInv == PoolInv /\ ViewInv

LEMMA PanelStart == Init => PanelInv
<1> SUFFICES ASSUME Init PROVE PanelInv
  OBVIOUS
<1>1. PICK i \in Instances :
        /\ source = i.source /\ setting = i.setting
        /\ \E w \in i.setting.windows : ViewInit(w)
  BY DEF Init
<1>2. PoolInv
  <2>1. /\ pc = "leaf1" /\ snapshot = NoSnapshot /\ started = FALSE /\ fresh = FALSE
        /\ max_thread_count = 1 /\ thread_count = 1 /\ last_thread_count = 1 /\ live_mips = 0
    BY DEF Init, RegistryInit
  <2>2. 1 \in 1..kMaxRenderThreads /\ 1 \in 1..1
    BY DashboardAssumption
  <2>3. snapshot \in {NoSnapshot, BuildSnapshot(source)} /\ (pc # "leaf1" => snapshot # NoSnapshot)
    BY <2>1
  <2>4. /\ started \in BOOLEAN /\ fresh \in BOOLEAN /\ thread_count \in Int /\ live_mips \in Nat
        /\ max_thread_count \in 1..kMaxRenderThreads /\ last_thread_count \in 1..max_thread_count
    <3>1. 1 \in Int /\ 0 \in Nat
      OBVIOUS
    <3> QED  BY <2>1, <2>2, <3>1, Zenon
  <2> QED  BY <1>1, <2>1, <2>3, <2>4, Zenon DEF PoolInv
<1>3. ViewInv
  <2>1. PICK w \in i.setting.windows : ViewInit(w)
    BY <1>1
  <2>2. w \in [w : Nat, h : Nat]
    BY DashboardAssumption
  <2>3. 1 \in DOMAIN Resolutions /\ 1 \in DOMAIN Places
    BY ViewAssumption
  <2>4. Places[1] \in Views
    BY <2>3, ViewAssumption, ElementIn DEF Views
  <2>5. [x |-> 0, y |-> 0] \in Points
    BY DEF Points
  <2>6. /\ view = Places[1] /\ resolution_index = 1 /\ window = w
        /\ cursor = [x |-> 0, y |-> 0] /\ dragging = FALSE
    BY <2>1 DEF ViewInit
  <2> QED  BY <2>2, <2>3, <2>4, <2>5, <2>6 DEF ViewInv
<1> QED  BY <1>2, <1>3 DEF PanelInv

LEMMA MaxThreads ==
  ASSUME PoolInv
  PROVE  /\ Cores \in Nat \ {0}
         /\ AtMost(Cores, kMaxRenderThreads) \in 1..kMaxRenderThreads
         /\ Participants \in 1..max_thread_count
<1>1. Cores \in Nat \ {0}
  BY SettingTypes DEF Cores
<1>2. AtMost(Cores, kMaxRenderThreads) \in 1..kMaxRenderThreads
  BY <1>1, DashboardAssumption DEF AtMost
<1>3. Participants \in 1..max_thread_count
  BY DashboardAssumption DEF Participants, AtMost, PoolInv
<1> QED  BY <1>1, <1>2, <1>3

LEMMA PoolStep == PoolInv /\ [Next]_vars => PoolInv'
<1> SUFFICES ASSUME PoolInv, [Next]_vars PROVE PoolInv'
  OBVIOUS
<1>1. CASE AskHardware
  <2>1. /\ snapshot = NoSnapshot /\ snapshot' = BuildSnapshot(source) /\ source' = source
        /\ setting' = setting /\ pc' = pc /\ UNCHANGED poolVars /\ UNCHANGED panelVars
    BY <1>1 DEF AskHardware, QueryHardware, registryVars
  <2>2. ~started /\ pc = "leaf1" /\ ~fresh
    BY <2>1 DEF PoolInv
  <2> QED  BY <2>1, <2>2 DEF PoolInv, poolVars, panelVars
<1>2. CASE MakeRegistry
  <2>1. /\ snapshot # NoSnapshot /\ UNCHANGED hardwareVars /\ UNCHANGED poolVars
        /\ UNCHANGED panelVars /\ setting' = setting /\ (Detect \/ Build)
    BY <1>2 DEF MakeRegistry
  <2>2. pc # "run"
    BY <2>1 DEF Detect, DetectOther, ReadLeaf1, ReadXcr0, ReadLeaf7, Build
  <2>3. ~started
    BY <2>2 DEF PoolInv
  <2> QED  BY <2>1, <2>3 DEF PoolInv, poolVars, panelVars, hardwareVars
<1>3. CASE InitApp
  <2>1. /\ pc = "run" /\ ~started /\ started' = TRUE /\ thread_count' = 1
        /\ max_thread_count' = AtMost(Cores, kMaxRenderThreads)
        /\ UNCHANGED registryVars /\ UNCHANGED hardwareVars /\ UNCHANGED panelVars
        /\ last_thread_count' = last_thread_count /\ setting' = setting
    BY <1>3 DEF InitApp
  <2>2. pc' = pc /\ snapshot' = snapshot /\ source' = source /\ fresh' = fresh
        /\ live_mips' = live_mips /\ Cores' = Cores
    BY <2>1 DEF registryVars, hardwareVars, panelVars, Cores
  <2>3. last_thread_count = 1 /\ ~fresh
    BY <2>1 DEF PoolInv
  <2>4. AtMost(Cores, kMaxRenderThreads) \in 1..kMaxRenderThreads
    BY MaxThreads
  <2>5. 1 \in 1..max_thread_count'
    BY <2>1, <2>4
  <2>6. max_thread_count' = AtMost(Cores, kMaxRenderThreads)'
    BY <2>1, <2>2 DEF AtMost
  <2> QED  BY <2>1, <2>2, <2>3, <2>4, <2>5, <2>6 DEF PoolInv
<1>4. CASE Frame
  <2>1. /\ started /\ pc' = pc /\ last_thread_count' = Participants
        /\ live_mips' \in setting.rates /\ fresh' = TRUE /\ UNCHANGED hardwareVars
        /\ started' = started /\ max_thread_count' = max_thread_count
        /\ thread_count' = thread_count /\ setting' = setting
    BY <1>4 DEF Frame, Run
  <2>2. live_mips' \in Nat /\ Participants \in 1..max_thread_count
    BY <2>1, SettingTypes, MaxThreads
  <2>3. Participants' = Participants
        /\ AtMost(Cores, kMaxRenderThreads)' = AtMost(Cores, kMaxRenderThreads)
    BY <2>1 DEF Participants, AtMost, Cores, hardwareVars
  <2> QED  BY <2>1, <2>2, <2>3 DEF PoolInv, hardwareVars
<1>5. CASE UseKernel
  <2>1. /\ started /\ fresh' = FALSE /\ UNCHANGED hardwareVars /\ UNCHANGED poolVars
        /\ live_mips' = live_mips /\ setting' = setting /\ pc' = pc
    BY <1>5 DEF UseKernel, SelectAny, Select
  <2>2. AtMost(Cores, kMaxRenderThreads)' = AtMost(Cores, kMaxRenderThreads)
    BY <2>1 DEF AtMost, Cores, hardwareVars
  <2> QED  BY <2>1, <2>2 DEF PoolInv, hardwareVars, poolVars
<1>6. CASE SetThreads
  <2>1. /\ started /\ fresh' = FALSE /\ UNCHANGED hardwareVars /\ UNCHANGED registryVars
        /\ thread_count' \in ThreadInputs \cup {max_thread_count}
        /\ started' = started /\ max_thread_count' = max_thread_count
        /\ last_thread_count' = last_thread_count /\ live_mips' = live_mips /\ setting' = setting
    BY <1>6 DEF SetThreads
  <2>2. thread_count' \in Int
    <3>1. ThreadInputs \subseteq Int
      BY DashboardAssumption
    <3>2. max_thread_count \in Int
      BY DEF PoolInv
    <3> QED  BY <2>1, <3>1, <3>2
  <2>3. AtMost(Cores, kMaxRenderThreads)' = AtMost(Cores, kMaxRenderThreads)
    BY <2>1 DEF AtMost, Cores, hardwareVars
  <2> QED  BY <2>1, <2>2, <2>3 DEF PoolInv, hardwareVars, registryVars
<1>7. CASE UseView
  <2>1. /\ started /\ fresh' = FALSE /\ UNCHANGED hardwareVars /\ UNCHANGED registryVars
        /\ UNCHANGED poolVars /\ live_mips' = live_mips /\ setting' = setting
    BY <1>7 DEF UseView
  <2>2. AtMost(Cores, kMaxRenderThreads)' = AtMost(Cores, kMaxRenderThreads)
    BY <2>1 DEF AtMost, Cores, hardwareVars
  <2> QED  BY <2>1, <2>2 DEF PoolInv, hardwareVars, registryVars, poolVars
<1>8. CASE UNCHANGED vars
  <2>1. /\ UNCHANGED hardwareVars /\ UNCHANGED poolVars /\ UNCHANGED panelVars
        /\ pc' = pc /\ setting' = setting
    BY <1>8 DEF vars, registryVars
  <2>2. AtMost(Cores, kMaxRenderThreads)' = AtMost(Cores, kMaxRenderThreads)
        /\ Participants' = Participants
    BY <2>1 DEF AtMost, Cores, Participants, hardwareVars, poolVars
  <2> QED  BY <2>1, <2>2 DEF PoolInv, hardwareVars, poolVars, panelVars
<1> QED  BY <1>1, <1>2, <1>3, <1>4, <1>5, <1>6, <1>7, <1>8 DEF Next

LEMMA ViewStep == PanelInv /\ [Next]_vars => ViewInv'
<1> SUFFICES ASSUME PanelInv, [Next]_vars PROVE ViewInv'
  OBVIOUS
<1>1. CASE UseView
  <2>1. CASE Navigate
    BY <2>1, NavigateTypes DEF PanelInv
  <2>2. CASE \E w \in setting.windows : Resize(w)
    BY <2>2, SettingTypes DEF PanelInv, ViewInv, Resize
  <2> QED  BY <1>1, <2>1, <2>2 DEF UseView
<1>2. CASE UNCHANGED viewVars
  BY <1>2 DEF viewVars, PanelInv, ViewInv
<1> QED  BY <1>1, <1>2 DEF Next, vars, AskHardware, MakeRegistry, InitApp, Frame, UseKernel, SetThreads

LEMMA PanelStep == PanelInv /\ [Next]_vars => PanelInv'
BY PoolStep, ViewStep DEF PanelInv

(***************************************************************************)
(* "Your computer" describes the threads that made the number, on machines *)
(* with any number of cores and for any number typed into the slider       *)
(* (src/src/performance_grade.cpp:129 and src/src/thread_pool.cpp:141).    *)
(***************************************************************************)
THEOREM PanelDescribesTheFrame == Spec => []PanelMatchesPool
<1>1. PanelInv => PanelMatchesPool
  <2>1. SUFFICES ASSUME PanelInv PROVE PanelMatchesPool
    OBVIOUS
  <2>2. DashboardTypeOK
    BY <2>1 DEF PanelInv, PoolInv, ViewInv, Views, DashboardTypeOK
  <2>3. SUFFICES ASSUME fresh
                 PROVE  /\ PoolHoldsCores \/ thread_count <= max_thread_count =>
                             Utilisation.cores_used = last_thread_count
                        /\ PoolHoldsCores /\ Utilisation.using_whole_chip =>
                             last_thread_count = Utilisation.cores_total
                        /\ PoolHoldsCores /\ Utilisation.projection_valid =>
                             max_thread_count = Utilisation.cores_total
    BY <2>2 DEF PanelMatchesPool
  <2> DEFINE cores == snapshot.physical_cores
             total == IF cores < 1 THEN 1 ELSE cores
             asked == IF thread_count < 1 THEN 1 ELSE thread_count
             used  == IF asked > total THEN total ELSE asked
  <2>4. /\ Utilisation.cores_total = total /\ Utilisation.cores_used = used
        /\ Utilisation.using_whole_chip <=> used >= total
    BY DEF Utilisation, DescribeUtilisation
  <2>5. /\ cores \in Int /\ thread_count \in Int /\ kMaxRenderThreads \in Nat \ {0}
        /\ last_thread_count = Participants /\ max_thread_count = AtMost(Cores, kMaxRenderThreads)
    BY <2>1, <2>3, SettingTypes, DashboardAssumption DEF PanelInv, PoolInv
  <2>6. Cores = total /\ total \in Nat \ {0} /\ used \in Nat \ {0}
    BY <2>5 DEF Cores
  <2>7. (total <= kMaxRenderThreads) => max_thread_count = total
    BY <2>5, <2>6 DEF AtMost
  <2>8. max_thread_count <= total
    BY <2>5, <2>6 DEF AtMost
  <2>9. last_thread_count = IF thread_count < 1 THEN 1
                            ELSE IF thread_count > max_thread_count THEN max_thread_count
                                                                    ELSE thread_count
    BY <2>5 DEF Participants, AtMost
  <2>10. max_thread_count \in Nat \ {0}
    BY <2>5, <2>6 DEF AtMost
  <2>11. (total <= kMaxRenderThreads) \/ thread_count <= max_thread_count => used = last_thread_count
    BY <2>5, <2>6, <2>7, <2>8, <2>9, <2>10
  <2>12. PoolHoldsCores <=> total <= kMaxRenderThreads
    BY <2>4 DEF PoolHoldsCores
  <2> HIDE DEF used, total
  <2>13. used <= total
    BY <2>5, <2>6 DEF used, total
  <2> QED  BY <2>4, <2>6, <2>7, <2>11, <2>12, <2>13
<1> QED  BY <1>1, PanelStart, PanelStep, PTL DEF Spec

(***************************************************************************)
(* Every cache and clock on display is the greatest that hwinfo believably *)
(* reports for any core, or the native value where it reports none, in     *)
(* whatever order and number the cores come and whatever else they say     *)
(* (src/src/hardware_info.cpp:316); no supported machine is shown without  *)
(* a processor or a line size.                                             *)
(***************************************************************************)
THEOREM EverythingShownIsSourced == Spec => []SnapshotIsSourced
<1>1. PanelInv => SnapshotIsSourced
  <2>1. SUFFICES ASSUME PanelInv, snapshot # NoSnapshot PROVE SnapshotIsSourced
    BY DEF SnapshotIsSourced
  <2>2. PICK i \in Instances : source = i.source
    BY <2>1 DEF PanelInv, PoolInv
  <2>3. snapshot = BuildSnapshot(source) /\ ReportTypes(source)
    BY <2>1, <2>2, DashboardAssumption DEF PanelInv, PoolInv
  <2>4. /\ SourcedFields(snapshot, FillNative(source.system), source.hwinfo)
        /\ snapshot.line > 0 /\ Len(snapshot.clusters) <= MaxClusters
        /\ source.system.platform # "other" => snapshot.physical_cores > 0
    BY <2>3, SnapshotSourced
  <2>5. \A field, limit, unit :
          Believable(field, limit, unit) = SaidOf(source.hwinfo, field, limit, unit)
    BY DEF Believable, SaidOf
  <2> QED  BY <2>4, <2>5 DEF SnapshotIsSourced, SourcedFields
<1> QED  BY <1>1, PanelStart, PanelStep, PTL DEF Spec

(***************************************************************************)
(* Verdict and scale agree for every rate a frame reaches.                 *)
(***************************************************************************)
THEOREM ScaleMatchesTheGrade == Spec => []ScaleMatchesGrade
<1>1. PanelInv => ScaleMatchesGrade
  BY ScaleFitsEveryRate DEF PanelInv, PoolInv, ScaleMatchesGrade
<1> QED  BY <1>1, PanelStart, PanelStep, PTL DEF Spec

(***************************************************************************)
(* The picture lies inside the window for every window and resolution      *)
(* (src/src/main.cpp:447).                                                 *)
(***************************************************************************)
THEOREM PictureIsInside == Spec => []LetterboxInside
<1>1. PanelInv => LetterboxInside
  BY ViewSizes, LetterboxFits DEF PanelInv
<1> QED  BY <1>1, PanelStart, PanelStep, PTL DEF Spec

(***************************************************************************)
(* The wheel keeps the point under the cursor fixed, exactly, wherever the *)
(* cursor is and whatever the window and the resolution                    *)
(* (src/src/main.cpp:570); what it adds for the old span it takes away for *)
(* the new one by the same division.                                       *)
(***************************************************************************)
THEOREM WheelKeepsPoint ==
  Spec => [][Wheel => WindowToComplex(view', cursor') = WindowToComplex(view, cursor)]_viewVars
<1>1. PanelInv =>
        [Wheel => WindowToComplex(view', cursor') = WindowToComplex(view, cursor)]_viewVars
  BY WheelKeeps DEF PanelInv
<1> QED  BY <1>1, PanelStart, PanelStep, PTL DEF Spec

(***************************************************************************)
(* A drag moves the image with the cursor to a unit of rounding, in each   *)
(* direction, however long the way of the mouse between two events         *)
(* (src/src/main.cpp:542).                                                 *)
(***************************************************************************)
THEOREM DragFollowsCursor ==
  Spec => [][Dragged =>
               LET now    == WindowToComplex(view', cursor')
                   before == WindowToComplex(view, cursor)
               IN  now.x - before.x \in {0, 1} /\ now.y - before.y \in {0, 1}]_viewVars
<1>1. PanelInv =>
        [Dragged => LET now    == WindowToComplex(view', cursor')
                        before == WindowToComplex(view, cursor)
                    IN  now.x - before.x \in {0, 1} /\ now.y - before.y \in {0, 1}]_viewVars
  <2>1. SUFFICES ASSUME ViewInv, Dragged
                 PROVE  /\ WindowToComplex(view', cursor').x - WindowToComplex(view, cursor).x \in {0, 1}
                        /\ WindowToComplex(view', cursor').y - WindowToComplex(view, cursor).y \in {0, 1}
    BY DEF PanelInv
  <2> DEFINE before == WindowToComplex(view, cursor)
             now    == WindowToComplex(view', cursor')
  <2>2. /\ before \in Points /\ now = [x |-> before.x + DriftX, y |-> before.y + DriftY]
        /\ DriftX \in {0, 1} /\ DriftY \in {0, 1}
    BY <2>1, DragDrifts
  <2> HIDE DEF before, now
  <2>3. before.x \in Int /\ before.y \in Int
    BY <2>2 DEF Points
  <2>4. now.x - before.x \in {0, 1} /\ now.y - before.y \in {0, 1}
    BY <2>2, <2>3
  <2> QED  BY <2>4 DEF before, now
<1> QED  BY <1>1, PanelStart, PanelStep, PTL DEF Spec

(***************************************************************************)
(* Where the divisions of a drag leave no remainder, as they do in the     *)
(* instance checked, the point under the cursor stays exactly: nothing but *)
(* rounding comes between the code and CursorKeepsPoint.                   *)
(***************************************************************************)
THEOREM ExactDragsKeepPoint ==
  Spec /\ [][Dragged => DragIsExact]_viewVars => CursorKeepsPoint
<1>1. PanelInv /\ [Dragged => DragIsExact]_viewVars =>
        [\/ Wheel
         \/ dragging /\ ~IsEmpty(FractalRect) /\ \E p \in Pixels : DragTo(p)
         => WindowToComplex(view', cursor') = WindowToComplex(view, cursor)]_viewVars
  <2>1. CASE UNCHANGED viewVars
    BY <2>1
  <2>2. CASE Wheel
    BY <2>2, WheelKeeps DEF PanelInv
  <2>3. ASSUME PanelInv, Dragged, DragIsExact
        PROVE  WindowToComplex(view', cursor') = WindowToComplex(view, cursor)
    <3>1. ViewInv
      BY <2>3 DEF PanelInv
    <3> DEFINE here == WindowToComplex(view, cursor)
    <3>2. here \in Points /\ WindowToComplex(view', cursor') = [x |-> here.x + 0, y |-> here.y + 0]
      BY <2>3, <3>1, DragDrifts
    <3> HIDE DEF here
    <3>3. here = [x |-> here.x, y |-> here.y] /\ here.x \in Int /\ here.y \in Int
      BY <3>2 DEF Points
    <3>4. WindowToComplex(view', cursor') = here
      BY <3>2, <3>3
    <3> QED  BY <3>4 DEF here
  <2> QED  BY <2>1, <2>2, <2>3 DEF Dragged
<1> QED  BY <1>1, PanelStart, PanelStep, PTL DEF Spec, CursorKeepsPoint
=============================================================================
