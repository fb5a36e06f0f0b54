----------------------------- MODULE RenderTarget -----------------------------
(***************************************************************************)
(* The buffers all renders share (src/src/render_target.cpp): iteration    *)
(* counts, the verification's reference, the palette's lookup table and    *)
(* the picture, with their users: the displayed frame, the sweep and the   *)
(* verification pass.                                                      *)
(*                                                                         *)
(* A pixel is its position; a view gives each pixel the iteration at which *)
(* it escapes.  A colour is Black, or the palette, index and limit that    *)
(* the gradient is sampled at (only Grayscale has a shade that looks black,*)
(* the one for a count of 0, which no pixel has whose limit is not below 1)*)
(***************************************************************************)
EXTENDS Integers, FiniteSets, FiniteSetsExt

CONSTANTS
  Cap,          \* kMaxIterationCap
  Views,
  Limits,       \* what view_.max_iter can be: the slider takes any typed number
  Resolutions,  \* the visible pixels are 1 .. r
  MaxPixels,
  Palettes,
  Kernels, Available,  \* indices of the registry, and those the machine can run
  Scalar,              \* the scalar kernel is registered first
  Faults,              \* what each kernel may do with each pixel
  Black, NoColour, NoRow

Pixels == 1..MaxPixels

(***************************************************************************)
(* What a kernel does with a pixel: count it, miscount it or leave what    *)
(* the buffer held.                                                        *)
(***************************************************************************)
Deeds == {"counts", "miscounts", "skips"}

ASSUME TargetAssumption ==
  /\ Cap \in Nat \ {0} /\ Limits \subseteq Int
  /\ MaxPixels \in Nat /\ Resolutions \subseteq 1..MaxPixels
  /\ Views \subseteq [Pixels -> 1..(Cap + 1)]
  /\ Available \subseteq Kernels /\ Kernels \subseteq Nat
  /\ Scalar \in Available /\ \A k \in Kernels : Scalar <= k
  /\ Faults \subseteq [Kernels -> [Pixels -> Deeds]]
  /\ \A f \in Faults, p \in Pixels : f[Scalar][p] = "counts"
  /\ NoColour # Black
  /\ {Black, NoColour} \cap (Palettes \X (0..(Cap - 1)) \X (1..Cap)) = {}

VARIABLES
  faults,         \* what each kernel does with each pixel
  iterations, reference,
  palette_lut, lut_max_iter, lut_palette,
  picture,        \* the texture, uploaded after every displayed frame
  last_iteration_total,
  verification,   \* what a pass says of each kernel
  verified,       \* the parameters of the pass
  checking,       \* the kernels a pass has still to come to
  shown           \* history: what the picture was rendered from

lutVars   == <<palette_lut, lut_max_iter, lut_palette>>
frameVars == <<lutVars, picture, last_iteration_total, shown>>
checkVars == <<reference, verification, verified, checking>>
vars      == <<faults, iterations, frameVars, checkVars>>

Smaller(a, b) == IF a < b THEN a ELSE b
Larger(a, b)  == IF a > b THEN a ELSE b

(***************************************************************************)
(* BuildParams clamps the limit to 0 .. Cap, the table to 1 .. Cap.        *)
(***************************************************************************)
KernelLimit(m) == Smaller(Larger(m, 0), Cap)
LutLimit(m)    == Smaller(Larger(m, 1), Cap)

Writes(k, p) == faults[k][p] # "skips"

Count(k, v, m, p) ==
  LET truth == Smaller(v[p], KernelLimit(m))
  IN  IF faults[k][p] # "miscounts" THEN truth ELSE IF truth = 0 THEN 1 ELSE truth - 1

Counts(k, v, m) == [p \in Pixels |-> Count(k, v, m, p)]

(***************************************************************************)
(* A buffer after kernel k has run over r pixels.                          *)
(***************************************************************************)
Filled(buffer, k, v, m, r) ==
  [p \in Pixels |-> IF p <= r /\ Writes(k, p) THEN Count(k, v, m, p) ELSE buffer[p]]

(***************************************************************************)
(* EnsurePaletteLut rebuilds the whole table unless it is up to date.      *)
(***************************************************************************)
Colour(q, m, i) == IF i < LutLimit(m) THEN <<q, i, LutLimit(m)>> ELSE Black

Table(q, m) == [i \in 0..Cap |-> Colour(q, m, i)]

SamePalette(q, m) == lut_palette = q /\ lut_max_iter >= LutLimit(m)

UpToDate(q, m) == lut_max_iter = LutLimit(m) /\ lut_palette = q

EnsureKeepsTail(q, m) ==
  IF UpToDate(q, m) THEN UNCHANGED lutVars
  ELSE /\ palette_lut' = [i \in 0..Cap |-> IF i <= LutLimit(m) THEN Colour(q, m, i)
                                                              ELSE palette_lut[i]]
       /\ lut_max_iter' = LutLimit(m)
       /\ lut_palette' = q

EnsurePaletteLut(q, m) ==
  IF UpToDate(q, m) THEN UNCHANGED lutVars
  ELSE /\ palette_lut' = Table(q, m)
       /\ lut_max_iter' = LutLimit(m)
       /\ lut_palette' = q

Colourize(buffer, r) ==
  picture' = [p \in Pixels |-> IF p <= r THEN palette_lut'[buffer[p]] ELSE picture[p]]

Total(f) == MapThenSumSet(LAMBDA p : f[p], DOMAIN f)

SumIterations(buffer, r) == Total([p \in 1..r |-> buffer[p]])

Mismatches(a, b, r) == {p \in 1..r : a[p] # b[p]}

MaxDifference(a, b, r) ==
  Max({0} \cup {IF a[p] > b[p] THEN a[p] - b[p] ELSE b[p] - a[p] : p \in 1..r})

CompareBuffers(a, b, r) ==
  [mismatches |-> Cardinality(Mismatches(a, b, r)), max_diff |-> MaxDifference(a, b, r)]
-----------------------------------------------------------------------------
Init ==
  /\ faults \in Faults
  /\ iterations = [p \in Pixels |-> 0] /\ reference = [p \in Pixels |-> 0]
  /\ \E q \in Palettes, m \in Limits :
       palette_lut = Table(q, m) /\ lut_max_iter = LutLimit(m) /\ lut_palette = q
  /\ picture = [p \in Pixels |-> NoColour]
  /\ last_iteration_total = 0
  /\ verification = [k \in Kernels |-> NoRow]
  /\ verified = NoRow /\ checking = {}
  /\ shown = NoRow

(***************************************************************************)
(* A displayed frame: table, kernel, sum, colours, upload.                 *)
(***************************************************************************)
RenderFractal(k, q, v, m, r) ==
  /\ checking = {}
  /\ EnsurePaletteLut(q, m)
  /\ iterations' = Filled(iterations, k, v, m, r)
  /\ last_iteration_total' = SumIterations(iterations', r)
  /\ Colourize(iterations', r)
  /\ shown' = [kernel |-> k, palette |-> q, view |-> v, limit |-> m, pixels |-> r]
  /\ UNCHANGED <<faults, checkVars>>

(***************************************************************************)
(* A frame of the sweep, which keeps the view it was started with.         *)
(***************************************************************************)
SweepFrame(k, v, m, r) ==
  /\ checking = {}
  /\ iterations' = Filled(iterations, k, v, m, r)
  /\ UNCHANGED <<faults, frameVars, checkVars>>

(***************************************************************************)
(* RunVerification, one handler in several steps: the scalar kernel into   *)
(* the reference, and then each kernel of the registry in turn into the    *)
(* iteration buffer, which nobody clears in between and which keeps the    *)
(* last kernel's counts.                                                   *)
(***************************************************************************)
RunVerification(v, m, r) ==
  /\ checking = {}
  /\ reference' = Filled(reference, Scalar, v, m, r)
  /\ verification' = [k \in Kernels |-> NoRow]
  /\ verified' = [view |-> v, limit |-> m, pixels |-> r]
  /\ checking' = Kernels
  /\ UNCHANGED <<faults, iterations, frameVars>>

CompareTooEarly(k) ==
  /\ k \in checking /\ \A j \in checking : k <= j
  /\ checking' = checking \ {k}
  /\ IF k \in Available
       THEN /\ iterations' = Filled(iterations, k, verified.view, verified.limit, verified.pixels)
            /\ verification' = [verification EXCEPT
                 ![k] = CompareBuffers(iterations, reference, verified.pixels)]
       ELSE UNCHANGED <<iterations, verification>>
  /\ UNCHANGED <<faults, reference, verified, frameVars>>

VerifyKernel(k) ==
  /\ k \in checking /\ \A j \in checking : k <= j
  /\ checking' = checking \ {k}
  /\ IF k \in Available
       THEN /\ iterations' = Filled(iterations, k, verified.view, verified.limit, verified.pixels)
            /\ verification' = [verification EXCEPT
                 ![k] = CompareBuffers(iterations', reference, verified.pixels)]
       ELSE UNCHANGED <<iterations, verification>>
  /\ UNCHANGED <<faults, reference, verified, frameVars>>

Next ==
  \/ \E v \in Views, m \in Limits, r \in Resolutions :
       \/ \E k \in Available, q \in Palettes : RenderFractal(k, q, v, m, r)
       \/ \E k \in Available : SweepFrame(k, v, m, r)
       \/ RunVerification(v, m, r)
  \/ \E k \in Kernels : VerifyKernel(k)

Spec == Init /\ [][Next]_vars
-----------------------------------------------------------------------------
Colours == {Black, NoColour} \cup (Palettes \X (0..(Cap - 1)) \X (1..Cap))

TypeOK ==
  /\ faults \in Faults
  /\ iterations \in [Pixels -> 0..Cap] /\ reference \in [Pixels -> 0..Cap]
  /\ palette_lut \in [0..Cap -> Colours \ {NoColour}]
  /\ lut_max_iter \in 1..Cap /\ lut_palette \in Palettes
  /\ picture \in [Pixels -> Colours]
  /\ checking \subseteq Kernels
  /\ verified \in {NoRow} \cup [view : Views, limit : Limits, pixels : Resolutions]

(***************************************************************************)
(* The pixels the displayed frame wrote have the colours of its counts.    *)
(***************************************************************************)
ShownCount(p) == Count(shown.kernel, shown.view, shown.limit, p)

PictureShows ==
  shown # NoRow =>
    \A p \in 1..shown.pixels :
      Writes(shown.kernel, p) => picture[p] = Colour(shown.palette, shown.limit, ShownCount(p))

(***************************************************************************)
(* "Points that never escaped belong to the set: paint them black"         *)
(* (src/src/render_target.cpp:125), those and no others; the limit is      *)
(* clamped here and for the kernels separately, and differently below 1.   *)
(***************************************************************************)
TheSetIsBlack ==
  shown # NoRow /\ shown.limit >= 1 =>
    \A p \in 1..shown.pixels :
      Writes(shown.kernel, p) => (picture[p] = Black <=> ShownCount(p) = KernelLimit(shown.limit))

(***************************************************************************)
(* The picture is that of the last displayed frame, in its palette and for *)
(* its limit, and the iterations the throughput is computed from are its   *)
(* visible ones, whatever the sweep and the verification left in the       *)
(* buffers since and whatever the table held before                        *)
(* (src/src/render_target.hpp:65, "rebuilt only when the palette or        *)
(* max_iter changes").  Of a kernel that skips pixels it says this of the  *)
(* others, and nothing of the total.                                       *)
(***************************************************************************)
PictureIsOfFrame ==
  /\ PictureShows
  /\ TheSetIsBlack
  /\ shown # NoRow /\ (\A p \in 1..shown.pixels : Writes(shown.kernel, p)) =>
       last_iteration_total =
         SumIterations(Counts(shown.kernel, shown.view, shown.limit), shown.pixels)

(***************************************************************************)
(* The last kernel of a pass up to k that writes pixel p: its count is     *)
(* what k is judged by.                                                    *)
(***************************************************************************)
LastToWrite(j, k, p) ==
  /\ j \in Available /\ j <= k /\ Writes(j, p)
  /\ \A i \in Available : j < i /\ i <= k => ~Writes(i, p)

Agrees(k, p) ==
  Count(k, verified.view, verified.limit, p) = Count(Scalar, verified.view, verified.limit, p)

(***************************************************************************)
(* A kernel that writes every visible pixel passes the verification        *)
(* exactly when it agrees with the scalar one on all of them.  A pixel it  *)
(* skips is judged by the kernel that wrote it last in this pass, never by *)
(* what was in the buffer before: the buffer is not poisoned, as the self- *)
(* test does ("so a kernel that silently writes nothing fails",            *)
(* src/tests/verify_kernels.cpp:117).  Kernels that cannot run have no row.*)
(***************************************************************************)
VerdictIsTruth ==
  verified # NoRow =>
    \A k \in Kernels \ checking :
      IF k \in Available
        THEN verification[k].mismatches = 0 <=>
               \A p \in 1..verified.pixels : \A j \in Available : LastToWrite(j, k, p) => Agrees(j, p)
        ELSE verification[k] = NoRow

(***************************************************************************)
(* The table holds a colour for every count a buffer can hold, those above *)
(* the limit included (src/src/render_target.cpp:132, "a stale buffer can  *)
(* never index uninitialised memory").                                     *)
(***************************************************************************)
TableIsWhole ==
  /\ TypeOK
  /\ \A i \in 0..Cap : palette_lut[i] = Colour(lut_palette, lut_max_iter, i)
=============================================================================
