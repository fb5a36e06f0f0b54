--------------------------- MODULE RenderTargetProofs ---------------------------
(***************************************************************************)
(* What the shared buffers are read for, and how far they can be trusted:  *)
(* for any number of pixels, palettes and kernels, any iteration cap and   *)
(* limit, and kernels that may miscount or skip any pixel.                 *)
(***************************************************************************)
EXTENDS RenderTarget, FiniteSetTheorems, TLAPS

(***************************************************************************)
(* While a pass is under way: the kernels it has been through come before  *)
(* those it has still to come to, which have no row yet, and every visible *)
(* pixel holds the count of the last kernel that wrote it.                 *)
(***************************************************************************)
Seen == Available \ checking

LastSeen(j, p) == j \in Seen /\ Writes(j, p) /\ \A i \in Seen : j < i => ~Writes(i, p)

VerifiedCount(k, p) == Count(k, verified.view, verified.limit, p)

PassInv ==
  /\ DOMAIN verification = Kernels
  /\ \A j \in Kernels \ checking, k \in checking : j < k
  /\ \A k \in checking : verification[k] = NoRow
  /\ checking # {} =>
       /\ verified \in [view : Views, limit : Limits, pixels : Resolutions]
       /\ \A p \in 1..verified.pixels : reference[p] = VerifiedCount(Scalar, p)
  /\ checking # {} /\ checking # Kernels =>
       \A p \in 1..verified.pixels :
         \E j \in Available : LastSeen(j, p) /\ iterations[p] = VerifiedCount(j, p)

TargetInv == TableIsWhole /\ PictureIsOfFrame /\ VerdictIsTruth /\ PassInv

(***************************************************************************)
(* Limits and counts.                                                      *)
(***************************************************************************)
LEMMA LimitRanges ==
  ASSUME NEW m \in Int
  PROVE  /\ KernelLimit(m) \in 0..Cap
         /\ LutLimit(m) \in 1..Cap
         /\ LutLimit(LutLimit(m)) = LutLimit(m)
BY TargetAssumption DEF KernelLimit, LutLimit, Smaller, Larger

LEMMA CountRange ==
  ASSUME NEW k, NEW v \in Views, NEW m \in Limits, NEW p \in Pixels
  PROVE  Count(k, v, m, p) \in 0..Cap
<1>1. v[p] \in 1..(Cap + 1) /\ Cap \in Nat \ {0} /\ m \in Int
  BY TargetAssumption
<1> DEFINE truth == Smaller(v[p], KernelLimit(m))
<1>2. truth \in 0..Cap
  BY <1>1, LimitRanges DEF Smaller
<1>3. Count(k, v, m, p) = IF faults[k][p] # "miscounts" THEN truth
                           ELSE IF truth = 0 THEN 1 ELSE truth - 1
  BY DEF Count
<1> HIDE DEF truth
<1> QED  BY <1>1, <1>2, <1>3

LEMMA VisiblePixels ==
  ASSUME NEW r \in Resolutions
  PROVE  r \in Nat /\ 1..r \subseteq Pixels /\ \A p \in 1..r : p <= r
BY TargetAssumption DEF Pixels

LEMMA FilledBuffer ==
  ASSUME NEW b \in [Pixels -> 0..Cap], NEW k, NEW v \in Views, NEW m \in Limits,
         NEW r \in Resolutions
  PROVE  /\ Filled(b, k, v, m, r) \in [Pixels -> 0..Cap]
         /\ \A p \in 1..r : Filled(b, k, v, m, r)[p] =
              IF Writes(k, p) THEN Count(k, v, m, p) ELSE b[p]
<1>1. \A p \in Pixels : Count(k, v, m, p) \in 0..Cap
  BY CountRange
<1> DEFINE f == Filled(b, k, v, m, r)
           c(p) == Count(k, v, m, p)
           w(p) == Writes(k, p)
<1>2. /\ f = [p \in Pixels |-> IF p <= r /\ w(p) THEN c(p) ELSE b[p]]
      /\ \A p \in Pixels : c(p) \in 0..Cap
  BY <1>1 DEF Filled
<1>3. \A p \in 1..r : p \in Pixels /\ p <= r
  BY VisiblePixels
<1> HIDE DEF f, c, w
<1>4. f \in [Pixels -> 0..Cap] /\ \A p \in 1..r : f[p] = IF w(p) THEN c(p) ELSE b[p]
  BY <1>2, <1>3
<1> QED  BY <1>4 DEF f, c, w

(***************************************************************************)
(* The table.                                                              *)
(***************************************************************************)
LEMMA ColourType ==
  ASSUME NEW q \in Palettes, NEW m \in Int, NEW i \in 0..Cap
  PROVE  Colour(q, m, i) \in {Black} \cup (Palettes \X (0..(Cap - 1)) \X (1..Cap))
<1>1. LutLimit(m) \in 1..Cap /\ Cap \in Nat
  BY LimitRanges, TargetAssumption
<1> QED  BY <1>1 DEF Colour

Shades == {Black} \cup (Palettes \X (0..(Cap - 1)) \X (1..Cap))

LEMMA ShadesAreColours == Shades = Colours \ {NoColour}
BY TargetAssumption DEF Shades, Colours

LEMMA WholeTable ==
  ASSUME NEW q \in Palettes, NEW m \in Limits
  PROVE  /\ Table(q, m) \in [0..Cap -> Colours \ {NoColour}]
         /\ \A i \in 0..Cap : Table(q, m)[i] = Colour(q, LutLimit(m), i)
<1>1. m \in Int
  BY TargetAssumption
<1>2. \A i \in 0..Cap : Colour(q, m, i) \in Shades
  BY <1>1, ColourType DEF Shades
<1>3. \A i \in 0..Cap : Colour(q, LutLimit(m), i) = Colour(q, m, i)
  BY <1>1, LimitRanges DEF Colour
<1> DEFINE c(i) == Colour(q, m, i)
           t == Table(q, m)
<1>4. t = [i \in 0..Cap |-> c(i)] /\ \A i \in 0..Cap : c(i) \in Shades
  BY <1>2 DEF Table
<1> HIDE DEF t, c
<1>5. t \in [0..Cap -> Shades] /\ \A i \in 0..Cap : t[i] = c(i)
  BY <1>4
<1> QED  BY <1>3, <1>5, ShadesAreColours DEF t, c

(***************************************************************************)
(* EnsurePaletteLut leaves a whole table, of the palette and limit it was  *)
(* asked for.                                                              *)
(***************************************************************************)
LEMMA EnsuredTable ==
  ASSUME TableIsWhole, NEW q \in Palettes, NEW m \in Limits, EnsurePaletteLut(q, m)
  PROVE  /\ palette_lut' \in [0..Cap -> Colours \ {NoColour}]
         /\ lut_max_iter' \in 1..Cap /\ lut_palette' \in Palettes
         /\ \A i \in 0..Cap : palette_lut'[i] = Colour(lut_palette', lut_max_iter', i)
         /\ \A i \in 0..Cap : palette_lut'[i] = Colour(q, m, i)
<1>1. m \in Int
  BY TargetAssumption
<1>2. \A i \in 0..Cap : Colour(q, LutLimit(m), i) = Colour(q, m, i)
  BY <1>1, LimitRanges DEF Colour
<1>3. CASE UpToDate(q, m)
  BY <1>2, <1>3 DEF EnsurePaletteLut, UpToDate, lutVars, TableIsWhole, TypeOK
<1>4. CASE ~UpToDate(q, m)
  <2>1. palette_lut' = Table(q, m) /\ lut_max_iter' = LutLimit(m) /\ lut_palette' = q
    BY <1>4 DEF EnsurePaletteLut
  <2> QED  BY <1>1, <1>2, <2>1, WholeTable, LimitRanges
<1> QED  BY <1>3, <1>4

LEMMA TargetStart == Init => TargetInv
<1> SUFFICES ASSUME Init PROVE TargetInv
  OBVIOUS
<1>1. /\ iterations = [p \in Pixels |-> 0] /\ reference = [p \in Pixels |-> 0]
      /\ picture = [p \in Pixels |-> NoColour] /\ shown = NoRow /\ verified = NoRow
      /\ checking = {} /\ verification = [k \in Kernels |-> NoRow] /\ faults \in Faults
  BY DEF Init
<1>2. PICK q \in Palettes, m \in Limits :
        palette_lut = Table(q, m) /\ lut_max_iter = LutLimit(m) /\ lut_palette = q
  BY DEF Init
<1>3. Cap \in Nat /\ m \in Int
  BY TargetAssumption
<1>4. iterations \in [Pixels -> 0..Cap] /\ reference \in [Pixels -> 0..Cap]
  BY <1>1, <1>3
<1>5. picture \in [Pixels -> Colours]
  BY <1>1 DEF Colours
<1>6. /\ palette_lut \in [0..Cap -> Colours \ {NoColour}]
      /\ lut_max_iter \in 1..Cap /\ lut_palette \in Palettes
      /\ \A i \in 0..Cap : palette_lut[i] = Colour(lut_palette, lut_max_iter, i)
  BY <1>2, <1>3, WholeTable, LimitRanges
<1>7. TableIsWhole
  BY <1>1, <1>4, <1>5, <1>6 DEF TableIsWhole, TypeOK
<1>8. PassInv
  BY <1>1 DEF PassInv
<1> QED
  BY <1>1, <1>7, <1>8
     DEF TargetInv, PictureIsOfFrame, PictureShows, TheSetIsBlack, VerdictIsTruth

(***************************************************************************)
(* The sum of two buffers that agree on the visible pixels is the same.    *)
(***************************************************************************)
LEMMA SameIterations ==
  ASSUME NEW a, NEW b, NEW r, \A p \in 1..r : a[p] = b[p]
  PROVE  SumIterations(a, r) = SumIterations(b, r)
<1>1. [p \in 1..r |-> a[p]] = [p \in 1..r |-> b[p]]
  OBVIOUS
<1> QED  BY <1>1 DEF SumIterations

(***************************************************************************)
(* What a pass leaves behind does not depend on the buffer it used.        *)
(***************************************************************************)
LEMMA PassLeftAlone ==
  ASSUME TargetInv, checking = {}, UNCHANGED <<faults, checkVars>>
  PROVE  VerdictIsTruth' /\ PassInv'
<1>1. /\ faults' = faults /\ verification' = verification /\ verified' = verified
      /\ checking' = {} /\ checking = {}
  BY DEF checkVars
<1>2. VerdictIsTruth'
  BY <1>1 DEF TargetInv, VerdictIsTruth, LastToWrite, Agrees, Count, Writes
<1>3. PassInv'
  BY <1>1 DEF TargetInv, PassInv
<1> QED  BY <1>2, <1>3

(***************************************************************************)
(* A shade of the gradient is not the colour of the set.                   *)
(***************************************************************************)
LEMMA OnlyTheSetIsBlack ==
  ASSUME NEW q \in Palettes, NEW m \in Limits, m >= 1,
         NEW c \in 0..Cap, c <= KernelLimit(m)
  PROVE  Colour(q, m, c) = Black <=> c = KernelLimit(m)
<1>1. m \in Int /\ Cap \in Nat \ {0}
  BY TargetAssumption
<1>2. KernelLimit(m) = LutLimit(m) /\ LutLimit(m) \in 1..Cap
  BY <1>1, LimitRanges DEF KernelLimit, LutLimit, Smaller, Larger
<1>3. ASSUME c < LutLimit(m) PROVE Colour(q, m, c) # Black
  <2>1. Colour(q, m, c) = <<q, c, LutLimit(m)>>
    BY <1>3 DEF Colour
  <2>2. c \in 0..(Cap - 1)
    BY <1>1, <1>2, <1>3
  <2>3. <<q, c, LutLimit(m)>> \in Palettes \X (0..(Cap - 1)) \X (1..Cap)
    BY <1>2, <2>2
  <2> QED  BY <2>1, <2>3, TargetAssumption
<1>4. ~(c < LutLimit(m)) => Colour(q, m, c) = Black
  BY DEF Colour
<1> QED  BY <1>1, <1>2, <1>3, <1>4

LEMMA CountWithinLimit ==
  ASSUME NEW k, NEW v \in Views, NEW m \in Limits, NEW p \in Pixels, m >= 1
  PROVE  Count(k, v, m, p) <= KernelLimit(m)
<1>1. v[p] \in 1..(Cap + 1) /\ Cap \in Nat \ {0} /\ m \in Int
  BY TargetAssumption
<1> QED  BY <1>1 DEF Count, KernelLimit, Smaller, Larger

(***************************************************************************)
(* A displayed frame colours the counts it has just made, through a table  *)
(* it has just ensured.                                                    *)
(***************************************************************************)
LEMMA DisplayedFrame ==
  ASSUME TargetInv, NEW k \in Available, NEW q \in Palettes, NEW v \in Views,
         NEW m \in Limits, NEW r \in Resolutions, RenderFractal(k, q, v, m, r)
  PROVE  TargetInv'
<1>1. /\ EnsurePaletteLut(q, m)
      /\ iterations' = Filled(iterations, k, v, m, r)
      /\ picture' = [p \in Pixels |-> IF p <= r THEN palette_lut'[iterations'[p]] ELSE picture[p]]
      /\ shown' = [kernel |-> k, palette |-> q, view |-> v, limit |-> m, pixels |-> r]
      /\ last_iteration_total' = SumIterations(iterations', r)
      /\ faults' = faults /\ checking = {} /\ UNCHANGED checkVars
  BY DEF RenderFractal, Colourize
<1>2. TableIsWhole /\ iterations \in [Pixels -> 0..Cap] /\ reference \in [Pixels -> 0..Cap]
      /\ picture \in [Pixels -> Colours]
  BY DEF TargetInv, TableIsWhole, TypeOK
<1> DEFINE c(p) == Count(k, v, m, p)
           w(p) == Writes(k, p)
<1>3. /\ iterations' \in [Pixels -> 0..Cap]
      /\ \A p \in 1..r : iterations'[p] = IF w(p) THEN c(p) ELSE iterations[p]
  BY <1>1, <1>2, FilledBuffer
<1>4. /\ palette_lut' \in [0..Cap -> Colours \ {NoColour}]
      /\ lut_max_iter' \in 1..Cap /\ lut_palette' \in Palettes
      /\ \A i \in 0..Cap : palette_lut'[i] = Colour(lut_palette', lut_max_iter', i)
      /\ \A i \in 0..Cap : palette_lut'[i] = Colour(q, m, i)
  BY <1>1, <1>2, EnsuredTable
<1>5. picture' \in [Pixels -> Colours]
  BY <1>1, <1>2, <1>3, <1>4
<1>6. TableIsWhole'
  <2>1. reference' = reference /\ faults' = faults /\ checking' = checking /\ verified' = verified
    BY <1>1 DEF checkVars
  <2>2. iterations' \in [Pixels -> 0..Cap]
    BY <1>3
  <2> QED  BY <1>2, <1>4, <1>5, <2>1, <2>2 DEF TableIsWhole, TypeOK, Colours, Colour
<1>7. /\ shown'.kernel = k /\ shown'.palette = q /\ shown'.view = v
      /\ shown'.limit = m /\ shown'.pixels = r
  BY <1>1
<1>8. \A p : ShownCount(p)' = c(p) /\ (Writes(shown.kernel, p)' <=> w(p))
  BY <1>1, <1>7 DEF ShownCount, Count, Writes
<1>9. \A p \in 1..r : w(p) => picture'[p] = Colour(q, m, c(p))
  <2>1. SUFFICES ASSUME NEW p \in 1..r, w(p) PROVE picture'[p] = Colour(q, m, c(p))
    OBVIOUS
  <2>2. p \in Pixels /\ p <= r
    BY VisiblePixels
  <2>3. iterations'[p] = c(p) /\ iterations'[p] \in 0..Cap
    BY <1>3, <2>1, <2>2
  <2>4. picture'[p] = palette_lut'[iterations'[p]]
    BY <1>1, <2>2
  <2> QED  BY <1>4, <2>3, <2>4
<1>10. PictureShows'
  <2>1. SUFFICES ASSUME NEW p \in 1..r, Writes(shown.kernel, p)'
                 PROVE  picture'[p] = Colour(shown.palette, shown.limit, ShownCount(p))'
    BY <1>7 DEF PictureShows
  <2>2. picture'[p] = Colour(q, m, c(p))
    BY <1>8, <1>9, <2>1
  <2>3. Colour(shown.palette, shown.limit, ShownCount(p))' = Colour(q, m, ShownCount(p)')
    BY <1>7 DEF Colour, LutLimit
  <2> QED  BY <1>8, <2>2, <2>3
<1>11. TheSetIsBlack'
  <2>1. SUFFICES ASSUME NEW p \in 1..r, Writes(shown.kernel, p)', m >= 1
                 PROVE  picture'[p] = Black <=> ShownCount(p)' = KernelLimit(m)
    BY <1>7 DEF TheSetIsBlack, KernelLimit
  <2>2. picture'[p] = Colour(q, m, c(p))
    BY <1>8, <1>9, <2>1
  <2>3. c(p) \in 0..Cap /\ c(p) <= KernelLimit(m)
    BY <2>1, VisiblePixels, CountRange, CountWithinLimit
  <2> HIDE DEF c
  <2>4. Colour(q, m, c(p)) = Black <=> c(p) = KernelLimit(m)
    BY <2>1, <2>3, OnlyTheSetIsBlack
  <2> QED  BY <1>8, <2>2, <2>4
<1>12. ASSUME \A p \in 1..r : w(p)
       PROVE  last_iteration_total' = SumIterations(Counts(k, v, m), r)
  <2>1. \A p \in 1..r : iterations'[p] = Counts(k, v, m)[p]
    BY <1>3, <1>12, VisiblePixels DEF Counts
  <2> QED  BY <1>1, <2>1, SameIterations
<1>13. PictureIsOfFrame'
  <2>1. SUFFICES ASSUME \A p \in 1..r : Writes(shown.kernel, p)'
                 PROVE  last_iteration_total' = SumIterations(Counts(shown.kernel, shown.view, shown.limit), shown.pixels)'
    BY <1>7, <1>10, <1>11 DEF PictureIsOfFrame
  <2>2. last_iteration_total' = SumIterations(Counts(k, v, m), r)
    BY <1>8, <1>12, <2>1
  <2>3. Counts(shown.kernel, shown.view, shown.limit)' = Counts(k, v, m)
    BY <1>1, <1>7 DEF Counts, Count
  <2> QED  BY <1>7, <2>2, <2>3 DEF SumIterations
<1> QED  BY <1>1, <1>6, <1>13, PassLeftAlone DEF TargetInv

(***************************************************************************)
(* The sweep and the verification leave the picture and its table alone.   *)
(***************************************************************************)
LEMMA PictureLeftAlone ==
  ASSUME TargetInv, UNCHANGED <<faults, frameVars>>,
         iterations' \in [Pixels -> 0..Cap], reference' \in [Pixels -> 0..Cap],
         checking' \subseteq Kernels,
         verified' \in {NoRow} \cup [view : Views, limit : Limits, pixels : Resolutions]
  PROVE  TableIsWhole' /\ PictureIsOfFrame'
<1>1. /\ palette_lut' = palette_lut /\ lut_max_iter' = lut_max_iter
      /\ lut_palette' = lut_palette /\ picture' = picture /\ shown' = shown
      /\ last_iteration_total' = last_iteration_total /\ faults' = faults
  BY DEF frameVars, lutVars
<1>2. TableIsWhole'
  BY <1>1 DEF TargetInv, TableIsWhole, TypeOK, Colours, Colour
<1>3. /\ \A p : ShownCount(p)' = ShownCount(p)
      /\ \A p : Writes(shown.kernel, p)' <=> Writes(shown.kernel, p)
  BY <1>1 DEF ShownCount, Count, Writes
<1>4. PictureShows' /\ TheSetIsBlack'
  BY <1>1, <1>3 DEF TargetInv, PictureIsOfFrame, PictureShows, TheSetIsBlack, Colour
<1>5. Counts(shown.kernel, shown.view, shown.limit)' = Counts(shown.kernel, shown.view, shown.limit)
  BY <1>1 DEF Counts, Count
<1>6. PictureIsOfFrame'
  BY <1>1, <1>3, <1>4, <1>5 DEF TargetInv, PictureIsOfFrame, SumIterations
<1> QED  BY <1>2, <1>6

LEMMA SweptFrame ==
  ASSUME TargetInv, NEW k \in Available, NEW v \in Views, NEW m \in Limits,
         NEW r \in Resolutions, SweepFrame(k, v, m, r)
  PROVE  TargetInv'
<1>1. /\ iterations' = Filled(iterations, k, v, m, r) /\ checking = {}
      /\ UNCHANGED <<faults, frameVars>> /\ UNCHANGED <<faults, checkVars>>
  BY DEF SweepFrame
<1>2. /\ iterations' \in [Pixels -> 0..Cap] /\ reference' \in [Pixels -> 0..Cap]
      /\ checking' \subseteq Kernels
      /\ verified' \in {NoRow} \cup [view : Views, limit : Limits, pixels : Resolutions]
  BY <1>1, FilledBuffer DEF TargetInv, TableIsWhole, TypeOK, checkVars
<1> QED  BY <1>1, <1>2, PictureLeftAlone, PassLeftAlone DEF TargetInv

(***************************************************************************)
(* No mismatch is counted exactly when there is none.                      *)
(***************************************************************************)
LEMMA NoMismatch ==
  ASSUME NEW a, NEW b, NEW r \in Nat
  PROVE  CompareBuffers(a, b, r).mismatches = 0 <=> \A p \in 1..r : a[p] = b[p]
<1> DEFINE M == Mismatches(a, b, r)
<1>1. IsFiniteSet(1..r)
  BY FS_Interval
<1>2. M \subseteq 1..r
  BY DEF Mismatches
<1>3. IsFiniteSet(M)
  BY <1>1, <1>2, FS_Subset
<1>4. Cardinality(M) = 0 <=> M = {}
  BY <1>3, FS_EmptySet
<1>5. M = {} <=> \A p \in 1..r : a[p] = b[p]
  BY DEF Mismatches
<1>6. CompareBuffers(a, b, r).mismatches = Cardinality(M)
  BY DEF CompareBuffers
<1> QED  BY <1>4, <1>5, <1>6

(***************************************************************************)
(* Pressing the button: the reference is made and every kernel is still to *)
(* come.                                                                   *)
(***************************************************************************)
LEMMA PassStarted ==
  ASSUME TargetInv, NEW v \in Views, NEW m \in Limits, NEW r \in Resolutions,
         RunVerification(v, m, r)
  PROVE  TargetInv'
<1>1. /\ reference' = Filled(reference, Scalar, v, m, r)
      /\ verification' = [k \in Kernels |-> NoRow]
      /\ verified' = [view |-> v, limit |-> m, pixels |-> r]
      /\ checking' = Kernels /\ iterations' = iterations
      /\ faults' = faults /\ UNCHANGED <<faults, frameVars>>
  BY DEF RunVerification
<1>2. /\ reference \in [Pixels -> 0..Cap] /\ iterations' \in [Pixels -> 0..Cap]
      /\ faults \in Faults
  BY <1>1 DEF TargetInv, TableIsWhole, TypeOK
<1>3. \A p \in Pixels : Writes(Scalar, p)
  BY <1>2, TargetAssumption DEF Writes
<1>4. /\ reference' \in [Pixels -> 0..Cap]
      /\ \A p \in 1..r : reference'[p] = Count(Scalar, v, m, p)
  BY <1>1, <1>2, <1>3, FilledBuffer, VisiblePixels
<1>5. verified' \in [view : Views, limit : Limits, pixels : Resolutions]
  BY <1>1
<1>6. TableIsWhole' /\ PictureIsOfFrame'
  BY <1>1, <1>2, <1>4, <1>5, PictureLeftAlone
<1>7. VerdictIsTruth'
  BY <1>1 DEF VerdictIsTruth
<1>8. \A p \in 1..r : reference'[p] = VerifiedCount(Scalar, p)'
  BY <1>1, <1>4 DEF VerifiedCount, Count
<1>9. PassInv'
  BY <1>1, <1>5, <1>8 DEF PassInv
<1> QED  BY <1>6, <1>7, <1>9 DEF TargetInv

(***************************************************************************)
(* Once kernel k has run, every visible pixel holds the count of the last  *)
(* kernel up to k that wrote it: k's own, or, as k is not the scalar kernel*)
(* if it skips the pixel, what stood there before.                         *)
(***************************************************************************)
LEMMA CountsStand ==
  ASSUME TargetInv, NEW k \in Kernels, VerifyKernel(k)
  PROVE  \A p \in 1..verified.pixels :
           \E j \in Available : LastSeen(j, p)' /\ iterations'[p] = VerifiedCount(j, p)
<1>1. /\ k \in checking /\ \A j \in checking : k <= j
      /\ checking' = checking \ {k} /\ faults' = faults
  BY DEF VerifyKernel
<1>2. /\ verified \in [view : Views, limit : Limits, pixels : Resolutions]
      /\ \A j \in Kernels \ checking : j < k
      /\ checking # Kernels =>
           \A p \in 1..verified.pixels :
             \E j \in Available : LastSeen(j, p) /\ iterations[p] = VerifiedCount(j, p)
  BY <1>1 DEF TargetInv, PassInv
<1>3. Kernels \subseteq Nat /\ Available \subseteq Kernels /\ Scalar \in Available
      /\ \A j \in Kernels : Scalar <= j
  BY TargetAssumption
<1>4. \A p \in Pixels : Writes(Scalar, p)
  BY TargetAssumption DEF TargetInv, TableIsWhole, TypeOK, Writes
<1>5. \A p : \A j \in Available : LastSeen(j, p)' <=>
        /\ j \in (Available \ checking) \cup {k} /\ Writes(j, p)
        /\ \A i \in (Available \ checking) \cup {k} : i \in Available /\ j < i => ~Writes(i, p)
  BY <1>1 DEF LastSeen, Seen, Writes
<1> SUFFICES ASSUME NEW p \in 1..verified.pixels
             PROVE  \E j \in Available : LastSeen(j, p)' /\ iterations'[p] = VerifiedCount(j, p)
  OBVIOUS
<1>6. p \in Pixels
  BY <1>2, VisiblePixels
<1>7. iterations'[p] = IF k \in Available /\ Writes(k, p) THEN VerifiedCount(k, p) ELSE iterations[p]
  <2>1. CASE k \in Available
    <3>1. iterations' = Filled(iterations, k, verified.view, verified.limit, verified.pixels)
      BY <2>1 DEF VerifyKernel
    <3>2. iterations \in [Pixels -> 0..Cap]
      BY DEF TargetInv, TableIsWhole, TypeOK
    <3> QED  BY <1>2, <2>1, <3>1, <3>2, FilledBuffer DEF VerifiedCount
  <2>2. CASE k \notin Available
    BY <2>2 DEF VerifyKernel
  <2> QED  BY <2>1, <2>2
<1>8. CASE k \in Available /\ Writes(k, p)
  <2>1. \A i \in (Available \ checking) \cup {k} : ~(k < i)
    BY <1>2, <1>3
  <2>2. LastSeen(k, p)'
    BY <1>5, <1>8, <2>1
  <2> QED  BY <1>7, <1>8, <2>2
<1>9. CASE ~(k \in Available /\ Writes(k, p))
  <2>1. Scalar \notin checking
    <3>1. k # Scalar
      BY <1>3, <1>4, <1>6, <1>9
    <3> QED  BY <1>1, <1>3, <3>1
  <2>2. PICK j \in Available : LastSeen(j, p) /\ iterations[p] = VerifiedCount(j, p)
    BY <1>2, <1>3, <2>1
  <2>3. LastSeen(j, p)'
    BY <1>5, <1>9, <2>2 DEF LastSeen, Seen
  <2> QED  BY <1>7, <1>9, <2>2, <2>3
<1> QED  BY <1>8, <1>9

(***************************************************************************)
(* The last kernel up to k to write a pixel is the last one seen.          *)
(***************************************************************************)
LEMMA LastToWriteIsLastSeen ==
  ASSUME TargetInv, NEW k \in Available, VerifyKernel(k), NEW p, NEW j \in Available
  PROVE  LastToWrite(j, k, p) <=> LastSeen(j, p)'
<1>1. /\ k \in checking /\ \A i \in checking : k <= i
      /\ checking' = checking \ {k} /\ faults' = faults
  BY DEF VerifyKernel
<1>2. /\ Kernels \subseteq Nat /\ Available \subseteq Kernels
      /\ \A i \in Kernels \ checking : i < k
  BY <1>1, TargetAssumption DEF TargetInv, PassInv
<1>3. \A i \in Available : i <= k <=> i \in Available \ (checking \ {k})
  BY <1>1, <1>2
<1>4. LastSeen(j, p)' <=>
        /\ j \in Available \ (checking \ {k}) /\ Writes(j, p)
        /\ \A i \in Available \ (checking \ {k}) : j < i => ~Writes(i, p)
  BY <1>1 DEF LastSeen, Seen, Writes
<1> QED  BY <1>3, <1>4 DEF LastToWrite

(***************************************************************************)
(* Of two kernels only one can have been the last to write a pixel.        *)
(***************************************************************************)
LEMMA OneIsLast ==
  ASSUME NEW p, NEW i \in Available, NEW j \in Available, LastSeen(i, p)', LastSeen(j, p)'
  PROVE  i = j
<1>1. i \in Nat /\ j \in Nat
  BY TargetAssumption
<1>2. ~(i < j) /\ ~(j < i)
  BY DEF LastSeen, Seen
<1> QED  BY <1>1, <1>2

(***************************************************************************)
(* The row of the kernel that has just run.                                *)
(***************************************************************************)
LEMMA NewRow ==
  ASSUME TargetInv, NEW k \in Available, VerifyKernel(k)
  PROVE  verification'[k].mismatches = 0 <=>
           \A p \in 1..verified.pixels : \A j \in Available : LastToWrite(j, k, p) => Agrees(j, p)
<1>1. /\ k \in checking /\ k \in Kernels
      /\ verification' = [verification EXCEPT
           ![k] = CompareBuffers(iterations', reference, verified.pixels)]
  BY TargetAssumption DEF VerifyKernel
<1>2. /\ verified \in [view : Views, limit : Limits, pixels : Resolutions]
      /\ \A p \in 1..verified.pixels : reference[p] = VerifiedCount(Scalar, p)
      /\ DOMAIN verification = Kernels
  BY <1>1 DEF TargetInv, PassInv
<1>3. verification'[k] = CompareBuffers(iterations', reference, verified.pixels)
  BY <1>1, <1>2
<1>4. verified.pixels \in Nat
  BY <1>2, VisiblePixels
<1>5. verification'[k].mismatches = 0 <=>
        \A p \in 1..verified.pixels : iterations'[p] = VerifiedCount(Scalar, p)
  BY <1>2, <1>3, <1>4, NoMismatch
<1>6. ASSUME NEW p \in 1..verified.pixels
      PROVE  iterations'[p] = VerifiedCount(Scalar, p) <=>
               \A j \in Available : LastToWrite(j, k, p) => Agrees(j, p)
  <2>1. PICK i \in Available : LastSeen(i, p)' /\ iterations'[p] = VerifiedCount(i, p)
    BY <1>1, CountsStand
  <2>2. \A j \in Available : LastToWrite(j, k, p) <=> j = i
    BY <2>1, LastToWriteIsLastSeen, OneIsLast
  <2> QED  BY <2>1, <2>2 DEF Agrees, VerifiedCount
<1> QED  BY <1>5, <1>6

LEMMA KernelVerified ==
  ASSUME TargetInv, NEW k \in Kernels, VerifyKernel(k)
  PROVE  TargetInv'
<1>1. /\ k \in checking /\ \A j \in checking : k <= j
      /\ checking' = checking \ {k} /\ faults' = faults /\ reference' = reference
      /\ verified' = verified /\ UNCHANGED <<faults, frameVars>>
  BY DEF VerifyKernel
<1>2. /\ DOMAIN verification = Kernels
      /\ \A j \in Kernels \ checking, i \in checking : j < i
      /\ \A j \in checking : verification[j] = NoRow
      /\ verified \in [view : Views, limit : Limits, pixels : Resolutions]
      /\ \A p \in 1..verified.pixels : reference[p] = VerifiedCount(Scalar, p)
  BY <1>1 DEF TargetInv, PassInv
<1>3. Kernels \subseteq Nat /\ Available \subseteq Kernels
  BY TargetAssumption
<1>4. /\ iterations \in [Pixels -> 0..Cap] /\ reference \in [Pixels -> 0..Cap]
      /\ checking \subseteq Kernels
  BY DEF TargetInv, TableIsWhole, TypeOK
<1>5. iterations' \in [Pixels -> 0..Cap]
  <2>1. CASE k \in Available
    <3>1. iterations' = Filled(iterations, k, verified.view, verified.limit, verified.pixels)
      BY <2>1 DEF VerifyKernel
    <3>2. verified.view \in Views /\ verified.limit \in Limits /\ verified.pixels \in Resolutions
      BY <1>2
    <3> QED  BY <1>4, <3>1, <3>2, FilledBuffer
  <2>2. CASE k \notin Available
    BY <1>4, <2>2 DEF VerifyKernel
  <2> QED  BY <2>1, <2>2
<1>6. TableIsWhole' /\ PictureIsOfFrame'
  BY <1>1, <1>2, <1>4, <1>5, PictureLeftAlone
<1>7. /\ DOMAIN verification' = Kernels
      /\ \A j \in Kernels : j # k => verification'[j] = verification[j]
      /\ k \notin Available => verification'[k] = NoRow
  <2>1. CASE k \in Available
    BY <1>2, <2>1 DEF VerifyKernel
  <2>2. CASE k \notin Available
    BY <1>1, <1>2, <2>2 DEF VerifyKernel
  <2> QED  BY <2>1, <2>2
<1>8. \A j, i, p : /\ LastToWrite(j, i, p)' <=> LastToWrite(j, i, p)
                   /\ Agrees(j, p)' <=> Agrees(j, p)
                   /\ VerifiedCount(j, p)' = VerifiedCount(j, p)
  BY <1>1 DEF LastToWrite, Agrees, VerifiedCount, Count, Writes
<1>9. VerdictIsTruth'
  <2>1. SUFFICES ASSUME verified # NoRow, NEW i \in Kernels \ (checking \ {k})
                 PROVE  IF i \in Available
                          THEN verification'[i].mismatches = 0 <=>
                                 \A p \in 1..verified.pixels : \A j \in Available :
                                   LastToWrite(j, i, p) => Agrees(j, p)
                          ELSE verification'[i] = NoRow
    BY <1>1, <1>8 DEF VerdictIsTruth
  <2>2. CASE i = k
    BY <1>7, <2>2, NewRow
  <2>3. CASE i # k
    BY <1>7, <2>1, <2>3 DEF TargetInv, VerdictIsTruth
  <2> QED  BY <2>2, <2>3
<1>10. PassInv'
  <2>1. \A j \in Kernels \ checking', i \in checking' : j < i
    <3>1. SUFFICES ASSUME NEW j \in Kernels \ (checking \ {k}), NEW i \in checking \ {k}
                   PROVE  j < i
      BY <1>1
    <3>2. CASE j = k
      BY <1>1, <1>3, <1>4, <3>1, <3>2
    <3>3. CASE j # k
      BY <1>2, <3>1, <3>3
    <3> QED  BY <3>2, <3>3
  <2>2. \A j \in checking' : verification'[j] = NoRow
    BY <1>1, <1>2, <1>4, <1>7
  <2>3. \A p \in 1..verified'.pixels : reference'[p] = VerifiedCount(Scalar, p)'
    BY <1>1, <1>2, <1>8
  <2>4. \A p \in 1..verified'.pixels :
          \E j \in Available : LastSeen(j, p)' /\ iterations'[p] = VerifiedCount(j, p)'
    BY <1>1, <1>8, CountsStand
  <2> QED  BY <1>1, <1>2, <1>7, <2>1, <2>2, <2>3, <2>4 DEF PassInv
<1> QED  BY <1>6, <1>9, <1>10 DEF TargetInv

LEMMA TargetInvariant == Spec => []TargetInv
<1>1. ASSUME TargetInv, [Next]_vars PROVE TargetInv'
  <2>1. CASE UNCHANGED vars
    <3>1. /\ UNCHANGED <<faults, frameVars>> /\ iterations' = iterations /\ reference' = reference
          /\ verification' = verification /\ verified' = verified /\ checking' = checking
          /\ faults' = faults
      BY <2>1 DEF vars, checkVars
    <3>2. VerdictIsTruth'
      BY <1>1, <3>1 DEF TargetInv, VerdictIsTruth, LastToWrite, Agrees, Count, Writes
    <3>3. PassInv'
      BY <1>1, <3>1 DEF TargetInv, PassInv, LastSeen, Seen, VerifiedCount, Count, Writes
    <3>4. TableIsWhole' /\ PictureIsOfFrame'
      BY <1>1, <3>1, PictureLeftAlone DEF TargetInv, TableIsWhole, TypeOK
    <3> QED  BY <3>2, <3>3, <3>4 DEF TargetInv
  <2> QED  BY <1>1, <2>1, DisplayedFrame, SweptFrame, PassStarted, KernelVerified DEF Next
<1> QED  BY TargetStart, <1>1, PTL DEF Spec

(***************************************************************************)
(* No buffer content can index the table outside of what it was filled     *)
(* with (RenderTarget::EnsurePaletteLut, ColourizeWithLut).                *)
(***************************************************************************)
THEOREM TableCoversEveryCount == Spec => []TableIsWhole
<1>1. TargetInv => TableIsWhole
  BY DEF TargetInv
<1> QED  BY TargetInvariant, <1>1, PTL

(***************************************************************************)
(* The picture is the last displayed frame's, pixel by pixel, and so is    *)
(* the number of iterations the throughput comes from, whatever rendered   *)
(* into the shared buffers since (App::RenderFractal, SumIterations).      *)
(***************************************************************************)
THEOREM PictureIsTheLastFrames == Spec => []PictureIsOfFrame
<1>1. TargetInv => PictureIsOfFrame
  BY DEF TargetInv
<1> QED  BY TargetInvariant, <1>1, PTL

(***************************************************************************)
(* A kernel passes exactly when, at every visible pixel, the kernel that   *)
(* wrote it last in this pass agrees with the scalar one                   *)
(* (App::RunVerification, CompareBuffers).                                 *)
(***************************************************************************)
THEOREM VerdictsAreTrue == Spec => []VerdictIsTruth
<1>1. TargetInv => VerdictIsTruth
  BY DEF TargetInv
<1> QED  BY TargetInvariant, <1>1, PTL

Passes(k) == verification[k].mismatches = 0

WritersJudgedTruly ==
  verified # NoRow =>
    \A k \in Available \ checking :
      (\A p \in 1..verified.pixels : Writes(k, p)) =>
        (Passes(k) <=> \A p \in 1..verified.pixels : Agrees(k, p))

SilentInherit ==
  verified # NoRow =>
    \A k \in Available \ checking, j \in Available \ checking :
      j < k /\ (\A i \in Available : i <= j \/ k <= i)
            /\ (\A p \in 1..verified.pixels : ~Writes(k, p))
      => (Passes(k) <=> Passes(j))

(***************************************************************************)
(* The verdict on a kernel that writes every visible pixel is the truth    *)
(* about it alone, whatever ran before it and whatever the buffer held.    *)
(***************************************************************************)
THEOREM WritersAreJudgedTruly == Spec => []WritersJudgedTruly
<1>1. ASSUME VerdictIsTruth, verified # NoRow, NEW k \in Available \ checking,
             \A p \in 1..verified.pixels : Writes(k, p)
      PROVE  Passes(k) <=> \A p \in 1..verified.pixels : Agrees(k, p)
  <2>1. k \in Kernels \ checking /\ Available \subseteq Nat
    BY TargetAssumption
  <2>2. Passes(k) <=> \A p \in 1..verified.pixels : \A j \in Available :
                        LastToWrite(j, k, p) => Agrees(j, p)
    BY <1>1, <2>1 DEF VerdictIsTruth, Passes
  <2>3. \A p \in 1..verified.pixels : \A j \in Available : LastToWrite(j, k, p) <=> j = k
    BY <1>1, <2>1 DEF LastToWrite
  <2> QED  BY <2>2, <2>3
<1>2. VerdictIsTruth => WritersJudgedTruly
  BY <1>1 DEF WritersJudgedTruly
<1> QED  BY VerdictsAreTrue, <1>2, PTL

(***************************************************************************)
(* The limit of the pass: a kernel that writes no visible pixel gets the   *)
(* verdict of the available kernel before it, and the first of those is    *)
(* the scalar kernel itself.                                               *)
(***************************************************************************)
THEOREM SilentKernelsInherit == Spec => []SilentInherit
<1>1. ASSUME VerdictIsTruth, verified # NoRow,
             NEW k \in Available \ checking, NEW j \in Available \ checking,
             j < k, \A i \in Available : i <= j \/ k <= i,
             \A p \in 1..verified.pixels : ~Writes(k, p)
      PROVE  Passes(k) <=> Passes(j)
  <2>1. k \in Kernels \ checking /\ j \in Kernels \ checking /\ Available \subseteq Nat
    BY TargetAssumption
  <2>2. \A n \in {j, k} :
          Passes(n) <=> \A p \in 1..verified.pixels : \A i \in Available :
                          LastToWrite(i, n, p) => Agrees(i, p)
    BY <1>1, <2>1 DEF VerdictIsTruth, Passes
  <2>3. \A p \in 1..verified.pixels : \A i \in Available :
          LastToWrite(i, k, p) <=> LastToWrite(i, j, p)
    <3>1. SUFFICES ASSUME NEW p \in 1..verified.pixels, NEW i \in Available
                   PROVE  LastToWrite(i, k, p) <=> LastToWrite(i, j, p)
      OBVIOUS
    <3>2. \A n \in Available : n <= k <=> n <= j \/ n = k
      BY <1>1, <2>1
    <3> QED  BY <1>1, <3>2 DEF LastToWrite
  <2> QED  BY <2>2, <2>3
<1>2. VerdictIsTruth => SilentInherit
  BY <1>1 DEF SilentInherit
<1> QED  BY VerdictsAreTrue, <1>2, PTL
=============================================================================
