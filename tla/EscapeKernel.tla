----------------------------- MODULE EscapeKernel -----------------------------
(***************************************************************************)
(* One call of a render kernel (src/src/kernels_*.cpp, src/src/asm): for   *)
(* every pixel of rows row_begin .. row_end - 1 count the iterations of    *)
(* z^2 + c that start inside the escape radius, a batch of lanes at a time.*)
(*                                                                         *)
(* A pixel's orbit is abstracted to the iteration at which it is first     *)
(* outside the radius and to how it leaves: "out", a magnitude above the   *)
(* radius, or "nan", no number, which takes a c that is not finite.  An    *)
(* orbit that has left does not come back: the kernels rely on it ("stay   *)
(* false forever", src/src/kernels_avx2.cpp:79), and it holds because then *)
(* |z| > 2 and |z| >= |c|.                                                 *)
(***************************************************************************)
EXTENDS Integers

CONSTANTS
  Kernels,     \* the kernels of the registry
  Lanes,       \* pixels per batch
  QuietNan,    \* the kernels whose comparison is false for "nan"
  Saturating,  \* those whose pack saturates; the others truncate
  Rows,        \* the image has rows 0 .. Rows - 1
  Width,       \* the pixels of a row that are visible
  MaxLanes,    \* kMaxVectorLanes, what a row is padded to
  MaxIter,     \* the largest cap of iterations
  CountLimit,  \* 65536, one more than a stored count can be
  Exits        \* how orbits may leave

ASSUME KernelAssumption ==
  /\ Lanes \in [Kernels -> Nat \ {0}]
  /\ Rows \in Nat /\ Width \in Nat /\ MaxIter \in Nat /\ MaxLanes \in Nat \ {0}
  /\ CountLimit \in Nat /\ MaxIter < CountLimit
  /\ Exits \subseteq {"out", "nan"}

ASSUME LanesFit == \A k \in Kernels : \E b \in 1..MaxLanes : MaxLanes = Lanes[k] * b

(***************************************************************************)
(* Kernels have no tail loop: a row is padded to whole batches.            *)
(***************************************************************************)
PaddedWidth == ((Width + MaxLanes - 1) \div MaxLanes) * MaxLanes

VecWidth == PaddedWidth

Cells == (0..(Rows - 1)) \X (0..(VecWidth - 1))

NotWritten == -1

VARIABLES
  kernel, row_begin, row_end, max_iter,  \* the call
  escape,                      \* each pixel's first iteration outside
  exit,                        \* and how it left
  pc,
  y, x,                        \* the batch is the lanes from column x of row y
  n,                           \* the iterations done
  iter,                        \* the count of each lane
  out                          \* the buffer

vars == <<kernel, row_begin, row_end, max_iter, escape, exit, pc, y, x, n, iter, out>>

L == Lanes[kernel]
Batch == 0..(L - 1)

Init ==
  /\ kernel \in Kernels
  /\ row_begin \in 0..Rows /\ row_end \in 0..Rows
  /\ max_iter \in 0..MaxIter
  /\ escape \in [Cells -> 1..(max_iter + 1)]
  /\ exit \in [Cells -> Exits]
  /\ pc = "enter"
  /\ y = 0 /\ x = 0 /\ n = 0
  /\ iter = [l \in Batch |-> 0]
  /\ out = [c \in Cells |-> NotWritten]

Call == <<kernel, row_begin, row_end, max_iter, escape, exit>>

(***************************************************************************)
(* Nothing is written for an empty range of rows or an image of no width.  *)
(***************************************************************************)
EnterAtTop ==
  /\ pc = "enter"
  /\ IF row_begin < row_end /\ VecWidth > 0
       THEN pc' = "iterate" /\ y' = 0
       ELSE pc' = "done" /\ y' = y
  /\ UNCHANGED <<Call, x, n, iter, out>>

Enter ==
  /\ pc = "enter"
  /\ IF row_begin < row_end /\ VecWidth > 0
       THEN pc' = "iterate" /\ y' = row_begin
       ELSE pc' = "done" /\ y' = y
  /\ UNCHANGED <<Call, x, n, iter, out>>

(***************************************************************************)
(* The mask of the escape test on the magnitude before iteration n.        *)
(***************************************************************************)
Inside(c) == n < escape[c] \/ (exit[c] = "nan" /\ kernel \notin QuietNan)
Mask(l)   == Inside(<<y, x + l>>)

IterateUnmasked ==
  /\ pc = "iterate" /\ n < max_iter
  /\ \E l \in Batch : Mask(l)
  /\ iter' = [l \in Batch |-> iter[l] + 1]
  /\ n' = n + 1
  /\ UNCHANGED <<Call, pc, y, x, out>>

Iterate ==
  /\ pc = "iterate" /\ n < max_iter
  /\ \E l \in Batch : Mask(l)
  /\ iter' = [l \in Batch |-> IF Mask(l) THEN iter[l] + 1 ELSE iter[l]]
  /\ n' = n + 1
  /\ UNCHANGED <<Call, pc, y, x, out>>

(***************************************************************************)
(* A count as it is stored, and the store when the loop has ended.         *)
(***************************************************************************)
Stored(i) ==
  IF kernel \in Saturating
    THEN IF i < CountLimit THEN i ELSE CountLimit - 1
    ELSE i % CountLimit

EndsWithFirstLane == n = max_iter \/ ~Mask(0)

LoopEnds == n = max_iter \/ \A l \in Batch : ~Mask(l)

NextRowStays ==
  IF x + L < VecWidth THEN x' = x + L /\ UNCHANGED <<y, pc>>
  ELSE x' = 0 /\ UNCHANGED <<y, pc>>

NextBatch ==
  IF x + L < VecWidth THEN x' = x + L /\ UNCHANGED <<y, pc>>
  ELSE /\ x' = 0
       /\ y' = y + 1
       /\ pc' = IF y + 1 < row_end THEN "iterate" ELSE "done"

Store ==
  /\ pc = "iterate" /\ LoopEnds
  /\ out' = [c \in Cells |-> IF c[1] = y /\ c[2] - x \in Batch
                               THEN Stored(iter[c[2] - x]) ELSE out[c]]
  /\ NextBatch
  /\ n' = 0
  /\ iter' = [l \in Batch |-> 0]
  /\ UNCHANGED Call

Next == Enter \/ Iterate \/ Store

Spec     == Init /\ [][Next]_vars
FairSpec == Spec /\ WF_vars(Next)
-----------------------------------------------------------------------------
TypeOK ==
  /\ kernel \in Kernels
  /\ row_begin \in 0..Rows /\ row_end \in 0..Rows /\ max_iter \in 0..MaxIter
  /\ escape \in [Cells -> 1..(max_iter + 1)] /\ exit \in [Cells -> Exits]
  /\ pc \in {"enter", "iterate", "done"}
  /\ y \in 0..Rows /\ x \in 0..VecWidth /\ n \in 0..max_iter
  /\ iter \in [Batch -> 0..max_iter]
  /\ out \in [Cells -> (0..(CountLimit - 1)) \cup {NotWritten}]

(***************************************************************************)
(* The ground truth of a pixel: the scalar kernel's loop, which leaves     *)
(* only on a magnitude above the radius.                                   *)
(***************************************************************************)
ScalarCount(c) ==
  IF exit[c] = "nan" \/ escape[c] > max_iter THEN max_iter ELSE escape[c]

(***************************************************************************)
(* Every kernel reproduces the scalar reference (src/src/kernels_scalar    *)
(* .cpp:4, "required to reproduce its output bit-for-bit"): what is in the *)
(* buffer is the ground truth, lanes that escape early in a batch or at    *)
(* the iteration limit included.                                           *)
(***************************************************************************)
ReproducesScalar == \A c \in Cells : out[c] # NotWritten => out[c] = ScalarCount(c)

(***************************************************************************)
(* A call writes all the rows it was given and no other pixel, and its     *)
(* batches do not reach past the padded width, where the next row begins:  *)
(* the render pool runs calls on different rows at the same time.          *)
(***************************************************************************)
InCall(c) == row_begin <= c[1] /\ c[1] < row_end

StaysInRow == pc = "iterate" => x + L <= VecWidth

WritesItsRows ==
  /\ StaysInRow
  /\ \A c \in Cells :
       /\ out[c] # NotWritten => InCall(c)
       /\ pc = "done" /\ InCall(c) => out[c] # NotWritten

(***************************************************************************)
(* The inductive invariant.  A lane's count lags behind n exactly when its *)
(* pixel has escaped, the pixels before the batch are written, and the     *)
(* batch starts at a whole number of batches, so all its lanes are pixels. *)
(***************************************************************************)
Before(c) == c[1] < y \/ (c[1] = y /\ c[2] < x)

KernelInv ==
  /\ TypeOK
  /\ \E b \in 0..VecWidth : x = L * b
  /\ pc = "enter" => x = 0 /\ n = 0 /\ \A l \in Batch : iter[l] = 0
  /\ pc = "iterate" =>
       /\ row_begin <= y /\ y < row_end /\ x < VecWidth
       /\ \A l \in Batch :
            iter[l] = IF n < ScalarCount(<<y, x + l>>) THEN n ELSE ScalarCount(<<y, x + l>>)
  /\ \A c \in Cells :
       IF pc # "enter" /\ InCall(c) /\ (pc = "done" \/ Before(c))
         THEN out[c] = ScalarCount(c)
         ELSE out[c] = NotWritten

KernelEnds == <>(pc = "done")
=============================================================================
