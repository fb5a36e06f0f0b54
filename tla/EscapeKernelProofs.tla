-------------------------- MODULE EscapeKernelProofs --------------------------
(***************************************************************************)
(* Theorems about the kernels, for images, caps and batches of every size. *)
(***************************************************************************)
EXTENDS EscapeKernel, TLAPS

(***************************************************************************)
(* No orbit leaves as NaN: every c of the image is finite.                 *)
(***************************************************************************)
FiniteImage == "nan" \notin Exits

(***************************************************************************)
(* Whole batches: where a batch starts, and that one which starts inside a *)
(* row of whole batches ends inside it.                                    *)
(***************************************************************************)
LEMMA BatchIndex ==
  ASSUME NEW l \in Nat \ {0}, NEW b \in Nat, NEW v \in Nat, l * b <= v
  PROVE  b <= v
<1>1. b <= l * b  BY SMT
<1> QED  BY <1>1, SMT

LEMMA BatchFits ==
  ASSUME NEW l \in Nat \ {0}, NEW b \in Nat, NEW e \in Nat, l * b < l * e
  PROVE  l * b + l <= l * e
<1>1. b < e  BY SMT
<1>2. b + 1 <= e  BY <1>1, SMT
<1>3. l * (b + 1) <= l * e  BY <1>2, SMT
<1> QED  BY <1>3, SMT

LEMMA Constants ==
  /\ Rows \in Nat /\ Width \in Nat /\ MaxIter \in Nat /\ MaxLanes \in Nat \ {0}
  /\ CountLimit \in Nat /\ MaxIter < CountLimit
  /\ VecWidth \in Nat
  /\ NotWritten \notin Nat
<1>1. (Width + MaxLanes - 1) \div MaxLanes \in Nat
  BY KernelAssumption, SMT DEF KernelAssumption
<1>2. ((Width + MaxLanes - 1) \div MaxLanes) * MaxLanes \in Nat
  BY <1>1, KernelAssumption, SMT DEF KernelAssumption
<1> QED  BY <1>2, KernelAssumption, SMT DEF KernelAssumption, VecWidth, PaddedWidth, NotWritten

LEMMA LanesType ==
  ASSUME NEW k \in Kernels
  PROVE  Lanes[k] \in Nat \ {0}
BY KernelAssumption DEF KernelAssumption

(***************************************************************************)
(* A padded row is a whole number of batches of every kernel.              *)
(***************************************************************************)
LEMMA WholeBatches ==
  ASSUME NEW k \in Kernels
  PROVE  \E e \in Nat : VecWidth = Lanes[k] * e
<1>1. PICK q \in 1..MaxLanes : MaxLanes = Lanes[k] * q  BY LanesFit DEF LanesFit
<1> DEFINE w == (Width + MaxLanes - 1) \div MaxLanes
<1>2. w \in Nat
  BY KernelAssumption, SMT DEF KernelAssumption
<1>3. q \in Nat  BY <1>1, Constants, SMT
<1>4. VecWidth = w * MaxLanes  BY DEF VecWidth, PaddedWidth
<1> HIDE DEF w
<1>5. \A a, b, c \in Nat : a * (b * c) = b * (c * a)  BY SMT
<1>6. w * (Lanes[k] * q) = Lanes[k] * (q * w)  BY <1>2, <1>3, <1>5, LanesType
<1>7. q * w \in Nat  BY <1>2, <1>3, SMT
<1> QED  BY <1>1, <1>4, <1>6, <1>7

(***************************************************************************)
(* A batch that starts inside a row, at a whole number of batches, ends    *)
(* inside it: its lanes are pixels of that row.                            *)
(***************************************************************************)
LEMMA BatchInRow ==
  ASSUME NEW k \in Kernels, NEW b \in Nat, Lanes[k] * b < VecWidth
  PROVE  Lanes[k] * b + Lanes[k] <= VecWidth
<1>1. PICK e \in Nat : VecWidth = Lanes[k] * e  BY WholeBatches
<1> QED  BY <1>1, BatchFits, LanesType

LEMMA BatchStays == KernelInv => StaysInRow
<1> SUFFICES ASSUME KernelInv, pc = "iterate" PROVE x + L <= VecWidth
  BY DEF StaysInRow
<1>1. PICK b \in 0..VecWidth : x = L * b  BY DEF KernelInv
<1>2. kernel \in Kernels /\ x < VecWidth  BY DEF KernelInv, TypeOK
<1>3. b \in Nat  BY Constants, SMT
<1> QED  BY <1>1, <1>2, <1>3, BatchInRow DEF L

LEMMA LanesAreCells ==
  ASSUME KernelInv, pc = "iterate", NEW l \in Batch
  PROVE  <<y, x + l>> \in Cells
<1>1. x + L <= VecWidth  BY BatchStays DEF StaysInRow
<1>2. L \in Nat \ {0}  BY LanesType DEF KernelInv, TypeOK, L
<1>3. y \in 0..Rows /\ row_end \in 0..Rows /\ y < row_end /\ x \in 0..VecWidth
  BY DEF KernelInv, TypeOK
<1>4. y \in 0..(Rows - 1)
  BY <1>3, Constants, SMT
<1>5. x + l \in 0..(VecWidth - 1)
  BY <1>1, <1>2, <1>3, Constants, SMT DEF Batch
<1> QED  BY <1>4, <1>5 DEF Cells

(***************************************************************************)
(* On a finite image the count of a pixel is where it left, or the cap.    *)
(***************************************************************************)
LEMMA CountOf ==
  ASSUME TypeOK, FiniteImage, NEW c \in Cells
  PROVE  /\ escape[c] \in Nat
         /\ ScalarCount(c) \in 0..max_iter
         /\ ScalarCount(c) = IF escape[c] > max_iter THEN max_iter ELSE escape[c]
         /\ Inside(c) <=> n < escape[c]
<1>1. exit[c] # "nan"  BY DEF TypeOK, FiniteImage
<1>2. escape[c] \in 1..(max_iter + 1) /\ max_iter \in Nat
  BY Constants, SMT DEF TypeOK
<1>3. ScalarCount(c) = IF escape[c] > max_iter THEN max_iter ELSE escape[c]
  BY <1>1 DEF ScalarCount
<1>4. Inside(c) <=> n < escape[c]  BY <1>1 DEF Inside
<1> QED  BY <1>2, <1>3, <1>4, SMT

LEMMA StoredCount ==
  ASSUME TypeOK, NEW i \in 0..max_iter
  PROVE  Stored(i) = i /\ i \in 0..(CountLimit - 1)
<1>1. i \in Nat /\ i < CountLimit  BY Constants, SMT DEF TypeOK
<1>2. i % CountLimit = i  BY <1>1, Constants, SMT
<1> QED  BY <1>1, <1>2, Constants, SMT DEF Stored

(***************************************************************************)
(* Before any call the buffer holds nothing, and the first batch of any    *)
(* row has counted nothing.                                                *)
(***************************************************************************)
LEMMA InitInv == ASSUME FiniteImage PROVE Init => KernelInv
<1> SUFFICES ASSUME Init PROVE KernelInv  OBVIOUS
<1>1. L \in Nat \ {0}  BY LanesType DEF Init, L
<1>2. max_iter \in Nat  BY Constants, SMT DEF Init
<1>3. x = L * 0 /\ 0 \in 0..VecWidth  BY <1>1, Constants, SMT DEF Init
<1>4. 0 \in 0..Rows /\ 0 \in 0..max_iter  BY <1>2, Constants, SMT
<1>5. TypeOK  BY <1>3, <1>4 DEF TypeOK, Init
<1>6. \A l \in Batch : iter[l] = 0  BY DEF Init
<1>7. \A c \in Cells : out[c] = NotWritten  BY DEF Init
<1>8. pc = "enter" /\ n = 0 /\ x = 0  BY DEF Init
<1> QED  BY <1>3, <1>5, <1>6, <1>7, <1>8 DEF KernelInv

LEMMA EnterKeepsInv == ASSUME FiniteImage, KernelInv, Enter PROVE KernelInv'
<1>1. L \in Nat \ {0} /\ L' = L /\ Batch' = Batch
  BY LanesType DEF KernelInv, TypeOK, L, Batch, Enter, Call
<1>2. TypeOK  BY DEF KernelInv
<1>3. pc = "enter" /\ x = 0 /\ n = 0 /\ x' = 0 /\ n' = 0 /\ iter' = iter /\ out' = out
  BY DEF Enter, KernelInv
<1>4. \A l \in Batch : iter[l] = 0  BY <1>3 DEF KernelInv
<1>5. \A c \in Cells : out[c] = NotWritten  BY <1>3 DEF KernelInv
<1>6. /\ row_begin' = row_begin /\ row_end' = row_end /\ max_iter' = max_iter
      /\ escape' = escape /\ exit' = exit /\ kernel' = kernel
  BY DEF Enter, Call
<1>7. row_begin \in 0..Rows /\ row_end \in 0..Rows /\ y \in 0..Rows  BY <1>2 DEF TypeOK
<1>8. CASE row_begin < row_end /\ VecWidth > 0
  <2>1. pc' = "iterate" /\ y' = row_begin  BY <1>8 DEF Enter
  <2>2. TypeOK'
    BY <1>1, <1>2, <1>3, <1>6, <1>7, <2>1 DEF TypeOK
  <2>3. \E b \in 0..VecWidth : x' = L' * b  BY <1>1, <1>3, <1>6 DEF KernelInv
  <2>4. y' < row_end' /\ row_begin' <= y' /\ x' < VecWidth
    BY <1>3, <1>6, <1>7, <1>8, <2>1, Constants, SMT
  <2>5. ASSUME NEW l \in Batch PROVE ScalarCount(<<y', x' + l>>) \in Nat
    <3>1. x' + l \in 0..(VecWidth - 1)
      <4>1. \A b \in Nat : L * b = 0 /\ L * b < VecWidth => L <= VecWidth
        BY <1>1, BatchInRow, <1>2, SMT DEF L, TypeOK
      <4>2. L * 0 = 0  BY <1>1, SMT
      <4>3. L <= VecWidth  BY <4>1, <4>2, <1>8, Constants, SMT
      <4> QED  BY <4>3, <1>1, <1>3, Constants, SMT DEF Batch
    <3>2. y' \in 0..(Rows - 1)  BY <1>7, <2>1, <1>8, Constants, SMT
    <3>3. <<y', x' + l>> \in Cells  BY <3>1, <3>2 DEF Cells
    <3>4. max_iter \in Nat  BY <1>2, Constants, SMT DEF TypeOK
    <3> QED  BY <3>3, <3>4, CountOf, <1>2, SMT
  <2>6. \A l \in Batch' : iter'[l] = IF n' < ScalarCount(<<y, x + l>>)'
                                       THEN n' ELSE ScalarCount(<<y, x + l>>)'
    <3> SUFFICES ASSUME NEW l \in Batch
        PROVE iter'[l] = IF n' < ScalarCount(<<y, x + l>>)' THEN n' ELSE ScalarCount(<<y, x + l>>)'
      BY <1>1
    <3>1. ScalarCount(<<y, x + l>>)' = ScalarCount(<<y', x' + l>>)
      BY <1>6 DEF ScalarCount
    <3>2. iter'[l] = 0  BY <1>3, <1>4
    <3> QED  BY <2>5, <3>1, <3>2, <1>3, SMT
  <2>7. \A c \in Cells : ~(InCall(c)' /\ Before(c)')
    <3> SUFFICES ASSUME NEW c \in Cells PROVE ~(InCall(c)' /\ Before(c)')  OBVIOUS
    <3>1. c[1] \in Int /\ c[2] \in 0..(VecWidth - 1)  BY Constants, SMT DEF Cells
    <3> QED  BY <3>1, <1>3, <1>6, <1>7, <2>1, Constants, SMT DEF InCall, Before
  <2>8. \A c \in Cells : out'[c] = NotWritten  BY <1>3, <1>5
  <2> QED  BY <2>1, <2>2, <2>3, <2>4, <2>6, <2>7, <2>8 DEF KernelInv
<1>9. CASE ~(row_begin < row_end /\ VecWidth > 0)
  <2>1. pc' = "done" /\ y' = y  BY <1>9 DEF Enter
  <2>2. TypeOK'  BY <1>1, <1>2, <1>3, <1>6, <2>1 DEF TypeOK
  <2>3. \E b \in 0..VecWidth : x' = L' * b  BY <1>1, <1>3, <1>6 DEF KernelInv
  <2>4. \A c \in Cells : ~InCall(c)'
    <3> SUFFICES ASSUME NEW c \in Cells, InCall(c)' PROVE FALSE  OBVIOUS
    <3>1. c[1] \in Int /\ c[2] \in 0..(VecWidth - 1)  BY Constants, SMT DEF Cells
    <3>2. row_begin < row_end  BY <3>1, <1>6, <1>7, Constants, SMT DEF InCall
    <3>3. VecWidth > 0  BY <3>1, Constants, SMT
    <3> QED  BY <3>2, <3>3, <1>9
  <2>5. \A c \in Cells : out'[c] = NotWritten  BY <1>3, <1>5
  <2> QED  BY <2>1, <2>2, <2>3, <2>4, <2>5 DEF KernelInv
<1> QED  BY <1>8, <1>9

(***************************************************************************)
(* An iteration: the lanes inside count one more, those that left keep     *)
(* their count.                                                            *)
(***************************************************************************)
LEMMA IterateKeepsInv == ASSUME FiniteImage, KernelInv, Iterate PROVE KernelInv'
<1>1. TypeOK  BY DEF KernelInv
<1>2. /\ pc = "iterate" /\ n < max_iter /\ n' = n + 1
      /\ iter' = [l \in Batch |-> IF Mask(l) THEN iter[l] + 1 ELSE iter[l]]
      /\ pc' = pc /\ y' = y /\ x' = x /\ out' = out
      /\ row_begin' = row_begin /\ row_end' = row_end /\ max_iter' = max_iter
      /\ escape' = escape /\ exit' = exit /\ kernel' = kernel
  BY DEF Iterate, Call
<1>3. L' = L /\ Batch' = Batch  BY <1>2 DEF L, Batch
<1>4. max_iter \in Nat /\ n \in 0..max_iter  BY <1>1, Constants, SMT DEF TypeOK
<1>5. ASSUME NEW l \in Batch
      PROVE  /\ iter'[l] = IF n' < ScalarCount(<<y, x + l>>)
                             THEN n' ELSE ScalarCount(<<y, x + l>>)
             /\ iter'[l] \in 0..max_iter
  <2> DEFINE c == <<y, x + l>>
  <2>1. c \in Cells  BY <1>2, LanesAreCells
  <2>2. iter[l] = IF n < ScalarCount(c) THEN n ELSE ScalarCount(c)
    BY <1>2 DEF KernelInv
  <2>3. iter'[l] = IF Inside(c) THEN iter[l] + 1 ELSE iter[l]
    BY <1>2 DEF Mask
  <2> HIDE DEF c
  <2>4. /\ escape[c] \in Nat
        /\ ScalarCount(c) = IF escape[c] > max_iter THEN max_iter ELSE escape[c]
        /\ Inside(c) <=> n < escape[c]
    BY <2>1, <1>1, CountOf
  <2>5. /\ iter'[l] = IF n' < ScalarCount(c) THEN n' ELSE ScalarCount(c)
        /\ iter'[l] \in 0..max_iter
    BY <2>2, <2>3, <2>4, <1>2, <1>4, SMT
  <2> QED  BY <2>5 DEF c
<1>6. n' \in 0..max_iter'  BY <1>2, <1>4, SMT
<1>7. iter' \in [Batch' -> 0..max_iter']  BY <1>2, <1>3, <1>5
<1>8. TypeOK'  BY <1>1, <1>2, <1>3, <1>6, <1>7 DEF TypeOK
<1>9. \E b \in 0..VecWidth : x' = L' * b  BY <1>2, <1>3 DEF KernelInv
<1>10. row_begin' <= y' /\ y' < row_end' /\ x' < VecWidth  BY <1>2 DEF KernelInv
<1>11. \A l \in Batch' : iter'[l] = IF n' < ScalarCount(<<y, x + l>>)'
                                      THEN n' ELSE ScalarCount(<<y, x + l>>)'
  BY <1>2, <1>3, <1>5 DEF ScalarCount
<1>12. \A c \in Cells : /\ InCall(c)' <=> InCall(c)
                        /\ Before(c)' <=> Before(c)
                        /\ ScalarCount(c)' = ScalarCount(c)
  BY <1>2 DEF InCall, Before, ScalarCount
<1>13. \A c \in Cells :
         IF pc' # "enter" /\ InCall(c)' /\ (pc' = "done" \/ Before(c)')
           THEN out'[c] = ScalarCount(c)' ELSE out'[c] = NotWritten
  BY <1>2, <1>12 DEF KernelInv
<1> QED  BY <1>2, <1>8, <1>9, <1>10, <1>11, <1>13 DEF KernelInv

(***************************************************************************)
(* A store: every lane has left or is at the cap, and the batch's pixels   *)
(* get their counts.                                                       *)
(***************************************************************************)
LEMMA StoreKeepsInv == ASSUME FiniteImage, KernelInv, Store PROVE KernelInv'
<1>1. TypeOK  BY DEF KernelInv
<1>2. /\ pc = "iterate" /\ LoopEnds /\ n' = 0
      /\ iter' = [l \in Batch |-> 0]
      /\ out' = [c \in Cells |-> IF c[1] = y /\ c[2] - x \in Batch
                                   THEN Stored(iter[c[2] - x]) ELSE out[c]]
      /\ row_begin' = row_begin /\ row_end' = row_end /\ max_iter' = max_iter
      /\ escape' = escape /\ exit' = exit /\ kernel' = kernel
      /\ NextBatch
  BY DEF Store, Call
<1>3. L \in Nat \ {0} /\ L' = L /\ Batch' = Batch
  BY <1>2, LanesType DEF L, Batch, TypeOK, KernelInv
<1>4. /\ max_iter \in Nat /\ n \in 0..max_iter /\ x \in 0..VecWidth /\ y \in 0..Rows
      /\ row_begin \in 0..Rows /\ row_end \in 0..Rows
  BY <1>1, Constants, SMT DEF TypeOK
<1>5. row_begin <= y /\ y < row_end /\ x < VecWidth /\ x + L <= VecWidth
  BY <1>2, BatchStays DEF KernelInv, StaysInRow
<1>6. ASSUME NEW l \in Batch
      PROVE  Stored(iter[l]) = ScalarCount(<<y, x + l>>)
  <2> DEFINE c == <<y, x + l>>
  <2>1. c \in Cells  BY <1>2, LanesAreCells
  <2>2. iter[l] = IF n < ScalarCount(c) THEN n ELSE ScalarCount(c)
    BY <1>2 DEF KernelInv
  <2>3. n = max_iter \/ ~Inside(c)  BY <1>2 DEF LoopEnds, Mask
  <2> HIDE DEF c
  <2>4. /\ escape[c] \in Nat /\ ScalarCount(c) \in 0..max_iter
        /\ ScalarCount(c) = IF escape[c] > max_iter THEN max_iter ELSE escape[c]
        /\ Inside(c) <=> n < escape[c]
    BY <2>1, <1>1, CountOf
  <2>5. iter[l] = ScalarCount(c)
    BY <2>2, <2>3, <2>4, <1>4, SMT
  <2>6. Stored(iter[l]) = iter[l]  BY <2>4, <2>5, <1>1, StoredCount
  <2> QED  BY <2>5, <2>6 DEF c
<1>7. \A c \in Cells : ScalarCount(c)' = ScalarCount(c) /\ (InCall(c)' <=> InCall(c))
  BY <1>2 DEF ScalarCount, InCall
<1>8. ASSUME NEW c \in Cells
      PROVE  /\ c = <<c[1], c[2]>> /\ c[1] \in 0..(Rows - 1) /\ c[2] \in 0..(VecWidth - 1)
             /\ c[1] \in Int /\ c[2] \in Int
  BY Constants, SMT DEF Cells
<1>9. ASSUME NEW c \in Cells, c[1] = y, c[2] - x \in Batch
      PROVE  out'[c] = ScalarCount(c)
  <2>1. x + (c[2] - x) = c[2]  BY <1>4, <1>8, SMT
  <2>2. Stored(iter[c[2] - x]) = ScalarCount(<<y, x + (c[2] - x)>>)  BY <1>6, <1>9
  <2>3. out'[c] = Stored(iter[c[2] - x])  BY <1>2, <1>9
  <2> QED  BY <2>1, <2>2, <2>3, <1>8, <1>9
<1>10. ASSUME NEW c \in Cells
       PROVE  c[1] = y /\ c[2] - x \in Batch <=> c[1] = y /\ x <= c[2] /\ c[2] < x + L
  BY <1>3, <1>4, <1>8, Constants, SMT DEF Batch
<1>11. ASSUME NEW c \in Cells
       PROVE  IF InCall(c) /\ (Before(c) \/ (c[1] = y /\ c[2] < x + L))
                THEN out'[c] = ScalarCount(c) ELSE out'[c] = NotWritten
  <2>1. CASE c[1] = y /\ c[2] - x \in Batch
    <3>1. c[2] < x + L  BY <1>10, <2>1
    <3>2. InCall(c)  BY <1>5, <2>1 DEF InCall
    <3> QED  BY <3>1, <3>2, <2>1, <1>9
  <2>2. CASE ~(c[1] = y /\ c[2] - x \in Batch)
    <3>1. out'[c] = out[c]  BY <1>2, <2>2
    <3>2. Before(c) \/ (c[1] = y /\ c[2] < x + L) <=> Before(c)
      BY <1>10, <2>2, <1>3, <1>4, <1>8, Constants, SMT DEF Before
    <3>3. IF InCall(c) /\ Before(c) THEN out[c] = ScalarCount(c) ELSE out[c] = NotWritten
      BY <1>2 DEF KernelInv
    <3> QED  BY <3>1, <3>2, <3>3
  <2> QED  BY <2>1, <2>2
<1>12. out' \in [Cells -> (0..(CountLimit - 1)) \cup {NotWritten}]
  <2>1. ASSUME NEW c \in Cells PROVE out'[c] \in (0..(CountLimit - 1)) \cup {NotWritten}
    <3>1. ScalarCount(c) \in 0..max_iter  BY <1>1, CountOf
    <3>2. ScalarCount(c) \in 0..(CountLimit - 1)  BY <3>1, <1>1, StoredCount
    <3> QED  BY <3>2, <1>11
  <2> QED  BY <2>1, <1>2
<1>13. iter' \in [Batch' -> 0..max_iter'] /\ n' \in 0..max_iter'
  BY <1>2, <1>3, <1>4, SMT
<1>14. ASSUME NEW c \in Cells
       PROVE  0 = IF 0 < ScalarCount(c) THEN 0 ELSE ScalarCount(c)
  BY <1>1, <1>4, CountOf, SMT
<1>15. CASE x + L < VecWidth
  <2>1. x' = x + L /\ y' = y /\ pc' = pc  BY <1>2, <1>15 DEF NextBatch
  <2>2. \E b \in 0..VecWidth : x' = L' * b
    <3>1. PICK b \in 0..VecWidth : x = L * b  BY DEF KernelInv
    <3>2. b \in Nat /\ x' = L * (b + 1)  BY <3>1, <2>1, <1>3, Constants, SMT
    <3>3. L * (b + 1) <= VecWidth  BY <3>2, <2>1, <1>15, <1>3, <1>4, Constants, SMT
    <3>4. b + 1 <= VecWidth  BY <3>2, <3>3, <1>3, BatchIndex, Constants, SMT
    <3>5. b + 1 \in 0..VecWidth  BY <3>2, <3>4, Constants, SMT
    <3> QED  BY <3>2, <3>5, <1>3
  <2>3. x' \in 0..VecWidth /\ x' < VecWidth  BY <2>1, <1>3, <1>4, <1>15, Constants, SMT
  <2>4. TypeOK'  BY <1>1, <1>2, <1>12, <1>13, <2>1, <2>3 DEF TypeOK
  <2>5. row_begin' <= y' /\ y' < row_end' /\ x' < VecWidth
    BY <1>2, <1>5, <2>1, <2>3
  <2>6. \A l \in Batch' : iter'[l] = IF n' < ScalarCount(<<y, x + l>>)'
                                       THEN n' ELSE ScalarCount(<<y, x + l>>)'
    <3> SUFFICES ASSUME NEW l \in Batch
        PROVE iter'[l] = IF n' < ScalarCount(<<y, x + l>>)' THEN n' ELSE ScalarCount(<<y, x + l>>)'
      BY <1>3
    <3>1. <<y', x' + l>> \in Cells
      <4>1. PICK b \in 0..VecWidth : x' = L' * b  BY <2>2
      <4>2. b \in Nat  BY Constants, SMT
      <4>3. x' + L <= VecWidth
        BY <4>1, <4>2, <2>3, <1>1, <1>2, BatchInRow DEF L, TypeOK
      <4>4. l \in 0..(L - 1) /\ L \in Nat /\ x' \in Nat
        BY <1>3, <2>3, Constants, SMT DEF Batch
      <4>5. x' + l \in 0..(VecWidth - 1)
        <5>1. VecWidth \in Nat  BY Constants
        <5>2. \A v, a, w \in Nat : \A k \in 0..(w - 1) : a + w <= v => a + k \in 0..(v - 1)
          BY SMT
        <5> QED  BY <4>3, <4>4, <5>1, <5>2
      <4>6. y' \in 0..(Rows - 1)  BY <1>4, <1>5, <2>1, Constants, SMT
      <4> QED  BY <4>5, <4>6 DEF Cells
    <3>2. ScalarCount(<<y, x + l>>)' = ScalarCount(<<y', x' + l>>)
      BY <1>2 DEF ScalarCount
    <3> QED  BY <3>1, <3>2, <1>2, <1>14
  <2>7. ASSUME NEW c \in Cells
        PROVE  Before(c)' <=> Before(c) \/ (c[1] = y /\ c[2] < x + L)
    BY <1>3, <1>4, <1>8, <2>1, SMT DEF Before
  <2>8. \A c \in Cells :
          IF pc' # "enter" /\ InCall(c)' /\ (pc' = "done" \/ Before(c)')
            THEN out'[c] = ScalarCount(c)' ELSE out'[c] = NotWritten
    BY <1>2, <1>7, <1>11, <2>1, <2>7
  <2> QED  BY <1>2, <2>1, <2>2, <2>4, <2>5, <2>6, <2>8 DEF KernelInv
<1>16. CASE ~(x + L < VecWidth)
  <2>1. /\ x' = 0 /\ y' = y + 1
        /\ pc' = IF y + 1 < row_end THEN "iterate" ELSE "done"
    BY <1>2, <1>16 DEF NextBatch
  <2>2. \E b \in 0..VecWidth : x' = L' * b
    <3>1. 0 \in 0..VecWidth /\ L' * 0 = 0  BY <1>3, Constants, SMT
    <3> QED  BY <3>1, <2>1
  <2>3. /\ y' \in 0..Rows /\ x' \in 0..VecWidth /\ pc' \in {"iterate", "done"}
    BY <1>4, <1>5, <2>1, Constants, SMT
  <2>4. TypeOK'  BY <1>1, <1>2, <1>12, <1>13, <2>3 DEF TypeOK
  <2>5. pc' = "iterate" => row_begin' <= y' /\ y' < row_end' /\ x' < VecWidth
    BY <1>2, <1>4, <1>5, <2>1, Constants, SMT
  <2>6. ASSUME pc' = "iterate", NEW l \in Batch'
        PROVE  iter'[l] = IF n' < ScalarCount(<<y, x + l>>)'
                            THEN n' ELSE ScalarCount(<<y, x + l>>)'
    <3>1. <<y', x' + l>> \in Cells
      <4>1. x' + l \in 0..(VecWidth - 1)
        BY <1>3, <1>4, <1>5, <2>1, Constants, SMT DEF Batch
      <4>2. y' \in 0..(Rows - 1)  BY <1>2, <1>4, <2>5, <2>3, <2>6, Constants, SMT
      <4> QED  BY <4>1, <4>2 DEF Cells
    <3>2. ScalarCount(<<y, x + l>>)' = ScalarCount(<<y', x' + l>>)
      BY <1>2 DEF ScalarCount
    <3> QED  BY <3>1, <3>2, <1>2, <1>3, <1>14
  <2>7. ASSUME NEW c \in Cells, InCall(c)
        PROVE  pc' = "done" \/ Before(c)' <=> Before(c) \/ (c[1] = y /\ c[2] < x + L)
    <3>1. Before(c)' <=> c[1] < y + 1  BY <1>4, <1>8, <2>1, Constants, SMT DEF Before
    <3>2. Before(c) \/ (c[1] = y /\ c[2] < x + L) <=> c[1] < y + 1
      BY <1>3, <1>4, <1>8, <1>16, Constants, SMT DEF Before
    <3>3. pc' = "done" => c[1] < y + 1
      BY <1>4, <1>8, <2>1, <2>7, SMT DEF InCall
    <3> QED  BY <3>1, <3>2, <3>3
  <2>8. \A c \in Cells :
          IF pc' # "enter" /\ InCall(c)' /\ (pc' = "done" \/ Before(c)')
            THEN out'[c] = ScalarCount(c)' ELSE out'[c] = NotWritten
    BY <1>7, <1>11, <2>3, <2>7
  <2> QED  BY <2>2, <2>3, <2>4, <2>5, <2>6, <2>8 DEF KernelInv
<1> QED  BY <1>15, <1>16

(***************************************************************************)
(* The invariant of a call, on an image of any size with finite            *)
(* coordinates, for kernels of any number of lanes.                        *)
(***************************************************************************)
THEOREM KernelsKeepInv == ASSUME FiniteImage PROVE Spec => []KernelInv
<1>1. Init => KernelInv  BY InitInv
<1>2. KernelInv /\ [Next]_vars => KernelInv'
  <2> SUFFICES ASSUME KernelInv, [Next]_vars PROVE KernelInv'  OBVIOUS
  <2>1. CASE Enter  BY <2>1, EnterKeepsInv
  <2>2. CASE Iterate  BY <2>2, IterateKeepsInv
  <2>3. CASE Store  BY <2>3, StoreKeepsInv
  <2>4. CASE UNCHANGED vars
    BY <2>4 DEF vars, KernelInv, TypeOK, L, Batch, InCall, Before, ScalarCount
  <2> QED  BY <2>1, <2>2, <2>3, <2>4 DEF Next
<1> QED  BY <1>1, <1>2, PTL DEF Spec

(***************************************************************************)
(* Every kernel reproduces the scalar reference on a finite image.         *)
(***************************************************************************)
THEOREM KernelsReproduceScalar == ASSUME FiniteImage PROVE Spec => []ReproducesScalar
<1>1. KernelInv => ReproducesScalar
  BY DEF KernelInv, ReproducesScalar
<1> QED  BY <1>1, KernelsKeepInv, PTL

(***************************************************************************)
(* A call writes all of its rows and nothing else: calls on different rows *)
(* do not touch the same pixel, and a batch ends in the row it starts in.  *)
(***************************************************************************)
THEOREM KernelsWriteTheirRows == ASSUME FiniteImage PROVE Spec => []WritesItsRows
<1>1. KernelInv => WritesItsRows
  <2> SUFFICES ASSUME KernelInv, NEW c \in Cells
      PROVE  /\ out[c] # NotWritten => InCall(c)
             /\ pc = "done" /\ InCall(c) => out[c] # NotWritten
    BY BatchStays DEF WritesItsRows
  <2>1. IF pc # "enter" /\ InCall(c) /\ (pc = "done" \/ Before(c))
          THEN out[c] = ScalarCount(c) ELSE out[c] = NotWritten
    BY DEF KernelInv
  <2>2. ScalarCount(c) # NotWritten
    <3>1. TypeOK /\ max_iter \in Nat  BY Constants, SMT DEF KernelInv, TypeOK
    <3>2. ScalarCount(c) \in 0..max_iter  BY <3>1, CountOf
    <3> QED  BY <3>1, <3>2, Constants, SMT
  <2> QED  BY <2>1, <2>2
<1> QED  BY <1>1, KernelsKeepInv, PTL
=============================================================================
