---------------------------- MODULE FrameRenderer ----------------------------
(***************************************************************************)
(* What RenderFrame promises its caller (src/src/thread_pool.hpp, "Renders *)
(* rows [0, params->height) ... Blocks until the whole frame is complete"):*)
(* between the call and the return each row of the frame is written once   *)
(* by this call, in any order and by anybody; a row is never written while *)
(* no call is in progress, and the call returns.                           *)
(***************************************************************************)
EXTENDS Integers

CONSTANTS Heights, MaxHeight

VARIABLES
  rendering, \* a call is in progress
  frame,     \* the number of calls so far
  height,    \* the rows of the last call
  painted    \* the call that last wrote each row

vars == <<rendering, frame, height, painted>>

Rows == 0..(MaxHeight - 1)
Whole(image, call, rows) == \A y \in Rows : y < rows => image[y] = call

Init ==
  /\ rendering = FALSE
  /\ frame = 0
  /\ height = 0
  /\ painted = [y \in Rows |-> 0]

Call(h) ==
  /\ ~rendering
  /\ rendering' = TRUE
  /\ frame' = frame + 1
  /\ height' = h
  /\ UNCHANGED painted

Paint(y) ==
  /\ rendering
  /\ y < height
  /\ painted[y] # frame
  /\ painted' = [painted EXCEPT ![y] = frame]
  /\ UNCHANGED <<rendering, frame, height>>

Return ==
  /\ rendering
  /\ Whole(painted, frame, height)
  /\ rendering' = FALSE
  /\ UNCHANGED <<frame, height, painted>>

(***************************************************************************)
(* A call nobody can watch: the single-threaded path is one kernel call on *)
(* the caller's own thread.                                                *)
(***************************************************************************)
CallAndReturn(h) ==
  /\ ~rendering
  /\ frame' = frame + 1
  /\ height' = h
  /\ painted' = [y \in Rows |-> IF y < h THEN frame + 1 ELSE painted[y]]
  /\ UNCHANGED rendering

Next ==
  \/ \E h \in Heights : Call(h) \/ CallAndReturn(h)
  \/ \E y \in Rows : Paint(y)
  \/ Return

Spec == Init /\ [][Next]_vars
=============================================================================
