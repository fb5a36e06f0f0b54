----------------------------- MODULE ViewNavigation -----------------------------
(***************************************************************************)
(* Moving the view with the mouse (src/src/main.cpp, class App): where the *)
(* picture lies in the window, which point of the plane a pixel of the     *)
(* window shows, dragging, zooming, the choice of a resolution and of a    *)
(* place.                                                                  *)
(*                                                                         *)
(* Lengths of the plane are integers in a unit so small that every         *)
(* division below is exact on the instance checked; one that were not      *)
(* would violate CursorKeepsPoint.                                         *)
(***************************************************************************)
EXTENDS Integers, Sequences

CONSTANTS
  Resolutions,     \* a sequence of widths and heights in pixels
  Places,          \* a sequence of views, the first the initial one
  One,             \* the length 1 of the plane in units
  EpsilonInverse,  \* units of the last place in 1: 2^23 for float
  MinSpan, MaxSpan \* bound: of the spans reached by zooming

ASSUME ViewAssumption ==
  /\ Resolutions \in Seq([width : Nat \ {0}, height : Nat \ {0}]) /\ Resolutions # <<>>
  /\ Places \in Seq([x : Int, y : Int, span : Nat \ {0}]) /\ Places # <<>>
  /\ MinSpan \in Nat \ {0} /\ MaxSpan \in Nat

VARIABLES
  view,              \* center_x, center_y and span_x
  resolution_index,
  window,            \* its width and height, what SDL_GetRendererOutputSize returns
  cursor,            \* the mouse in the window
  dragging

viewVars == <<view, resolution_index, window, cursor, dragging>>

Resolution == Resolutions[resolution_index]

ViewInit(w) ==
  /\ view = Places[1]
  /\ resolution_index = 1
  /\ window = w
  /\ cursor = [x |-> 0, y |-> 0]
  /\ dragging = FALSE
-----------------------------------------------------------------------------
(***************************************************************************)
(* FractalRect: the picture's place, with the picture's aspect ratio and   *)
(* centred; a window without area has a picture without.                   *)
(***************************************************************************)
RoundDiv(n, d) == (2 * n + d) \div (2 * d)

IsWideSwapped == window.w * Resolution.height < Resolution.width * window.h

IsWide == window.w * Resolution.height > Resolution.width * window.h

FractalRect ==
  LET w == IF IsWide THEN RoundDiv(window.h * Resolution.width, Resolution.height) ELSE window.w
      h == IF IsWide THEN window.h ELSE RoundDiv(window.w * Resolution.height, Resolution.width)
  IN  [x |-> (window.w - w) \div 2, y |-> (window.h - h) \div 2, w |-> w, h |-> h]

IsEmpty(r) == r.w <= 0 \/ r.h <= 0

(***************************************************************************)
(* The distance from the middle of a span that covers length pixels to the *)
(* pixel's position, and with it WindowToComplex.                          *)
(***************************************************************************)
FromMiddle(pixel, length, span) ==
  IF length > 0 THEN ((2 * pixel - length) * span) \div (2 * length) ELSE 0

SpanY(span) == (span * Resolution.height) \div Resolution.width

WindowToComplex(v, p) ==
  LET r == FractalRect
  IN  [x |-> v.x + FromMiddle(p.x - r.x, r.w, v.span),
       y |-> v.y + FromMiddle(p.y - r.y, r.h, SpanY(v.span))]

(***************************************************************************)
(* UlpsPerPixel < 0.5, for a span around the present centre.               *)
(***************************************************************************)
Magnitude ==
  LET sizes == {One, view.x, -view.x, view.y, -view.y}
  IN  CHOOSE m \in sizes : \A n \in sizes : n <= m

BelowHalfUlp(span) == 2 * span * EpsilonInverse < Resolution.width * Magnitude
-----------------------------------------------------------------------------
(***************************************************************************)
(* The mouse.  ImGui keeps presses, moves and the wheel over its own       *)
(* windows to itself (captured).                                           *)
(***************************************************************************)
Press ==
  /\ ~dragging
  /\ dragging' = TRUE
  /\ UNCHANGED <<view, resolution_index, window, cursor>>

Release ==
  /\ dragging
  /\ dragging' = FALSE
  /\ UNCHANGED <<view, resolution_index, window, cursor>>

MoveMouse(p, captured) ==
  LET r == FractalRect
  IN  /\ cursor' = p
      /\ view' = IF dragging /\ ~captured /\ ~IsEmpty(r)
                   THEN [view EXCEPT
                           !.x = @ - ((p.x - cursor.x) * view.span) \div r.w,
                           !.y = @ - ((p.y - cursor.y) * SpanY(view.span)) \div r.h]
                   ELSE view
      /\ UNCHANGED <<resolution_index, window, dragging>>

(***************************************************************************)
(* ZoomAt the cursor, by 4/5 or 5/4.                                       *)
(***************************************************************************)
ZoomedAboutWindow(span) ==
  LET r == FractalRect
      anchor == WindowToComplex(view, cursor)
  IN  [span |-> span,
       x |-> anchor.x - FromMiddle(cursor.x, r.w, span),
       y |-> anchor.y - FromMiddle(cursor.y, r.h, SpanY(span))]

Zoomed(span) ==
  LET r == FractalRect
      anchor == WindowToComplex(view, cursor)
  IN  [span |-> span,
       x |-> anchor.x - FromMiddle(cursor.x - r.x, r.w, span),
       y |-> anchor.y - FromMiddle(cursor.y - r.y, r.h, SpanY(span))]

ZoomAt(factor) ==
  LET span == (view.span * factor[1]) \div factor[2]
  IN  /\ ~IsEmpty(FractalRect)
      /\ ~(factor[1] < factor[2] /\ BelowHalfUlp(span))
      /\ span \in MinSpan..MaxSpan
      /\ view' = Zoomed(span)
      /\ UNCHANGED <<resolution_index, window, cursor, dragging>>

Wheel == ZoomAt(<<4, 5>>) \/ ZoomAt(<<5, 4>>)

Resize(w) ==
  /\ window' = w
  /\ UNCHANGED <<view, resolution_index, cursor, dragging>>

(***************************************************************************)
(* The two drop-downs.                                                     *)
(***************************************************************************)
SelectResolution(i) ==
  /\ resolution_index' = i
  /\ UNCHANGED <<view, window, cursor, dragging>>

GoTo(place) ==
  /\ view' = place
  /\ UNCHANGED <<resolution_index, window, cursor, dragging>>

Pixels == [x : 0..(window.w - 1), y : 0..(window.h - 1)]

DragTo(p) == MoveMouse(p, FALSE)

Navigate ==
  \/ Press \/ Release \/ Wheel
  \/ \E p \in Pixels : DragTo(p) \/ MoveMouse(p, TRUE)
  \/ \E i \in DOMAIN Resolutions : SelectResolution(i)
  \/ \E i \in DOMAIN Places : GoTo(Places[i])
-----------------------------------------------------------------------------
(***************************************************************************)
(* Zooming keeps the complex value under the cursor fixed, wherever the    *)
(* picture lies in the window and whether or not the cursor is on it       *)
(* (src/src/main.cpp:570), and dragging moves the image with the cursor    *)
(* (src/src/main.cpp:542): the point that was under it stays under it.     *)
(***************************************************************************)
CursorKeepsPoint ==
  [][\/ Wheel
     \/ dragging /\ ~IsEmpty(FractalRect) /\ \E p \in Pixels : DragTo(p)
     => WindowToComplex(view', cursor') = WindowToComplex(view, cursor)]_viewVars

(***************************************************************************)
(* The picture lies inside the window whatever its size, an empty window   *)
(* included, is centred, fills one direction and keeps the aspect ratio to *)
(* half a pixel ("letterboxed to preserve the render aspect ratio",        *)
(* src/src/main.cpp:444).                                                  *)
(***************************************************************************)
Abs(n) == IF n < 0 THEN -n ELSE n

LetterboxInside ==
  LET r == FractalRect
      skew == 2 * Abs(r.w * Resolution.height - r.h * Resolution.width)
  IN  /\ 0 <= r.x /\ window.w - r.w - r.x \in {r.x, r.x + 1}
      /\ 0 <= r.y /\ window.h - r.h - r.y \in {r.y, r.y + 1}
      /\ \/ r.h = window.h /\ skew <= Resolution.height
         \/ r.w = window.w /\ skew <= Resolution.width
=============================================================================
