-------------------------------- MODULE Zones --------------------------------
(***************************************************************************)
(* Where a detection is: the anchor of its box (core/pipeline/enricher.py)  *)
(* and the zone of the camera that the anchor falls in (core/zone/zone.py). *)
(*                                                                         *)
(* The unit of every coordinate is half a pixel, so that the centre of a    *)
(* box with whole pixels is a whole number.  The quotient of the ray casting*)
(* is multiplied out; its rounding is not modelled.                         *)
(***************************************************************************)
EXTENDS Integers, Sequences, FiniteSets

CONSTANTS
    Layouts,    \* the lists of polygons a camera may have, each tiles the frame
    FrameW,     \* frame_w
    FrameH      \* frame_h

Pixel == 2

ASSUME ZonesAssumption ==
    /\ FrameW \in Nat /\ FrameH \in Nat
    /\ \A zones \in Layouts : zones \in Seq(Seq(Nat \X Nat))

VARIABLES
    zones,      \* cam.zones
    inf,        \* the result of the model: its class and box
    events      \* what enrich has returned for it, at most one

vars == <<zones, inf, events>>

-----------------------------------------------------------------------------
(* Ray casting.                                                            *)

\* The vertex before the i-th one.
Before(polygon, i) == IF i = 1 THEN polygon[Len(polygon)] ELSE polygon[i - 1]

\* The edge from p to q crosses the ray from (x, y) to the right: it has one end
\* above y and one not, and is right of x at the height y.
Crosses(x, y, p, q) ==
    /\ (p[2] > y) /= (q[2] > y)
    /\ LET dy == q[2] - p[2]
           ahead == (q[1] - p[1]) * (y - p[2]) - (x - p[1]) * dy
       IN  IF dy > 0 THEN ahead > 0 ELSE ahead < 0

PointInPolygon(x, y, polygon) ==
    LET crossings == {i \in DOMAIN polygon : Crosses(x, y, polygon[i], Before(polygon, i))}
    IN  Cardinality(crossings) % 2 = 1

-----------------------------------------------------------------------------
(* The anchor and its zone.                                                *)

\* Mutant of FeetCutOff: the last row of pixels is taken for the height.
FeetCutOffBeyond(b) == b.y2 >= FrameH

FeetCutOff(b) == FrameH > 0 /\ b.y2 >= FrameH - Pixel

AnchorX(b) == (b.x1 + b.x2) \div 2

AnchorY(b, class) ==
    IF FeetCutOff(b) \/ class /= "person" THEN (b.y1 + b.y2) \div 2 ELSE b.y2

Containing(x, y, list) == {i \in DOMAIN list : PointInPolygon(x, y, list[i])}

\* On a pixel of the frame, the last row and column apart, which polygons drawn to the
\* last pixel leave out.
InView(x, y) == x \in 0..(FrameW - Pixel - 1) /\ y \in 0..(FrameH - Pixel - 1)

\* "Each tiles the frame": each of those pixels is in one zone.
LayoutsTile ==
    \A list \in Layouts :
        \A x \in 0..(FrameW - Pixel - 1), y \in 0..(FrameH - Pixel - 1) :
            \E i \in DOMAIN list : Containing(x, y, list) = {i}

\* The first zone in config order, 0 for "unzoned".  A camera without zones is
\* "full_frame", for which no polygon is looked at.
AssignZone(x, y, list) ==
    LET hits == Containing(x, y, list)
    IN  IF hits = {} THEN 0 ELSE CHOOSE i \in hits : \A j \in hits : i <= j

-----------------------------------------------------------------------------

\* Boxes with whole pixels, of any size and place: those of a tracker are not clamped
\* to the frame.
Boxes ==
    {b \in [x1 : Int, x2 : Int, y1 : Int, y2 : Int] :
        /\ \A k \in DOMAIN b : b[k] % Pixel = 0
        /\ b.x1 <= b.x2 /\ b.y1 <= b.y2}

MiddleInView(b) == InView((b.x1 + b.x2) \div 2, (b.y1 + b.y2) \div 2)

-----------------------------------------------------------------------------
(* Safety.                                                                 *)

\* Polygons that share their borders leave no seam and do not overlap: every
\* detection whose middle is in view, also one whose anchor is on a border or a corner,
\* is in one zone and no other, so that the order of the zones decides nothing.  None
\* is "unzoned", however near the person is: nobody disappears from the rules for
\* the reason that the feet are out of the frame.  A box with its middle on the last
\* row or column of pixels, or out of the frame, may be in no zone.
ExactlyOneZone ==
    \A event \in events :
        MiddleInView(inf.box) =>
            /\ Containing(event.x, event.y, zones) = {event.zone}
            /\ event.zone \in DOMAIN zones

\* Twice the signed area of the triangle p, q, r.
Turn(p, q, r) == (q[1] - p[1]) * (r[2] - p[2]) - (r[1] - p[1]) * (q[2] - p[2])

\* The point is on that side of the line from p to q where the turn is positive.  A
\* point on the line counts as if it were a hair further right, on a level line a hair
\* further down, so that every point is on one side of every line.
Beside(p, q, point) ==
    LET turn == Turn(p, q, point)
    IN  \/ turn > 0
        \/ turn = 0 /\ (q[2] < p[2] \/ (q[2] = p[2] /\ q[1] > p[1]))

InTriangle(p, q, r, point) == Beside(p, q, point) /\ Beside(q, r, point) /\ Beside(r, p, point)

\* In the i-th triangle of the fan around the first vertex, in either direction.
InFan(point, polygon, i) ==
    \/ InTriangle(polygon[1], polygon[i], polygon[i + 1], point)
    \/ InTriangle(polygon[1], polygon[i + 1], polygon[i], point)

\* Ray casting is right: a point is inside a polygon, convex or not, exactly when
\* it is in an odd number of the triangles that fan out from its first vertex.  A
\* point on a border belongs to what is right of it, or below.
InsideMeansInside ==
    \A event \in events, k \in DOMAIN zones :
        LET polygon == zones[k]
            fan == 2..(Len(polygon) - 1)
            point == <<event.x, event.y>>
        IN  PointInPolygon(event.x, event.y, polygon)
              <=> Cardinality({i \in fan : InFan(point, polygon, i)}) % 2 = 1
=============================================================================
