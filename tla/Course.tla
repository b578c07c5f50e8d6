------------------------------- MODULE Course -------------------------------
(***************************************************************************)
(* The geometry of libraries/SpeedFeed: the gate a Waypoint lays across a  *)
(* leg of the track, and intersection, which decides whether a leg crosses *)
(* a gate and when; and a rider who drives over the map and lays gates     *)
(* across the track, as in service mode: the gate made last is tested      *)
(* against every later leg.                                                *)
(*                                                                         *)
(* The doubles of the code are exact fractions here, over integer          *)
(* coordinates: one unit is the hundredth to which the constructor rounds  *)
(* its end points, and the waypoints made are those whose square root is   *)
(* a whole number of units.  A quotient by zero is a NaN or an infinity,   *)
(* for which every test of the code is false.                              *)
(***************************************************************************)
EXTENDS Integers, FiniteSetsExt

CONSTANTS
  XS, YS,     \* coordinates of the track points
  HalfWidth,  \* the distance from the middle of a gate to its ends: 72
  LegTime     \* the time a leg takes

ASSUME CourseAssumption ==
  /\ XS \subseteq Int /\ YS \subseteq Int
  /\ HalfWidth \in Nat \ {0} /\ LegTime \in Nat \ {0}

Abs(n) == IF n < 0 THEN -n ELSE n

\* n/d <= m and n/d >= m for a fraction whose denominator may be negative
AtMost(n, d, m)  == IF d > 0 THEN n <= m * d ELSE n >= m * d
AtLeast(n, d, m) == IF d > 0 THEN n >= m * d ELSE n <= m * d

\* n/d lies between a and b, in either order
Between(n, d, a, b) == AtMost(n, d, Max({a, b})) /\ AtLeast(n, d, Min({a, b}))

\* floor(n/d)
Floor(n, d) == IF d > 0 THEN n \div d ELSE (-n) \div (-d)

-----------------------------------------------------------------------------
\* Waypoint::Waypoint.  With m = M/D the slope of the gate, every term of the
\* quadratic equation is written over D*D.

Slope(p1, p2)     == [M |-> p1.x - p2.x, D |-> p2.y - p1.y]
Intercept(p1, p2) == LET s == Slope(p1, p2) IN s.D * p2.y - s.M * p2.x  \* b * D

CoeffA(p1, p2) == LET s == Slope(p1, p2) IN s.D * s.D + s.M * s.M

CoeffB(p1, p2) ==
  LET s == Slope(p1, p2)
      b == Intercept(p1, p2)
  IN  2 * b * s.M - 2 * p2.x * s.D * s.D - 2 * s.M * s.D * p2.y

CoeffC(p1, p2, d) ==
  LET s == Slope(p1, p2)
      b == Intercept(p1, p2)
  IN  s.D * s.D * (p2.x * p2.x + p2.y * p2.y - d * d) + b * b - 2 * b * s.D * p2.y

Discriminant(p1, p2, d) ==
  CoeffB(p1, p2) * CoeffB(p1, p2) - 4 * CoeffA(p1, p2) * CoeffC(p1, p2, d)

\* Mutated form of GateFrom: the gate lies along the leg, not across it.
GateAlong(p1, p2, root) ==
  [x1 |-> p1.x, y1 |-> p1.y, x2 |-> p2.x, y2 |-> p2.y]

\* The end points, rounded down to the unit; root is the square root of the
\* discriminant.
GateFrom(p1, p2, root) ==
  LET s  == Slope(p1, p2)
      A2 == 2 * CoeffA(p1, p2)
      X(n) == Floor(n, A2)
      Y(n) == Floor(s.M * n + Intercept(p1, p2) * A2, s.D * A2)
      n1 == root - CoeffB(p1, p2)
      n2 == -root - CoeffB(p1, p2)
  IN  [x1 |-> X(n1), y1 |-> Y(n1), x2 |-> X(n2), y2 |-> Y(n2)]

\* A waypoint whose end points are not numbers.
NaNs == [nan |-> TRUE]

\* Mutated form of Construct: the gate of a leg without a slope stands upright.
ConstructUpright(p1, p2, root) ==
  IF Slope(p1, p2).D = 0
  THEN [x1 |-> p2.x, y1 |-> p2.y + HalfWidth, x2 |-> p2.x, y2 |-> p2.y]
  ELSE GateFrom(p1, p2, root)

\* The constructor.  A leg due east or west, or of no length, has no slope: m is infinite or
\* not a number, b*b - and so the discriminant and every end point - is not a number.
Construct(p1, p2, root) ==
  IF Slope(p1, p2).D = 0 THEN NaNs ELSE GateFrom(p1, p2, root)

-----------------------------------------------------------------------------
\* intersection(p1, p2, obj)

Denom(p1, p2, g) ==
  (p1.x - p2.x) * (g.y1 - g.y2) - (p1.y - p2.y) * (g.x1 - g.x2)

\* The point where the two lines meet is (PX / Denom, PY / Denom).
PX(p1, p2, g) ==
  (p1.x * p2.y - p1.y * p2.x) * (g.x1 - g.x2)
    - (p1.x - p2.x) * (g.x1 * g.y2 - g.y1 * g.x2)
PY(p1, p2, g) ==
  (p1.x * p2.y - p1.y * p2.x) * (g.y1 - g.y2)
    - (p1.y - p2.y) * (g.x1 * g.y2 - g.y1 * g.x2)

\* Mutated form of Crosses: the extent of the gate is not tested.
CrossesLine(p1, p2, g) ==
  /\ p1.x # 0 /\ p2.x # 0
  /\ Denom(p1, p2, g) # 0
  /\ Between(PX(p1, p2, g), Denom(p1, p2, g), p1.x, p2.x)

\* The longitude of the point is tested against the leg, its latitude
\* against the gate; a point of longitude 0 stands for no position.
Crosses(p1, p2, g) ==
  LET denom == Denom(p1, p2, g)
  IN  /\ p1.x # 0 /\ p2.x # 0
      /\ denom # 0
      /\ Between(PX(p1, p2, g), denom, p1.x, p2.x)
      /\ Between(PY(p1, p2, g), denom, g.y1, g.y2)

\* Mutated form of Adjustment: measured from the first point of the leg.
AdjustmentForward(p1, p2, g, dt) ==
  Floor(dt * Abs(PX(p1, p2, g) - p1.x * Denom(p1, p2, g)),
        Abs(Denom(p1, p2, g)) * Max({1, Abs(p1.x - p2.x)}))

\* floor((t1 - t2) * |p2 - p| / |p2 - p1|) for a leg that took dt.  The three
\* points are on a line, so the ratio of distances is that of the
\* coordinates in which the leg extends.
Adjustment(p1, p2, g, dt) ==
  LET denom == Denom(p1, p2, g)
  IN  IF p1.x # p2.x
      THEN Floor(-dt * Abs(p2.x * denom - PX(p1, p2, g)),
                 Abs(denom) * Abs(p2.x - p1.x))
      ELSE Floor(-dt * Abs(p2.y * denom - PY(p1, p2, g)),
                 Abs(denom) * Abs(p2.y - p1.y))

-----------------------------------------------------------------------------
(* The rider.                                                              *)

Points == [x : XS, y : YS]

VARIABLES
  leg,    \* the last two points of the track
  laid,   \* the leg the gate was laid across, << >> before the first gate
  gate    \* the end points of that gate

vars == <<leg, laid, gate>>

NoGate == [x1 |-> 0, y1 |-> 0, x2 |-> 0, y2 |-> 0]

Init ==
  /\ \E p \in Points : leg = <<p, p>>
  /\ laid = << >>
  /\ gate = NoGate

Drive(p) ==
  /\ leg' = <<leg[2], p>>
  /\ UNCHANGED <<laid, gate>>

\* The button in service mode: the waypoint made last is taken back if one of its end
\* points is not a number.
LayGate ==
  /\ LET disc == Discriminant(leg[1], leg[2], HalfWidth)
     IN  \E root \in 0 .. 2 * HalfWidth * CoeffA(leg[1], leg[2]) :
           /\ root * root = disc
           /\ LET w == Construct(leg[1], leg[2], root)
              IN  IF w = NaNs THEN UNCHANGED <<laid, gate>> ELSE gate' = w /\ laid' = leg
  /\ UNCHANGED leg

Next == LayGate \/ \E p \in Points : Drive(p)

Spec == Init /\ [][Next]_vars

-----------------------------------------------------------------------------
\* The gate in the course has end points that are numbers, and lies across the leg it was
\* made from: its middle is the end of the leg, it is at a right angle to the leg, and its
\* half width is the one asked for, all up to the rounding of the end points.
GateAcrossLeg ==
  laid # << >> =>
    /\ gate # NaNs
    /\ LET p == laid[2]
           dx == laid[2].x - laid[1].x
           dy == laid[2].y - laid[1].y
           w == gate.x1 - gate.x2
           h == gate.y1 - gate.y2
       IN  /\ gate.x1 + gate.x2 \in 2 * p.x - 2 .. 2 * p.x
           /\ gate.y1 + gate.y2 \in 2 * p.y - 2 .. 2 * p.y
           /\ Abs(w * dx + h * dy) <= Abs(dx) + Abs(dy)
           /\ w * w + h * h >= (2 * HalfWidth - 2) * (2 * HalfWidth - 2)
           /\ w * w + h * h <= (2 * HalfWidth + 2) * (2 * HalfWidth + 2)

\* Twice the signed area of the triangle a, b, c.
Area(a, b, c) == (b.x - a.x) * (c.y - a.y) - (b.y - a.y) * (c.x - a.x)

End1 == [x |-> gate.x1, y |-> gate.y1]
End2 == [x |-> gate.x2, y |-> gate.y2]

\* The leg and the gate have a point in common, by the reference test: each
\* one's ends are not both strictly on one side of the other.
SegmentsMeet ==
  /\ Area(leg[1], leg[2], End1) * Area(leg[1], leg[2], End2) <= 0
  /\ Area(End1, End2, leg[1]) * Area(End1, End2, leg[2]) <= 0

\* A leg due north or south, or a gate due east and west, makes one of the
\* two tests of intersection hold wherever the point is.
Degenerate == leg[1].x = leg[2].x \/ gate.y1 = gate.y2

\* intersection finds a gate crossed exactly when leg and gate meet; it
\* never reports a crossing of parallel lines, nor with a point of
\* longitude 0, and says nothing reliable in the degenerate directions.
CrossingIsReal ==
  laid # << >> /\ ~Degenerate /\ leg[1].x # 0 /\ leg[2].x # 0
    /\ Denom(leg[1], leg[2], gate) # 0
  => (Crosses(leg[1], leg[2], gate) <=> SegmentsMeet)

\* The crossing is dated within the leg, unless the leg runs due north or
\* south.
CrossingWithinLeg ==
  laid # << >> /\ leg[1].x # leg[2].x /\ Crosses(leg[1], leg[2], gate)
  => Adjustment(leg[1], leg[2], gate, LegTime) \in -LegTime .. 0
=============================================================================
