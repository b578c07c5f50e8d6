------------------------------ MODULE Waypoint ------------------------------
(***************************************************************************)
(* The timing half of the class Waypoint of libraries/SpeedFeed: what a    *)
(* gate on the course remembers of its crossings.  The end points of the   *)
(* gate are the subject of the module Geometry.  Times are milliseconds in *)
(* some unit; speeds are kept in half knots, so that the mean of two of    *)
(* them is an integer.                                                     *)
(***************************************************************************)
EXTENDS Integers

WaypointRecord ==
  [last : Int, split_best : Int, split_margin : Int,
   lap_best : Int, lap_margin : Int, adjustment : Int,
   speed : Int, speed_best : Int, speed_margin : Int]

\* The constructor, called at time t.  It sets split_best twice and leaves
\* lap_best uninitialized; checkSplit writes lap_best before it reads it
\* whenever split_best is 0.
NewWaypoint(t, junk) ==
  [last |-> t, split_best |-> 0, split_margin |-> 0,
   lap_best |-> junk, lap_margin |-> 0, adjustment |-> 0,
   speed |-> 0, speed_best |-> 0, speed_margin |-> 0]

\* reset, for one waypoint: adjustment and speed are left alone.
ResetWaypoint(w) ==
  [last |-> 0, split_best |-> 0, split_margin |-> 0,
   lap_best |-> 0, lap_margin |-> 0, adjustment |-> w.adjustment,
   speed |-> w.speed, speed_best |-> 0, speed_margin |-> 0]

\* What intersection writes into the waypoint it finds crossed.
Crossed(w, adj, meanSpeed) ==
  [w EXCEPT !.adjustment = adj, !.speed = meanSpeed]

\* Mutated form of CheckSplit: the time of the line, not of the crossing.
CheckSplitRaw(w, obj, lap_start, t) ==
  LET split == t - obj.last
  IN  [w EXCEPT !.last = t, !.split_best = IF @ = 0 \/ split < @ THEN split ELSE @]

\* Mutated form of CheckSplit: the best split is simply the last one.
CheckSplitLast(w, obj, lap_start, t) ==
  [w EXCEPT !.last = t + obj.adjustment,
            !.split_best = t + obj.adjustment - obj.last]

\* Waypoint::checkSplit on the crossing of w at time t, after a crossing of
\* obj.  The adjustment and the speed used are those of obj.
CheckSplit(w, obj, lap_start, t) ==
  LET last  == t + obj.adjustment
      split == last - obj.last
      lap   == last - lap_start
      first == w.split_best = 0
      split_best == IF first THEN split ELSE w.split_best
      lap_best   == IF first THEN lap ELSE w.lap_best
  IN  [last         |-> last,
       split_margin |-> split - split_best,
       lap_margin   |-> lap - lap_best,
       speed_margin |-> obj.speed - w.speed_best,
       split_best   |-> IF split < split_best THEN split ELSE split_best,
       lap_best     |-> IF lap < lap_best THEN lap ELSE lap_best,
       speed_best   |-> IF obj.speed > w.speed_best
                        THEN obj.speed ELSE w.speed_best,
       adjustment   |-> w.adjustment,
       speed        |-> w.speed]
=============================================================================
