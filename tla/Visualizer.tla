------------------------------ MODULE Visualizer ------------------------------
(***************************************************************************)
(* GPS_visualizer: serialEvent takes the lines of a tracker apart and      *)
(* keeps the track, the gates and the lines of the picture; draw, another  *)
(* thread, reads the track coordinate by coordinate while it changes.  A   *)
(* number is known by the line it came in.  A line may be damaged: from    *)
(* one field on it has what is no number, a nan where the tracker had no   *)
(* value, or nothing at all.                                               *)
(*                                                                         *)
(* What draw does not read is changed together with what it reads next:    *)
(* raw has both coordinates of a point, and a gate is moved up as a whole. *)
(* How draw reads the gates and lines, and the text of the splits, are     *)
(* left out.                                                               *)
(***************************************************************************)
EXTENDS Integers, Sequences, FiniteSets

CONSTANTS
  numPoints,   \* numPoints and wpLimit, 16 both
  Ports,       \* sets of the kinds of lines that a tracker sends
  MaxLines,
  MaxDamaged   \* bounds

VARIABLES
  port,      \* the kinds of lines of this tracker
  ev,        \* serialEvent: the line it handles, where it is (pc, i), and whether it is still called
  pic,       \* raw, xtrack, ytrack, waypoints, and startfinish, test, split: rows of four
             \* numbers
  linesIn,   \* lines received
  good,      \* history: the last track points since the start or a reset
  damaged,   \* history: lines that may do harm
  frame      \* draw: where it is (at, i) and what it has read of a line; history: the points
             \* it has drawn in this frame, whether serialEvent has done nothing meanwhile
             \* (quiet), and whether a reset has begun or gone on (reset)

vizVars == <<port, ev, pic, linesIn, good, damaged, frame>>

NoRow == <<0, 0, 0, 0>>
Corners == [i \in 1 .. numPoints |-> 0]
Blank == [raw |-> Corners, xtrack |-> Corners, ytrack |-> Corners,
          waypoints |-> [i \in 1 .. numPoints |-> NoRow],
          startfinish |-> NoRow, test |-> NoRow, split |-> NoRow]
NoLine == [kind |-> "none", n |-> 0, at |-> 7, how |-> "whole"]
Waiting == [line |-> NoLine, pc |-> "idle", i |-> 0, called |-> TRUE]

Init ==
  /\ port \in Ports
  /\ ev = Waiting /\ pic = Blank /\ linesIn = 0
  /\ good = <<>> /\ damaged = 0
  /\ frame = [at |-> "none", i |-> 2, read |-> <<>>, path |-> <<>>, quiet |-> TRUE, reset |-> FALSE]

\* map: raw coordinates to the picture; what was never received is mapped too.
Offset == 100
map(v) == Offset + v

-----------------------------------------------------------------------------
(* draw: a line to every point but those from the first one in the corner on. *)

Frame(f) == frame' = f /\ UNCHANGED <<port, ev, pic, linesIn, good, damaged>>

draw ==
  /\ frame.at = "none"
  /\ Frame([at |-> "testX", i |-> 2, read |-> <<>>, path |-> <<>>,
            quiet |-> ev.pc = "idle", reset |-> ev.pc \in {"resetY", "resetRest"}])

TestX ==
  /\ frame.at = "testX" /\ Frame([frame EXCEPT !.at = IF pic.xtrack[frame.i] = 0 THEN "testY" ELSE "read"])

TestY ==
  /\ frame.at = "testY" /\ Frame([frame EXCEPT !.at = IF pic.ytrack[frame.i] = 0 THEN "none" ELSE "read"])

\* The coordinates of the last point and of this one, as they are read for a line.
Coordinate(k, i) ==
  CASE k = 1 -> pic.xtrack[i - 1] [] k = 2 -> pic.ytrack[i - 1]
    [] k = 3 -> pic.xtrack[i]     [] k = 4 -> pic.ytrack[i]

Read ==
  LET read == Append(frame.read, Coordinate(Len(frame.read) + 1, frame.i))
  IN  /\ frame.at = "read"
      /\ Frame(IF Len(read) < 4 THEN [frame EXCEPT !.read = read]
               ELSE [frame EXCEPT !.read = <<>>, !.i = @ + 1,
                                  !.path = @ \o << <<read[1], read[2]>>, <<read[3], read[4]>> >>,
                                  !.at = IF frame.i < numPoints THEN "testX" ELSE "none"])

-----------------------------------------------------------------------------
(* serialEvent.  A field that is no number raises NumberFormatException, which is caught; *)
(* a missing field raises another exception, after which the library calls it no more.   *)

Idle(called) == [Waiting EXCEPT !.called = called]
Meanwhile == frame' = [frame EXCEPT !.quiet = FALSE]
Raised == ev' = Idle(ev.line.how # "short") /\ Meanwhile /\ UNCHANGED <<port, pic, linesIn, good, damaged>>
Damaged(field) == field >= ev.line.at

\* A gate in which the tracker marks the first or the second number as missing does no harm;
\* that the third or the fourth is missing is not noticed in time.
Harmless(kind, at, how) ==
  how = "whole" \/ (how = "nan" /\ at <= 2 /\ kind \in {"waypoint", "startfinish"})

\* A line and the damage to it: "at" is the first field concerned.
Line(kind, at, how) ==
  /\ ev.pc = "idle" /\ ev.called /\ kind \in port /\ linesIn < MaxLines
  /\ how = "whole" <=> at = 7
  /\ damaged' = IF Harmless(kind, at, how) THEN damaged ELSE damaged + 1
  /\ damaged' <= MaxDamaged
  /\ linesIn' = linesIn + 1
  /\ ev' = [ev EXCEPT !.line = [kind |-> kind, n |-> linesIn + 1, at |-> at, how |-> how], !.pc = "split"]
  /\ Meanwhile /\ UNCHANGED <<port, pic, good>>

\* Mutated form of Ignored: only the first field is looked at.
IgnoredFirst(l) == l.kind \in {"waypoint", "startfinish"} /\ l.how = "nan" /\ l.at = 1

\* A gate whose first or second field is nan is ignored; the third and the fourth are not
\* looked at.
Ignored(l) == l.kind \in {"waypoint", "startfinish"} /\ l.how = "nan" /\ l.at \in 1 .. 2

\* The fields that are read before anything is changed.
ReadFirst(l) == CASE l.kind \in {"track", "split"} -> 1 .. 2
                  [] l.kind \in {"waypoint", "startfinish"} /\ l.how = "short" -> 1 .. 2
                  [] OTHER -> {}

Take ==
  /\ ev.pc = "split"
  /\ \/ /\ \E f \in ReadFirst(ev.line) : Damaged(f)
        /\ Raised
     \/ /\ \A f \in ReadFirst(ev.line) : ~Damaged(f)
        /\ ev' = IF Ignored(ev.line) THEN Idle(TRUE)
                 ELSE IF ev.line.kind \in {"track", "waypoint"} THEN [ev EXCEPT !.pc = "shift", !.i = 2]
                 ELSE IF ev.line.kind = "reset" THEN [ev EXCEPT !.pc = "reset"]
                 ELSE [ev EXCEPT !.pc = "store", !.i = 1]
        /\ Meanwhile /\ UNCHANGED <<port, pic, linesIn, good, damaged>>

\* One turn of the loops that make room for the new point or gate; the y of a point follows
\* in a step of its own.
Shift(p, kind, i) ==
  IF kind = "track" THEN [p EXCEPT !.raw[i - 1] = p.raw[i], !.xtrack[i - 1] = p.xtrack[i]]
  ELSE [p EXCEPT !.waypoints[i - 1] = p.waypoints[i]]

Turn(then, over) == IF ev.i < numPoints THEN [ev EXCEPT !.pc = then, !.i = @ + 1] ELSE over

MakeRoom ==
  /\ ev.pc = "shift" /\ pic' = Shift(pic, ev.line.kind, ev.i)
  /\ ev' = IF ev.line.kind = "track" THEN [ev EXCEPT !.pc = "shiftY"]
           ELSE Turn("shift", [ev EXCEPT !.pc = "store", !.i = 1])
  /\ Meanwhile /\ UNCHANGED <<port, linesIn, good, damaged>>

MakeRoomY ==
  /\ ev.pc = "shiftY" /\ pic' = [pic EXCEPT !.ytrack[ev.i - 1] = pic.ytrack[ev.i]]
  /\ ev' = Turn("shift", [ev EXCEPT !.pc = "store", !.i = 1])
  /\ Meanwhile /\ UNCHANGED <<port, linesIn, good, damaged>>

Recent(s) == IF Len(s) > numPoints THEN Tail(s) ELSE s

\* Mutated form of Newest: the new point goes to the front.
NewestFirst(p, v) == [p EXCEPT !.raw[1] = v]

Newest(p, v) == [p EXCEPT !.raw[numPoints] = v]

StorePoint ==
  /\ ev.pc = "store" /\ ev.line.kind = "track"
  /\ pic' = Newest(pic, ev.line.n)
  /\ ev' = [ev EXCEPT !.pc = "remap", !.i = 2]
  /\ good' = Recent(Append(good, ev.line.n))
  /\ Meanwhile /\ UNCHANGED <<port, linesIn, damaged>>

\* Mutated form of Remapped: the point itself is taken, not the one before.
RemappedLate(t, i) == [t EXCEPT ![i - 1] = map(pic.raw[i])]

\* One turn of the loop that maps the track: the last point is not reached.
Remapped(t, i) == [t EXCEPT ![i - 1] = map(pic.raw[i - 1])]

Remap ==
  /\ ev.pc = "remap" /\ pic' = [pic EXCEPT !.xtrack = Remapped(@, ev.i)]
  /\ ev' = [ev EXCEPT !.pc = "remapY"]
  /\ Meanwhile /\ UNCHANGED <<port, linesIn, good, damaged>>

RemapY ==
  /\ ev.pc = "remapY" /\ pic' = [pic EXCEPT !.ytrack = Remapped(@, ev.i)]
  /\ ev' = Turn("remap", Idle(TRUE))
  /\ Meanwhile /\ UNCHANGED <<port, linesIn, good, damaged>>

\* The four numbers of a row, one after the other; those of a split are fields 3 to 6.
Field(kind, i) == IF kind = "split" THEN i + 2 ELSE i
Stored(p, kind, i, v) ==
  IF kind = "waypoint" THEN [p EXCEPT !.waypoints[numPoints][i] = v] ELSE [p EXCEPT ![kind][i] = v]

StoreRow ==
  /\ ev.pc = "store" /\ ev.line.kind # "track"
  /\ \/ Damaged(Field(ev.line.kind, ev.i)) /\ Raised
     \/ /\ ~Damaged(Field(ev.line.kind, ev.i))
        /\ pic' = Stored(pic, ev.line.kind, ev.i, map(ev.line.n))
        /\ ev' = IF ev.i < 4 THEN [ev EXCEPT !.i = @ + 1] ELSE Idle(TRUE)
        /\ Meanwhile /\ UNCHANGED <<port, linesIn, good, damaged>>

\* The arrays are replaced one after the other.
Reset ==
  /\ frame' = [frame EXCEPT !.quiet = FALSE, !.reset = TRUE]
  /\ \/ /\ ev.pc = "reset" /\ pic' = [pic EXCEPT !.xtrack = Corners]
        /\ ev' = [ev EXCEPT !.pc = "resetY"] /\ UNCHANGED good
     \/ /\ ev.pc = "resetY" /\ pic' = [pic EXCEPT !.ytrack = Corners]
        /\ ev' = [ev EXCEPT !.pc = "resetRest"] /\ UNCHANGED good
     \/ /\ ev.pc = "resetRest" /\ pic' = Blank /\ good' = <<>> /\ ev' = Idle(TRUE)
  /\ UNCHANGED <<port, linesIn, damaged>>

Next ==
  \/ draw \/ TestX \/ TestY \/ Read
  \/ \E kind \in port, at \in 1 .. 7, how \in {"whole", "bit", "nan", "short"} : Line(kind, at, how)
  \/ Take \/ MakeRoom \/ MakeRoomY \/ StorePoint \/ Remap \/ RemapY \/ StoreRow \/ Reset

Spec == Init /\ [][Next]_vizVars
-----------------------------------------------------------------------------
\* While a new point moves the track up, draw may test a point and then read it from the
\* corner, 0 in x or y (pde:72 and 73), or read a point's x of one line and its y of
\* another; but in neither coordinate does the track it draws ever go back to an older
\* line, unless there is a reset meanwhile; and a frame drawn while no line is handled has
\* no coordinate from the corner.
ShownInOrder ==
  /\ frame.reset \/ \A c \in 1 .. 2 : \A j \in 1 .. Len(frame.path) : \A k \in j .. Len(frame.path) :
       frame.path[k][c] # 0 => frame.path[j][c] <= frame.path[k][c]
  /\ frame.quiet => \A k \in 1 .. Len(frame.path) : frame.path[k][1] # 0 /\ frame.path[k][2] # 0

\* Between two lines, once there are enough points, the arrays that are drawn have exactly
\* the last points in their order, and the corner in place of the newest, which the loop
\* that maps them does not reach (serialEvent); damaged lines in between change nothing.
TrackIsRecent ==
  ev.pc = "idle" /\ Len(good) = numPoints =>
    /\ pic.xtrack = [i \in 1 .. numPoints |-> IF i < numPoints THEN map(good[i]) ELSE 0]
    /\ pic.ytrack = pic.xtrack

Mixed(row) == \E j \in 1 .. 4 : row[j] # row[1]
MixedRows == {i \in 1 .. numPoints : Mixed(pic.waypoints[i])}
MixedLines == {k \in {"startfinish", "test", "split"} : Mixed(pic[k])}

\* Between two lines a gate or line of the picture mixes the numbers of two lines only
\* because of a damaged line, one for each. The nan of a gate counts as damage when it is
\* in the third or fourth number: the test looks at the second three times (pde:132 and
\* 152), so half the gate is stored before the nan is met; in the first or second it tears
\* nothing.
TornByDamage == ev.pc = "idle" => Cardinality(MixedRows) + Cardinality(MixedLines) <= damaged
=============================================================================
