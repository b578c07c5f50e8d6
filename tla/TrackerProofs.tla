---------------------------- MODULE TrackerProofs ----------------------------
(***************************************************************************)
(* Proofs about the tracker, for every course, every sequence of lines and *)
(* every handling of the button.                                           *)
(***************************************************************************)
EXTENDS Tracker, SequenceTheorems, TLAPS

TrackPoint == [t : Int, v : Int]

\* The types the argument needs.
TypeInv ==
  /\ now \in Nat /\ eeprom \in Nat /\ speed \in Nat
  /\ line.type = "RMC" => line.speed \in Nat
  /\ waypoints \in Seq(WaypointRecord)
  /\ tracks \in Seq(TrackPoint)
  /\ wp_next \in Nat /\ wp_last \in Nat

\* Where the two states of the machine may differ, and what holds before the
\* first pass has decided between service mode and the stored course.
ControlInv ==
  /\ bootFlag \in {0, 1}
  /\ next_state \in {ST_RESET, ST_INIT, ST_WPSET, ST_RACE}
  /\ pc \notin {"nmea", "update", "undefined"} => current_state = next_state
  /\ pc = "boot" => bootFlag = 0
  /\ bootFlag = 0 => next_state = ST_RESET /\ wp_last = 0

\* The course is the stored one except in service mode, where the indices
\* stay at gate 0; in a race they are neighbours.
CourseInv ==
  /\ next_state # ST_WPSET /\ bootFlag = 1 => Len(waypoints) = eeprom
  /\ next_state = ST_WPSET => wp_next = 0 /\ wp_last = 0
  /\ next_state = ST_RACE => wp_last < Len(waypoints) /\ wp_next = Following(wp_last)

Inv == TypeInv /\ ControlInv /\ CourseInv

-----------------------------------------------------------------------------
\* checkSplit and intersection turn a waypoint into a waypoint.
LEMMA CheckSplitType ==
  ASSUME NEW w \in WaypointRecord, NEW obj \in WaypointRecord,
         NEW s \in Int, NEW t \in Int
  PROVE  CheckSplit(w, obj, s, t) \in WaypointRecord
<1>1. /\ w.split_best \in Int /\ w.lap_best \in Int /\ w.adjustment \in Int
      /\ w.speed \in Int /\ w.speed_best \in Int
      /\ obj.last \in Int /\ obj.adjustment \in Int /\ obj.speed \in Int
  BY DEF WaypointRecord
<1> QED
  BY <1>1 DEF CheckSplit, WaypointRecord

\* What checkSplit computes.
LEMMA CheckSplitValues ==
  ASSUME NEW w \in WaypointRecord, NEW obj \in WaypointRecord,
         NEW s \in Int, NEW t \in Int
  PROVE  LET split == (t + obj.adjustment) - obj.last
             base  == IF w.split_best = 0 THEN split ELSE w.split_best
             r     == CheckSplit(w, obj, s, t)
         IN  /\ r.last = t + obj.adjustment /\ r.adjustment = w.adjustment
             /\ r.split_best = IF split < base THEN split ELSE base
             /\ r.split_margin = split - base
<1>1. /\ w.split_best \in Int /\ w.lap_best \in Int
      /\ obj.last \in Int /\ obj.adjustment \in Int
  BY DEF WaypointRecord
<1> DEFINE last  == t + obj.adjustment
           split == last - obj.last
           base  == IF w.split_best = 0 THEN split ELSE w.split_best
           r     == CheckSplit(w, obj, s, t)
<1>2. r.last = last /\ r.adjustment = w.adjustment
  BY ZenonT(30) DEF CheckSplit
<1>3. r.split_best = IF split < base THEN split ELSE base
  BY ZenonT(30) DEF CheckSplit
<1>4. r.split_margin = split - base
  BY ZenonT(30) DEF CheckSplit
<1> QED
  BY <1>1, <1>2, <1>3, <1>4

LEMMA CrossedType ==
  ASSUME NEW w \in WaypointRecord, NEW adj \in Int, NEW v \in Int
  PROVE  Crossed(w, adj, v) \in WaypointRecord
BY DEF Crossed, WaypointRecord

\* The track with a new point has at least that point.
LEMMA PushTrackFacts ==
  ASSUME NEW tr \in Seq(TrackPoint), NEW p \in TrackPoint
  PROVE  PushTrack(tr, p) \in Seq(TrackPoint) /\ Len(PushTrack(tr, p)) >= 1
BY DEF PushTrack, max_tracksize

\* Replacing an element keeps a sequence a sequence of the same length.
LEMMA ReplaceFacts ==
  ASSUME NEW S, NEW s \in Seq(S), NEW i \in 1 .. Len(s), NEW x \in S
  PROVE  [s EXCEPT ![i] = x] \in Seq(S) /\ Len([s EXCEPT ![i] = x]) = Len(s)
OBVIOUS

\* A function on 1 .. n is a sequence of length n.
LEMMA BuiltFacts ==
  ASSUME NEW S, NEW n \in Nat, NEW f \in [1 .. n -> S]
  PROVE  f \in Seq(S) /\ Len(f) = n
OBVIOUS

\* reset() keeps the waypoints waypoints, and all of them.
LEMMA ResetAllFacts ==
  ASSUME NEW s \in Seq(WaypointRecord)
  PROVE  ResetAll(s) \in Seq(WaypointRecord) /\ Len(ResetAll(s)) = Len(s)
<1>1. \A i \in 1 .. Len(s) : ResetWaypoint(s[i]) \in WaypointRecord
  <2>1. \A w \in WaypointRecord : ResetWaypoint(w) \in WaypointRecord
    BY DEF ResetWaypoint, WaypointRecord
  <2>2. \A i \in 1 .. Len(s) : s[i] \in WaypointRecord
    OBVIOUS
  <2> QED
    BY <2>1, <2>2
<1>2. DOMAIN s = 1 .. Len(s) /\ Len(s) \in Nat
  OBVIOUS
<1>3. ResetAll(s) = [i \in 1 .. Len(s) |-> ResetWaypoint(s[i])]
  BY <1>2 DEF ResetAll
<1> QED
  BY <1>1, <1>2, <1>3

\* What a parsed line with a fix adds to the track.
LEMMA NewTrackFacts ==
  ASSUME TypeInv, Parse
  PROVE  /\ NewTrack \in Seq(TrackPoint)
         /\ MeanSpeed(NewTrack) \in Int
         /\ speed' \in Nat
         /\ line'.type # "RMC"
<1>1. speed' \in Nat
  BY DEF TypeInv, Parse
<1>2. [t |-> now, v |-> speed'] \in TrackPoint
  BY <1>1 DEF TypeInv, TrackPoint
<1>3. NewTrack \in Seq(TrackPoint) /\ Len(NewTrack) >= 1
  BY <1>2, PushTrackFacts DEF TypeInv, NewTrack
<1>4. NewTrack[1] \in TrackPoint /\ NewTrack[Len(NewTrack)] \in TrackPoint
  BY <1>3
<1>5. MeanSpeed(NewTrack) \in Int
  BY <1>4 DEF MeanSpeed, TrackPoint
<1>6. line'.type # "RMC"
  BY DEF Parse, NoLine
<1> QED
  BY <1>1, <1>3, <1>5, <1>6

\* A crossing keeps the course a course of the same length.
LEMMA CrossedCourseFacts ==
  ASSUME TypeInv, Parse, NEW adj \in Int,
         wp_next < Len(waypoints), wp_last < Len(waypoints)
  PROVE  /\ CrossedCourse(adj) \in Seq(WaypointRecord)
         /\ Len(CrossedCourse(adj)) = Len(waypoints)
<1> DEFINE i  == wp_next + 1
           x  == Crossed(waypoints[i], adj, MeanSpeed(NewTrack))
           ws == [waypoints EXCEPT ![i] = x]
           y  == CheckSplit(ws[i], ws[wp_last + 1], ws[1].last, now)
<1>1. /\ i \in 1 .. Len(waypoints) /\ wp_last + 1 \in 1 .. Len(waypoints)
      /\ 1 \in 1 .. Len(waypoints)
  BY DEF TypeInv
<1>2. x \in WaypointRecord
  BY <1>1, CrossedType, NewTrackFacts DEF TypeInv
<1>3. ws \in Seq(WaypointRecord) /\ Len(ws) = Len(waypoints)
  <2> HIDE DEF i, x
  <2> QED
    BY <1>1, <1>2, ReplaceFacts DEF TypeInv
<1>4. /\ ws[i] \in WaypointRecord /\ ws[wp_last + 1] \in WaypointRecord
      /\ ws[1] \in WaypointRecord
  <2> HIDE DEF i, ws
  <2> QED
    BY <1>1, <1>3
<1>5. y \in WaypointRecord
  <2>1. ws[1].last \in Int /\ now \in Int
    <3>1. now \in Int
      BY DEF TypeInv
    <3>2. \A r \in WaypointRecord : r.last \in Int
      BY DEF WaypointRecord
    <3> HIDE DEF ws
    <3> QED
      BY <1>4, <3>1, <3>2
  <2> HIDE DEF i, ws
  <2> QED
    BY <1>4, <2>1, CheckSplitType
<1>6. CrossedCourse(adj) = [ws EXCEPT ![i] = y]
  BY DEF CrossedCourse
<1> HIDE DEF i, x, ws, y
<1> QED
  BY <1>1, <1>3, <1>5, <1>6, ReplaceFacts

-----------------------------------------------------------------------------
\* The steps that leave the course alone: the button, the reads, the light.
Frame == UNCHANGED <<eeprom, speed, waypoints, wp_next, wp_last>>

LEMMA QuietSteps ==
  ASSUME Inv,
         \/ Press \/ Release \/ ReadNothing \/ BootService \/ BootWait
         \/ SwitchInit \/ ClearPress \/ SwitchRace \/ NoNewNMEA \/ ParseFails
         \/ LedUpdate \/ Undefined \/ UNCHANGED vars
         \/ \E g \in Gaps, l \in Lines : ReadLine(g, l)
  PROVE  Inv'
<1>1. /\ Frame /\ tracks' = tracks /\ next_state' = next_state
      /\ bootFlag' = bootFlag
  BY DEF Press, Release, ReadNothing, BootService, BootWait, SwitchInit, ClearPress,
         SwitchRace, NoNewNMEA, ParseFails, LedUpdate, Undefined, ReadLine, vars,
         course, gps, machine, Frame
<1>2. now' \in Nat
  BY TrackerAssumption
  DEF Press, Release, ReadNothing, BootService, BootWait, SwitchInit, ClearPress,
      SwitchRace, NoNewNMEA, ParseFails, LedUpdate, Undefined, ReadLine, vars, Inv, TypeInv
<1>3. line'.type = "RMC" => line'.speed \in Nat
  <2>1. CASE \E g \in Gaps, l \in Lines : ReadLine(g, l)
    <3>1. PICK g \in Gaps, l \in Lines : ReadLine(g, l)
      BY <2>1
    <3>2. line' = l
      BY <3>1 DEF ReadLine
    <3>3. l.type = "RMC" => l.speed \in Nat
      <4>1. CASE l = BadLine
        BY <4>1 DEF BadLine
      <4>2. CASE l \in [type : {"GGA"}, quality : Qualities]
        BY <4>2
      <4>3. CASE l \in [type : {"RMC"}, fix : Fixes, speed : Speeds]
        <5>1. l.speed \in Speeds
          BY <4>3
        <5> QED
          BY <5>1, TrackerAssumption
      <4> QED
        BY <4>1, <4>2, <4>3 DEF Lines
    <3> QED
      BY <3>2, <3>3
  <2>2. CASE line' = line
    BY <2>2 DEF Inv, TypeInv
  <2>3. CASE line' = NoLine
    BY <2>3 DEF NoLine
  <2> QED
    BY <2>1, <2>2, <2>3
    DEF Press, Release, ReadNothing, BootService, BootWait, SwitchInit, ClearPress,
        SwitchRace, NoNewNMEA, ParseFails, LedUpdate, Undefined, vars, gps
<1>4. TypeInv'
  BY <1>1, <1>2, <1>3 DEF Inv, TypeInv, Frame
<1>5. ControlInv'
  BY <1>1
  DEF Press, Release, ReadNothing, BootService, BootWait, SwitchInit, ClearPress,
      SwitchRace, NoNewNMEA, ParseFails, LedUpdate, Undefined, ReadLine, vars,
      machine, Inv, ControlInv, Frame
<1>6. CourseInv'
  BY <1>1 DEF Inv, CourseInv, Following, Frame
<1> QED
  BY <1>4, <1>5, <1>6 DEF Inv

\* The first pass: service mode, or the stored course.
LEMMA BootSteps ==
  ASSUME Inv, BootRelease \/ SwitchReset
  PROVE  Inv'
<1>1. CASE BootRelease
  <2>1. TypeInv'
    BY <1>1 DEF BootRelease, Inv, TypeInv, gps
  <2>2. ControlInv'
    BY <1>1 DEF BootRelease, Inv, ControlInv, ST_RESET, ST_INIT, ST_WPSET, ST_RACE
  <2>3. CourseInv'
    BY <1>1 DEF BootRelease, Inv, ControlInv, CourseInv, ST_WPSET, ST_RACE
  <2> QED
    BY <2>1, <2>2, <2>3 DEF Inv
<1>2. CASE SwitchReset
  <2>1. waypoints' \in Seq(WaypointRecord)
    <3>1. \A n \in Nat : NewWaypoint(n, 0) \in WaypointRecord
      BY DEF NewWaypoint, WaypointRecord
    <3>2. now \in Nat /\ eeprom \in Nat /\ waypoints \in Seq(WaypointRecord)
      BY DEF Inv, TypeInv
    <3> QED
      BY <1>2, <3>1, <3>2 DEF SwitchReset
  <2>2. Len(waypoints') = eeprom
    <3>1. CASE bootFlag = 0
      <4>1. eeprom \in Nat
        BY DEF Inv, TypeInv
      <4> QED
        BY <1>2, <3>1, <4>1 DEF SwitchReset
    <3>2. CASE bootFlag # 0
      BY <1>2, <3>2
      DEF SwitchReset, Inv, ControlInv, CourseInv, ST_RESET, ST_WPSET
    <3> QED
      BY <3>1, <3>2
  <2>3. /\ next_state = ST_RESET /\ next_state' \in {ST_RESET, ST_INIT}
        /\ bootFlag' = 1 /\ pc' = "nmea"
        /\ UNCHANGED <<now, eeprom, speed, line, tracks, wp_next, wp_last>>
    BY <1>2 DEF SwitchReset, Inv, ControlInv
  <2> QED
    BY <2>1, <2>2, <2>3
    DEF Inv, TypeInv, ControlInv, CourseInv, ST_RESET, ST_INIT, ST_WPSET, ST_RACE
<1> QED
  BY <1>1, <1>2

\* A waypoint is set in service mode, or the course is reset by the button.
LEMMA ButtonSteps ==
  ASSUME Inv, SwitchWpset \/ HoldCheck
  PROVE  Inv'
<1>1. CASE SwitchWpset
  <2>1. /\ next_state = ST_WPSET /\ pc' \in {"nmea", "clear"}
        /\ UNCHANGED <<now, eeprom, speed, line, wp_next, wp_last,
                       current_state, next_state, bootFlag>>
    BY <1>1 DEF SwitchWpset, Inv, ControlInv, machine, gps
  <2>2. waypoints' \in Seq(WaypointRecord) /\ tracks' \in Seq(TrackPoint)
    <3>1. NewWaypoint(now, 0) \in WaypointRecord
      BY DEF NewWaypoint, WaypointRecord, Inv, TypeInv
    <3>2. /\ waypoints' \in {waypoints, Append(waypoints, NewWaypoint(now, 0))}
          /\ tracks' \in {tracks, << >>}
      BY <1>1 DEF SwitchWpset
    <3>3. Append(waypoints, NewWaypoint(now, 0)) \in Seq(WaypointRecord)
      <4> DEFINE w == NewWaypoint(now, 0)
      <4>1. w \in WaypointRecord /\ waypoints \in Seq(WaypointRecord)
        BY <3>1 DEF Inv, TypeInv
      <4> HIDE DEF w
      <4>2. Append(waypoints, w) \in Seq(WaypointRecord)
        BY <4>1
      <4> QED
        BY <4>2 DEF w
    <3>4. << >> \in Seq(TrackPoint)
      OBVIOUS
    <3> QED
      BY <3>2, <3>3, <3>4 DEF Inv, TypeInv
  <2> QED
    BY <1>1, <2>1, <2>2
    DEF SwitchWpset, Inv, TypeInv, ControlInv, CourseInv, ST_RESET, ST_WPSET, ST_RACE
<1>2. CASE HoldCheck
  <2>1. /\ waypoints' \in Seq(WaypointRecord) /\ Len(waypoints') = Len(waypoints)
    BY <1>2, ResetAllFacts DEF HoldCheck, Inv, TypeInv
  <2>2. /\ pc' = "nmea"
        /\ UNCHANGED <<now, eeprom, speed, line, wp_next, wp_last, tracks,
                       next_state, bootFlag>>
    BY <1>2 DEF HoldCheck, gps
  <2>3. Following(wp_last)' = Following(wp_last)
    BY <2>1, <2>2 DEF Following
  <2> QED
    BY <2>1, <2>2, <2>3 DEF Inv, TypeInv, ControlInv, CourseInv
<1> QED
  BY <1>1, <1>2

\* The index after one in range is in range.
LEMMA FollowingInRange ==
  ASSUME NEW i \in Nat, waypoints \in Seq(WaypointRecord), i < Len(waypoints)
  PROVE  Following(i) \in Nat /\ Following(i) < Len(waypoints)
BY DEF Following

\* A line that crosses nothing.
LEMMA PlainLines ==
  ASSUME Inv, NoFix \/ TrackOnly \/ NotCrossed \/ EmptyCourse \/ Moving \/ Slow
  PROVE  Inv'
<1>1. Parse
  BY DEF NoFix, TrackOnly, NotCrossed, EmptyCourse, Moving, Slow, Racing
<1>2. /\ pc' \in {"update", "undefined"}
      /\ UNCHANGED <<now, eeprom, next_state, bootFlag, waypoints, wp_next, wp_last>>
      /\ tracks' \in {tracks, NewTrack}
  BY DEF NoFix, TrackOnly, NotCrossed, EmptyCourse, Moving, Slow, Racing, Parse, course
<1>3. TypeInv'
  BY <1>1, <1>2, NewTrackFacts DEF Inv, TypeInv
<1>4. Following(wp_last)' = Following(wp_last)
  BY <1>2 DEF Following
<1> QED
  BY <1>2, <1>3, <1>4 DEF Inv, ControlInv, CourseInv

\* The end of a race keeps the course.
LEMMA EndRaceStep ==
  ASSUME Inv, EndRace
  PROVE  Inv'
<1>1. Parse /\ next_state = ST_RACE /\ next_state' = ST_INIT /\ pc' = "update"
      /\ UNCHANGED <<now, eeprom, bootFlag, wp_next, wp_last>>
      /\ tracks' = NewTrack /\ waypoints' = ResetAll(waypoints)
  BY DEF EndRace, Racing, Parse
<1>2. waypoints' \in Seq(WaypointRecord) /\ Len(waypoints') = Len(waypoints)
  BY <1>1, ResetAllFacts DEF Inv, TypeInv
<1>3. TypeInv'
  BY <1>1, <1>2, NewTrackFacts DEF Inv, TypeInv
<1>4. ControlInv'
  BY <1>1 DEF Inv, ControlInv, ST_RESET, ST_INIT, ST_WPSET, ST_RACE
<1>5. CourseInv'
  BY <1>1, <1>2 DEF Inv, CourseInv, ST_INIT, ST_WPSET, ST_RACE
<1> QED
  BY <1>3, <1>4, <1>5 DEF Inv

\* The three crossings: of gate 0 at the start, of gate 0 at the end of
\* service mode, and of the next waypoint of a race.
LEMMA CrossingSteps ==
  ASSUME Inv, NEW adj \in -MaxTime .. 0,
         StartRace(adj) \/ FinishService(adj) \/ CrossGate(adj)
  PROVE  Inv'
<1>1. adj \in Int
  BY TrackerAssumption
<1>2. /\ now \in Nat /\ waypoints \in Seq(WaypointRecord) /\ Len(waypoints) \in Nat
      /\ wp_next \in Nat /\ wp_last \in Nat
  BY DEF Inv, TypeInv
<1>3. CASE StartRace(adj)
  <2>1. /\ Parse /\ next_state = ST_INIT /\ waypoints # << >>
        /\ tracks' = << >> /\ next_state' = ST_RACE /\ pc' = "update"
        /\ wp_last' = 0 /\ wp_next' = Following(0)
        /\ UNCHANGED <<now, eeprom, bootFlag>>
    BY <1>3 DEF StartRace, Parse
  <2>2. Len(waypoints) >= 1 /\ 1 \in 1 .. Len(waypoints)
    BY <1>2, <2>1
  <2>3. waypoints' \in Seq(WaypointRecord) /\ Len(waypoints') = Len(waypoints)
    <3> DEFINE x == [Crossed(waypoints[1], adj, MeanSpeed(NewTrack))
                       EXCEPT !.last = now + adj]
    <3>1. Crossed(waypoints[1], adj, MeanSpeed(NewTrack)) \in WaypointRecord
      BY <1>1, <1>2, <2>1, <2>2, CrossedType, NewTrackFacts DEF Inv
    <3>2. x \in WaypointRecord
      <4>1. now + adj \in Int
        BY <1>1, <1>2
      <4>2. \A w \in WaypointRecord : \A n \in Int :
              [w EXCEPT !.last = n] \in WaypointRecord
        BY DEF WaypointRecord
      <4> QED
        BY <3>1, <4>1, <4>2
    <3>3. waypoints' = [waypoints EXCEPT ![1] = x]
      BY <1>3 DEF StartRace
    <3> HIDE DEF x
    <3> QED
      BY <1>2, <2>2, <3>2, <3>3, ReplaceFacts
  <2>4. Following(0) \in Nat /\ Following(0)' = Following(0)
    BY <1>2, <2>2, <2>3 DEF Following
  <2>5. TypeInv'
    BY <1>2, <2>1, <2>3, <2>4, NewTrackFacts DEF Inv, TypeInv
  <2>6. ControlInv'
    BY <2>1 DEF Inv, ControlInv, ST_RESET, ST_INIT, ST_WPSET, ST_RACE
  <2>7. CourseInv'
    <3>1. wp_next' = Following(wp_last)'
      BY <2>1, <2>3 DEF Following
    <3> QED
      BY <1>2, <2>1, <2>2, <2>3, <3>1
      DEF Inv, ControlInv, CourseInv, ST_RESET, ST_INIT, ST_WPSET, ST_RACE
  <2> QED
    BY <2>5, <2>6, <2>7 DEF Inv
<1>4. CASE FinishService(adj)
  <2>1. /\ Parse /\ next_state = ST_WPSET /\ waypoints # << >>
        /\ tracks' = << >> /\ next_state' = ST_RACE /\ pc' = "update"
        /\ wp_last' = 0 /\ wp_next' = Following(0)
        /\ eeprom' = Len(waypoints) /\ waypoints' = CrossedCourse(adj)
        /\ UNCHANGED <<now, bootFlag>>
    BY <1>4 DEF FinishService, Parse
  <2>2. Len(waypoints) >= 1 /\ wp_next < Len(waypoints) /\ wp_last < Len(waypoints)
    BY <1>2, <2>1 DEF Inv, CourseInv
  <2>3. waypoints' \in Seq(WaypointRecord) /\ Len(waypoints') = Len(waypoints)
    BY <1>1, <2>1, <2>2, CrossedCourseFacts DEF Inv
  <2>4. Following(0) \in Nat
    BY <1>2, <2>2 DEF Following
  <2>5. TypeInv'
    BY <1>2, <2>1, <2>3, <2>4, NewTrackFacts DEF Inv, TypeInv
  <2>6. ControlInv'
    BY <2>1 DEF Inv, ControlInv, ST_RESET, ST_INIT, ST_WPSET, ST_RACE
  <2>7. CourseInv'
    <3>1. wp_next' = Following(wp_last)'
      BY <2>1, <2>3 DEF Following
    <3> QED
      BY <1>2, <2>1, <2>2, <2>3, <3>1 DEF CourseInv, ST_WPSET, ST_RACE
  <2> QED
    BY <2>5, <2>6, <2>7 DEF Inv
<1>5. CASE CrossGate(adj)
  <2>1. /\ Parse /\ next_state = ST_RACE /\ next_state' = ST_RACE
        /\ tracks' = << >> /\ pc' = "update"
        /\ wp_last' = wp_next /\ wp_next' = Following(wp_next)
        /\ waypoints' = CrossedCourse(adj)
        /\ UNCHANGED <<now, eeprom, bootFlag>>
    BY <1>5 DEF CrossGate, Racing, Parse
  <2>2. wp_next < Len(waypoints) /\ wp_last < Len(waypoints)
    BY <1>2, <2>1, FollowingInRange DEF Inv, CourseInv
  <2>3. waypoints' \in Seq(WaypointRecord) /\ Len(waypoints') = Len(waypoints)
    BY <1>1, <2>1, <2>2, CrossedCourseFacts DEF Inv
  <2>4. Following(wp_next) \in Nat
    BY <1>2, <2>2, FollowingInRange
  <2>5. TypeInv'
    BY <1>2, <2>1, <2>3, <2>4, NewTrackFacts DEF Inv, TypeInv
  <2>6. ControlInv'
    BY <2>1 DEF Inv, ControlInv, ST_RESET, ST_INIT, ST_WPSET, ST_RACE
  <2>7. CourseInv'
    <3>1. wp_next' = Following(wp_last)'
      BY <2>1, <2>3 DEF Following
    <3> QED
      BY <1>2, <2>1, <2>2, <2>3, <3>1
      DEF Inv, CourseInv, ST_WPSET, ST_RACE
  <2> QED
    BY <2>5, <2>6, <2>7 DEF Inv
<1> QED
  BY <1>3, <1>4, <1>5

-----------------------------------------------------------------------------
\* The inductive invariant holds in every reachable state.
THEOREM CourseInvariant == Spec => []Inv
<1>1. Init => Inv
  <2> SUFFICES ASSUME Init
               PROVE  Inv
    OBVIOUS
  <2>1. TypeInv
    BY TrackerAssumption DEF Init, TypeInv, NoLine
  <2> QED
    BY <2>1
    DEF Init, Inv, ControlInv, CourseInv, ST_RESET, ST_INIT, ST_WPSET, ST_RACE
<1>2. Inv /\ [Next]_vars => Inv'
  <2> SUFFICES ASSUME Inv, [Next]_vars
               PROVE  Inv'
    OBVIOUS
  <2>1. CASE Handler
    <3>1. CASE NoFix \/ TrackOnly \/ NotCrossed \/ EmptyCourse \/ Moving \/ Slow
      BY <3>1, PlainLines
    <3>2. CASE EndRace
      BY <3>2, EndRaceStep
    <3>3. ASSUME NEW adj \in -MaxTime .. 0,
                 StartRace(adj) \/ FinishService(adj) \/ CrossGate(adj)
          PROVE  Inv'
      BY <3>3, CrossingSteps
    <3> QED
      BY <2>1, <3>1, <3>2, <3>3 DEF Handler
  <2>2. CASE LoopStep /\ ~Handler
    BY <2>2, QuietSteps, BootSteps, ButtonSteps DEF LoopStep, Switch
  <2>3. CASE Press \/ Release \/ BootWait \/ Undefined \/ UNCHANGED vars
    BY <2>3, QuietSteps
  <2> QED
    BY <2>1, <2>2, <2>3 DEF Next
<1> QED
  BY <1>1, <1>2, PTL DEF Spec

\* Every race is run on the stored course, with indices of neighbouring
\* waypoints of it: no subscript of loop() leaves the vector in a race.
THEOREM RacesOnStoredCourse == Spec => []RaceOnStoredCourse
<1>1. Inv => RaceOnStoredCourse
  <2> SUFFICES ASSUME Inv, next_state = ST_RACE
               PROVE  /\ Len(waypoints) = eeprom
                      /\ wp_next < Len(waypoints) /\ wp_last < Len(waypoints)
                      /\ wp_next = IF wp_last + 1 = Len(waypoints)
                                   THEN 0 ELSE wp_last + 1
    BY DEF RaceOnStoredCourse, InRace
  <2>1. bootFlag = 1
    BY DEF Inv, ControlInv, ST_RESET, ST_RACE
  <2>2. Len(waypoints) = eeprom
    BY <2>1 DEF Inv, CourseInv, ST_WPSET, ST_RACE
  <2>3. waypoints \in Seq(WaypointRecord) /\ wp_last \in Nat /\ wp_last < Len(waypoints)
        /\ wp_next = Following(wp_last) /\ Len(waypoints) \in Nat
    BY DEF Inv, TypeInv, CourseInv
  <2> QED
    BY <2>2, <2>3 DEF Following
<1> QED
  BY <1>1, CourseInvariant, PTL
-----------------------------------------------------------------------------
(***************************************************************************)
(* What a race measures.  The inductive invariants below are about the     *)
(* waypoints and their history, which each step changes in one of six ways.*)
(***************************************************************************)
CrossingRecord == [at : Int, armed : BOOLEAN, splits : SUBSET Int]

Calm ==
  /\ UNCHANGED <<waypoints, crossing, wp_last>>
  /\ UNCHANGED tap \/ Press
  /\ next_state' = ST_RACE => next_state = ST_RACE

Loaded ==
  /\ waypoints' = [i \in 1 .. eeprom |-> NewWaypoint(now, 0)]
  /\ crossing' = [i \in 1 .. eeprom |-> NoCrossing]
  /\ next_state = ST_RESET /\ next_state' # ST_RACE
  /\ UNCHANGED tap

Grown ==
  /\ waypoints' = Append(waypoints, NewWaypoint(now, 0))
  /\ crossing' = Append(crossing, NoCrossing)
  /\ next_state = ST_WPSET /\ next_state' # ST_RACE
  /\ UNCHANGED tap

Wiped ==
  /\ waypoints' = ResetAll(waypoints) /\ crossing' = Disarmed
  /\ UNCHANGED wp_last
  /\ \/ tap' = [tap EXCEPT !.pending = TRUE]
     \/ UNCHANGED tap /\ next_state' # ST_RACE

Measured(adj) ==
  /\ wp_next < Len(waypoints) /\ wp_last < Len(waypoints)
  /\ Parse /\ adj \in Crossings(NewTrack)
  /\ waypoints' = CrossedCourse(adj) /\ RecordCrossing(adj)
  /\ next_state' = ST_RACE /\ tracks' = << >>
  /\ \/ next_state = ST_WPSET /\ wp_next = 0 /\ wp_last' = 0 /\ UNCHANGED tap
     \/ /\ next_state = ST_RACE /\ wp_last' = wp_next
        /\ tap' = [tap EXCEPT !.pending = @ /\ wp_next # 0]
        /\ leds' = Feedback(leds, waypoints'[wp_next + 1])

\* The split and the lap are measured from a crossing of this race.
StartInv ==
  next_state = ST_RACE =>
    tap.pending \/ (crossing[wp_last + 1].armed /\ crossing[1].armed)

\* The best split is the least, or 0 before there is one.
BestInv ==
  \A i \in 1 .. Len(waypoints) :
    /\ crossing[i].splits = {} => waypoints[i].split_best = 0
    /\ crossing[i].splits # {} /\ 0 \notin crossing[i].splits =>
         /\ waypoints[i].split_best \in crossing[i].splits
         /\ \A d \in crossing[i].splits : waypoints[i].split_best <= d

TapRecord == [since : Nat, heard : BOOLEAN, pending : BOOLEAN]

HistoryInv ==
  /\ crossing \in Seq(CrossingRecord) /\ Len(crossing) = Len(waypoints)
  /\ tap \in TapRecord
  /\ StartInv
  /\ BestInv

\* A tap that the loop has acted on started the hold timer after its edge.
HoldInv ==
  /\ pbFlag \in {0, 1} /\ resetFlag \in {0, 1}
  /\ pbTimer \in Int /\ tap \in TapRecord /\ tap.since <= now
  /\ next_state \in {ST_RESET, ST_WPSET} => resetFlag = 0
  /\ pc = "clear" => next_state = ST_WPSET
  /\ resetFlag = 1 /\ pin = "low" /\ pbFlag = 0 /\ tap.heard => tap.since <= pbTimer

\* The lights before a race: never green until the start is near, and green
\* without a limit from then on.
Lights == [LEDs -> View]

LightInv ==
  /\ leds \in Lights
  /\ next_state = ST_RESET => \A i \in LEDs : leds[i].blink # GREEN
  /\ next_state = ST_INIT /\ ~carry =>
       \A i \in LEDs : leds[i].blink = GREEN /\ ~leds[i].timed

\* The adjustment that checkSplit uses: the one of the waypoint before, which
\* on a course of one waypoint is the new one; and the split it computes.
AdjustmentUsed(adj) ==
  IF wp_last = wp_next THEN adj ELSE waypoints[wp_last + 1].adjustment
SplitTaken(adj) == (now + AdjustmentUsed(adj)) - waypoints[wp_last + 1].last

\* What a crossing writes into the waypoint crossed; the others stay.
LEMMA CrossedCourseValues ==
  ASSUME TypeInv, Parse, NEW adj \in Int,
         wp_next < Len(waypoints), wp_last < Len(waypoints)
  PROVE  /\ \A i \in 1 .. Len(waypoints) :
              i # wp_next + 1 => CrossedCourse(adj)[i] = waypoints[i]
         /\ CrossedCourse(adj)[wp_next + 1].last = now + AdjustmentUsed(adj)
         /\ CrossedCourse(adj)[wp_next + 1].adjustment = adj
         /\ LET best == waypoints[wp_next + 1].split_best
                base == IF best = 0 THEN SplitTaken(adj) ELSE best
            IN  /\ CrossedCourse(adj)[wp_next + 1].split_best =
                     IF SplitTaken(adj) < base THEN SplitTaken(adj) ELSE base
                /\ CrossedCourse(adj)[wp_next + 1].split_margin = SplitTaken(adj) - base
<1> DEFINE n  == wp_next + 1
           m  == wp_last + 1
           x  == Crossed(waypoints[n], adj, MeanSpeed(NewTrack))
           ws == [waypoints EXCEPT ![n] = x]
           y  == CheckSplit(ws[n], ws[m], ws[1].last, now)
<1>1. /\ n \in 1 .. Len(waypoints) /\ m \in 1 .. Len(waypoints)
      /\ wp_next \in Nat /\ wp_last \in Nat /\ waypoints \in Seq(WaypointRecord)
  BY DEF TypeInv
<1>2. waypoints[n] \in WaypointRecord /\ waypoints[m] \in WaypointRecord
  <2> HIDE DEF n, m
  <2> QED
    BY <1>1
<1>3. /\ x.adjustment = adj /\ x.last = waypoints[n].last
      /\ x.split_best = waypoints[n].split_best
  <2> HIDE DEF n
  <2> QED
    BY <1>2 DEF Crossed, WaypointRecord
<1>4. /\ ws[n] = x
      /\ \A i \in 1 .. Len(waypoints) : i # n => ws[i] = waypoints[i]
      /\ ws \in [1 .. Len(waypoints) -> {x} \cup {waypoints[i] : i \in 1 .. Len(waypoints)}]
  <2> HIDE DEF n, x
  <2> QED
    BY <1>1
<1>5. ws[m].adjustment = AdjustmentUsed(adj) /\ ws[m].last = waypoints[m].last
  <2>1. CASE m = n
    <3>1. wp_last = wp_next
      BY <1>1, <2>1
    <3> HIDE DEF n, m, x, ws
    <3> QED
      BY <1>3, <1>4, <2>1, <3>1 DEF AdjustmentUsed
  <2>2. CASE m # n
    <3>1. wp_last # wp_next
      BY <2>2
    <3>2. AdjustmentUsed(adj) = waypoints[m].adjustment
      BY <3>1 DEF AdjustmentUsed
    <3> HIDE DEF n, m, x, ws
    <3> QED
      BY <1>1, <1>4, <2>2, <3>2
  <2> QED
    BY <2>1, <2>2
<1>6. /\ ws[n] \in WaypointRecord /\ ws[m] \in WaypointRecord
       /\ ws[1].last \in Int /\ now \in Int
  <2>1. x \in WaypointRecord
    BY <1>2, CrossedType, NewTrackFacts
  <2>2. ws \in Seq(WaypointRecord) /\ Len(ws) = Len(waypoints)
    <3> HIDE DEF n, x
    <3> QED
      BY <1>1, <2>1, ReplaceFacts
  <2>3. ws[n] \in WaypointRecord /\ ws[m] \in WaypointRecord /\ ws[1] \in WaypointRecord
    <3> HIDE DEF n, m, ws
    <3> QED
      BY <1>1, <2>2
  <2>4. \A r \in WaypointRecord : r.last \in Int
    BY DEF WaypointRecord
  <2>5. now \in Int
    BY DEF TypeInv
  <2> HIDE DEF n, m, ws
  <2> QED
    BY <2>3, <2>4, <2>5
<1>7. /\ y.last = now + ws[m].adjustment /\ y.adjustment = ws[n].adjustment
      /\ LET split == (now + ws[m].adjustment) - ws[m].last
             base  == IF ws[n].split_best = 0 THEN split ELSE ws[n].split_best
         IN  /\ y.split_best = IF split < base THEN split ELSE base
             /\ y.split_margin = split - base
  <2> HIDE DEF n, m, x, ws
  <2> QED
    BY <1>6, CheckSplitValues
<1>8. CrossedCourse(adj) = [ws EXCEPT ![n] = y]
  BY DEF CrossedCourse
<1>9. /\ CrossedCourse(adj)[n] = y
      /\ \A i \in 1 .. Len(waypoints) : i # n => CrossedCourse(adj)[i] = waypoints[i]
  <2> HIDE DEF n, y, ws
  <2> QED
    BY <1>1, <1>4, <1>8
<1>10. SplitTaken(adj) = (now + ws[m].adjustment) - ws[m].last
  BY <1>5 DEF SplitTaken
<1>11. ws[n].split_best = waypoints[n].split_best /\ ws[n].adjustment = adj
  BY <1>3, <1>4
<1> HIDE DEF x, ws, y
<1> QED
  BY <1>5, <1>7, <1>9, <1>10, <1>11

LEMMA CourseSteps ==
  ASSUME Inv, [Next]_vars
  PROVE  \/ Calm \/ Loaded \/ Grown \/ Wiped
         \/ \E adj \in -MaxTime .. 0 : StartRace(adj) \/ Measured(adj)
<1>1. CASE Press
  BY <1>1 DEF Press, Calm, machine, course
<1>2. CASE \/ Release \/ BootWait \/ ReadNothing \/ BootService \/ SwitchInit
           \/ ClearPress \/ SwitchRace \/ NoNewNMEA \/ ParseFails \/ LedUpdate
           \/ Undefined \/ UNCHANGED vars \/ BootRelease
           \/ \E g \in Gaps, l \in Lines : ReadLine(g, l)
  <2>1. UNCHANGED <<waypoints, crossing, wp_last, tap>>
    BY <1>2
    DEF Release, BootWait, ReadNothing, BootService, BootRelease, SwitchInit, ClearPress,
        SwitchRace, NoNewNMEA, ParseFails, LedUpdate, Undefined, ReadLine, vars,
        machine, course, ghosts
  <2>2. next_state' \in {next_state, ST_WPSET}
    BY <1>2
    DEF Release, BootWait, ReadNothing, BootService, BootRelease, SwitchInit, ClearPress,
        SwitchRace, NoNewNMEA, ParseFails, LedUpdate, Undefined, ReadLine, vars, machine
  <2> QED
    BY <2>1, <2>2 DEF Calm, ST_WPSET, ST_RACE
<1>3. CASE SwitchReset
  <2>1. next_state = ST_RESET /\ next_state' \in {ST_RESET, ST_INIT}
    BY <1>3 DEF SwitchReset, Inv, ControlInv
  <2>2. UNCHANGED <<tap, wp_last>>
    BY <1>3 DEF SwitchReset
  <2>3. \/ UNCHANGED <<waypoints, crossing>>
        \/ /\ waypoints' = [i \in 1 .. eeprom |-> NewWaypoint(now, 0)]
           /\ crossing' = [i \in 1 .. eeprom |-> NoCrossing]
    BY <1>3 DEF SwitchReset
  <2> QED
    BY <2>1, <2>2, <2>3 DEF Calm, Loaded, ST_RESET, ST_INIT, ST_RACE
<1>4. CASE SwitchWpset
  <2>1. next_state = ST_WPSET /\ next_state' = ST_WPSET
    BY <1>4 DEF SwitchWpset, Inv, ControlInv, machine
  <2>2. UNCHANGED <<tap, wp_last>>
    BY <1>4 DEF SwitchWpset
  <2>3. \/ UNCHANGED <<waypoints, crossing>>
        \/ /\ waypoints' = Append(waypoints, NewWaypoint(now, 0))
           /\ crossing' = Append(crossing, NoCrossing)
    BY <1>4 DEF SwitchWpset
  <2> QED
    BY <2>1, <2>2, <2>3 DEF Calm, Grown, ST_WPSET, ST_RACE
<1>5. CASE HoldCheck
  BY <1>5 DEF HoldCheck, Calm, Wiped
<1>6. CASE NoFix \/ TrackOnly \/ NotCrossed \/ EmptyCourse \/ Moving \/ Slow
  BY <1>6
  DEF NoFix, TrackOnly, NotCrossed, EmptyCourse, Moving, Slow, Racing, Calm, course, ghosts
<1>7. CASE EndRace
  BY <1>7 DEF EndRace, Wiped, ST_INIT, ST_RACE
<1>8. ASSUME NEW adj \in -MaxTime .. 0, StartRace(adj) \/ FinishService(adj) \/ CrossGate(adj)
      PROVE  StartRace(adj) \/ Measured(adj)
  <2>1. /\ waypoints \in Seq(WaypointRecord) /\ Len(waypoints) \in Nat
        /\ wp_next \in Nat /\ wp_last \in Nat
    BY DEF Inv, TypeInv
  <2>2. CASE FinishService(adj)
    BY <2>1, <2>2 DEF FinishService, Measured, Inv, CourseInv
  <2>3. CASE CrossGate(adj)
    <3>1. wp_next < Len(waypoints) /\ wp_last < Len(waypoints)
      BY <2>1, <2>3, FollowingInRange DEF CrossGate, Racing, Inv, CourseInv
    <3> QED
      BY <2>3, <3>1 DEF CrossGate, Racing, Measured
  <2> QED
    BY <1>8, <2>2, <2>3
<1> QED
  BY <1>1, <1>2, <1>3, <1>4, <1>5, <1>6, <1>7, <1>8 DEF Next, LoopStep, Switch, Handler

\* A reset leaves neither a time nor a best split, and keeps the adjustments.
LEMMA WipedValues ==
  ASSUME TypeInv, crossing \in Seq(CrossingRecord), Len(crossing) = Len(waypoints)
  PROVE  /\ ResetAll(waypoints) \in Seq(WaypointRecord)
         /\ Len(ResetAll(waypoints)) = Len(waypoints)
         /\ Disarmed \in Seq(CrossingRecord) /\ Len(Disarmed) = Len(waypoints)
         /\ \A i \in 1 .. Len(waypoints) :
              /\ ResetAll(waypoints)[i].split_best = 0
              /\ ResetAll(waypoints)[i].last = 0
              /\ ResetAll(waypoints)[i].adjustment = waypoints[i].adjustment
              /\ ~Disarmed[i].armed /\ Disarmed[i].splits = {}
<1>1. waypoints \in Seq(WaypointRecord) /\ Len(waypoints) \in Nat
  BY DEF TypeInv
<1>2. /\ DOMAIN waypoints = 1 .. Len(waypoints) /\ DOMAIN crossing = 1 .. Len(waypoints)
  BY <1>1
<1>3. ResetAll(waypoints) = [i \in 1 .. Len(waypoints) |-> ResetWaypoint(waypoints[i])]
  BY <1>2 DEF ResetAll
<1>4. \A i \in 1 .. Len(waypoints) :
        /\ ResetAll(waypoints)[i].split_best = 0
        /\ ResetAll(waypoints)[i].last = 0
        /\ ResetAll(waypoints)[i].adjustment = waypoints[i].adjustment
  BY <1>3 DEF ResetWaypoint
<1>5. \A c \in CrossingRecord :
        LET d == [c EXCEPT !.armed = FALSE, !.splits = {}]
        IN  d \in CrossingRecord /\ ~d.armed /\ d.splits = {}
  BY DEF CrossingRecord
<1>6. Disarmed = [i \in 1 .. Len(waypoints) |->
                    [crossing[i] EXCEPT !.armed = FALSE, !.splits = {}]]
  BY <1>2 DEF Disarmed
<1>7. \A i \in 1 .. Len(waypoints) : crossing[i] \in CrossingRecord
  OBVIOUS
<1>8. \A i \in 1 .. Len(waypoints) :
        Disarmed[i] \in CrossingRecord /\ ~Disarmed[i].armed /\ Disarmed[i].splits = {}
  BY <1>5, <1>6, <1>7
<1>9. Disarmed \in Seq(CrossingRecord) /\ Len(Disarmed) = Len(waypoints)
  <2>1. Disarmed \in [1 .. Len(waypoints) -> CrossingRecord]
    BY <1>6, <1>8
  <2> QED
    BY <1>1, <2>1, BuiltFacts
<1> QED
  BY <1>1, <1>4, <1>8, <1>9, ResetAllFacts

\* A press leaves the rest of tap alone, and a crossing arms the history.
LEMMA TapFacts ==
  ASSUME NEW t \in TapRecord, NEW s \in Nat, NEW h \in BOOLEAN
  PROVE  /\ [t EXCEPT !.since = s, !.heard = h] \in TapRecord
         /\ [t EXCEPT !.since = s, !.heard = h].pending = t.pending
BY Zenon DEF TapRecord

LEMMA ArmedFacts ==
  ASSUME NEW c \in CrossingRecord, NEW n \in Int
  PROVE  /\ [c EXCEPT !.at = n, !.armed = TRUE] \in CrossingRecord
         /\ [c EXCEPT !.at = n, !.armed = TRUE].armed
         /\ [c EXCEPT !.at = n, !.armed = TRUE].splits = c.splits
         /\ [c EXCEPT !.at = n, !.armed = TRUE].at = n
BY Zenon DEF CrossingRecord

\* What a crossing adds to the history.
LEMMA RecordValues ==
  ASSUME TypeInv, crossing \in Seq(CrossingRecord), Len(crossing) = Len(waypoints),
         NEW adj \in Int, Measured(adj)
  PROVE  /\ crossing' \in Seq(CrossingRecord) /\ Len(crossing') = Len(waypoints)
         /\ \A i \in 1 .. Len(waypoints) : i # wp_next + 1 => crossing'[i] = crossing[i]
         /\ crossing'[wp_next + 1].at = now + adj
         /\ crossing'[wp_next + 1].armed
         /\ crossing'[wp_next + 1].splits =
              crossing[wp_next + 1].splits \cup {SplitTaken(adj)}
         /\ SplitTaken(adj) \in Int
<1> DEFINE n == wp_next + 1
           c == [at |-> now + adj, armed |-> TRUE,
                 splits |-> crossing[n].splits \cup {SplitTaken(adj)}]
<1>1. /\ n \in 1 .. Len(waypoints) /\ wp_last + 1 \in 1 .. Len(waypoints) /\ now \in Int
      /\ waypoints \in Seq(WaypointRecord)
  BY DEF TypeInv, Measured
<1>2. SplitTaken(adj) \in Int
  <2>1. \A w \in WaypointRecord : w.last \in Int /\ w.adjustment \in Int
    BY DEF WaypointRecord
  <2>2. waypoints[wp_last + 1] \in WaypointRecord
    BY <1>1
  <2> QED
    BY <1>1, <2>1, <2>2 DEF SplitTaken, AdjustmentUsed
<1>3. crossing[n] \in CrossingRecord
  <2> HIDE DEF n
  <2> QED
    BY <1>1
<1>4. c \in CrossingRecord
  <2>1. now + adj \in Int
    BY <1>1
  <2>2. crossing[n].splits \cup {SplitTaken(adj)} \in SUBSET Int
    <3>1. crossing[n].splits \in SUBSET Int
      BY <1>3 DEF CrossingRecord
    <3> QED
      BY <1>2, <3>1
  <2> HIDE DEF n
  <2> QED
    BY <2>1, <2>2 DEF CrossingRecord
<1>5. CrossedCourse(adj)[n].last - waypoints[wp_last + 1].last = SplitTaken(adj)
  <2>1. CrossedCourse(adj)[n].last = now + AdjustmentUsed(adj)
    BY CrossedCourseValues DEF Measured
  <2> QED
    BY <2>1 DEF SplitTaken
<1>6. crossing' = [crossing EXCEPT ![n] = c]
  BY <1>5 DEF Measured, RecordCrossing
<1>7. c.at = now + adj /\ c.armed /\ c.splits = crossing[n].splits \cup {SplitTaken(adj)}
  OBVIOUS
<1>8. crossing' \in Seq(CrossingRecord) /\ Len(crossing') = Len(waypoints)
  <2> HIDE DEF n, c
  <2> QED
    BY <1>1, <1>4, <1>6, ReplaceFacts
<1>9. /\ crossing'[n] = c
      /\ \A i \in 1 .. Len(waypoints) : i # n => crossing'[i] = crossing[i]
  <2> HIDE DEF n, c
  <2> QED
    BY <1>1, <1>6
<1> HIDE DEF c
<1> QED
  BY <1>2, <1>7, <1>8, <1>9

\* Every step keeps the history true.
LEMMA HistoryStep ==
  ASSUME Inv, Inv', HistoryInv, [Next]_vars
  PROVE  HistoryInv'
<1>1. /\ now \in Nat /\ eeprom \in Nat /\ wp_next \in Nat /\ wp_last \in Nat
      /\ waypoints \in Seq(WaypointRecord) /\ Len(waypoints) \in Nat
      /\ crossing \in Seq(CrossingRecord) /\ Len(crossing) = Len(waypoints)
      /\ tap \in TapRecord
  BY DEF Inv, TypeInv, HistoryInv
<1>2. CASE Calm
  <2>1. tap' \in TapRecord /\ tap'.pending = tap.pending
    <3>1. CASE UNCHANGED tap
      BY <1>1, <3>1
    <3>2. CASE Press
      <4>1. (now - last_interrupt_time > Debounce) \in BOOLEAN
        OBVIOUS
      <4> QED
        BY <1>1, <3>2, <4>1, TapFacts DEF Press
    <3> QED
      BY <1>2, <3>1, <3>2 DEF Calm
  <2>2. StartInv'
    BY <1>2, <2>1 DEF Calm, HistoryInv, StartInv
  <2>3. BestInv'
    BY <1>2 DEF Calm, HistoryInv, BestInv
  <2> QED
    BY <1>1, <1>2, <2>1, <2>2, <2>3 DEF Calm, HistoryInv
<1>3. CASE Loaded
  <2>1. NoCrossing \in CrossingRecord /\ NoCrossing.splits = {}
    BY DEF NoCrossing, CrossingRecord
  <2>2. crossing' \in Seq(CrossingRecord) /\ Len(crossing') = eeprom /\ Len(waypoints') = eeprom
    <3>1. crossing' \in [1 .. eeprom -> CrossingRecord]
      BY <1>3, <2>1 DEF Loaded
    <3>2. waypoints' \in [1 .. eeprom -> {NewWaypoint(now, 0)}]
      BY <1>3 DEF Loaded
    <3> QED
      BY <1>1, <3>1, <3>2, BuiltFacts
  <2>3. \A i \in 1 .. eeprom : waypoints'[i].split_best = 0 /\ crossing'[i].splits = {}
    BY <1>3, <2>1 DEF Loaded, NewWaypoint
  <2> QED
    BY <1>1, <1>3, <2>2, <2>3 DEF Loaded, HistoryInv, StartInv, BestInv
<1>4. CASE Grown
  <2> DEFINE c == NoCrossing
             w == NewWaypoint(now, 0)
  <2>1. c \in CrossingRecord /\ c.splits = {} /\ w.split_best = 0
    BY DEF NoCrossing, CrossingRecord, NewWaypoint
  <2>2. crossing' = Append(crossing, c) /\ waypoints' = Append(waypoints, w)
    BY <1>4 DEF Grown
  <2> HIDE DEF c, w
  <2>3. /\ crossing' \in Seq(CrossingRecord)
        /\ Len(crossing') = Len(waypoints) + 1 /\ Len(waypoints') = Len(waypoints) + 1
        /\ \A i \in 1 .. Len(waypoints) :
             crossing'[i] = crossing[i] /\ waypoints'[i] = waypoints[i]
        /\ crossing'[Len(waypoints) + 1] = c /\ waypoints'[Len(waypoints) + 1] = w
    BY <1>1, <2>1, <2>2
  <2>4. BestInv'
    <3> SUFFICES ASSUME NEW i \in 1 .. Len(waypoints')
                 PROVE  /\ crossing'[i].splits = {} => waypoints'[i].split_best = 0
                        /\ crossing'[i].splits # {} /\ 0 \notin crossing'[i].splits =>
                             /\ waypoints'[i].split_best \in crossing'[i].splits
                             /\ \A d \in crossing'[i].splits : waypoints'[i].split_best <= d
      BY DEF BestInv
    <3>1. CASE i \in 1 .. Len(waypoints)
      BY <2>3, <3>1 DEF HistoryInv, BestInv
    <3>2. CASE i = Len(waypoints) + 1
      BY <2>1, <2>3, <3>2
    <3> QED
      BY <1>1, <2>3, <3>1, <3>2
  <2> QED
    BY <1>1, <1>4, <2>3, <2>4 DEF Grown, HistoryInv, StartInv
<1>5. CASE Wiped
  <2>1. /\ waypoints' \in Seq(WaypointRecord) /\ Len(waypoints') = Len(waypoints)
        /\ crossing' \in Seq(CrossingRecord) /\ Len(crossing') = Len(waypoints)
        /\ \A i \in 1 .. Len(waypoints) :
             waypoints'[i].split_best = 0 /\ crossing'[i].splits = {}
    BY <1>1, <1>5, WipedValues DEF Wiped, Inv
  <2>2. tap' \in TapRecord /\ (next_state' = ST_RACE => tap'.pending)
    BY <1>1, <1>5 DEF Wiped, TapRecord
  <2> QED
    BY <2>1, <2>2 DEF HistoryInv, StartInv, BestInv
<1>6. ASSUME NEW adj \in -MaxTime .. 0, StartRace(adj)
      PROVE  HistoryInv'
  <2>1. 1 \in 1 .. Len(waypoints) /\ adj \in Int
    BY <1>1, <1>6, TrackerAssumption DEF StartRace
  <2>2. /\ \A i \in 1 .. Len(waypoints) : waypoints'[i].split_best = waypoints[i].split_best
        /\ Len(waypoints') = Len(waypoints)
    <3>1. \A w \in WaypointRecord : \A v :
            [Crossed(w, adj, v) EXCEPT !.last = now + adj].split_best = w.split_best
      BY DEF Crossed, WaypointRecord
    <3>2. waypoints[1] \in WaypointRecord
      BY <1>1, <2>1
    <3> DEFINE x == [Crossed(waypoints[1], adj, MeanSpeed(NewTrack)) EXCEPT !.last = now + adj]
    <3>3. x.split_best = waypoints[1].split_best
      BY <3>1, <3>2
    <3>4. waypoints' = [waypoints EXCEPT ![1] = x]
      BY <1>6 DEF StartRace
    <3> HIDE DEF x
    <3> QED
      BY <1>1, <2>1, <3>3, <3>4
  <2>3. /\ crossing' \in Seq(CrossingRecord) /\ Len(crossing') = Len(waypoints)
        /\ \A i \in 1 .. Len(waypoints) : crossing'[i].splits = crossing[i].splits
        /\ crossing'[1].armed
    <3> DEFINE c == [crossing[1] EXCEPT !.at = now + adj, !.armed = TRUE]
    <3>1. crossing[1] \in CrossingRecord
      BY <1>1, <2>1
    <3>2. c \in CrossingRecord /\ c.armed /\ c.splits = crossing[1].splits
      <4>1. now + adj \in Int
        BY <1>1, <2>1
      <4> QED
        BY <3>1, <4>1, ArmedFacts
    <3>3. crossing' = [crossing EXCEPT ![1] = c]
      BY <1>1, <1>6, <2>1 DEF StartRace
    <3> HIDE DEF c
    <3> QED
      BY <1>1, <2>1, <3>2, <3>3, ReplaceFacts
  <2>4. wp_last' = 0 /\ tap' \in TapRecord
    BY <1>1, <1>6 DEF StartRace, TapRecord
  <2>5. BestInv'
    BY <2>2, <2>3 DEF HistoryInv, BestInv
  <2>6. StartInv'
    BY <2>3, <2>4 DEF StartInv
  <2> QED
    BY <2>2, <2>3, <2>4, <2>5, <2>6 DEF HistoryInv
<1>7. ASSUME NEW adj \in -MaxTime .. 0, Measured(adj)
      PROVE  HistoryInv'
  <2> DEFINE n == wp_next + 1
             S == SplitTaken(adj)
             best == waypoints[n].split_best
  <2>1. adj \in Int /\ n \in 1 .. Len(waypoints) /\ TypeInv /\ TypeInv' /\ Parse
        /\ waypoints' = CrossedCourse(adj) /\ wp_next < Len(waypoints) /\ wp_last < Len(waypoints)
    BY <1>1, <1>7, TrackerAssumption DEF Measured, Inv
  <2>2. /\ crossing' \in Seq(CrossingRecord) /\ Len(crossing') = Len(waypoints)
        /\ \A i \in 1 .. Len(waypoints) : i # n => crossing'[i] = crossing[i]
        /\ crossing'[n].armed
        /\ crossing'[n].splits = crossing[n].splits \cup {S} /\ S \in Int
    BY <1>1, <1>7, <2>1, RecordValues
  <2>3. /\ \A i \in 1 .. Len(waypoints) : i # n => waypoints'[i] = waypoints[i]
        /\ waypoints'[n].split_best =
             IF S < (IF best = 0 THEN S ELSE best) THEN S ELSE IF best = 0 THEN S ELSE best
    BY <2>1, CrossedCourseValues
  <2>4. Len(waypoints') = Len(waypoints)
    BY <2>1, CrossedCourseFacts
  <2>5. best \in Int /\ crossing[n].splits \in SUBSET Int
    <3>1. waypoints[n] \in WaypointRecord /\ crossing[n] \in CrossingRecord
      <4> HIDE DEF n
      <4> QED
        BY <1>1, <2>1
    <3> HIDE DEF n
    <3> QED
      BY <3>1 DEF WaypointRecord, CrossingRecord
  <2>6. BestInv'
    <3> SUFFICES ASSUME NEW i \in 1 .. Len(waypoints)
                 PROVE  /\ crossing'[i].splits = {} => waypoints'[i].split_best = 0
                        /\ crossing'[i].splits # {} /\ 0 \notin crossing'[i].splits =>
                             /\ waypoints'[i].split_best \in crossing'[i].splits
                             /\ \A d \in crossing'[i].splits : waypoints'[i].split_best <= d
      BY <2>4 DEF BestInv
    <3>1. CASE i # n
      BY <2>2, <2>3, <3>1 DEF HistoryInv, BestInv
    <3>2. CASE i = n
      <4>1. /\ crossing[n].splits = {} => best = 0
            /\ crossing[n].splits # {} /\ 0 \notin crossing[n].splits =>
                 best \in crossing[n].splits /\ \A d \in crossing[n].splits : best <= d
        BY <2>1 DEF HistoryInv, BestInv
      <4> HIDE DEF n, S, best
      <4> QED
        BY <2>2, <2>3, <2>5, <3>2, <4>1
    <3> QED
      BY <3>1, <3>2
  <2>7. StartInv' /\ tap' \in TapRecord
    <3>1. CASE wp_next = 0 /\ wp_last' = 0 /\ UNCHANGED tap
      BY <1>1, <2>2, <3>1 DEF StartInv
    <3>2. CASE /\ next_state = ST_RACE /\ wp_last' = wp_next
               /\ tap' = [tap EXCEPT !.pending = @ /\ wp_next # 0]
      <4>1. tap' \in TapRecord /\ tap'.pending = (tap.pending /\ wp_next # 0)
        BY <1>1, <3>2 DEF TapRecord
      <4>2. tap.pending \/ crossing[1].armed
        BY <3>2 DEF HistoryInv, StartInv
      <4>3. CASE wp_next = 0
        BY <2>2, <3>2, <4>1, <4>3 DEF StartInv
      <4>4. CASE wp_next # 0
        <5>1. 1 \in 1 .. Len(waypoints) /\ 1 # n
          BY <1>1, <2>1, <4>4
        <5>2. crossing'[1] = crossing[1]
          BY <2>2, <5>1
        <5> QED
          BY <2>2, <3>2, <4>1, <4>2, <4>4, <5>2 DEF StartInv
      <4> QED
        BY <4>1, <4>3, <4>4
    <3> QED
      BY <1>7, <3>1, <3>2 DEF Measured
  <2> QED
    BY <2>2, <2>4, <2>6, <2>7 DEF HistoryInv
<1> QED
  BY <1>2, <1>3, <1>4, <1>5, <1>6, <1>7, CourseSteps

-----------------------------------------------------------------------------
\* A lemma for the theorems below: the history is true in every state.
LEMMA HistoryInvariant == Spec => []HistoryInv
<1>1. Init => HistoryInv
  <2> SUFFICES ASSUME Init
               PROVE  HistoryInv
    OBVIOUS
  <2>1. tap \in TapRecord
    BY DEF Init, TapRecord
  <2> QED
    BY <2>1 DEF Init, HistoryInv, StartInv, BestInv, ST_RESET, ST_RACE
<1>2. Inv /\ Inv' /\ HistoryInv /\ [Next]_vars => HistoryInv'
  BY HistoryStep
<1> QED
  BY <1>1, <1>2, CourseInvariant, PTL DEF Spec

\* The next split and the next lap are measured from crossings of this race,
\* except after a reset by the button, until gate 0 is crossed.
THEOREM SplitsHaveStarts == Spec => []SplitHasStart
<1>1. HistoryInv => SplitHasStart
  BY DEF HistoryInv, StartInv, SplitHasStart, InRace
<1> QED
  BY <1>1, HistoryInvariant, PTL

\* The best split shown against is the least one since the last reset, unless one of them
\* was 0, which checkSplit takes for none.
THEOREM BestsAreLeast == Spec => []BestIsLeast
<1>1. Inv /\ HistoryInv => BestIsLeast
  <2> SUFFICES ASSUME Inv, HistoryInv, NEW i \in DOMAIN crossing,
                      crossing[i].splits # {}, 0 \notin crossing[i].splits
               PROVE  waypoints[i].split_best = Min(crossing[i].splits)
    BY DEF BestIsLeast
  <2> DEFINE S == crossing[i].splits
             b == waypoints[i].split_best
  <2>1. i \in 1 .. Len(waypoints) /\ crossing[i] \in CrossingRecord
    BY DEF Inv, TypeInv, HistoryInv
  <2>2. S \in SUBSET Int
    BY <2>1 DEF CrossingRecord
  <2>3. b \in S /\ \A d \in S : b <= d
    BY <2>1 DEF HistoryInv, BestInv
  <2> HIDE DEF S, b
  <2>4. \A x \in S : (\A y \in S : x <= y) => x = b
    BY <2>2, <2>3
  <2>5. b = Min(S)
    BY <2>3, <2>4 DEF Min
  <2> QED
    BY <2>5 DEF S, b
<1> QED
  BY <1>1, CourseInvariant, HistoryInvariant, PTL

-----------------------------------------------------------------------------
\* The operators on lights return lights.
LEMMA ViewFacts ==
  ASSUME NEW v \in View, NEW c \in Color, NEW temp \in BOOLEAN
  PROVE  ViewSet(v, c, temp) \in View /\ ViewBlink(v, c, temp) \in View
<1>1. v.state \in Color /\ v.blink \in Color /\ OFF \in Color
  BY DEF View, Color
<1>2. ViewSet(v, c, temp) \in View
  <2> DEFINE n == CASE ~temp -> c
                    [] temp /\ v.blink # OFF -> OFF
                    [] OTHER -> v.state
  <2>1. n \in Color
    BY <1>1
  <2>2. ViewSet(v, c, temp) = [state |-> c, blink |-> OFF, next_state |-> n, timed |-> FALSE]
    BY DEF ViewSet
  <2> HIDE DEF n
  <2>3. [state |-> c, blink |-> OFF, next_state |-> n, timed |-> FALSE] \in View
    BY <1>1, <2>1, Zenon DEF View
  <2> QED
    BY <2>2, <2>3
<1>3. ViewBlink(v, c, temp) \in View
  <2>1. [state |-> c, blink |-> c, next_state |-> OFF, timed |-> temp] \in View
    BY <1>1, Zenon DEF View
  <2> QED
    BY <2>1 DEF ViewBlink
<1> QED
  BY <1>2, <1>3

\* ledUpdate keeps what a light blinks in, or ends a blink with a limit.
LEMMA UpdateFacts ==
  ASSUME NEW v \in View, NEW u \in ViewUpdates(v)
  PROVE  /\ u \in View
         /\ u.blink \in {v.blink, OFF}
         /\ ~v.timed => u.blink = v.blink /\ ~u.timed
<1>1. v.state \in Color /\ v.next_state \in Color /\ v.blink \in Color /\ v.timed \in BOOLEAN
  BY Zenon DEF View
<1>2. CASE u = v
  BY <1>2
<1>3. CASE v.blink = OFF /\ u = [v EXCEPT !.state = v.next_state]
  <2>1. u \in View /\ u.blink = v.blink /\ u.timed = v.timed
    BY <1>1, <1>3, Zenon DEF View
  <2> QED
    BY <2>1
<1>4. CASE u = ViewToggle(v)
  <2>1. u \in View /\ u.blink = v.blink /\ u.timed = v.timed
    BY <1>1, <1>4, Zenon DEF View, ViewToggle
  <2> QED
    BY <2>1
<1>5. CASE v.timed /\ u = Dark
  <2>1. u.blink = OFF
    BY <1>5 DEF Dark
  <2>2. u \in View
    <3>1. OFF \in Color
      BY DEF Color
    <3> QED
      BY <1>5, <3>1, Zenon DEF View, Dark
  <2> QED
    BY <1>5, <2>1, <2>2
<1> QED
  BY <1>2, <1>3, <1>4, <1>5 DEF ViewUpdates

LEMMA LightFacts ==
  ASSUME NEW ls \in Lights, NEW c \in Color, NEW b \in BOOLEAN
  PROVE  SetAll(ls, c, b) \in Lights /\ BlinkAll(ls, c, b) \in Lights
BY ViewFacts DEF Lights, SetAll, BlinkAll

LEMMA ColorFacts == OFF \in Color /\ RED \in Color /\ GREEN \in Color /\ YELLOW \in Color
BY DEF Color

LEMMA ShownFacts ==
  ASSUME NEW ls \in Lights, NEW w
  PROVE  StartLights(ls) \in Lights /\ ServiceLights(ls) \in Lights /\ Feedback(ls, w) \in Lights
<1>1. \A l \in Lights : YellowLights(l) \in Lights
  <2> SUFFICES ASSUME NEW l \in Lights
               PROVE  YellowLights(l) \in Lights
    OBVIOUS
  <2>1. /\ l["LAP"] \in View /\ l["SPLT"] \in View
    BY DEF Lights, LEDs
  <2>2. ViewSet(l["LAP"], YELLOW, FALSE) \in View /\ ViewSet(l["SPLT"], YELLOW, TRUE) \in View
    BY <2>1, ViewFacts, ColorFacts
  <2> QED
    BY <2>2 DEF YellowLights, Lights, LEDs
<1>2. /\ MarginLights(ls, w.split_margin < -Margin, w.split_margin > Margin) \in Lights
      /\ MarginLights(ls, w.speed_margin > 2, w.speed_margin < -2) \in Lights
  <2>1. SetAll(ls, OFF, FALSE) \in Lights
    BY LightFacts, ColorFacts
  <2>2. BlinkAll(SetAll(ls, OFF, FALSE), GREEN, TRUE) \in Lights
    BY <2>1, LightFacts, ColorFacts
  <2>3. BlinkAll(SetAll(ls, OFF, FALSE), RED, TRUE) \in Lights
    BY <2>1, LightFacts, ColorFacts
  <2> QED
    BY <2>1, <2>2, <2>3 DEF MarginLights
<1>3. StartLights(ls) \in Lights /\ ServiceLights(ls) \in Lights
  BY <1>1, LightFacts, ColorFacts DEF StartLights, ServiceLights
<1>4. Feedback(ls, w) \in Lights
  <2>1. \A m : MarginColor(m) \in Color
    BY ColorFacts DEF MarginColor
  <2>2. /\ ls["LAP"] \in View /\ ls["SPLT"] \in View
    BY DEF Lights, LEDs
  <2>3. /\ ViewSet(ls["SPLT"], MarginColor(w.split_margin), TRUE) \in View
        /\ ViewSet(ls["LAP"], MarginColor(w.lap_margin), FALSE) \in View
    BY <2>1, <2>2, ViewFacts
  <2>4. [ls EXCEPT !["SPLT"] = ViewSet(@, MarginColor(w.split_margin), TRUE),
                   !["LAP"]  = ViewSet(@, MarginColor(w.lap_margin), FALSE)] \in Lights
    BY <2>3 DEF Lights, LEDs
  <2> QED
    BY <1>2, <2>4 DEF Feedback
<1> QED
  BY <1>3, <1>4

\* Every step keeps the lights in the colours of the state.
LEMMA LightStep ==
  ASSUME Inv, LightInv, [Next]_vars
  PROVE  LightInv'
<1>1. leds \in Lights
  BY DEF LightInv
<1>2. CASE UNCHANGED <<leds, next_state, carry>>
  BY <1>2 DEF LightInv
<1>3. CASE BootRelease \/ SwitchWpset
  <2>1. next_state' = ST_WPSET
    BY <1>3 DEF BootRelease, SwitchWpset, Inv, ControlInv, machine
  <2>2. leds' \in Lights
    BY <1>1, <1>3, LightFacts, ColorFacts DEF BootRelease, SwitchWpset
  <2> QED
    BY <2>1, <2>2 DEF LightInv, ST_RESET, ST_INIT, ST_WPSET
<1>4. CASE SwitchReset
  <2> DEFINE leaves == fixquality = 2 \/ (fixquality = 1 /\ pbFlag = 1)
             shown  == CASE fixquality = 0 -> BlinkAll(leds, RED, FALSE)
                         [] fixquality = 1 -> BlinkAll(leds, YELLOW, FALSE)
                         [] OTHER -> leds
  <2>1. /\ next_state = ST_RESET
        /\ leds' = IF leaves THEN BlinkAll(shown, GREEN, FALSE) ELSE shown
        /\ next_state' = IF leaves THEN ST_INIT ELSE next_state
    BY <1>4 DEF SwitchReset, Inv, ControlInv
  <2>2. shown \in Lights
    BY <1>1, LightFacts, ColorFacts
  <2>3. \A i \in LEDs : shown[i].blink # GREEN
    <3>1. \A i \in LEDs : leds[i].blink # GREEN
      BY <2>1 DEF LightInv
    <3>2. \A c \in {RED, YELLOW} : \A i \in LEDs : BlinkAll(leds, c, FALSE)[i].blink # GREEN
      BY <3>1 DEF BlinkAll, ViewBlink, RED, YELLOW, GREEN
    <3> QED
      BY <3>1, <3>2
  <2> HIDE DEF leaves, shown
  <2>4. CASE leaves
    <3>1. leds' = BlinkAll(shown, GREEN, FALSE) /\ leds' \in Lights
      BY <2>1, <2>2, <2>4, LightFacts, ColorFacts
    <3>2. \A i \in LEDs : leds'[i] = [state |-> GREEN, blink |-> GREEN,
                                      next_state |-> OFF, timed |-> FALSE]
      BY <2>3, <3>1 DEF BlinkAll, ViewBlink
    <3>3. \A i \in LEDs : leds'[i].blink = GREEN /\ ~leds'[i].timed
      BY <3>2
    <3>4. next_state' # ST_RESET
      BY <2>1, <2>4 DEF ST_RESET, ST_INIT
    <3> QED
      BY <3>1, <3>3, <3>4, Zenon DEF LightInv
  <2>5. CASE ~leaves
    BY <2>1, <2>2, <2>3, <2>5 DEF LightInv, ST_RESET, ST_INIT
  <2> QED
    BY <2>4, <2>5
<1>5. ASSUME NEW adj \in -MaxTime .. 0, StartRace(adj) \/ FinishService(adj) \/ CrossGate(adj)
      PROVE  LightInv'
  <2>1. next_state' = ST_RACE
    BY <1>5 DEF StartRace, FinishService, CrossGate, Racing
  <2>2. leds' \in Lights
    BY <1>1, <1>5, ShownFacts DEF StartRace, FinishService, CrossGate
  <2> QED
    BY <2>1, <2>2 DEF LightInv, ST_RESET, ST_INIT, ST_RACE
<1>6. CASE EndRace
  <2>1. /\ leds' = BlinkAll(leds, GREEN, FALSE) /\ next_state' = ST_INIT
        /\ carry' = (\E i \in LEDs : leds[i].blink = GREEN /\ leds[i].timed)
    BY <1>6 DEF EndRace
  <2>2. leds' \in Lights
    BY <1>1, <2>1, LightFacts, ColorFacts
  <2>3. ~carry' => \A i \in LEDs : leds'[i].blink = GREEN /\ ~leds'[i].timed
    BY <2>1 DEF BlinkAll, ViewBlink
  <2>4. next_state' # ST_RESET
    BY <2>1 DEF ST_RESET, ST_INIT
  <2> QED
    BY <2>2, <2>3, <2>4, Zenon DEF LightInv
<1>7. CASE LedUpdate
  <2>1. leds' \in Lights /\ \A i \in LEDs : leds[i] \in View /\ leds'[i] \in ViewUpdates(leds[i])
    <3>1. /\ \A i \in LEDs : leds'[i] \in ViewUpdates(leds[i])
          /\ DOMAIN leds' = LEDs /\ leds' = [i \in LEDs |-> leds'[i]]
      BY <1>7 DEF LedUpdate
    <3>2. \A i \in LEDs : leds[i] \in View
      BY <1>1 DEF Lights
    <3>3. \A i \in LEDs : leds'[i] \in View
      BY <3>1, <3>2, UpdateFacts
    <3> QED
      BY <3>1, <3>2, <3>3 DEF Lights
  <2>2. /\ \A i \in LEDs : leds'[i].blink \in {leds[i].blink, OFF}
        /\ \A i \in LEDs : ~leds[i].timed =>
             leds'[i].blink = leds[i].blink /\ ~leds'[i].timed
    BY <2>1, UpdateFacts
  <2>3. UNCHANGED <<next_state, carry>>
    BY <1>7 DEF LedUpdate, ghosts
  <2> QED
    BY <2>1, <2>2, <2>3 DEF LightInv, OFF, GREEN
<1>8. CASE \/ Press \/ Release \/ BootWait \/ ReadNothing \/ BootService \/ SwitchInit
           \/ ClearPress \/ SwitchRace \/ HoldCheck \/ NoNewNMEA \/ ParseFails
           \/ Undefined \/ UNCHANGED vars
           \/ \E g \in Gaps, l \in Lines : ReadLine(g, l)
           \/ NoFix \/ TrackOnly \/ NotCrossed \/ EmptyCourse \/ Moving \/ Slow
  <2>1. UNCHANGED <<leds, next_state, carry>>
    BY <1>8
    DEF Press, Release, BootWait, ReadNothing, BootService, SwitchInit, ClearPress,
        SwitchRace, HoldCheck, NoNewNMEA, ParseFails, Undefined, ReadLine, vars,
        NoFix, TrackOnly, NotCrossed, EmptyCourse, Moving, Slow, Racing, machine, ghosts
  <2> QED
    BY <1>2, <2>1
<1> QED
  BY <1>3, <1>4, <1>5, <1>6, <1>7, <1>8 DEF Next, LoopStep, Switch, Handler

LEMMA LightInvariant == Spec => []LightInv
<1>1. Init => LightInv
  <2> SUFFICES ASSUME Init
               PROVE  LightInv
    OBVIOUS
  <2>1. Dark \in View
    BY ColorFacts, Zenon DEF View, Dark
  <2>2. Dark.blink # GREEN
    BY DEF Dark, OFF, GREEN
  <2> QED
    BY <2>1, <2>2 DEF Init, LightInv, Lights, ST_RESET, ST_INIT
<1>2. Inv /\ LightInv /\ [Next]_vars => LightInv'
  BY LightStep
<1> QED
  BY <1>1, <1>2, CourseInvariant, PTL DEF Spec

\* Waiting for the start, the lights blink green for as long as it takes, except after a race
\* that ended while the green feedback was still blinking: they go dark with the feedback.
THEOREM ReadyLightsAreGreen == Spec => []ReadyIsGreen
<1>1. LightInv => ReadyIsGreen
  BY DEF LightInv, ReadyIsGreen
<1> QED
  BY <1>1, LightInvariant, PTL

-----------------------------------------------------------------------------
\* Every step keeps what is known of a tap.
LEMMA HoldStep ==
  ASSUME Inv, HoldInv, [Next]_vars
  PROVE  HoldInv'
<1>1. /\ now \in Nat /\ tap \in TapRecord /\ tap.since \in Nat /\ pbTimer \in Int
      /\ next_state \in {ST_RESET, ST_INIT, ST_WPSET, ST_RACE}
      /\ pc \notin {"nmea", "update", "undefined"} => current_state = next_state
  BY DEF Inv, TypeInv, ControlInv, HoldInv, TapRecord
<1>2. CASE Press
  <2> DEFINE h == now - last_interrupt_time > Debounce
  <2>1. h \in BOOLEAN /\ tap' = [tap EXCEPT !.since = now, !.heard = h]
    BY <1>2 DEF Press
  <2>2. pbFlag' \in {0, 1} /\ (h => pbFlag' = 1)
    BY <1>2 DEF Press, HoldInv
  <2>3. UNCHANGED <<now, pc, resetFlag, pbTimer, next_state>>
    BY <1>2 DEF Press, machine
  <2> HIDE DEF h
  <2>4. tap' \in TapRecord /\ tap'.since = now /\ tap'.heard = h
    <3>1. \A n \in Nat : \A b \in BOOLEAN :
            /\ [tap EXCEPT !.since = n, !.heard = b] \in TapRecord
            /\ [tap EXCEPT !.since = n, !.heard = b].since = n
            /\ [tap EXCEPT !.since = n, !.heard = b].heard = b
      BY <1>1, Zenon DEF TapRecord
    <3> QED
      BY <1>1, <2>1, <3>1, Zenon
  <2>5. pbFlag' = 0 => ~tap'.heard
    BY <2>2, <2>4
  <2> QED
    BY <1>1, <2>2, <2>3, <2>4, <2>5 DEF HoldInv
<1>3. CASE BootRelease
  <2>1. /\ pin' = "high" /\ pbFlag' = 0 /\ next_state' = ST_WPSET /\ pc' = "nmea"
        /\ UNCHANGED <<now, resetFlag, pbTimer, tap>> /\ resetFlag = 0
    BY <1>3 DEF BootRelease, ghosts, HoldInv, Inv, ControlInv
  <2> QED
    BY <2>1 DEF HoldInv
<1>4. CASE SwitchReset
  <2>1. /\ next_state = ST_RESET /\ next_state' \in {ST_RESET, ST_INIT} /\ resetFlag = 0
        /\ pbFlag' \in {0, 1} /\ pc' = "nmea"
        /\ UNCHANGED <<now, pin, resetFlag, pbTimer, tap>>
    BY <1>4 DEF SwitchReset, HoldInv, Inv, ControlInv
  <2> QED
    BY <2>1 DEF HoldInv
<1>5. CASE SwitchWpset
  <2>1. /\ next_state' = ST_WPSET /\ pc' \in {"nmea", "clear"}
        /\ UNCHANGED <<now, pin, pbFlag, resetFlag, pbTimer, next_state, tap>>
    BY <1>1, <1>5 DEF SwitchWpset, machine, button
  <2> QED
    BY <2>1 DEF HoldInv
<1>6. CASE ClearPress
  <2>1. /\ next_state = ST_WPSET /\ pbFlag' = 0 /\ pc' = "nmea"
        /\ UNCHANGED <<now, pin, resetFlag, pbTimer, next_state, tap>> /\ resetFlag = 0
    BY <1>6 DEF ClearPress, machine, ghosts, HoldInv
  <2> QED
    BY <2>1 DEF HoldInv
<1>7. CASE SwitchRace
  <2>1. /\ pc' = "hold" /\ next_state = ST_RACE
        /\ UNCHANGED <<now, pin, next_state, tap>>
    BY <1>1, <1>7 DEF SwitchRace, ghosts
  <2>2. \/ pbFlag = 1 /\ resetFlag' = 1 /\ pbFlag' = 0 /\ pbTimer' = now
        \/ pbTimer' \in {now, pbTimer} /\ UNCHANGED <<resetFlag, pbFlag>>
           /\ (pbTimer' # pbTimer => pbTimer' = now)
    BY <1>7 DEF SwitchRace
  <2> QED
    BY <1>1, <2>1, <2>2 DEF HoldInv, ST_RESET, ST_WPSET, ST_RACE
<1>8. CASE HoldCheck
  <2>1. /\ pc' = "nmea" /\ resetFlag' \in {0, resetFlag}
        /\ tap' \in {tap, [tap EXCEPT !.pending = TRUE]}
        /\ UNCHANGED <<now, pin, pbFlag, pbTimer, next_state>>
    BY <1>8 DEF HoldCheck, button
  <2>2. tap' \in TapRecord /\ tap'.since = tap.since /\ tap'.heard = tap.heard
    BY <1>1, <2>1, Zenon DEF TapRecord
  <2> QED
    BY <2>1, <2>2 DEF HoldInv
<1>9. ASSUME NEW adj \in -MaxTime .. 0, StartRace(adj) \/ FinishService(adj) \/ CrossGate(adj)
      PROVE  HoldInv'
  <2>1. /\ next_state' = ST_RACE /\ pc' = "update"
        /\ UNCHANGED <<now, pin, pbFlag, resetFlag, pbTimer>>
    BY <1>9 DEF StartRace, FinishService, CrossGate, Racing, Parse, button
  <2>2. tap' \in TapRecord /\ tap'.since = tap.since /\ tap'.heard = tap.heard
    <3>1. \A b \in BOOLEAN : /\ [tap EXCEPT !.pending = b] \in TapRecord
                             /\ [tap EXCEPT !.pending = b].since = tap.since
                             /\ [tap EXCEPT !.pending = b].heard = tap.heard
      BY <1>1, Zenon DEF TapRecord
    <3>2. (tap.pending /\ wp_next # 0) \in BOOLEAN
      OBVIOUS
    <3> QED
      BY <1>1, <1>9, <3>1, <3>2 DEF StartRace, FinishService, CrossGate
  <2> QED
    BY <2>1, <2>2 DEF HoldInv, ST_RESET, ST_WPSET, ST_RACE
<1>10. CASE EndRace
  <2>1. /\ next_state' = ST_INIT /\ pc' = "update"
        /\ UNCHANGED <<now, pin, pbFlag, resetFlag, pbTimer, tap>>
    BY <1>10 DEF EndRace, Racing, Parse, button
  <2> QED
    BY <2>1 DEF HoldInv, ST_RESET, ST_INIT, ST_WPSET
<1>11. CASE Release
  BY <1>11 DEF Release, machine, ghosts, HoldInv
<1>12. CASE \/ BootWait \/ \E g \in Gaps, l \in Lines : ReadLine(g, l)
  <2>1. /\ now' \in Nat /\ now' >= now /\ pc' # "clear"
        /\ UNCHANGED <<pin, pbFlag, resetFlag, pbTimer, next_state, tap>>
    BY <1>1, <1>12, TrackerAssumption DEF BootWait, ReadLine, machine, button, ghosts
  <2> QED
    BY <1>1, <2>1 DEF HoldInv
<1>13. CASE \/ ReadNothing \/ BootService \/ SwitchInit \/ NoNewNMEA \/ ParseFails \/ LedUpdate
            \/ Undefined \/ UNCHANGED vars
            \/ NoFix \/ TrackOnly \/ NotCrossed \/ EmptyCourse \/ Moving \/ Slow
  <2>1. UNCHANGED <<now, pin, pbFlag, resetFlag, pbTimer, next_state, tap>>
    BY <1>13
    DEF ReadNothing, BootService, SwitchInit, NoNewNMEA, ParseFails, LedUpdate, Undefined,
        vars, NoFix, TrackOnly, NotCrossed, EmptyCourse, Moving, Slow, Racing, Parse,
        machine, button, ghosts
  <2>2. pc' = "clear" => pc = "clear"
    BY <1>13
    DEF ReadNothing, BootService, SwitchInit, NoNewNMEA, ParseFails, LedUpdate, Undefined,
        vars, NoFix, TrackOnly, NotCrossed, EmptyCourse, Moving, Slow, Racing
  <2> QED
    BY <2>1, <2>2 DEF HoldInv
<1> QED
  BY <1>2, <1>3, <1>4, <1>5, <1>6, <1>7, <1>8, <1>9, <1>10, <1>11, <1>12, <1>13
  DEF Next, LoopStep, Switch, Handler

LEMMA HoldInvariant == Spec => []HoldInv
<1>1. Init => HoldInv
  BY DEF Init, HoldInv, TapRecord, ST_RESET, ST_WPSET
<1>2. Inv /\ HoldInv /\ [Next]_vars => HoldInv'
  BY HoldStep
<1> QED
  BY <1>1, <1>2, CourseInvariant, PTL DEF Spec

\* In a race, the step that resets the times needs the button held for HoldTime, unless the
\* edge fell between the two tests of the pass, or was taken for a bounce, while resetFlag was
\* left over from an earlier tap.
THEOREM ResetsNeedHold == Spec => ResetNeedsHold
<1>1. Inv /\ HoldInv /\ [Next]_vars => [ResetNeedsHoldStep]_vars
  <2> SUFFICES ASSUME Inv, HoldInv, [Next]_vars, resetFlag = 1, resetFlag' = 0
               PROVE  now - tap.since > HoldTime \/ pbFlag = 1 \/ ~tap.heard
    BY DEF ResetNeedsHoldStep
  <2>1. HoldCheck
    <3>1. CASE SwitchRace
      BY <3>1 DEF SwitchRace
    <3>2. CASE ~SwitchRace /\ ~HoldCheck
      BY <3>2
      DEF Next, LoopStep, Switch, Handler, Press, Release, BootWait, ReadNothing, ReadLine,
          BootService, BootRelease, SwitchReset, SwitchInit, SwitchWpset, ClearPress,
          NoNewNMEA, ParseFails, NoFix, TrackOnly, NotCrossed, EmptyCourse, Moving, Slow,
          EndRace, StartRace, FinishService, CrossGate, Racing, Parse, LedUpdate,
          Undefined, vars, machine
    <3> QED
      BY <3>1, <3>2
  <2>2. pin = "low" /\ now - pbTimer > HoldTime
    BY <2>1 DEF HoldCheck
  <2>3. pbFlag = 0 /\ tap.heard => tap.since <= pbTimer
    BY <2>2 DEF HoldInv
  <2>4. /\ now \in Int /\ pbTimer \in Int /\ tap.since \in Int /\ HoldTime \in Int
        /\ pbFlag \in {0, 1}
    BY TrackerAssumption DEF Inv, TypeInv, HoldInv, TapRecord
  <2> QED
    BY <2>2, <2>3, <2>4
<1> QED
  BY <1>1, CourseInvariant, HoldInvariant, PTL DEF Spec, ResetNeedsHold

-----------------------------------------------------------------------------
\* The second light turns green only on a margin below the tolerance.
LEMMA GreenFeedback ==
  ASSUME NEW ls \in Lights, NEW w, w.split_margin \in Int, Sketch # "Single_Speed",
         Feedback(ls, w)["SPLT"].state = GREEN
  PROVE  IF Sketch = "Single_Split" THEN w.split_margin < -Margin ELSE w.split_margin < 0
<1>1. "SPLT" \in LEDs /\ OFF # GREEN /\ RED # GREEN /\ YELLOW # GREEN
  BY DEF LEDs, OFF, RED, GREEN, YELLOW
<1>2. CASE Sketch = "Single_Split"
  <2> DEFINE better == w.split_margin < -Margin
             worse  == w.split_margin > Margin
             dark   == SetAll(ls, OFF, FALSE)
  <2>1. Feedback(ls, w) = CASE better -> BlinkAll(dark, GREEN, TRUE)
                            [] ~better /\ worse -> BlinkAll(dark, RED, TRUE)
                            [] OTHER -> dark
    BY <1>2 DEF Feedback, MarginLights
  <2>2. dark["SPLT"].state = OFF /\ dark["SPLT"].blink = OFF
    BY <1>1 DEF SetAll, ViewSet
  <2>3. BlinkAll(dark, RED, TRUE)["SPLT"].state = RED
    <3> HIDE DEF dark
    <3> QED
      BY <1>1, <2>2 DEF BlinkAll, ViewBlink, OFF, RED
  <2> HIDE DEF dark
  <2>4. better
    BY <1>1, <2>1, <2>2, <2>3
  <2> QED
    BY <1>2, <2>4
<1>3. CASE Sketch # "Single_Split"
  <2>1. Feedback(ls, w)["SPLT"] = ViewSet(ls["SPLT"], MarginColor(w.split_margin), TRUE)
    <3>1. Feedback(ls, w) =
            [ls EXCEPT !["SPLT"] = ViewSet(@, MarginColor(w.split_margin), TRUE),
                       !["LAP"]  = ViewSet(@, MarginColor(w.lap_margin), FALSE)]
      BY <1>3 DEF Feedback
    <3> QED
      BY <1>1, <3>1 DEF Lights
  <2>2. MarginColor(w.split_margin) = GREEN
    BY <2>1 DEF ViewSet
  <2>3. w.split_margin < 0
    BY <1>1, <2>2 DEF MarginColor
  <2> QED
    BY <1>3, <2>3
<1> QED
  BY <1>2, <1>3

\* A green light after a crossing of an armed gate means a split better than all before it,
\* unless one of them was 0; in the sketches that compare splits.
THEOREM GreenTellsTheTruth == Spec => GreenIsBest
<1>1. Inv /\ Inv' /\ HistoryInv /\ LightInv /\ [Next]_vars => [GreenIsBestStep]_vars
  <2> DEFINE n == wp_next + 1
             old == crossing[n].splits
             tolerance == IF Sketch = "Single_Split" THEN Margin ELSE 0
  <2> SUFFICES ASSUME Inv, Inv', HistoryInv, LightInv, [Next]_vars,
                      Sketch # "Single_Speed", InRace,
                      crossing' # crossing, crossing'[n].armed,
                      leds'["SPLT"].state = GREEN, 0 \notin old,
                      NEW d \in old
               PROVE  crossing'[n].splits # old /\ waypoints'[n].split_best + tolerance < d
    BY DEF GreenIsBestStep
  <2>1. /\ next_state = ST_RACE /\ wp_next \in Nat /\ n \in 1 .. Len(waypoints)
        /\ waypoints \in Seq(WaypointRecord) /\ crossing \in Seq(CrossingRecord)
        /\ Len(crossing) = Len(waypoints)
    <3>1. wp_last < Len(waypoints) /\ wp_next = Following(wp_last) /\ wp_last \in Nat
          /\ waypoints \in Seq(WaypointRecord)
      BY DEF InRace, Inv, TypeInv, CourseInv
    <3> QED
      BY <3>1, FollowingInRange DEF InRace, HistoryInv
  <2>2. PICK adj \in -MaxTime .. 0 : Measured(adj)
    <3>1. ~Wiped
      BY <2>1, WipedValues DEF Wiped, Inv
    <3>2. ~Calm /\ ~Loaded /\ ~Grown
      BY <2>1 DEF Calm, Loaded, Grown, ST_RESET, ST_WPSET, ST_RACE
    <3>3. \A adj \in -MaxTime .. 0 : ~StartRace(adj)
      BY <2>1 DEF StartRace, ST_INIT, ST_RACE
    <3> QED
      BY <3>1, <3>2, <3>3, CourseSteps
  <2> DEFINE S == SplitTaken(adj)
             best == waypoints[n].split_best
             base == IF best = 0 THEN S ELSE best
  <2>3. /\ adj \in Int /\ TypeInv /\ Parse /\ waypoints' = CrossedCourse(adj)
        /\ wp_next < Len(waypoints) /\ wp_last < Len(waypoints)
        /\ leds' = Feedback(leds, waypoints'[n])
    BY <2>1, <2>2, TrackerAssumption DEF Measured, Inv, ST_WPSET, ST_RACE
  <2>4. /\ waypoints'[n].split_best = IF S < base THEN S ELSE base
        /\ waypoints'[n].split_margin = S - base
    BY <2>3, CrossedCourseValues
  <2>5. crossing'[n].splits = old \cup {S} /\ S \in Int
    BY <2>1, <2>2, <2>3, RecordValues
  <2>6. best \in old /\ best <= d /\ best # 0
    BY <2>1 DEF HistoryInv, BestInv
  <2>7. old \in SUBSET Int /\ Margin \in Nat
    <3>1. crossing[n] \in CrossingRecord
      <4> HIDE DEF n
      <4> QED
        BY <2>1
    <3> HIDE DEF n
    <3> QED
      BY <3>1, TrackerAssumption DEF CrossingRecord
  <2> HIDE DEF n, S, old
  <2>8. best \in Int /\ d \in Int
    BY <2>6, <2>7
  <2>9. IF Sketch = "Single_Split" THEN waypoints'[n].split_margin < -Margin
                                   ELSE waypoints'[n].split_margin < 0
    <3>1. waypoints'[n].split_margin \in Int
      BY <2>4, <2>5, <2>8
    <3>2. leds \in Lights
      BY DEF LightInv
    <3> QED
      BY <2>3, <3>1, <3>2, GreenFeedback
  <2>10. S + tolerance < best
    BY <2>4, <2>5, <2>6, <2>7, <2>8, <2>9
  <2>11. waypoints'[n].split_best = S /\ S + tolerance < d
    BY <2>4, <2>5, <2>6, <2>7, <2>8, <2>10
  <2>12. S \notin old
    <3>1. \A e \in old : best <= e
      BY <2>1, <2>6 DEF HistoryInv, BestInv, n, old
    <3> QED
      BY <2>5, <2>7, <2>8, <2>10, <3>1
  <2> QED
    BY <2>5, <2>11, <2>12
<1> QED
  BY <1>1, CourseInvariant, HistoryInvariant, LightInvariant, PTL DEF Spec, GreenIsBest

-----------------------------------------------------------------------------
(***************************************************************************)
(* How far the recorded times may be off.  Undisturbed(G) says that every  *)
(* line parses and has a fix, and that no two lines are further apart than *)
(* G: a line lost between two points of the track widens the bound.        *)
(***************************************************************************)
Undisturbed(G) == ~Noise /\ Fixes \subseteq {TRUE} /\ \A g \in Gaps : g <= G
Steady(G) == Undisturbed(G) /\ \A g \in Gaps : g = G

\* Two points of the track are one line apart, and the last one is of the last
\* line that loop() has handled.
AgeInv(G) ==
  /\ bootFlag = 0 => tracks = << >> /\ pc \in {"read", "switch", "boot"}
  /\ line # NoLine => pc \notin {"read", "update", "undefined"}
  /\ line # BadLine /\ (line.type = "RMC" => line.fix = TRUE)
  /\ fix = TRUE \/ tracks = << >>
  /\ Len(tracks) <= 3
  /\ \A k \in 1 .. Len(tracks) - 1 :
       tracks[k].t <= tracks[k + 1].t /\ tracks[k + 1].t <= tracks[k].t + G
  /\ pc # "undefined" /\ tracks # << >> =>
       /\ tracks[Len(tracks)].t <= now
       /\ now <= tracks[Len(tracks)].t + (IF line = NoLine THEN 0 ELSE G)

\* Every adjustment dates a crossing back by two lines at the most, and every
\* recorded time is off by no more; with one waypoint it is exact.
BoundInv(G) ==
  \A i \in 1 .. Len(waypoints) :
    /\ -(2 * G) <= waypoints[i].adjustment /\ waypoints[i].adjustment <= 0
    /\ crossing[i].armed =>
         /\ -(2 * G) <= waypoints[i].last - crossing[i].at
         /\ waypoints[i].last - crossing[i].at <= 2 * G
         /\ Len(waypoints) = 1 => waypoints[i].last = crossing[i].at

\* With all lines G apart: the waypoint that the next split starts from was
\* crossed before the first point of the track, a line earlier in a race.
EarlierInv(G) ==
  /\ bootFlag = 0 => waypoints = << >>
  /\ line # NoLine => G <= now
  /\ tracks # << >> => G <= tracks[1].t
  /\ line # NoLine /\ tracks # << >> => tracks[Len(tracks)].t + G <= now
  /\ next_state = ST_WPSET /\ waypoints # << >> =>
       /\ waypoints[1].last <= now
       /\ tracks # << >> => waypoints[1].last <= tracks[1].t
  /\ next_state = ST_RACE =>
       /\ waypoints[wp_last + 1].last <= now
       /\ line # NoLine /\ tracks = << >> => waypoints[wp_last + 1].last + G <= now
       /\ tracks # << >> => waypoints[wp_last + 1].last + G <= tracks[1].t
  /\ \A i \in 1 .. Len(waypoints) : \A d \in crossing[i].splits : d >= 0

\* The numbers up to three, one by one.
LEMMA UpToThree ==
  ASSUME NEW n \in Nat, n <= 3
  PROVE  n = 0 \/ n = 1 \/ n = 2 \/ n = 3
OBVIOUS

\* The track with a new point: one point longer, or of three points still.
LEMMA PushTrackCases ==
  ASSUME NEW tr \in Seq(TrackPoint), NEW p \in TrackPoint
  PROVE  LET new == PushTrack(tr, p)
         IN  /\ Len(tr) < 3 =>
                  /\ new \in Seq(TrackPoint) /\ Len(new) = Len(tr) + 1
                  /\ new[Len(tr) + 1] = p /\ \A k \in 1 .. Len(tr) : new[k] = tr[k]
             /\ Len(tr) = 3 =>
                  /\ new \in Seq(TrackPoint) /\ Len(new) = 3
                  /\ new[1] = tr[2] /\ new[2] = tr[3] /\ new[3] = p
<1> DEFINE longer == Append(tr, p)
<1>1. /\ longer \in Seq(TrackPoint) /\ Len(longer) = Len(tr) + 1 /\ Len(tr) \in Nat
      /\ longer[Len(tr) + 1] = p /\ \A k \in 1 .. Len(tr) : longer[k] = tr[k]
  OBVIOUS
<1>2. PushTrack(tr, p) = IF Len(longer) >= 4 THEN Tail(longer) ELSE longer
  BY DEF PushTrack, max_tracksize
<1> HIDE DEF longer
<1>3. ASSUME Len(tr) < 3
      PROVE  PushTrack(tr, p) = longer
  BY <1>1, <1>2, <1>3
<1>4. ASSUME Len(tr) = 3
      PROVE  /\ PushTrack(tr, p) \in Seq(TrackPoint) /\ Len(PushTrack(tr, p)) = 3
             /\ PushTrack(tr, p)[1] = tr[2] /\ PushTrack(tr, p)[2] = tr[3]
             /\ PushTrack(tr, p)[3] = p
  <2>1. PushTrack(tr, p) = Tail(longer) /\ Len(longer) = 4 /\ longer # << >>
    BY <1>1, <1>2, <1>4
  <2>2. /\ Tail(longer) \in Seq(TrackPoint) /\ Len(Tail(longer)) = Len(longer) - 1
        /\ \A i \in 1 .. Len(Tail(longer)) : Tail(longer)[i] = longer[i + 1]
    BY <1>1, <2>1, HeadTailProperties
  <2>3. longer[2] = tr[2] /\ longer[3] = tr[3] /\ longer[4] = p
    BY <1>1, <1>4
  <2> DEFINE new == Tail(longer)
  <2>4. Len(new) = 3 /\ \A i \in 1 .. Len(new) : new[i] = longer[i + 1]
    BY <2>1, <2>2
  <2> HIDE DEF new
  <2>5. new[1] = longer[2] /\ new[2] = longer[3] /\ new[3] = longer[4]
    BY <2>4
  <2> QED
    BY <2>1, <2>2, <2>3, <2>4, <2>5 DEF new
<1> QED
  BY <1>1, <1>3, <1>4

\* The point that a line adds is of now, and the track stays close together.
LEMMA NewTrackAges ==
  ASSUME Inv, NEW G \in Nat, AgeInv(G), Parse
  PROVE  /\ NewTrack \in Seq(TrackPoint) /\ Len(NewTrack) \in 1 .. 3
         /\ NewTrack[Len(NewTrack)].t = now /\ NewTrack[1].t \in Int
         /\ NewTrack[1].t <= now /\ now <= NewTrack[1].t + 2 * G
         /\ \A k \in 1 .. Len(NewTrack) - 1 :
              NewTrack[k].t <= NewTrack[k + 1].t /\ NewTrack[k + 1].t <= NewTrack[k].t + G
         /\ tracks = << >> => Len(NewTrack) = 1
         /\ tracks # << >> => tracks[1].t <= NewTrack[1].t
<1> DEFINE p == [t |-> now, v |-> speed']
           new == NewTrack
           n == Len(tracks)
<1>1. now \in Int /\ tracks \in Seq(TrackPoint) /\ n \in Nat /\ n <= 3
  BY DEF Inv, TypeInv, AgeInv
<1>2. p \in TrackPoint /\ p.t = now
  BY NewTrackFacts DEF Inv, TypeInv, TrackPoint
<1>3. \A k \in 1 .. n - 1 :
        tracks[k].t <= tracks[k + 1].t /\ tracks[k + 1].t <= tracks[k].t + G
  BY DEF AgeInv
<1>4. tracks # << >> => tracks[n].t <= now /\ now <= tracks[n].t + G
  BY <1>1 DEF AgeInv, Parse, NoLine
<1>5. \A k \in 1 .. n : tracks[k].t \in Int
  <2>1. \A q \in TrackPoint : q.t \in Int
    BY DEF TrackPoint
  <2>2. \A k \in 1 .. n : tracks[k] \in TrackPoint
    BY <1>1
  <2> QED
    BY <2>1, <2>2
<1>6. new = PushTrack(tracks, p)
  BY DEF NewTrack
<1>7. n = 0 <=> tracks = << >>
  BY <1>1
<1>8. /\ n < 3 => /\ new \in Seq(TrackPoint) /\ Len(new) = n + 1 /\ new[n + 1] = p
                  /\ \A k \in 1 .. n : new[k] = tracks[k]
      /\ n = 3 => /\ new \in Seq(TrackPoint) /\ Len(new) = 3
                  /\ new[1] = tracks[2] /\ new[2] = tracks[3] /\ new[3] = p
  <2> HIDE DEF p
  <2> QED
    BY <1>1, <1>2, <1>6, PushTrackCases
<1> DEFINE m == Len(new)
           Close(k) == new[k].t <= new[k + 1].t /\ new[k + 1].t <= new[k].t + G
           Goal == /\ new \in Seq(TrackPoint) /\ m \in 1 .. 3
                   /\ new[m].t = now /\ new[1].t \in Int
                   /\ new[1].t <= now /\ now <= new[1].t + 2 * G
                   /\ \A k \in 1 .. m - 1 : Close(k)
                   /\ tracks = << >> => m = 1
                   /\ tracks # << >> => tracks[1].t <= new[1].t
<1> SUFFICES Goal
  OBVIOUS
<1> HIDE DEF p, new, n
<1>9. CASE n = 0
  <2>1. m = 1 /\ new[1] = p /\ new \in Seq(TrackPoint)
    BY <1>8, <1>9
  <2> HIDE DEF m
  <2> QED
    BY <1>1, <1>2, <1>7, <1>9, <2>1
<1>10. CASE n = 1
  <2>1. m = 2 /\ new[1] = tracks[1] /\ new[2] = p /\ new \in Seq(TrackPoint)
    BY <1>8, <1>10
  <2> HIDE DEF m
  <2>2. tracks[1].t \in Int /\ tracks[1].t <= now /\ now <= tracks[1].t + G
    BY <1>4, <1>5, <1>7, <1>10
  <2>3. Close(1)
    BY <1>2, <2>1, <2>2
  <2> HIDE DEF Close
  <2> QED
    BY <1>1, <1>2, <1>7, <1>10, <2>1, <2>2, <2>3
<1>11. CASE n = 2
  <2>1. /\ m = 3 /\ new[1] = tracks[1] /\ new[2] = tracks[2] /\ new[3] = p
        /\ new \in Seq(TrackPoint)
    BY <1>8, <1>11
  <2> HIDE DEF m
  <2>2. /\ tracks[1].t \in Int /\ tracks[2].t \in Int
        /\ tracks[1].t <= tracks[2].t /\ tracks[2].t <= tracks[1].t + G
        /\ tracks[2].t <= now /\ now <= tracks[2].t + G
    BY <1>3, <1>4, <1>5, <1>7, <1>11
  <2>3. Close(1) /\ Close(2)
    BY <1>2, <2>1, <2>2
  <2> HIDE DEF Close
  <2> QED
    BY <1>1, <1>2, <1>7, <1>11, <2>1, <2>2, <2>3
<1>12. CASE n = 3
  <2>1. /\ m = 3 /\ new[1] = tracks[2] /\ new[2] = tracks[3] /\ new[3] = p
        /\ new \in Seq(TrackPoint)
    BY <1>8, <1>12
  <2> HIDE DEF m
  <2>2. /\ tracks[1].t \in Int /\ tracks[2].t \in Int /\ tracks[3].t \in Int
        /\ tracks[1].t <= tracks[2].t
        /\ tracks[2].t <= tracks[3].t /\ tracks[3].t <= tracks[2].t + G
        /\ tracks[3].t <= now /\ now <= tracks[3].t + G
    BY <1>3, <1>4, <1>5, <1>7, <1>12
  <2>3. Close(1) /\ Close(2)
    BY <1>2, <2>1, <2>2
  <2> HIDE DEF Close
  <2> QED
    BY <1>1, <1>2, <1>7, <1>12, <2>1, <2>2, <2>3
<1> QED
  BY <1>1, <1>9, <1>10, <1>11, <1>12, UpToThree

\* A line of an undisturbed receiver parses and has a fix.
LEMMA GoodLines ==
  ASSUME NEW G \in Nat, Undisturbed(G), NEW l \in Lines
  PROVE  l # NoLine /\ l # BadLine /\ (l.type = "RMC" => l.fix = TRUE)
<1>1. CASE l \in [type : {"GGA"}, quality : Qualities]
  BY <1>1 DEF NoLine, BadLine
<1>2. CASE l \in [type : {"RMC"}, fix : Fixes, speed : Speeds]
  <2>1. l.fix \in Fixes /\ l.type = "RMC"
    BY <1>2
  <2>2. l # NoLine /\ l # BadLine
    BY <2>1 DEF NoLine, BadLine
  <2>3. l.fix = TRUE
    BY <2>1, Zenon DEF Undisturbed
  <2> QED
    BY <2>2, <2>3
<1> QED
  BY <1>1, <1>2 DEF Lines, Undisturbed

\* The steps that leave the track, the clock and the line alone.
LEMMA AgeQuiet ==
  ASSUME Inv, NEW G \in Nat, AgeInv(G),
         \/ Press \/ Release \/ ReadNothing \/ BootService \/ BootRelease \/ SwitchReset
         \/ SwitchInit \/ ClearPress \/ SwitchRace \/ HoldCheck \/ NoNewNMEA \/ LedUpdate
         \/ Undefined \/ UNCHANGED vars
  PROVE  AgeInv(G)'
<1>1. UNCHANGED <<now, tracks, line, fix>>
  BY DEF Press, Release, ReadNothing, BootService, BootRelease, SwitchReset, SwitchInit,
         ClearPress, SwitchRace, HoldCheck, NoNewNMEA, LedUpdate, Undefined, vars, course, gps
<1>2. bootFlag' = 0 => bootFlag = 0
  BY DEF Press, Release, ReadNothing, BootService, BootRelease, SwitchReset, SwitchInit,
         ClearPress, SwitchRace, HoldCheck, NoNewNMEA, LedUpdate, Undefined, vars, machine
<1>3. bootFlag' = 0 => pc' \in {"read", "switch", "boot"}
  <2> SUFFICES ASSUME bootFlag' = 0
               PROVE  pc' \in {"read", "switch", "boot"}
    OBVIOUS
  <2>1. pc \in {"read", "switch", "boot"} /\ next_state = ST_RESET /\ current_state = ST_RESET
    BY <1>2 DEF AgeInv, Inv, ControlInv
  <2> QED
    BY <2>1
    DEF Press, Release, ReadNothing, BootService, BootRelease, SwitchReset, SwitchInit,
        ClearPress, SwitchRace, HoldCheck, NoNewNMEA, LedUpdate, Undefined, vars,
        ST_RESET, ST_INIT, ST_RACE
<1>4. line # NoLine => pc' \notin {"read", "update", "undefined"}
  BY DEF AgeInv, Press, Release, ReadNothing, BootService, BootRelease, SwitchReset, SwitchInit,
         ClearPress, SwitchRace, HoldCheck, NoNewNMEA, LedUpdate, Undefined, vars
<1>5. pc = "undefined" => pc' = "undefined"
  BY DEF Press, Release, ReadNothing, BootService, BootRelease, SwitchReset, SwitchInit,
         ClearPress, SwitchRace, HoldCheck, NoNewNMEA, LedUpdate, Undefined, vars
<1> QED
  BY <1>1, <1>2, <1>3, <1>4, <1>5 DEF AgeInv

\* Every step keeps the points of the track close together and recent.
LEMMA AgeStep ==
  ASSUME Inv, NEW G \in Nat, Undisturbed(G), AgeInv(G), [Next]_vars
  PROVE  AgeInv(G)'
<1>1. /\ now \in Int /\ tracks \in Seq(TrackPoint) /\ Len(tracks) \in Nat
      /\ tracks # << >> => tracks[Len(tracks)].t \in Int
  <2>1. \A q \in TrackPoint : q.t \in Int
    BY DEF TrackPoint
  <2>2. tracks \in Seq(TrackPoint) /\ now \in Int
    BY DEF Inv, TypeInv
  <2>3. tracks # << >> => tracks[Len(tracks)] \in TrackPoint
    BY <2>2
  <2> QED
    BY <2>1, <2>2, <2>3
<1>2. CASE SwitchWpset
  <2>1. /\ pc = "switch" /\ pc' \in {"nmea", "clear"} /\ tracks' \in {tracks, << >>}
        /\ UNCHANGED <<now, line, fix, bootFlag>> /\ current_state = ST_WPSET
    BY <1>2 DEF SwitchWpset, machine, gps
  <2>2. bootFlag # 0
    BY <2>1 DEF Inv, ControlInv, ST_RESET, ST_WPSET
  <2>3. CASE tracks' = tracks
    BY <2>1, <2>2, <2>3 DEF AgeInv
  <2>4. CASE tracks' = << >>
    BY <2>1, <2>2, <2>4 DEF AgeInv
  <2> QED
    BY <2>1, <2>3, <2>4
<1>3. ASSUME NEW g \in Gaps, NEW l \in Lines, ReadLine(g, l)
      PROVE  AgeInv(G)'
  <2>1. /\ pc = "read" /\ pc' = "switch" /\ now' = now + g /\ line' = l
        /\ UNCHANGED <<tracks, fix, bootFlag>>
    BY <1>3 DEF ReadLine, machine, course
  <2>2. g \in Nat /\ g <= G /\ line = NoLine
    BY <2>1, TrackerAssumption DEF Undisturbed, AgeInv
  <2>3. tracks # << >> =>
          tracks[Len(tracks)].t <= now' /\ now' <= tracks[Len(tracks)].t + G
    BY <1>1, <2>1, <2>2 DEF AgeInv
  <2>4. l # NoLine /\ l # BadLine /\ (l.type = "RMC" => l.fix = TRUE)
    BY GoodLines
  <2> QED
    BY <2>1, <2>2, <2>3, <2>4 DEF AgeInv
<1>4. CASE BootWait
  <2>1. /\ pc = "boot" /\ UNCHANGED <<pc, tracks, line, fix, bootFlag>>
    BY <1>4 DEF BootWait, machine, course, gps
  <2>2. tracks = << >>
    BY <2>1 DEF AgeInv, Inv, ControlInv
  <2> QED
    BY <2>1, <2>2 DEF AgeInv
<1>5. ~ParseFails
  BY DEF ParseFails, AgeInv
<1>6. ASSUME Parse
      PROVE  /\ bootFlag # 0 /\ bootFlag' # 0 /\ line' = NoLine /\ now' = now
             /\ line'.type # "RMC" /\ line' # BadLine
             /\ ~fix' => tracks = << >>
  <2>1. fix' \in {fix, TRUE}
    BY <1>6 DEF Parse, AgeInv
  <2> QED
    BY <1>6, <2>1 DEF Parse, AgeInv, NoLine, BadLine
<1>7. CASE NoFix \/ EmptyCourse
  <2>1. UNCHANGED tracks /\ pc' \in {"update", "undefined"}
    BY <1>7 DEF NoFix, EmptyCourse, course
  <2>2. CASE NoFix
    BY <1>6, <2>1, <2>2 DEF NoFix, AgeInv
  <2>3. CASE EmptyCourse
    BY <1>6, <2>1, <2>3 DEF EmptyCourse, AgeInv
  <2> QED
    BY <1>7, <2>2, <2>3
<1>8. CASE TrackOnly \/ NotCrossed \/ Moving \/ Slow \/ EndRace
  <2>1. Parse /\ fix' /\ tracks' = NewTrack /\ pc' = "update"
    BY <1>8 DEF TrackOnly, NotCrossed, Moving, Slow, EndRace, Racing
  <2>2. /\ Len(NewTrack) <= 3 /\ NewTrack[Len(NewTrack)].t = now
        /\ \A k \in 1 .. Len(NewTrack) - 1 :
             NewTrack[k].t <= NewTrack[k + 1].t /\ NewTrack[k + 1].t <= NewTrack[k].t + G
    BY <2>1, NewTrackAges
  <2>3. /\ line' = NoLine /\ now' = now /\ bootFlag' # 0
        /\ line'.type # "RMC" /\ line' # BadLine /\ fix' = TRUE
    BY <1>6, <2>1 DEF Parse, AgeInv
  <2> QED
    BY <1>1, <2>1, <2>2, <2>3 DEF AgeInv
<1>9. ASSUME NEW adj \in -MaxTime .. 0, StartRace(adj) \/ FinishService(adj) \/ CrossGate(adj)
      PROVE  AgeInv(G)'
  <2>1. Parse /\ tracks' = << >> /\ pc' = "update"
    BY <1>9 DEF StartRace, FinishService, CrossGate, Racing
  <2> QED
    BY <1>6, <2>1 DEF AgeInv
<1> QED
  BY <1>2, <1>3, <1>4, <1>5, <1>7, <1>8, <1>9, AgeQuiet DEF Next, LoopStep, Switch, Handler

\* The adjustment of a crossing dates back by two lines at the most, to a point
\* of the track; and there is one only on a track of two points.
LEMMA AdjustmentFacts ==
  ASSUME Inv, NEW G \in Nat, AgeInv(G), Parse, NEW adj \in Crossings(NewTrack)
  PROVE  /\ adj \in Int /\ -(2 * G) <= adj /\ adj <= 0
         /\ NewTrack[1].t <= now + adj
         /\ tracks # << >> /\ tracks[1].t <= NewTrack[1].t
<1>1. /\ NewTrack[Len(NewTrack)].t = now /\ NewTrack[1].t \in Int /\ now \in Int
      /\ NewTrack[1].t <= now /\ now <= NewTrack[1].t + 2 * G
      /\ tracks = << >> => Len(NewTrack) = 1
      /\ tracks # << >> => tracks[1].t <= NewTrack[1].t
  BY NewTrackAges DEF Inv, TypeInv
<1>2. Len(NewTrack) >= 2 /\ adj \in (NewTrack[1].t - now) .. 0
  <2>1. ~(Len(NewTrack) < 2)
    BY DEF Crossings
  <2>2. Len(NewTrack) \in Int
    BY NewTrackAges
  <2>3. adj \in (NewTrack[1].t - NewTrack[Len(NewTrack)].t) .. 0
    BY <2>1 DEF Crossings
  <2> QED
    BY <1>1, <2>1, <2>2, <2>3
<1>3. tracks # << >>
  BY <1>1, <1>2
<1> QED
  BY <1>1, <1>2, <1>3

\* Every step keeps the recorded times within two lines of the crossings.
LEMMA BoundStep ==
  ASSUME Inv, Inv', NEW G \in Nat, AgeInv(G), HistoryInv, HistoryInv', BoundInv(G), [Next]_vars
  PROVE  BoundInv(G)'
<1>1. /\ now \in Int /\ eeprom \in Nat /\ wp_next \in Nat /\ wp_last \in Nat
      /\ waypoints \in Seq(WaypointRecord) /\ Len(waypoints) \in Nat
      /\ crossing \in Seq(CrossingRecord) /\ Len(crossing) = Len(waypoints)
  BY DEF Inv, TypeInv, HistoryInv
<1> DEFINE Bounded(w, c, n) ==
      /\ -(2 * G) <= w.adjustment /\ w.adjustment <= 0
      /\ c.armed => /\ -(2 * G) <= w.last - c.at /\ w.last - c.at <= 2 * G
                    /\ n = 1 => w.last = c.at
<1>2. ASSUME NEW i \in 1 .. Len(waypoints)
      PROVE  Bounded(waypoints[i], crossing[i], Len(waypoints))
  BY <1>2 DEF BoundInv
<1>3. SUFFICES ASSUME NEW i \in 1 .. Len(waypoints')
               PROVE  Bounded(waypoints'[i], crossing'[i], Len(waypoints'))
  BY DEF BoundInv
<1>4. CASE Calm
  BY <1>2, <1>4 DEF Calm
<1>5. ASSUME NEW n \in Nat
      PROVE  Bounded(NewWaypoint(now, 0), NoCrossing, n)
  BY DEF NewWaypoint, NoCrossing
<1>6. CASE Loaded
  <2>1. waypoints' \in [1 .. eeprom -> {NewWaypoint(now, 0)}]
    BY <1>6 DEF Loaded
  <2>2. i \in 1 .. eeprom
    BY <1>1, <2>1, BuiltFacts
  <2>3. waypoints'[i] = NewWaypoint(now, 0) /\ crossing'[i] = NoCrossing
    BY <1>6, <2>2 DEF Loaded
  <2>4. Len(waypoints') \in Nat
    BY DEF Inv, TypeInv
  <2> HIDE DEF Bounded
  <2> QED
    BY <1>5, <2>3, <2>4
<1>7. CASE Grown
  <2> DEFINE c == NoCrossing
             w == NewWaypoint(now, 0)
  <2>1. crossing' = Append(crossing, c) /\ waypoints' = Append(waypoints, w)
    BY <1>7 DEF Grown
  <2>2. ASSUME NEW n \in Nat
        PROVE  Bounded(w, c, n)
    BY <1>5
  <2> HIDE DEF c, w
  <2>3. /\ Len(waypoints') = Len(waypoints) + 1
        /\ \A j \in 1 .. Len(waypoints) :
             crossing'[j] = crossing[j] /\ waypoints'[j] = waypoints[j]
        /\ crossing'[Len(waypoints) + 1] = c /\ waypoints'[Len(waypoints) + 1] = w
    BY <1>1, <2>1
  <2>4. CASE i = Len(waypoints) + 1
    <3>1. Len(waypoints') \in Nat
      BY DEF Inv, TypeInv
    <3> HIDE DEF Bounded
    <3> QED
      BY <2>2, <2>3, <2>4, <3>1
  <2>5. CASE i \in 1 .. Len(waypoints)
    <3>1. Bounded(waypoints[i], crossing[i], Len(waypoints))
      BY <1>2, <2>5
    <3>2. Len(waypoints') # 1
      BY <1>1, <2>3, <2>5
    <3> QED
      BY <2>3, <2>5, <3>1, <3>2
  <2> QED
    BY <1>1, <2>3, <2>4, <2>5
<1>8. CASE Wiped
  <2>1. /\ Len(waypoints') = Len(waypoints)
        /\ \A j \in 1 .. Len(waypoints) :
             waypoints'[j].adjustment = waypoints[j].adjustment /\ ~crossing'[j].armed
    BY <1>1, <1>8, WipedValues DEF Wiped, Inv
  <2>2. i \in 1 .. Len(waypoints)
    BY <2>1
  <2>3. Bounded(waypoints[i], crossing[i], Len(waypoints))
    BY <1>2, <2>2
  <2> QED
    BY <2>1, <2>2, <2>3
<1>9. ASSUME NEW adj \in -MaxTime .. 0, StartRace(adj)
      PROVE  Bounded(waypoints'[i], crossing'[i], Len(waypoints'))
  <2>1. 1 \in 1 .. Len(waypoints) /\ adj \in Int
    BY <1>1, <1>9, TrackerAssumption DEF StartRace
  <2>2. -(2 * G) <= adj /\ adj <= 0
    BY <1>9, AdjustmentFacts DEF StartRace
  <2> DEFINE w == [Crossed(waypoints[1], adj, MeanSpeed(NewTrack)) EXCEPT !.last = now + adj]
             c == [crossing[1] EXCEPT !.at = now + adj, !.armed = TRUE]
  <2>3. w.adjustment = adj /\ w.last = now + adj
    <3>1. \A r \in WaypointRecord : \A v, t :
            LET q == [Crossed(r, adj, v) EXCEPT !.last = t]
            IN  q.adjustment = adj /\ q.last = t
      BY DEF Crossed, WaypointRecord
    <3>2. waypoints[1] \in WaypointRecord
      BY <1>1, <2>1
    <3> QED
      BY <3>1, <3>2
  <2>4. c.at = now + adj
    <3>1. now + adj \in Int /\ crossing[1] \in CrossingRecord
      BY <1>1, <2>1
    <3> QED
      BY <3>1, ArmedFacts
  <2>5. waypoints' = [waypoints EXCEPT ![1] = w] /\ crossing' = [crossing EXCEPT ![1] = c]
    BY <1>1, <1>9, <2>1 DEF StartRace
  <2> HIDE DEF w, c
  <2>6. /\ Len(waypoints') = Len(waypoints) /\ waypoints'[1] = w /\ crossing'[1] = c
        /\ \A j \in 1 .. Len(waypoints) : j # 1 =>
             waypoints'[j] = waypoints[j] /\ crossing'[j] = crossing[j]
    BY <1>1, <2>1, <2>5
  <2>7. CASE i = 1
    <3>1. waypoints'[i].adjustment = adj /\ waypoints'[i].last = crossing'[i].at
          /\ waypoints'[i].last = now + adj
      BY <2>3, <2>4, <2>6, <2>7
    <3> QED
      BY <1>1, <2>1, <2>2, <3>1
  <2>8. CASE i # 1
    <3>1. i \in 1 .. Len(waypoints)
      BY <2>6
    <3>2. Bounded(waypoints[i], crossing[i], Len(waypoints))
      BY <1>2, <3>1
    <3> HIDE DEF Bounded
    <3> QED
      BY <2>6, <2>8, <3>1, <3>2
  <2> QED
    BY <2>7, <2>8
<1>10. ASSUME NEW adj \in -MaxTime .. 0, Measured(adj)
       PROVE  Bounded(waypoints'[i], crossing'[i], Len(waypoints'))
  <2> DEFINE n == wp_next + 1
             used == AdjustmentUsed(adj)
  <2>1. adj \in Int /\ n \in 1 .. Len(waypoints) /\ TypeInv /\ Parse
        /\ waypoints' = CrossedCourse(adj) /\ wp_next < Len(waypoints) /\ wp_last < Len(waypoints)
    BY <1>1, <1>10, TrackerAssumption DEF Measured, Inv
  <2>2. -(2 * G) <= adj /\ adj <= 0
    BY <1>10, AdjustmentFacts DEF Measured
  <2>3. /\ crossing'[n].at = now + adj
        /\ \A j \in 1 .. Len(waypoints) : j # n => crossing'[j] = crossing[j]
    BY <1>1, <1>10, <2>1, RecordValues
  <2>4. /\ waypoints'[n].last = now + used /\ waypoints'[n].adjustment = adj
        /\ \A j \in 1 .. Len(waypoints) : j # n => waypoints'[j] = waypoints[j]
    BY <2>1, CrossedCourseValues
  <2>5. Len(waypoints') = Len(waypoints)
    BY <2>1, CrossedCourseFacts
  <2>6. used \in Int /\ -(2 * G) <= used /\ used <= 0 /\ (Len(waypoints) = 1 => used = adj)
    <3>1. CASE wp_last = wp_next
      BY <2>1, <2>2, <3>1 DEF AdjustmentUsed
    <3>2. CASE wp_last # wp_next
      <4>1. wp_last + 1 \in 1 .. Len(waypoints) /\ Len(waypoints) # 1
        BY <1>1, <2>1, <3>2
      <4>2. used = waypoints[wp_last + 1].adjustment
        BY <3>2 DEF AdjustmentUsed
      <4>3. -(2 * G) <= used /\ used <= 0
        BY <1>2, <4>1, <4>2
      <4>4. used \in Int
        <5>1. \A r \in WaypointRecord : r.adjustment \in Int
          BY DEF WaypointRecord
        <5>2. waypoints[wp_last + 1] \in WaypointRecord
          BY <1>1, <4>1
        <5> QED
          BY <4>2, <5>1, <5>2
      <4> QED
        BY <4>1, <4>3, <4>4
    <3> QED
      BY <3>1, <3>2
  <2> HIDE DEF n, used
  <2>7. CASE i = n
    BY <1>1, <2>1, <2>2, <2>3, <2>4, <2>5, <2>6, <2>7
  <2>8. CASE i # n
    <3>1. i \in 1 .. Len(waypoints)
      BY <2>5
    <3>2. Bounded(waypoints[i], crossing[i], Len(waypoints))
      BY <1>2, <3>1
    <3> HIDE DEF Bounded
    <3> QED
      BY <2>3, <2>4, <2>5, <2>8, <3>1, <3>2
  <2> QED
    BY <2>7, <2>8
<1> QED
  BY <1>4, <1>6, <1>7, <1>8, <1>9, <1>10, CourseSteps

\* The first point of the track with a new line is no older than the track was,
\* or it is the line itself.
LEMMA NewTrackStart ==
  ASSUME Inv, NEW G \in Nat, AgeInv(G), Parse
  PROVE  /\ NewTrack[1].t \in Int /\ line # NoLine
         /\ tracks = << >> => NewTrack[1].t = now
         /\ tracks # << >> => tracks[1].t \in Int /\ tracks[1].t <= NewTrack[1].t
<1>1. /\ NewTrack[Len(NewTrack)].t = now /\ NewTrack[1].t \in Int
      /\ tracks = << >> => Len(NewTrack) = 1
      /\ tracks # << >> => tracks[1].t <= NewTrack[1].t
  BY NewTrackAges
<1>2. line # NoLine
  BY DEF Parse, NoLine
<1>3. tracks # << >> => tracks[1].t \in Int
  <2>1. \A q \in TrackPoint : q.t \in Int
    BY DEF TrackPoint
  <2>2. tracks # << >> => tracks[1] \in TrackPoint
    BY DEF Inv, TypeInv
  <2> QED
    BY <2>1, <2>2
<1> QED
  BY <1>1, <1>2, <1>3

\* The same for the gap that a steady receiver leaves before the track.
LEMMA TrackStartsLate ==
  ASSUME Inv, NEW G \in Nat, AgeInv(G), EarlierInv(G), Parse
  PROVE  /\ G <= NewTrack[1].t
         /\ next_state = ST_WPSET /\ waypoints # << >> => waypoints[1].last <= NewTrack[1].t
         /\ next_state = ST_RACE => waypoints[wp_last + 1].last + G <= NewTrack[1].t
<1>1. /\ NewTrack[1].t \in Int /\ line # NoLine /\ now \in Int
      /\ tracks = << >> => NewTrack[1].t = now
      /\ tracks # << >> => tracks[1].t \in Int /\ tracks[1].t <= NewTrack[1].t
  BY NewTrackStart DEF Inv, TypeInv
<1>2. \A i \in 1 .. Len(waypoints) : waypoints[i].last \in Int
  <2>1. \A r \in WaypointRecord : r.last \in Int
    BY DEF WaypointRecord
  <2>2. \A i \in 1 .. Len(waypoints) : waypoints[i] \in WaypointRecord
    BY DEF Inv, TypeInv
  <2> QED
    BY <2>1, <2>2
<1>3. waypoints \in Seq(WaypointRecord) /\ Len(waypoints) \in Nat /\ wp_last \in Nat
  BY DEF Inv, TypeInv
<1>4. G <= NewTrack[1].t
  BY <1>1 DEF EarlierInv
<1>5. ASSUME next_state = ST_WPSET, waypoints # << >>
      PROVE  waypoints[1].last <= NewTrack[1].t
  <2>1. waypoints[1].last \in Int
    BY <1>2, <1>3, <1>5
  <2> QED
    BY <1>1, <1>5, <2>1 DEF EarlierInv
<1>6. ASSUME next_state = ST_RACE
      PROVE  waypoints[wp_last + 1].last + G <= NewTrack[1].t
  <2>1. wp_last + 1 \in 1 .. Len(waypoints)
    BY <1>3, <1>6 DEF Inv, CourseInv
  <2>2. waypoints[wp_last + 1].last \in Int
    BY <1>2, <2>1
  <2>3. CASE tracks = << >>
    BY <1>1, <1>6, <2>2, <2>3 DEF EarlierInv
  <2>4. CASE tracks # << >>
    BY <1>1, <1>6, <2>2, <2>4 DEF EarlierInv
  <2> QED
    BY <2>3, <2>4
<1> QED
  BY <1>4, <1>5, <1>6

\* A split taken at a crossing is not negative.
LEMMA SplitTakenPositive ==
  ASSUME Inv, NEW G \in Nat, AgeInv(G), BoundInv(G), EarlierInv(G),
         NEW adj \in Int, Measured(adj)
  PROVE  SplitTaken(adj) >= 0 /\ AdjustmentUsed(adj) \in Int /\ AdjustmentUsed(adj) <= 0
<1>1. /\ Parse /\ adj \in Crossings(NewTrack) /\ now \in Int
      /\ wp_next < Len(waypoints) /\ wp_last < Len(waypoints)
      /\ waypoints \in Seq(WaypointRecord) /\ wp_last \in Nat /\ wp_next \in Nat
      /\ next_state = ST_WPSET \/ next_state = ST_RACE
  BY DEF Measured, Inv, TypeInv
<1>2. /\ adj <= 0 /\ NewTrack[1].t <= now + adj
      /\ tracks # << >> /\ tracks[1].t <= NewTrack[1].t
  BY <1>1, AdjustmentFacts
<1>3. wp_last + 1 \in 1 .. Len(waypoints)
  BY <1>1
<1> DEFINE last == waypoints[wp_last + 1].last
           used == AdjustmentUsed(adj)
<1>4. last \in Int /\ waypoints[wp_last + 1].adjustment \in Int
  <2>1. \A r \in WaypointRecord : r.last \in Int /\ r.adjustment \in Int
    BY DEF WaypointRecord
  <2>2. waypoints[wp_last + 1] \in WaypointRecord
    BY <1>1, <1>3
  <2> QED
    BY <2>1, <2>2
<1>5. NewTrack[1].t \in Int /\ line # NoLine /\ tracks[1].t \in Int
  BY <1>1, <1>2, NewTrackStart
<1>6. CASE wp_last = wp_next
  <2>1. used = adj
    BY <1>6 DEF AdjustmentUsed
  <2>2. last <= NewTrack[1].t
    <3>1. CASE next_state = ST_RACE
      <4>1. last + G <= NewTrack[1].t
        BY <1>1, <3>1, TrackStartsLate
      <4> HIDE DEF last
      <4> QED
        BY <1>4, <1>5, <4>1
    <3>2. CASE next_state = ST_WPSET
      <4>1. wp_last = 0 /\ waypoints # << >>
        BY <1>1, <3>2 DEF Inv, CourseInv
      <4> QED
        BY <1>1, <3>2, <4>1, TrackStartsLate
    <3> QED
      BY <1>1, <3>1, <3>2
  <2>3. SplitTaken(adj) = (now + used) - last
    BY DEF SplitTaken
  <2> HIDE DEF last, used
  <2>4. SplitTaken(adj) >= 0
    BY <1>1, <1>2, <1>4, <1>5, <2>1, <2>2, <2>3
  <2> QED
    BY <1>2, <2>1, <2>4 DEF used
<1>7. CASE wp_last # wp_next
  <2>1. next_state = ST_RACE
    BY <1>1, <1>7 DEF Inv, CourseInv
  <2>2. used = waypoints[wp_last + 1].adjustment
    BY <1>7 DEF AdjustmentUsed
  <2>3. -(2 * G) <= used /\ used <= 0
    BY <1>3, <2>2 DEF BoundInv
  <2>4. last + G <= tracks[1].t
    BY <1>2, <2>1 DEF EarlierInv
  <2>5. tracks[1].t + G <= now
    <3> DEFINE n == Len(tracks)
               late == tracks[n].t
    <3>1. late + G <= now /\ n \in Nat /\ n # 0 /\ n <= 3
      BY <1>2, <1>5 DEF EarlierInv, AgeInv, Inv, TypeInv
    <3>2. \A k \in 1 .. n - 1 : tracks[k].t <= tracks[k + 1].t
      BY DEF AgeInv
    <3>3. \A k \in 1 .. n : tracks[k].t \in Int
      <4>1. \A q \in TrackPoint : q.t \in Int
        BY DEF TrackPoint
      <4>2. \A k \in 1 .. n : tracks[k] \in TrackPoint
        BY DEF Inv, TypeInv
      <4> QED
        BY <4>1, <4>2
    <3> HIDE DEF n
    <3>4. tracks[1].t <= late
      <4>1. CASE n = 1
        BY <1>5, <4>1
      <4>2. CASE n = 2
        BY <3>2, <4>2
      <4>3. CASE n = 3
        <5>1. tracks[1].t <= tracks[2].t /\ tracks[2].t <= tracks[3].t
          BY <3>2, <4>3
        <5>2. tracks[2].t \in Int /\ tracks[3].t \in Int
          BY <3>3, <4>3
        <5> QED
          BY <1>5, <4>3, <5>1, <5>2
      <4> QED
        BY <3>1, <4>1, <4>2, <4>3, UpToThree
    <3>5. late \in Int
      BY <3>1, <3>3
    <3> HIDE DEF late
    <3> QED
      BY <1>1, <1>5, <3>1, <3>4, <3>5
  <2>6. SplitTaken(adj) = (now + used) - last
    BY DEF SplitTaken
  <2> HIDE DEF last, used
  <2>7. used \in Int
    BY <1>4, <2>2
  <2>8. SplitTaken(adj) >= 0
    BY <1>1, <1>4, <1>5, <2>3, <2>4, <2>5, <2>6, <2>7
  <2> QED
    BY <2>3, <2>7, <2>8 DEF used
<1> QED
  BY <1>6, <1>7

\* Every step keeps the start of the next split before the track.
LEMMA EarlierStep ==
  ASSUME Inv, Inv', NEW G \in Nat, Steady(G), AgeInv(G), AgeInv(G)', HistoryInv,
         BoundInv(G), EarlierInv(G), [Next]_vars
  PROVE  EarlierInv(G)'
<1>1. /\ now \in Nat /\ eeprom \in Nat /\ wp_next \in Nat /\ wp_last \in Nat
      /\ waypoints \in Seq(WaypointRecord) /\ Len(waypoints) \in Nat
      /\ crossing \in Seq(CrossingRecord) /\ Len(crossing) = Len(waypoints)
  BY DEF Inv, TypeInv, HistoryInv
<1>2. \A i \in 1 .. Len(waypoints) : waypoints[i].last \in Int
  <2>1. \A r \in WaypointRecord : r.last \in Int
    BY DEF WaypointRecord
  <2>2. \A i \in 1 .. Len(waypoints) : waypoints[i] \in WaypointRecord
    BY <1>1
  <2> QED
    BY <2>1, <2>2
<1>3. next_state = ST_RACE => wp_last + 1 \in 1 .. Len(waypoints)
  BY <1>1 DEF Inv, CourseInv
<1>4. CASE \/ Press \/ Release \/ ReadNothing \/ BootService \/ SwitchInit \/ ClearPress
           \/ SwitchRace \/ NoNewNMEA \/ LedUpdate \/ Undefined \/ UNCHANGED vars
  <2>1. UNCHANGED <<now, tracks, line, waypoints, crossing, wp_last, next_state, bootFlag>>
    BY <1>4
    DEF Press, Release, ReadNothing, BootService, SwitchInit, ClearPress, SwitchRace,
        NoNewNMEA, LedUpdate, Undefined, vars, machine, course, gps, ghosts
  <2> QED
    BY <2>1 DEF EarlierInv
<1>5. CASE BootRelease
  <2>1. /\ pc = "boot" /\ bootFlag' = 1 /\ next_state' = ST_WPSET
        /\ UNCHANGED <<now, tracks, line, waypoints, crossing>>
    BY <1>5 DEF BootRelease, gps, ghosts
  <2>2. waypoints = << >>
    BY <2>1 DEF Inv, ControlInv, EarlierInv
  <2> QED
    BY <2>1, <2>2 DEF EarlierInv, ST_WPSET, ST_RACE
<1>6. CASE SwitchReset
  <2>1. next_state' # ST_WPSET /\ next_state' # ST_RACE
    BY <1>6 DEF SwitchReset, Inv, ControlInv, ST_RESET, ST_INIT, ST_WPSET, ST_RACE
  <2>2. bootFlag' = 1 /\ UNCHANGED <<now, tracks, line>>
    BY <1>6 DEF SwitchReset
  <2>3. \A i \in 1 .. Len(waypoints') : \A d \in crossing'[i].splits : d >= 0
    <3>1. CASE bootFlag = 0
      <4>1. /\ waypoints' = [i \in 1 .. eeprom |-> NewWaypoint(now, 0)]
            /\ crossing' = [i \in 1 .. eeprom |-> NoCrossing]
        BY <1>6, <3>1 DEF SwitchReset
      <4>2. waypoints' \in [1 .. eeprom -> {NewWaypoint(now, 0)}]
        BY <4>1
      <4>3. Len(waypoints') = eeprom
        BY <1>1, <4>2, BuiltFacts
      <4> QED
        BY <4>1, <4>3 DEF NoCrossing
    <3>2. CASE bootFlag # 0
      BY <1>6, <3>2 DEF SwitchReset, EarlierInv
    <3> QED
      BY <3>1, <3>2
  <2> QED
    BY <2>1, <2>2, <2>3 DEF EarlierInv
<1>7. CASE HoldCheck
  <2>1. UNCHANGED <<now, tracks, line, wp_last, next_state, bootFlag>>
    BY <1>7 DEF HoldCheck, gps
  <2>2. CASE UNCHANGED <<waypoints, crossing>>
    BY <2>1, <2>2 DEF EarlierInv
  <2>3. CASE waypoints' = ResetAll(waypoints) /\ crossing' = Disarmed
    <3>1. /\ Len(waypoints') = Len(waypoints) /\ waypoints' \in Seq(WaypointRecord)
          /\ \A i \in 1 .. Len(waypoints) :
               waypoints'[i].last = 0 /\ crossing'[i].splits = {}
      BY <1>1, <2>3, WipedValues DEF Inv
    <3>2. waypoints' # << >> => waypoints'[1].last = 0
      BY <1>1, <3>1
    <3>3. next_state = ST_RACE => waypoints'[wp_last + 1].last = 0
      BY <1>3, <3>1
    <3>4. bootFlag # 0
      BY <1>7 DEF HoldCheck, AgeInv
    <3>5. tracks # << >> => tracks[1].t \in Int
      <4>1. \A q \in TrackPoint : q.t \in Int
        BY DEF TrackPoint
      <4>2. tracks # << >> => tracks[1] \in TrackPoint
        BY DEF Inv, TypeInv
      <4> QED
        BY <4>1, <4>2
    <3>6. \A i \in 1 .. Len(waypoints') : \A d \in crossing'[i].splits : d >= 0
      BY <3>1
    <3> QED
      BY <1>1, <2>1, <3>2, <3>3, <3>4, <3>5, <3>6 DEF EarlierInv
  <2> QED
    BY <1>7, <2>2, <2>3 DEF HoldCheck
<1>8. CASE SwitchWpset
  <2>1. /\ pc = "switch" /\ next_state = ST_WPSET /\ bootFlag # 0
        /\ UNCHANGED <<now, line, wp_last, next_state, bootFlag>>
    BY <1>8 DEF SwitchWpset, machine, gps, Inv, ControlInv, ST_RESET, ST_WPSET
  <2>2. CASE UNCHANGED <<waypoints, tracks, crossing>>
    BY <2>1, <2>2 DEF EarlierInv
  <2>3. CASE /\ waypoints' = Append(waypoints, NewWaypoint(now, 0))
             /\ crossing' = Append(crossing, NoCrossing) /\ tracks' = << >>
    <3> DEFINE c == NoCrossing
               w == NewWaypoint(now, 0)
    <3>1. c.splits = {} /\ w.last = now
      BY DEF NoCrossing, NewWaypoint
    <3>2. crossing' = Append(crossing, c) /\ waypoints' = Append(waypoints, w)
      BY <2>3
    <3> HIDE DEF c, w
    <3>3. /\ Len(waypoints') = Len(waypoints) + 1
          /\ \A j \in 1 .. Len(waypoints) :
               crossing'[j] = crossing[j] /\ waypoints'[j] = waypoints[j]
          /\ crossing'[Len(waypoints) + 1] = c /\ waypoints'[Len(waypoints) + 1] = w
      BY <1>1, <3>2
    <3>4. \A i \in 1 .. Len(waypoints') : \A d \in crossing'[i].splits : d >= 0
      <4> SUFFICES ASSUME NEW i \in 1 .. Len(waypoints'), NEW d \in crossing'[i].splits
                   PROVE  d >= 0
        OBVIOUS
      <4>1. i # Len(waypoints) + 1
        BY <3>1, <3>3
      <4>2. i \in 1 .. Len(waypoints)
        BY <1>1, <3>3, <4>1
      <4> QED
        BY <3>3, <4>2 DEF EarlierInv
    <3>5. waypoints'[1].last <= now
      <4>1. CASE Len(waypoints) = 0
        BY <1>1, <3>1, <3>3, <4>1
      <4>2. CASE Len(waypoints) # 0
        <5>1. 1 \in 1 .. Len(waypoints) /\ waypoints # << >>
          BY <1>1, <4>2
        <5> QED
          BY <2>1, <3>3, <5>1 DEF EarlierInv
      <4> QED
        BY <4>1, <4>2
    <3>6. tracks' = << >>
      BY <2>3
    <3> QED
      BY <2>1, <3>4, <3>5, <3>6 DEF EarlierInv, ST_WPSET, ST_RACE
  <2> QED
    BY <1>8, <2>2, <2>3 DEF SwitchWpset
<1>9. ASSUME NEW g \in Gaps, NEW l \in Lines, ReadLine(g, l)
      PROVE  EarlierInv(G)'
  <2>1. /\ pc = "read" /\ now' = now + g
        /\ UNCHANGED <<tracks, waypoints, crossing, wp_last, next_state, bootFlag>>
    BY <1>9 DEF ReadLine, machine, course, ghosts
  <2>2. g = G /\ line = NoLine
    BY <2>1 DEF Steady, AgeInv
  <2>3. now' = now + G
    BY <2>1, <2>2
  <2>4. tracks # << >> => tracks[Len(tracks)].t + G <= now'
    <3>1. tracks # << >> => tracks[Len(tracks)].t <= now /\ tracks[Len(tracks)].t \in Int
      <4>1. \A q \in TrackPoint : q.t \in Int
        BY DEF TrackPoint
      <4>2. tracks # << >> => tracks[Len(tracks)] \in TrackPoint
        BY DEF Inv, TypeInv
      <4> QED
        BY <2>1, <4>1, <4>2 DEF AgeInv
    <3> QED
      BY <1>1, <2>3, <3>1
  <2>5. next_state = ST_WPSET /\ waypoints # << >> => waypoints[1].last <= now'
    <3>1. waypoints # << >> => waypoints[1].last \in Int
      BY <1>1, <1>2
    <3> QED
      BY <1>1, <2>3, <3>1 DEF EarlierInv
  <2>6. next_state = ST_RACE =>
          waypoints[wp_last + 1].last + G <= now' /\ waypoints[wp_last + 1].last <= now'
    <3>1. next_state = ST_RACE =>
            waypoints[wp_last + 1].last \in Int /\ waypoints[wp_last + 1].last <= now
      BY <1>2, <1>3 DEF EarlierInv
    <3> QED
      BY <1>1, <2>3, <3>1
  <2>7. G <= now'
    BY <1>1, <2>3
  <2> QED
    BY <2>1, <2>4, <2>5, <2>6, <2>7 DEF EarlierInv
<1>10. CASE BootWait
  <2>1. /\ pc = "boot" /\ now' = now + 1
        /\ UNCHANGED <<tracks, line, waypoints, crossing, wp_last, next_state, bootFlag>>
    BY <1>10 DEF BootWait, machine, course, gps, ghosts
  <2>2. tracks = << >> /\ next_state = ST_RESET
    BY <2>1 DEF AgeInv, Inv, ControlInv
  <2>3. line # NoLine => G <= now'
    BY <1>1, <2>1 DEF EarlierInv
  <2> QED
    BY <2>1, <2>2, <2>3 DEF EarlierInv, ST_RESET, ST_WPSET, ST_RACE
<1>11. ~ParseFails
  BY DEF ParseFails, AgeInv
<1>12. ASSUME Parse
       PROVE  line' = NoLine /\ now' = now /\ bootFlag' = bootFlag /\ bootFlag # 0
  BY <1>12 DEF Parse, AgeInv
<1>13. CASE NoFix \/ EmptyCourse
  <2>1. Parse /\ UNCHANGED <<tracks, waypoints, crossing, wp_last, next_state>>
    BY <1>13 DEF NoFix, EmptyCourse, course, ghosts
  <2> QED
    BY <1>12, <2>1 DEF EarlierInv
<1>14. CASE TrackOnly \/ NotCrossed \/ Moving \/ Slow
  <2>1. /\ Parse /\ tracks' = NewTrack
        /\ UNCHANGED <<waypoints, crossing, wp_last, next_state>>
    BY <1>14 DEF TrackOnly, NotCrossed, Moving, Slow, Racing, ghosts
  <2>2. /\ G <= NewTrack[1].t
        /\ next_state = ST_WPSET /\ waypoints # << >> => waypoints[1].last <= NewTrack[1].t
        /\ next_state = ST_RACE => waypoints[wp_last + 1].last + G <= NewTrack[1].t
    BY <2>1, TrackStartsLate
  <2> QED
    BY <1>12, <2>1, <2>2 DEF EarlierInv
<1>15. CASE EndRace
  <2>1. /\ Parse /\ tracks' = NewTrack /\ next_state' = ST_INIT
        /\ waypoints' = ResetAll(waypoints) /\ crossing' = Disarmed
    BY <1>15 DEF EndRace, Racing
  <2>2. G <= NewTrack[1].t
    BY <2>1, TrackStartsLate
  <2>3. \A i \in 1 .. Len(waypoints') : \A d \in crossing'[i].splits : d >= 0
    BY <1>1, <2>1, WipedValues DEF Inv
  <2> QED
    BY <1>12, <2>1, <2>2, <2>3 DEF EarlierInv, ST_INIT, ST_WPSET, ST_RACE
<1>16. ASSUME NEW adj \in -MaxTime .. 0, StartRace(adj)
       PROVE  EarlierInv(G)'
  <2>1. /\ Parse /\ tracks' = << >> /\ next_state' = ST_RACE /\ wp_last' = 0
        /\ 1 \in 1 .. Len(waypoints) /\ adj \in Int /\ adj <= 0
    BY <1>1, <1>16, TrackerAssumption DEF StartRace
  <2> DEFINE w == [Crossed(waypoints[1], adj, MeanSpeed(NewTrack)) EXCEPT !.last = now + adj]
             c == [crossing[1] EXCEPT !.at = now + adj, !.armed = TRUE]
  <2>2. w.last = now + adj
    <3>1. \A r \in WaypointRecord : \A v, t :
            [Crossed(r, adj, v) EXCEPT !.last = t].last = t
      BY DEF Crossed, WaypointRecord
    <3>2. waypoints[1] \in WaypointRecord
      BY <1>1, <2>1
    <3> QED
      BY <3>1, <3>2
  <2>3. c.splits = crossing[1].splits
    <3>1. now + adj \in Int /\ crossing[1] \in CrossingRecord
      BY <1>1, <2>1
    <3> QED
      BY <3>1, ArmedFacts
  <2>4. waypoints' = [waypoints EXCEPT ![1] = w] /\ crossing' = [crossing EXCEPT ![1] = c]
    BY <1>1, <1>16, <2>1 DEF StartRace
  <2> HIDE DEF w, c
  <2>5. /\ Len(waypoints') = Len(waypoints) /\ waypoints'[1] = w /\ crossing'[1] = c
        /\ \A j \in 1 .. Len(waypoints) : j # 1 => crossing'[j] = crossing[j]
    BY <1>1, <2>1, <2>4
  <2>6. \A i \in 1 .. Len(waypoints') : \A d \in crossing'[i].splits : d >= 0
    BY <2>1, <2>3, <2>5 DEF EarlierInv
  <2>7. waypoints'[1].last <= now
    BY <1>1, <2>1, <2>2, <2>5
  <2> QED
    BY <1>12, <2>1, <2>6, <2>7 DEF EarlierInv, ST_WPSET, ST_RACE
<1>17. ASSUME NEW adj \in -MaxTime .. 0, Measured(adj)
       PROVE  EarlierInv(G)'
  <2> DEFINE n == wp_next + 1
             used == AdjustmentUsed(adj)
  <2>1. /\ adj \in Int /\ n \in 1 .. Len(waypoints) /\ TypeInv /\ Parse
        /\ waypoints' = CrossedCourse(adj) /\ wp_next < Len(waypoints) /\ wp_last < Len(waypoints)
        /\ next_state' = ST_RACE /\ tracks' = << >> /\ wp_last' + 1 = n
    BY <1>1, <1>17, TrackerAssumption DEF Measured, Inv
  <2>2. /\ crossing'[n].splits = crossing[n].splits \cup {SplitTaken(adj)}
        /\ \A j \in 1 .. Len(waypoints) : j # n => crossing'[j] = crossing[j]
    BY <1>1, <1>17, <2>1, RecordValues
  <2>3. waypoints'[n].last = now + used
    BY <2>1, CrossedCourseValues
  <2>4. Len(waypoints') = Len(waypoints)
    BY <2>1, CrossedCourseFacts
  <2>5. SplitTaken(adj) >= 0 /\ used \in Int /\ used <= 0
    BY <1>17, <2>1, SplitTakenPositive
  <2> HIDE DEF n, used
  <2>6. \A i \in 1 .. Len(waypoints') : \A d \in crossing'[i].splits : d >= 0
    BY <2>1, <2>2, <2>4, <2>5 DEF EarlierInv
  <2>7. waypoints'[wp_last' + 1].last <= now
    BY <1>1, <2>1, <2>3, <2>5
  <2> QED
    BY <1>12, <2>1, <2>6, <2>7 DEF EarlierInv, ST_WPSET, ST_RACE
<1>18. ASSUME NEW adj \in -MaxTime .. 0, FinishService(adj) \/ CrossGate(adj)
       PROVE  EarlierInv(G)'
  <2>1. Measured(adj)
    <3>1. CASE FinishService(adj)
      BY <1>1, <3>1 DEF FinishService, Measured, Inv, CourseInv
    <3>2. CASE CrossGate(adj)
      <4>1. wp_next < Len(waypoints) /\ wp_last < Len(waypoints)
        BY <1>1, <3>2, FollowingInRange DEF CrossGate, Racing, Inv, CourseInv
      <4> QED
        BY <3>2, <4>1 DEF CrossGate, Racing, Measured
    <3> QED
      BY <1>18, <3>1, <3>2
  <2> QED
    BY <1>17, <2>1
<1> QED
  BY <1>4, <1>5, <1>6, <1>7, <1>8, <1>9, <1>10, <1>11, <1>13, <1>14, <1>15, <1>16, <1>18
  DEF Next, LoopStep, Switch, Handler

-----------------------------------------------------------------------------
\* The recorded time of a crossing is off by two lines at the most, and on a
\* course of one waypoint it is exact, whatever the course, the sketch and the
\* button, as long as every line parses and has a fix.
THEOREM CrossingTimesBounded ==
  ASSUME NEW G \in Gaps, \A g \in Gaps : g <= G, ~Noise, Fixes \subseteq {TRUE}
  PROVE  Spec => []CrossingTimeBound
<1>1. G \in Nat /\ Undisturbed(G)
  BY TrackerAssumption DEF Undisturbed
<1>2. Max(Gaps) = G
  <2>1. \A x \in Gaps : (\A y \in Gaps : x >= y) => x = G
    BY TrackerAssumption
  <2>2. G \in Gaps /\ \A y \in Gaps : G >= y
    BY TrackerAssumption
  <2> QED
    BY <2>1, <2>2 DEF Max
<1>3. Init => AgeInv(G) /\ BoundInv(G)
  BY DEF Init, AgeInv, BoundInv, NoLine, BadLine
<1>4. Inv /\ AgeInv(G) /\ [Next]_vars => AgeInv(G)'
  BY <1>1, AgeStep
<1>5. /\ Inv /\ Inv' /\ AgeInv(G) /\ HistoryInv /\ HistoryInv' /\ BoundInv(G) /\ [Next]_vars
      => BoundInv(G)'
  BY <1>1, BoundStep
<1>6. Inv /\ HistoryInv /\ BoundInv(G) => CrossingTimeBound
  <2> SUFFICES ASSUME Inv, HistoryInv, BoundInv(G), NEW i \in DOMAIN crossing, crossing[i].armed
               PROVE  Abs(waypoints[i].last - crossing[i].at)
                        <= IF Len(waypoints) = 1 THEN 0 ELSE (max_tracksize - 2) * Max(Gaps)
    BY DEF CrossingTimeBound
  <2>1. i \in 1 .. Len(waypoints)
    BY DEF HistoryInv, Inv, TypeInv
  <2> DEFINE last == waypoints[i].last
             at == crossing[i].at
  <2>2. last \in Int /\ at \in Int
    <3>1. \A r \in WaypointRecord : r.last \in Int
      BY DEF WaypointRecord
    <3>2. \A c \in CrossingRecord : c.at \in Int
      BY DEF CrossingRecord
    <3>3. waypoints[i] \in WaypointRecord /\ crossing[i] \in CrossingRecord
      BY <2>1 DEF HistoryInv, Inv, TypeInv
    <3> QED
      BY <3>1, <3>2, <3>3
  <2>3. /\ -(2 * G) <= last - at /\ last - at <= 2 * G
        /\ Len(waypoints) = 1 => last = at
    BY <2>1 DEF BoundInv
  <2> HIDE DEF last, at
  <2>4. Abs(last - at) <= IF Len(waypoints) = 1 THEN 0 ELSE 2 * G
    BY <1>1, <2>2, <2>3 DEF Abs
  <2>5. (max_tracksize - 2) * Max(Gaps) = 2 * G
    BY <1>2 DEF max_tracksize
  <2> QED
    BY <2>4, <2>5 DEF last, at
<1> QED
  BY <1>3, <1>4, <1>5, <1>6, CourseInvariant, HistoryInvariant, PTL DEF Spec

\* With lines at a steady rate no split is negative, on any course.
THEOREM SplitsAreNotNegative ==
  ASSUME NEW G \in Nat, Gaps = {G}, ~Noise, Fixes \subseteq {TRUE}
  PROVE  Spec => []SplitsNotNegative
<1>1. Undisturbed(G) /\ Steady(G)
  <2>1. \A g \in Gaps : g <= G /\ g = G
    OBVIOUS
  <2> QED
    BY <2>1, Zenon DEF Undisturbed, Steady
<1>2. Init => AgeInv(G) /\ BoundInv(G) /\ EarlierInv(G)
  <2> SUFFICES ASSUME Init
               PROVE  AgeInv(G) /\ BoundInv(G) /\ EarlierInv(G)
    OBVIOUS
  <2>1. AgeInv(G) /\ BoundInv(G)
    BY DEF Init, AgeInv, BoundInv, NoLine, BadLine
  <2>2. EarlierInv(G)
    BY DEF Init, EarlierInv, ST_RESET, ST_WPSET, ST_RACE
  <2> QED
    BY <2>1, <2>2
<1>3. Inv /\ AgeInv(G) /\ [Next]_vars => AgeInv(G)'
  BY <1>1, AgeStep
<1>4. /\ Inv /\ Inv' /\ AgeInv(G) /\ HistoryInv /\ HistoryInv' /\ BoundInv(G) /\ [Next]_vars
      => BoundInv(G)'
  BY BoundStep
<1>5. /\ Inv /\ Inv' /\ AgeInv(G) /\ AgeInv(G)' /\ HistoryInv /\ BoundInv(G)
      /\ EarlierInv(G) /\ [Next]_vars
      => EarlierInv(G)'
  BY <1>1, EarlierStep
<1>6. HistoryInv /\ EarlierInv(G) => SplitsNotNegative
  BY DEF HistoryInv, EarlierInv, SplitsNotNegative
<1> QED
  BY <1>2, <1>3, <1>4, <1>5, <1>6, CourseInvariant, HistoryInvariant, PTL DEF Spec
=============================================================================
