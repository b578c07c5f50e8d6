------------------------------- MODULE Tracker -------------------------------
(***************************************************************************)
(* The tracker sketch: loop(), the push-button interrupt, the waypoints,   *)
(* the track points, the lights and what the GPS receiver delivers.        *)
(*                                                                         *)
(* One pass of loop() is a chain of actions, so that the interrupt can run *)
(* between them: pc = "read" (GPS.read), "switch" (the first switch),      *)
(* "hold" (the test of the held button), "clear" (pbFlag = 0 at the end of *)
(* the service-mode case), "nmea" (a received line) and "update"           *)
(* (ledUpdate); "boot" is the busy wait of service mode.                   *)
(*                                                                         *)
(* Time advances when a line arrives, in units of its spacing, and in the  *)
(* busy wait.  Whether a segment of the track crosses a gate, and where,   *)
(* is a choice of the environment: adjustment lies between minus the time  *)
(* the segment spans and 0, and a segment of one point crosses nothing.    *)
(* Module Course shows that of intersection, for legs that do not run due  *)
(* north or south.                                                         *)
(***************************************************************************)
EXTENDS LEDView, Waypoint, Sequences, FiniteSets, FiniteSetsExt

CONSTANTS
  Sketch,         \* "Single_Split", "Single_Speed" or "2LEDs_Split"
  StoredCounts,   \* numbers of waypoints the EEPROM may hold at power-up
  MaxWaypoints,   \* bound on the waypoints set in service mode
  MaxTime,        \* bound on millis()
  MaxEdges,       \* bound on the falling edges of the button
  Gaps,           \* spacings of the lines
  Qualities,      \* fix qualities of a GGA line
  Fixes,          \* fix flags of an RMC line
  Speeds,         \* speeds of an RMC line, in knots
  Noise,          \* TRUE: lines that do not parse arrive too
  Outputs,        \* what the receiver sends once setup() has configured it
  StartLow,       \* TRUE: the button may be held at power-up
  Debounce, HoldTime, Standstill, Margin  \* 400 ms, 2000 ms, 1000 ms, 200 ms

max_tracksize == 4

ST_RESET == 0
ST_INIT  == 1
ST_WPSET == 3
ST_RACE  == 4

LEDs == {"LAP", "SPLT"}

NoLine  == [type |-> "none"]
BadLine == [type |-> "bad"]

ASSUME TrackerAssumption ==
  /\ Sketch \in {"Single_Split", "Single_Speed", "2LEDs_Split"}
  /\ StoredCounts \subseteq Nat
  /\ MaxWaypoints \in Nat /\ MaxTime \in Nat /\ MaxEdges \in Nat
  /\ Gaps \subseteq Nat \ {0}
  /\ Qualities \subseteq Nat
  /\ Fixes \subseteq BOOLEAN
  /\ Speeds \subseteq Nat
  /\ Noise \in BOOLEAN /\ StartLow \in BOOLEAN
  /\ Outputs \subseteq {"GGA", "RMC", "default"}
  /\ Debounce \in Nat /\ HoldTime \in Nat /\ Standstill \in Nat /\ Margin \in Nat

VARIABLES
  \* the processor
  now, pc,
  \* the button and its interrupt
  pin, pbFlag, last_interrupt_time, edges,
  \* the state machine of loop() and its static variables
  current_state, next_state, bootFlag, resetFlag, pbTimer, resetTimer,
  \* the course
  waypoints, tracks, wp_next, wp_last, eeprom,
  \* the receiver: the line received, the parsed fields, the sentences sent
  line, fix, fixquality, speed, output,
  \* the lights
  leds,
  \* history: see Crossing, Tap and Carry below
  crossing, tap, carry

button  == <<pin, pbFlag, last_interrupt_time, edges>>
machine == <<current_state, next_state, bootFlag, resetFlag, pbTimer, resetTimer>>
course  == <<waypoints, tracks, wp_next, wp_last, eeprom>>
gps     == <<line, fix, fixquality, speed, output>>
ghosts  == <<crossing, tap, carry>>
vars    == <<now, pc, button, machine, course, gps, leds, ghosts>>

-----------------------------------------------------------------------------
\* Helpers

SetAll(ls, c, temp)    == [i \in LEDs |-> ViewSet(ls[i], c, temp)]

\* Mutated form of BlinkAll: the second light is forgotten.
BlinkOne(ls, c, timed) == [ls EXCEPT !["LAP"] = ViewBlink(@, c, timed)]

BlinkAll(ls, c, timed) == [i \in LEDs |-> ViewBlink(ls[i], c, timed)]

\* A line of the receiver, by the sentences it was told to send.
Lines ==
  (IF Noise THEN {BadLine} ELSE {})
  \cup (IF output \in {"GGA", "default"}
        THEN [type : {"GGA"}, quality : Qualities] ELSE {})
  \cup (IF output \in {"RMC", "default"}
        THEN [type : {"RMC"}, fix : Fixes, speed : Speeds] ELSE {})

\* Mutated form of PushTrack: the oldest point is erased one point late.
PushTrackLate(tr, p) ==
  LET longer == Append(tr, p)
  IN  IF Len(longer) > max_tracksize THEN Tail(longer) ELSE longer

\* myTracks.push_back and the erase that keeps the track short
PushTrack(tr, p) ==
  LET longer == Append(tr, p)
  IN  IF Len(longer) >= max_tracksize THEN Tail(longer) ELSE longer

\* The adjustments with which intersection(myTracks[0], myTracks[size-1], gate)
\* may find the gate crossed, besides finding it not crossed.
Crossings(tr) ==
  IF Len(tr) < 2 THEN {} ELSE (tr[1].t - tr[Len(tr)].t) .. 0

MeanSpeed(tr) == tr[1].v + tr[Len(tr)].v

\* Mutated form of Following: the index wraps one waypoint late.
FollowingPast(i) == IF i + 1 > Len(waypoints) THEN 0 ELSE i + 1

\* The waypoint after i: if (wp_next >= myWaypoints.size()) wp_next = 0
Following(i) == IF i + 1 >= Len(waypoints) THEN 0 ELSE i + 1

\* History of the gates: the interpolated time of the last crossing, whether
\* last has been written since the last reset, and the splits since then.
NoCrossing == [at |-> 0, armed |-> FALSE, splits |-> {}]

Disarmed == [i \in DOMAIN crossing |->
               [crossing[i] EXCEPT !.armed = FALSE, !.splits = {}]]

\* reset(myWaypoints)
ResetAll(ws) == [i \in DOMAIN ws |-> ResetWaypoint(ws[i])]

\* 2LEDs_Split: the lap light stays yellow, the split light for a while.
YellowLights(ls) == [ls EXCEPT !["LAP"] = ViewSet(@, YELLOW, FALSE),
                               !["SPLT"] = ViewSet(@, YELLOW, TRUE)]

\* The lights when a race starts on the stored course ...
StartLights(ls) ==
  IF Sketch = "2LEDs_Split"
  THEN YellowLights(SetAll(ls, OFF, FALSE))
  ELSE SetAll(ls, OFF, FALSE)

\* ... and when it starts at the end of service mode.
ServiceLights(ls) ==
  IF Sketch = "2LEDs_Split" THEN YellowLights(ls) ELSE SetAll(ls, OFF, FALSE)

\* Single_*: both lights blink for five seconds, green when better, red when
\* worse, or go dark when the margin is within the tolerance (the rate of the
\* blinking, which grows with the margin, is not kept).
MarginLights(ls, better, worse) ==
  LET dark == SetAll(ls, OFF, FALSE)
  IN  CASE better -> BlinkAll(dark, GREEN, TRUE)
        [] ~better /\ worse -> BlinkAll(dark, RED, TRUE)
        [] OTHER -> dark

\* 2LEDs_Split: better than the best, more than the tolerance worse, or near.
MarginColor(m) == CASE m < 0 -> GREEN
                    [] m > Margin -> RED
                    [] OTHER -> YELLOW

\* Mutated form of Feedback: the sign of the margin is misread.
FeedbackSwapped(ls, w) ==
  MarginLights(ls, w.split_margin > Margin, w.split_margin < -Margin)

\* What the lights tell the rider after the crossing of waypoint w.
Feedback(ls, w) ==
  CASE Sketch = "Single_Split" ->
         MarginLights(ls, w.split_margin < -Margin, w.split_margin > Margin)
    [] Sketch = "Single_Speed" ->
         MarginLights(ls, w.speed_margin > 2, w.speed_margin < -2)
    [] OTHER ->
         [ls EXCEPT
            !["SPLT"] = ViewSet(@, MarginColor(w.split_margin), TRUE),
            !["LAP"]  = ViewSet(@, MarginColor(w.lap_margin), FALSE)]

-----------------------------------------------------------------------------
\* setup(): the lights are dark and the receiver has been told to send GGA
\* lines only, which it may have missed.
Init ==
  /\ now = 1
  /\ pc = "read"
  /\ pin \in (IF StartLow THEN {"low", "high"} ELSE {"high"})
  /\ pbFlag = 0
  /\ last_interrupt_time = 0
  /\ edges = 0
  /\ current_state = ST_RESET
  /\ next_state = ST_RESET
  /\ bootFlag = 0
  /\ resetFlag = 0
  /\ pbTimer = -1
  /\ resetTimer = -1
  /\ waypoints = << >>
  /\ tracks = << >>
  /\ wp_next = 0
  /\ wp_last = 0
  /\ eeprom \in StoredCounts
  /\ line = NoLine
  /\ fix = FALSE
  /\ fixquality = 0
  /\ speed = 0
  /\ output \in Outputs
  /\ leds = [i \in LEDs |-> Dark]
  /\ crossing = << >>
  /\ tap = [since |-> 0, heard |-> FALSE, pending |-> FALSE]
  /\ carry = FALSE

-----------------------------------------------------------------------------
\* The button.  A falling edge runs interruptPB; a bouncing contact is a
\* series of edges.  tap records when the button went down, whether the
\* interrupt accepted that edge, and whether a reset by the button is being
\* raced through.
Press ==
  /\ pin = "high"
  /\ edges < MaxEdges
  /\ pin' = "low"
  /\ edges' = edges + 1
  /\ pbFlag' = IF now - last_interrupt_time > Debounce THEN 1 ELSE pbFlag
  /\ last_interrupt_time' = now
  /\ tap' = [tap EXCEPT !.since = now,
                        !.heard = now - last_interrupt_time > Debounce]
  /\ UNCHANGED <<now, pc, machine, course, gps, leds, crossing, carry>>

Release ==
  /\ pin = "low"
  /\ pin' = "high"
  /\ UNCHANGED <<now, pc, pbFlag, last_interrupt_time, edges,
                 machine, course, gps, leds, ghosts>>

-----------------------------------------------------------------------------
\* GPS.read(): no line is complete, or the last character of one arrives.
ReadNothing ==
  /\ pc = "read"
  /\ pc' = "switch"
  /\ UNCHANGED <<now, button, machine, course, gps, leds, ghosts>>

ReadLine(g, l) ==
  /\ pc = "read"
  /\ now + g <= MaxTime
  /\ now' = now + g
  /\ line' = l
  /\ pc' = "switch"
  /\ UNCHANGED <<button, machine, course, fix, fixquality, speed, output,
                 leds, ghosts>>

-----------------------------------------------------------------------------
\* case ST_RESET: the first pass goes to service mode if the button is down.
BootService ==
  /\ pc = "switch" /\ current_state = ST_RESET
  /\ bootFlag = 0 /\ pin = "low"
  /\ pc' = "boot"
  /\ UNCHANGED <<now, button, machine, course, gps, leds, ghosts>>

\* while (!digitalRead(PIN_PB));
BootWait ==
  /\ pc = "boot" /\ pin = "low"
  /\ now < MaxTime
  /\ now' = now + 1
  /\ UNCHANGED <<pc, button, machine, course, gps, leds, ghosts>>

BootRelease ==
  /\ pc = "boot" /\ pin = "high"
  /\ leds' = SetAll(leds, YELLOW, FALSE)
  /\ pbFlag' = 0
  /\ wp_next' = 0
  /\ next_state' = ST_WPSET
  /\ current_state' = ST_WPSET
  /\ bootFlag' = 1
  /\ pc' = "nmea"
  /\ UNCHANGED <<now, pin, last_interrupt_time, edges,
                 resetFlag, pbTimer, resetTimer,
                 waypoints, tracks, wp_last, eeprom, gps, ghosts>>

\* The first pass loads the waypoints; every pass shows the fix quality and
\* leaves the state on a differential fix, or on the button with a plain one.
SwitchReset ==
  /\ pc = "switch" /\ current_state = ST_RESET
  /\ bootFlag = 1 \/ pin = "high"
  /\ IF bootFlag = 0
     THEN /\ waypoints' = [i \in 1 .. eeprom |-> NewWaypoint(now, 0)]
          /\ crossing' = [i \in 1 .. eeprom |-> NoCrossing]
     ELSE UNCHANGED <<waypoints, crossing>>
  /\ bootFlag' = 1
  /\ LET leaves == fixquality = 2 \/ (fixquality = 1 /\ pbFlag = 1)
         shown  == CASE fixquality = 0 -> BlinkAll(leds, RED, FALSE)
                     [] fixquality = 1 -> BlinkAll(leds, YELLOW, FALSE)
                     [] OTHER -> leds
     IN  /\ leds' = IF leaves THEN BlinkAll(shown, GREEN, FALSE) ELSE shown
         /\ next_state' = IF leaves THEN ST_INIT ELSE next_state
         /\ output' \in IF leaves THEN {"RMC", output} ELSE {output}
         /\ pbFlag' = IF leaves /\ fixquality = 1 THEN 0 ELSE pbFlag
  /\ pc' = "nmea"
  /\ UNCHANGED <<now, pin, last_interrupt_time, edges,
                 current_state, resetFlag, pbTimer, resetTimer,
                 tracks, wp_next, wp_last, eeprom,
                 line, fix, fixquality, speed, tap, carry>>

SwitchInit ==
  /\ pc = "switch" /\ current_state = ST_INIT
  /\ pc' = "nmea"
  /\ UNCHANGED <<now, button, machine, course, gps, leds, ghosts>>

\* case ST_WPSET: a press sets a waypoint across the last leg of the track,
\* unless the leg runs due east or west (the end points are not numbers).
SwitchWpset ==
  /\ pc = "switch" /\ current_state = ST_WPSET
  /\ IF pbFlag = 0
     THEN pc' = "nmea" /\ UNCHANGED <<waypoints, tracks, leds, crossing>>
     ELSE /\ pc' = "clear"
          /\ \/ /\ Len(tracks) >= 2 /\ fixquality # 0
                /\ Len(waypoints) < MaxWaypoints
                /\ waypoints' = Append(waypoints, NewWaypoint(now, 0))
                /\ crossing' = Append(crossing, NoCrossing)
                /\ tracks' = << >>
                /\ leds' = SetAll(leds, GREEN, TRUE)
             \/ /\ leds' = SetAll(leds, RED, TRUE)
                /\ UNCHANGED <<waypoints, tracks, crossing>>
  /\ UNCHANGED <<now, button, machine, wp_next, wp_last, eeprom, gps, tap, carry>>

ClearPress ==
  /\ pc = "clear"
  /\ pbFlag' = 0
  /\ pc' = "nmea"
  /\ UNCHANGED <<now, pin, last_interrupt_time, edges,
                 machine, course, gps, leds, ghosts>>

\* Mutated form of SwitchRace: a press does not restart the hold timer.
SwitchRaceStale ==
  /\ pc = "switch" /\ current_state = ST_RACE
  /\ resetFlag' = IF pbFlag = 1 THEN 1 ELSE resetFlag
  /\ pbFlag' = 0
  /\ pbTimer' = IF pbTimer = -1 THEN now ELSE pbTimer
  /\ pc' = "hold"
  /\ UNCHANGED <<now, pin, last_interrupt_time, edges,
                 current_state, next_state, bootFlag, resetTimer,
                 course, gps, leds, ghosts>>

\* case ST_RACE, first half: a press starts the hold timer.
SwitchRace ==
  /\ pc = "switch" /\ current_state = ST_RACE
  /\ IF pbFlag = 1
     THEN resetFlag' = 1 /\ pbFlag' = 0 /\ pbTimer' = now
     ELSE /\ pbTimer' = IF pbTimer = -1 THEN now ELSE pbTimer
          /\ UNCHANGED <<resetFlag, pbFlag>>
  /\ pc' = "hold"
  /\ UNCHANGED <<now, pin, last_interrupt_time, edges,
                 current_state, next_state, bootFlag, resetTimer,
                 course, gps, leds, ghosts>>

\* Mutated form of HoldCheck: the loop waits for the button to be released.
HoldCheckBlocks ==
  /\ pc = "hold"
  /\ pin = "high"
  /\ pc' = "nmea"
  /\ UNCHANGED <<now, button, machine, course, gps, leds, ghosts>>

\* case ST_RACE, second half: the button is down and has been long enough.
HoldCheck ==
  /\ pc = "hold"
  /\ IF pin = "low" /\ resetFlag = 1 /\ now - pbTimer > HoldTime
     THEN /\ waypoints' = ResetAll(waypoints)
          /\ crossing' = Disarmed
          /\ resetFlag' = 0
          /\ tap' = [tap EXCEPT !.pending = TRUE]
     ELSE UNCHANGED <<waypoints, crossing, resetFlag, tap>>
  /\ pc' = "nmea"
  /\ UNCHANGED <<now, button, current_state, next_state, bootFlag, pbTimer,
                 resetTimer, tracks, wp_next, wp_last, eeprom, gps, leds, carry>>

-----------------------------------------------------------------------------
\* if (GPS.newNMEAreceived())

NoNewNMEA ==
  /\ pc = "nmea" /\ line = NoLine
  /\ pc' = "update"
  /\ UNCHANGED <<now, button, machine, course, gps, leds, ghosts>>

\* parse returns false and loop() returns at once, without ledUpdate.  An RMC
\* line may be refused after its fix flag has been taken.
ParseFails ==
  /\ pc = "nmea" /\ line = BadLine
  /\ current_state' = next_state
  /\ line' = NoLine
  /\ fix' \in {fix} \cup Fixes
  /\ pc' = "read"
  /\ UNCHANGED <<now, button, next_state, bootFlag, resetFlag, pbTimer, resetTimer,
                 course, fixquality, speed, output, leds, ghosts>>

\* The part every parsed line shares: the state is taken over, a GGA line
\* gives the fix quality, an RMC line the fix flag and the speed.
Parse ==
  /\ pc = "nmea" /\ line.type \in {"GGA", "RMC"}
  /\ current_state' = next_state
  /\ line' = NoLine
  /\ IF line.type = "GGA"
     THEN fixquality' = line.quality /\ UNCHANGED <<fix, speed>>
     ELSE fix' = line.fix /\ speed' = line.speed /\ UNCHANGED fixquality
  /\ UNCHANGED <<now, button, bootFlag, resetFlag, pbTimer, output>>

NoFix ==
  /\ Parse /\ ~fix'
  /\ pc' = "update"
  /\ UNCHANGED <<next_state, resetTimer, course, leds, ghosts>>

\* The track with the new point, before the handlers look at it.
NewTrack == PushTrack(tracks, [t |-> now, v |-> speed'])

TrackOnly ==
  /\ Parse /\ fix'
  /\ next_state = ST_RESET
  /\ tracks' = NewTrack
  /\ pc' = "update"
  /\ UNCHANGED <<next_state, resetTimer, waypoints, wp_next, wp_last, eeprom,
                 leds, ghosts>>

\* case ST_INIT and ST_WPSET, gate 0 not crossed.
NotCrossed ==
  /\ Parse /\ fix'
  /\ next_state \in {ST_INIT, ST_WPSET}
  /\ tracks' = NewTrack
  /\ pc' = "update"
  /\ UNCHANGED <<next_state, resetTimer, waypoints, wp_next, wp_last, eeprom,
                 leds, ghosts>>

\* myWaypoints[0] of an empty vector: NotCrossed, or, when what is found there
\* counts as crossed, a write through it; from then on nothing is known.
EmptyCourse ==
  /\ Parse /\ fix'
  /\ next_state \in {ST_INIT, ST_WPSET}
  /\ waypoints = << >>
  /\ pc' = "undefined"
  /\ UNCHANGED <<next_state, resetTimer, course, leds, ghosts>>

\* case ST_INIT, gate 0 crossed: the race starts.
StartRace(adj) ==
  /\ Parse /\ fix'
  /\ next_state = ST_INIT /\ waypoints # << >>
  /\ adj \in Crossings(NewTrack)
  /\ waypoints' = [waypoints EXCEPT ![1] =
                     [Crossed(@, adj, MeanSpeed(NewTrack)) EXCEPT !.last = now + adj]]
  /\ tracks' = << >>
  /\ leds' = StartLights(leds)
  /\ next_state' = ST_RACE
  /\ wp_last' = 0
  /\ wp_next' = Following(0)
  /\ pc' = "update"
  /\ crossing' = [crossing EXCEPT ![1].at = now + adj, ![1].armed = TRUE]
  /\ tap' = [tap EXCEPT !.pending = FALSE]
  /\ carry' = FALSE
  /\ UNCHANGED <<resetTimer, eeprom>>

\* Waypoint wp_next is crossed after wp_last, with the given adjustment:
\* intersection and then checkSplit, which takes a copy of waypoint wp_last.
CrossedCourse(adj) ==
  LET ws == [waypoints EXCEPT ![wp_next + 1] =
               Crossed(@, adj, MeanSpeed(NewTrack))]
  IN  [ws EXCEPT ![wp_next + 1] =
         CheckSplit(@, ws[wp_last + 1], ws[1].last, now)]

\* The history of that crossing.
RecordCrossing(adj) ==
  crossing' = [crossing EXCEPT
    ![wp_next + 1] =
      [at |-> now + adj, armed |-> TRUE,
       splits |-> @.splits
         \cup {CrossedCourse(adj)[wp_next + 1].last - waypoints[wp_last + 1].last}]]

\* case ST_WPSET, gate 0 crossed: the course is stored and the race starts.
FinishService(adj) ==
  /\ Parse /\ fix'
  /\ next_state = ST_WPSET /\ waypoints # << >>
  /\ adj \in Crossings(NewTrack)
  /\ waypoints' = CrossedCourse(adj)
  /\ RecordCrossing(adj)
  /\ tracks' = << >>
  /\ leds' = ServiceLights(leds)
  /\ eeprom' = Len(waypoints)
  /\ next_state' = ST_RACE
  /\ wp_last' = 0
  /\ wp_next' = Following(0)
  /\ pc' = "update"
  /\ UNCHANGED <<resetTimer, tap, carry>>

\* case ST_RACE.  resetTimer is a static local: initialized on the first line
\* handled here and never again.
Racing ==
  /\ Parse /\ fix'
  /\ next_state = ST_RACE
  /\ pc' = "update"

ResetTimer == IF resetTimer = -1 THEN now ELSE resetTimer

\* The waypoint wp_next is crossed: the split is taken and shown.
CrossGate(adj) ==
  /\ Racing
  /\ adj \in Crossings(NewTrack)
  /\ resetTimer' = ResetTimer
  /\ waypoints' = CrossedCourse(adj)
  /\ RecordCrossing(adj)
  /\ tracks' = << >>
  /\ leds' = Feedback(leds, waypoints'[wp_next + 1])
  /\ wp_last' = wp_next
  /\ wp_next' = Following(wp_next)
  /\ tap' = [tap EXCEPT !.pending = @ /\ wp_next # 0]
  /\ UNCHANGED <<next_state, eeprom, carry>>

\* No crossing while the speed is above one knot.
Moving ==
  /\ Racing
  /\ speed' > 1
  /\ resetTimer' = now
  /\ tracks' = NewTrack
  /\ UNCHANGED <<next_state, waypoints, wp_next, wp_last, eeprom, leds, ghosts>>

AtStandstill == now - ResetTimer > Standstill /\ ResetTimer # 0

Slow ==
  /\ Racing
  /\ speed' <= 1 /\ ~AtStandstill
  /\ resetTimer' = ResetTimer
  /\ tracks' = NewTrack
  /\ UNCHANGED <<next_state, waypoints, wp_next, wp_last, eeprom, leds, ghosts>>

\* Mutated form of EndRace: the race is reset but goes on.
EndRaceStays ==
  /\ Racing
  /\ speed' <= 1 /\ AtStandstill
  /\ resetTimer' = ResetTimer
  /\ tracks' = NewTrack
  /\ waypoints' = ResetAll(waypoints)
  /\ leds' = BlinkAll(leds, GREEN, FALSE)
  /\ crossing' = Disarmed
  /\ UNCHANGED <<next_state, wp_next, wp_last, eeprom, tap, carry>>

\* The race is over: back to ST_INIT.  carry records a light that blinks
\* green with a time limit already, so that blinkContinuous does nothing.
EndRace ==
  /\ Racing
  /\ speed' <= 1 /\ AtStandstill
  /\ resetTimer' = ResetTimer
  /\ tracks' = NewTrack
  /\ waypoints' = ResetAll(waypoints)
  /\ next_state' = ST_INIT
  /\ leds' = BlinkAll(leds, GREEN, FALSE)
  /\ crossing' = Disarmed
  /\ carry' = (\E i \in LEDs : leds[i].blink = GREEN /\ leds[i].timed)
  /\ UNCHANGED <<wp_next, wp_last, eeprom, tap>>

-----------------------------------------------------------------------------
\* ledUpdate(myLEDs); current_state = next_state;
LedUpdate ==
  /\ pc = "update"
  /\ leds' \in {ls \in [LEDs -> UNION {ViewUpdates(leds[i]) : i \in LEDs}] :
                  \A i \in LEDs : ls[i] \in ViewUpdates(leds[i])}
  /\ current_state' = next_state
  /\ pc' = "read"
  /\ UNCHANGED <<now, button, next_state, bootFlag, resetFlag, pbTimer, resetTimer,
                 course, gps, ghosts>>

\* The model stops where the code's behaviour is undefined.
Undefined == pc = "undefined" /\ UNCHANGED vars

Handler ==
  \/ NoFix \/ TrackOnly \/ NotCrossed \/ EmptyCourse \/ Moving \/ Slow \/ EndRace
  \/ \E adj \in -MaxTime .. 0 :
       StartRace(adj) \/ FinishService(adj) \/ CrossGate(adj)

\* switch(current_state): what every pass does in a state, line or no line.
Switch ==
  \/ BootService \/ BootRelease \/ SwitchReset \/ SwitchInit
  \/ SwitchWpset \/ ClearPress \/ SwitchRace \/ HoldCheck

LoopStep ==
  \/ ReadNothing
  \/ \E g \in Gaps, l \in Lines : ReadLine(g, l)
  \/ Switch
  \/ NoNewNMEA \/ ParseFails \/ Handler \/ LedUpdate

Next == Press \/ Release \/ BootWait \/ LoopStep \/ Undefined

\* loop() is called for ever.
Spec == Init /\ [][Next]_vars /\ WF_vars(LoopStep)

-----------------------------------------------------------------------------
Times == 0 .. MaxTime

\* Type invariant.
TypeOK ==
  /\ now \in Times
  /\ pc \in {"read", "switch", "boot", "hold", "clear", "nmea", "update", "undefined"}
  /\ pin \in {"low", "high"} /\ pbFlag \in {0, 1}
  /\ last_interrupt_time \in Times /\ edges \in 0 .. MaxEdges
  /\ current_state \in {ST_RESET, ST_INIT, ST_WPSET, ST_RACE}
  /\ next_state \in {ST_RESET, ST_INIT, ST_WPSET, ST_RACE}
  /\ bootFlag \in {0, 1} /\ resetFlag \in {0, 1}
  /\ pbTimer \in {-1} \cup Times /\ resetTimer \in {-1} \cup Times
  /\ \A i \in DOMAIN waypoints : waypoints[i] \in WaypointRecord
  /\ Len(tracks) < max_tracksize
  /\ \A i \in DOMAIN tracks : tracks[i].t \in Times /\ tracks[i].v \in Nat
  /\ wp_next \in Nat /\ wp_last \in Nat /\ eeprom \in Nat
  /\ fix \in BOOLEAN /\ fixquality \in Nat /\ speed \in Nat
  /\ leds \in [LEDs -> View]
  /\ DOMAIN crossing = DOMAIN waypoints

InRace == current_state = ST_RACE /\ next_state = ST_RACE

\* While a race runs, the two indices name two neighbouring waypoints of the
\* course that is in the EEPROM: the subscripts of loop() never leave the
\* vector, through restarts, manual resets and races started from service
\* mode.
RaceOnStoredCourse ==
  InRace => /\ Len(waypoints) = eeprom
            /\ wp_next < Len(waypoints) /\ wp_last < Len(waypoints)
            /\ wp_next = IF wp_last + 1 = Len(waypoints) THEN 0 ELSE wp_last + 1

\* The next split and the next lap are measured from crossings of this race,
\* never from the zero that reset() writes; the exception is the stretch
\* after a reset by the button, which goes on racing with last = 0.
SplitHasStart ==
  InRace => tap.pending \/ (crossing[wp_last + 1].armed /\ crossing[1].armed)

Abs(n) == IF n < 0 THEN -n ELSE n

\* The recorded time of a crossing is off by at most the time that a track
\* of three points spans, although checkSplit corrects it by the adjustment
\* of the waypoint before; on a course of one waypoint it is exact.
CrossingTimeBound ==
  \A i \in DOMAIN crossing : crossing[i].armed =>
    Abs(waypoints[i].last - crossing[i].at)
      <= IF Len(waypoints) = 1 THEN 0 ELSE (max_tracksize - 2) * Max(Gaps)

\* With lines at a steady rate no split is negative: clearing the track after
\* a crossing keeps two crossings far enough apart for the stale adjustment.
SplitsNotNegative ==
  \A i \in DOMAIN crossing : \A d \in crossing[i].splits : d >= 0

\* The best split is the least one since the last reset.  A split of zero
\* is excepted: checkSplit takes a best of zero for "none yet".
BestIsLeast ==
  \A i \in DOMAIN crossing :
    LET s == crossing[i].splits
    IN  s # {} /\ 0 \notin s => waypoints[i].split_best = Min(s)

\* A light that turns green at a crossing of a race tells the truth: this
\* split beats every split of the waypoint since the last reset, by more than
\* the tolerance in the Single_Split sketch.  Single_Speed compares speeds.
GreenIsBestStep ==
  /\ Sketch # "Single_Speed" /\ InRace
  /\ crossing' # crossing /\ crossing'[wp_next + 1].armed
  /\ leds'["SPLT"].state = GREEN
  /\ 0 \notin crossing[wp_next + 1].splits
  => \A d \in crossing[wp_next + 1].splits :
       crossing'[wp_next + 1].splits # crossing[wp_next + 1].splits
       /\ waypoints'[wp_next + 1].split_best
            + (IF Sketch = "Single_Split" THEN Margin ELSE 0) < d
GreenIsBest == [][GreenIsBestStep]_vars

\* The button resets a race only after it was held for HoldTime, or else
\* because its edge fell between the two tests of one pass, or the interrupt
\* took it for a bounce, while resetFlag was left over from an earlier tap.
ResetNeedsHoldStep ==
  resetFlag = 1 /\ resetFlag' = 0
  => now - tap.since > HoldTime \/ pbFlag = 1 \/ ~tap.heard
ResetNeedsHold == [][ResetNeedsHoldStep]_vars

\* Waiting for the start, both lights blink green without a time limit,
\* unless a race ended while the green feedback was still blinking: then
\* blinkContinuous did nothing and the lights go dark with the feedback.
ReadyIsGreen ==
  current_state = ST_INIT /\ next_state = ST_INIT /\ ~carry =>
    \A i \in LEDs : leds[i].blink = GREEN /\ ~leds[i].timed

\* A press accepted by the interrupt is acted on by loop() if it comes in a
\* race that goes on.
PressIsHeard ==
  pbFlag = 1 /\ current_state = ST_RACE
    ~> pbFlag = 0 \/ current_state # ST_RACE \/ pc = "undefined"
=============================================================================
