------------------------------ MODULE LEDPanel ------------------------------
(***************************************************************************)
(* The class LED of libraries/SpeedFeed: a two-colour light that is steady,*)
(* shows a colour for a while, or blinks.  A light is a record; every      *)
(* method is an operator from the light, its arguments and the value       *)
(* millis() returns to the light afterwards.  The two pins always follow   *)
(* state (setPins writes both and then state): Pins gives their levels.    *)
(*                                                                         *)
(* millis() is unsigned and wraps.  The light's stamps are signed ints,    *)
(* but each difference with millis() is computed in unsigned arithmetic.   *)
(*                                                                         *)
(* One light of the panel is driven by a sketch: between two passes of     *)
(* loop() it may call set and blinkContinuous; every pass ends in          *)
(* ledUpdate.  A pass takes up to MaxLoop milliseconds.                    *)
(*                                                                         *)
(* age, phaseAge, base and nested are history variables: they measure real *)
(* time, which does not wrap, and what the sketch asked for last.          *)
(***************************************************************************)
EXTENDS LEDView

CONSTANTS
  W,           \* modulus of millis(): 2^32 in the build
  Durations,   \* the dT of set, 0 included
  BlinkTimes,  \* the high, low and timeLimit of blinkContinuous: triples
  MaxLoop,     \* longest time between two calls of ledUpdate
  AgeCap       \* ages are counted up to this bound

ASSUME WAssumption == W \in Nat \ {0}

ASSUME PanelAssumption ==
  /\ Durations \subseteq Nat
  /\ BlinkTimes \subseteq Nat \X Nat \X Nat
  /\ MaxLoop \in Nat
  /\ AgeCap \in Nat

\* For TLC: a blink for ever, and one with a limit of 4 ticks and unequal halves.
MCBlinkTimes == {<<1, 1, 0>>, <<1, 2, 4>>}

\* A duration and the passes around its end fit in the clock.
Fits(n) == n + MaxLoop + 2 < W

ASSUME TimesFit ==
  /\ \A dT \in Durations : Fits(dT)
  /\ \A bt \in BlinkTimes : Fits(bt[3])

-----------------------------------------------------------------------------
(* The methods of a light.                                                 *)

Clock == 0 .. W - 1

Light == [state : Color, blink : Color, next_state : Color,
          highTime : Nat, lowTime : Nat, endTime : Nat,
          startTime : Clock, blinkStartTime : Clock]

\* setPins: the levels of pinRed and pinGrn; yellow is both.
Pins(ledState) == [pinRed |-> ledState \in {RED, YELLOW},
                   pinGrn |-> ledState \in {GREEN, YELLOW}]

\* Mutated form of Since: signed subtraction, as if millis() never wrapped.
SinceSigned(t, stamp) == t - stamp

\* unsigned long subtraction of a stamp from a later reading of millis()
Since(t, stamp) == (t - stamp) % W

\* The constructor: lowTime, endTime and blinkStartTime stay uninitialized.
NewLED(initState, t, junk) ==
  [state |-> initState, blink |-> OFF, next_state |-> initState,
   highTime |-> 0, lowTime |-> junk, endTime |-> junk,
   startTime |-> t, blinkStartTime |-> junk]

\* Mutated form of Set: the colour to return to is not saved.
SetForgets(led, ledState, dT, t) ==
  [led EXCEPT !.blink = OFF, !.highTime = dT, !.startTime = t,
              !.state = ledState, !.next_state = ledState]

\* LED::set: a colour for good (dT = 0) or for dT milliseconds.
Set(led, ledState, dT, t) ==
  LET stopped == IF led.blink # OFF
                 THEN [led EXCEPT !.blink = OFF, !.state = OFF]
                 ELSE led
  IN  [stopped EXCEPT
         !.highTime   = dT,
         !.startTime  = t,
         !.state      = ledState,
         !.next_state = IF dT = 0 THEN ledState ELSE stopped.state]

\* Mutated form of BlinkContinuous: next_state is not armed.
BlinkUnarmed(led, color, high, low, timeLimit, t) ==
  [led EXCEPT !.blink = color, !.lowTime = low, !.highTime = high,
              !.startTime = t, !.blinkStartTime = t, !.endTime = timeLimit,
              !.state = color]

\* LED::blinkContinuous: does nothing when the light blinks that colour
\* already; timeLimit = 0 means for ever.
BlinkContinuous(led, color, high, low, timeLimit, t) ==
  IF led.blink = color
  THEN led
  ELSE [led EXCEPT
          !.blink = color, !.lowTime = low, !.highTime = high,
          !.startTime = t, !.blinkStartTime = t, !.endTime = timeLimit,
          !.state = color, !.next_state = OFF]

\* The time limit of a blinking light has passed: dark from now on.
EndBlink(led, t) ==
  IF led.endTime # 0 /\ Since(t, led.startTime) > led.endTime
  THEN [led EXCEPT !.blink = OFF, !.next_state = OFF, !.state = OFF]
  ELSE led

\* Mutated form of ToggleBlink: a toggle does not restart the phase.
ToggleKeepsPhase(led, t, u) ==
  IF Since(t, led.blinkStartTime) >
       IF led.state # OFF THEN led.highTime ELSE led.lowTime
  THEN [led EXCEPT !.state = led.next_state,
                   !.next_state = IF led.state # OFF THEN led.blink ELSE OFF]
  ELSE led

\* Mutated form of ToggleBlink: the stamp is computed instead of read.
ToggleUnwrapped(led, t, u) ==
  IF led.state # OFF /\ Since(t, led.blinkStartTime) > led.highTime
  THEN [led EXCEPT !.state = led.next_state, !.next_state = led.blink,
                   !.blinkStartTime = t + 1]
  ELSE led

\* The other half of a blink period: u is the second reading of millis().
ToggleBlink(led, t, u) ==
  LET phase == Since(t, led.blinkStartTime)
  IN  CASE led.state # OFF /\ phase > led.highTime ->
             [led EXCEPT !.state = led.next_state, !.next_state = led.blink,
                         !.blinkStartTime = u]
        [] led.state = OFF /\ phase > led.lowTime ->
             [led EXCEPT !.state = led.next_state, !.next_state = OFF,
                         !.blinkStartTime = u]
        [] OTHER -> led

\* One light in ledUpdate.  After EndBlink the light is dark and falls
\* through to the test of the dark phase, as in the code.
Update(led, t, u) ==
  IF led.blink # OFF
  THEN ToggleBlink(EndBlink(led, t), t, u)
  ELSE IF Since(t, led.startTime) > led.highTime
       THEN [led EXCEPT !.state = led.next_state]
       ELSE led

-----------------------------------------------------------------------------
(* The sketch.                                                             *)

VARIABLES
  now,       \* millis()
  led,       \* the light
  age,       \* time since startTime was last written
  phaseAge,  \* time since the light last changed while blinking
  base,      \* the colour the light shows when nothing is pending
  nested     \* a temporary colour was set while another was showing

vars == <<now, led, age, phaseAge, base, nested>>

Capped(n) == IF n > AgeCap THEN AgeCap ELSE n

Init ==
  /\ now \in Clock
  /\ \E junk \in Clock : led = NewLED(OFF, now, junk)
  /\ age = 0
  /\ phaseAge = 0
  /\ base = OFF
  /\ nested = FALSE

CallSet(c, dT) ==
  /\ led' = Set(led, c, dT, now)
  /\ age' = 0
  /\ phaseAge' = 0
  /\ base' = CASE dT = 0 -> c
               [] dT # 0 /\ led.blink # OFF -> OFF
               [] OTHER -> base
  /\ nested' = (dT # 0 /\ led.blink = OFF /\ (nested \/ led.state # base))
  /\ UNCHANGED now

CallBlink(c, bt) ==
  /\ led' = BlinkContinuous(led, c, bt[1], bt[2], bt[3], now)
  /\ IF led.blink = c
     THEN UNCHANGED <<age, phaseAge, base, nested>>
     ELSE age' = 0 /\ phaseAge' = 0 /\ base' = OFF /\ nested' = FALSE
  /\ UNCHANGED now

\* One pass of loop() that takes d milliseconds and ends in ledUpdate; e
\* more may pass before ledUpdate reads millis() for the second time.
LedUpdate(d, e) ==
  LET t == (now + d) % W
      u == (now + d + e) % W
  IN  /\ now' = u
      /\ led' = Update(led, t, u)
      /\ age' = Capped(age + d + e)
      /\ phaseAge' = IF led'.state # led.state
                     THEN 0 ELSE Capped(phaseAge + d + e)
      /\ UNCHANGED <<base, nested>>

Next ==
  \/ \E c \in Color, dT \in Durations : CallSet(c, dT)
  \/ \E c \in Color \ {OFF}, bt \in BlinkTimes : CallBlink(c, bt)
  \/ \E d \in 0 .. MaxLoop, e \in {0, 1} : LedUpdate(d, e)

Spec == Init /\ [][Next]_vars

-----------------------------------------------------------------------------
\* Type invariant of the light and its history.
TypeOK ==
  /\ now \in Clock
  /\ led \in Light
  /\ age \in 0 .. AgeCap
  /\ phaseAge \in 0 .. AgeCap
  /\ base \in Color
  /\ nested \in BOOLEAN

\* A blinking light is either lit in its colour and about to go dark, or
\* dark and about to show its colour (ledUpdate keeps the two fields state
\* and next_state in step across set, blinkContinuous and the time limit).
BlinkAlternates ==
  led.blink # OFF => \/ led.state = led.blink /\ led.next_state = OFF
                     \/ led.state = OFF /\ led.next_state = led.blink

\* What the last three invariants rest on.  A blinking light returns to dark;
BlinkBase == led.blink # OFF => base = OFF /\ ~nested

\* the time since startTime is measured without wrapping while a time limit
TimedBound ==
  led.blink # OFF /\ led.endTime # 0 =>
    /\ age <= Since(now, led.startTime)
    /\ Since(now, led.startTime) <= led.endTime + 1
    /\ Fits(led.endTime)

\* or a temporary colour runs, and next_state is the colour to return to.
FlashBound ==
  led.blink = OFF /\ ~nested =>
    /\ led.next_state = base
    /\ \/ led.state = base
       \/ /\ age <= Since(now, led.startTime)
          /\ Since(now, led.startTime) <= led.highTime + 1
          /\ Fits(led.highTime)

\* A blink with a time limit is over within one pass of its limit, even
\* when millis() wraps on the way (ledUpdate measures it from startTime,
\* which no toggle touches).
TimedBlinkEnds ==
  led.blink # OFF /\ led.endTime # 0 => age <= led.endTime + 1

\* A colour set for dT milliseconds gives way to the base colour, unless
\* it was set while another temporary colour was still showing: then
\* LED::set has saved that one to return to, and the base colour is lost.
FlashReturnsToBase ==
  led.blink = OFF /\ ~nested /\ age > led.highTime + 1 => led.state = base

\* No half period of a blink is cut short: the pins of a light that goes on
\* blinking change only after more than highTime lit or lowTime dark
\* milliseconds; a new call or the time limit ends the blink.
FullHalfPeriods ==
  [][led.blink # OFF /\ led'.blink = led.blink /\ Pins(led'.state) # Pins(led.state)
     => phaseAge + Since(now', now)
          > IF led.state # OFF THEN led.highTime ELSE led.lowTime]_vars

-----------------------------------------------------------------------------
\* What the sketch sees of the light.
ViewOf(l) == [state |-> l.state, blink |-> l.blink, next_state |-> l.next_state,
              timed |-> l.blink # OFF /\ l.endTime # 0]

Abstract == INSTANCE LEDPanelSpec WITH view <- ViewOf(led)

\* The timed light does to the sketch only what the abstract one promises:
\* every call and every ledUpdate is a step of LEDPanelSpec.
ImplementsView == Abstract!Spec
=============================================================================
