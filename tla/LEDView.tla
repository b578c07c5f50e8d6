------------------------------ MODULE LEDView ------------------------------
(***************************************************************************)
(* What a sketch can rely on about a light of libraries/SpeedFeed, without *)
(* the times: the colour shown, the colour it blinks in (OFF: it does not),*)
(* the colour it shows next, and whether the blink has a time limit.       *)
(* ledUpdate may change the light at any pass; LEDPanel says when.         *)
(***************************************************************************)
EXTENDS Integers

OFF    == 0
RED    == 1
GREEN  == 2
YELLOW == 3

Color == {OFF, RED, GREEN, YELLOW}

View == [state : Color, blink : Color, next_state : Color, timed : BOOLEAN]

Dark == [state |-> OFF, blink |-> OFF, next_state |-> OFF, timed |-> FALSE]

\* LED::set with dT = 0 (temp = FALSE) or dT # 0 (temp = TRUE)
ViewSet(v, c, temp) ==
  [state |-> c, blink |-> OFF, timed |-> FALSE,
   next_state |-> CASE ~temp -> c
                    [] temp /\ v.blink # OFF -> OFF
                    [] OTHER -> v.state]

\* LED::blinkContinuous with (timed) or without a time limit
ViewBlink(v, c, timed) ==
  IF v.blink = c
  THEN v
  ELSE [state |-> c, blink |-> c, next_state |-> OFF, timed |-> timed]

\* The two halves of a blink period change places.
ViewToggle(v) == [state |-> v.next_state, blink |-> v.blink,
                  next_state |-> v.state, timed |-> v.timed]

\* ledUpdate: nothing is due, the next half period or the colour to return
\* to is due, or the time limit has passed.
ViewUpdates(v) ==
  {v} \cup
  (IF v.blink = OFF
   THEN {[v EXCEPT !.state = v.next_state]}
   ELSE {ViewToggle(v)}
          \cup (IF v.timed THEN {Dark} ELSE {}))
=============================================================================
