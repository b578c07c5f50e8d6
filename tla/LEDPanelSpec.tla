---------------------------- MODULE LEDPanelSpec ----------------------------
(***************************************************************************)
(* The abstract specification of a light: what set, blinkContinuous and    *)
(* ledUpdate may do to it.  LEDPanel implements it.                        *)
(***************************************************************************)
EXTENDS LEDView

VARIABLE view

Init == view = Dark

SetLight   == \E c \in Color, temp \in BOOLEAN : view' = ViewSet(view, c, temp)
BlinkLight == \E c \in Color \ {OFF}, timed \in BOOLEAN :
                 view' = ViewBlink(view, c, timed)
UpdateLight == view' \in ViewUpdates(view)

Next == SetLight \/ BlinkLight \/ UpdateLight

Spec == Init /\ [][Next]_view
=============================================================================
