-------------------------- MODULE FiniteStateMachine --------------------------
(***************************************************************************)
(* libraries/FSM: states with enter, update and exit callbacks, and a      *)
(* machine that moves between them.  A callback may itself ask for a       *)
(* transition by transitionTo; it runs inside update or                    *)
(* immediateTransitionTo.  An enter or update callback that calls          *)
(* immediateTransitionTo is the last thing its caller does: the two calls  *)
(* are two actions here.  From an exit callback that would leave the state *)
(* twice over, by recursion; it is not modelled.                           *)
(***************************************************************************)
EXTENDS Integers

CONSTANTS
  States,
  NoState,     \* a callback that asks for nothing
  MaxTime      \* bound: the clock

Requests == States \cup {NoState}

VARIABLES
  fsm,        \* needToTriggerEnter, currentState, nextState, stateChangeTime
  millis,
  entered,    \* history: by state, how often it was entered less how often it was left
  early,      \* history: immediateTransitionTo was called before the first update
  wanted      \* history: the state last asked for, except by an exit callback

fsmVars == <<fsm, millis, entered, early, wanted>>

Init ==
  /\ \E s \in States :
       /\ fsm = [needToTriggerEnter |-> TRUE, currentState |-> s, nextState |-> s, stateChangeTime |-> 0]
       /\ wanted = s
  /\ millis = 0 /\ early = FALSE
  /\ entered = [s \in States |-> 0]

-----------------------------------------------------------------------------
\* Mutated form of Requested: the first of two requests is kept.
RequestedFirst(m, s) ==
  IF s = NoState \/ m.nextState # m.currentState THEN m
  ELSE [m EXCEPT !.nextState = s, !.stateChangeTime = millis]

\* transitionTo, or a callback that calls it.
Requested(m, s) == IF s = NoState THEN m ELSE [m EXCEPT !.nextState = s, !.stateChangeTime = millis]
Wanted(w, s) == IF s = NoState THEN w ELSE s

\* immediateTransitionTo: exit, the new state in both pointers, enter.  What the exit
\* callback asked for is overwritten, what the enter callback asks for stays.
Moved(m, s, onExit, onEnter) ==
  [Requested([Requested(m, onExit) EXCEPT !.currentState = s, !.nextState = s], onEnter)
     EXCEPT !.stateChangeTime = millis]

\* Mutated form of Passed: the state left is not told.
PassedNoExit(e, from, to) == [e EXCEPT ![to] = @ + 1]

\* userExit of one state, userEnter of the other.
Passed(e, from, to) == [[e EXCEPT ![from] = @ - 1] EXCEPT ![to] = @ + 1]

transitionTo(s) ==
  /\ fsm' = Requested(fsm, s) /\ wanted' = s
  /\ UNCHANGED <<millis, entered, early>>

immediateTransitionTo(s, onExit, onEnter) ==
  /\ fsm' = Moved(fsm, s, onExit, onEnter)
  /\ wanted' = Wanted(s, onEnter)
  /\ early' = (early \/ fsm.needToTriggerEnter)
  /\ entered' = IF early' THEN entered ELSE Passed(entered, fsm.currentState, s)
  /\ UNCHANGED millis

\* update: the first one only enters; the others move if asked to, then run userUpdate.
firstUpdate(onEnter) ==
  /\ fsm.needToTriggerEnter
  /\ fsm' = [Requested(fsm, onEnter) EXCEPT !.needToTriggerEnter = FALSE]
  /\ entered' = [entered EXCEPT ![fsm.currentState] = @ + 1]
  /\ wanted' = Wanted(wanted, onEnter)
  /\ UNCHANGED <<millis, early>>

update(onExit, onEnter, onUpdate) ==
  LET moves == fsm.currentState # fsm.nextState
      now == IF moves THEN Moved(fsm, fsm.nextState, onExit, onEnter) ELSE fsm
      asked == IF moves THEN Wanted(fsm.nextState, onEnter) ELSE wanted
  IN  /\ ~fsm.needToTriggerEnter
      /\ fsm' = Requested(now, onUpdate)
      /\ entered' = IF moves /\ ~early THEN Passed(entered, fsm.currentState, fsm.nextState) ELSE entered
      /\ wanted' = Wanted(asked, onUpdate)
      /\ UNCHANGED <<millis, early>>

Tick == millis < MaxTime /\ millis' = millis + 1 /\ UNCHANGED <<fsm, entered, early, wanted>>

Next ==
  \/ Tick
  \/ \E s \in States :
       \/ transitionTo(s)
       \/ \E x, e \in Requests : immediateTransitionTo(s, x, e)
  \/ \E e \in Requests : firstUpdate(e)
  \/ \E x, e, u \in Requests : update(x, e, u)

Spec == Init /\ [][Next]_fsmVars
-----------------------------------------------------------------------------
\* Enter and exit callbacks pair up: after the first update the current state has been
\* entered once more than left and every other one as often; unless
\* immediateTransitionTo came before the first update, which then enters a second time.
EnterExitPaired ==
  ~early => \A s \in States :
              entered[s] = IF s = fsm.currentState /\ ~fsm.needToTriggerEnter THEN 1 ELSE 0

\* Every update after the first one makes the state current that was asked for last,
\* whoever asked: the program, or an enter or update callback (update, transitionTo).  What
\* an exit callback asks for is lost: immediateTransitionTo overwrites it (line 98).
LastRequestServedStep ==
  ~fsm.needToTriggerEnter /\ (\E x, e, u \in Requests : update(x, e, u))
    => fsm'.currentState = wanted \/ fsm'.currentState = wanted'
LastRequestServed == [][LastRequestServedStep]_fsmVars
=============================================================================
