------------------------------- MODULE Stepper -------------------------------
(***************************************************************************)
(* libraries/Stepper: a stepper motor on two or four pins.  step() waits   *)
(* in a loop until the delay since the last step has passed, on a clock    *)
(* that wraps.                                                             *)
(***************************************************************************)
EXTENDS Integers, Sequences

CONSTANTS
  Motors,     \* the number_of_steps of the motor
  Moves,
  Wrap,       \* the clock counts modulo Wrap (2^32)
  Delay       \* step_delay, from setSpeed

VARIABLES
  motor,      \* step_number, direction, last_step_time, number_of_steps, pin_count
  clock,      \* millis
  stepsLeft,  \* of the step call under way
  coils,      \* the pins, or none yet
  shaft,      \* history: the net steps taken, modulo number_of_steps
  waited      \* history: the time since the last step, no further than Delay

stepperVars == <<motor, clock, stepsLeft, coils, shaft, waited>>

Init ==
  /\ \E n \in Motors, pins \in {2, 4} :
       motor = [step_number |-> 0, direction |-> 0, last_step_time |-> 0, number_of_steps |-> n,
                pin_count |-> pins]
  /\ clock \in 0 .. Wrap - 1
  /\ stepsLeft = 0 /\ coils = <<>> /\ shaft = 0 /\ waited = Delay

\* stepMotor: the levels of motor_pin_1, motor_pin_2, ...
stepMotor(pins, thisStep) ==
  IF pins = 2 THEN <<<<0, 1>>, <<1, 1>>, <<1, 0>>, <<0, 0>>>>[thisStep + 1]
  ELSE <<<<1, 0, 1, 0>>, <<0, 1, 1, 0>>, <<0, 1, 0, 1>>, <<1, 0, 0, 1>>>>[thisStep + 1]

\* Mutated form of Forward: the wrap comes one step early.
ForwardEarly(m) == IF m.step_number + 2 = m.number_of_steps THEN 0 ELSE m.step_number + 1

Forward(m) == IF m.step_number + 1 = m.number_of_steps THEN 0 ELSE m.step_number + 1

\* Mutated form of Backward: from 0 to number_of_steps itself.
BackwardLate(m) == IF m.step_number = 0 THEN m.number_of_steps ELSE m.step_number - 1

Backward(m) == (IF m.step_number = 0 THEN m.number_of_steps ELSE m.step_number) - 1

\* Mutated form of DelayPassed: the clock is compared with a deadline, which wraps.
DelayPassedDeadline(last) == clock >= (last + Delay) % Wrap

\* millis() - last_step_time >= step_delay, unsigned.
DelayPassed(last) == (clock - last) % Wrap >= Delay

step(n) ==
  /\ stepsLeft = 0 /\ n # 0
  /\ stepsLeft' = IF n < 0 THEN -n ELSE n
  /\ motor' = [motor EXCEPT !.direction = IF n > 0 THEN 1 ELSE 0]
  /\ UNCHANGED <<clock, coils, shaft, waited>>

\* One round of the loop in step() that moves the motor.
oneStep ==
  /\ stepsLeft > 0 /\ DelayPassed(motor.last_step_time)
  /\ \E next \in {IF motor.direction = 1 THEN Forward(motor) ELSE Backward(motor)} :
       /\ motor' = [motor EXCEPT !.step_number = next, !.last_step_time = clock]
       /\ coils' = stepMotor(motor.pin_count, next % 4)
  /\ stepsLeft' = stepsLeft - 1
  /\ shaft' = (shaft + (IF motor.direction = 1 THEN 1 ELSE -1)) % motor.number_of_steps
  /\ waited' = 0
  /\ UNCHANGED clock

Tick ==
  /\ clock' = (clock + 1) % Wrap
  /\ waited' = IF waited < Delay THEN waited + 1 ELSE waited
  /\ UNCHANGED <<motor, stepsLeft, coils, shaft>>

Next == (\E n \in Moves : step(n)) \/ oneStep \/ Tick

Spec == Init /\ [][Next]_stepperVars
-----------------------------------------------------------------------------
\* Two steps are never closer than the delay, also when the clock wraps between them (the
\* unsigned difference in step).
StepsSpacedStep == coils' # coils => waited = Delay
StepsSpaced == [][StepsSpacedStep]_stepperVars

\* step_number is the position of the shaft within a turn, through moves in both directions
\* and the wrap at the end of a turn (step).
PositionIsNet == motor.step_number = shaft

\* Each step moves the field by one position, forward or back as asked: no jump at the end
\* of a turn, for a motor whose steps are a multiple of four (step, stepMotor).
NeighbouringCoilsStep ==
  coils' # coils /\ coils # <<>> /\ motor.number_of_steps % 4 = 0 =>
    \E i \in 0 .. 3 : /\ coils = stepMotor(motor.pin_count, i)
                      /\ coils' = stepMotor(motor.pin_count, (i + (IF motor.direction = 1 THEN 1 ELSE 3)) % 4)
NeighbouringCoils == [][NeighbouringCoilsStep]_stepperVars
=============================================================================
