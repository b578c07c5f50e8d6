-------------------------------- MODULE Servo --------------------------------
(***************************************************************************)
(* libraries/Servo: the pulses of all servos on one timer.  The compare    *)
(* interrupt ends the pulse of one channel and starts the next; after the  *)
(* last channel it waits for the refresh interval.  The program creates,   *)
(* attaches, detaches and writes servos between any two interrupts.        *)
(*                                                                         *)
(* The timer counts half microseconds (16 MHz, prescaler 8); the interrupt *)
(* finds it at the compare match.  Integers of the program are 16 bit.     *)
(***************************************************************************)
EXTENDS Integers, FiniteSets

CONSTANTS
  Objects,      \* the Servo objects a program creates
  MAX_SERVOS,   \* 12 on one timer
  Pins,
  Angles,       \* arguments of write
  Limits,       \* the <<min, max>> of attach; those of an int8_t in steps of 4
  MaxCalls      \* bound: calls of attach, detach and write

MIN_PULSE_WIDTH == 544
MAX_PULSE_WIDTH == 2400
DEFAULT_PULSE_WIDTH == 1500
TRIM_DURATION == 2
INVALID_SERVO == 255
Span == 65536

usToTicks(us) == 2 * us
ticksToUs(ticks) == ((8 * ticks) % Span) \div 16
RefreshTicks == usToTicks(20000)

VARIABLES
  servos, ServoCount,   \* by index: pin, isActive, ticks
  object,               \* of each object: servoIndex, min, max
  Channel, OCRnA,
  timerOn,              \* the compare interrupt is enabled
  attaching,            \* where the program is in attach
  level,                \* the pins that are high
  pulse,                \* history: the pulse under way: its channel, the ticks it should
                        \* last, when it began, and whether attach or detach met it
  left,                 \* history: the pins whose servo was moved or detached while they were high
  late,                 \* history: how much longer the last undisturbed pulse was than it should be
  calls,                \* bounded by MaxCalls
  misread               \* history: the angle read back after the last write of one, less the angle

servoVars == <<servos, ServoCount, object, Channel, OCRnA, timerOn, attaching, level,
               pulse, left, late, calls, misread>>

NoPulse == [channel |-> -1, ticks |-> 0, since |-> 0, met |-> FALSE]
NoAttach == [obj |-> "none", step |-> "none"]

\* C: division rounds to zero, an int8_t keeps 8 bits.
Div(a, b) == IF a >= 0 THEN a \div b ELSE -((-a) \div b)
Int8(n) == ((n + 128) % 256) - 128
map(x, inMin, inMax, outMin, outMax) == Div((x - inMin) * (outMax - outMin), inMax - inMin) + outMin

SERVO_MIN(o) == MIN_PULSE_WIDTH - object[o].min * 4
SERVO_MAX(o) == MAX_PULSE_WIDTH - object[o].max * 4

Init ==
  /\ servos = [i \in 0 .. MAX_SERVOS - 1 |-> [nbr |-> 0, isActive |-> FALSE, ticks |-> 0]]
  /\ ServoCount = 0
  /\ object = [o \in Objects |-> [index |-> -1, min |-> 0, max |-> 0]]
  /\ Channel = 0 /\ OCRnA = 0 /\ timerOn = FALSE
  /\ attaching = NoAttach /\ level = {}
  /\ pulse = NoPulse /\ left = {} /\ late = 0 /\ calls = 0 /\ misread = 0

Known(o) == object[o].index # -1
Valid(o) == object[o].index \in DOMAIN servos
Idle == attaching.obj = "none"
Called == calls < MaxCalls /\ calls' = calls + 1

\* Servo(): the next index, or none.
construct(o) ==
  /\ Idle /\ ~Known(o)
  /\ IF ServoCount < MAX_SERVOS
     THEN /\ object' = [object EXCEPT ![o].index = ServoCount]
          /\ servos' = [servos EXCEPT ![ServoCount].ticks = usToTicks(DEFAULT_PULSE_WIDTH)]
          /\ ServoCount' = ServoCount + 1
     ELSE object' = [object EXCEPT ![o].index = INVALID_SERVO] /\ UNCHANGED <<servos, ServoCount>>
  /\ UNCHANGED <<Channel, OCRnA, timerOn, attaching, level, pulse, left, late, calls, misread>>

-----------------------------------------------------------------------------
\* attach: the pin and the limits, then the timer if no servo is active, then the servo is
\* made active; the interrupt may come between.
Meets(i) ==
  /\ pulse' = [pulse EXCEPT !.met = @ \/ pulse.channel = i]
  /\ left' = IF pulse.channel = i THEN left \cup {servos[i].nbr} ELSE left

attach(o, pin, lim) ==
  /\ Idle /\ Valid(o) /\ Called
  /\ servos' = [servos EXCEPT ![object[o].index].nbr = pin]
  /\ object' = [object EXCEPT ![o].min = Int8(Div(MIN_PULSE_WIDTH - lim[1], 4)),
                              ![o].max = Int8(Div(MAX_PULSE_WIDTH - lim[2], 4))]
  /\ Meets(object[o].index)
  /\ attaching' = [obj |-> o, step |-> "timer"]
  /\ UNCHANGED <<ServoCount, Channel, OCRnA, timerOn, level, late, misread>>

isTimerActive == \E i \in DOMAIN servos : servos[i].isActive

\* No servo is active when initISR clears the count, so it delays no pulse that is not
\* already disturbed: the count itself is only looked at in the interrupt.
initISR ==
  /\ attaching.step = "timer"
  /\ timerOn' = (timerOn \/ ~isTimerActive)
  /\ attaching' = [attaching EXCEPT !.step = "active"]
  /\ UNCHANGED <<servos, ServoCount, object, Channel, OCRnA, level, pulse, left, late, calls, misread>>

attachActive ==
  /\ attaching.step = "active"
  /\ servos' = [servos EXCEPT ![object[attaching.obj].index].isActive = TRUE]
  /\ attaching' = NoAttach
  /\ UNCHANGED <<ServoCount, object, Channel, OCRnA, timerOn, level, pulse, left, late, calls, misread>>

\* detach: the pin is left as it is and the interrupt stays enabled (finISR is empty).
detach(o) ==
  /\ Idle /\ Valid(o) /\ Called
  /\ servos' = [servos EXCEPT ![object[o].index].isActive = FALSE]
  /\ Meets(object[o].index)
  /\ UNCHANGED <<ServoCount, object, Channel, OCRnA, timerOn, attaching, level, late, misread>>

-----------------------------------------------------------------------------
Clip(v, low, high) == IF v < low THEN low ELSE IF v > high THEN high ELSE v

\* The ticks writeMicroseconds stores.
writeMicroseconds(o, v) == usToTicks(Clip(v, SERVO_MIN(o), SERVO_MAX(o)) - TRIM_DURATION)

\* Mutated form of readMicroseconds: the trim is not given back.
readUntrimmed(ticks) == ticksToUs(ticks)

readMicroseconds(ticks) == ticksToUs(ticks) + TRIM_DURATION

\* read(): degrees
Read(o, ticks) == map(readMicroseconds(ticks) + 1, SERVO_MIN(o), SERVO_MAX(o), 0, 180)

\* write(): a value below the shortest pulse is an angle.
write(o, v) ==
  LET i == object[o].index
      us == IF v < MIN_PULSE_WIDTH THEN map(Clip(v, 0, 180), 0, 180, SERVO_MIN(o), SERVO_MAX(o)) ELSE v
      ticks == writeMicroseconds(o, us)
  IN  /\ Idle /\ Valid(o) /\ Called
      /\ servos' = [servos EXCEPT ![i].ticks = ticks]
      /\ misread' = IF v < MIN_PULSE_WIDTH THEN Read(o, ticks) - Clip(v, 0, 180) ELSE misread
      /\ UNCHANGED <<ServoCount, object, Channel, OCRnA, timerOn, attaching, level, pulse, left, late>>

-----------------------------------------------------------------------------
\* Mutated form of Compare: the pulse is counted from zero.
CompareFromZero(i, now) == servos[i].ticks

Compare(i, now) == (now + servos[i].ticks) % Span

\* Mutated form of Lowered: the last channel is not ended.
LoweredButLast == IF Channel >= 0 /\ Channel < ServoCount - 1 /\ servos[Channel].isActive
                  THEN level \ {servos[Channel].nbr} ELSE level

Lowered == IF Channel >= 0 /\ Channel < ServoCount /\ servos[Channel].isActive
           THEN level \ {servos[Channel].nbr} ELSE level

\* handle_interrupts, at a compare match.
handle_interrupts ==
  LET next == Channel + 1
      more == next < ServoCount /\ next < MAX_SERVOS
      rises == more /\ servos[next].isActive
      width == (OCRnA - pulse.since) % Span
      now == IF Channel < 0 THEN 0 ELSE OCRnA     \* TCNTn
  IN  /\ timerOn
      /\ OCRnA' = IF more THEN Compare(next, now)
                  ELSE IF now + 4 < RefreshTicks THEN RefreshTicks ELSE (now + 4) % Span
      /\ Channel' = IF more THEN next ELSE -1
      /\ level' = IF rises THEN Lowered \cup {servos[next].nbr} ELSE Lowered
      /\ late' = IF pulse.channel = Channel /\ Channel >= 0 /\ ~pulse.met
                 THEN width - pulse.ticks ELSE late
      /\ pulse' = IF rises
                  THEN [channel |-> next, ticks |-> servos[next].ticks, since |-> now, met |-> FALSE]
                  ELSE NoPulse
      /\ UNCHANGED <<servos, ServoCount, object, timerOn, attaching, left, calls, misread>>

Next ==
  \/ \E o \in Objects :
       \/ construct(o) \/ detach(o)
       \/ \E p \in Pins, l \in Limits : attach(o, p, l)
       \/ \E v \in Angles : write(o, v)
  \/ initISR \/ attachActive
  \/ handle_interrupts

Spec == Init /\ [][Next]_servoVars
-----------------------------------------------------------------------------
\* A pulse that no attach or detach disturbs is as long as the width in force when it
\* began, whatever is written meanwhile and wherever the timer stands (handle_interrupts).
PulseIsCommanded == late = 0

\* A pin is high only during the pulse of its servo: a second pin is high, or one between
\* the last channel and the refresh, only if its servo was moved to another pin or detached
\* in the middle of a pulse (attach and detach do not look at the pin).
NoPinLeftHigh ==
  level \subseteq left \cup {servos[i].nbr : i \in {pulse.channel} \cap DOMAIN servos}

\* The angle that read() gives is the one that write() took, through the rounding of the
\* pulse width, its limits in steps of 4 us and the ticks of the timer.
ReadIsWritten == misread = 0
=============================================================================
