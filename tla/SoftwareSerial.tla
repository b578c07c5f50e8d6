--------------------------- MODULE SoftwareSerial ---------------------------
(***************************************************************************)
(* SoftwareSerial: serial ports on any two pins.  All ports share one ring *)
(* buffer, that belongs to the port which listens; a byte is received by   *)
(* the pin-change interrupt, which samples all of its bits before it       *)
(* returns, of the port that listens whichever pin has changed.  begin,    *)
(* read and overflow can be interrupted between their steps.               *)
(***************************************************************************)
EXTENDS Integers, Sequences, FiniteSets

CONSTANTS
  Ports,             \* the SoftwareSerial objects
  Inverted,          \* those with inverse_logic
  _SS_MAX_RX_BUFF,   \* 64 in the code
  Bytes,             \* bytes that are sent
  NoPort             \* active_object at the start

VARIABLES
  ring, head, tail,   \* the receive buffer
  active_object,
  overflowed,         \* _buffer_overflow of each port
  tuned,              \* the ports whose baud rate is in the table (_tx_delay # 0)
  enabled,            \* the ports whose pin interrupts
  step, taken,        \* the call in progress, and what it has read, or its port
  due                 \* history: the bytes received and not yet read, as they were sent; a
                      \* byte that was not sampled from its start bit on, in time, is Garbled

ssVars == <<ring, head, tail, active_object, overflowed, tuned, enabled, step, taken, due>>

-----------------------------------------------------------------------------
(* The line: one start bit, eight data bits with the lowest first, one     *)
(* stop bit, all inverted with inverse logic.                              *)

Power == <<1, 2, 4, 8, 16, 32, 64, 128>>

Levels(b, inverse) ==
  [i \in 1..10 |-> LET bit == CASE i = 1 -> FALSE [] i = 10 -> TRUE
                                [] OTHER -> (b \div Power[i - 1]) % 2 = 1
                   IN  bit # inverse]

Weight(levels, i) == IF levels[i + 1] THEN Power[i] ELSE 0
Sampled(levels) == Weight(levels, 1) + Weight(levels, 2) + Weight(levels, 3) + Weight(levels, 4)
                     + Weight(levels, 5) + Weight(levels, 6) + Weight(levels, 7) + Weight(levels, 8)

Inverse(levels, inverse) == IF inverse THEN 255 - Sampled(levels) ELSE Sampled(levels)

\* The levels seen by an interrupt that comes k bits late: write keeps interrupts off for
\* ten bits, and a byte sampled late ends in the middle of the next one.
Late(levels, k, inverse) == [i \in 1..10 |-> IF i + k <= 10 THEN levels[i + k] ELSE ~inverse]

\* The levels seen with delays of zero: all samples fall in the bit of the interrupt.
AtOnce(inverse) == [i \in 1..10 |-> inverse]

\* recv: what is sampled of the byte b from its bit k on, with the delays of the port.
recv(p, b, k) ==
  LET inverse == p \in Inverted
  IN  Inverse(IF p \in tuned THEN Late(Levels(b, inverse), k, inverse) ELSE AtOnce(inverse), inverse)

Garbled == -1
-----------------------------------------------------------------------------
Init ==
  /\ ring = [i \in 0..(_SS_MAX_RX_BUFF - 1) |-> 0] /\ head = 0 /\ tail = 0
  /\ active_object = NoPort /\ overflowed = [p \in Ports |-> FALSE]
  /\ tuned = {} /\ enabled = {} /\ step = "none" /\ taken = 0 /\ due = << >>

\* Mutated form of listen: the bytes of the other port stay in the buffer.
listenKeeps(p) ==
  IF active_object = p THEN UNCHANGED <<ring, head, tail, active_object, overflowed, due>>
  ELSE /\ active_object' = p /\ overflowed' = [overflowed EXCEPT ![p] = FALSE]
       /\ due' = << >> /\ UNCHANGED <<ring, head, tail>>

\* listen: the buffer is emptied when another port listened (its places, which the code
\* leaves as they are, count as 0).
listen(p) ==
  IF active_object = p THEN UNCHANGED <<ring, head, tail, active_object, overflowed, due>>
  ELSE /\ active_object' = p /\ overflowed' = [overflowed EXCEPT ![p] = FALSE]
       /\ head' = 0 /\ tail' = 0 /\ ring' = [i \in DOMAIN ring |-> 0]
       /\ due' = << >>

\* begin sets the delays to zero, looks for the baud rate, and listens.  A rate that is not
\* in the table leaves them zero; the interrupt of a port begun before stays on.
begin(p) ==
  /\ step = "none" /\ step' = "begin" /\ taken' = p /\ tuned' = tuned \ {p}
  /\ UNCHANGED <<ring, head, tail, active_object, overflowed, enabled, due>>
beginTunes(known) ==
  /\ step = "begin" /\ step' = "tuned"
  /\ tuned' = IF known THEN tuned \cup {taken} ELSE tuned
  /\ enabled' = IF known THEN enabled \cup {taken} ELSE enabled
  /\ UNCHANGED <<ring, head, tail, active_object, overflowed, taken, due>>
beginListens ==
  /\ step = "tuned" /\ step' = "none" /\ taken' = 0
  /\ listen(taken) /\ UNCHANGED <<tuned, enabled>>

Listen(p) == step = "none" /\ listen(p) /\ UNCHANGED <<tuned, enabled, step, taken>>

end(p) ==
  /\ step = "none" /\ p \in enabled /\ enabled' = enabled \ {p}
  /\ UNCHANGED <<ring, head, tail, active_object, overflowed, tuned, step, taken, due>>

\* Mutated form of Keep: the buffer is filled to its last place.
KeepAll(got, b) ==
  /\ ring' = [ring EXCEPT ![tail] = got] /\ tail' = (tail + 1) % _SS_MAX_RX_BUFF
  /\ due' = Append(due, b) /\ UNCHANGED overflowed

\* recv, once a byte is sampled as got, b or garbled: one place of the buffer always stays free.
Keep(got, b) ==
  IF (tail + 1) % _SS_MAX_RX_BUFF # head
  THEN /\ ring' = [ring EXCEPT ![tail] = got] /\ tail' = (tail + 1) % _SS_MAX_RX_BUFF
       /\ due' = Append(due, b) /\ UNCHANGED overflowed
  ELSE /\ overflowed' = [overflowed EXCEPT ![active_object] = TRUE]
       /\ UNCHANGED <<ring, tail, due>>

\* A pin that interrupts has changed, and the line of the port that listens is at bit k of
\* the byte b.  Unless that bit has the level of a start bit there is nothing to receive.
\* The bits are sampled right if the change is the start bit itself and the port is tuned.
handle_interrupt(p, b, k) ==
  /\ p \in enabled /\ active_object # NoPort
  /\ Levels(b, active_object \in Inverted)[k + 1] = (active_object \in Inverted)
  /\ Keep(recv(active_object, b, k),
          IF p = active_object /\ p \in tuned /\ k = 0 THEN b ELSE Garbled)
  /\ UNCHANGED <<head, active_object, tuned, enabled, step, taken>>

readTakes(p) ==
  /\ step = "none" /\ p = active_object /\ head # tail
  /\ step' = "read" /\ taken' = ring[head]
  /\ UNCHANGED <<ring, head, tail, active_object, overflowed, tuned, enabled, due>>
readMoves ==
  /\ step = "read" /\ step' = "none" /\ taken' = 0 /\ head' = (head + 1) % _SS_MAX_RX_BUFF
  /\ ring' = [ring EXCEPT ![head] = 0] /\ due' = Tail(due)
  /\ UNCHANGED <<tail, active_object, overflowed, tuned, enabled>>

\* overflow: the flag is read and cleared in two steps.
overflowReads(p) ==
  /\ step = "none" /\ p = active_object /\ step' = "overflow"
  /\ taken' = IF overflowed[p] THEN 1 ELSE 0
  /\ UNCHANGED <<ring, head, tail, active_object, overflowed, tuned, enabled, due>>
overflowClears ==
  /\ step = "overflow" /\ step' = "none" /\ taken' = 0
  /\ overflowed' = [overflowed EXCEPT ![active_object] = FALSE]
  /\ UNCHANGED <<ring, head, tail, active_object, tuned, enabled, due>>

flush(p) ==
  /\ step = "none" /\ p = active_object /\ head # tail
  /\ head' = 0 /\ tail' = 0 /\ due' = << >> /\ ring' = [i \in DOMAIN ring |-> 0]
  /\ UNCHANGED <<active_object, overflowed, tuned, enabled, step, taken>>

Next ==
  \/ \E p \in Ports : \/ begin(p) \/ Listen(p) \/ end(p) \/ readTakes(p)
                      \/ overflowReads(p) \/ flush(p)
                      \/ \E b \in Bytes, k \in 0..8 : handle_interrupt(p, b, k)
  \/ beginTunes(TRUE) \/ beginTunes(FALSE) \/ beginListens \/ readMoves \/ overflowClears

Spec == Init /\ [][Next]_ssVars
-----------------------------------------------------------------------------
available == (tail + _SS_MAX_RX_BUFF - head) % _SS_MAX_RX_BUFF

\* The buffer holds the bytes received for the port that listens and not read yet, in the
\* order they arrived, and available counts them; each that was sampled from its start bit
\* on, with the delays of its rate, is as it was sent, whatever garbled ones are between
\* them and whenever the interrupts come (recv, listen, read, available).
BytesInOrder ==
  /\ available = Len(due)
  /\ \A i \in 1..available :
       due[i] # Garbled => ring[(head + i - 1) % _SS_MAX_RX_BUFF] = due[i]

\* What read returns is the oldest byte still due, also when bytes arrive during the call.
ReadIsOldest == step = "read" /\ due[1] # Garbled => taken = due[1]
=============================================================================
