-------------------------- MODULE StandardFirmata --------------------------
(***************************************************************************)
(* libraries/Firmata and its sketch StandardFirmata: the pins of a board   *)
(* as a host sets and reads them with Firmata messages.  The parser        *)
(* (processInput) takes one byte of the serial line; the callbacks it      *)
(* calls are returned as a sequence of records, that the sketch carries    *)
(* out.  One port is modelled.  The host (external) sends messages, of     *)
(* which the line may lose any bytes; a pass of the sketch finds as many   *)
(* bytes as have come, be they whole messages or not.                      *)
(***************************************************************************)
EXTENDS Integers, Sequences, FiniteSets, SequencesExt

CONSTANTS
  MAX_DATA_BYTES,                     \* 32 in the code
  Pins,                               \* pins of port 0 looked at: subset of 0..7
  TOTAL_PINS,                         \* 20 on most boards
  AnalogPins, PwmPins, ServoPins, I2cPins,
  MAX_QUERIES,                        \* 8 in the code
  MaxMessages, MaxLost,               \* bounds on the messages and on the lost bytes
  MaxWaiting                          \* bound: bytes that a pass leaves for the next

-----------------------------------------------------------------------------
(* The parser of the protocol.                                            *)

DIGITAL_MESSAGE == 144
ANALOG_MESSAGE == 224
REPORT_ANALOG == 192
REPORT_DIGITAL == 208
SET_PIN_MODE == 244
REPORT_VERSION == 249
SYSTEM_RESET == 255
START_SYSEX == 240
END_SYSEX == 247
REPORT_FIRMWARE == 121
STRING_DATA == 113

\* systemReset, without its callback
NewParser ==
  [waitForData |-> 0, command |-> 0, channel |-> 0, parsingSysex |-> FALSE, sysexBytesRead |-> 0,
   overrun |-> FALSE, stored |-> [i \in 0..(MAX_DATA_BYTES - 1) |-> 0]]

Step(fp, calls) == [fp |-> fp, calls |-> calls]
Call(name, args) == [name |-> name, args |-> args]

\* sendValueAsTwo7bitBytes, and how the receiver puts the two together
TwoBytes(v) == <<v % 128, (v \div 128) % 128>>
Joined(low, high) == low + 128 * high

\* processSysexMessage: the callback gets a pointer to the data and its length, a byte.  A
\* message of no bytes at all is carried out with the command and data of the one before it
\* and a length of 255.  No callback is attached for strings.
processSysexMessage(fp) ==
  CASE fp.stored[0] = REPORT_FIRMWARE -> <<Call("firmware", << >>)>>
    [] fp.stored[0] = STRING_DATA -> << >>
    [] OTHER -> <<Call("sysex", <<fp.stored[0], (fp.sysexBytesRead - 1) % 256>> \o
                                [i \in 1..(MAX_DATA_BYTES - 1) |-> fp.stored[i]])>>

\* A byte of a sysex message is stored without a check of the space left: behind the buffer
\* are parsingSysex, sysexBytesRead and the pointers to the callbacks.
StoreSysex(fp, b) ==
  IF fp.sysexBytesRead < MAX_DATA_BYTES
  THEN [fp EXCEPT !.stored[fp.sysexBytesRead] = b, !.sysexBytesRead = @ + 1]
  ELSE [fp EXCEPT !.overrun = TRUE]

\* The callback of a channel message, when its last data byte has arrived.
ChannelCall(fp) ==
  LET value == Joined(fp.stored[1], fp.stored[0])
  IN  CASE fp.command = ANALOG_MESSAGE  -> <<Call("analog", <<fp.channel, value>>)>>
        [] fp.command = DIGITAL_MESSAGE -> <<Call("digital", <<fp.channel, value>>)>>
        [] fp.command = SET_PIN_MODE    -> <<Call("mode", <<fp.stored[1], fp.stored[0]>>)>>
        [] fp.command = REPORT_ANALOG   -> <<Call("reportAnalog", <<fp.channel, fp.stored[0]>>)>>
        [] fp.command = REPORT_DIGITAL  -> <<Call("reportDigital", <<fp.channel, fp.stored[0]>>)>>
        [] OTHER -> << >>

ReceiveData(fp, b) ==
  LET got == [fp EXCEPT !.waitForData = @ - 1, !.stored[fp.waitForData - 1] = b]
  IN  IF got.waitForData = 0 THEN Step([got EXCEPT !.command = 0], ChannelCall(got))
      ELSE Step(got, << >>)

\* A byte that is no data: the low half of a command below 0xF0 is its channel.
ReceiveCommand(fp, b) ==
  LET command == IF b < 240 THEN b - (b % 16) ELSE b
      f == IF b < 240 THEN [fp EXCEPT !.channel = b % 16] ELSE fp
  IN  CASE command \in {ANALOG_MESSAGE, DIGITAL_MESSAGE, SET_PIN_MODE} ->
             Step([f EXCEPT !.waitForData = 2, !.command = command], << >>)
        [] command \in {REPORT_ANALOG, REPORT_DIGITAL} ->
             Step([f EXCEPT !.waitForData = 1, !.command = command], << >>)
        [] command = START_SYSEX ->
             Step([f EXCEPT !.parsingSysex = TRUE, !.sysexBytesRead = 0], << >>)
        [] command = SYSTEM_RESET -> Step(NewParser, <<Call("reset", << >>)>>)
        [] command = REPORT_VERSION -> Step(f, <<Call("version", << >>)>>)
        [] OTHER -> Step(f, << >>)

\* Mutated form of processInput: any byte is data while data is awaited.
processInputGreedy(fp, b) ==
  CASE fp.parsingSysex /\ b = END_SYSEX ->
         Step([fp EXCEPT !.parsingSysex = FALSE], processSysexMessage(fp))
    [] fp.parsingSysex /\ b # END_SYSEX ->
         Step(StoreSysex(fp, b), << >>)
    [] ~fp.parsingSysex /\ fp.waitForData > 0 -> ReceiveData(fp, b)
    [] OTHER -> ReceiveCommand(fp, b)

\* processInput.  Within a sysex message every byte but the end is stored, commands too.
processInput(fp, b) ==
  CASE fp.parsingSysex /\ b = END_SYSEX ->
         Step([fp EXCEPT !.parsingSysex = FALSE], processSysexMessage(fp))
    [] fp.parsingSysex /\ b # END_SYSEX ->
         Step(StoreSysex(fp, b), << >>)
    [] ~fp.parsingSysex /\ fp.waitForData > 0 /\ b < 128 -> ReceiveData(fp, b)
    [] OTHER -> ReceiveCommand(fp, b)
-----------------------------------------------------------------------------
(* The sketch.                                                             *)

VARIABLES
  fp,        \* the parser
  bd,        \* the variables of the sketch
  high,      \* the input pins that are high
  serial,    \* bytes from the host that are not processed, each with the message it is of
  heard,     \* history: following (the message being processed is whole and began outside a
             \* sysex message), agreed (every callback so far is explained)
  hostPort,  \* what the host knows of port 0
  count, lostBytes,
  endLost    \* history: an END_SYSEX was lost

firmataVars == <<fp, bd, high, serial, heard, hostPort, count, lostBytes, endLost>>

INPUT == 0
OUTPUT == 1
ANALOG == 2
PWM == 3
SERVO == 4
I2C == 6

PinBit(S, p) == IF p \in S THEN 2^p ELSE 0
Value(S) == PinBit(S, 0) + PinBit(S, 1) + PinBit(S, 2) + PinBit(S, 7)
-----------------------------------------------------------------------------
(* The callbacks.                                                          *)

reportAnalogCallback(b, pin, value) ==
  [b EXCEPT !.analog = IF value = 0 THEN @ \ {pin} ELSE @ \cup {pin}]
reportDigitalCallback(b, port, value) == IF port = 0 THEN [b EXCEPT !.report = value # 0] ELSE b
disableI2CPins(b) == [b EXCEPT !.i2c = FALSE, !.queries = << >>]

Capable(pin, mode) == CASE mode \in {INPUT, OUTPUT} -> TRUE
                        [] mode = ANALOG -> pin \in AnalogPins
                        [] mode = PWM -> pin \in PwmPins
                        [] mode = SERVO -> pin \in ServoPins
                        [] mode = I2C -> pin \in I2cPins
                        [] OTHER -> FALSE

\* Mutated form of LeaveMode: the servo of the pin stays attached.
LeaveModeServo(b, pin, mode) ==
  IF b.config[pin] = I2C /\ b.i2c /\ mode # I2C THEN disableI2CPins(b) ELSE b

\* What setPinModeCallback undoes of the mode the pin had.
LeaveMode(b, pin, mode) ==
  LET free == IF b.config[pin] = I2C /\ b.i2c /\ mode # I2C THEN disableI2CPins(b) ELSE b
  IN  IF mode # SERVO THEN [free EXCEPT !.attached = @ \ {pin}] ELSE free

\* setPinModeCallback: a mode the pin cannot have leaves pinConfig as it was.  The pin is not
\* checked: pinState of one the board has not is memory of something else.
setPinModeCallback(b, pin, mode) ==
  IF pin \notin Pins THEN [b EXCEPT !.astray = @ \/ pin >= TOTAL_PINS] ELSE
  LET left == LeaveMode(b, pin, mode)
      told == IF pin \in AnalogPins
              THEN reportAnalogCallback(left, pin, IF mode = ANALOG THEN 1 ELSE 0) ELSE left
      set  == [told EXCEPT !.inputs = IF mode = INPUT THEN @ \cup {pin} ELSE @ \ {pin},
                           !.state[pin] = 0]
  IN  IF Capable(pin, mode)
      THEN [set EXCEPT !.config[pin] = mode,
                       !.attached = IF mode = SERVO THEN @ \cup {pin} ELSE @]
      ELSE set

analogWriteCallback(b, pin, value) ==
  IF pin \in Pins /\ b.config[pin] \in {SERVO, PWM} THEN [b EXCEPT !.state[pin] = value] ELSE b

digitalWriteCallback(b, port, value) ==
  IF port # 0 THEN b
  ELSE [b EXCEPT !.state = [p \in Pins |-> IF b.config[p] \in {INPUT, OUTPUT}
                                           THEN (value \div 2^p) % 2 ELSE b.state[p]]]

\* I2C_STOP_READING: the test of the address is an assignment, so the first query is
\* dropped, and each query moved up gets an address for its register.  Address 0 ends the
\* search without an index.
StopReading(b, addr) ==
  CASE Len(b.queries) <= 1 -> [b EXCEPT !.queries = << >>]
    [] Len(b.queries) > 1 /\ addr = 0 -> [b EXCEPT !.astray = TRUE]
    [] OTHER -> [b EXCEPT !.queries = [i \in 1..(Len(@) - 1) |-> [addr |-> @[i + 1].addr, reg |-> @[i + 1].addr]]]

\* The mode is in bits 3 and 4, bit 5 asks for a longer address.  Writes, single reads and
\* "too many queries" change nothing here.
I2CRequest(b, addr, bits, reg) ==
  LET mode == (bits \div 8) % 4
  IN  CASE (bits \div 32) % 2 = 1 -> b
        [] (bits \div 32) % 2 = 0 /\ mode = 2 /\ Len(b.queries) < MAX_QUERIES ->
             [b EXCEPT !.queries = Append(@, [addr |-> addr, reg |-> reg])]
        [] (bits \div 32) % 2 = 0 /\ mode = 3 -> StopReading(b, addr)
        [] OTHER -> b

enableI2CPins(b) ==
  [FoldLeft(LAMBDA x, p : setPinModeCallback(x, p, I2C), b, SetToSeq(I2cPins)) EXCEPT !.i2c = TRUE]

\* lo | (hi << 7), of bytes
Ored(lo, hi) == Joined(lo, hi) - (IF lo >= 128 /\ hi % 2 = 1 THEN 128 ELSE 0)

\* argv has what the buffer has, also behind the argc bytes of this message.
sysexCallback(b, command, argc, argv) ==
  CASE command = 118 -> I2CRequest(b, argv[1], argv[2], Joined(argv[3], argv[4]) % 256)
    [] command = 120 -> IF b.i2c THEN b ELSE enableI2CPins(b)
    [] command = 112 /\ argc > 4 /\ argv[1] \in ServoPins ->
         setPinModeCallback([b EXCEPT !.attached = @ \cup {argv[1]}], argv[1], SERVO)
    [] command = 122 /\ argc > 1 ->
         [b EXCEPT !.interval = IF Joined(argv[1], argv[2]) < 10 THEN 10 ELSE Joined(argv[1], argv[2])]
    [] command = 111 /\ argc > 1 ->
         analogWriteCallback(b, argv[1], (IF argc > 2 THEN Ored(argv[2], argv[3]) ELSE argv[2])
                                           + (IF argc > 3 THEN 16384 * (argv[4] % 2) ELSE 0))
    [] OTHER -> b      \* the queries only answer

systemResetCallback(b) ==
  LET off == IF b.i2c THEN disableI2CPins(b) ELSE b
      cleared == [off EXCEPT !.report = FALSE, !.inputs = {}, !.previous = 0]
      pins == FoldLeft(LAMBDA x, p : setPinModeCallback(x, p, IF p \in AnalogPins THEN ANALOG ELSE OUTPUT),
                       cleared, SetToSeq(Pins))
  IN  [pins EXCEPT !.analog = {}]

Apply(b, call) ==
  CASE call.name = "analog" -> analogWriteCallback(b, call.args[1], call.args[2])
    [] call.name = "digital" -> digitalWriteCallback(b, call.args[1], call.args[2])
    [] call.name = "mode" -> setPinModeCallback(b, call.args[1], call.args[2])
    [] call.name = "reportAnalog" -> reportAnalogCallback(b, call.args[1], call.args[2])
    [] call.name = "reportDigital" -> reportDigitalCallback(b, call.args[1], call.args[2])
    [] call.name = "sysex" -> sysexCallback(b, call.args[1], call.args[2], SubSeq(call.args, 3, Len(call.args)))
    [] call.name = "reset" -> systemResetCallback(b)
    [] OTHER -> b
-----------------------------------------------------------------------------
(* The messages of the host, with the callback each stands for.            *)

Message(bytes, call) == [bytes |-> bytes, call |-> call]
Sysex(bytes) == Message(<<START_SYSEX>> \o bytes \o <<END_SYSEX>>, Call("sysex", bytes))
Messages ==
  {Message(<<SET_PIN_MODE, p, m>>, Call("mode", <<p, m>>)) :
      p \in Pins, m \in {INPUT, SERVO, I2C}}
    \cup {Message(<<SET_PIN_MODE, TOTAL_PINS, PWM>>, Call("mode", <<TOTAL_PINS, PWM>>)),
          Message(<<DIGITAL_MESSAGE>> \o TwoBytes(129), Call("digital", <<0, 129>>)),
          Message(<<ANALOG_MESSAGE>> \o TwoBytes(200), Call("analog", <<0, 200>>)),
          Message(<<REPORT_DIGITAL, 1>>, Call("reportDigital", <<0, 1>>)),
          Message(<<REPORT_ANALOG + 7, 1>>, Call("reportAnalog", <<7, 1>>)),
          Message(<<REPORT_VERSION>>, Call("version", << >>)),
          Message(<<START_SYSEX, REPORT_FIRMWARE, END_SYSEX>>, Call("firmware", << >>)),
          Message(<<SYSTEM_RESET>>, Call("reset", << >>)),
          Sysex(<<120, 0, 0>>), Sysex(<<112, 0, 1, 0, 2, 0>>), Sysex(<<118, 9, 16, 4, 0, 1, 0>>),
          Sysex(<<122, 20, 0>>)}

\* A callback and the message it stands for: of a sysex message the bytes that came.
Matches(call, sent) ==
  /\ call.name = sent.name
  /\ IF call.name = "sysex"
     THEN <<call.args[1]>> \o SubSeq(call.args, 3, 2 + call.args[2]) = sent.args
     ELSE call.args = sent.args

\* The bytes of a message of which those at the places lost do not arrive.
Arriving(m, lost) ==
  [i \in 1..Len(m.bytes) |-> [byte |-> m.bytes[i], first |-> i = 1, last |-> i = Len(m.bytes),
                              whole |-> lost = {}, call |-> m.call]]
Left(m, lost) == FoldLeft(LAMBDA done, i : IF i \in lost THEN done ELSE Append(done, Arriving(m, lost)[i]),
                          << >>, [i \in 1..Len(m.bytes) |-> i])

\* What the calls made for byte e show: a whole message that begins outside a sysex message
\* is carried out at its last byte and makes no other call.  Of damaged ones, and of those
\* swallowed by a sysex message without end, only a sysex message can come out, until two
\* bytes are lost: a cut message can then be completed by what is left of another.
Judged(h, f, e, calls) ==
  LET following == e.whole /\ IF e.first THEN ~f.parsingSysex ELSE h.following
  IN  [following |-> following,
       agreed |-> /\ h.agreed
                  /\ CASE following /\ e.last -> Len(calls) = 1 /\ Matches(calls[1], e.call)
                       [] following /\ ~e.last -> calls = << >>
                       [] OTHER -> \A i \in DOMAIN calls : calls[i].name \in {"sysex", "firmware"} \/ lostBytes > 1]
-----------------------------------------------------------------------------
Board == [config |-> [p \in Pins |-> OUTPUT], inputs |-> {}, state |-> [p \in Pins |-> 0],
          analog |-> {}, report |-> FALSE, previous |-> 0, queries |-> << >>, i2c |-> FALSE,
          attached |-> {}, interval |-> 19, astray |-> FALSE]

Init ==
  /\ fp = NewParser /\ bd = systemResetCallback(Board) /\ high = {} /\ serial = << >>
  /\ heard = [following |-> FALSE, agreed |-> TRUE] /\ hostPort = 0 /\ count = 0
  /\ lostBytes = 0 /\ endLost = FALSE

\* The host sends a message, of which the bytes at the places lost do not come.
Send(m, lost) ==
  /\ count < MaxMessages /\ count' = count + 1
  /\ Len(serial) <= MaxWaiting /\ serial' = serial \o Left(m, lost)
  /\ lost \subseteq 1..Len(m.bytes)
  /\ lostBytes + Cardinality(lost) <= MaxLost /\ lostBytes' = lostBytes + Cardinality(lost)
  /\ endLost' = (endLost \/ (m.bytes[1] = START_SYSEX /\ Len(m.bytes) \in lost))
  /\ UNCHANGED <<fp, bd, high, heard, hostPort>>

PinChanges(p) ==
  /\ p \in bd.inputs /\ high' = IF p \in high THEN high \ {p} ELSE high \cup {p}
  /\ UNCHANGED <<fp, bd, serial, heard, hostPort, count, lostBytes, endLost>>

\* Mutated form of outputPort: the value is compared before the pins are masked.
outputPortUnmasked(b, value) ==
  IF b.report /\ b.previous # value
  THEN [b EXCEPT !.previous = value] ELSE b

\* checkDigitalInputs and outputPort: a change of the input pins is sent.
outputPort(b, value) ==
  LET masked == Value({p \in b.inputs : (value \div 2^p) % 2 = 1})
  IN  IF b.report /\ b.previous # masked THEN [b EXCEPT !.previous = masked] ELSE b

\* sendDigitalPort, as the host reads it
sendDigitalPort(old, b) ==
  IF b.previous = old.previous THEN hostPort ELSE Joined((b.previous % 256) % 128, b.previous \div 128)

RECURSIVE Process(_, _, _, _)
Process(f, h, calls, in) ==
  IF in = << >> \/ f.overrun THEN [fp |-> f, heard |-> h, calls |-> calls]
  ELSE LET s == processInput(f, Head(in).byte)
       IN  Process(s.fp, Judged(h, f, Head(in), s.calls), calls \o s.calls, Tail(in))

\* What processing the first n bytes does.
Passed(n) == Process(fp, heard, << >>, SubSeq(serial, 1, n))

\* loop: the inputs are checked, then the bytes that have come are processed.
loop(n) ==
  LET checked == outputPort(bd, Value(high))
      done == Passed(n)
  IN  /\ ~fp.overrun
      /\ serial' = SubSeq(serial, n + 1, Len(serial))
      /\ UNCHANGED <<high, count, lostBytes, endLost>>
      /\ fp' = done.fp /\ heard' = done.heard
      /\ bd' = FoldLeft(Apply, checked, done.calls)
      /\ hostPort' = IF \E i \in DOMAIN done.calls : done.calls[i].name = "reset" THEN 0
                     ELSE sendDigitalPort(bd, checked)

Next ==
  \/ \E m \in Messages : \E lost \in SUBSET {1, 2, 3, Len(m.bytes)} : Send(m, lost)
  \/ \E p \in Pins : PinChanges(p)
  \/ \E n \in 0..Len(serial) : Len(serial) - n <= MaxWaiting /\ loop(n)

Spec == Init /\ [][Next]_firmataVars
-----------------------------------------------------------------------------
\* Every whole message that does not begin inside a sysex message is carried out once, when
\* it is complete and with its own arguments, whatever was lost before it and however its
\* bytes are spread over passes; what is damaged may be carried out as a sysex message with
\* other arguments, and as a message of a channel only after a second loss.
CallsAsSent == heard.agreed

\* Nothing is written behind the buffer until an END_SYSEX is lost.
OverrunByLoss == fp.overrun => endLost

\* After a pass that began with reporting on, the host knows the state of exactly the
\* pins in input mode, as it was when the pass checked them, unless it reset the board.
HostSeesPortStep ==
  \A n \in 0..Len(serial) :
    (bd.report /\ loop(n)) => \/ hostPort' = Value(high \cap bd.inputs)
                              \/ \E i \in DOMAIN Passed(n).calls : Passed(n).calls[i].name = "reset"
HostSeesPort == [][HostSeesPortStep]_firmataVars

\* A pin whose pulses are driven by a servo is configured, and reported, as a servo, until
\* a message names a pin the board has not.
ServoIsConfigured == bd.astray \/ \A p \in bd.attached : bd.config[p] = SERVO
=============================================================================
