-------------------------------- MODULE Twi --------------------------------
(***************************************************************************)
(* The two-wire bus driver (libraries/Wire): the class TwoWire over the    *)
(* interrupt handler of twi.c.  A sketch is the only master of the bus, or *)
(* shares it with others that can reach it as a slave while it prepares,   *)
(* begins or ends a transfer of its own; a plain slave is one of these     *)
(* that calls nothing.  The devices and masters at the other end of the    *)
(* bus are external: they acknowledge or not, and send what they like.     *)
(* twi.busy is the phase of the transfer the hardware is in; a status code *)
(* of the handler is a phase and the answer of the other end.              *)
(***************************************************************************)
EXTENDS Integers, Sequences, SequencesExt

CONSTANTS
  BUFFER_LENGTH,   \* 32 in the code, of TwoWire and of twi.c
  Data,            \* byte values
  MaxTransfers     \* bound on the transfers

VARIABLES
  role,       \* "master": no other master is on the bus; "multi": others are, and the
              \* node has an address by which they can reach it
  twi,        \* the static variables of twi.c, and the phase of the hardware
  tw,         \* TwoWire: transmitting, txBuffer and its length n, rxBuffer, its index and
              \* its length m
  caller,     \* the call in progress: "none"; "endSet" and "requestSet", which have found
              \* the driver ready; "end" and "request", which wait; "requestCopied"
  asked,      \* its length n and sendStop; history: what the sketch meant to send,
              \* whether another master asked while it was prepared (disturbed), whether
              \* one reached the node during the call (usurped), whether one's message
              \* came into rxBuffer as the call returned (overwritten)
  device,     \* history: the bytes the other end of this node's transfer took or sent
  other,      \* history: the bytes another master sent or took
  result,     \* history: what the last call or callback gave the sketch
  transfers

twiVars == <<role, twi, tw, caller, asked, device, other, result, transfers>>

NoResult == [what |-> "none"]
NothingAsked == [n |-> 0, sendStop |-> TRUE, meant |-> << >>,
                 disturbed |-> FALSE, usurped |-> FALSE, overwritten |-> FALSE]
Released(t) == [t EXCEPT !.state = "READY", !.busy = "idle"]   \* twi_stop, twi_releaseBus

\* buffer with the bytes written to it from its start on.
Copied(cells, bytes) == [i \in 1 .. BUFFER_LENGTH |-> IF i <= Len(bytes) THEN bytes[i] ELSE cells[i]]

First(cells, n) == [i \in 1 .. n |-> cells[i]]

Init ==
  /\ role \in {"master", "multi"}
  /\ twi = [state |-> "READY", sendStop |-> TRUE, inRepStart |-> FALSE, index |-> 0, length |-> 0,
            buf |-> << >>, error |-> 255, tx |-> << >>, txIndex |-> 0, rx |-> << >>, busy |-> "idle"]
  /\ tw = [transmitting |-> FALSE, tx |-> [i \in 1 .. BUFFER_LENGTH |-> 0], n |-> 0,
           rx |-> [i \in 1 .. BUFFER_LENGTH |-> 0], index |-> 0, m |-> 0]
  /\ caller = "none" /\ asked = NothingAsked /\ device = << >> /\ other = << >>
  /\ result = NoResult /\ transfers = 0

Starts == transfers < MaxTransfers /\ transfers' = transfers + 1
Slave == twi.busy \in {"srx", "srxfull", "stx"}
-----------------------------------------------------------------------------
(* TwoWire, as the sketch calls it.                                        *)

beginTransmission ==
  /\ caller = "none"
  /\ tw' = [tw EXCEPT !.transmitting = TRUE, !.n = 0]
  /\ asked' = NothingAsked /\ result' = NoResult
  /\ UNCHANGED <<role, twi, caller, device, other, transfers>>

\* A byte that does not fit is refused, with setWriteError.
write(b) ==
  /\ caller = "none" /\ tw.transmitting /\ tw.n < BUFFER_LENGTH
  /\ tw' = [tw EXCEPT !.tx[tw.n + 1] = b, !.n = @ + 1]
  /\ asked' = [asked EXCEPT !.meant = Append(@, b)]
  /\ UNCHANGED <<role, twi, caller, device, other, result, transfers>>

\* The call of twi_writeTo or twi_readFrom has waited until the driver is ready. What it
\* was passed is the length of the message; the message itself is still in txBuffer.
endTransmission(sendStop) ==
  /\ caller = "none" /\ tw.transmitting /\ twi.state = "READY" /\ Starts
  /\ caller' = "endSet" /\ asked' = [asked EXCEPT !.n = tw.n, !.sendStop = sendStop]
  /\ result' = NoResult /\ UNCHANGED <<role, twi, tw, device, other>>

\* A quantity above BUFFER_LENGTH is cut to it.
requestFrom(quantity, sendStop) ==
  /\ caller = "none" /\ ~tw.transmitting /\ twi.state = "READY" /\ Starts
  /\ caller' = "requestSet"
  /\ asked' = [NothingAsked EXCEPT !.n = IF quantity > BUFFER_LENGTH THEN BUFFER_LENGTH ELSE quantity,
                                   !.sendStop = sendStop]
  /\ result' = NoResult /\ UNCHANGED <<role, twi, tw, device, other>>

\* Of a message to receive the last byte is not acknowledged.
MasterLength(state, n) == IF state = "MRX" THEN n - 1 ELSE n

\* Then, in a step of its own, it takes the driver, also from another master that has
\* reached the node since; its START waits for the bus, and is forgotten when the
\* interrupt deals with that master. After a repeated start, that has been sent, the
\* address is sent.
SetTransfer(state, buf) ==
  /\ twi' = [twi EXCEPT !.state = state, !.sendStop = asked.sendStop, !.error = 255, !.index = 0,
                        !.length = MasterLength(state, asked.n), !.buf = buf, !.inRepStart = FALSE,
                        !.busy = IF Slave THEN @ ELSE IF twi.inRepStart THEN "address" ELSE "start"]
  /\ device' = << >> /\ asked' = [asked EXCEPT !.usurped = Slave]
  /\ UNCHANGED <<role, tw, other, result, transfers>>

SetEnd == caller = "endSet" /\ caller' = "end" /\ SetTransfer("MTX", First(tw.tx, asked.n))
SetRequest == caller = "requestSet" /\ caller' = "request" /\ SetTransfer("MRX", << >>)

\* The waits end when the handler has left the state.
ReturnEnd ==
  /\ caller = "end" /\ twi.state # "MTX"
  /\ caller' = "none" /\ tw' = [tw EXCEPT !.transmitting = FALSE, !.n = 0]
  /\ result' = [what |-> "end", ok |-> twi.error = 255, meant |-> asked.meant, got |-> device,
                excused |-> asked.disturbed \/ asked.usurped]
  /\ asked' = NothingAsked /\ device' = << >>
  /\ UNCHANGED <<role, twi, other, transfers>>

\* Mutated form of CopyRequest: the bounds are those of the request, not of what came.
CopyRequestAll ==
  /\ caller = "request" /\ twi.state # "MRX"
  /\ caller' = "requestCopied" /\ tw' = [tw EXCEPT !.rx = Copied(@, twi.buf)]
  /\ UNCHANGED <<role, twi, asked, device, other, result, transfers>>

\* twi_readFrom copies what came to rxBuffer; requestFrom then sets its bounds.
CopyRequest ==
  /\ caller = "request" /\ twi.state # "MRX"
  /\ caller' = "requestCopied" /\ tw' = [tw EXCEPT !.rx = Copied(@, twi.buf)]
  /\ asked' = [asked EXCEPT !.n = Len(twi.buf)]
  /\ UNCHANGED <<role, twi, device, other, result, transfers>>

ReturnRequest ==
  /\ caller = "requestCopied" /\ caller' = "none"
  /\ tw' = [tw EXCEPT !.index = 0, !.m = asked.n]
  /\ result' = [what |-> "request", bytes |-> First(tw.rx, asked.n), got |-> device,
                overwritten |-> asked.overwritten]
  /\ asked' = NothingAsked /\ device' = << >>
  /\ UNCHANGED <<role, twi, other, transfers>>

\* available() and read(): the sketch takes a byte.
read ==
  /\ caller = "none" /\ tw.index < tw.m
  /\ tw' = [tw EXCEPT !.index = @ + 1]
  /\ result' = NoResult /\ UNCHANGED <<role, twi, caller, asked, device, other, transfers>>
-----------------------------------------------------------------------------
(* SIGNAL(TWI_vect), as the master.                                        *)

Handler(t) == twi' = t /\ UNCHANGED <<role, tw, caller, asked, other, result, transfers>>

TW_START == twi.busy = "start" /\ Handler([twi EXCEPT !.busy = "address"]) /\ UNCHANGED device

\* After the last byte: the bus is released, or kept with a repeated start.
Finish(t) == IF t.sendStop THEN Released(t)
           ELSE [t EXCEPT !.state = "READY", !.busy = "held", !.inRepStart = TRUE]

NextByte(t) == IF t.index < t.length THEN [t EXCEPT !.index = @ + 1, !.busy = "sent"] ELSE Finish(t)

TW_MT_ACK ==
  /\ twi.state = "MTX" /\ twi.busy \in {"address", "sent"}
  /\ device' = IF twi.busy = "sent" THEN Append(device, twi.buf[twi.index]) ELSE device
  /\ Handler(NextByte(twi))

\* Mutated form of Refused: a byte that is not acknowledged is no error.
RefusedSilently(t) == Released(t)

Refused(t) == [Released(t) EXCEPT !.error = IF t.busy = "address" THEN 32 ELSE 48]

TW_MT_NACK ==
  /\ twi.state = "MTX" /\ twi.busy \in {"address", "sent"}
  /\ Handler(Refused(twi)) /\ UNCHANGED device

\* As the receiver it can be lost to another that wants a byte more.
TW_MT_ARB_LOST ==
  /\ role = "multi" /\ twi.busy \in {"address", "sent", "receivelast"}
  /\ Handler([Released(twi) EXCEPT !.error = 56]) /\ UNCHANGED device

Acknowledge(t) == [t EXCEPT !.busy = IF t.index < t.length THEN "receive" ELSE "receivelast"]

TW_MR_SLA_ACK ==
  /\ twi.state = "MRX" /\ twi.busy = "address" /\ Handler(Acknowledge(twi)) /\ UNCHANGED device
TW_MR_SLA_NACK ==
  /\ twi.state = "MRX" /\ twi.busy = "address" /\ Handler(Released(twi)) /\ UNCHANGED device

Store(t, b) == [t EXCEPT !.buf = Append(@, b), !.index = @ + 1]

\* The device sends b; the byte after a NACK is the last.
TW_MR_DATA(b) ==
  /\ twi.busy \in {"receive", "receivelast"} /\ device' = Append(device, b)
  /\ Handler(IF twi.busy = "receive" THEN Acknowledge(Store(twi, b)) ELSE Finish(Store(twi, b)))

TW_BUS_ERROR ==
  /\ twi.busy \notin {"idle", "held", "start"}
  /\ Handler([Released(twi) EXCEPT !.error = 0]) /\ UNCHANGED device
-----------------------------------------------------------------------------
(* SIGNAL(TWI_vect), as a slave. Another master reaches the node when it   *)
(* is idle, before its START, or when it wins the bus from it during the   *)
(* address.                                                                *)

Reached ==
  /\ role = "multi" /\ twi.busy \in {"idle", "start", "address"} /\ Starts
  /\ other' = << >>

Usurps == asked.usurped \/ caller \in {"end", "request"}

TW_SR_SLA_ACK ==
  /\ Reached
  /\ twi' = [twi EXCEPT !.state = "SRX", !.rx = << >>, !.busy = "srx"]
  /\ asked' = [asked EXCEPT !.usurped = Usurps]
  /\ result' = NoResult /\ UNCHANGED <<role, tw, caller, device>>

TW_SR_DATA(b) ==
  /\ twi.busy \in {"srx", "srxfull"} /\ Len(other) <= BUFFER_LENGTH
  /\ other' = Append(other, b)
  /\ twi' = IF twi.busy = "srx" /\ Len(twi.rx) < BUFFER_LENGTH THEN [twi EXCEPT !.rx = Append(@, b)]
            ELSE [twi EXCEPT !.busy = "srxfull"]
  /\ UNCHANGED <<role, tw, caller, asked, device, result, transfers>>

\* twi_stop, then onReceiveService: dropped while bytes are unread; else the message goes to
\* rxBuffer and the callback reads n bytes of it.
TW_SR_STOP(n) ==
  LET drops == tw.index < tw.m
  IN  /\ twi.busy \in {"srx", "srxfull"} /\ n <= Len(twi.rx) /\ (drops => n = 0)
      /\ twi' = [Released(twi) EXCEPT !.rx = << >>]
      /\ tw' = IF drops THEN tw
               ELSE [tw EXCEPT !.rx = Copied(@, twi.rx), !.index = n, !.m = Len(twi.rx)]
      /\ result' = IF drops THEN NoResult
                   ELSE [what |-> "received", bytes |-> First(tw'.rx, tw'.m), sent |-> other]
      /\ asked' = [asked EXCEPT !.overwritten = @ \/ (caller = "requestCopied" /\ ~drops)]
      /\ other' = << >> /\ UNCHANGED <<role, caller, device, transfers>>

\* Mutated form of twi_transmit: a second write is added to the first.
twi_transmitAppends(t, data) == IF Len(data) > BUFFER_LENGTH THEN t ELSE [t EXCEPT !.tx = @ \o data]

\* twi_transmit: the data of a later write replaces that of an earlier one.
twi_transmit(t, data) == IF Len(data) > BUFFER_LENGTH THEN t ELSE [t EXCEPT !.tx = data]

\* What the callback writes is its answer; but while the sketch prepares a message of its
\* own, or sends one, the bytes go to that message, which onRequestService has emptied.
Answered(t, writes) ==
  LET after[n \in 0 .. Len(writes)] ==
        IF n = 0 THEN [t EXCEPT !.tx = << >>] ELSE twi_transmit(after[n - 1], writes[n])
  IN  IF tw.transmitting THEN [t EXCEPT !.tx = << >>] ELSE after[Len(writes)]

Mixed(writes) ==
  LET bytes == FlattenSeq(writes)
      n == IF Len(bytes) > BUFFER_LENGTH THEN BUFFER_LENGTH ELSE Len(bytes)
  IN  IF tw.transmitting THEN [tw EXCEPT !.tx = Copied(@, bytes), !.n = n] ELSE [tw EXCEPT !.n = 0]

\* onRequestService calls the sketch, which answers with the writes in order; a zero is
\* sent when it wrote nothing that fits.
TW_ST_SLA_ACK(writes) ==
  LET done == Answered([twi EXCEPT !.state = "STX", !.txIndex = 1, !.busy = "stx"], writes)
  IN  /\ Reached
      /\ twi' = IF done.tx = << >> THEN [done EXCEPT !.tx = <<0>>] ELSE done
      /\ tw' = Mixed(writes)
      /\ asked' = [asked EXCEPT !.usurped = Usurps, !.disturbed = @ \/ tw.transmitting]
      /\ result' = [what |-> "requested", writes |-> writes, preparing |-> tw.transmitting]
      /\ UNCHANGED <<role, caller, device>>

\* The master takes the byte and asks for another; the last is followed by ones.
TW_ST_DATA_ACK ==
  /\ twi.busy = "stx" /\ twi.txIndex < Len(twi.tx) /\ other' = Append(other, twi.tx[twi.txIndex])
  /\ twi' = [twi EXCEPT !.txIndex = @ + 1]
  /\ UNCHANGED <<role, tw, caller, asked, device, result, transfers>>
TW_ST_LAST ==
  /\ twi.busy = "stx" /\ other' = Append(other, twi.tx[twi.txIndex])
  /\ twi' = [Released(twi) EXCEPT !.tx = << >>, !.txIndex = 0]
  /\ UNCHANGED <<role, tw, caller, asked, device, result, transfers>>
-----------------------------------------------------------------------------
Messages == {<<b>> : b \in Data} \cup {[i \in 1..n |-> b] : b \in Data, n \in {BUFFER_LENGTH, BUFFER_LENGTH + 1}}
Next ==
  \/ beginTransmission \/ (\E b \in Data : write(b)) \/ read
  \/ (\E s \in BOOLEAN : endTransmission(s) \/ \E q \in 1..(BUFFER_LENGTH + 1) : requestFrom(q, s))
  \/ SetEnd \/ SetRequest \/ ReturnEnd \/ CopyRequest \/ ReturnRequest
  \/ TW_START \/ TW_MT_ACK \/ TW_MT_NACK \/ TW_MT_ARB_LOST \/ TW_MR_SLA_ACK \/ TW_MR_SLA_NACK
  \/ (\E b \in Data : TW_MR_DATA(b) \/ TW_SR_DATA(b)) \/ TW_BUS_ERROR \/ TW_SR_SLA_ACK
  \/ (\E n \in 0..BUFFER_LENGTH : TW_SR_STOP(n)) \/ TW_ST_DATA_ACK \/ TW_ST_LAST
  \/ \E m1, m2 \in Messages : TW_ST_SLA_ACK(<< >>) \/ TW_ST_SLA_ACK(<<m1>>) \/ TW_ST_SLA_ACK(<<m1, m2>>)

Spec == Init /\ [][Next]_twiVars
-----------------------------------------------------------------------------
\* requestFrom gives the sketch the bytes the device sent, all of them and in order, also
\* when another master takes the bus from the node; unless such a master's message was
\* copied into rxBuffer between the copy of twi_readFrom (twi.c:170) and the return of
\* requestFrom (Wire.cpp:87), which nothing keeps apart.
RequestIsWhole ==
  (result.what = "request" /\ ~result.overwritten) => result.bytes = result.got

\* endTransmission returns 0 exactly if the device has acknowledged every byte that write()
\* has taken since beginTransmission (a message of no bytes can also fail: at the address).
\* Excused is a call during which another master reached the node: then nothing was sent
\* and 0 is returned all the same (twi.c:440 and 483 leave twi_error alone); and one whose
\* message was prepared or sent while such a master asked the node for data, which empties
\* the message and puts the answer there (Wire.cpp:276 and 162).
EndIsAcknowledged ==
  (result.what = "end" /\ ~result.excused) =>
    IF result.ok THEN result.got = result.meant
    ELSE result.got # result.meant \/ result.meant = << >>

\* The driver is ready for another transfer exactly when no transfer is under way: no call
\* starts into one, and no call waits for one that has ended (twi.c:125, 162, 202, 242),
\* also when the step that takes the driver takes it from another master (twi.c:128, 205).
ReadyMeansFree == twi.state = "READY" <=> twi.busy \in {"idle", "held"}

\* A master that reads from the node gets the bytes of the last write of the callback
\* that fits, in order, or one zero; and the zero whatever the callback writes while the
\* sketch has a transmission of its own open.
ServesLastWrite ==
  (result.what = "requested" /\ other # << >>) =>
    LET fits == {n \in DOMAIN result.writes : Len(result.writes[n]) <= BUFFER_LENGTH}
    IN  IsPrefix(other, IF fits = {} \/ result.preparing THEN <<0>> ELSE result.writes[Max(fits)])

\* The callback of a master's message gets its bytes, in order, as many as fit.
CallbackGetsMessage ==
  result.what = "received" => /\ IsPrefix(result.bytes, result.sent)
                              /\ \/ Len(result.bytes) = Len(result.sent)
                                 \/ Len(result.bytes) = BUFFER_LENGTH
=============================================================================
