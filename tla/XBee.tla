-------------------------------- MODULE XBee --------------------------------
(***************************************************************************)
(* XBee: frames to and from an XBee radio in escaped API mode              *)
(* (libraries/XBee).  A request is laid out, framed and sent; the radio    *)
(* (external) answers it, or passes it to a peer whose radio delivers it,  *)
(* with a frame that readPacket takes from the serial line in whatever     *)
(* pieces it arrives.  Faults: the end of a frame is lost, or a frame is   *)
(* longer than the receiver's buffer.                                      *)
(***************************************************************************)
EXTENDS Integers, Sequences, Bitwise

CONSTANTS
  Payloads,              \* payloads, as sequences of bytes
  MAX_FRAME_DATA_SIZE,   \* 110 in the code
  MaxFaults              \* bound on the faulty frames

VARIABLES
  xb,        \* the receiver: pos, escape, checksumTotal and the response
  wire,      \* bytes on the serial line
  request,   \* the request that is answered
  faults,
  since      \* whole frames since the last faulty one

xbeeVars == <<xb, wire, request, faults, since>>

START_BYTE == 126
ESCAPE == 125
Special == {START_BYTE, ESCAPE, 17, 19}
ATAP == 2

(* The kinds of frames. *)
TX_64_REQUEST == 0
TX_16_REQUEST == 1
AT_COMMAND_REQUEST == 8
REMOTE_AT_REQUEST == 23
ZB_TX_REQUEST == 16
RX_64_RESPONSE == 128
RX_16_RESPONSE == 129
TX_STATUS_RESPONSE == 137
MODEM_STATUS_RESPONSE == 138
ZB_RX_RESPONSE == 144
ZB_TX_STATUS_RESPONSE == 139
AT_COMMAND_RESPONSE == 136
REMOTE_AT_COMMAND_RESPONSE == 151

RX_16_RSSI_OFFSET == 2
RX_64_RSSI_OFFSET == 8

Addr64 == <<0, 19, 162, 0, 64, 10, 1, 39>>
Addr16 == <<255, 254>>
-----------------------------------------------------------------------------
(* Requests: getApiId and getFrameData.  The data of a request is one byte *)
(* sequence, data.                                                         *)

ZBTxRequest(payload) ==
  [api |-> ZB_TX_REQUEST, payload |-> payload, data |-> Addr64 \o Addr16 \o <<0, 0>> \o payload]
Tx16Request(payload) ==
  [api |-> TX_16_REQUEST, payload |-> payload, data |-> Addr16 \o <<0>> \o payload]

\* Mutated form of Tx64Request: the option byte is forgotten.
Tx64RequestShort(payload) ==
  [api |-> TX_64_REQUEST, payload |-> payload, data |-> Addr64 \o payload]

Tx64Request(payload) ==
  [api |-> TX_64_REQUEST, payload |-> payload, data |-> Addr64 \o <<0>> \o payload]
AtCommandRequest(value) ==
  [api |-> AT_COMMAND_REQUEST, payload |-> value, data |-> <<68, 76>> \o value]
RemoteAtCommandRequest(value) ==
  [api |-> REMOTE_AT_REQUEST, payload |-> value,
   data |-> Addr64 \o Addr16 \o <<2>> \o <<68, 76>> \o value]

RequestsOf(p) == {ZBTxRequest(p), Tx16Request(p), Tx64Request(p), AtCommandRequest(p),
                  RemoteAtCommandRequest(p)}

RECURSIVE Total(_)
Total(s) == IF s = << >> THEN 0 ELSE Head(s) + Total(Tail(s))

RECURSIVE Escaped(_)
Escaped(s) ==
  IF s = << >> THEN << >>
  ELSE (IF Head(s) \in Special THEN <<ESCAPE, Head(s) ^^ 32>> ELSE <<Head(s)>>)
         \o Escaped(Tail(s))

\* send: start, length, content and checksum, all but the start escaped.
Frame(content) ==
  <<START_BYTE>> \o Escaped(<<Len(content) \div 256, Len(content) % 256>> \o content
                            \o <<255 - (Total(content) % 256)>>)

\* The radio's answer to the content of a request's frame.
FrameId == 1
From(s, i) == SubSeq(s, i + 1, Len(s))
RadioAnswer(content) ==
  LET data == From(content, 2)
      api  == content[1]
  IN  CASE api = ZB_TX_REQUEST -> <<ZB_RX_RESPONSE>> \o Addr64 \o Addr16 \o <<1>> \o From(data, 12)
        [] api = TX_16_REQUEST -> <<RX_16_RESPONSE>> \o Addr16 \o <<40, 0>> \o From(data, 3)
        [] api = TX_64_REQUEST -> <<RX_64_RESPONSE>> \o Addr64 \o <<40, 0>> \o From(data, 9)
        [] api = AT_COMMAND_REQUEST ->
             <<AT_COMMAND_RESPONSE, FrameId>> \o SubSeq(data, 1, 2) \o <<0>> \o From(data, 2)
        [] api = REMOTE_AT_REQUEST ->
             <<REMOTE_AT_COMMAND_RESPONSE, FrameId>> \o Addr64 \o Addr16
               \o SubSeq(data, 12, 13) \o <<0>> \o From(data, 13)

\* The sender's radio reports how the delivery went, with the number of retries (0x11,
\* a byte to escape); any radio reports a change of its own.
RadioStatus(api, status) ==
  CASE api = ZB_TX_REQUEST -> <<ZB_TX_STATUS_RESPONSE, FrameId>> \o Addr16 \o <<17, status, 0>>
    [] api \in {TX_64_REQUEST, TX_16_REQUEST} -> <<TX_STATUS_RESPONSE, FrameId, status>>
    [] OTHER -> <<MODEM_STATUS_RESPONSE, status>>
-----------------------------------------------------------------------------
(* Responses: what the accessors return for the frame data d.  The data    *)
(* length is that of the packet less the offset and the api byte.          *)

getPacketLength(x) == ((x.msb * 256) & 255) + (x.lsb & 255)
Value(x, offset) == SubSeq(x.data, offset + 1, getPacketLength(x) - 1)

ZBRxResponse(x) == Value(x, 11)
\* Mutated form of RxResponse: the data is taken from the option byte on.
RxResponseEarly(x, rssiOffset) == Value(x, rssiOffset + 1)

RxResponse(x, rssiOffset) == Value(x, rssiOffset + 2)
Rx16Response(x) == RxResponse(x, RX_16_RSSI_OFFSET)
Rx64Response(x) == RxResponse(x, RX_64_RSSI_OFFSET)
AtCommandResponse(x) == SubSeq(x.data, 5, x.frameLength)
RemoteAtCommandResponse(x) == SubSeq(x.data, 15, x.frameLength)
\* The status with the frame id, for the sender to tell which of its requests it is about.
ZBTxStatusResponse(x) == <<x.data[1], x.data[5]>>
TxStatusResponse(x) == <<x.data[1], x.data[2]>>
ModemStatusResponse(x) == <<x.data[1]>>

Payload(x) == CASE x.api = ZB_RX_RESPONSE -> ZBRxResponse(x)
                [] x.api = RX_16_RESPONSE -> Rx16Response(x)
                [] x.api = RX_64_RESPONSE -> Rx64Response(x)
                [] x.api = AT_COMMAND_RESPONSE -> AtCommandResponse(x)
                [] x.api = REMOTE_AT_COMMAND_RESPONSE -> RemoteAtCommandResponse(x)
                [] x.api = ZB_TX_STATUS_RESPONSE -> ZBTxStatusResponse(x)
                [] x.api = TX_STATUS_RESPONSE -> TxStatusResponse(x)
                [] x.api = MODEM_STATUS_RESPONSE -> ModemStatusResponse(x)
-----------------------------------------------------------------------------
(* The receiver.                                                           *)

Response == [api |-> 0, msb |-> 0, lsb |-> 0, frameLength |-> 0, complete |-> FALSE,
             error |-> "NO_ERROR", data |-> << >>]

\* Mutated form of resetResponse: the place in the frame is kept.
resetResponseKeeps(x) == [x EXCEPT !.escape = FALSE, !.r = Response]

\* resetResponse: the checksum that has been added up is kept.
resetResponse(x) == [x EXCEPT !.pos = 0, !.escape = FALSE, !.r = Response]

\* The last byte: the frame is complete when all bytes add up to 0xff.
EndOfFrame(x, sum) ==
  [x EXCEPT !.pos = 0, !.total = 0, !.r.frameLength = x.pos - 4,
            !.r.complete = (sum = 255),
            !.r.error = IF sum = 255 THEN "NO_ERROR" ELSE "CHECKSUM_FAILURE"]

\* One byte, already unescaped, at its place in the frame.
Place(x, b) ==
  LET sum == (x.total + b) % 256
  IN  CASE x.pos = 0 -> IF b = START_BYTE THEN [x EXCEPT !.pos = 1] ELSE x
        [] x.pos = 1 -> [x EXCEPT !.pos = 2, !.r.msb = b]
        [] x.pos = 2 -> [x EXCEPT !.pos = 3, !.r.lsb = b]
        [] x.pos = 3 -> [x EXCEPT !.pos = 4, !.r.api = b, !.total = sum]
        [] OTHER ->
             IF x.pos > MAX_FRAME_DATA_SIZE
             THEN [x EXCEPT !.total = sum, !.r.error = "PACKET_EXCEEDS_BYTE_ARRAY_LENGTH"]
             ELSE IF x.pos = getPacketLength(x.r) + 3 THEN EndOfFrame(x, sum)
             ELSE [x EXCEPT !.pos = @ + 1, !.total = sum, !.r.data = Append(@, b)]

Ended(x) == x.r.complete \/ x.r.error # "NO_ERROR"

\* readPacket on the bytes that are available: what is left of them, and the receiver.
RECURSIVE Read(_, _)
Read(x, in) ==
  IF in = << >> \/ Ended(x) THEN [x |-> x, rest |-> in]
  ELSE LET b == Head(in)
           un == IF x.escape THEN b ^^ 32 ELSE b
       IN  CASE x.pos > 0 /\ b = START_BYTE /\ ATAP = 2 ->
                  [x |-> [x EXCEPT !.r.error = "UNEXPECTED_START_BYTE"], rest |-> Tail(in)]
             [] x.pos > 0 /\ b = ESCAPE /\ Len(in) = 1 ->
                  [x |-> [x EXCEPT !.escape = TRUE], rest |-> << >>]
             [] x.pos > 0 /\ b = ESCAPE /\ Len(in) > 1 ->
                  Read(Place(x, in[2] ^^ 32), SubSeq(in, 3, Len(in)))
             [] OTHER -> Read(Place([x EXCEPT !.escape = FALSE], un), Tail(in))

-----------------------------------------------------------------------------
Init ==
  /\ xb = [pos |-> 0, escape |-> FALSE, total |-> 0, r |-> Response]
  /\ wire = << >> /\ request = AtCommandRequest(<< >>) /\ faults = 0 /\ since = 3

\* send, and the answer of the radio.
Exchange(r) ==
  /\ wire = << >> /\ request' = r
  /\ wire' = Frame(RadioAnswer(<<r.api, FrameId>> \o r.data))
  /\ since' = IF since < 3 THEN since + 1 ELSE since
  /\ UNCHANGED <<xb, faults>>

\* send, and the status the radio reports instead of an answer.
Report(r, status) ==
  /\ wire = << >>
  /\ request' = [r EXCEPT !.payload =
                    IF r.api \in {TX_64_REQUEST, TX_16_REQUEST, ZB_TX_REQUEST}
                    THEN <<FrameId, status>> ELSE <<status>>]
  /\ wire' = Frame(RadioStatus(r.api, status))
  /\ since' = IF since < 3 THEN since + 1 ELSE since
  /\ UNCHANGED <<xb, faults>>

\* The end of the answer is lost.
LoseEnd(n) ==
  /\ faults < MaxFaults /\ faults' = faults + 1 /\ Len(wire) > n /\ n > 0
  /\ wire' = SubSeq(wire, 1, n) /\ since' = 0
  /\ UNCHANGED <<xb, request>>

\* A frame with more data than the receiver can keep.
Overlong ==
  /\ wire = << >> /\ faults < MaxFaults /\ faults' = faults + 1 /\ since' = 0
  /\ wire' = Frame(<<ZB_RX_RESPONSE>> \o [i \in 1..(MAX_FRAME_DATA_SIZE + 2) |-> 1])
  /\ UNCHANGED <<xb, request>>

\* readPacket, when the first n bytes have arrived: one of them or all (every other cut is
\* a number of calls that find one byte each).
readPacket(n) ==
  LET x == IF Ended(xb) THEN resetResponse(xb) ELSE xb
      res == Read(x, SubSeq(wire, 1, n))
  IN  /\ wire # << >> /\ xb' = res.x /\ wire' = res.rest \o From(wire, n)
      /\ UNCHANGED <<request, faults, since>>

Next ==
  \/ \E p \in Payloads : \E r \in RequestsOf(p) : Exchange(r)
  \/ \E r \in RequestsOf(<< >>), status \in {0, 33} : Report(r, status)
  \/ \E n \in {4, 6} : LoseEnd(n)
  \/ \E n \in {1, Len(wire)} : readPacket(n)
  \/ Overlong

Spec == Init /\ [][Next]_xbeeVars
-----------------------------------------------------------------------------
\* A response that readPacket reports as available carries the payload of the request it
\* answers, or the frame id and the status that the radio reported for it, whatever bytes
\* had to be escaped, in whatever pieces the frame arrived (also cut between the escape
\* byte and the byte it escapes) and whatever was lost before.
PayloadIntact == xb.r.complete /\ wire = << >> /\ since > 0 => Payload(xb.r) = request.payload

\* The receiver recovers: of the whole frames after a faulty one the third is always
\* received (the start byte of the first may be taken for an error, and the second is
\* added to the checksum left over, which resetResponse keeps: XBee.cpp, readPacket).
RecoversInThree == wire = << >> /\ since = 3 /\ faults > 0 => xb.r.complete
=============================================================================
