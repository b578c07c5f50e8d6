---------------------------------- MODULE W5100 ----------------------------------
(***************************************************************************)
(* One hardware socket of the W5100 Ethernet chip and the code that moves   *)
(* data through it: libraries/Ethernet/utility/w5100.cpp (the two ring      *)
(* buffers), utility/socket.cpp (send, recv, the datagram calls),           *)
(* EthernetClient (a stream) and EthernetUDP (datagrams).                   *)
(*                                                                         *)
(* The chip is external.  As the offset argument of the datagram writes     *)
(* requires, it takes over a new write pointer, and counts the bytes behind *)
(* it as used, only at the SEND command; a new read pointer frees the       *)
(* buffer at the RECV command.  Cells without live data hold Junk.          *)
(* A datagram is preceded in the buffer by its header: the sender's address *)
(* and port are one cell here and the length is another.                    *)
(***************************************************************************)
EXTENDS Integers, Sequences

CONSTANTS SSIZE,       \* size of either ring
          Span,        \* the pointers count modulo this (2^16 in the chip)
          Starts,      \* where the pointers can be when the socket is opened
          Senders,     \* who sends datagrams (one cell)
          Chunks,      \* the byte strings the application writes
          MaxPackets   \* bound on arrivals and on application writes

VARIABLES ethMode,     \* "TCP" or "UDP"
          ethStatus,   \* "ESTABLISHED", "CLOSE_WAIT", "FIN_WAIT" or "CLOSED"
          tx,          \* [mem, wr, next, used]: transmit ring, TX_WR as read back, as written
          rx,          \* [mem, rd, size]: receive ring, RX_RD, bytes received
          ethCall,     \* the call in progress
          udp,         \* [remaining, offset] of EthernetUDP; building: beginPacket has been called
          inFlight,    \* bytes sent on the stream that the peer has not acknowledged
          written,     \* what the application wrote into the packet being built
          onWire,      \* the last packet sent, and what was written for it
          arrived,     \* cells received and not yet read, oldest first
          readBack,    \* what the last read returned, and what it should have
          packets

ethVars == <<ethMode, ethStatus, tx, rx, ethCall, udp, inFlight, written, onWire, arrived,
             readBack, packets>>

Junk == -1
HEADER == 2

Least(a, b) == IF a < b THEN a ELSE b

Cut(data, len) == SubSeq(data, 1, Least(len, Len(data)))

Put(mem, at, data) ==
  [i \in DOMAIN mem |-> IF i \in at .. at + Len(data) - 1 THEN data[i - at + 1] ELSE mem[i]]

FirstPartWhole(ptr, len) == len

\* The SPI burst is split in two when the data run over the end of the ring.
FirstPart(ptr, len) == IF (ptr % SSIZE) + len > SSIZE THEN SSIZE - (ptr % SSIZE) ELSE len

WriteRing(mem, ptr, data) ==
  LET size == FirstPart(ptr, Len(data))
  IN  Put(Put(mem, ptr % SSIZE, SubSeq(data, 1, size)), 0, SubSeq(data, size + 1, Len(data)))

Cells(mem, from, len) == [i \in 1 .. len |-> mem[from + i - 1]]

read_data(ptr, len) ==
  LET size == FirstPart(ptr, len)
  IN  Cells(rx.mem, ptr % SSIZE, size) \o Cells(rx.mem, 0, len - size)

Released(mem, ptr, len) == WriteRing(mem, ptr, [i \in 1 .. len |-> Junk])

\* The register is read until two readings agree.
getTXFreeSize == SSIZE - tx.used

getRXReceivedSize == rx.size

send_data_processing_no_offset(offset, data) ==
  [tx EXCEPT !.mem = WriteRing(tx.mem, tx.wr, data), !.next = (tx.wr + Len(data)) % Span]

\* TX_WR is read, so a second piece of a datagram finds the pointer where the first found it.
send_data_processing_offset(offset, data) ==
  LET ptr == tx.wr + offset
  IN  [tx EXCEPT !.mem = WriteRing(tx.mem, ptr, data), !.next = (ptr + Len(data)) % Span]

\* The SEND command: the chip takes everything up to the written pointer.
Transmitted(t) == [i \in 1 .. (t.next - t.wr) % Span |-> t.mem[(t.wr + i - 1) % SSIZE]]

Sock_SEND(t) == [t EXCEPT !.wr = t.next, !.used = @ + ((t.next - t.wr) % Span)]

(*------------------------------- the network ------------------------------*)
Calm == UNCHANGED <<ethMode, ethCall, udp, written, onWire, readBack>>

Arrive(cells) ==
  /\ packets < MaxPackets
  /\ packets' = packets + 1
  /\ rx.size + Len(cells) <= SSIZE
  /\ rx' = [rx EXCEPT !.mem = WriteRing(rx.mem, rx.rd + rx.size, cells), !.size = @ + Len(cells)]
  /\ arrived' = arrived \o cells
  /\ UNCHANGED <<ethStatus, tx, inFlight>> /\ Calm

StreamArrives == ethMode = "TCP" /\ ethStatus = "ESTABLISHED" /\ \E c \in Chunks : c /= <<>> /\ Arrive(c)

DatagramArrives == ethMode = "UDP" /\ \E c \in Chunks, from \in Senders : Arrive(<<from, Len(c)>> \o c)

Acknowledge ==
  /\ ethMode = "TCP" /\ inFlight /= <<>>
  /\ tx' = [tx EXCEPT !.used = @ - 1, !.mem[(tx.wr - Len(inFlight)) % SSIZE] = Junk]
  /\ inFlight' = Tail(inFlight)
  /\ UNCHANGED <<ethStatus, rx, arrived, packets>> /\ Calm

StatusChanges ==
  /\ ethMode = "TCP"
  /\ \/ ethStatus = "ESTABLISHED" /\ ethStatus' \in {"CLOSE_WAIT", "FIN_WAIT", "CLOSED"}
     \/ ethStatus \in {"CLOSE_WAIT", "FIN_WAIT"} /\ ethStatus' = "CLOSED"
  /\ UNCHANGED <<tx, rx, inFlight, arrived, packets>> /\ Calm

(*--------------------------- writing a stream -----------------------------*)
CallIs(c) == ethCall' = c

Idle == [name |-> "none", data |-> <<>>]

Truncated(data) == Cut(data, SSIZE)

\* EthernetClient::write, up to the loop of send that waits for room. More than the ring
\* holds is cut off, and the caller is told that all of it was written.
ClientWrite(data) ==
  /\ ethMode = "TCP" /\ ethCall = Idle /\ packets < MaxPackets
  /\ packets' = packets + 1
  /\ CallIs([name |-> "wait", data |-> data])
  /\ UNCHANGED <<ethMode, ethStatus, tx, rx, udp, inFlight, written, onWire, arrived, readBack>>

MayGoAnyway(data) == getTXFreeSize > 0

MayGo(data) == getTXFreeSize >= Len(data)

\* A connection that is going away leaves the loop with nothing to send, and still sends it.
send ==
  /\ ethCall.name = "wait"
  /\ LET open == ethStatus \in {"ESTABLISHED", "CLOSE_WAIT"}
         data == IF open THEN Truncated(ethCall.data) ELSE <<>>
         t    == send_data_processing_offset(0, data)
     IN  /\ open => MayGo(data)
         /\ tx' = Sock_SEND(t)
         /\ inFlight' = inFlight \o Transmitted(t)
         /\ onWire' = [packet |-> Transmitted(t), written |-> IF open THEN ethCall.data ELSE <<>>]
  /\ CallIs([name |-> "sendOk", data |-> <<>>])
  /\ UNCHANGED <<ethMode, ethStatus, rx, udp, written, arrived, readBack, packets>>

\* SEND_OK is awaited; if the socket closes instead, it is closed here too and 0 is returned.
SendEnds ==
  /\ ethCall.name = "sendOk"
  /\ IF ethStatus = "CLOSED"
       THEN tx' = [tx EXCEPT !.used = 0, !.mem = [i \in DOMAIN tx.mem |-> Junk]] /\ inFlight' = <<>>
       ELSE UNCHANGED <<tx, inFlight>>
  /\ CallIs(Idle)
  /\ UNCHANGED <<ethMode, ethStatus, rx, udp, written, onWire, arrived, readBack, packets>>

(*------------------------------- receiving --------------------------------*)
RecvLen(len) == Least(rx.size, len)

\* recv copies the bytes, moves RX_RD and gives the RECV command.
Take(len) ==
  /\ rx' = [mem |-> Released(rx.mem, rx.rd, len), rd |-> (rx.rd + len) % Span, size |-> rx.size - len]
  /\ arrived' = SubSeq(arrived, len + 1, Len(arrived))

Returned(got, should) == readBack' = [got |-> got, should |-> should]

recv(len) ==
  /\ Take(RecvLen(len))
  /\ Returned(read_data(rx.rd, RecvLen(len)), SubSeq(arrived, 1, RecvLen(len)))

Reading == ethCall = Idle /\ UNCHANGED <<ethMode, ethStatus, tx, ethCall, inFlight, written, onWire, packets>>

ClientRead(len) == ethMode = "TCP" /\ Reading /\ UNCHANGED udp /\ recv(len)

ClientPeek ==
  /\ ethMode = "TCP" /\ Reading /\ UNCHANGED <<udp, rx, arrived>>
  /\ rx.size > 0
  /\ Returned(read_data(rx.rd, 1), SubSeq(arrived, 1, 1))

ClientFlush == ethMode = "TCP" /\ Reading /\ UNCHANGED udp /\ recv(rx.size)

(*-------------------------------- datagrams -------------------------------*)
beginPacket ==
  /\ ethMode = "UDP" /\ ethCall = Idle
  /\ udp' = [udp EXCEPT !.offset = 0, !.building = TRUE]
  /\ written' = <<>>
  /\ UNCHANGED <<ethMode, ethStatus, tx, rx, ethCall, inFlight, onWire, arrived, readBack, packets>>

\* bufferData: what does not fit in the free space is cut off.
UdpWrite(data) ==
  /\ udp.building /\ ethCall = Idle /\ packets < MaxPackets
  /\ packets' = packets + 1
  /\ LET kept == Cut(data, getTXFreeSize)
     IN  /\ tx' = send_data_processing_offset(udp.offset, kept)
         /\ udp' = [udp EXCEPT !.offset = @ + Len(kept)]
         /\ written' = written \o kept
  /\ UNCHANGED <<ethMode, ethStatus, rx, ethCall, inFlight, onWire, arrived, readBack>>

endPacket ==
  /\ udp.building /\ ethCall = Idle
  /\ tx' = Sock_SEND(tx)
  /\ onWire' = [packet |-> Transmitted(tx), written |-> written]
  /\ written' = <<>>
  /\ udp' = [udp EXCEPT !.building = FALSE]
  /\ CallIs([name |-> "udpOk", data |-> <<>>])
  /\ UNCHANGED <<ethMode, ethStatus, rx, inFlight, arrived, readBack, packets>>

\* SEND_OK or TIMEOUT ends the wait: either way the chip has let go of the packet.
sendUDP ==
  /\ ethCall.name = "udpOk"
  /\ tx' = [tx EXCEPT !.used = 0, !.mem = [i \in DOMAIN tx.mem |-> Junk]]
  /\ CallIs(Idle)
  /\ UNCHANGED <<ethMode, ethStatus, rx, udp, inFlight, written, onWire, arrived, readBack, packets>>

\* sendto in one call; an empty datagram is not sent.
sendto(data) ==
  /\ ethMode = "UDP" /\ ethCall = Idle /\ ~udp.building /\ data /= <<>> /\ packets < MaxPackets
  /\ packets' = packets + 1
  /\ LET t == send_data_processing_offset(0, Truncated(data))
     IN  tx' = Sock_SEND(t) /\ onWire' = [packet |-> Transmitted(t), written |-> data]
  /\ CallIs([name |-> "udpOk", data |-> <<>>])
  /\ UNCHANGED <<ethMode, ethStatus, rx, udp, inFlight, written, arrived, readBack>>

\* What is left of the datagram being read is dropped before the next header is read.
Rest == udp.remaining

parsePacket ==
  /\ ethMode = "UDP" /\ Reading
  /\ LET head == read_data(rx.rd + Rest, HEADER)
         more == rx.size > Rest
     IN  /\ Take(Rest + IF more THEN HEADER ELSE 0)
         /\ udp' = [udp EXCEPT !.remaining = IF more THEN head[2] ELSE 0]
         /\ Returned(IF more THEN head ELSE <<>>,
                     IF more THEN SubSeq(arrived, udp.remaining + 1, udp.remaining + HEADER) ELSE <<>>)

UdpReadLenWhole(len) == len

UdpReadLen(len) == Least(udp.remaining, len)

UdpRead(len) ==
  /\ ethMode = "UDP" /\ Reading
  /\ udp.remaining > 0
  /\ recv(UdpReadLen(len))
  /\ udp' = [udp EXCEPT !.remaining = @ - RecvLen(UdpReadLen(len))]

UdpPeek ==
  /\ ethMode = "UDP" /\ Reading /\ UNCHANGED <<udp, rx, arrived>>
  /\ udp.remaining > 0
  /\ Returned(read_data(rx.rd, 1), SubSeq(arrived, 1, 1))

\* recvfrom takes header and data together.
recvfrom ==
  /\ ethMode = "UDP" /\ Reading /\ UNCHANGED udp
  /\ udp.remaining = 0 /\ rx.size >= HEADER
  /\ LET length == read_data(rx.rd, HEADER)[2]
     IN  /\ Take(HEADER + length)
         /\ Returned(read_data(rx.rd + HEADER, length), SubSeq(arrived, HEADER + 1, HEADER + length))

Init ==
  /\ ethMode \in {"TCP", "UDP"}
  /\ ethStatus = "ESTABLISHED"
  /\ \E start \in Starts :
       /\ tx = [mem |-> [i \in 0 .. SSIZE - 1 |-> Junk], wr |-> start, next |-> start, used |-> 0]
       /\ rx = [mem |-> [i \in 0 .. SSIZE - 1 |-> Junk], rd |-> start, size |-> 0]
  /\ ethCall = Idle
  /\ udp = [remaining |-> 0, offset |-> 0, building |-> FALSE]
  /\ inFlight = <<>> /\ written = <<>> /\ arrived = <<>>
  /\ onWire = [packet |-> <<>>, written |-> <<>>]
  /\ readBack = [got |-> <<>>, should |-> <<>>]
  /\ packets = 0

Next ==
  \/ StreamArrives \/ DatagramArrives \/ Acknowledge \/ StatusChanges
  \/ \E c \in Chunks : c /= <<>> /\ (ClientWrite(c) \/ UdpWrite(c) \/ sendto(c))
  \/ send \/ SendEnds
  \/ \E len \in 1 .. 2 : ClientRead(len) \/ UdpRead(len)
  \/ ClientPeek \/ ClientFlush
  \/ beginPacket \/ endPacket \/ sendUDP \/ parsePacket \/ UdpPeek \/ recvfrom

Spec == Init /\ [][Next]_ethVars

---------------------------------------------------------------------------
\* What leaves the chip is what the application wrote, wherever the ring wraps and however many
\* pieces a datagram was written in, as long as there are pieces and they fit the buffer together.
\* Of a longer write to a stream the part that fits is sent; EthernetClient::write reports the
\* whole all the same (EthernetClient.cpp:86), so nobody sends the rest.
SentAsWritten ==
  ethMode = "TCP" \/ Len(onWire.written) \in 1 .. SSIZE =>
    onWire.packet = Truncated(onWire.written)

\* A byte of the stream that the peer has not acknowledged is still in the transmit ring, for the
\* chip to send again: a later write waits until there is room.
UnacknowledgedKept ==
  \A i \in 1 .. Len(inFlight) : tx.mem[(tx.wr - Len(inFlight) + i - 1) % SSIZE] = inFlight[i]

\* From the given cell on there are whole datagrams: cuts between them, each one header and
\* length after the one before.
Datagrams(cells, from) ==
  \E cuts \in SUBSET (from .. Len(cells)) :
    /\ from \in cuts
    /\ \A c \in cuts \ {Len(cells)} :
         c + HEADER <= Len(cells) /\ c + HEADER + cells[c + HEADER] \in cuts

\* Every read returns the next bytes that arrived; a datagram read never runs into the next one's
\* header, because the rest of a datagram is dropped before the next header is taken.
ReadsNext ==
  /\ readBack.got = readBack.should
  /\ ethMode = "UDP" =>
       /\ udp.remaining \in 0 .. Len(arrived)
       /\ Datagrams(arrived, udp.remaining)
==================================================================================
