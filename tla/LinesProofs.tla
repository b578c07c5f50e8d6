----------------------------- MODULE LinesProofs -----------------------------
(***************************************************************************)
(* Proofs about the libraries of the module MCLines, for every value of    *)
(* its constants.                                                          *)
(***************************************************************************)
EXTENDS MCLines, SequenceTheorems, FiniteSetTheorems, WellFoundedInduction, TLAPS

-----------------------------------------------------------------------------
(* libraries/SoftwareSerial                                                *)

\* A byte sampled from its start bit on is read as it was sent, whichever the polarity of the
\* line.
LEMMA ByteSurvives ==
  ASSUME NEW b \in 0 .. 255, NEW inverse \in BOOLEAN
  PROVE  SS!Inverse(SS!Late(SS!Levels(b, inverse), 0, inverse), inverse) = b
<1> DEFINE levels == SS!Late(SS!Levels(b, inverse), 0, inverse)
           Bit(i) == (b \div SS!Power[i]) % 2
<1>1. \A i \in 1 .. 8 : levels[i + 1] = ((Bit(i) = 1) # inverse)
  <2> SUFFICES ASSUME NEW i \in 1 .. 8 PROVE levels[i + 1] = ((Bit(i) = 1) # inverse)
    OBVIOUS
  <2>1. i + 1 \in 1 .. 10 /\ i + 1 # 1 /\ i + 1 # 10 /\ (i + 1) - 1 = i
    OBVIOUS
  <2> DEFINE j == i + 1
  <2> HIDE DEF j
  <2>2. j \in 1 .. 10 /\ j # 1 /\ j # 10 /\ j - 1 = i
    BY <2>1 DEF j
  <2>3. SS!Levels(b, inverse)[j] = (((b \div SS!Power[j - 1]) % 2 = 1) # inverse)
    BY <2>2, Zenon DEF SS!Levels
  <2>4. levels[j] = SS!Levels(b, inverse)[j]
    <3>1. j + 0 = j /\ j + 0 <= 10
      BY <2>2
    <3> QED
      BY <2>2, <3>1, Zenon DEF SS!Late
  <2>5. levels[j] = ((Bit(i) = 1) # inverse)
    BY <2>2, <2>3, <2>4, Zenon
  <2> QED
    BY <2>5 DEF j
<1>2. /\ Bit(1) = b % 2 /\ Bit(2) = (b \div 2) % 2 /\ Bit(3) = (b \div 4) % 2
      /\ Bit(4) = (b \div 8) % 2 /\ Bit(5) = (b \div 16) % 2 /\ Bit(6) = (b \div 32) % 2
      /\ Bit(7) = (b \div 64) % 2 /\ Bit(8) = (b \div 128) % 2
  BY DEF SS!Power
<1>3. b = Bit(1) + 2 * Bit(2) + 4 * Bit(3) + 8 * Bit(4) + 16 * Bit(5) + 32 * Bit(6)
            + 64 * Bit(7) + 128 * Bit(8)
  <2>1. /\ b = 2 * (b \div 2) + (b % 2)
        /\ b \div 2 = 2 * (b \div 4) + ((b \div 2) % 2)
        /\ b \div 4 = 2 * (b \div 8) + ((b \div 4) % 2)
        /\ b \div 8 = 2 * (b \div 16) + ((b \div 8) % 2)
    OBVIOUS
  <2>2. /\ b \div 16 = 2 * (b \div 32) + ((b \div 16) % 2)
        /\ b \div 32 = 2 * (b \div 64) + ((b \div 32) % 2)
        /\ b \div 64 = 2 * (b \div 128) + ((b \div 64) % 2)
        /\ b \div 128 = (b \div 128) % 2
    OBVIOUS
  <2>3. /\ b % 2 \in Int /\ (b \div 2) % 2 \in Int /\ (b \div 4) % 2 \in Int
        /\ (b \div 8) % 2 \in Int /\ (b \div 16) % 2 \in Int /\ (b \div 32) % 2 \in Int
        /\ (b \div 64) % 2 \in Int /\ (b \div 128) % 2 \in Int
    OBVIOUS
  <2>4. b = (b % 2) + 2 * ((b \div 2) % 2) + 4 * ((b \div 4) % 2) + 8 * ((b \div 8) % 2)
              + 16 * ((b \div 16) % 2) + 32 * ((b \div 32) % 2) + 64 * ((b \div 64) % 2)
              + 128 * ((b \div 128) % 2)
    BY <2>1, <2>2, <2>3
  <2> HIDE DEF Bit
  <2> QED
    BY <1>2, <2>4
<1>4. \A i \in 1 .. 8 : SS!Power[i] \in Nat /\ Bit(i) \in {0, 1}
  BY <1>2 DEF SS!Power
<1>5. \A i \in 1 .. 8 : SS!Weight(levels, i) = IF inverse THEN SS!Power[i] * (1 - Bit(i))
                                               ELSE SS!Power[i] * Bit(i)
  <2> SUFFICES ASSUME NEW i \in 1 .. 8
               PROVE  SS!Weight(levels, i) = IF inverse THEN SS!Power[i] * (1 - Bit(i))
                                             ELSE SS!Power[i] * Bit(i)
    OBVIOUS
  <2> DEFINE x == Bit(i)
             y == SS!Power[i]
  <2>1. x \in {0, 1} /\ y \in Nat
    BY <1>4
  <2>2. SS!Weight(levels, i) = IF (x = 1) # inverse THEN y ELSE 0
    BY <1>1 DEF SS!Weight
  <2> HIDE DEF x, y
  <2>3. (IF (x = 1) # inverse THEN y ELSE 0) = IF inverse THEN y * (1 - x) ELSE y * x
    BY <2>1
  <2> QED
    BY <2>2, <2>3 DEF x, y
<1> HIDE DEF levels, Bit
<1>6. SS!Sampled(levels) = IF inverse THEN 255 - b ELSE b
  BY <1>3, <1>4, <1>5 DEF SS!Sampled, SS!Power
<1> QED
  BY <1>6 DEF SS!Inverse, levels

\* A place in the ring buffer, for a number of at most two rounds.
At(n) == IF n < _SS_MAX_RX_BUFF THEN n ELSE n - _SS_MAX_RX_BUFF

Used == IF tail >= head THEN tail - head ELSE tail + _SS_MAX_RX_BUFF - head

LEMMA PlaceInRing ==
  ASSUME NEW n \in 0 .. 2 * _SS_MAX_RX_BUFF - 1
  PROVE  n % _SS_MAX_RX_BUFF = At(n) /\ At(n) \in 0 .. _SS_MAX_RX_BUFF - 1
<1>1. _SS_MAX_RX_BUFF \in Nat /\ _SS_MAX_RX_BUFF > 0
  BY SerialAssumption
<1> QED
  BY <1>1 DEF At

\* The ring buffer from head to tail is what is due but for garbled bytes, and a read that has taken its byte
\* has not moved on yet.
SerialInv ==
  /\ head \in 0 .. _SS_MAX_RX_BUFF - 1 /\ tail \in 0 .. _SS_MAX_RX_BUFF - 1
  /\ ring = [i \in 0 .. _SS_MAX_RX_BUFF - 1 |-> ring[i]]
  /\ due \in Seq(Int) /\ Len(due) = Used
  /\ \A i \in 1 .. Used : due[i] # SS!Garbled => ring[At(head + i - 1)] = due[i]
  /\ step = "read" => head # tail /\ taken = ring[head]

\* The same of what is about to be: an action is followed through its parts.
LEMMA KeepSerialInv ==
  ASSUME SerialInv, NEW got, NEW v \in Int, v # SS!Garbled => got = v,
         SS!Keep(got, v), UNCHANGED <<head, step, taken>>
  PROVE  SerialInv'
<1> DEFINE B == _SS_MAX_RX_BUFF
<1>1. B \in Nat /\ B > 0 /\ head \in 0 .. B - 1 /\ tail \in 0 .. B - 1
  BY SerialAssumption DEF SerialInv
<1>2. head' = head /\ step' = step /\ taken' = taken
  OBVIOUS
<1>3. (tail + 1) % B = At(tail + 1) /\ At(tail + 1) \in 0 .. B - 1
  BY <1>1, PlaceInRing
<1>4. CASE ~(At(tail + 1) # head)
  <2>1. ring' = ring /\ tail' = tail /\ due' = due
    BY <1>3, <1>4 DEF SS!Keep
  <2> QED
    BY <1>2, <2>1 DEF SerialInv, Used, At
<1>5. CASE At(tail + 1) # head
  <2>1. /\ ring' = [ring EXCEPT ![tail] = got] /\ tail' = At(tail + 1)
        /\ due' = Append(due, v)
    BY <1>3, <1>5 DEF SS!Keep
  <2>2. Used \in 0 .. B - 1 /\ Used' = Used + 1
    BY <1>1, <1>2, <1>5, <2>1 DEF Used, At
  <2>3. due' \in Seq(Int) /\ Len(due') = Used'
    BY <2>1, <2>2 DEF SerialInv
  <2>4. ring' = [i \in 0 .. B - 1 |-> ring'[i]]
    BY <1>1, <2>1 DEF SerialInv
  <2>5. ASSUME NEW i \in 1 .. Used', due'[i] # SS!Garbled
        PROVE  ring'[At(head + i - 1)] = due'[i]
    <3>1. CASE i = Used + 1
      <4>1. At(head + i - 1) = tail
        BY <1>1, <2>2, <3>1 DEF Used, At
      <4>2. ring'[tail] = got
        BY <1>1, <2>1 DEF SerialInv
      <4>3. due'[i] = v
        BY <2>1, <3>1 DEF SerialInv
      <4> QED
        BY <2>5, <4>1, <4>2, <4>3
    <3>2. CASE i # Used + 1
      <4>1. i \in 1 .. Used
        BY <2>2, <3>2
      <4>2. At(head + i - 1) # tail /\ At(head + i - 1) \in 0 .. B - 1
        BY <1>1, <2>2, <4>1 DEF Used, At
      <4>3. ring'[At(head + i - 1)] = ring[At(head + i - 1)]
        BY <1>1, <2>1, <4>2 DEF SerialInv
      <4>4. due'[i] = due[i]
        BY <2>1, <4>1 DEF SerialInv
      <4> QED
        BY <2>5, <4>1, <4>3, <4>4 DEF SerialInv
    <3> QED
      BY <3>1, <3>2
  <2>6. step' = "read" => head' # tail' /\ taken' = ring'[head']
    <3>1. head # tail => ring'[head] = ring[head]
      BY <1>1, <2>1 DEF SerialInv
    <3> QED
      BY <1>2, <1>5, <2>1, <3>1 DEF SerialInv
  <2> QED
    BY <1>1, <1>2, <1>3, <2>1, <2>3, <2>4, <2>5, <2>6 DEF SerialInv, At
<1> QED
  BY <1>4, <1>5

\* An emptied buffer.
LEMMA EmptySerialInv ==
  ASSUME SerialInv, step' # "read", head' = 0, tail' = 0, due' = << >>,
         ring' = [i \in DOMAIN ring |-> 0]
  PROVE  SerialInv'
<1>1. _SS_MAX_RX_BUFF \in Nat /\ _SS_MAX_RX_BUFF > 0
  BY SerialAssumption
<1>2. ring' = [i \in 0 .. _SS_MAX_RX_BUFF - 1 |-> ring'[i]]
  BY DEF SerialInv
<1>3. Used' = 0
  BY <1>1 DEF Used
<1>4. due' \in Seq(Int) /\ Len(due') = 0
  OBVIOUS
<1> QED
  BY <1>1, <1>2, <1>3, <1>4 DEF SerialInv

LEMMA ListenSerialInv ==
  ASSUME SerialInv, NEW p, SS!listen(p), step \in {"none", "tuned"}, step' = "none"
  PROVE  SerialInv'
<1>1. CASE active_object = p
  <2>1. ring' = ring /\ head' = head /\ tail' = tail /\ due' = due
    BY <1>1 DEF SS!listen
  <2> QED
    BY <2>1 DEF SerialInv, Used, At
<1>2. CASE active_object # p
  BY <1>2, EmptySerialInv DEF SS!listen
<1> QED
  BY <1>1, <1>2

LEMMA MoveSerialInv ==
  ASSUME SerialInv, SS!readMoves
  PROVE  SerialInv'
<1> DEFINE B == _SS_MAX_RX_BUFF
<1>1. B \in Nat /\ B > 0 /\ head \in 0 .. B - 1 /\ tail \in 0 .. B - 1 /\ head # tail
  BY SerialAssumption DEF SerialInv, SS!readMoves
<1>2. /\ step' = "none" /\ head' = At(head + 1) /\ tail' = tail
      /\ ring' = [ring EXCEPT ![head] = 0] /\ due' = Tail(due)
  BY <1>1, PlaceInRing DEF SS!readMoves
<1>3. Used \in 1 .. B - 1 /\ Used' = Used - 1 /\ head' \in 0 .. B - 1
  BY <1>1, <1>2 DEF Used, At
<1>4. due \in Seq(Int) /\ Len(due) = Used /\ due # << >>
  BY <1>3 DEF SerialInv
<1>5. due' \in Seq(Int) /\ Len(due') = Used' /\ \A i \in 1 .. Used' : due'[i] = due[i + 1]
  BY <1>2, <1>3, <1>4
<1>6. ring' = [i \in 0 .. B - 1 |-> ring'[i]]
  BY <1>1, <1>2 DEF SerialInv
<1>7. ASSUME NEW i \in 1 .. Used', due'[i] # SS!Garbled
      PROVE  ring'[At(head' + i - 1)] = due'[i]
  <2>1. i + 1 \in 1 .. Used
    BY <1>3
  <2>2. /\ At(head' + i - 1) = At(head + (i + 1) - 1)
        /\ At(head + (i + 1) - 1) \in 0 .. B - 1 /\ At(head + (i + 1) - 1) # head
    BY <1>1, <1>2, <1>3, <2>1 DEF At
  <2>3. ring'[At(head + (i + 1) - 1)] = ring[At(head + (i + 1) - 1)]
    BY <1>1, <1>2, <2>2 DEF SerialInv
  <2>4. due'[i] = due[i + 1]
    BY <1>5
  <2>5. ring[At(head + (i + 1) - 1)] = due[i + 1]
    BY <1>7, <2>1, <2>4 DEF SerialInv
  <2> QED
    BY <2>2, <2>3, <2>4, <2>5
<1> QED
  BY <1>1, <1>2, <1>3, <1>5, <1>6, <1>7 DEF SerialInv, At

LEMMA SerialStep == SerialInv /\ SS!Next => SerialInv'
<1> SUFFICES ASSUME SerialInv, SS!Next PROVE SerialInv'
  OBVIOUS
<1>1. ASSUME NEW p \in SerialPorts, SS!begin(p) PROVE SerialInv'
  BY <1>1 DEF SS!begin, SerialInv, Used, At
<1>2. ASSUME NEW p \in SerialPorts, SS!Listen(p) PROVE SerialInv'
  BY <1>2, ListenSerialInv DEF SS!Listen
<1>3. ASSUME NEW p \in SerialPorts, SS!end(p) PROVE SerialInv'
  BY <1>3 DEF SS!end, SerialInv, Used, At
<1>4. ASSUME NEW p \in SerialPorts, SS!readTakes(p) PROVE SerialInv'
  BY <1>4 DEF SS!readTakes, SerialInv, Used, At
<1>5. ASSUME NEW p \in SerialPorts, SS!overflowReads(p) PROVE SerialInv'
  BY <1>5 DEF SS!overflowReads, SerialInv, Used, At
<1>6. ASSUME NEW p \in SerialPorts, SS!flush(p) PROVE SerialInv'
  <2>1. /\ head' = 0 /\ tail' = 0 /\ due' = << >> /\ step' # "read"
        /\ ring' = [i \in DOMAIN ring |-> 0]
    BY <1>6 DEF SS!flush
  <2> QED
    BY <2>1, EmptySerialInv
<1>7. ASSUME NEW p \in SerialPorts, NEW b \in Bytes, NEW k \in 0 .. 8, SS!handle_interrupt(p, b, k)
      PROVE  SerialInv'
  <2> DEFINE aligned == p = active_object /\ p \in tuned /\ k = 0
             got == SS!recv(active_object, b, k)
             v == IF aligned THEN b ELSE SS!Garbled
  <2>1. b \in 0 .. 255 /\ (p \in Inverted) \in BOOLEAN
    BY SerialAssumption
  <2>2. SS!Keep(got, v) /\ UNCHANGED <<head, step, taken>>
    BY <1>7 DEF SS!handle_interrupt
  <2>3. aligned => got = b
    BY <2>1, ByteSurvives DEF SS!recv
  <2>4. v \in Int /\ (v # SS!Garbled => got = v)
    BY <2>1, <2>3 DEF SS!Garbled
  <2> HIDE DEF v, got
  <2> QED
    BY <2>2, <2>4, KeepSerialInv
<1>8. ASSUME NEW known \in BOOLEAN, SS!beginTunes(known) PROVE SerialInv'
  BY <1>8 DEF SS!beginTunes, SerialInv, Used, At
<1>9. CASE SS!beginListens
  BY <1>9, ListenSerialInv DEF SS!beginListens
<1>10. CASE SS!overflowClears
  BY <1>10 DEF SS!overflowClears, SerialInv, Used, At
<1> QED
  BY <1>1, <1>2, <1>3, <1>4, <1>5, <1>6, <1>7, <1>8, <1>9, <1>10, MoveSerialInv DEF SS!Next

LEMMA SerialInit == SS!Init => SerialInv
<1>1. _SS_MAX_RX_BUFF \in Nat /\ _SS_MAX_RX_BUFF > 0
  BY SerialAssumption
<1> QED
  BY <1>1 DEF SS!Init, SerialInv, Used

LEMMA SerialSafe == SerialInv => SS!BytesInOrder /\ SS!ReadIsOldest
<1> SUFFICES ASSUME SerialInv PROVE SS!BytesInOrder /\ SS!ReadIsOldest
  OBVIOUS
<1> DEFINE B == _SS_MAX_RX_BUFF
<1>1. B \in Nat /\ B > 0 /\ head \in 0 .. B - 1 /\ tail \in 0 .. B - 1
  BY SerialAssumption DEF SerialInv
<1>2. tail + B - head \in 0 .. 2 * B - 1 /\ At(tail + B - head) = Used /\ Used \in 0 .. B - 1
  BY <1>1 DEF At, Used
<1>3. SS!available = Used
  BY <1>2, PlaceInRing DEF SS!available
<1>4. ASSUME NEW i \in 1 .. Used, due[i] # SS!Garbled PROVE ring[(head + i - 1) % B] = due[i]
  <2>1. head + i - 1 \in 0 .. 2 * B - 1
    BY <1>1, <1>2
  <2>2. (head + i - 1) % B = At(head + i - 1)
    BY <2>1, PlaceInRing
  <2> QED
    BY <1>4, <2>2 DEF SerialInv
<1>5. SS!BytesInOrder
  BY <1>3, <1>4 DEF SS!BytesInOrder, SerialInv
<1>6. ASSUME step = "read", due[1] # SS!Garbled PROVE taken = due[1]
  <2>1. 1 \in 1 .. Used /\ At(head + 1 - 1) = head
    BY <1>1, <1>6 DEF SerialInv, Used, At
  <2>2. ring[At(head + 1 - 1)] = due[1]
    BY <1>6, <2>1 DEF SerialInv
  <2> QED
    BY <1>6, <2>1, <2>2 DEF SerialInv
<1> QED
  BY <1>5, <1>6 DEF SS!ReadIsOldest

-----------------------------------------------------------------------------
(* libraries/Adafruit_GPS: lines                                           *)

\* The characters of the first n lines, and what a cell of a buffer holds.
Sent(n) == [line : 1 .. n, at : Nat \ {0}]
Cell    == [line : Nat, at : Int]

Row == [1 .. LineBuffer -> Cell]

\* The buffer is the C string s.
Keeps(buf, s) ==
  /\ Len(s) < LineBuffer
  /\ \A i \in 1 .. Len(s) : buf[i] = s[i]
  /\ buf[Len(s) + 1] = AG!Nul

GpsRecords == [buf : [1 .. 2 -> Row], cur : 1 .. 2, last : 1 .. 2, idx : 0 .. LineBuffer - 1,
               recvd : BOOLEAN, paused : BOOLEAN]
UartRecords == [line : Nat, kind : Seq(Kinds), at : Nat, lost : Nat]
HeardRecords(n) == [arriving : Seq(Sent(n)), ended : Seq(Sent(n)), taken : Seq(Sent(n)), lag : 0 .. 2]
Pcs == {"idle", "last", "parse", "wait", "waitLast", "copy", "status", "again", "reads", "told"}
ProgRecords == [pc : Pcs, ptr : 0 .. 2,
                wanted : {"fix", "started", "log", "awake"}, tries : Nat, standby : BOOLEAN]
ParsedRecords(n) == [is : Seq(Sent(n)), should : Seq(Sent(n))]

AdaTypes ==
  /\ gpsIn \in GpsRecords
  /\ uart \in UartRecords
  /\ heard \in HeardRecords(uart.line)
  /\ prog \in ProgRecords
  /\ parsed \in ParsedRecords(uart.line)

\* The buffer being filled begins with the line as it arrives, the other one is the line
\* that ended last.
BuffersKept ==
  /\ gpsIn.last = 3 - gpsIn.cur
  /\ Len(heard.arriving) = gpsIn.idx
  /\ \A i \in 1 .. gpsIn.idx : gpsIn.buf[gpsIn.cur][i] = heard.arriving[i]
  /\ Keeps(gpsIn.buf[gpsIn.last], heard.ended)

\* The program works on a buffer it has taken.
Holding == prog.pc \in {"parse", "copy", "reads"}

\* A buffer taken is that other one until a line ends, and then still unchanged until the
\* next character.
TakenKept ==
  /\ heard.lag = 0 => heard.taken = heard.ended
  /\ Holding /\ heard.lag = 0 => prog.ptr = gpsIn.last
  /\ Holding /\ heard.lag = 1 =>
       prog.ptr = gpsIn.cur /\ gpsIn.idx = 0 /\ Keeps(gpsIn.buf[gpsIn.cur], heard.taken)

\* An answer found is the line that ended last, as long as none ends.
AnswerKept ==
  /\ Len(uart.kind) = uart.line
  /\ prog.pc \in {"status", "again"} /\ heard.lag = 0 => AG!Contains(heard.ended, "log")
  /\ prog.pc = "reads" => AG!Contains(heard.taken, "log")
  /\ parsed.is = parsed.should
  /\ prog.pc = "told" /\ parsed # AG!NoParse => AG!Contains(parsed.is, "log")

AdaInv == AdaTypes /\ BuffersKept /\ TakenKept /\ AnswerKept

\* What a buffer that keeps a line is read as.
LEMMA TextIsKept ==
  ASSUME NEW b \in 1 .. 2, NEW n \in Nat, NEW s \in Seq(Sent(n)),
         gpsIn.buf[b] \in Row, Keeps(gpsIn.buf[b], s)
  PROVE  AG!TextIn(b) = s
<1> DEFINE buf == gpsIn.buf[b]
           M == LineBuffer
<1>1. M \in Nat /\ Len(s) \in Nat /\ Len(s) + 1 \in 1 .. M
  BY AdafruitAssumption DEF Keeps
<1>2. \A i \in 1 .. Len(s) : buf[i] = s[i] /\ buf[i] # AG!Nul
  <2>1. \A i \in 1 .. Len(s) : s[i] \in Sent(n)
    OBVIOUS
  <2>2. \A c \in Sent(n) : c # AG!Nul
    BY DEF Sent, AG!Nul
  <2> QED
    BY <2>1, <2>2 DEF Keeps
<1>3. buf[Len(s) + 1] = AG!Nul
  BY DEF Keeps
<1> DEFINE End(i) == buf[i] = AG!Nul /\ \A j \in 1 .. i - 1 : buf[j] # AG!Nul
<1>4. End(Len(s) + 1)
  BY <1>1, <1>2, <1>3
<1>5. \A i \in 1 .. M : End(i) => i = Len(s) + 1
  BY <1>1, <1>2, <1>3
<1>6. AG!Place(b) = Len(s) + 1
  <2>1. AG!Place(b) = CHOOSE i \in 1 .. M : End(i)
    BY DEF AG!Place
  <2> HIDE DEF End
  <2> QED
    BY <1>1, <1>4, <1>5, <2>1
<1>7. AG!TextIn(b) = SubSeq(buf, 1, Len(s))
  BY <1>1, <1>3, <1>6 DEF AG!TextIn
<1>8. buf \in Seq(Cell) /\ Len(buf) = M
  BY <1>1 DEF Row
<1>9. SubSeq(buf, 1, Len(s)) = s
  <2> DEFINE t == SubSeq(buf, 1, Len(s))
  <2>1. t \in Seq(Cell) /\ Len(t) = Len(s) /\ \A i \in 1 .. Len(s) : t[i] = buf[i]
    BY <1>1, <1>8
  <2> HIDE DEF t
  <2>2. \A i \in 1 .. Len(s) : t[i] = s[i]
    BY <1>2, <2>1
  <2>3. t = s
    BY <2>1, <2>2
  <2> QED
    BY <2>3 DEF t
<1> QED
  BY <1>7, <1>9

\* A line that is still to come changes nothing about those that came.
LEMMA ContainsLater ==
  ASSUME NEW s \in Seq(Sent(Len(uart.kind))), NEW k, NEW l,
         uart.kind \in Seq(Kinds), uart'.kind = Append(uart.kind, l)
  PROVE  AG!Contains(s, k) <=> AG!Contains(s, k)'
<1>1. \A i \in 1 .. Len(s) : s[i].line \in 1 .. Len(uart.kind)
  <2>1. \A c \in Sent(Len(uart.kind)) : c.line \in 1 .. Len(uart.kind)
    BY DEF Sent
  <2>2. \A i \in 1 .. Len(s) : s[i] \in Sent(Len(uart.kind))
    OBVIOUS
  <2> QED
    BY <2>1, <2>2
<1>2. \A n \in 1 .. Len(uart.kind) : uart'.kind[n] = uart.kind[n]
  OBVIOUS
<1> QED
  BY <1>1, <1>2 DEF AG!Contains

\* A character is put into a buffer.
LEMMA CellStored ==
  ASSUME NEW buf \in [1 .. 2 -> Row], NEW cur \in 1 .. 2, NEW i \in 1 .. LineBuffer, NEW c \in Cell
  PROVE  LET b == [buf EXCEPT ![cur][i] = c]
         IN  /\ b \in [1 .. 2 -> Row]
             /\ b[3 - cur] = buf[3 - cur]
             /\ b[cur][i] = c
             /\ \A j \in 1 .. LineBuffer : j # i => b[cur][j] = buf[cur][j]
<1> DEFINE r == [buf[cur] EXCEPT ![i] = c]
           b == [buf EXCEPT ![cur] = r]
<1>1. buf[cur] \in Row
  OBVIOUS
<1>2. r \in Row /\ r[i] = c /\ \A j \in 1 .. LineBuffer : j # i => r[j] = buf[cur][j]
  BY <1>1 DEF Row
<1> HIDE DEF r
<1>3. b \in [1 .. 2 -> Row] /\ b[cur] = r
  BY <1>2
<1>4. 3 - cur \in 1 .. 2 /\ 3 - cur # cur
  OBVIOUS
<1>5. b[3 - cur] = buf[3 - cur]
  BY <1>4
<1> QED
  BY <1>2, <1>3, <1>5 DEF r

LEMMA AdaInit == AG!Init => AdaInv
<1> SUFFICES ASSUME AG!Init PROVE AdaInv
  OBVIOUS
<1>1. LineBuffer \in Nat /\ LineBuffer > 0
  BY AdafruitAssumption
<1> DEFINE blank == [b \in 1 .. 2 |-> [i \in 1 .. LineBuffer |-> AG!Nul]]
<1>2. blank \in [1 .. 2 -> Row] /\ blank[2][1] = AG!Nul
  BY <1>1 DEF Row, Cell, AG!Nul
<1>3. /\ gpsIn = [buf |-> blank, cur |-> 1, last |-> 2, idx |-> 0, recvd |-> FALSE, paused |-> FALSE]
      /\ uart = [line |-> 0, kind |-> <<>>, at |-> 0, lost |-> 0]
      /\ prog = [pc |-> "idle", ptr |-> 0, wanted |-> "fix", tries |-> 0, standby |-> FALSE]
      /\ heard = [arriving |-> <<>>, ended |-> <<>>, taken |-> <<>>, lag |-> 0]
      /\ parsed = [is |-> <<>>, should |-> <<>>]
  BY DEF AG!Init, AG!NoParse
<1> HIDE DEF blank
<1>4. gpsIn \in GpsRecords
  BY <1>1, <1>2, <1>3 DEF GpsRecords
<1>5. uart \in UartRecords /\ prog \in ProgRecords
  BY <1>3 DEF UartRecords, ProgRecords, Pcs
<1>6. heard \in HeardRecords(uart.line) /\ parsed \in ParsedRecords(uart.line)
  BY <1>3 DEF HeardRecords, ParsedRecords
<1>7. Keeps(gpsIn.buf[gpsIn.last], heard.ended)
  BY <1>1, <1>2, <1>3 DEF Keeps
<1>8. BuffersKept
  BY <1>3, <1>7 DEF BuffersKept
<1>9. TakenKept /\ AnswerKept
  BY <1>3 DEF TakenKept, AnswerKept, Holding
<1> QED
  BY <1>4, <1>5, <1>6, <1>8, <1>9 DEF AdaInv, AdaTypes

\* A character is read.
LEMMA AdaRead ==
  ASSUME AdaInv, AG!read
  PROVE  AdaInv'
<1> DEFINE M == LineBuffer
           n == uart.line
           c == IF uart.at = LineLen THEN AG!Newline ELSE [line |-> uart.line, at |-> uart.at + 1]
           cur == gpsIn.cur
           idx == gpsIn.idx
           buf == gpsIn.buf
<1>1. M \in Nat /\ M > 0 /\ LineLen \in Nat
  BY AdafruitAssumption
<1>2. /\ gpsIn \in GpsRecords /\ uart \in UartRecords /\ heard \in HeardRecords(n)
      /\ prog \in ProgRecords /\ parsed \in ParsedRecords(n)
  BY DEF AdaInv, AdaTypes
<1>3. /\ cur \in 1 .. 2 /\ gpsIn.last = 3 - cur /\ idx \in 0 .. M - 1 /\ buf \in [1 .. 2 -> Row]
      /\ n \in Nat /\ n > 0 /\ uart.at \in Nat
  BY <1>2 DEF AdaInv, BuffersKept, GpsRecords, UartRecords, AG!read
<1>4. /\ gpsIn' = AG!Taken(gpsIn, c) /\ heard' = AG!Heard(c)
      /\ uart' = [uart EXCEPT !.at = @ + 1] /\ prog' = prog /\ parsed' = parsed
  BY DEF AG!read
<1>5. uart' \in UartRecords /\ uart'.line = n /\ uart'.kind = uart.kind
  BY <1>2, <1>4 DEF UartRecords
<1>6. \A s, k : AG!Contains(s, k)' <=> AG!Contains(s, k)
  BY <1>5 DEF AG!Contains
<1>7. c = AG!Newline \/ (c # AG!Newline /\ c \in Sent(n))
  BY <1>3 DEF AG!Newline, Sent
<1>8. c \in Cell /\ AG!Nul \in Cell
  BY <1>3 DEF Cell, AG!Newline, AG!Nul
<1>9. prog' \in ProgRecords /\ parsed' \in ParsedRecords(uart'.line)
  BY <1>2, <1>4, <1>5
<1> HIDE DEF c
<1>10. CASE c = AG!Newline
  <2> DEFINE b == [buf EXCEPT ![cur][idx + 1] = AG!Nul]
  <2>1. gpsIn' = [gpsIn EXCEPT !.buf = b, !.cur = 3 - cur, !.last = cur, !.idx = 0, !.recvd = TRUE]
    BY <1>2, <1>4, <1>10 DEF AG!Taken, AG!Swap, AG!Terminated, GpsRecords
  <2>2. heard' = [heard EXCEPT !.ended = heard.arriving, !.arriving = <<>>,
                               !.lag = IF heard.lag = 0 THEN 1 ELSE 2]
    BY <1>2, <1>4, <1>10 DEF AG!Heard, HeardRecords
  <2>3. /\ b \in [1 .. 2 -> Row] /\ b[3 - cur] = buf[3 - cur] /\ b[cur][idx + 1] = AG!Nul
        /\ \A j \in 1 .. M : j # idx + 1 => b[cur][j] = buf[cur][j]
    BY <1>1, <1>3, <1>8, CellStored
  <2> HIDE DEF b
  <2>4. gpsIn' \in GpsRecords
    <3>1. gpsIn' = [buf |-> b, cur |-> 3 - cur, last |-> cur, idx |-> 0, recvd |-> TRUE,
                    paused |-> gpsIn.paused]
      BY <1>2, <2>1 DEF GpsRecords
    <3>2. gpsIn.paused \in BOOLEAN
      BY <1>2 DEF GpsRecords
    <3>3. 3 - cur \in 1 .. 2 /\ 0 \in 0 .. M - 1
      BY <1>1, <1>3
    <3> QED
      BY <1>3, <2>3, <3>1, <3>2, <3>3, Zenon DEF GpsRecords
  <2>5. gpsIn'.buf = b /\ gpsIn'.cur = 3 - cur /\ gpsIn'.last = cur /\ gpsIn'.idx = 0
    BY <1>2, <2>1 DEF GpsRecords
  <2>6. /\ heard' \in HeardRecords(n)
        /\ heard'.ended = heard.arriving /\ heard'.arriving = <<>> /\ heard'.taken = heard.taken
        /\ heard'.lag = IF heard.lag = 0 THEN 1 ELSE 2
    <3> DEFINE lag == IF heard.lag = 0 THEN 1 ELSE 2
    <3>1. lag \in 0 .. 2
      OBVIOUS
    <3> HIDE DEF lag
    <3>2. heard' = [arriving |-> <<>>, ended |-> heard.arriving, taken |-> heard.taken, lag |-> lag]
      BY <1>2, <2>2 DEF HeardRecords, lag
    <3>3. heard.arriving \in Seq(Sent(n)) /\ heard.taken \in Seq(Sent(n)) /\ <<>> \in Seq(Sent(n))
      BY <1>2 DEF HeardRecords
    <3>4. heard' \in HeardRecords(n)
      BY <3>1, <3>2, <3>3 DEF HeardRecords
    <3> QED
      BY <3>2, <3>4 DEF lag
  <2>7. Keeps(b[cur], heard.arriving)
    <3>1. Len(heard.arriving) = idx /\ \A i \in 1 .. idx : buf[cur][i] = heard.arriving[i]
      BY DEF AdaInv, BuffersKept
    <3> QED
      BY <1>1, <1>3, <2>3, <3>1 DEF Keeps
  <2>8. BuffersKept'
    BY <1>3, <2>5, <2>6, <2>7 DEF BuffersKept, Keeps
  <2>9. heard.lag = 0 /\ Holding => prog.ptr = 3 - cur /\ Keeps(b[3 - cur], heard.taken)
    BY <1>3, <2>3 DEF AdaInv, BuffersKept, TakenKept
  <2>10. heard'.lag # 0 /\ (heard'.lag = 1 => heard.lag = 0)
    BY <2>6
  <2>11. TakenKept'
    BY <1>4, <2>5, <2>6, <2>9, <2>10 DEF TakenKept, Keeps, Holding
  <2>12. AnswerKept'
    BY <1>4, <1>5, <1>6, <2>6, <2>10 DEF AdaInv, AnswerKept, AG!NoParse
  <2>13. AdaTypes'
    BY <1>5, <1>9, <2>4, <2>6 DEF AdaTypes
  <2> QED
    BY <2>8, <2>11, <2>12, <2>13 DEF AdaInv
<1>11. CASE c # AG!Newline
  <2> DEFINE i0 == IF c.at = 1 THEN 0 ELSE idx
             b0 == IF c.at = 1 THEN [buf EXCEPT ![cur][idx + 1] = AG!Nul] ELSE buf
             b == [b0 EXCEPT ![cur][i0 + 1] = c]
             i1 == IF i0 + 1 >= M THEN M - 1 ELSE i0 + 1
             s0 == IF c.at = 1 THEN <<>> ELSE heard.arriving
             s1 == IF Len(s0) < M - 1 THEN Append(s0, c) ELSE s0
  <2>1. gpsIn' = [gpsIn EXCEPT !.buf = b, !.idx = i1]
    <3>1. CASE c.at = 1
      BY <1>2, <1>4, <1>11, <3>1 DEF AG!Taken, AG!Put, AG!Terminated, GpsRecords
    <3>2. CASE c.at # 1
      BY <1>2, <1>4, <1>11, <3>2 DEF AG!Taken, AG!Put, GpsRecords
    <3> QED
      BY <3>1, <3>2
  <2>2. heard' = [heard EXCEPT !.arriving = s1, !.lag = IF heard.lag = 0 THEN 0 ELSE 2]
    BY <1>2, <1>4, <1>11 DEF AG!Heard, AG!Capped, HeardRecords
  <2>3. heard.arriving \in Seq(Sent(n)) /\ Len(heard.arriving) = idx
        /\ \A i \in 1 .. idx : buf[cur][i] = heard.arriving[i]
    BY <1>2 DEF AdaInv, BuffersKept, HeardRecords
  <2>4. b0 \in [1 .. 2 -> Row] /\ b0[3 - cur] = buf[3 - cur] /\ i0 \in 0 .. M - 1
        /\ \A i \in 1 .. i0 : b0[cur][i] = buf[cur][i]
    <3>1. CASE c.at = 1
      <4>1. [buf EXCEPT ![cur][idx + 1] = AG!Nul] \in [1 .. 2 -> Row]
            /\ [buf EXCEPT ![cur][idx + 1] = AG!Nul][3 - cur] = buf[3 - cur]
        BY <1>1, <1>3, <1>8, CellStored
      <4> QED
        BY <1>1, <3>1, <4>1
    <3>2. CASE c.at # 1
      BY <1>3, <3>2
    <3> QED
      BY <3>1, <3>2
  <2>5. s0 \in Seq(Sent(n)) /\ Len(s0) = i0 /\ \A i \in 1 .. i0 : b0[cur][i] = s0[i]
    <3>1. CASE c.at = 1
      BY <3>1
    <3>2. CASE c.at # 1
      BY <2>3, <3>2
    <3> QED
      BY <3>1, <3>2
  <2> HIDE DEF b0, i0, s0
  <2>6. /\ b \in [1 .. 2 -> Row] /\ b[3 - cur] = buf[3 - cur] /\ b[cur][i0 + 1] = c
        /\ \A j \in 1 .. M : j # i0 + 1 => b[cur][j] = b0[cur][j]
    <3>1. i0 + 1 \in 1 .. M
      BY <1>1, <2>4
    <3> QED
      BY <1>3, <1>8, <2>4, <3>1, CellStored
  <2> HIDE DEF b
  <2>7. s1 \in Seq(Sent(n)) /\ Len(s1) = i1 /\ \A i \in 1 .. i1 : b[cur][i] = s1[i]
    <3>1. c \in Sent(n)
      BY <1>7, <1>11
    <3>2. CASE i0 < M - 1
      <4>1. s1 = Append(s0, c) /\ i1 = i0 + 1
        BY <1>1, <2>4, <2>5, <3>2
      <4> DEFINE row == b[cur]
      <4>2. \A i \in 1 .. i0 : row[i] = s0[i]
        BY <1>1, <2>4, <2>5, <2>6
      <4>3. row[i0 + 1] = c
        BY <2>6
      <4> HIDE DEF row, i1, s1
      <4>4. /\ Append(s0, c) \in Seq(Sent(n)) /\ Len(Append(s0, c)) = i0 + 1
            /\ \A i \in 1 .. i0 : Append(s0, c)[i] = s0[i]
            /\ Append(s0, c)[i0 + 1] = c
        BY <2>4, <2>5, <3>1
      <4>5. \A i \in 1 .. i0 + 1 : row[i] = Append(s0, c)[i]
        BY <2>4, <4>2, <4>3, <4>4
      <4> QED
        BY <4>1, <4>4, <4>5, Zenon DEF row
    <3>3. CASE ~(i0 < M - 1)
      <4>1. s1 = s0 /\ i1 = i0
        BY <1>1, <2>4, <2>5, <3>3
      <4> QED
        BY <1>1, <2>4, <2>5, <2>6, <4>1
    <3> QED
      BY <3>2, <3>3
  <2>8. i1 \in 0 .. M - 1
    BY <1>1, <2>4
  <2> HIDE DEF i1, s1
  <2>9. gpsIn' \in GpsRecords
    BY <1>2, <2>1, <2>6, <2>8 DEF GpsRecords
  <2>10. gpsIn'.buf = b /\ gpsIn'.cur = cur /\ gpsIn'.last = 3 - cur /\ gpsIn'.idx = i1
    BY <1>2, <1>3, <2>1 DEF GpsRecords
  <2>11. /\ heard' \in HeardRecords(n)
         /\ heard'.ended = heard.ended /\ heard'.arriving = s1 /\ heard'.taken = heard.taken
         /\ heard'.lag = IF heard.lag = 0 THEN 0 ELSE 2
    <3> DEFINE lag == IF heard.lag = 0 THEN 0 ELSE 2
    <3>1. lag \in 0 .. 2
      OBVIOUS
    <3> HIDE DEF lag
    <3>2. heard' = [arriving |-> s1, ended |-> heard.ended, taken |-> heard.taken, lag |-> lag]
      BY <1>2, <2>2 DEF HeardRecords, lag
    <3>3. heard.ended \in Seq(Sent(n)) /\ heard.taken \in Seq(Sent(n))
      BY <1>2 DEF HeardRecords
    <3>4. heard' \in HeardRecords(n)
      BY <2>7, <3>1, <3>2, <3>3 DEF HeardRecords
    <3> QED
      BY <3>2, <3>4 DEF lag
  <2>12. heard'.lag # 1 /\ (heard'.lag = 0 => heard.lag = 0)
    BY <2>11
  <2>13. BuffersKept'
    <3>1. Keeps(buf[3 - cur], heard.ended)
      BY <1>3 DEF AdaInv, BuffersKept
    <3> QED
      BY <1>3, <2>6, <2>7, <2>10, <2>11, <3>1 DEF BuffersKept, Keeps
  <2>14. TakenKept'
    BY <1>3, <1>4, <2>10, <2>11, <2>12 DEF AdaInv, TakenKept, Holding
  <2>15. AnswerKept'
    BY <1>4, <1>5, <1>6, <2>11, <2>12 DEF AdaInv, AnswerKept, AG!NoParse
  <2>16. AdaTypes'
    BY <1>5, <1>9, <2>9, <2>11 DEF AdaTypes
  <2> QED
    BY <2>13, <2>14, <2>15, <2>16 DEF AdaInv
<1> QED
  BY <1>10, <1>11

\* A step that leaves the lines and the buffers alone, and takes nothing.
LEMMA AdaWaits ==
  ASSUME AdaInv, gpsIn' \in GpsRecords, prog' \in ProgRecords,
         uart' = uart, heard' = heard, gpsIn'.buf = gpsIn.buf,
         gpsIn'.cur = gpsIn.cur, gpsIn'.last = gpsIn.last, gpsIn'.idx = gpsIn.idx,
         parsed' = parsed \/ parsed' = AG!NoParse,
         \/ prog' = prog
         \/ prog'.pc \in {"idle", "last", "wait", "waitLast"}
         \/ prog'.pc = "status" /\ (heard.lag = 0 => AG!Contains(heard.ended, "log"))
         \/ prog'.pc = "again" /\ prog.pc = "status"
         \/ prog'.pc = "told" /\ parsed' = AG!NoParse
  PROVE  AdaInv'
<1>1. \A s, k : AG!Contains(s, k)' <=> AG!Contains(s, k)
  BY DEF AG!Contains
<1>2. AG!NoParse \in ParsedRecords(uart.line) /\ AG!NoParse.is = AG!NoParse.should
  BY DEF AG!NoParse, ParsedRecords
<1>3. AdaTypes'
  BY <1>2 DEF AdaInv, AdaTypes
<1>4. BuffersKept'
  BY DEF AdaInv, BuffersKept, Keeps
<1>5. TakenKept'
  BY DEF AdaInv, TakenKept, Keeps, Holding
<1>6. AnswerKept'
  BY <1>1, <1>2 DEF AdaInv, AnswerKept, AG!NoParse
<1> QED
  BY <1>3, <1>4, <1>5, <1>6 DEF AdaInv

\* The receiver goes on, with nobody listening.
LEMMA AdaSends ==
  ASSUME AdaInv, AG!Lose \/ \E k \in Kinds : AG!NewLine(k)
  PROVE  AdaInv'
<1> DEFINE n == uart.line
<1>1. /\ gpsIn \in GpsRecords /\ uart \in UartRecords /\ heard \in HeardRecords(n)
      /\ prog \in ProgRecords /\ parsed \in ParsedRecords(n) /\ Len(uart.kind) = n
  BY DEF AdaInv, AdaTypes, AnswerKept
<1>2. /\ gpsIn' = gpsIn /\ heard' = heard /\ prog' = prog /\ parsed' = parsed
  BY DEF AG!Lose, AG!NewLine
<1>3. n \in Nat /\ uart.at \in Nat /\ uart.lost \in Nat /\ uart.kind \in Seq(Kinds)
  BY <1>1 DEF UartRecords
<1>4. BuffersKept' /\ TakenKept'
  BY <1>2 DEF AdaInv, BuffersKept, TakenKept, Keeps, Holding
<1>5. heard.ended \in Seq(Sent(n)) /\ heard.taken \in Seq(Sent(n)) /\ parsed.is \in Seq(Sent(n))
  BY <1>1 DEF HeardRecords, ParsedRecords
<1>6. CASE AG!Lose
  <2>1. uart' = [uart EXCEPT !.at = @ + 1, !.lost = @ + 1]
    BY <1>6 DEF AG!Lose
  <2>2. uart' = [line |-> n, kind |-> uart.kind, at |-> uart.at + 1, lost |-> uart.lost + 1]
    BY <1>1, <2>1 DEF UartRecords
  <2>3. uart' \in UartRecords /\ uart'.line = n /\ uart'.kind = uart.kind
    BY <1>3, <2>2 DEF UartRecords
  <2>4. \A s, k : AG!Contains(s, k)' <=> AG!Contains(s, k)
    BY <2>3 DEF AG!Contains
  <2>5. AdaTypes'
    BY <1>1, <1>2, <2>3 DEF AdaTypes
  <2>6. AnswerKept'
    BY <1>2, <2>3, <2>4 DEF AdaInv, AnswerKept, AG!NoParse
  <2> QED
    BY <1>4, <2>5, <2>6 DEF AdaInv
<1>7. ASSUME NEW k \in Kinds, AG!NewLine(k)
      PROVE  AdaInv'
  <2>1. uart' = [uart EXCEPT !.line = @ + 1, !.kind = Append(@, k), !.at = 0]
    BY <1>7 DEF AG!NewLine
  <2>2. uart' = [line |-> n + 1, kind |-> Append(uart.kind, k), at |-> 0, lost |-> uart.lost]
    BY <1>1, <2>1 DEF UartRecords
  <2>3. Append(uart.kind, k) \in Seq(Kinds) /\ Len(Append(uart.kind, k)) = n + 1
    BY <1>1, <1>3
  <2>4. uart' \in UartRecords /\ uart'.line = n + 1 /\ uart'.kind = Append(uart.kind, k)
    BY <1>3, <2>2, <2>3 DEF UartRecords
  <2>5. Sent(n) \subseteq Sent(n + 1)
    <3>1. 1 .. n \subseteq 1 .. n + 1
      BY <1>3
    <3> QED
      BY <3>1 DEF Sent
  <2>6. \A s : s \in Seq(Sent(n)) => s \in Seq(Sent(n + 1))
    BY <2>5
  <2>7. heard \in HeardRecords(n + 1) /\ parsed \in ParsedRecords(n + 1)
    <3>1. /\ heard = [arriving |-> heard.arriving, ended |-> heard.ended, taken |-> heard.taken,
                      lag |-> heard.lag]
          /\ heard.arriving \in Seq(Sent(n)) /\ heard.taken \in Seq(Sent(n)) /\ heard.lag \in 0 .. 2
      BY <1>1 DEF HeardRecords
    <3>2. parsed = [is |-> parsed.is, should |-> parsed.should] /\ parsed.should \in Seq(Sent(n))
      BY <1>1 DEF ParsedRecords
    <3>3. /\ heard.arriving \in Seq(Sent(n + 1)) /\ heard.ended \in Seq(Sent(n + 1))
          /\ heard.taken \in Seq(Sent(n + 1))
          /\ parsed.is \in Seq(Sent(n + 1)) /\ parsed.should \in Seq(Sent(n + 1))
      BY <1>5, <2>6, <3>1, <3>2, Zenon
    <3>4. heard \in HeardRecords(n + 1)
      BY <3>1, <3>3, Zenon DEF HeardRecords
    <3>5. parsed \in ParsedRecords(n + 1)
      BY <3>2, <3>3, Zenon DEF ParsedRecords
    <3> QED
      BY <3>4, <3>5
  <2>8. /\ AG!Contains(heard.ended, "log") <=> AG!Contains(heard.ended, "log")'
        /\ AG!Contains(heard.taken, "log") <=> AG!Contains(heard.taken, "log")'
        /\ AG!Contains(parsed.is, "log") <=> AG!Contains(parsed.is, "log")'
    <3>1. heard.ended \in Seq(Sent(Len(uart.kind))) /\ heard.taken \in Seq(Sent(Len(uart.kind)))
          /\ parsed.is \in Seq(Sent(Len(uart.kind)))
      BY <1>1, <1>5
    <3>2. \A s \in Seq(Sent(Len(uart.kind))) : AG!Contains(s, "log") <=> AG!Contains(s, "log")'
      BY <1>3, <2>4, ContainsLater
    <3> QED
      BY <1>2, <3>1, <3>2 DEF AG!Contains
  <2>9. AdaTypes'
    BY <1>1, <1>2, <2>4, <2>7 DEF AdaTypes
  <2>10. AnswerKept'
    BY <1>2, <2>3, <2>4, <2>8 DEF AdaInv, AnswerKept, AG!NoParse
  <2> QED
    BY <1>4, <2>9, <2>10 DEF AdaInv
<1> QED
  BY <1>6, <1>7

\* The buffer of the line that ended last is taken.
LEMMA AdaTakes ==
  ASSUME AdaInv, NEW k \in {"parse", "copy"}, AG!HandOut(k), parsed' = parsed
  PROVE  AdaInv'
<1> DEFINE n == uart.line
<1>1. /\ gpsIn \in GpsRecords /\ uart \in UartRecords /\ heard \in HeardRecords(n)
      /\ prog \in ProgRecords /\ parsed \in ParsedRecords(n)
  BY DEF AdaInv, AdaTypes
<1>2. gpsIn' = gpsIn /\ uart' = uart
  BY DEF AG!HandOut
<1>3. \A s, l : AG!Contains(s, l)' <=> AG!Contains(s, l)
  BY <1>2 DEF AG!Contains
<1>4. prog' \in ProgRecords /\ prog'.pc = k /\ prog'.ptr = gpsIn.last
  <2>1. prog' = [prog EXCEPT !.pc = k, !.ptr = gpsIn.last] /\ gpsIn.last \in 0 .. 2 /\ k \in Pcs
    BY <1>1 DEF AG!HandOut, GpsRecords, Pcs
  <2> QED
    BY <1>1, <2>1 DEF ProgRecords
<1>5. heard' = [arriving |-> heard.arriving, ended |-> heard.ended, taken |-> heard.ended, lag |-> 0]
  BY <1>1 DEF AG!HandOut, HeardRecords
<1>6. heard' \in HeardRecords(n)
  <2>1. heard.arriving \in Seq(Sent(n)) /\ heard.ended \in Seq(Sent(n))
    BY <1>1 DEF HeardRecords
  <2> QED
    BY <1>5, <2>1 DEF HeardRecords
<1>7. AdaTypes'
  BY <1>1, <1>2, <1>4, <1>6 DEF AdaTypes
<1>8. BuffersKept'
  BY <1>2, <1>5 DEF AdaInv, BuffersKept, Keeps
<1>9. TakenKept'
  BY <1>2, <1>4, <1>5 DEF TakenKept
<1>10. AnswerKept'
  BY <1>2, <1>3, <1>4, <1>5 DEF AdaInv, AnswerKept
<1> QED
  BY <1>7, <1>8, <1>9, <1>10 DEF AdaInv

\* The buffer in hand holds the line that had ended when it was taken, until the character
\* after the end of the next line.
LEMMA HeldText ==
  ASSUME AdaInv, Holding, heard.lag < 2
  PROVE  AG!TextIn(prog.ptr) = heard.taken
<1>1. /\ gpsIn.last \in 1 .. 2 /\ gpsIn.cur \in 1 .. 2 /\ uart.line \in Nat
      /\ \A b \in 1 .. 2 : gpsIn.buf[b] \in Row
      /\ heard.taken \in Seq(Sent(uart.line)) /\ heard.lag \in 0 .. 2
  BY DEF AdaInv, AdaTypes, GpsRecords, UartRecords, HeardRecords
<1>2. CASE heard.lag = 0
  <2>1. prog.ptr = gpsIn.last /\ Keeps(gpsIn.buf[gpsIn.last], heard.taken)
    BY <1>2 DEF AdaInv, TakenKept, BuffersKept
  <2> QED
    BY <1>1, <2>1, TextIsKept
<1>3. CASE heard.lag = 1
  <2>1. prog.ptr = gpsIn.cur /\ Keeps(gpsIn.buf[gpsIn.cur], heard.taken)
    BY <1>3 DEF AdaInv, TakenKept
  <2> QED
    BY <1>1, <2>1, TextIsKept
<1> QED
  BY <1>1, <1>2, <1>3

\* The buffer that was taken is read.
LEMMA AdaParses ==
  ASSUME AdaInv, AG!parse \/ AG!readsStatus
  PROVE  AdaInv'
<1> DEFINE n == uart.line
           pc1 == IF AG!parse THEN "idle" ELSE "told"
<1>1. /\ gpsIn \in GpsRecords /\ uart \in UartRecords /\ heard \in HeardRecords(n)
      /\ prog \in ProgRecords /\ parsed \in ParsedRecords(n)
  BY DEF AdaInv, AdaTypes
<1>2. uart' = uart /\ heard' = heard /\ gpsIn' = gpsIn /\ Holding
  BY DEF AG!parse, AG!readsStatus, Holding
<1>3. \A s, k : AG!Contains(s, k)' <=> AG!Contains(s, k)
  BY <1>2 DEF AG!Contains
<1>4. ~AG!parse => AG!readsStatus /\ prog.pc = "reads"
  BY DEF AG!readsStatus
<1>5. prog' = [prog EXCEPT !.pc = pc1, !.ptr = 0] /\ pc1 \in {"idle", "told"}
  BY DEF AG!parse, AG!readsStatus
<1>6. pc1 = "told" => prog.pc = "reads"
  BY <1>4
<1> HIDE DEF pc1
<1>7. prog' \in ProgRecords /\ prog'.pc = pc1
  <2>1. pc1 \in Pcs /\ 0 \in 0 .. 2
    BY <1>5 DEF Pcs
  <2> QED
    BY <1>1, <1>5, <2>1 DEF ProgRecords
<1>8. parsed' = [is |-> heard.taken, should |-> heard.taken] \/ parsed' = AG!NoParse
  BY <1>2, HeldText DEF AG!parse, AG!readsStatus
<1>9. parsed' \in ParsedRecords(n) /\ parsed'.is = parsed'.should
  <2>1. AG!NoParse \in ParsedRecords(n) /\ AG!NoParse.is = AG!NoParse.should
    BY DEF AG!NoParse, ParsedRecords
  <2>2. [is |-> heard.taken, should |-> heard.taken] \in ParsedRecords(n)
    BY <1>1 DEF ParsedRecords, HeardRecords
  <2> QED
    BY <1>8, <2>1, <2>2
<1>10. AdaTypes'
  BY <1>1, <1>2, <1>7, <1>9 DEF AdaTypes
<1>11. BuffersKept'
  BY <1>2 DEF AdaInv, BuffersKept, Keeps
<1>12. TakenKept'
  BY <1>2, <1>5, <1>7 DEF AdaInv, TakenKept, Keeps, Holding
<1>13. prog'.pc = "told" /\ parsed' # AG!NoParse => AG!Contains(parsed'.is, "log")
  <2>1. prog.pc = "reads" => AG!Contains(heard.taken, "log")
    BY DEF AdaInv, AnswerKept
  <2> QED
    BY <1>6, <1>7, <1>8, <2>1
<1>14. AnswerKept'
  BY <1>2, <1>3, <1>5, <1>7, <1>9, <1>13 DEF AdaInv, AnswerKept, AG!NoParse
<1> QED
  BY <1>10, <1>11, <1>12, <1>14 DEF AdaInv

\* What the start of a line contains, the line contains.
LEMMA CopyContains ==
  ASSUME NEW n \in Nat, NEW s \in Seq(Sent(n)), NEW k, AG!Contains(AG!Copied(s), k)
  PROVE  AG!Contains(s, k)
<1>1. CASE Len(s) <= CopyLen
  BY <1>1 DEF AG!Copied
<1>2. CASE ~(Len(s) <= CopyLen)
  <2> DEFINE t == SubSeq(s, 1, CopyLen)
  <2>1. CopyLen \in Nat /\ Len(s) \in Nat /\ CopyLen < Len(s)
    BY <1>2, AdafruitAssumption
  <2>2. Len(t) = CopyLen /\ \A i \in 1 .. CopyLen : t[i] = s[i]
    BY <2>1
  <2>3. AG!Copied(s) = t
    BY <1>2 DEF AG!Copied
  <2> HIDE DEF t
  <2>4. PICK i \in 1 .. Len(t) - 1 : /\ t[i].at = 1 /\ t[i + 1].at = 2
                                     /\ t[i].line = t[i + 1].line /\ uart.kind[t[i].line] = k
    BY <2>3 DEF AG!Contains
  <2>5. i \in 1 .. Len(s) - 1 /\ t[i] = s[i] /\ t[i + 1] = s[i + 1]
    BY <2>1, <2>2, <2>4
  <2> QED
    BY <2>4, <2>5 DEF AG!Contains
<1> QED
  BY <1>1, <1>2

\* What the program has in hand after a call.
LEMMA ProgTyped ==
  ASSUME NEW pc1 \in Pcs, NEW ptr \in 0 .. 2,
         NEW wanted \in {"fix", "started", "log", "awake"}, NEW tries \in Nat, NEW b \in BOOLEAN
  PROVE  [pc |-> pc1, ptr |-> ptr, wanted |-> wanted, tries |-> tries, standby |-> b] \in ProgRecords
BY Zenon DEF ProgRecords

\* A call that leaves the buffers as they are, and asks for or looks at a line.
LEMMA AdaCalls ==
  ASSUME AdaInv,
         AG!poll \/ AG!pause \/ AG!LOCUS_StartLogger \/ AG!LOCUS_ReadStatus \/ AG!standby \/ AG!wakeup
           \/ AG!waitForSentence \/ AG!waitFails \/ AG!statusClears \/ AG!returns
  PROVE  AdaInv'
<1> DEFINE Goes(pc1, wanted, tries, b) ==
      prog' = [pc |-> pc1, ptr |-> prog.ptr, wanted |-> wanted, tries |-> tries, standby |-> b]
<1>1. gpsIn \in GpsRecords /\ prog \in ProgRecords
  BY DEF AdaInv, AdaTypes
<1>2. /\ prog.pc \in Pcs /\ prog.ptr \in 0 .. 2
      /\ prog.wanted \in {"fix", "started", "log", "awake"} /\ prog.tries \in Nat /\ prog.standby \in BOOLEAN
      /\ prog = [pc |-> prog.pc, ptr |-> prog.ptr, wanted |-> prog.wanted, tries |-> prog.tries,
                 standby |-> prog.standby]
  BY <1>1 DEF ProgRecords
<1>3. \E r \in BOOLEAN, q \in BOOLEAN : gpsIn' = [gpsIn EXCEPT !.recvd = r, !.paused = q]
  <2>1. gpsIn.recvd \in BOOLEAN /\ gpsIn.paused \in BOOLEAN /\ (~gpsIn.paused) \in BOOLEAN
    BY <1>1 DEF GpsRecords
  <2>2. gpsIn = [gpsIn EXCEPT !.recvd = gpsIn.recvd, !.paused = gpsIn.paused]
    BY <1>1 DEF GpsRecords
  <2>3. [gpsIn EXCEPT !.recvd = FALSE] = [gpsIn EXCEPT !.recvd = FALSE, !.paused = gpsIn.paused]
    BY <1>1 DEF GpsRecords
  <2>4. [gpsIn EXCEPT !.paused = ~gpsIn.paused] = [gpsIn EXCEPT !.recvd = gpsIn.recvd, !.paused = ~gpsIn.paused]
    BY <1>1 DEF GpsRecords
  <2>5. \/ gpsIn' = gpsIn \/ gpsIn' = [gpsIn EXCEPT !.recvd = FALSE]
        \/ gpsIn' = [gpsIn EXCEPT !.paused = ~gpsIn.paused]
    BY DEF AG!poll, AG!pause, AG!LOCUS_StartLogger, AG!LOCUS_ReadStatus, AG!standby, AG!wakeup,
           AG!waitForSentence, AG!waitFails, AG!statusClears, AG!returns, AG!ClearFlag
  <2> QED
    BY <2>1, <2>2, <2>3, <2>4, <2>5
<1>4. /\ gpsIn' \in GpsRecords /\ gpsIn'.buf = gpsIn.buf /\ gpsIn'.cur = gpsIn.cur
      /\ gpsIn'.last = gpsIn.last /\ gpsIn'.idx = gpsIn.idx
  BY <1>1, <1>3 DEF GpsRecords
<1>5. uart' = uart /\ heard' = heard /\ (parsed' = parsed \/ parsed' = AG!NoParse)
  BY DEF AG!poll, AG!pause, AG!LOCUS_StartLogger, AG!LOCUS_ReadStatus, AG!standby, AG!wakeup,
         AG!waitForSentence, AG!waitFails, AG!statusClears, AG!returns, AG!Waits
<1>6. \/ prog' = prog
      \/ \E pc1 \in Pcs, wanted \in {"fix", "started", "log", "awake"}, tries \in Nat, b \in BOOLEAN :
           /\ Goes(pc1, wanted, tries, b)
           /\ pc1 \in {"idle", "last", "wait", "waitLast"} \/ (pc1 = "again" /\ prog.pc = "status")
  <2>1. CASE AG!poll
    <3>1. Goes("last", prog.wanted, prog.tries, prog.standby)
      BY <1>2, <2>1 DEF AG!poll
    <3> QED
      BY <1>2, <3>1 DEF Pcs
  <2>2. CASE AG!pause
    BY <2>2 DEF AG!pause
  <2>3. CASE AG!LOCUS_StartLogger
    <3>1. Goes("wait", "started", 0, prog.standby)
      BY <1>2, <2>3 DEF AG!LOCUS_StartLogger, AG!Waits
    <3> QED
      BY <1>2, <3>1 DEF Pcs
  <2>4. CASE AG!LOCUS_ReadStatus
    <3>1. Goes("wait", "log", 0, prog.standby)
      BY <1>2, <2>4 DEF AG!LOCUS_ReadStatus, AG!Waits
    <3> QED
      BY <1>2, <3>1 DEF Pcs
  <2>5. CASE AG!standby
    <3>1. Goes("idle", prog.wanted, prog.tries, TRUE)
      BY <1>2, <2>5 DEF AG!standby
    <3> QED
      BY <1>2, <3>1 DEF Pcs
  <2>6. CASE AG!wakeup
    <3>1. Goes("wait", "awake", 0, FALSE)
      BY <1>2, <2>6 DEF AG!wakeup
    <3> QED
      BY <1>2, <3>1 DEF Pcs
  <2>7. CASE AG!waitForSentence
    <3>1. Goes("waitLast", prog.wanted, prog.tries, prog.standby)
      BY <1>2, <2>7 DEF AG!waitForSentence
    <3> QED
      BY <1>2, <3>1 DEF Pcs
  <2>8. CASE AG!waitFails \/ AG!returns
    <3>1. Goes("idle", prog.wanted, prog.tries, prog.standby)
      BY <1>2, <2>8 DEF AG!waitFails, AG!returns
    <3> QED
      BY <1>2, <3>1 DEF Pcs
  <2>9. CASE AG!statusClears
    <3>1. Goes("again", prog.wanted, prog.tries, prog.standby) /\ prog.pc = "status"
      BY <1>2, <2>9 DEF AG!statusClears
    <3> QED
      BY <1>2, <3>1 DEF Pcs
  <2> QED
    BY <2>1, <2>2, <2>3, <2>4, <2>5, <2>6, <2>7, <2>8, <2>9
<1>7. CASE prog' = prog
  BY <1>1, <1>4, <1>5, <1>7, AdaWaits
<1>8. ASSUME NEW pc1 \in Pcs, NEW wanted \in {"fix", "started", "log", "awake"}, NEW tries \in Nat,
             NEW b \in BOOLEAN, Goes(pc1, wanted, tries, b),
             pc1 \in {"idle", "last", "wait", "waitLast"} \/ (pc1 = "again" /\ prog.pc = "status")
      PROVE  AdaInv'
  <2>1. prog' \in ProgRecords
    BY <1>2, <1>8, ProgTyped
  <2>2. prog'.pc = pc1
    BY <1>8
  <2> QED
    BY <1>4, <1>5, <1>8, <2>1, <2>2, AdaWaits
<1> QED
  BY <1>6, <1>7, <1>8

\* The characters copied are looked at.
LEMMA AdaLooks ==
  ASSUME AdaInv, AG!waitLooks
  PROVE  AdaInv'
<1> DEFINE found == AG!Contains(AG!Copied(AG!TextIn(prog.ptr)), prog.wanted)
           pc1 == IF ~found THEN "wait" ELSE IF prog.wanted = "log" THEN "status" ELSE "idle"
<1>1. /\ gpsIn \in GpsRecords /\ uart \in UartRecords /\ heard \in HeardRecords(uart.line)
      /\ prog \in ProgRecords
  BY DEF AdaInv, AdaTypes
<1>2. /\ prog' = [prog EXCEPT !.tries = @ + 1, !.ptr = 0, !.pc = pc1]
      /\ uart' = uart /\ gpsIn' = gpsIn /\ heard' = heard /\ parsed' = parsed
  BY DEF AG!waitLooks, AG!Found
<1>3. pc1 = "status" /\ heard.lag = 0 => AG!Contains(heard.ended, "log")
  <2> SUFFICES ASSUME pc1 = "status", heard.lag = 0 PROVE AG!Contains(heard.ended, "log")
    OBVIOUS
  <2>1. found /\ prog.wanted = "log"
    OBVIOUS
  <2>2. Holding
    BY DEF AG!waitLooks, Holding
  <2>3. AG!TextIn(prog.ptr) = heard.taken /\ heard.taken = heard.ended
    BY <2>2, HeldText DEF AdaInv, TakenKept
  <2>4. uart.line \in Nat /\ heard.ended \in Seq(Sent(uart.line))
    BY <1>1 DEF UartRecords, HeardRecords
  <2>5. AG!Contains(AG!Copied(heard.ended), "log")
    BY <2>1, <2>3
  <2> QED
    BY <2>4, <2>5, CopyContains
<1>4. pc1 \in {"wait", "status", "idle"}
  OBVIOUS
<1> HIDE DEF found, pc1
<1>5. prog' = [pc |-> pc1, ptr |-> 0, wanted |-> prog.wanted, tries |-> prog.tries + 1,
               standby |-> prog.standby]
  BY <1>1, <1>2 DEF ProgRecords
<1>6. prog' \in ProgRecords /\ prog'.pc = pc1
  <2>1. /\ prog.wanted \in {"fix", "started", "log", "awake"} /\ prog.tries + 1 \in Nat
        /\ prog.standby \in BOOLEAN /\ pc1 \in Pcs /\ 0 \in 0 .. 2
    BY <1>1, <1>4 DEF ProgRecords, Pcs
  <2> QED
    BY <1>5, <2>1, ProgTyped
<1> QED
  BY <1>1, <1>2, <1>3, <1>4, <1>6, AdaWaits

\* LOCUS_ReadStatus takes the last line again.
LEMMA AdaTakesAgain ==
  ASSUME AdaInv, AG!statusTakes
  PROVE  AdaInv'
<1>1. /\ gpsIn \in GpsRecords /\ uart \in UartRecords /\ heard \in HeardRecords(uart.line)
      /\ prog \in ProgRecords
  BY DEF AdaInv, AdaTypes
<1>2. uart' = uart /\ gpsIn' = gpsIn /\ heard' = heard /\ parsed' = AG!NoParse /\ prog.pc = "again"
  BY DEF AG!statusTakes
<1>3. CASE heard.lag = 0
  <2>1. prog' = [prog EXCEPT !.pc = "reads", !.ptr = gpsIn.last]
    BY <1>3 DEF AG!statusTakes
  <2>2. prog' \in ProgRecords /\ prog'.pc = "reads" /\ prog'.ptr = gpsIn.last
    <3>1. gpsIn.last \in 0 .. 2 /\ "reads" \in Pcs
      BY <1>1 DEF GpsRecords, Pcs
    <3> QED
      BY <1>1, <2>1, <3>1 DEF ProgRecords
  <2>3. \A s, k : AG!Contains(s, k)' <=> AG!Contains(s, k)
    BY <1>2 DEF AG!Contains
  <2>4. AG!Contains(heard.taken, "log")
    BY <1>2, <1>3 DEF AdaInv, TakenKept, AnswerKept
  <2>5. AG!NoParse \in ParsedRecords(uart.line) /\ AG!NoParse.is = AG!NoParse.should
    BY DEF AG!NoParse, ParsedRecords
  <2>6. AdaTypes'
    BY <1>1, <1>2, <2>2, <2>5 DEF AdaTypes
  <2>7. BuffersKept'
    BY <1>2 DEF AdaInv, BuffersKept, Keeps
  <2>8. TakenKept'
    BY <1>2, <1>3, <2>2 DEF AdaInv, TakenKept
  <2>9. AnswerKept'
    BY <1>2, <2>2, <2>3, <2>4, <2>5 DEF AdaInv, AnswerKept
  <2> QED
    BY <2>6, <2>7, <2>8, <2>9 DEF AdaInv
<1>4. CASE heard.lag # 0
  <2>1. prog' = [prog EXCEPT !.pc = "told"]
    BY <1>4 DEF AG!statusTakes
  <2>2. prog' \in ProgRecords /\ prog'.pc = "told"
    <3>1. "told" \in Pcs
      BY DEF Pcs
    <3> QED
      BY <1>1, <2>1, <3>1 DEF ProgRecords
  <2> QED
    BY <1>1, <1>2, <2>2, AdaWaits
<1> QED
  BY <1>3, <1>4

LEMMA AdaStep == AdaInv /\ AG!Next => AdaInv'
<1> SUFFICES ASSUME AdaInv, AG!Next PROVE AdaInv'
  OBVIOUS
<1>1. CASE AG!read
  BY <1>1, AdaRead
<1>2. CASE AG!Lose \/ \E k \in Kinds : AG!NewLine(k)
  BY <1>2, AdaSends
<1>3. CASE AG!lastNMEA
  BY <1>3, AdaTakes DEF AG!lastNMEA
<1>4. CASE AG!waitTakes
  BY <1>4, AdaTakes DEF AG!waitTakes
<1>5. CASE AG!parse \/ AG!readsStatus
  BY <1>5, AdaParses
<1>6. CASE AG!waitLooks
  BY <1>6, AdaLooks
<1>7. CASE AG!statusTakes
  BY <1>7, AdaTakesAgain
<1>8. CASE \/ AG!poll \/ AG!pause \/ AG!LOCUS_StartLogger \/ AG!LOCUS_ReadStatus \/ AG!standby \/ AG!wakeup
           \/ AG!waitForSentence \/ AG!waitFails \/ AG!statusClears \/ AG!returns
  BY <1>8, AdaCalls
<1> QED
  BY <1>1, <1>2, <1>3, <1>4, <1>5, <1>6, <1>7, <1>8 DEF AG!Next

LEMMA AdaSafe == AdaInv => AG!ParsedAsRead /\ AG!StatusIsAnswer
BY DEF AdaInv, AnswerKept, AG!ParsedAsRead, AG!StatusIsAnswer

-----------------------------------------------------------------------------
ReceivedInv == (part = "adafruit" => AdaInv) /\ (part = "serialPort" => SerialInv)

\* Whatever arrives, and whenever: a line of the Adafruit receiver that is parsed before a
\* character follows the end of the next one is the line that had ended when the buffer was
\* handed out, and a status that is taken apart is an answer to the query unless a line ended
\* between the two looks (Adafruit_GPS.cpp read, lastNMEA, LOCUS_ReadStatus); and the serial
\* port keeps the bytes it could store in order, those sampled from their start bit on with the
\* delays of the port as they were sent, and returns the oldest (SoftwareSerial.cpp recv, read).
THEOREM LinesReceived == Spec => []ReceivedInOrder
<1>1. Init => ReceivedInv
  BY AdaInit, SerialInit DEF Init, ReceivedInv
<1>2. ReceivedInv /\ [Next]_vars => ReceivedInv'
  <2> SUFFICES ASSUME ReceivedInv, [Next]_vars PROVE ReceivedInv'
    OBVIOUS
  <2>1. CASE part = "adafruit" /\ AG!Next /\ part' = part
    BY <2>1, AdaStep DEF ReceivedInv
  <2>2. CASE part = "serialPort" /\ SS!Next /\ part' = part
    BY <2>2, SerialStep DEF ReceivedInv
  <2>3. CASE UNCHANGED <<part, adafruit, serialPort>>
    <3>1. SerialInv => SerialInv'
      BY <2>3 DEF SerialInv, Used, At, serialPort
    <3>2. AdaInv => AdaInv'
      <4> SUFFICES ASSUME AdaInv PROVE AdaInv'
        OBVIOUS
      <4>1. gpsIn' = gpsIn /\ prog' = prog /\ uart' = uart /\ heard' = heard /\ parsed' = parsed
        BY <2>3 DEF adafruit
      <4> QED
        BY <4>1, AdaWaits DEF AdaInv, AdaTypes
    <3> QED
      BY <2>3, <3>1, <3>2 DEF ReceivedInv
  <2>4. CASE part \notin {"adafruit", "serialPort"} /\ part' = part
    BY <2>4 DEF ReceivedInv
  <2>5. UNCHANGED vars => UNCHANGED <<part, adafruit, serialPort>>
    BY DEF vars
  <2> QED
    BY <2>1, <2>2, <2>3, <2>4, <2>5 DEF Next
<1>3. ReceivedInv => ReceivedInOrder
  BY AdaSafe, SerialSafe DEF ReceivedInv, ReceivedInOrder
<1> QED
  BY <1>1, <1>2, <1>3, PTL DEF Spec

-----------------------------------------------------------------------------
(* libraries/SPK_GPS: lines                                                *)

\* A buffer whose first n cells are the text s, and one that is the C string s.
Begins(buf, s) == \A k \in 1 .. Len(s) : buf[k - 1] = s[k]
IsString(buf, s) == Len(s) < BufferLength /\ Begins(buf, s) /\ buf[Len(s)] = "NUL"

Places  == 0 .. BufferLength - 1
Held    == Chars \cup {"NUL"}
CellRow == [Places -> Held]

ReaderTypes ==
  /\ rx \in Seq(Chars)
  /\ lines \in [1 .. 2 -> CellRow]
  /\ currentline \in 1 .. 2 /\ lastline = 3 - currentline
  /\ lineidx \in 0 .. BufferLength - 1
  /\ text \in Seq(Chars) /\ ended \in Seq(Chars)

ReaderBuffers ==
  /\ Len(text) = lineidx /\ Begins(lines[currentline], text)
  /\ IsString(lines[lastline], ended)

ReaderFlags ==
  /\ recvdflag \in BOOLEAN
  /\ NR!EachLineOnce
  /\ NR!GoodLinesPass

ReaderInv == ReaderTypes /\ ReaderBuffers /\ ReaderFlags

\* What the program finds in the buffer that holds a line.
LEMMA StringIsRead ==
  ASSUME NEW buf \in CellRow, NEW s \in Seq(Chars), IsString(buf, s)
  PROVE  NR!StringOf(buf) = s
<1> DEFINE M == BufferLength
           End(n) == (n = M \/ buf[n] = "NUL") /\ \A k \in 0 .. n - 1 : buf[k] # "NUL"
           found == CHOOSE n \in 0 .. M : End(n)
<1>1. M \in Nat /\ Len(s) \in 0 .. M - 1
  BY ReaderAssumption DEF IsString
<1>2. \A k \in 1 .. Len(s) : s[k] # "NUL" /\ buf[k - 1] = s[k]
  <2>1. \A k \in 1 .. Len(s) : s[k] \in Chars
    OBVIOUS
  <2> QED
    BY <2>1, ReaderAssumption DEF IsString, Begins
<1>3. End(Len(s))
  <2>1. \A k \in 0 .. Len(s) - 1 : k + 1 \in 1 .. Len(s) /\ k = (k + 1) - 1
    BY <1>1
  <2> QED
    BY <1>2, <2>1 DEF IsString
<1>4. \A n \in 0 .. M : End(n) => n = Len(s)
  BY <1>1, <1>2, <1>3
<1>5. found = Len(s)
  <2> HIDE DEF End
  <2> QED
    BY <1>1, <1>3, <1>4
<1>6. NR!StringOf(buf) = [k \in 1 .. found |-> buf[k - 1]]
  BY DEF NR!StringOf, NR!NUL
<1>7. s = [k \in 1 .. Len(s) |-> s[k]]
  OBVIOUS
<1>8. [k \in 1 .. Len(s) |-> buf[k - 1]] = [k \in 1 .. Len(s) |-> s[k]]
  BY <1>2
<1> HIDE DEF found
<1> QED
  BY <1>5, <1>6, <1>7, <1>8

\* A byte is put into a buffer, the other one stays.
LEMMA ByteStored ==
  ASSUME NEW buf \in [1 .. 2 -> CellRow], NEW cur \in 1 .. 2, NEW i \in Places,
         NEW c \in Held
  PROVE  LET b == [buf EXCEPT ![cur][i] = c]
         IN  /\ b \in [1 .. 2 -> CellRow]
             /\ b[3 - cur] = buf[3 - cur]
             /\ b[cur][i] = c
             /\ \A j \in Places : j # i => b[cur][j] = buf[cur][j]
<1> DEFINE r == [buf[cur] EXCEPT ![i] = c]
           b == [buf EXCEPT ![cur] = r]
<1>1. buf[cur] \in CellRow
  OBVIOUS
<1>2. r \in CellRow /\ r[i] = c /\ \A j \in Places : j # i => r[j] = buf[cur][j]
  BY <1>1 DEF CellRow
<1> HIDE DEF r
<1>3. b \in [1 .. 2 -> CellRow] /\ b[cur] = r
  BY <1>2
<1>4. 3 - cur \in 1 .. 2 /\ 3 - cur # cur
  OBVIOUS
<1>5. b[3 - cur] = buf[3 - cur]
  BY <1>4
<1> QED
  BY <1>2, <1>3, <1>5 DEF r

LEMMA ReaderInit == NR!Init => ReaderInv
<1> SUFFICES ASSUME NR!Init PROVE ReaderInv
  OBVIOUS
<1>1. BufferLength \in Nat /\ BufferLength >= 2
  BY ReaderAssumption
<1>2. /\ rx = <<>> /\ lines = [b \in {1, 2} |-> [k \in 0 .. BufferLength - 1 |-> "NUL"]]
      /\ currentline = 1 /\ lastline = 2 /\ lineidx = 0 /\ recvdflag = FALSE /\ pending = 0
      /\ verdict = "none" /\ text = <<>> /\ ended = <<>>
  BY DEF NR!Init, NR!Cells, NR!NUL
<1>3. lines \in [1 .. 2 -> CellRow] /\ lines[2][0] = "NUL"
  BY <1>1, <1>2 DEF CellRow, Places, Held
<1>4. ReaderTypes
  BY <1>1, <1>2, <1>3 DEF ReaderTypes
<1>5. ReaderBuffers
  BY <1>1, <1>2, <1>3 DEF ReaderBuffers, Begins, IsString
<1>6. ReaderFlags
  BY <1>2 DEF ReaderFlags, NR!EachLineOnce, NR!GoodLinesPass
<1> QED
  BY <1>4, <1>5, <1>6 DEF ReaderInv

\* A byte is taken from the queue.
LEMMA ReaderRead ==
  ASSUME ReaderInv, NR!Read
  PROVE  ReaderInv'
<1> DEFINE M == BufferLength
           c == Head(rx)
           cur == currentline
<1>1. M \in Nat /\ M >= 2 /\ "NUL" \notin Chars
  BY ReaderAssumption
<1>2. /\ rx \in Seq(Chars) /\ lines \in [1 .. 2 -> CellRow] /\ cur \in 1 .. 2 /\ lastline = 3 - cur
      /\ lineidx \in 0 .. M - 1 /\ text \in Seq(Chars) /\ ended \in Seq(Chars)
      /\ Len(text) = lineidx
      /\ \A k \in 1 .. Len(text) : lines[cur][k - 1] = text[k]
  BY DEF ReaderInv, ReaderTypes, ReaderBuffers, Begins
<1>3. /\ rx # << >> /\ rx' = Tail(rx) /\ pc = "read" /\ pc' = "check"
      /\ ended' = IF c = "LF" THEN text ELSE ended
      /\ pending' = IF c = "LF" THEN pending + 1 ELSE pending
      /\ verdict' = IF c = "LF" THEN "none" ELSE verdict
  BY DEF NR!Read
<1>10. /\ c = "$" => text' = <<"$">>
       /\ c = "LF" => text' = << >>
       /\ c = "CR" => text' = text
       /\ c \notin {"$", "LF", "CR"} => text' = IF Len(text) = M - 1 THEN text ELSE Append(text, c)
  BY DEF NR!Read
<1>11. "NUL" \in Held /\ lineidx \in Places
  BY <1>2 DEF Held, Places
<1>4. c \in Chars /\ rx' \in Seq(Chars)
  BY <1>2, <1>3
<1>5. \/ c = "CR" /\ UNCHANGED <<NR!buffers, recvdflag>>
      \/ c = "LF" /\ NR!EndLine
      \/ c \notin {"CR", "LF"} /\ NR!StoreByte(c)
  BY DEF NR!Read
<1>6. recvdflag \in BOOLEAN /\ NR!EachLineOnce /\ NR!GoodLinesPass
  BY DEF ReaderInv, ReaderFlags
<1> HIDE DEF c
<1>7. CASE c = "CR"
  <2>1. /\ lines' = lines /\ currentline' = currentline /\ lastline' = lastline /\ lineidx' = lineidx
        /\ recvdflag' = recvdflag
    BY <1>5, <1>7 DEF NR!buffers
  <2>2. text' = text /\ ended' = ended /\ pending' = pending /\ verdict' = verdict
    BY <1>3, <1>7, <1>10
  <2>3. ReaderTypes' /\ ReaderBuffers'
    BY <1>4, <2>1, <2>2 DEF ReaderInv, ReaderTypes, ReaderBuffers, IsString, Begins
  <2>4. ReaderFlags'
    BY <1>3, <1>6, <2>1, <2>2 DEF ReaderFlags, NR!EachLineOnce, NR!GoodLinesPass, NR!HasChecksum,
       NR!SumMatches, NR!BitSum
  <2> QED
    BY <2>3, <2>4 DEF ReaderInv
<1>8. CASE c = "LF"
  <2>1. /\ lines' = [lines EXCEPT ![cur][lineidx] = "NUL"]
        /\ currentline' = 3 - cur /\ lastline' = cur /\ lineidx' = 0 /\ recvdflag' = TRUE
    BY <1>2, <1>5, <1>8 DEF NR!EndLine, NR!NUL
  <2>2. text' = <<>> /\ ended' = text /\ pending' = pending + 1 /\ verdict' = "none"
    BY <1>3, <1>8, <1>10
  <2>3. /\ lines' \in [1 .. 2 -> CellRow] /\ lines'[cur][lineidx] = "NUL"
        /\ \A j \in Places : j # lineidx => lines'[cur][j] = lines[cur][j]
    BY <1>2, <1>11, <2>1, ByteStored
  <2>4. \A k \in 1 .. Len(text) : lines'[cur][k - 1] = text[k]
    <3>1. \A k \in 1 .. Len(text) : k - 1 \in Places /\ k - 1 # lineidx
      BY <1>1, <1>2 DEF Places
    <3> QED
      BY <1>2, <2>3, <3>1
  <2>5. ReaderTypes'
    BY <1>1, <1>2, <1>4, <2>1, <2>2, <2>3 DEF ReaderTypes
  <2>6. ReaderBuffers'
    BY <1>1, <1>2, <2>1, <2>2, <2>3, <2>4 DEF ReaderBuffers, IsString, Begins
  <2>7. ReaderFlags'
    BY <1>3, <1>6, <2>1, <2>2 DEF ReaderFlags, NR!EachLineOnce, NR!GoodLinesPass
  <2> QED
    BY <2>5, <2>6, <2>7 DEF ReaderInv
<1>9. CASE c \notin {"CR", "LF"}
  <2> DEFINE i == IF c = "$" THEN 0 ELSE lineidx
             b == IF c = "$" THEN [lines EXCEPT ![cur][lineidx] = "NUL"] ELSE lines
             s == IF c = "$" THEN <<>> ELSE text
  <2>1. /\ lines' = [b EXCEPT ![cur][i] = c] /\ lineidx' = NR!Capped(i + 1)
        /\ currentline' = cur /\ lastline' = lastline /\ recvdflag' = recvdflag
    BY <1>5, <1>9 DEF NR!StoreByte, NR!NUL
  <2>2. /\ text' = IF Len(s) = M - 1 THEN s ELSE Append(s, c)
        /\ ended' = ended /\ pending' = pending /\ verdict' = verdict
    <3>1. CASE c = "$"
      <4>1. s = <<>> /\ Len(s) # M - 1 /\ text' = <<"$">> /\ Append(s, c) = <<"$">>
        BY <1>1, <1>10, <3>1
      <4> QED
        BY <1>3, <1>9, <4>1
    <3>2. CASE c # "$"
      <4>1. s = text /\ text' = IF Len(text) = M - 1 THEN text ELSE Append(text, c)
        BY <1>9, <1>10, <3>2
      <4> QED
        BY <1>3, <1>9, <4>1
    <3> QED
      BY <3>1, <3>2
  <2>3. /\ b \in [1 .. 2 -> CellRow] /\ b[3 - cur] = lines[3 - cur]
        /\ \A j \in Places : j < i => b[cur][j] = lines[cur][j]
    <3>1. CASE c = "$"
      <4>1. /\ [lines EXCEPT ![cur][lineidx] = "NUL"] \in [1 .. 2 -> CellRow]
            /\ [lines EXCEPT ![cur][lineidx] = "NUL"][3 - cur] = lines[3 - cur]
        BY <1>2, <1>11, ByteStored
      <4>2. i = 0 /\ b = [lines EXCEPT ![cur][lineidx] = "NUL"]
        BY <3>1
      <4>3. \A j \in Places : ~(j < 0)
        BY DEF Places
      <4> HIDE DEF i, b
      <4> QED
        BY <4>1, <4>2, <4>3
    <3>2. CASE c # "$"
      BY <1>2, <3>2
    <3> QED
      BY <3>1, <3>2
  <2>4. i \in 0 .. M - 1 /\ s \in Seq(Chars) /\ Len(s) = i
        /\ \A k \in 1 .. i : b[cur][k - 1] = s[k]
    <3>1. CASE c = "$"
      BY <1>1, <3>1
    <3>2. CASE c # "$"
      BY <1>2, <3>2
    <3> QED
      BY <3>1, <3>2
  <2> HIDE DEF b, i, s
  <2>5. /\ lines' \in [1 .. 2 -> CellRow] /\ lines'[3 - cur] = lines[3 - cur]
        /\ lines'[cur][i] = c
        /\ \A j \in Places : j # i => lines'[cur][j] = b[cur][j]
    <3>1. c \in Held /\ i \in Places
      BY <1>4, <2>4 DEF Held, Places
    <3>2. LET l == [b EXCEPT ![cur][i] = c]
          IN  /\ l \in [1 .. 2 -> CellRow] /\ l[3 - cur] = b[3 - cur] /\ l[cur][i] = c
              /\ \A j \in Places : j # i => l[cur][j] = b[cur][j]
      BY <1>2, <2>3, <2>4, <3>1, ByteStored
    <3> QED
      BY <2>1, <2>3, <3>2
  <2>6. /\ lineidx' \in 0 .. M - 1 /\ text' \in Seq(Chars) /\ Len(text') = lineidx'
        /\ \A k \in 1 .. lineidx' : lines'[cur][k - 1] = text'[k]
    <3>1. CASE i = M - 1
      <4>1. lineidx' = i /\ text' = s
        BY <1>1, <2>1, <2>2, <2>4, <3>1 DEF NR!Capped
      <4>2. \A k \in 1 .. i : k - 1 \in Places /\ k - 1 # i
        BY <1>1, <2>4 DEF Places
      <4> QED
        BY <2>4, <2>5, <4>1, <4>2
    <3>2. CASE i # M - 1
      <4>1. lineidx' = i + 1 /\ text' = Append(s, c)
        BY <1>1, <2>1, <2>2, <2>4, <3>2 DEF NR!Capped
      <4>2. /\ Append(s, c) \in Seq(Chars) /\ Len(Append(s, c)) = i + 1
            /\ \A k \in 1 .. i : Append(s, c)[k] = s[k]
            /\ Append(s, c)[i + 1] = c
        BY <1>4, <2>4
      <4>3. ASSUME NEW k \in 1 .. i + 1 PROVE lines'[cur][k - 1] = Append(s, c)[k]
        <5>1. CASE k = i + 1
          <6>1. k - 1 = i
            BY <2>4, <5>1
          <6> QED
            BY <2>5, <4>2, <5>1, <6>1
        <5>2. CASE k # i + 1
          <6>1. k \in 1 .. i /\ k - 1 \in Places /\ k - 1 # i
            BY <1>1, <2>4, <5>2 DEF Places
          <6> QED
            BY <2>4, <2>5, <4>2, <6>1
        <5> QED
          BY <5>1, <5>2
      <4> QED
        BY <1>1, <2>4, <3>2, <4>1, <4>2, <4>3
    <3> QED
      BY <3>1, <3>2
  <2>7. ReaderTypes'
    BY <1>2, <1>4, <2>1, <2>2, <2>5, <2>6 DEF ReaderTypes
  <2>8. ReaderBuffers'
    BY <1>2, <2>1, <2>2, <2>5, <2>6 DEF ReaderInv, ReaderBuffers, IsString, Begins
  <2>9. ReaderFlags'
    BY <1>3, <1>6, <2>1, <2>2 DEF ReaderFlags, NR!EachLineOnce, NR!GoodLinesPass, NR!HasChecksum,
       NR!SumMatches, NR!BitSum
  <2> QED
    BY <2>7, <2>8, <2>9 DEF ReaderInv
<1> QED
  BY <1>7, <1>8, <1>9

\* No line with a right checksum is refused: its star would have to be one place earlier.
LEMMA ReaderTakes ==
  ASSUME ReaderInv, NR!TakeLine
  PROVE  ReaderInv'
<1>1. NR!StringOf(lines[lastline]) = ended
  <2>1. lines[lastline] \in CellRow /\ ended \in Seq(Chars) /\ IsString(lines[lastline], ended)
    BY DEF ReaderInv, ReaderTypes, ReaderBuffers
  <2> QED
    BY <2>1, StringIsRead
<1>2. verdict' \in NR!Checksum(ended)
  BY <1>1 DEF NR!TakeLine
<1>3. verdict' = "refused" => Len(ended) >= 4 /\ ended[Len(ended) - 3] = "*"
  BY <1>2 DEF NR!Checksum
<1>4. verdict' = "refused" => ~NR!HasChecksum(ended)
  <2> SUFFICES ASSUME verdict' = "refused", NR!HasChecksum(ended) PROVE FALSE
    OBVIOUS
  <2>1. Len(ended) \in Nat /\ DOMAIN ended = 1 .. Len(ended)
    BY DEF ReaderInv, ReaderTypes
  <2>2. Len(ended) - 3 \in {i \in DOMAIN ended : ended[i] = "*"}
    BY <1>3, <2>1
  <2>3. Len(ended) - 3 = Len(ended) - 2
    BY <2>2 DEF NR!HasChecksum
  <2> QED
    BY <2>1, <2>3
<1>5. /\ recvdflag = TRUE /\ recvdflag' = FALSE /\ pending' = pending - 1
      /\ UNCHANGED <<rx, lines, currentline, lastline, lineidx, text, ended>>
  BY DEF NR!TakeLine, NR!LastNMEA, NR!uart, NR!buffers
<1>6. ReaderTypes' /\ ReaderBuffers'
  BY <1>5 DEF ReaderInv, ReaderTypes, ReaderBuffers, IsString, Begins
<1>7. pending' = 0
  BY <1>5 DEF ReaderInv, ReaderFlags, NR!EachLineOnce
<1>8. (NR!GoodLinesPass)'
  BY <1>4, <1>5 DEF NR!GoodLinesPass, NR!HasChecksum
<1> QED
  BY <1>5, <1>6, <1>7, <1>8 DEF ReaderInv, ReaderFlags, NR!EachLineOnce

\* A step of the program that leaves the lines alone.
LEMMA ReaderWaits ==
  ASSUME ReaderInv, rx' \in Seq(Chars),
         UNCHANGED <<lines, currentline, lastline, lineidx, text, ended, verdict>>,
         \/ UNCHANGED <<recvdflag, pending>> /\ (pc' = "read" => pc = "read" \/ ~recvdflag)
         \/ recvdflag /\ ~recvdflag' /\ pending' = pending - 1,
         recvdflag' \in BOOLEAN
  PROVE  ReaderInv'
<1>1. ReaderTypes' /\ ReaderBuffers'
  BY DEF ReaderInv, ReaderTypes, ReaderBuffers, IsString, Begins
<1>2. recvdflag \in BOOLEAN /\ NR!EachLineOnce
  BY DEF ReaderInv, ReaderFlags
<1>3. (NR!EachLineOnce)'
  BY <1>2 DEF NR!EachLineOnce
<1>4. (NR!GoodLinesPass)'
  BY DEF ReaderInv, ReaderFlags, NR!GoodLinesPass, NR!HasChecksum, NR!SumMatches, NR!BitSum
<1> QED
  BY <1>1, <1>3, <1>4 DEF ReaderInv, ReaderFlags

LEMMA ReaderStep == ReaderInv /\ NR!Next => ReaderInv'
<1> SUFFICES ASSUME ReaderInv, NR!Next PROVE ReaderInv'
  OBVIOUS
<1>1. rx \in Seq(Chars) /\ recvdflag \in BOOLEAN
  BY DEF ReaderInv, ReaderTypes, ReaderFlags
<1>2. ASSUME NEW c \in Chars, NR!Arrive(c) PROVE ReaderInv'
  <2>1. rx' \in Seq(Chars)
    BY <1>1, <1>2 DEF NR!Arrive
  <2> QED
    BY <1>1, <1>2, <2>1, ReaderWaits DEF NR!Arrive, NR!buffers
<1>3. CASE NR!Read
  BY <1>3, ReaderRead
<1>4. CASE NR!TakeLine
  BY <1>4, ReaderTakes
<1>5. CASE NR!ReadNothing \/ NR!CheckNothing
  BY <1>1, <1>5, ReaderWaits DEF NR!ReadNothing, NR!CheckNothing, NR!buffers, NR!uart
<1>6. CASE NR!WaitTake
  BY <1>1, <1>6, ReaderWaits DEF NR!WaitTake, NR!LastNMEA, NR!buffers, NR!uart
<1>7. CASE NR!Spin
  BY <1>1, <1>7, ReaderWaits DEF NR!Spin, NR!vars, NR!buffers, NR!uart
<1>8. ASSUME NEW p \in BOOLEAN, NR!Pause(p) PROVE ReaderInv'
  BY <1>1, <1>8, ReaderWaits DEF NR!Pause, NR!buffers, NR!uart
<1>9. CASE NR!Standby \/ NR!Wakeup
  BY <1>1, <1>9, ReaderWaits DEF NR!Standby, NR!Wakeup, NR!buffers, NR!uart
<1> QED
  BY <1>2, <1>3, <1>4, <1>5, <1>6, <1>7, <1>8, <1>9 DEF NR!Next, NR!Loop

LEMMA ReaderSafe == ReaderInv => NR!LineAsReceived /\ NR!EachLineOnce /\ NR!GoodLinesPass
<1> SUFFICES ASSUME ReaderInv PROVE NR!LineAsReceived /\ NR!EachLineOnce /\ NR!GoodLinesPass
  OBVIOUS
<1>1. lines[lastline] \in CellRow /\ ended \in Seq(Chars) /\ IsString(lines[lastline], ended)
  BY DEF ReaderInv, ReaderTypes, ReaderBuffers
<1> QED
  BY <1>1, StringIsRead DEF ReaderInv, ReaderFlags, NR!LineAsReceived

\* Whatever bytes arrive and whenever the queue is full: the program is handed each line that
\* ended once, and it is what was received, cut to the length of the buffer; a line with a
\* right checksum is never refused (SPK_GPS.cpp read, newNMEAreceived, lastNMEA, parse).
THEOREM LinesAreIntact == Spec => []LinesIntact
<1> DEFINE Inv == part = "reader" => ReaderInv
<1>1. Init => Inv
  BY ReaderInit DEF Init
<1>2. Inv /\ [Next]_vars => Inv'
  <2> SUFFICES ASSUME Inv, [Next]_vars PROVE Inv'
    OBVIOUS
  <2>1. CASE part = "reader" /\ NR!Next /\ part' = part
    BY <2>1, ReaderStep
  <2>2. CASE UNCHANGED <<part, reader>>
    <3>1. ReaderInv => ReaderInv'
      <4> SUFFICES ASSUME ReaderInv PROVE ReaderInv'
        OBVIOUS
      <4>1. rx \in Seq(Chars) /\ recvdflag \in BOOLEAN
        BY DEF ReaderInv, ReaderTypes, ReaderFlags
      <4> QED
        BY <2>2, <4>1, ReaderWaits DEF reader
    <3> QED
      BY <2>2, <3>1
  <2>3. CASE part # "reader" /\ part' = part
    BY <2>3
  <2>4. UNCHANGED vars => UNCHANGED <<part, reader>>
    BY DEF vars
  <2> QED
    BY <2>1, <2>2, <2>3, <2>4 DEF Next
<1>3. Inv => LinesIntact
  BY ReaderSafe DEF LinesIntact
<1> QED
  BY <1>1, <1>2, <1>3, PTL DEF Spec

-----------------------------------------------------------------------------
(* SPK_GPS and Adafruit_GPS: parse                                         *)

ParserInv ==
  /\ library \in {"SPK_GPS", "Adafruit_GPS"}
  /\ count \in Nat /\ whole \subseteq 1 .. count /\ point.sentence \in 0 .. count
  /\ NP!PointIsWhole /\ NP!UsedIsAccepted

\* Where the fields are, in either library.
LEMMA Layouts ==
  ASSUME library \in {"SPK_GPS", "Adafruit_GPS"}
  PROVE  /\ \A t \in {"GGA", "RMC"} :
              /\ {"latitude", "longitude"} \subseteq DOMAIN NP!Layout[t]
              /\ NP!Layout[t].latitude <= NP!LastField[t] /\ NP!Layout[t].longitude <= NP!LastField[t]
         /\ "speed" \notin DOMAIN NP!Layout["GGA"] /\ NP!Layout["RMC"].speed = 7
         /\ "fixquality" \notin DOMAIN NP!Layout["RMC"] /\ NP!Layout["GGA"].fixquality = 6
         /\ {"latitude", "longitude", "speed", "fixquality"} \subseteq NP!Fields
<1>1. {"latitude", "longitude", "speed", "fixquality"} \subseteq NP!Fields
  BY DEF NP!Fields, NP!Types, NP!SpkLayout
<1>2. CASE library = "SPK_GPS"
  BY <1>1, <1>2 DEF NP!Layout, NP!SpkLayout, NP!LastField
<1>3. CASE library = "Adafruit_GPS"
  BY <1>1, <1>3 DEF NP!Layout, NP!AdafruitLayout, NP!LastField
<1> QED
  BY <1>2, <1>3

\* The first failed test of a sentence comes before the fields that decide.
LEMMA TestsComeFirst ==
  /\ \A bad \in SUBSET {5} : bad # {} => NP!Min(bad) = 5
  /\ \A bad \in SUBSET {2, 4, 6} : bad # {} => NP!Min(bad) \in {2, 4, 6}
<1>1. ASSUME NEW bad \in SUBSET {5}, bad # {} PROVE NP!Min(bad) = 5
  <2>1. bad = {5}
    BY <1>1
  <2> QED
    BY <2>1 DEF NP!Min
<1>2. ASSUME NEW bad \in SUBSET {2, 4, 6}, bad # {} PROVE NP!Min(bad) \in {2, 4, 6}
  <2>1. \E x \in bad : \A y \in bad : x <= y
    <3>1. CASE 2 \in bad
      BY <3>1
    <3>2. CASE 2 \notin bad /\ 4 \in bad
      BY <3>2
    <3>3. CASE 2 \notin bad /\ 4 \notin bad
      <4>1. \A x \in bad : x = 6
        BY <3>3
      <4>2. 6 \in bad
        BY <1>2, <4>1
      <4> QED
        BY <4>1, <4>2
    <3> QED
      BY <3>1, <3>2, <3>3
  <2>2. NP!Min(bad) \in bad
    BY <2>1 DEF NP!Min
  <2> QED
    BY <2>2
<1> QED
  BY <1>1, <1>2

LEMMA ParserInit == NP!Init => ParserInv
<1> SUFFICES ASSUME NP!Init PROVE ParserInv
  OBVIOUS
<1>1. library \in {"SPK_GPS", "Adafruit_GPS"}
  BY DEF NP!Init
<1>2. gps.speed = 0 /\ gps.fixquality = 0
  BY <1>1, Layouts DEF NP!Init
<1>3. point.sentence = 0 /\ whole = {} /\ count = 0
  BY DEF NP!Init, NP!NoPoint
<1> QED
  BY <1>1, <1>2, <1>3 DEF ParserInv, NP!PointIsWhole, NP!UsedIsAccepted

LEMMA ParserStep == ParserInv /\ NP!Next => ParserInv'
<1> SUFFICES ASSUME ParserInv, NP!Next PROVE ParserInv'
  OBVIOUS
<1>1. CASE NP!ParseOther
  BY <1>1 DEF NP!ParseOther, ParserInv, NP!PointIsWhole, NP!UsedIsAccepted
<1>2. CASE NP!NoNewLine
  BY <1>2 DEF NP!NoNewLine, NP!vars, ParserInv, NP!PointIsWhole, NP!UsedIsAccepted
<1>3. ASSUME NEW s \in NP!Sentences, NEW valid \in BOOLEAN, NEW bad \in SUBSET NP!Tests[s.type],
             NP!Parse(s, bad, valid)
      PROVE  ParserInv'
  <2> DEFINE layout == NP!Layout[s.type]
  <2>1. s.type \in {"GGA", "RMC"}
    BY DEF NP!Sentences, NP!Types
  <2>2. library' = library /\ library \in {"SPK_GPS", "Adafruit_GPS"}
    BY <1>3 DEF NP!Parse, ParserInv
  <2>3. /\ count' = count + 1 /\ count \in Nat /\ whole \subseteq 1 .. count /\ point.sentence \in 0 .. count
        /\ gps' = NP!Walk(s, bad, count')
        /\ whole' = IF s.n = NP!LastField[s.type] THEN whole \cup {count'} ELSE whole
        /\ accepted' = IF bad = {} THEN accepted \cup {count'} ELSE accepted
    BY <1>3 DEF NP!Parse, ParserInv, NP!Verdict
  <2>4. \/ point' = point
        \/ /\ bad = {}
           /\ point' = [sentence |-> count', latitude |-> gps'.latitude,
                        longitude |-> gps'.longitude, speed |-> gps'.speed]
    BY <1>3 DEF NP!Parse, NP!Verdict
  <2>5. \A f \in NP!Fields : gps'[f] = IF f \notin NP!Written(s, bad) THEN gps[f]
                                       ELSE IF layout[f] <= s.n THEN count' ELSE -1
    BY <2>3 DEF NP!Walk, NP!Junk
  <2>6. (NP!PointIsWhole)'
    <3>1. CASE point' = point
      BY <2>3, <3>1 DEF ParserInv, NP!PointIsWhole
    <3>2. CASE /\ bad = {}
               /\ point' = [sentence |-> count', latitude |-> gps'.latitude,
                            longitude |-> gps'.longitude, speed |-> gps'.speed]
      <4> SUFFICES ASSUME count' \in whole'
                   PROVE  gps'.latitude = count' /\ gps'.longitude = count'
        BY <3>2 DEF NP!PointIsWhole
      <4>1. s.n = NP!LastField[s.type]
        BY <2>3
      <4>2. {"latitude", "longitude"} \subseteq NP!Written(s, bad)
        BY <2>1, <2>2, <3>2, Layouts DEF NP!Written
      <4>3. layout.latitude <= s.n /\ layout.longitude <= s.n
        BY <2>1, <2>2, <4>1, Layouts
      <4>4. "latitude" \in NP!Fields /\ "longitude" \in NP!Fields
        BY <2>2, Layouts
      <4> QED
        BY <2>5, <4>2, <4>3, <4>4
    <3> QED
      BY <2>4, <3>1, <3>2
  <2>7. ASSUME NEW f \in {"speed", "fixquality"}, f \in NP!Written(s, bad) PROVE bad = {}
    <3> SUFFICES ASSUME bad # {} PROVE FALSE
      OBVIOUS
    <3>1. f \in DOMAIN layout /\ layout[f] < NP!Min(bad)
      BY <2>7 DEF NP!Written
    <3>2. CASE s.type = "GGA"
      <4>1. bad \in SUBSET {5}
        BY <3>2 DEF NP!Tests
      <4>2. f = "fixquality" /\ layout[f] = 6
        BY <2>2, <3>1, <3>2, Layouts
      <4>3. NP!Min(bad) = 5
        BY <4>1, TestsComeFirst
      <4> QED
        BY <3>1, <4>2, <4>3
    <3>3. CASE s.type = "RMC"
      <4>1. bad \in SUBSET {2, 4, 6}
        BY <3>3 DEF NP!Tests
      <4>2. f = "speed" /\ layout[f] = 7
        BY <2>2, <3>1, <3>3, Layouts
      <4>3. NP!Min(bad) \in {2, 4, 6}
        BY <4>1, TestsComeFirst
      <4> QED
        BY <3>1, <4>2, <4>3
    <3> QED
      BY <2>1, <3>2, <3>3
  <2>8. \A f \in {"speed", "fixquality"} : gps'[f] \in accepted' \cup {0, -1}
    <3>1. "speed" \in NP!Fields /\ "fixquality" \in NP!Fields
      BY <2>2, Layouts
    <3>2. gps.speed \in accepted \cup {0, -1} /\ gps.fixquality \in accepted \cup {0, -1}
      BY DEF ParserInv, NP!UsedIsAccepted, NP!Junk
    <3> QED
      BY <2>3, <2>5, <2>7, <3>1, <3>2
  <2>9. (NP!UsedIsAccepted)'
    BY <2>8 DEF NP!UsedIsAccepted, NP!Junk
  <2>10. /\ whole' \subseteq 1 .. count' /\ point'.sentence \in 0 .. count'
    BY <2>3, <2>4
  <2> QED
    BY <2>2, <2>3, <2>6, <2>9, <2>10 DEF ParserInv
<1> QED
  BY <1>1, <1>2, <1>3 DEF NP!Next

\* Whatever lines come, refused and cut short ones included: a point of the track has both its
\* coordinates from the sentence that made it, unless that one was cut, and the speed and the
\* fix quality are of accepted sentences (SPK_GPS.cpp and Adafruit_GPS.cpp, parse).
THEOREM LinesAreParsed == Spec => []ParsedSound
<1> DEFINE Inv == part = "parser" => ParserInv
<1>1. Init => Inv
  BY ParserInit DEF Init
<1>2. Inv /\ [Next]_vars => Inv'
  <2> SUFFICES ASSUME Inv, [Next]_vars PROVE Inv'
    OBVIOUS
  <2>1. CASE part = "parser" /\ NP!Next /\ part' = part
    BY <2>1, ParserStep
  <2>2. CASE UNCHANGED <<part, parser>>
    BY <2>2 DEF parser, ParserInv, NP!PointIsWhole, NP!UsedIsAccepted
  <2>3. CASE part # "parser" /\ part' = part
    BY <2>3
  <2>4. UNCHANGED vars => UNCHANGED <<part, parser>>
    BY DEF vars
  <2> QED
    BY <2>1, <2>2, <2>3, <2>4 DEF Next
<1>3. Inv => ParsedSound
  BY DEF ParsedSound, ParserInv
<1> QED
  BY <1>1, <1>2, <1>3, PTL DEF Spec

-----------------------------------------------------------------------------
(* libraries/NMEA                                                          *)

\* A set of numbers has a least one.
LEMMA LeastNumber ==
  ASSUME NEW S \in SUBSET Nat, S # {}
  PROVE  \E x \in S : \A y \in S : x <= y
<1> DEFINE R == {ss \in Nat \X Nat : ss[1] < ss[2]}
<1>1. IsWellFoundedOn(R, Nat)
  BY NatLessThanWellFounded DEF OpToRel
<1>2. \A x, y \in Nat : x < y => <<x, y>> \in R
  <2> SUFFICES ASSUME NEW x \in Nat, NEW y \in Nat, x < y PROVE <<x, y>> \in R
    OBVIOUS
  <2>1. <<x, y>> \in Nat \X Nat /\ <<x, y>>[1] < <<x, y>>[2]
    OBVIOUS
  <2> QED
    BY <2>1
<1> HIDE DEF R
<1>3. PICK x \in S : \A y \in S : ~(<<y, x>> \in R)
  BY <1>1, WFMin
<1>4. ASSUME NEW y \in S PROVE x <= y
  <2>1. x \in Nat /\ y \in Nat /\ ~(y < x)
    BY <1>2, <1>3
  <2> QED
    BY <2>1
<1> QED
  BY <1>4
\* What holds of 0 and of every number behind one it holds of, holds up to n.
LEMMA UpTo ==
  ASSUME NEW n \in Nat, NEW S, 0 \in S, \A k \in 1 .. n : k - 1 \in S => k \in S
  PROVE  0 .. n \subseteq S
<1> DEFINE T == {k \in 0 .. n : k \notin S}
<1> SUFFICES ASSUME T # {} PROVE FALSE
  OBVIOUS
<1>1. T \in SUBSET Nat
  OBVIOUS
<1>2. PICK m \in T : \A k \in T : m <= k
  BY <1>1, LeastNumber
<1>3. m \in 1 .. n /\ m \notin S
  OBVIOUS
<1>4. m - 1 \in S
  <2>1. m - 1 \in 0 .. n /\ ~(m <= m - 1)
    BY <1>3
  <2> QED
    BY <1>2, <2>1
<1> QED
  BY <1>3, <1>4

\* A function can be defined step by step.
Steps(n, V) == [1 .. n -> [V -> V]]
Runs(n, V, v, g) == {h \in [0 .. n -> V] : h[0] = v /\ \A k \in 1 .. n : h[k] = g[k][h[k - 1]]}

LEMMA StepByStep ==
  ASSUME NEW n \in Nat, NEW V, NEW v \in V, NEW g \in Steps(n, V)
  PROVE  Runs(n, V, v, g) # {}
<1> DEFINE Goes(m, h) == h[0] = v /\ \A k \in 1 .. m : h[k] = g[k][h[k - 1]]
           S == {m \in 0 .. n : \E h \in [0 .. m -> V] : Goes(m, h)}
<1>0. g \in [1 .. n -> [V -> V]]
  BY DEF Steps
<1>1. 0 \in S
  <2> DEFINE one == [k \in 0 .. 0 |-> v]
  <2>1. one \in [0 .. 0 -> V] /\ Goes(0, one)
    OBVIOUS
  <2> HIDE DEF one, Goes
  <2> QED
    BY <2>1
<1>2. ASSUME NEW m \in 1 .. n, m - 1 \in S PROVE m \in S
  <2>1. PICK h \in [0 .. m - 1 -> V] : Goes(m - 1, h)
    BY <1>2
  <2> DEFINE f == [k \in 0 .. m |-> IF k = m THEN g[m][h[m - 1]] ELSE h[k]]
  <2>2. f \in [0 .. m -> V]
    <3>1. g[m][h[m - 1]] \in V
      BY <1>0, <2>1
    <3>2. \A k \in 0 .. m : k # m => k \in 0 .. m - 1 /\ h[k] \in V
      BY <2>1
    <3> QED
      BY <3>1, <3>2
  <2>3. f[0] = v
    BY <2>1
  <2>4. \A k \in 1 .. m : f[k] = g[k][f[k - 1]]
    <3> TAKE k \in 1 .. m
    <3>1. f[k - 1] = h[k - 1]
      OBVIOUS
    <3>2. k # m => f[k] = h[k] /\ k \in 1 .. m - 1
      OBVIOUS
    <3>3. k = m => f[k] = g[k][h[k - 1]]
      OBVIOUS
    <3> QED
      BY <2>1, <3>1, <3>2, <3>3
  <2> HIDE DEF f
  <2>5. Goes(m, f)
    BY <2>3, <2>4
  <2> HIDE DEF Goes
  <2> QED
    BY <2>2, <2>5
<1> HIDE DEF Goes
<1>3. 0 .. n \subseteq S
  <2>1. \A k \in 1 .. n : k - 1 \in S => k \in S
    BY <1>2
  <2> HIDE DEF S
  <2> QED
    BY <1>1, <2>1, UpTo
<1>4. \E h \in [0 .. n -> V] : Goes(n, h)
  BY <1>3
<1> QED
  BY <1>4 DEF Goes, Runs

\* The parity of a text and of a longer one.
LEMMA XorIsInt == \A a, b \in Int : ND!Xor(a, b) \in Int
  BY DEF ND!Xor

ParitySteps(s, f) ==
  /\ f[0] = 0
  /\ \A k \in 1 .. Len(s) : f[k] = ND!Xor(f[k - 1], s[k])

LEMMA ParityByStep ==
  ASSUME NEW s \in Seq(Int)
  PROVE  \E f \in [0 .. Len(s) -> Int] : ParitySteps(s, f) /\ ND!ParityOf(s) = f[Len(s)]
<1> DEFINE n == Len(s)
           g == [k \in 1 .. n |-> [a \in Int |-> ND!Xor(a, s[k])]]
           e(f) == [k \in 0 .. n |-> IF k = 0 THEN 0 ELSE ND!Xor(f[k - 1], s[k])]
           at[k \in 0 .. n] == IF k = 0 THEN 0 ELSE ND!Xor(at[k - 1], s[k])
<1>1. n \in Nat /\ \A k \in 1 .. n : s[k] \in Int
  OBVIOUS
<1>2. g \in [1 .. n -> [Int -> Int]] /\ \A k \in 1 .. n, a \in Int : g[k][a] = ND!Xor(a, s[k])
  BY <1>1, XorIsInt
<1>3. at = CHOOSE f : f = e(f)
  OBVIOUS
<1>4. ND!ParityOf(s) = at[n]
  BY DEF ND!ParityOf
<1> HIDE DEF n, g
<1>5. PICK h \in [0 .. n -> Int] : h[0] = 0 /\ \A k \in 1 .. n : h[k] = g[k][h[k - 1]]
  <2> DEFINE z == 0
  <2>1. z \in Int /\ n \in Nat /\ g \in Steps(n, Int)
    BY <1>1, <1>2 DEF Steps
  <2> HIDE DEF z
  <2>2. Runs(n, Int, z, g) # {}
    BY <2>1, StepByStep
  <2> QED
    BY <2>2 DEF Runs, z
<1>6. \A k \in 1 .. n : h[k - 1] \in Int /\ h[k] = ND!Xor(h[k - 1], s[k])
  <2> TAKE k \in 1 .. n
  <2>1. k - 1 \in 0 .. n
    BY <1>1
  <2>2. h[k - 1] \in Int
    BY <2>1
  <2> QED
    BY <2>2, <1>2, <1>5
<1>7. e(h) = h
  BY <1>1, <1>5, <1>6
<1>8. at = e(at)
  <2> HIDE DEF e, at
  <2> QED
    BY <1>3, <1>7
<1> HIDE DEF at
<1>9. at[0] = 0 /\ \A k \in 1 .. n : at[k] = ND!Xor(at[k - 1], s[k])
  BY <1>1, <1>8
<1>10. at \in [0 .. n -> Int]
  <2> DEFINE S == {k \in 0 .. n : at[k] \in Int}
  <2>1. 0 \in S
    BY <1>1, <1>9
  <2>2. \A k \in 1 .. n : k - 1 \in S => k \in S
    <3> TAKE k \in 1 .. n
    <3> SUFFICES ASSUME at[k - 1] \in Int PROVE at[k] \in Int
      BY <1>1
    <3> QED
      BY <1>1, <1>9, XorIsInt
  <2>3. 0 .. n \subseteq S
    <3> HIDE DEF S
    <3> QED
      BY <1>1, <2>1, <2>2, UpTo
  <2>4. at = [k \in 0 .. n |-> at[k]]
    BY <1>8
  <2> QED
    BY <2>3, <2>4
<1> QED
  BY <1>4, <1>9, <1>10 DEF ParitySteps, n

LEMMA ParityOfNone == ND!ParityOf(<<>>) = 0
<1>1. <<>> \in Seq(Int) /\ Len(<<>>) = 0
  OBVIOUS
<1> QED
  BY <1>1, ParityByStep DEF ParitySteps

LEMMA ParityFacts ==
  ASSUME NEW s \in Seq(Int), NEW c \in Int
  PROVE  ND!ParityOf(s) \in Int /\ ND!ParityOf(Append(s, c)) = ND!Xor(ND!ParityOf(s), c)
<1> DEFINE n == Len(s)
           t == Append(s, c)
<1>1. t \in Seq(Int) /\ n \in Nat /\ Len(t) = n + 1 /\ t[n + 1] = c /\ \A k \in 1 .. n : t[k] = s[k]
  OBVIOUS
<1>2. PICK f \in [0 .. n -> Int] : ParitySteps(s, f) /\ ND!ParityOf(s) = f[n]
  BY ParityByStep
<1> HIDE DEF t
<1>3. PICK h \in [0 .. Len(t) -> Int] : ParitySteps(t, h) /\ ND!ParityOf(t) = h[Len(t)]
  BY <1>1, ParityByStep
<1> HIDE DEF n
<1> DEFINE S == {k \in 0 .. n : h[k] = f[k]}
<1>4. 0 \in S
  BY <1>1, <1>2, <1>3 DEF ParitySteps
<1>5. \A k \in 1 .. n : k - 1 \in S => k \in S
  <2> TAKE k \in 1 .. n
  <2> SUFFICES ASSUME h[k - 1] = f[k - 1] PROVE h[k] = f[k]
    BY <1>1
  <2>1. k \in 1 .. Len(t) /\ t[k] = s[k]
    BY <1>1
  <2>2. h[k] = ND!Xor(h[k - 1], t[k])
    BY <2>1, <1>3 DEF ParitySteps
  <2>3. f[k] = ND!Xor(f[k - 1], s[k])
    BY <1>2 DEF ParitySteps, n
  <2> QED
    BY <2>1, <2>2, <2>3
<1>6. h[n] = f[n]
  <2>1. 0 .. n \subseteq S
    <3> HIDE DEF S
    <3> QED
      BY <1>1, <1>4, <1>5, UpTo
  <2> QED
    BY <1>1, <2>1
<1>7. h[n + 1] = ND!Xor(h[n], c)
  <2>1. n + 1 \in 1 .. Len(t) /\ (n + 1) - 1 = n
    BY <1>1
  <2> QED
    BY <1>1, <1>3, <2>1 DEF ParitySteps
<1>8. f[n] \in Int
  BY <1>1, <1>2
<1> QED
  BY <1>1, <1>2, <1>3, <1>6, <1>7, <1>8 DEF t
-----------------------------------------------------------------------------
\* The terms of a text and of a longer one.
Grown(terms, c) ==
  IF c = ND!Comma THEN Append(terms, <<>>)
  ELSE [terms EXCEPT ![Len(terms)] = Append(@, c)]

Texts == Seq(Int)
Lists == Seq(Texts) \ {<<>>}

LEMMA GrownIsList == \A terms \in Lists, c \in Int : Grown(terms, c) \in Lists
<1> SUFFICES ASSUME NEW terms \in Lists, NEW c \in Int PROVE Grown(terms, c) \in Lists
  OBVIOUS
<1>1. <<>> \in Texts
  BY DEF Texts
<1>2. CASE c = ND!Comma
  <2>1. Append(terms, <<>>) \in Seq(Texts) /\ Len(Append(terms, <<>>)) = Len(terms) + 1
    BY <1>1 DEF Lists
  <2>2. Len(terms) \in Nat
    BY DEF Lists
  <2> QED
    BY <1>2, <2>1, <2>2 DEF Grown, Lists
<1>3. CASE c # ND!Comma
  <2> DEFINE l == Len(terms)
             v == [terms EXCEPT ![l] = Append(@, c)]
  <2>1. l \in 1 .. Len(terms) /\ terms[l] \in Texts
    BY DEF Lists
  <2>2. Append(terms[l], c) \in Texts
    BY <2>1 DEF Texts
  <2>3. v \in Seq(Texts) /\ Len(v) = Len(terms)
    BY <2>1, <2>2 DEF Lists
  <2>4. Grown(terms, c) = v
    BY <1>3 DEF Grown
  <2> QED
    BY <2>1, <2>3, <2>4 DEF Lists
<1> QED
  BY <1>2, <1>3

SplitSteps(s, f) ==
  /\ f[0] = << <<>> >>
  /\ \A k \in 1 .. Len(s) : f[k] = Grown(f[k - 1], s[k])

LEMMA SplitByStep ==
  ASSUME NEW s \in Seq(Int)
  PROVE  \E f \in [0 .. Len(s) -> Lists] : SplitSteps(s, f) /\ ND!Split(s) = f[Len(s)]
<1> DEFINE n == Len(s)
           first == << <<>> >>
           g == [k \in 1 .. n |-> [a \in Lists |-> Grown(a, s[k])]]
           e(f) == [k \in 0 .. n |-> IF k = 0 THEN first ELSE Grown(f[k - 1], s[k])]
           at[k \in 0 .. n] == IF k = 0 THEN << <<>> >>
                               ELSE IF s[k] = ND!Comma THEN Append(at[k - 1], <<>>)
                               ELSE [at[k - 1] EXCEPT ![Len(at[k - 1])] = Append(@, s[k])]
<1>1. n \in Nat /\ \A k \in 1 .. n : s[k] \in Int
  OBVIOUS
<1>0. first \in Lists
  BY DEF Lists, Texts
<1>2. g \in [1 .. n -> [Lists -> Lists]] /\ \A k \in 1 .. n, a \in Lists : g[k][a] = Grown(a, s[k])
  BY <1>1, GrownIsList
<1>3. at = CHOOSE f : f = e(f)
  BY DEF Grown
<1>4. ND!Split(s) = at[n]
  BY DEF ND!Split
<1> HIDE DEF n, g, first
<1>5. PICK h \in [0 .. n -> Lists] : h[0] = first /\ \A k \in 1 .. n : h[k] = g[k][h[k - 1]]
  <2>1. g \in Steps(n, Lists)
    BY <1>1, <1>2 DEF Steps
  <2>2. Runs(n, Lists, first, g) # {}
    BY <1>0, <1>1, <2>1, StepByStep
  <2> QED
    BY <2>2 DEF Runs
<1>6. \A k \in 1 .. n : h[k - 1] \in Lists /\ h[k] = Grown(h[k - 1], s[k])
  <2> TAKE k \in 1 .. n
  <2>1. k - 1 \in 0 .. n
    BY <1>1
  <2>2. h[k - 1] \in Lists
    BY <2>1
  <2> QED
    BY <2>2, <1>2, <1>5
<1>7. e(h) = h
  BY <1>1, <1>5, <1>6
<1>8. at = e(at)
  <2> HIDE DEF e, at
  <2> QED
    BY <1>3, <1>7
<1> HIDE DEF at
<1>9. at[0] = first /\ \A k \in 1 .. n : at[k] = Grown(at[k - 1], s[k])
  BY <1>1, <1>8
<1>10. at \in [0 .. n -> Lists]
  <2> DEFINE S == {k \in 0 .. n : at[k] \in Lists}
  <2>1. 0 \in S
    BY <1>0, <1>1, <1>9
  <2>2. \A k \in 1 .. n : k - 1 \in S => k \in S
    <3> TAKE k \in 1 .. n
    <3> SUFFICES ASSUME at[k - 1] \in Lists PROVE at[k] \in Lists
      BY <1>1
    <3> QED
      BY <1>1, <1>9, GrownIsList
  <2>3. 0 .. n \subseteq S
    <3> HIDE DEF S
    <3> QED
      BY <1>1, <2>1, <2>2, UpTo
  <2>4. at = [k \in 0 .. n |-> at[k]]
    BY <1>8
  <2> QED
    BY <2>3, <2>4
<1> QED
  BY <1>4, <1>9, <1>10 DEF SplitSteps, n, first

LEMMA SplitOfNone == ND!Split(<<>>) = << <<>> >>
<1>1. <<>> \in Seq(Int) /\ Len(<<>>) = 0
  OBVIOUS
<1> QED
  BY <1>1, SplitByStep DEF SplitSteps

LEMMA SplitFacts ==
  ASSUME NEW s \in Seq(Int), NEW c \in Int
  PROVE  ND!Split(s) \in Lists /\ ND!Split(Append(s, c)) = Grown(ND!Split(s), c)
<1> DEFINE n == Len(s)
           t == Append(s, c)
<1>1. t \in Seq(Int) /\ n \in Nat /\ Len(t) = n + 1 /\ t[n + 1] = c /\ \A k \in 1 .. n : t[k] = s[k]
  OBVIOUS
<1>2. PICK f \in [0 .. n -> Lists] : SplitSteps(s, f) /\ ND!Split(s) = f[n]
  BY SplitByStep
<1> HIDE DEF t
<1>3. PICK h \in [0 .. Len(t) -> Lists] : SplitSteps(t, h) /\ ND!Split(t) = h[Len(t)]
  BY <1>1, SplitByStep
<1> HIDE DEF n
<1> DEFINE S == {k \in 0 .. n : h[k] = f[k]}
<1>4. 0 \in S
  <2>1. h[0] = f[0]
    <3> HIDE DEF S
    <3>1. h[0] = << <<>> >>
      BY <1>3 DEF SplitSteps
    <3>2. f[0] = << <<>> >>
      BY <1>2 DEF SplitSteps
    <3> QED
      BY <3>1, <3>2
  <2>2. 0 \in 0 .. n
    BY <1>1
  <2> QED
    BY <2>1, <2>2
<1>5. \A k \in 1 .. n : k - 1 \in S => k \in S
  <2> TAKE k \in 1 .. n
  <2> SUFFICES ASSUME h[k - 1] = f[k - 1] PROVE h[k] = f[k]
    BY <1>1
  <2>1. k \in 1 .. Len(t) /\ t[k] = s[k]
    BY <1>1
  <2>2. h[k] = Grown(h[k - 1], t[k])
    BY <2>1, <1>3 DEF SplitSteps
  <2>3. f[k] = Grown(f[k - 1], s[k])
    BY <1>2 DEF SplitSteps, n
  <2> QED
    BY <2>1, <2>2, <2>3
<1>6. h[n] = f[n]
  <2>1. 0 .. n \subseteq S
    <3> HIDE DEF S
    <3> QED
      BY <1>1, <1>4, <1>5, UpTo
  <2> QED
    BY <1>1, <2>1
<1>7. h[n + 1] = Grown(h[n], c)
  <2>1. n + 1 \in 1 .. Len(t) /\ (n + 1) - 1 = n
    BY <1>1
  <2> QED
    BY <1>1, <1>3, <2>1 DEF SplitSteps
<1>8. f[n] \in Lists
  BY <1>1, <1>2
<1> QED
  BY <1>1, <1>2, <1>3, <1>6, <1>7, <1>8 DEF t

\* A character joins the term being filled, or ends it.
LEMMA GrownFacts ==
  ASSUME NEW terms \in Seq(Texts), NEW last \in Texts, NEW c \in Int
  PROVE  Grown(Append(terms, last), c) =
           IF c = ND!Comma THEN Append(Append(terms, last), <<>>) ELSE Append(terms, Append(last, c))
<1> DEFINE a == Append(terms, last)
           l == Len(terms) + 1
           b == [a EXCEPT ![l] = Append(@, c)]
           e == Append(terms, Append(last, c))
<1>1. a \in Seq(Texts) /\ Len(a) = l /\ a[l] = last /\ \A i \in 1 .. Len(terms) : a[i] = terms[i]
  OBVIOUS
<1>2. Append(last, c) \in Texts
  BY DEF Texts
<1>3. e \in Seq(Texts) /\ Len(e) = l /\ e[l] = Append(last, c) /\ \A i \in 1 .. Len(terms) : e[i] = terms[i]
  BY <1>2
<1>4. Grown(a, c) = IF c = ND!Comma THEN Append(a, <<>>) ELSE b
  BY <1>1 DEF Grown
<1>5. b = e
  <2> HIDE DEF e, a
  <2>1. l \in Nat /\ Len(terms) \in Nat
    OBVIOUS
  <2>2. b \in Seq(Texts) /\ Len(b) = l /\ b[l] = Append(last, c) /\ \A i \in 1 .. Len(terms) : b[i] = terms[i]
    BY <1>1, <1>2, <2>1
  <2>3. \A i \in 1 .. l : b[i] = e[i]
    <3> TAKE i \in 1 .. l
    <3>1. i = l \/ i \in 1 .. Len(terms)
      BY <2>1
    <3> QED
      BY <3>1, <1>3, <2>2
  <2> HIDE DEF b
  <2> QED
    BY <1>3, <2>2, <2>3
<1> QED
  BY <1>4, <1>5
-----------------------------------------------------------------------------
\* One character of a sentence.
Decs == [state : 0 .. 3, parity : Int, tag : Int, sentence : Seq(Int), terms : Seq(Texts), current : Texts]

NewTag(d, c) ==
  IF Len(d.sentence) < Len(GPRMC_TERM) /\ GPRMC_TERM[Len(d.sentence) + 1] = c THEN d.tag + 1 ELSE d.tag

LEMMA TaggedFacts ==
  ASSUME NEW d \in Decs, NEW c \in Int
  PROVE  LET e == ND!Added(ND!Tagged(d, c), c)
         IN  /\ e \in Decs /\ e.state = d.state /\ e.parity = d.parity /\ e.tag = NewTag(d, c)
             /\ e.sentence = Append(d.sentence, c) /\ e.terms = d.terms /\ e.current = d.current
<1> DEFINE a == ND!Tagged(d, c)
           e == ND!Added(a, c)
<1>1. /\ a \in Decs /\ a.state = d.state /\ a.parity = d.parity /\ a.tag = NewTag(d, c)
      /\ a.sentence = d.sentence /\ a.terms = d.terms /\ a.current = d.current
  BY DEF ND!Tagged, Decs, NewTag
<1> HIDE DEF a
<1> DEFINE z == Append(a.sentence, c)
<1>4. z \in Seq(Int)
  BY <1>1 DEF Decs
<1>5. e = [a EXCEPT !.sentence = z]
  BY DEF ND!Added
<1> HIDE DEF e, z
<1>2. /\ e \in Decs /\ e.state = a.state /\ e.parity = a.parity /\ e.tag = a.tag
      /\ e.sentence = z /\ e.terms = a.terms /\ e.current = a.current
  BY <1>1, <1>4, <1>5 DEF Decs
<1> HIDE DEF e
<1>3. /\ e \in Decs /\ e.state = d.state /\ e.parity = d.parity /\ e.tag = NewTag(d, c)
      /\ e.sentence = Append(d.sentence, c) /\ e.terms = d.terms /\ e.current = d.current
  BY <1>1, <1>2 DEF z
<1> QED
  BY <1>3 DEF e, a

LEMMA EndTermFacts ==
  ASSUME NEW d \in Decs
  PROVE  LET e == ND!EndTerm(d)
         IN  /\ e \in Decs /\ e.state = d.state /\ e.parity = d.parity /\ e.tag = d.tag
             /\ e.sentence = d.sentence /\ e.terms = Append(d.terms, d.current) /\ e.current = <<>>
<1> DEFINE e == ND!EndTerm(d)
           z == Append(d.terms, d.current)
           none == <<>>
<1>1. none \in Texts
  BY DEF Texts
<1>2. z \in Seq(Texts)
  BY DEF Decs
<1>3. e = [d EXCEPT !.terms = z, !.current = none]
  BY DEF ND!EndTerm
<1> HIDE DEF e, z, none
<1>4. /\ e \in Decs /\ e.state = d.state /\ e.parity = d.parity /\ e.tag = d.tag
      /\ e.sentence = d.sentence /\ e.terms = z /\ e.current = none
  BY <1>1, <1>2, <1>3 DEF Decs
<1> QED
  BY <1>4 DEF e, z, none

LEMMA InSentenceFacts ==
  ASSUME NEW d \in Decs, NEW c \in Int
  PROVE  LET e == ND!InSentence(d, c)
         IN  /\ e \in Decs /\ e.tag = d.tag /\ e.sentence = d.sentence
             /\ e.state = IF c = ND!Star THEN 2 ELSE d.state
             /\ e.parity = IF c = ND!Star THEN d.parity ELSE ND!Xor(d.parity, c)
             /\ e.terms = IF c \in {ND!Star, ND!Comma} THEN Append(d.terms, d.current) ELSE d.terms
             /\ e.current = IF c \in {ND!Star, ND!Comma} THEN <<>> ELSE Append(d.current, c)
<1> DEFINE t == ND!EndTerm(d)
           x == ND!Xor(d.parity, c)
<1>1. /\ t \in Decs /\ t.state = d.state /\ t.parity = d.parity /\ t.tag = d.tag
      /\ t.sentence = d.sentence /\ t.terms = Append(d.terms, d.current) /\ t.current = <<>>
  BY EndTermFacts
<1>2. x \in Int
  BY XorIsInt DEF Decs
<1>3. CASE c = ND!Comma
  <2>1. ND!InSentence(d, c) = [t EXCEPT !.parity = ND!Xor(t.parity, c)]
    BY <1>3 DEF ND!InSentence, ND!Comma, ND!Star
  <2>2. c # ND!Star
    BY <1>3 DEF ND!Comma, ND!Star
  <2> HIDE DEF t
  <2>3. ND!InSentence(d, c) = [t EXCEPT !.parity = x]
    BY <1>1, <2>1
  <2> HIDE DEF x
  <2>4. LET e == [t EXCEPT !.parity = x]
        IN  /\ e \in Decs /\ e.state = t.state /\ e.parity = x /\ e.tag = t.tag
            /\ e.sentence = t.sentence /\ e.terms = t.terms /\ e.current = t.current
    BY <1>1, <1>2 DEF Decs
  <2> QED
    BY <1>1, <1>3, <2>2, <2>3, <2>4 DEF x
<1>4. CASE c = ND!Star
  <2>1. ND!InSentence(d, c) = [t EXCEPT !.state = 2]
    BY <1>4 DEF ND!InSentence, ND!Comma, ND!Star
  <2> HIDE DEF t
  <2>4. LET e == [t EXCEPT !.state = 2]
        IN  /\ e \in Decs /\ e.state = 2 /\ e.parity = t.parity /\ e.tag = t.tag
            /\ e.sentence = t.sentence /\ e.terms = t.terms /\ e.current = t.current
    <3>1. 2 \in 0 .. 3
      OBVIOUS
    <3> DEFINE e == [t EXCEPT !.state = 2]
    <3>2. /\ e \in Decs /\ e.state = 2 /\ e.parity = t.parity /\ e.tag = t.tag
          /\ e.sentence = t.sentence /\ e.terms = t.terms /\ e.current = t.current
      BY <1>1, <3>1 DEF Decs
    <3> QED
      BY <3>2
  <2> QED
    BY <1>1, <1>4, <2>1, <2>4
<1>5. CASE c \notin {ND!Comma, ND!Star}
  <2>1. ND!InSentence(d, c) = [d EXCEPT !.current = Append(d.current, c), !.parity = x]
    BY <1>5 DEF ND!InSentence
  <2>2. Append(d.current, c) \in Texts
    BY DEF Texts, Decs
  <2> HIDE DEF x
  <2> QED
    BY <1>2, <1>5, <2>1, <2>2 DEF Decs, x
<1> QED
  BY <1>3, <1>4, <1>5

LEMMA FirstDigitFacts ==
  ASSUME NEW d \in Decs, NEW c \in Int
  PROVE  LET e == ND!FirstDigit(ND!Added(d, c), c)
         IN  /\ e \in Decs /\ e.state = 3 /\ e.parity = d.parity - 16 * ND!_dehex(c) /\ e.tag = d.tag
             /\ e.sentence = Append(d.sentence, c) /\ e.terms = d.terms /\ e.current = Append(d.current, c)
<1> DEFINE e == ND!FirstDigit(ND!Added(d, c), c)
           y == Append(d.sentence, c)
           z == Append(d.current, c)
           x == d.parity - 16 * ND!_dehex(c)
<1>1. y \in Seq(Int)
  BY DEF Decs
<1>2. z \in Texts
  BY DEF Decs, Texts
<1>3. x \in Int
  BY DEF Decs, ND!_dehex
<1>4. e = [d EXCEPT !.sentence = y, !.current = z, !.parity = x, !.state = 3]
  BY DEF ND!FirstDigit, ND!Added, Decs
<1>5. 3 \in 0 .. 3
  OBVIOUS
<1> HIDE DEF e, x, y, z
<1>6. /\ e \in Decs /\ e.state = 3 /\ e.parity = x /\ e.tag = d.tag
      /\ e.sentence = y /\ e.terms = d.terms /\ e.current = z
  BY <1>1, <1>2, <1>3, <1>4, <1>5 DEF Decs
<1> QED
  BY <1>6 DEF e, x, y, z

LEMMA SecondDigitFacts ==
  ASSUME NEW d \in Decs, NEW c \in Int
  PROVE  LET e == ND!SecondDigit(ND!Added(d, c), c)
         IN  /\ e.parity = d.parity - ND!_dehex(c) /\ e.tag = d.tag
             /\ e.sentence = Append(d.sentence, c) /\ e.terms = Append(d.terms, Append(d.current, c))
<1> DEFINE a == [ND!Added(d, c) EXCEPT !.current = Append(@, c)]
           b == ND!EndTerm(a)
           e == ND!SecondDigit(ND!Added(d, c), c)
           y == Append(d.sentence, c)
           z == Append(d.current, c)
<1>1. y \in Seq(Int)
  BY DEF Decs
<1>2. z \in Texts
  BY DEF Decs, Texts
<1>3. a = [d EXCEPT !.sentence = y, !.current = z]
  BY DEF ND!Added, Decs
<1> HIDE DEF y, z
<1>4. /\ a \in Decs /\ a.parity = d.parity /\ a.tag = d.tag /\ a.sentence = y /\ a.terms = d.terms /\ a.current = z
  <2> HIDE DEF a
  <2> QED
    BY <1>1, <1>2, <1>3 DEF Decs
<1>5. e = [b EXCEPT !.parity = @ - ND!_dehex(c), !.state = 0]
  BY DEF ND!SecondDigit
<1> HIDE DEF a, e
<1>6. /\ b \in Decs /\ b.parity = a.parity /\ b.tag = a.tag /\ b.sentence = a.sentence
      /\ b.terms = Append(a.terms, a.current)
  BY <1>4, EndTermFacts
<1> HIDE DEF b
<1>7. e.parity = b.parity - ND!_dehex(c) /\ e.tag = b.tag /\ e.sentence = b.sentence /\ e.terms = b.terms
  BY <1>5, <1>6 DEF Decs
<1>8. e.parity = d.parity - ND!_dehex(c) /\ e.tag = d.tag /\ e.sentence = y /\ e.terms = Append(d.terms, z)
  BY <1>4, <1>6, <1>7
<1> QED
  BY <1>8 DEF e, y, z
-----------------------------------------------------------------------------
\* Tagging counts the characters behind the dollar that are those of the tag: all of them, if
\* the text begins as the tag does.
Counted(begin, tag) ==
  LET k == IF Len(begin) < Len(GPRMC_TERM) THEN Len(begin) ELSE Len(GPRMC_TERM)
  IN  (\A i \in 2 .. k : begin[i] = GPRMC_TERM[i]) => tag = k - 1

Opening(body) == <<ND!Dollar>> \o body

\* Between the dollar and the star: what the parity, the terms and the tag say of the text.
Between(d, body) ==
  /\ d.state = 1
  /\ d.sentence = Opening(body)
  /\ d.parity = ND!ParityOf(body)
  /\ Append(d.terms, d.current) = ND!Split(body)
  /\ Counted(d.sentence, d.tag)

\* Behind the star and, if h is not empty, the first digit of the checksum.
Behind(d, body, h) ==
  /\ d.state = 2 + Len(h)
  /\ d.sentence = Append(Opening(body), ND!Star) \o h
  /\ d.parity = ND!ParityOf(body) - (IF h = <<>> THEN 0 ELSE 16 * ND!_dehex(h[1]))
  /\ d.terms = ND!Split(body)
  /\ d.current = h
  /\ Counted(Append(Opening(body), ND!Star), d.tag)

InText(d)  == \E body \in Seq(Int) : Between(d, body)
AtStar(d)  == \E body \in Seq(Int) : Behind(d, body, <<>>)
AtDigit(d) == \E body \in Seq(Int), h \in Int : Behind(d, body, <<h>>)

Explained(d) == d.state = 0 \/ InText(d) \/ AtStar(d) \/ AtDigit(d)

\* The inductive invariant.
DecInv ==
  /\ dec \in Decs
  /\ Explained(dec)
  /\ spoilt \in BOOLEAN
  /\ ND!ChecksumRight /\ ND!TermsAreSplit /\ ND!RmcIsThis /\ ND!OneBytePast

LEMMA CountedLonger ==
  ASSUME NEW d \in Decs, NEW c \in Int, d.sentence # <<>>, Counted(d.sentence, d.tag)
  PROVE  Counted(Append(d.sentence, c), NewTag(d, c))
<1> DEFINE s == d.sentence
           t == Append(s, c)
           n == Len(s)
           l == Len(GPRMC_TERM)
<1>1. n \in Nat \ {0} /\ l \in Nat \ {0} /\ Len(t) = n + 1 /\ t[n + 1] = c /\ \A i \in 1 .. n : t[i] = s[i]
  BY DecoderAssumption DEF Decs
<1>2. d.tag \in Int
  BY DEF Decs
<1>3. CASE n < l
  <2> SUFFICES ASSUME \A i \in 2 .. n + 1 : t[i] = GPRMC_TERM[i] PROVE NewTag(d, c) = (n + 1) - 1
    BY <1>1, <1>3 DEF Counted
  <2> HIDE DEF t
  <2>1. \A i \in 2 .. n : s[i] = GPRMC_TERM[i]
    BY <1>1
  <2>2. d.tag = n - 1
    BY <1>1, <1>3, <2>1 DEF Counted
  <2>3. GPRMC_TERM[n + 1] = c
    BY <1>1
  <2>4. NewTag(d, c) = d.tag + 1
    BY <1>3, <2>3 DEF NewTag
  <2> QED
    BY <1>1, <1>2, <2>2, <2>4
<1>4. CASE ~(n < l)
  <2> SUFFICES ASSUME \A i \in 2 .. l : t[i] = GPRMC_TERM[i] PROVE NewTag(d, c) = l - 1
    BY <1>1, <1>4 DEF Counted
  <2> HIDE DEF t
  <2>1. \A i \in 2 .. l : s[i] = GPRMC_TERM[i]
    BY <1>1, <1>4
  <2>2. d.tag = l - 1
    BY <1>1, <1>4, <2>1 DEF Counted
  <2> QED
    BY <1>4, <2>2 DEF NewTag
<1> QED
  BY <1>3, <1>4

LEMMA OpeningFacts ==
  ASSUME NEW body \in Seq(Int)
  PROVE  /\ Opening(body) \in Seq(Int) /\ Len(Opening(body)) = Len(body) + 1 /\ Opening(body)[1] = ND!Dollar
         /\ \A i \in 1 .. Len(body) : Opening(body)[i + 1] = body[i]
         /\ \A c \in Int : Opening(Append(body, c)) = Append(Opening(body), c)
<1>1. ND!Dollar \in Int
  BY DEF ND!Dollar
<1>2. /\ Opening(body) \in Seq(Int) /\ Len(Opening(body)) = Len(body) + 1 /\ Opening(body)[1] = ND!Dollar
      /\ \A i \in 1 .. Len(body) : Opening(body)[i + 1] = body[i]
  BY <1>1 DEF Opening
<1>3. ASSUME NEW c \in Int PROVE Opening(Append(body, c)) = Append(Opening(body), c)
  <2> DEFINE a == <<ND!Dollar>> \o Append(body, c)
             b == Append(<<ND!Dollar>> \o body, c)
  <2>1. a \in Seq(Int) /\ b \in Seq(Int) /\ Len(a) = Len(body) + 2 /\ Len(b) = Len(body) + 2
    BY <1>1
  <2>2. \A i \in 1 .. Len(body) + 2 : a[i] = b[i]
    <3> TAKE i \in 1 .. Len(body) + 2
    <3>1. CASE i = 1
      BY <1>1, <3>1
    <3>2. CASE i = Len(body) + 2
      BY <1>1, <3>2
    <3>3. CASE i # 1 /\ i # Len(body) + 2
      BY <1>1, <3>3
    <3> QED
      BY <3>1, <3>2, <3>3
  <2> HIDE DEF a, b
  <2>3. a = b
    BY <2>1, <2>2
  <2> QED
    BY <2>3 DEF a, b, Opening
<1> QED
  BY <1>2, <1>3

\* A character of the text, the star included.
LEMMA OneCharacter ==
  ASSUME NEW d \in Decs, NEW body \in Seq(Int), NEW c \in Int, Between(d, body)
  PROVE  LET e == ND!InSentence(ND!Added(ND!Tagged(d, c), c), c)
         IN  /\ e \in Decs
             /\ c = ND!Star => Behind(e, body, <<>>)
             /\ c # ND!Star => Between(e, Append(body, c))
<1> DEFINE a == ND!Added(ND!Tagged(d, c), c)
           e == ND!InSentence(a, c)
<1>1. /\ a \in Decs /\ a.state = d.state /\ a.parity = d.parity /\ a.tag = NewTag(d, c)
      /\ a.sentence = Append(d.sentence, c) /\ a.terms = d.terms /\ a.current = d.current
  BY TaggedFacts
<1> HIDE DEF a
<1>2. /\ e \in Decs /\ e.tag = a.tag /\ e.sentence = a.sentence
      /\ e.state = IF c = ND!Star THEN 2 ELSE a.state
      /\ e.parity = IF c = ND!Star THEN a.parity ELSE ND!Xor(a.parity, c)
      /\ e.terms = IF c \in {ND!Star, ND!Comma} THEN Append(a.terms, a.current) ELSE a.terms
      /\ e.current = IF c \in {ND!Star, ND!Comma} THEN <<>> ELSE Append(a.current, c)
  BY <1>1, InSentenceFacts
<1> HIDE DEF e
<1>3. d.sentence = Opening(body) /\ d.sentence # <<>> /\ Counted(d.sentence, d.tag)
  BY OpeningFacts DEF Between
<1>4. Counted(e.sentence, e.tag)
  BY <1>1, <1>2, <1>3, CountedLonger
<1>5. e.sentence = Append(Opening(body), c)
  BY <1>1, <1>2, <1>3
<1>6. ASSUME c = ND!Star PROVE Behind(e, body, <<>>)
  <2> DEFINE none == <<>>
  <2>1. e.state = 2 + Len(none)
    BY <1>2, <1>6
  <2>2. e.sentence = Append(Opening(body), ND!Star) \o none
    <3>1. Append(Opening(body), ND!Star) \in Seq(Int)
      BY OpeningFacts DEF ND!Star
    <3> DEFINE t == Append(Opening(body), ND!Star)
    <3> HIDE DEF t
    <3>2. t \o none = t
      BY <3>1 DEF t
    <3> QED
      BY <1>5, <1>6, <3>2 DEF t
  <2>3. e.parity = ND!ParityOf(body) - 0
    <3>1. ND!ParityOf(body) \in Int
      BY ParityFacts
    <3> QED
      BY <1>1, <1>2, <1>6, <3>1 DEF Between
  <2>4. e.terms = ND!Split(body) /\ e.current = none
    BY <1>1, <1>2, <1>6 DEF Between
  <2>5. Counted(Append(Opening(body), ND!Star), e.tag)
    BY <1>4, <1>5, <1>6
  <2> QED
    BY <2>1, <2>2, <2>3, <2>4, <2>5 DEF Behind
<1>7. ASSUME c # ND!Star PROVE Between(e, Append(body, c))
  <2>1. e.state = 1
    BY <1>1, <1>2, <1>7 DEF Between
  <2>2. e.sentence = Opening(Append(body, c))
    BY <1>5, OpeningFacts
  <2>3. e.parity = ND!ParityOf(Append(body, c))
    BY <1>1, <1>2, <1>7, ParityFacts DEF Between
  <2>4. Append(e.terms, e.current) = ND!Split(Append(body, c))
    <3>1. d.terms \in Seq(Texts) /\ d.current \in Texts
      BY DEF Decs
    <3>2. ND!Split(Append(body, c)) = Grown(Append(d.terms, d.current), c)
      BY SplitFacts DEF Between
    <3>3. Grown(Append(d.terms, d.current), c) =
            IF c = ND!Comma THEN Append(Append(d.terms, d.current), <<>>) ELSE Append(d.terms, Append(d.current, c))
      BY <3>1, GrownFacts
    <3>4. CASE c = ND!Comma
      <4>1. e.terms = Append(d.terms, d.current) /\ e.current = <<>>
        BY <1>1, <1>2, <3>4
      <4> QED
        BY <3>2, <3>3, <3>4, <4>1
    <3>5. CASE c # ND!Comma
      <4>1. e.terms = d.terms /\ e.current = Append(d.current, c)
        BY <1>1, <1>2, <1>7, <3>5
      <4> QED
        BY <3>2, <3>3, <3>5, <4>1
    <3> QED
      BY <3>4, <3>5
  <2> QED
    BY <1>4, <2>1, <2>2, <2>3, <2>4 DEF Between
<1> QED
  BY <1>2, <1>6, <1>7 DEF e, a

\* The first digit of a checksum.
LEMMA OneDigit ==
  ASSUME NEW d \in Decs, NEW body \in Seq(Int), NEW c \in Int, Behind(d, body, <<>>)
  PROVE  LET e == ND!FirstDigit(ND!Added(d, c), c) IN e \in Decs /\ Behind(e, body, <<c>>)
<1> DEFINE e == ND!FirstDigit(ND!Added(d, c), c)
           t == Append(Opening(body), ND!Star)
           none == <<>>
           one == <<c>>
<1>1. /\ e \in Decs /\ e.state = 3 /\ e.parity = d.parity - 16 * ND!_dehex(c) /\ e.tag = d.tag
      /\ e.sentence = Append(d.sentence, c) /\ e.terms = d.terms /\ e.current = Append(d.current, c)
  BY FirstDigitFacts
<1>2. t \in Seq(Int)
  BY OpeningFacts DEF ND!Star
<1> HIDE DEF e, t
<1>3. none = <<>> /\ one # <<>> /\ one = Append(none, c) /\ one[1] = c /\ Len(one) = 1
  OBVIOUS
<1>4. /\ d.sentence = t \o none /\ d.parity = ND!ParityOf(body) - 0 /\ d.terms = ND!Split(body) /\ d.current = none
      /\ Counted(t, d.tag)
  BY DEF Behind, t
<1>5. Append(t \o none, c) = t \o one
  <2>1. t \o none = t
    BY <1>2
  <2>2. t \o one = Append(t, c)
    BY <1>2
  <2> QED
    BY <2>1, <2>2
<1>6. ND!ParityOf(body) \in Int
  BY ParityFacts
<1> HIDE DEF none, one
<1>7. e.parity = ND!ParityOf(body) - (IF one = <<>> THEN 0 ELSE 16 * ND!_dehex(one[1]))
  BY <1>1, <1>3, <1>4, <1>6
<1>8. e.sentence = t \o one /\ e.current = one /\ e.state = 2 + Len(one)
  BY <1>1, <1>3, <1>4, <1>5
<1>9. Behind(e, body, one)
  BY <1>1, <1>4, <1>7, <1>8 DEF Behind, t
<1> QED
  BY <1>1, <1>9 DEF e, one

LEMMA PairOf ==
  ASSUME NEW v \in Seq(Int), Len(v) = 2
  PROVE  v = <<v[1], v[2]>>
  OBVIOUS

LEMMA OneAndTwo ==
  ASSUME NEW h \in Int, NEW c \in Int
  PROVE  <<h>>[1] = h /\ <<h>> # <<>> /\ Append(<<h>>, c) = <<h, c>>
<1> DEFINE v == Append(<<h>>, c)
<1>1. v \in Seq(Int) /\ Len(v) = 2 /\ v[1] = h /\ v[2] = c
  OBVIOUS
<1> HIDE DEF v
<1>2. v = <<v[1], v[2]>>
  BY <1>1, PairOf
<1>3. v = <<h, c>>
  BY <1>1, <1>2
<1>4. <<h>>[1] = h /\ <<h>> # <<>>
  OBVIOUS
<1> QED
  BY <1>3, <1>4 DEF v

LEMMA TextWithin ==
  ASSUME NEW w \in Seq(Int), NEW a \in Nat \ {0}, NEW b \in Nat, b <= Len(w), a <= b + 1
  PROVE  /\ SubSeq(w, a, b) \in Seq(Int) /\ Len(SubSeq(w, a, b)) = b + 1 - a
         /\ \A i \in 1 .. b + 1 - a : SubSeq(w, a, b)[i] = w[i + a - 1]
  OBVIOUS

\* The places of a whole sentence.
AllOf(body, h, c) == Append(Append(Opening(body), ND!Star) \o <<h>>, c)
Placed(w, body, h, c) ==
  /\ w \in Seq(Int) /\ Len(w) = Len(body) + 4
  /\ w[Len(w) - 1] = h /\ w[Len(w)] = c /\ w[Len(body) + 2] = ND!Star
  /\ \A i \in 1 .. Len(body) + 2 : w[i] = Append(Opening(body), ND!Star)[i]
  /\ SubSeq(w, 2, Len(w) - 3) = body
  /\ SubSeq(w, Len(w) - 1, Len(w)) = <<h, c>>

LEMMA WholeFacts ==
  ASSUME NEW body \in Seq(Int), NEW h \in Int, NEW c \in Int
  PROVE  Placed(AllOf(body, h, c), body, h, c)
<1> DEFINE n == Len(body)
           o == Opening(body)
           t == Append(o, ND!Star)
           u == t \o <<h>>
           w == Append(u, c)
<1>0. n \in Nat /\ ND!Star \in Int
  BY DEF ND!Star
<1>1. o \in Seq(Int) /\ Len(o) = n + 1 /\ \A i \in 1 .. n : o[i + 1] = body[i]
  BY OpeningFacts
<1> HIDE DEF o
<1>2. t \in Seq(Int) /\ Len(t) = n + 2 /\ t[n + 2] = ND!Star /\ \A i \in 1 .. n + 1 : t[i] = o[i]
  BY <1>0, <1>1
<1> HIDE DEF t
<1>3. u = Append(t, h)
  BY <1>2
<1> HIDE DEF u
<1>4. u \in Seq(Int) /\ Len(u) = n + 3 /\ u[n + 3] = h /\ \A i \in 1 .. n + 2 : u[i] = t[i]
  BY <1>0, <1>2, <1>3
<1>5. Len(body) = n
  OBVIOUS
<1> HIDE DEF n
<1>6. w \in Seq(Int) /\ Len(w) = n + 4 /\ w[n + 4] = c /\ \A i \in 1 .. n + 3 : w[i] = u[i]
  BY <1>0, <1>4
<1> HIDE DEF w
<1>7. \A i \in 1 .. n + 2 : w[i] = t[i]
  BY <1>0, <1>4, <1>6
<1>8. w[n + 3] = h /\ w[n + 2] = ND!Star
  BY <1>0, <1>2, <1>4, <1>6
<1>9. SubSeq(w, 2, n + 1) = body
  <2> DEFINE v == SubSeq(w, 2, n + 1)
  <2>1. v \in Seq(Int) /\ Len(v) = n /\ \A i \in 1 .. n : v[i] = w[i + 1]
    <3>1. n + 1 \in Nat /\ 2 \in Nat \ {0} /\ n + 1 <= Len(w) /\ 2 <= n + 1 + 1
      BY <1>0, <1>6
    <3>2. v \in Seq(Int) /\ Len(v) = n + 1 + 1 - 2 /\ \A i \in 1 .. n + 1 + 1 - 2 : v[i] = w[i + 2 - 1]
      BY <1>6, <3>1, TextWithin
    <3>3. n + 1 + 1 - 2 = n /\ \A i \in 1 .. n : i + 2 - 1 = i + 1
      BY <1>0
    <3> HIDE DEF v
    <3> QED
      BY <3>2, <3>3
  <2>2. \A i \in 1 .. n : w[i + 1] = body[i]
    <3> TAKE i \in 1 .. n
    <3>1. i + 1 \in 1 .. n + 2 /\ i + 1 \in 1 .. n + 1
      BY <1>0
    <3> QED
      BY <3>1, <1>1, <1>2, <1>7
  <2> HIDE DEF v
  <2>3. v = body
    <3>1. Len(v) = Len(body) /\ \A i \in 1 .. Len(v) : v[i] = body[i]
      BY <2>1, <2>2 DEF n
    <3> QED
      BY <2>1, <3>1, SeqEqual
  <2> QED
    BY <2>3 DEF v
<1>10. SubSeq(w, n + 3, n + 4) = <<h, c>>
  <2> DEFINE v == SubSeq(w, n + 3, n + 4)
  <2>1. v \in Seq(Int) /\ Len(v) = 2 /\ v[1] = w[n + 3] /\ v[2] = w[n + 4]
    <3>1. n + 4 \in Nat /\ n + 3 \in Nat \ {0} /\ n + 4 <= Len(w) /\ n + 3 <= n + 4 + 1
      BY <1>0, <1>6
    <3> DEFINE a == n + 3
               b == n + 4
    <3> HIDE DEF a, b
    <3>2. /\ SubSeq(w, a, b) \in Seq(Int) /\ Len(SubSeq(w, a, b)) = b + 1 - a
          /\ \A i \in 1 .. b + 1 - a : SubSeq(w, a, b)[i] = w[i + a - 1]
      BY <1>6, <3>1, TextWithin DEF a, b
    <3>3. b + 1 - a = 2 /\ 1 + a - 1 = a /\ 2 + a - 1 = b
      BY <1>0 DEF a, b
    <3>4. SubSeq(w, a, b)[1] = w[1 + a - 1] /\ SubSeq(w, a, b)[2] = w[2 + a - 1]
      <4>1. 1 \in 1 .. b + 1 - a /\ 2 \in 1 .. b + 1 - a
        BY <3>3
      <4> QED
        BY <3>2, <4>1
    <3>5. /\ SubSeq(w, a, b) \in Seq(Int) /\ Len(SubSeq(w, a, b)) = 2
          /\ SubSeq(w, a, b)[1] = w[a] /\ SubSeq(w, a, b)[2] = w[b]
      BY <3>2, <3>3, <3>4
    <3> QED
      BY <3>5 DEF a, b
  <2> HIDE DEF v
  <2>2. v = <<h, c>>
    <3>1. v = <<v[1], v[2]>>
      BY <2>1, PairOf
    <3> QED
      BY <1>6, <1>8, <2>1, <3>1
  <2> QED
    BY <2>2 DEF v
<1>11. Len(w) - 1 = n + 3 /\ Len(w) - 3 = n + 1
  BY <1>0, <1>6
<1> HIDE DEF t
<1>13. /\ w \in Seq(Int) /\ Len(w) = n + 4
       /\ w[Len(w) - 1] = h /\ w[Len(w)] = c /\ w[n + 2] = ND!Star
       /\ \A i \in 1 .. n + 2 : w[i] = t[i]
       /\ SubSeq(w, 2, Len(w) - 3) = body
       /\ SubSeq(w, Len(w) - 1, Len(w)) = <<h, c>>
  BY <1>6, <1>7, <1>8, <1>9, <1>10, <1>11
<1> QED
  BY <1>5, <1>13 DEF w, u, t, o, Placed, AllOf

\* The last character of a sentence.
LEMMA LastDigit ==
  ASSUME NEW d \in Decs, NEW body \in Seq(Int), NEW h \in Int, NEW c \in Int, Behind(d, body, <<h>>),
         decoded' = ND!Completed(ND!SecondDigit(ND!Added(d, c), c))
  PROVE  ND!ChecksumRight' /\ ND!TermsAreSplit' /\ ND!RmcIsThis'
<1> DEFINE e == ND!SecondDigit(ND!Added(d, c), c)
           t == Append(Opening(body), ND!Star)
           w == e.sentence
           one == <<h>>
           l == Len(GPRMC_TERM)
<1>1. /\ e.parity = d.parity - ND!_dehex(c) /\ e.tag = d.tag
      /\ e.sentence = Append(d.sentence, c) /\ e.terms = Append(d.terms, Append(d.current, c))
  BY SecondDigitFacts
<1>0. decoded' = ND!Completed(e)
  OBVIOUS
<1> HIDE DEF e, t
<1>2. one[1] = h /\ one # <<>> /\ Append(one, c) = <<h, c>>
  BY OneAndTwo
<1>3. /\ d.sentence = t \o one /\ d.parity = ND!ParityOf(body) - 16 * ND!_dehex(h)
      /\ d.terms = ND!Split(body) /\ d.current = one /\ Counted(t, d.tag)
  <2> HIDE DEF one
  <2> QED
    BY <1>2 DEF Behind, t, one
<1>4. w = Append(t \o one, c)
  BY <1>1, <1>3
<1>5. /\ w \in Seq(Int) /\ Len(w) = Len(body) + 4
      /\ w[Len(w) - 1] = h /\ w[Len(w)] = c /\ w[Len(body) + 2] = ND!Star
      /\ \A i \in 1 .. Len(body) + 2 : w[i] = t[i]
      /\ SubSeq(w, 2, Len(w) - 3) = body
      /\ SubSeq(w, Len(w) - 1, Len(w)) = <<h, c>>
  <2>1. w = AllOf(body, h, c)
    BY <1>4 DEF t, AllOf
  <2>2. Placed(AllOf(body, h, c), body, h, c)
    BY WholeFacts
  <2>3. Placed(w, body, h, c)
    BY <2>1, <2>2
  <2> HIDE DEF w
  <2> QED
    BY <2>3 DEF t, Placed
<1>6. e.terms = Append(ND!Split(body), SubSeq(w, Len(w) - 1, Len(w)))
  BY <1>1, <1>2, <1>3, <1>5
<1> HIDE DEF one
<1>7. CASE ~ND!Accepts(e)
  <2>1. decoded' = ND!NoSentence
    BY <1>0, <1>7 DEF ND!Completed
  <2>2. decoded'.sentence = <<>>
    BY <2>1 DEF ND!NoSentence
  <2>3. ND!Whole' = <<>>
    BY <2>2 DEF ND!Whole
  <2>4. ~(<<>> # <<>> /\ SubSeq(<<>>, 1, Len(GPRMC_TERM)) = GPRMC_TERM)
    OBVIOUS
  <2> QED
    BY <2>3, <2>4 DEF ND!ChecksumRight, ND!TermsAreSplit, ND!RmcIsThis
<1>8. CASE ND!Accepts(e)
  <2>1. decoded' = [sentence |-> w, terms |-> e.terms, rmc |-> ND!Rmc(e)]
    BY <1>0, <1>8 DEF ND!Completed, ND!TermsOf
  <2> HIDE DEF w
  <2>2. ND!Whole' = w /\ decoded'.terms = e.terms /\ decoded'.rmc = ND!Rmc(e)
    BY <2>1 DEF ND!Whole
  <2>3. ND!Body' = body
    BY <1>5, <2>2 DEF ND!Body
  <2>4. ND!ChecksumRight'
    <3>1. e.parity = 0
      BY <1>8 DEF ND!Accepts
    <3>2. ND!ParityOf(body) \in Int /\ ND!_dehex(h) \in Int /\ ND!_dehex(c) \in Int
      BY ParityFacts DEF ND!_dehex
    <3>3. ND!ParityOf(body) = 16 * ND!_dehex(h) + ND!_dehex(c)
      <4> DEFINE a == ND!ParityOf(body)
                 x == ND!_dehex(h)
                 y == ND!_dehex(c)
      <4>1. a - 16 * x - y = 0
        BY <1>1, <1>3, <3>1
      <4> HIDE DEF a, x, y
      <4>2. a \in Int /\ x \in Int /\ y \in Int
        BY <3>2 DEF a, x, y
      <4>3. a = 16 * x + y
        BY <4>1, <4>2
      <4> QED
        BY <4>3 DEF a, x, y
    <3> QED
      BY <1>5, <2>2, <2>3, <3>3 DEF ND!ChecksumRight
  <2>5. ND!TermsAreSplit'
    BY <1>6, <2>2, <2>3 DEF ND!TermsAreSplit
  <2>6. ND!RmcIsThis'
    <3> SUFFICES ASSUME SubSeq(w, 1, l) = GPRMC_TERM
                 PROVE  \A i \in RmcTerms : i < Len(e.terms) => ND!Rmc(e)[i] = e.terms[i + 1]
      BY <2>2 DEF ND!RmcIsThis
    <3>1. l \in Nat \ {0} /\ \A i \in 1 .. l : GPRMC_TERM[i] # ND!Star
      BY DecoderAssumption DEF ND!Star
    <3>2. \A i \in 1 .. l : GPRMC_TERM[i] = w[i]
      <4>1. \A i \in 1 .. l : SubSeq(w, 1, l)[i] = w[i]
        BY <3>1
      <4> QED
        BY <4>1
    <3>3. l < Len(body) + 2
      <4>1. Len(body) \in Nat /\ w[Len(body) + 2] = ND!Star
        BY <1>5
      <4> SUFFICES ASSUME Len(body) + 2 <= l PROVE FALSE
        BY <3>1, <4>1
      <4>2. Len(body) + 2 \in 1 .. l
        BY <3>1, <4>1
      <4> QED
        BY <3>1, <3>2, <4>1, <4>2
    <3>4. d.tag = l - 1
      <4>1. Len(t) = Len(body) + 2
        BY OpeningFacts DEF t, ND!Star
      <4>2. \A i \in 2 .. l : t[i] = GPRMC_TERM[i]
        <5> TAKE i \in 2 .. l
        <5>1. i \in 1 .. Len(body) + 2 /\ i \in 1 .. l
          BY <3>1, <3>3
        <5> QED
          BY <1>5, <3>2, <5>1
      <4> QED
        BY <1>3, <3>1, <3>3, <4>1, <4>2 DEF Counted
    <3>5. e.tag = l - 1
      BY <1>1, <3>4
    <3> QED
      BY <3>5 DEF ND!Rmc
  <2> QED
    BY <2>4, <2>5, <2>6
<1> QED
  BY <1>7, <1>8
-----------------------------------------------------------------------------
LEMMA DecInit == ND!Init => DecInv
<1> SUFFICES ASSUME ND!Init PROVE DecInv
  OBVIOUS
<1>1. dec = ND!Idle /\ decoded = ND!NoSentence /\ reach = ND!NothingWritten /\ spoilt = FALSE
  BY DEF ND!Init
<1>2. dec \in Decs /\ dec.state = 0
  <2>1. <<>> \in Seq(Int) /\ <<>> \in Seq(Texts) /\ <<>> \in Texts
    BY DEF Texts
  <2> QED
    BY <1>1, <2>1 DEF ND!Idle, Decs
<1>3. ND!Whole = <<>>
  BY <1>1 DEF ND!Whole, ND!NoSentence
<1>4. ND!OneBytePast
  BY <1>1, <1>2, DecoderAssumption DEF ND!OneBytePast, ND!NothingWritten
<1> QED
  BY <1>1, <1>2, <1>3, <1>4 DEF DecInv, Explained, ND!ChecksumRight, ND!TermsAreSplit, ND!RmcIsThis

\* The powers of ten.
Positive == Nat \ {0}

LEMMA TenIsPositive == \A a \in Positive : 10 * a \in Positive
  BY DEF Positive

PowerSteps(m, f) ==
  /\ f[0] = 1
  /\ \A k \in 1 .. m : f[k] = 10 * f[k - 1]

LEMMA PowerByStep ==
  ASSUME NEW m \in Nat
  PROVE  \E f \in [0 .. m -> Positive] : PowerSteps(m, f) /\ ND!Power(m) = f[m]
<1> DEFINE n == m
           first == 1
           g == [k \in 1 .. n |-> [a \in Positive |-> 10 * a]]
           e(f) == [k \in 0 .. n |-> IF k = 0 THEN first ELSE 10 * f[k - 1]]
           at[k \in 0 .. n] == IF k = 0 THEN 1
                               ELSE 10 * at[k - 1]
<1>1. n \in Nat 
  OBVIOUS
<1>0. first \in Positive
  BY DEF Positive
<1>2. g \in [1 .. n -> [Positive -> Positive]] /\ \A k \in 1 .. n, a \in Positive : g[k][a] = 10 * a
  BY <1>1, TenIsPositive
<1>3. at = CHOOSE f : f = e(f)
  OBVIOUS
<1>4. ND!Power(m) = at[n]
  BY DEF ND!Power
<1> HIDE DEF n, g, first
<1>5. PICK h \in [0 .. n -> Positive] : h[0] = first /\ \A k \in 1 .. n : h[k] = g[k][h[k - 1]]
  <2>1. g \in Steps(n, Positive)
    BY <1>1, <1>2 DEF Steps
  <2>2. Runs(n, Positive, first, g) # {}
    BY <1>0, <1>1, <2>1, StepByStep
  <2> QED
    BY <2>2 DEF Runs
<1>6. \A k \in 1 .. n : h[k - 1] \in Positive /\ h[k] = 10 * h[k - 1]
  <2> TAKE k \in 1 .. n
  <2>1. k - 1 \in 0 .. n
    BY <1>1
  <2>2. h[k - 1] \in Positive
    BY <2>1
  <2> QED
    BY <2>2, <1>2, <1>5
<1>7. e(h) = h
  BY <1>1, <1>5, <1>6
<1>8. at = e(at)
  <2> HIDE DEF e, at
  <2> QED
    BY <1>3, <1>7
<1> HIDE DEF at
<1>9. at[0] = first /\ \A k \in 1 .. n : at[k] = 10 * at[k - 1]
  BY <1>1, <1>8
<1>10. at \in [0 .. n -> Positive]
  <2> DEFINE S == {k \in 0 .. n : at[k] \in Positive}
  <2>1. 0 \in S
    BY <1>0, <1>1, <1>9
  <2>2. \A k \in 1 .. n : k - 1 \in S => k \in S
    <3> TAKE k \in 1 .. n
    <3> SUFFICES ASSUME at[k - 1] \in Positive PROVE at[k] \in Positive
      BY <1>1
    <3> QED
      BY <1>1, <1>9, TenIsPositive
  <2>3. 0 .. n \subseteq S
    <3> HIDE DEF S
    <3> QED
      BY <1>1, <2>1, <2>2, UpTo
  <2>4. at = [k \in 0 .. n |-> at[k]]
    BY <1>8
  <2> QED
    BY <2>3, <2>4
<1> QED
  BY <1>4, <1>9, <1>10 DEF PowerSteps, n, first

LEMMA PowerFacts ==
  ASSUME NEW m \in Nat
  PROVE  ND!Power(m) \in Positive /\ ND!Power(m + 1) = 10 * ND!Power(m) /\ ND!Power(0) = 1
<1>1. PICK f \in [0 .. m -> Positive] : PowerSteps(m, f) /\ ND!Power(m) = f[m]
  BY PowerByStep
<1>2. PICK h \in [0 .. m + 1 -> Positive] : PowerSteps(m + 1, h) /\ ND!Power(m + 1) = h[m + 1]
  <2> DEFINE l == m + 1
  <2>1. l \in Nat
    OBVIOUS
  <2> HIDE DEF l
  <2>2. \E h \in [0 .. l -> Positive] : PowerSteps(l, h) /\ ND!Power(l) = h[l]
    BY <2>1, PowerByStep
  <2> QED
    BY <2>2 DEF l
<1> DEFINE S == {k \in 0 .. m : h[k] = f[k]}
<1>3. 0 \in S
  <2>1. h[0] = f[0]
    BY <1>1, <1>2 DEF PowerSteps
  <2> QED
    BY <2>1
<1>4. \A k \in 1 .. m : k - 1 \in S => k \in S
  <2> TAKE k \in 1 .. m
  <2> SUFFICES ASSUME h[k - 1] = f[k - 1] PROVE h[k] = f[k]
    OBVIOUS
  <2>1. k \in 1 .. m + 1
    OBVIOUS
  <2> QED
    BY <1>1, <1>2, <2>1 DEF PowerSteps
<1>5. h[m] = f[m]
  <2>1. 0 .. m \subseteq S
    <3> HIDE DEF S
    <3> QED
      BY <1>3, <1>4, UpTo
  <2> QED
    BY <2>1
<1>6. h[m + 1] = 10 * h[m]
  <2>1. m + 1 \in 1 .. m + 1 /\ (m + 1) - 1 = m
    OBVIOUS
  <2> QED
    BY <1>2, <2>1 DEF PowerSteps
<1>7. ND!Power(0) = 1
  <2> DEFINE z == 0
  <2>1. z \in Nat
    OBVIOUS
  <2> HIDE DEF z
  <2>2. PICK f0 \in [0 .. z -> Positive] : PowerSteps(z, f0) /\ ND!Power(z) = f0[z]
    BY <2>1, PowerByStep
  <2> QED
    BY <2>2 DEF PowerSteps, z
<1>8. f[m] \in Positive
  OBVIOUS
<1> QED
  BY <1>1, <1>2, <1>5, <1>6, <1>7, <1>8
-----------------------------------------------------------------------------
\* What a character adds to the value of a number.
Worth(s, k) == IF k \in ND!DigitsOf(s) THEN ND!Place(s, k) * (s[k] - ND!Zero) ELSE 0

LEMMA PointFacts ==
  ASSUME NEW s \in Seq(Int)
  PROVE  /\ ND!PointOf(s) \in 1 .. Len(s) + 1
         /\ ND!PointOf(s) <= Len(s) => s[ND!PointOf(s)] = ND!Dot
         /\ ND!PointOf(s) = Len(s) + 1 => \A i \in 1 .. Len(s) : s[i] # ND!Dot
<1>1. Len(s) \in Nat
  OBVIOUS
<1>2. CASE \E i \in 1 .. Len(s) : s[i] = ND!Dot
  <2>1. ND!PointOf(s) = CHOOSE i \in 1 .. Len(s) : s[i] = ND!Dot
    BY <1>2 DEF ND!PointOf
  <2>2. ND!PointOf(s) \in 1 .. Len(s) /\ s[ND!PointOf(s)] = ND!Dot
    BY <1>2, <2>1
  <2> QED
    BY <1>1, <2>2
<1>3. CASE ~\E i \in 1 .. Len(s) : s[i] = ND!Dot
  <2>1. ND!PointOf(s) = Len(s) + 1
    BY <1>3 DEF ND!PointOf
  <2> QED
    BY <1>1, <1>3, <2>1
<1> QED
  BY <1>2, <1>3

LEMMA WorthIsInt == \A s \in Seq(Int) : \A k \in 1 .. Len(s) : Worth(s, k) \in Int
<1> SUFFICES ASSUME NEW s \in Seq(Int), NEW k \in 1 .. Len(s) PROVE Worth(s, k) \in Int
  OBVIOUS
<1> DEFINE p == ND!PointOf(s)
<1>1. p \in Nat /\ k \in Nat /\ s[k] \in Int
  BY PointFacts
<1> HIDE DEF p
<1>2. ND!Place(s, k) \in Int
  <2>1. CASE k < p
    <3>1. p - 1 - k \in Nat
      BY <1>1, <2>1
    <3>2. ND!Power(p - 1 - k) \in Positive
      BY <3>1, PowerFacts
    <3>3. ND!Place(s, k) = ND!Unit * ND!Power(p - 1 - k)
      BY <2>1 DEF ND!Place, p
    <3> QED
      BY <3>2, <3>3 DEF Positive, ND!Unit
  <2>2. CASE ~(k < p)
    <3>1. k - p \in Nat
      BY <1>1, <2>2
    <3>2. ND!Power(k - p) \in Positive
      BY <3>1, PowerFacts
    <3>3. ND!Place(s, k) = ND!Unit \div ND!Power(k - p)
      BY <2>2 DEF ND!Place, p
    <3> QED
      BY <3>2, <3>3 DEF Positive, ND!Unit
  <2> QED
    BY <2>1, <2>2
<1> HIDE DEF p
<1>3. ND!Place(s, k) * (s[k] - ND!Zero) \in Int
  BY <1>1, <1>2 DEF ND!Zero
<1> QED
  BY <1>3 DEF Worth

SumSteps(s, f) ==
  /\ f[0] = 0
  /\ \A k \in 1 .. Len(s) : f[k] = f[k - 1] + Worth(s, k)

LEMMA SumByStep ==
  ASSUME NEW s \in Seq(Int)
  PROVE  \E f \in [0 .. Len(s) -> Int] : SumSteps(s, f) /\ ND!Value(s) = f[Len(s)]
<1> DEFINE n == Len(s)
           first == 0
           g == [k \in 1 .. n |-> [a \in Int |-> a + Worth(s, k)]]
           e(f) == [k \in 0 .. n |-> IF k = 0 THEN first ELSE f[k - 1] + Worth(s, k)]
           at[k \in 0 .. n] == IF k = 0 THEN 0
                               ELSE at[k - 1]
                                    + (IF k \in ND!DigitsOf(s) THEN ND!Place(s, k) * (s[k] - ND!Zero) ELSE 0)
<1>1. n \in Nat /\ \A k \in 1 .. n : Worth(s, k) \in Int
  BY WorthIsInt
<1>0. first \in Int
  OBVIOUS
<1>2. g \in [1 .. n -> [Int -> Int]] /\ \A k \in 1 .. n, a \in Int : g[k][a] = a + Worth(s, k)
  BY <1>1, WorthIsInt
<1>3. at = CHOOSE f : f = e(f)
  BY DEF Worth
<1>4. ND!Value(s) = at[n]
  BY DEF ND!Value
<1> HIDE DEF n, g, first
<1>5. PICK h \in [0 .. n -> Int] : h[0] = first /\ \A k \in 1 .. n : h[k] = g[k][h[k - 1]]
  <2>1. g \in Steps(n, Int)
    BY <1>1, <1>2 DEF Steps
  <2>2. Runs(n, Int, first, g) # {}
    BY <1>0, <1>1, <2>1, StepByStep
  <2> QED
    BY <2>2 DEF Runs
<1>6. \A k \in 1 .. n : h[k - 1] \in Int /\ h[k] = h[k - 1] + Worth(s, k)
  <2> TAKE k \in 1 .. n
  <2>1. k - 1 \in 0 .. n
    BY <1>1
  <2>2. h[k - 1] \in Int
    BY <2>1
  <2> QED
    BY <2>2, <1>2, <1>5
<1>7. e(h) = h
  BY <1>1, <1>5, <1>6
<1>8. at = e(at)
  <2> HIDE DEF e, at
  <2> QED
    BY <1>3, <1>7
<1> HIDE DEF at
<1>9. at[0] = first /\ \A k \in 1 .. n : at[k] = at[k - 1] + Worth(s, k)
  BY <1>1, <1>8
<1>10. at \in [0 .. n -> Int]
  <2> DEFINE S == {k \in 0 .. n : at[k] \in Int}
  <2>1. 0 \in S
    BY <1>0, <1>1, <1>9
  <2>2. \A k \in 1 .. n : k - 1 \in S => k \in S
    <3> TAKE k \in 1 .. n
    <3> SUFFICES ASSUME at[k - 1] \in Int PROVE at[k] \in Int
      BY <1>1
    <3> QED
      BY <1>1, <1>9, WorthIsInt
  <2>3. 0 .. n \subseteq S
    <3> HIDE DEF S
    <3> QED
      BY <1>1, <2>1, <2>2, UpTo
  <2>4. at = [k \in 0 .. n |-> at[k]]
    BY <1>8
  <2> QED
    BY <2>3, <2>4
<1> QED
  BY <1>4, <1>9, <1>10 DEF SumSteps, n, first
-----------------------------------------------------------------------------
\* What _decimal has read.
Readings == [rl : Int, rr : Int, rb : Int]

LEMMA LongFacts ==
  ASSUME NEW x \in Int
  PROVE  ND!Long(x) \in Int /\ (x \in 0 .. LongLimit - 1 => ND!Long(x) = x)
<1>1. LongLimit \in Nat \ {0}
  BY DecoderAssumption
<1>2. (x + LongLimit) % (2 * LongLimit) \in Int
  <2>1. 2 * LongLimit \in Nat \ {0} /\ x + LongLimit \in Int
    BY <1>1
  <2> DEFINE m == 2 * LongLimit
             y == x + LongLimit
  <2> HIDE DEF m, y
  <2>2. y % m \in Int
    BY <2>1 DEF m, y
  <2> QED
    BY <2>2 DEF m, y
<1>3. x \in 0 .. LongLimit - 1 => x \in -LongLimit .. LongLimit - 1
  BY <1>1
<1> QED
  BY <1>1, <1>2, <1>3 DEF ND!Long

LEMMA DigitFacts ==
  ASSUME NEW v \in Readings, NEW c \in Int
  PROVE  LET e == ND!Digit(v, c)
         IN  /\ e \in Readings
             /\ c = ND!Dot => e.rl = v.rl /\ e.rr = v.rr /\ e.rb = IF v.rb = 0 THEN 10 ELSE v.rb
             /\ c # ND!Dot /\ v.rb = 0 => e.rl = ND!Long(10 * v.rl + c - 48) /\ e.rr = v.rr /\ e.rb = 0
             /\ c # ND!Dot /\ v.rb # 0 =>
                  e.rl = v.rl /\ e.rr = v.rr + v.rb * (c - 48) /\ e.rb = v.rb \div 10
<1> DEFINE e == ND!Digit(v, c)
<1>0. v.rl \in Int /\ v.rr \in Int /\ v.rb \in Int
  BY DEF Readings
<1>1. CASE c = ND!Dot
  <2> DEFINE x == IF v.rb = 0 THEN 10 ELSE v.rb
  <2>1. x \in Int
    BY <1>0
  <2>2. e = [v EXCEPT !.rb = x]
    BY <1>1 DEF ND!Digit, ND!Unit
  <2> HIDE DEF e, x
  <2>3. e \in Readings /\ e.rl = v.rl /\ e.rr = v.rr /\ e.rb = x
    BY <2>1, <2>2 DEF Readings
  <2> QED
    BY <1>1, <2>3 DEF e, x
<1>2. CASE c # ND!Dot /\ v.rb = 0
  <2> DEFINE x == ND!Long(10 * v.rl + c - 48)
  <2>1. x \in Int
    BY <1>0, LongFacts
  <2>2. e = [v EXCEPT !.rl = x]
    BY <1>2 DEF ND!Digit, ND!Zero
  <2> HIDE DEF e, x
  <2>3. e \in Readings /\ e.rl = x /\ e.rr = v.rr /\ e.rb = v.rb
    BY <2>1, <2>2 DEF Readings
  <2> QED
    BY <1>2, <2>3 DEF e, x
<1>3. CASE c # ND!Dot /\ v.rb # 0
  <2> DEFINE x == v.rr + v.rb * (c - 48)
             y == v.rb \div 10
  <2>1. x \in Int /\ y \in Int
    BY <1>0
  <2>2. e = [v EXCEPT !.rr = x, !.rb = y]
    BY <1>3 DEF ND!Digit, ND!Zero
  <2> HIDE DEF e, x, y
  <2>3. e \in Readings /\ e.rl = v.rl /\ e.rr = x /\ e.rb = y
    BY <2>1, <2>2 DEF Readings
  <2> QED
    BY <1>3, <2>3 DEF e, x, y
<1> QED
  BY <1>1, <1>2, <1>3

LEMMA DigitIsReading == \A v \in Readings, c \in Int : ND!Digit(v, c) \in Readings
  BY DigitFacts

ReadingSteps(s, f) ==
  /\ f[0] = [rl |-> 0, rr |-> 0, rb |-> 0]
  /\ \A k \in 1 .. Len(s) : f[k] = ND!Digit(f[k - 1], s[k])

LEMMA ReadingByStep ==
  ASSUME NEW s \in Seq(Int)
  PROVE  \E f \in [0 .. Len(s) -> Readings] :
            ReadingSteps(s, f) /\ ND!Decimal(s) = ND!Unit * f[Len(s)].rl + f[Len(s)].rr
<1> DEFINE n == Len(s)
           first == [rl |-> 0, rr |-> 0, rb |-> 0]
           g == [k \in 1 .. n |-> [a \in Readings |-> ND!Digit(a, s[k])]]
           e(f) == [k \in 0 .. n |-> IF k = 0 THEN first ELSE ND!Digit(f[k - 1], s[k])]
           at[k \in 0 .. n] == IF k = 0 THEN [rl |-> 0, rr |-> 0, rb |-> 0]
                               ELSE ND!Digit(at[k - 1], s[k])
<1>1. n \in Nat /\ \A k \in 1 .. n : s[k] \in Int
  OBVIOUS
<1>0. first \in Readings
  BY DEF Readings
<1>2. g \in [1 .. n -> [Readings -> Readings]] /\ \A k \in 1 .. n, a \in Readings : g[k][a] = ND!Digit(a, s[k])
  BY <1>1, DigitIsReading
<1>3. at = CHOOSE f : f = e(f)
  OBVIOUS
<1>4. ND!Decimal(s) = ND!Unit * at[n].rl + at[n].rr
  BY DEF ND!Decimal
<1> HIDE DEF n, g, first
<1>5. PICK h \in [0 .. n -> Readings] : h[0] = first /\ \A k \in 1 .. n : h[k] = g[k][h[k - 1]]
  <2>1. g \in Steps(n, Readings)
    BY <1>1, <1>2 DEF Steps
  <2>2. Runs(n, Readings, first, g) # {}
    BY <1>0, <1>1, <2>1, StepByStep
  <2> QED
    BY <2>2 DEF Runs
<1>6. \A k \in 1 .. n : h[k - 1] \in Readings /\ h[k] = ND!Digit(h[k - 1], s[k])
  <2> TAKE k \in 1 .. n
  <2>1. k - 1 \in 0 .. n
    BY <1>1
  <2>2. h[k - 1] \in Readings
    BY <2>1
  <2> QED
    BY <2>2, <1>2, <1>5
<1>7. e(h) = h
  BY <1>1, <1>5, <1>6
<1>8. at = e(at)
  <2> HIDE DEF e, at
  <2> QED
    BY <1>3, <1>7
<1> HIDE DEF at
<1>9. at[0] = first /\ \A k \in 1 .. n : at[k] = ND!Digit(at[k - 1], s[k])
  BY <1>1, <1>8
<1>10. at \in [0 .. n -> Readings]
  <2> DEFINE S == {k \in 0 .. n : at[k] \in Readings}
  <2>1. 0 \in S
    BY <1>0, <1>1, <1>9
  <2>2. \A k \in 1 .. n : k - 1 \in S => k \in S
    <3> TAKE k \in 1 .. n
    <3> SUFFICES ASSUME at[k - 1] \in Readings PROVE at[k] \in Readings
      BY <1>1
    <3> QED
      BY <1>1, <1>9, DigitIsReading
  <2>3. 0 .. n \subseteq S
    <3> HIDE DEF S
    <3> QED
      BY <1>1, <2>1, <2>2, UpTo
  <2>4. at = [k \in 0 .. n |-> at[k]]
    BY <1>8
  <2> QED
    BY <2>3, <2>4
<1> QED
  BY <1>4, <1>9, <1>10 DEF ReadingSteps, n, first

\* The text s is a number and t what _decimal reads of it: all but its sign.
ReadOf(s, t, b) ==
  /\ s \in Seq(Int) /\ t \in Seq(Int) /\ ND!IsNumber(s)
  /\ b \in {0, 1} /\ Len(s) = Len(t) + b
  /\ \A n \in 1 .. Len(t) : t[n] = s[n + b]
  /\ b = 1 => s[1] \in {ND!Plus, ND!Minus}
  /\ b = 0 /\ Len(s) > 0 => s[1] \notin {ND!Plus, ND!Minus}

\* Its digits and its point q.
Shaped(s, b, q) ==
  /\ q \in b + 1 .. Len(s) + 1 /\ Len(s) <= q + 2
  /\ \A i \in b + 1 .. Len(s) : i # q => i \in ND!DigitsOf(s) /\ s[i] # ND!Dot /\ s[i] \in Nat /\ s[i] >= 48
  /\ q <= Len(s) => s[q] = ND!Dot /\ q \notin ND!DigitsOf(s)
  /\ b = 1 => 1 \notin ND!DigitsOf(s) /\ Len(s) > 0

LEMMA NumberFacts ==
  ASSUME NEW s, NEW t, NEW b, ReadOf(s, t, b)
  PROVE  Shaped(s, b, ND!PointOf(s))
<1> DEFINE q == ND!PointOf(s)
<1>1. s \in Seq(Int) /\ Len(s) \in Nat /\ b \in {0, 1} /\ Len(t) \in Nat /\ Len(s) = Len(t) + b
  BY DEF ReadOf
<1>2. q \in 1 .. Len(s) + 1 /\ (q <= Len(s) => s[q] = ND!Dot)
  BY <1>1, PointFacts
<1>3. b = 1 => s[1] \in {ND!Plus, ND!Minus}
  BY DEF ReadOf
<1>4. b = 0 /\ Len(s) > 0 => s[1] \notin {ND!Plus, ND!Minus}
  BY DEF ReadOf
<1>5. \A i \in 1 .. Len(s) : i \in ND!DigitsOf(s) \/ i = q \/ (i = 1 /\ s[i] \in {ND!Plus, ND!Minus})
  BY DEF ReadOf, ND!IsNumber
<1>6. Len(s) - q <= 2
  BY DEF ReadOf, ND!IsNumber
<1> HIDE DEF q
<1>7. \A i \in 1 .. Len(s) : i \in ND!DigitsOf(s) <=> s[i] \in 48 .. 57
  BY DEF ND!DigitsOf, ND!Zero
<1>8. b = 1 => q # 1 /\ 1 \notin ND!DigitsOf(s) /\ Len(s) > 0
  <2> SUFFICES ASSUME b = 1 PROVE q # 1 /\ 1 \notin ND!DigitsOf(s) /\ Len(s) > 0
    OBVIOUS
  <2>1. Len(s) > 0 /\ 1 \in 1 .. Len(s)
    BY <1>1
  <2>2. s[1] \in {43, 45}
    BY <1>3 DEF ND!Plus, ND!Minus
  <2>3. q = 1 => s[1] = 46
    BY <1>2, <2>1 DEF ND!Dot
  <2>4. 1 \notin ND!DigitsOf(s)
    BY <1>7, <2>1, <2>2
  <2> QED
    BY <2>1, <2>2, <2>3, <2>4
<1>9. ASSUME NEW i \in b + 1 .. Len(s), i # q
      PROVE  i \in ND!DigitsOf(s) /\ s[i] # ND!Dot /\ s[i] \in Nat /\ s[i] >= 48
  <2>1. i \in 1 .. Len(s) /\ (i = 1 => b = 0 /\ Len(s) > 0)
    BY <1>1
  <2>2. i \in ND!DigitsOf(s)
    BY <1>4, <1>5, <1>9, <2>1
  <2> QED
    BY <1>7, <2>1, <2>2 DEF ND!Dot
<1>10. q <= Len(s) => s[q] = ND!Dot /\ q \notin ND!DigitsOf(s)
  BY <1>2, <1>7 DEF ND!Dot
<1>11. q \in b + 1 .. Len(s) + 1
  BY <1>1, <1>2, <1>8
<1>12. Len(s) <= q + 2
  BY <1>1, <1>2, <1>6
<1> QED
  BY <1>8, <1>9, <1>10, <1>11, <1>12 DEF Shaped, q

\* What each place adds.
Adds(s, i, q) ==
  /\ i < q => Worth(s, i) = 100 * ND!Power(q - 1 - i) * (s[i] - 48)
  /\ i = q => Worth(s, i) = 0
  /\ i = q + 1 => Worth(s, i) = 10 * (s[i] - 48)
  /\ i = q + 2 => Worth(s, i) = s[i] - 48

LEMMA WorthFacts ==
  ASSUME NEW s, NEW t, NEW b, ReadOf(s, t, b), NEW i \in b + 1 .. Len(s)
  PROVE  Adds(s, i, ND!PointOf(s))
<1> DEFINE q == ND!PointOf(s)
<1>0. Shaped(s, b, q)
  BY NumberFacts
<1>5. i < q => ND!Place(s, i) = 100 * ND!Power(q - 1 - i)
  BY DEF ND!Place, ND!Unit
<1>6. ~(i < q) => ND!Place(s, i) = 100 \div ND!Power(i - q)
  BY DEF ND!Place, ND!Unit
<1> HIDE DEF q
<1>1. q \in Nat /\ i \in Nat /\ Len(s) \in Nat /\ b \in {0, 1}
  <2>1. s \in Seq(Int) /\ b \in {0, 1}
    BY DEF ReadOf
  <2>2. q \in b + 1 .. Len(s) + 1
    BY <1>0 DEF Shaped
  <2> QED
    BY <2>1, <2>2
<1>2. i # q => i \in ND!DigitsOf(s) /\ s[i] \in Int
  BY <1>0 DEF Shaped
<1>3. i = q => i \notin ND!DigitsOf(s)
  BY <1>0, <1>1 DEF Shaped
<1>4. i # q => Worth(s, i) = ND!Place(s, i) * (s[i] - 48)
  BY <1>2 DEF Worth, ND!Zero
<1>7. ND!Power(0) = 1 /\ ND!Power(0 + 1) = 10 * ND!Power(0) /\ ND!Power(1 + 1) = 10 * ND!Power(1)
  BY PowerFacts
<1>8. ND!Power(1) = 10 /\ ND!Power(2) = 100
  BY <1>7
<1>9. i < q => Worth(s, i) = 100 * ND!Power(q - 1 - i) * (s[i] - 48)
  BY <1>1, <1>4, <1>5
<1>10. i = q + 1 => Worth(s, i) = 10 * (s[i] - 48)
  <2> SUFFICES ASSUME i = q + 1 PROVE Worth(s, i) = 10 * (s[i] - 48)
    OBVIOUS
  <2>1. i - q = 1 /\ ~(i < q) /\ i # q
    BY <1>1
  <2>2. ND!Place(s, i) = 100 \div 10
    BY <1>6, <1>8, <2>1
  <2>3. 100 \div 10 = 10
    OBVIOUS
  <2> QED
    BY <1>4, <2>1, <2>2, <2>3
<1>11. i = q + 2 => Worth(s, i) = s[i] - 48
  <2> SUFFICES ASSUME i = q + 2 PROVE Worth(s, i) = s[i] - 48
    OBVIOUS
  <2>1. i - q = 2 /\ ~(i < q) /\ i # q
    BY <1>1
  <2>2. ND!Place(s, i) = 100 \div 100
    BY <1>6, <1>8, <2>1
  <2>3. 100 \div 100 = 1
    OBVIOUS
  <2>4. Worth(s, i) = 1 * (s[i] - 48)
    BY <1>4, <2>1, <2>2, <2>3
  <2> QED
    BY <1>2, <2>1, <2>4
<1>12. i = q => Worth(s, i) = 0
  BY <1>3 DEF Worth
<1> QED
  BY <1>9, <1>10, <1>11, <1>12 DEF Adds, q

\* _decimal, digit by digit, and the sum of the places agree behind every character.
Agree(v, total, m, q) ==
  /\ v \in Readings /\ total \in Int /\ v.rl >= 0
  /\ m < q => v.rb = 0 /\ v.rr = 0 /\ total = 100 * ND!Power(q - 1 - m) * v.rl
  /\ m >= q => /\ total = 100 * v.rl + v.rr
               /\ v.rb = IF m = q THEN 10 ELSE IF m = q + 1 THEN 1 ELSE 0

LEMMA AgreeLonger ==
  ASSUME NEW s, NEW t, NEW b, ReadOf(s, t, b), NEW i \in b + 1 .. Len(s), NEW v, NEW total,
         Agree(v, total, i - 1, ND!PointOf(s)), total + Worth(s, i) < 100 * LongLimit
  PROVE  Agree(ND!Digit(v, s[i]), total + Worth(s, i), i, ND!PointOf(s))
<1> DEFINE q == ND!PointOf(s)
           c == s[i]
           w == Worth(s, i)
           e == ND!Digit(v, c)
<1>0. Shaped(s, b, q) /\ Adds(s, i, q) /\ Agree(v, total, i - 1, q)
  BY NumberFacts, WorthFacts
<1> HIDE DEF q
<1>1. s \in Seq(Int) /\ b \in {0, 1} /\ Len(s) \in Nat
  BY DEF ReadOf
<1>2. q \in Nat /\ q >= 1 /\ i \in Nat /\ i >= 1 /\ i <= q + 2 /\ i <= Len(s)
  <2>1. q \in b + 1 .. Len(s) + 1 /\ Len(s) <= q + 2
    BY <1>0 DEF Shaped
  <2> QED
    BY <1>1, <2>1
<1>3. c \in Int /\ w \in Int
  <2>1. i \in 1 .. Len(s)
    BY <1>2
  <2> QED
    BY <1>1, <2>1, WorthIsInt
<1>4. i # q => c # ND!Dot /\ c >= 48
  BY <1>0 DEF Shaped
<1>5. i = q => c = ND!Dot
  BY <1>0, <1>2 DEF Shaped
<1>6. v \in Readings /\ total \in Int /\ v.rl \in Int /\ v.rl >= 0 /\ v.rr \in Int /\ v.rb \in Int
  BY <1>0 DEF Agree, Readings
<1> HIDE DEF c
<1>7. /\ e \in Readings
      /\ c = ND!Dot => e.rl = v.rl /\ e.rr = v.rr /\ e.rb = IF v.rb = 0 THEN 10 ELSE v.rb
      /\ c # ND!Dot /\ v.rb = 0 => e.rl = ND!Long(10 * v.rl + c - 48) /\ e.rr = v.rr /\ e.rb = 0
      /\ c # ND!Dot /\ v.rb # 0 => e.rl = v.rl /\ e.rr = v.rr + v.rb * (c - 48) /\ e.rb = v.rb \div 10
  BY <1>3, <1>6, DigitFacts
<1> HIDE DEF e, w
<1>8. total + w \in Int /\ total + w < 100 * LongLimit /\ LongLimit \in Nat
  BY <1>3, <1>6, DecoderAssumption DEF w
<1>9. CASE i < q
  <2>1. v.rb = 0 /\ v.rr = 0 /\ total = 100 * ND!Power(q - 1 - (i - 1)) * v.rl
    BY <1>0, <1>2, <1>9 DEF Agree
  <2>2. e.rl = ND!Long(10 * v.rl + c - 48) /\ e.rr = 0 /\ e.rb = 0
    BY <1>2, <1>4, <1>7, <1>9, <2>1
  <2> DEFINE k == q - 1 - i
             p == ND!Power(k)
  <2>3. k \in Nat /\ q - 1 - (i - 1) = k + 1
    BY <1>2, <1>9
  <2>4. w = 100 * p * (c - 48)
    BY <1>0, <1>9 DEF Adds, w, c
  <2>5. total = 100 * ND!Power(k + 1) * v.rl
    BY <2>1, <2>3
  <2> HIDE DEF k
  <2>6. p \in Positive /\ ND!Power(k + 1) = 10 * p
    BY <2>3, PowerFacts
  <2> HIDE DEF p
  <2> DEFINE x == 10 * v.rl + c - 48
  <2>9. x \in Int /\ x >= 0 /\ p \in Int /\ p >= 1
    BY <1>2, <1>3, <1>4, <1>6, <1>9, <2>6 DEF Positive
  <2>10. total + w = 100 * p * x
    <3>1. total = 100 * (10 * p) * v.rl
      BY <2>5, <2>6
    <3> DEFINE y == v.rl
    <3>2. y \in Int /\ p \in Int /\ c \in Int
      BY <1>3, <1>6, <2>6 DEF Positive
    <3>3. 100 * (10 * p) * y + 100 * p * (c - 48) = 100 * p * (10 * y + c - 48)
      <4> HIDE DEF y
      <4> QED
        BY <3>2
    <3> QED
      BY <2>4, <3>1, <3>3
  <2>11. x \in 0 .. LongLimit - 1
    <3> HIDE DEF x
    <3>1. p * x >= x
      BY <2>9
    <3>2. 100 * x <= 100 * p * x
      BY <2>9, <3>1
    <3> QED
      BY <1>8, <2>9, <2>10, <3>2
  <2>12. e.rl = x
    BY <2>2, <2>9, <2>11, LongFacts
  <2> HIDE DEF x
  <2>7. total + w = 100 * p * e.rl /\ e.rl >= 0
    BY <2>9, <2>10, <2>12
  <2>8. Agree(e, total + w, i, q)
    BY <1>2, <1>7, <1>8, <1>9, <2>2, <2>7 DEF Agree, p, k
  <2> QED
    BY <2>8 DEF e, w, c, q
<1>10. CASE i = q
  <2>1. v.rb = 0 /\ v.rr = 0 /\ total = 100 * ND!Power(q - 1 - (i - 1)) * v.rl
    BY <1>0, <1>2, <1>10 DEF Agree
  <2>2. ND!Power(0) = 1
    BY PowerFacts
  <2>3. q - 1 - (i - 1) = 0
    BY <1>2, <1>10
  <2>4. total = 100 * v.rl
    BY <1>6, <2>1, <2>2, <2>3
  <2>5. w = 0
    BY <1>0, <1>10 DEF Adds, w
  <2>6. e.rl = v.rl /\ e.rr = 0 /\ e.rb = 10
    BY <1>5, <1>7, <1>10, <2>1
  <2>7. total + w = 100 * e.rl + e.rr
    BY <1>6, <2>4, <2>5, <2>6
  <2>8. Agree(e, total + w, i, q)
    BY <1>2, <1>6, <1>7, <1>8, <1>10, <2>6, <2>7 DEF Agree
  <2> QED
    BY <2>8 DEF e, w, c, q
<1>11. CASE i = q + 1
  <2>1. v.rb = 10 /\ total = 100 * v.rl + v.rr
    BY <1>0, <1>2, <1>11 DEF Agree
  <2>2. e.rl = v.rl /\ e.rr = v.rr + 10 * (c - 48) /\ e.rb = 1
    <3>1. 10 \div 10 = 1 /\ i # q
      BY <1>2, <1>11
    <3> QED
      BY <1>4, <1>7, <2>1, <3>1
  <2>3. w = 10 * (c - 48)
    BY <1>0, <1>11 DEF Adds, w, c
  <2>4. total + w = 100 * e.rl + e.rr
    BY <1>3, <1>6, <2>1, <2>2, <2>3
  <2>5. Agree(e, total + w, i, q)
    BY <1>2, <1>6, <1>7, <1>8, <1>11, <2>2, <2>4 DEF Agree
  <2> QED
    BY <2>5 DEF e, w, c, q
<1>12. CASE i = q + 2
  <2>1. v.rb = 1 /\ total = 100 * v.rl + v.rr
    BY <1>0, <1>2, <1>12 DEF Agree
  <2>2. e.rl = v.rl /\ e.rr = v.rr + (c - 48) /\ e.rb = 0
    <3>1. 1 \div 10 = 0 /\ i # q /\ 1 * (c - 48) = c - 48
      BY <1>2, <1>3, <1>12
    <3> QED
      BY <1>4, <1>7, <2>1, <3>1
  <2>3. w = c - 48
    BY <1>0, <1>12 DEF Adds, w, c
  <2>4. total + w = 100 * e.rl + e.rr
    BY <1>3, <1>6, <2>1, <2>2, <2>3
  <2>5. Agree(e, total + w, i, q)
    BY <1>2, <1>6, <1>7, <1>8, <1>12, <2>2, <2>4 DEF Agree
  <2> QED
    BY <2>5 DEF e, w, c, q
<1> QED
  BY <1>2, <1>9, <1>10, <1>11, <1>12

LEMMA NothingAccepted ==
  ASSUME decoded' = ND!NoSentence
  PROVE  ND!ChecksumRight' /\ ND!TermsAreSplit' /\ ND!RmcIsThis'
<1>1. ND!Whole' = <<>>
  BY DEF ND!Whole, ND!NoSentence
<1> QED
  BY <1>1 DEF ND!ChecksumRight, ND!TermsAreSplit, ND!RmcIsThis

LEMMA IdleFacts == ND!Idle \in Decs /\ ND!Idle.state = 0
<1>1. <<>> \in Seq(Int) /\ <<>> \in Seq(Texts) /\ <<>> \in Texts
  BY DEF Texts
<1> QED
  BY <1>1 DEF ND!Idle, Decs

LEMMA StartedFacts == ND!Started \in Decs /\ Between(ND!Started, <<>>)
<1> DEFINE none == <<>>
<1>1. none \in Seq(Int) /\ none \in Seq(Texts) /\ none \in Texts /\ Append(none, none) = << <<>> >>
  BY DEF Texts
<1>2. <<ND!Dollar>> \in Seq(Int) /\ Len(<<ND!Dollar>>) = 1 /\ <<ND!Dollar>> \o none = <<ND!Dollar>>
  BY DEF ND!Dollar
<1>3. Len(GPRMC_TERM) \in Nat \ {0}
  BY DecoderAssumption
<1> DEFINE s == <<ND!Dollar>>
<1>6. ND!Started = [state |-> 1, parity |-> 0, tag |-> 0, sentence |-> s, terms |-> none, current |-> none]
  BY DEF ND!Started
<1>7. ND!ParityOf(none) = 0 /\ ND!Split(none) = << <<>> >> /\ Opening(none) = s
  BY <1>2, ParityOfNone, SplitOfNone DEF Opening
<1>4. Counted(s, 0)
  <2> HIDE DEF s
  <2>1. \A i \in 2 .. 1 : FALSE
    OBVIOUS
  <2>2. (IF Len(s) < Len(GPRMC_TERM) THEN Len(s) ELSE Len(GPRMC_TERM)) = 1
    <3> DEFINE l == Len(GPRMC_TERM)
               k == Len(s)
    <3>1. l \in Nat \ {0} /\ k = 1
      BY <1>2, <1>3 DEF s
    <3> HIDE DEF k, l
    <3>2. (IF k < l THEN k ELSE l) = 1
      BY <3>1
    <3> QED
      BY <3>2 DEF k, l
  <2> QED
    BY <2>2 DEF Counted
<1> HIDE DEF none, s
<1>5. ND!Started \in Decs
  BY <1>1, <1>2, <1>6 DEF Decs, s
<1>8. Between(ND!Started, none)
  BY <1>1, <1>4, <1>6, <1>7 DEF Between
<1> QED
  BY <1>5, <1>8 DEF none

\* Each state of decode has its explanation.
LEMMA StatesDiffer ==
  ASSUME NEW d
  PROVE  /\ InText(d) => d.state = 1
         /\ AtStar(d) => d.state = 2
         /\ AtDigit(d) => d.state = 3 /\ Len(d.current) = 1
<1>1. ASSUME NEW h \in Int PROVE Len(<<h>>) = 1
  OBVIOUS
<1>2. ASSUME NEW body \in Seq(Int), Behind(d, body, <<>>) PROVE d.state = 2
  <2> DEFINE none == <<>>
  <2>1. Len(none) = 0
    OBVIOUS
  <2>2. d.state = 2 + Len(none)
    BY <1>2 DEF Behind
  <2> QED
    BY <2>1, <2>2
<1>3. ASSUME NEW body \in Seq(Int), NEW h \in Int, Behind(d, body, <<h>>) PROVE d.state = 3 /\ Len(d.current) = 1
  <2> DEFINE one == <<h>>
  <2>1. Len(one) = 1
    BY <1>1
  <2> HIDE DEF one
  <2>2. d.current = one /\ d.state = 2 + Len(one)
    BY <1>3 DEF Behind, one
  <2> QED
    BY <2>1, <2>2
<1>4. ASSUME NEW body \in Seq(Int), Between(d, body) PROVE d.state = 1
  BY <1>4 DEF Between
<1>5. InText(d) => d.state = 1
  BY <1>4 DEF InText
<1>6. AtStar(d) => d.state = 2
  BY <1>2, Zenon DEF AtStar
<1>7. AtDigit(d) => d.state = 3 /\ Len(d.current) = 1
  BY <1>3, Zenon DEF AtDigit
<1> QED
  BY <1>5, <1>6, <1>7

\* Nothing is written behind the end of a buffer while a sentence is in it.
LEMMA WithinBuffers ==
  ASSUME NEW d \in Decs, Explained(d), ~ND!Runaway(d), reach' = ND!Reached(d),
         d.state = 3 => dec'.state = 0, spoilt' => ND!Overruns(d)
  PROVE  ND!OneBytePast'
<1> DEFINE end == IF d.state = 3 THEN 1 ELSE 0
<1>1. reach'.sentence = Len(d.sentence) + end /\ reach'.terms = Len(d.terms) /\ reach'.term = Len(d.current) + end
  BY DEF ND!Reached
<1>2. Len(d.sentence) \in Nat /\ Len(d.terms) \in Nat /\ Len(d.current) \in Nat
  BY DEF Decs, Texts
<1>3. MaxSentence \in Nat /\ MaxTerms \in Nat \ {0} /\ MaxTerm \in Nat /\ MaxTerm > 2
  BY DecoderAssumption
<1>4. Len(d.sentence) < MaxSentence /\ Len(d.terms) < MaxTerms /\ Len(d.current) < MaxTerm
  BY <1>2, <1>3 DEF ND!Runaway
<1>5. d.state = 3 => Len(d.current) = 1
  BY StatesDiffer DEF Explained
<1>6. Len(d.sentence) + end <= MaxSentence /\ Len(d.current) + end < MaxTerm
  <2>1. end \in {0, 1} /\ (end = 1 => Len(d.current) = 1)
    BY <1>5
  <2> DEFINE k == Len(d.sentence)
             m == Len(d.current)
  <2>2. k \in Nat /\ m \in Nat /\ k < MaxSentence /\ m < MaxTerm /\ (end = 1 => m = 1) /\ end \in {0, 1}
    BY <1>2, <1>4, <2>1
  <2> HIDE DEF end, k, m
  <2>3. k + end <= MaxSentence /\ m + end < MaxTerm
    BY <1>3, <2>2
  <2> QED
    BY <2>3 DEF k, m
<1>7. reach'.sentence = MaxSentence => dec'.state = 0
  <2> DEFINE k == Len(d.sentence)
             r == reach'.sentence
  <2>1. k \in Nat /\ k < MaxSentence /\ r = k + end
    BY <1>1, <1>2, <1>4
  <2>2. d.state # 3 => r = k
    BY <2>1
  <2> HIDE DEF k, r
  <2>3. d.state # 3 => r # MaxSentence
    BY <1>3, <2>1, <2>2
  <2> QED
    BY <2>3 DEF r
<1>8. spoilt' => reach'.sentence = MaxSentence
  <2> SUFFICES ASSUME ND!Overruns(d) PROVE Len(d.sentence) + end = MaxSentence
    BY <1>1
  <2> QED
    BY <1>2, <1>3 DEF ND!Overruns
<1> HIDE DEF end
<1> QED
  BY <1>1, <1>4, <1>6, <1>7, <1>8 DEF ND!OneBytePast

LEMMA DecCharacter ==
  ASSUME DecInv, NEW c \in Characters, ND!decode(c)
  PROVE  DecInv'
<1>0. c \in Int
  BY DecoderAssumption
<1> DEFINE d == IF ND!Runaway(dec) \/ c \in {10, 13} THEN ND!Idle ELSE dec
<1>0a. spoilt = FALSE
  BY DEF ND!decode, DecInv
<1>1. \/ d.state = 0 /\ dec' = ND!Idle /\ decoded' = ND!NoSentence /\ reach' = ND!NothingWritten /\ spoilt' = FALSE
      \/ /\ d.state = 1
         /\ dec' = ND!InSentence(ND!Added(ND!Tagged(d, c), c), c)
         /\ decoded' = ND!NoSentence /\ reach' = ND!Reached(d) /\ spoilt' = FALSE
      \/ /\ d.state = 2
         /\ dec' = ND!FirstDigit(ND!Added(d, c), c)
         /\ decoded' = ND!NoSentence /\ reach' = ND!Reached(d) /\ spoilt' = FALSE
      \/ /\ d.state = 3
         /\ dec' = ND!Idle
         /\ decoded' = ND!Completed(ND!SecondDigit(ND!Added(d, c), c))
         /\ reach' = ND!Reached(d) /\ spoilt' = FALSE
      \/ ND!Overruns(d) /\ dec' = ND!Idle /\ reach' = ND!Reached(d) /\ spoilt' = TRUE
  BY <1>0a DEF ND!decode
<1>2. d \in Decs /\ Explained(d) /\ (d.state # 0 => ~ND!Runaway(d))
  BY IdleFacts DEF DecInv, Explained
<1> HIDE DEF d
<1>3. CASE d.state = 0 /\ ~spoilt'
  <2>1. dec' = ND!Idle /\ decoded' = ND!NoSentence /\ reach' = ND!NothingWritten /\ spoilt' = FALSE
    BY <1>1, <1>3 DEF ND!Overruns
  <2>2. ND!OneBytePast'
    BY <2>1, IdleFacts, DecoderAssumption DEF ND!OneBytePast, ND!NothingWritten
  <2> QED
    BY <2>1, <2>2, IdleFacts, NothingAccepted DEF DecInv, Explained
<1>4. CASE d.state = 1 /\ ~spoilt'
  <2>1. /\ dec' = ND!InSentence(ND!Added(ND!Tagged(d, c), c), c) /\ decoded' = ND!NoSentence
        /\ reach' = ND!Reached(d) /\ spoilt' = FALSE
    BY <1>1, <1>4 DEF ND!Overruns
  <2>2. ND!OneBytePast'
    BY <1>2, <1>4, <2>1, WithinBuffers
  <2>3. PICK body \in Seq(Int) : Between(d, body)
    <3>1. InText(d)
      BY <1>2, <1>4, StatesDiffer DEF Explained
    <3> QED
      BY <3>1, Zenon DEF InText
  <2>4. /\ dec' \in Decs
        /\ c = ND!Star => Behind(dec', body, <<>>)
        /\ c # ND!Star => Between(dec', Append(body, c))
    BY <1>0, <1>2, <2>1, <2>3, OneCharacter
  <2>5. Explained(dec')
    <3>1. Append(body, c) \in Seq(Int)
      BY <1>0
    <3> QED
      BY <2>4, <3>1, Zenon DEF Explained, InText, AtStar
  <2> QED
    BY <2>1, <2>2, <2>4, <2>5, NothingAccepted
    DEF DecInv, Explained, InText, AtStar, AtDigit, Between, Behind, Counted
<1>5. CASE d.state = 2 /\ ~spoilt'
  <2>1. /\ dec' = ND!FirstDigit(ND!Added(d, c), c) /\ decoded' = ND!NoSentence
        /\ reach' = ND!Reached(d) /\ spoilt' = FALSE
    BY <1>1, <1>5 DEF ND!Overruns
  <2>2. ND!OneBytePast'
    BY <1>2, <1>5, <2>1, WithinBuffers
  <2>3. PICK body \in Seq(Int) : Behind(d, body, <<>>)
    <3>1. AtStar(d)
      BY <1>2, <1>5, StatesDiffer DEF Explained
    <3> QED
      BY <3>1, Zenon DEF AtStar
  <2>4. dec' \in Decs /\ Behind(dec', body, <<c>>)
    BY <1>0, <1>2, <2>1, <2>3, OneDigit
  <2>5. Explained(dec')
    BY <1>0, <2>4, Zenon DEF Explained, AtDigit
  <2> QED
    BY <2>1, <2>2, <2>4, <2>5, NothingAccepted
    DEF DecInv, Explained, InText, AtStar, AtDigit, Between, Behind, Counted
<1>6. CASE d.state = 3 /\ ~spoilt'
  <2>1. /\ dec' = ND!Idle /\ decoded' = ND!Completed(ND!SecondDigit(ND!Added(d, c), c))
        /\ reach' = ND!Reached(d) /\ spoilt' = FALSE
    BY <1>1, <1>6
  <2>2. ND!OneBytePast'
    BY <1>2, <1>6, <2>1, IdleFacts, WithinBuffers
  <2>3. PICK body \in Seq(Int), h \in Int : Behind(d, body, <<h>>)
    <3>1. AtDigit(d)
      BY <1>2, <1>6, StatesDiffer DEF Explained
    <3> QED
      BY <3>1, Zenon DEF AtDigit
  <2>4. ND!ChecksumRight' /\ ND!TermsAreSplit' /\ ND!RmcIsThis'
    BY <1>0, <1>2, <2>1, <2>3, LastDigit
  <2> QED
    BY <2>1, <2>2, <2>4, IdleFacts DEF DecInv, Explained
<1>7. CASE spoilt'
  <2>1. ND!Overruns(d) /\ d.state = 3 /\ dec' = ND!Idle /\ reach' = ND!Reached(d) /\ spoilt' = TRUE
    BY <1>1, <1>7 DEF ND!Overruns
  <2>2. ND!OneBytePast'
    BY <1>2, <2>1, IdleFacts, WithinBuffers
  <2>3. ND!ChecksumRight' /\ ND!TermsAreSplit' /\ ND!RmcIsThis'
    BY <2>1 DEF ND!ChecksumRight, ND!TermsAreSplit, ND!RmcIsThis
  <2> QED
    BY <2>1, <2>2, <2>3, IdleFacts DEF DecInv, Explained
<1>8. d.state \in 0 .. 3
  BY <1>2 DEF Decs
<1> QED
  BY <1>3, <1>4, <1>5, <1>6, <1>7, <1>8

LEMMA DecStep == DecInv /\ ND!Next => DecInv'
<1> SUFFICES ASSUME DecInv, ND!Next PROVE DecInv'
  OBVIOUS
<1>1. CASE ND!decodeDollar
  <2>1. dec' = ND!Started /\ decoded' = ND!NoSentence /\ reach' = ND!NothingWritten /\ spoilt' = FALSE
    BY <1>1 DEF ND!decodeDollar, DecInv
  <2>2. ND!OneBytePast'
    BY <2>1, DecoderAssumption DEF ND!OneBytePast, ND!NothingWritten
  <2>3. dec' \in Decs /\ Between(dec', <<>>)
    BY <2>1, StartedFacts
  <2>4. Explained(dec')
    <3>1. <<>> \in Seq(Int)
      OBVIOUS
    <3> QED
      BY <2>3, <3>1, Zenon DEF Explained, InText
  <2> QED
    BY <2>1, <2>2, <2>3, <2>4, NothingAccepted
    DEF DecInv, Explained, InText, AtStar, AtDigit, Between, Behind, Counted
<1>2. ASSUME NEW c \in Characters, ND!decode(c) PROVE DecInv'
  BY <1>2, DecCharacter
<1>3. CASE ND!decodeSpoilt
  <2>1. dec' = dec /\ reach' = reach /\ spoilt' = spoilt /\ spoilt
    BY <1>3 DEF ND!decodeSpoilt
  <2>2. ND!ChecksumRight' /\ ND!TermsAreSplit' /\ ND!RmcIsThis'
    BY <2>1 DEF ND!ChecksumRight, ND!TermsAreSplit, ND!RmcIsThis
  <2>3. ND!OneBytePast'
    BY <2>1 DEF DecInv, ND!OneBytePast
  <2> QED
    BY <2>1, <2>2, <2>3
    DEF DecInv, Explained, InText, AtStar, AtDigit, Between, Behind, Counted, Opening
<1> QED
  BY <1>1, <1>2, <1>3 DEF ND!Next

\* No sum of places is above that of all.
LEMMA SumsGrow ==
  ASSUME NEW s, NEW t, NEW b, ReadOf(s, t, b), ND!Value(s) < 100 * LongLimit,
         NEW h \in [0 .. Len(s) -> Int], SumSteps(s, h), ND!Value(s) = h[Len(s)]
  PROVE  \A k \in 0 .. Len(s) : h[k] \in Int /\ h[k] < 100 * LongLimit
<1> DEFINE q == ND!PointOf(s)
           l == Len(s)
           S == {k \in 0 .. l : h[l - k] <= h[l]}
<1>1. s \in Seq(Int) /\ b \in {0, 1} /\ l \in Nat /\ LongLimit \in Nat
  BY DecoderAssumption DEF ReadOf
<1>2. \A k \in 1 .. l : h[k] = h[k - 1] + Worth(s, k) /\ h[k] \in Int /\ h[k - 1] \in Int
  BY DEF SumSteps
<1>3. ASSUME NEW i \in 1 .. l PROVE Worth(s, i) \in Int /\ Worth(s, i) >= 0
  <2> HIDE DEF q
  <2>1. Shaped(s, b, q)
    BY NumberFacts DEF q
  <2>2. Worth(s, i) \in Int
    BY <1>1, <1>3, WorthIsInt
  <2>3. CASE i \in b + 1 .. l
    <3>1. Adds(s, i, q)
      BY <2>3, WorthFacts DEF q
    <3>2. q \in Nat /\ i <= q + 2 /\ i \in Nat
      <4>1. q \in b + 1 .. l + 1 /\ l <= q + 2
        BY <2>1 DEF Shaped
      <4> QED
        BY <1>1, <1>3, <4>1
    <3>3. i # q => s[i] \in Nat /\ s[i] >= 48
      BY <2>1, <2>3 DEF Shaped
    <3>4. CASE i < q
      <4> DEFINE p == ND!Power(q - 1 - i)
                 x == s[i] - 48
      <4>1. q - 1 - i \in Nat
        BY <3>2, <3>4
      <4>2. p \in Positive
        BY <4>1, PowerFacts
      <4>3. x \in Nat /\ p \in Nat
        BY <3>2, <3>3, <3>4, <4>2 DEF Positive
      <4>4. Worth(s, i) = 100 * p * x
        BY <3>1, <3>4 DEF Adds
      <4> HIDE DEF p, x
      <4> QED
        BY <4>3, <4>4
    <3> QED
      BY <3>1, <3>2, <3>3, <3>4 DEF Adds
  <2>4. CASE i \notin b + 1 .. l
    <3>1. b = 1 /\ i = 1
      BY <1>1, <1>3, <2>4
    <3> QED
      BY <2>1, <3>1 DEF Shaped, Worth
  <2> QED
    BY <2>2, <2>3, <2>4
<1>4. 0 \in S
  BY <1>1
<1>5. \A k \in 1 .. l : k - 1 \in S => k \in S
  <2> TAKE k \in 1 .. l
  <2> DEFINE i == l - (k - 1)
  <2>1. i \in 1 .. l /\ i - 1 = l - k
    BY <1>1
  <2> HIDE DEF i
  <2>2. h[i - 1] <= h[i]
    <3>1. h[i] = h[i - 1] + Worth(s, i) /\ h[i] \in Int /\ h[i - 1] \in Int /\ Worth(s, i) \in Int /\ Worth(s, i) >= 0
      BY <1>2, <1>3, <2>1
    <3> QED
      BY <3>1
  <2>3. h[i] \in Int /\ h[i - 1] \in Int /\ h[l] \in Int
    BY <1>1, <1>2, <2>1
  <2> SUFFICES ASSUME h[i] <= h[l] PROVE h[l - k] <= h[l]
    BY <1>1 DEF i
  <2> QED
    BY <2>1, <2>2, <2>3
<1>6. 0 .. l \subseteq S
  <2> HIDE DEF S
  <2> QED
    BY <1>1, <1>4, <1>5, UpTo
<1> SUFFICES ASSUME NEW k \in 0 .. l PROVE h[k] \in Int /\ h[k] < 100 * LongLimit
  OBVIOUS
<1>7. l - k \in 0 .. l /\ l - (l - k) = k
  BY <1>1
<1>8. h[k] <= h[l]
  BY <1>6, <1>7
<1>9. h[k] \in Int /\ h[l] \in Int /\ h[l] < 100 * LongLimit
  BY <1>1
<1> QED
  BY <1>1, <1>8, <1>9

LEMMA DecimalOfDigits ==
  ASSUME NEW s, NEW t, NEW b, ReadOf(s, t, b), ND!Value(s) < 100 * LongLimit
  PROVE  ND!Decimal(t) = ND!Value(s) /\ ND!Value(s) \in Int
<1> DEFINE q == ND!PointOf(s)
           n == Len(t)
<1>0. Shaped(s, b, q)
  BY NumberFacts
<1>1. s \in Seq(Int) /\ t \in Seq(Int) /\ b \in {0, 1} /\ n \in Nat /\ Len(s) = n + b
  BY DEF ReadOf
<1>2. \A k \in 1 .. n : t[k] = s[k + b]
  BY DEF ReadOf
<1> HIDE DEF n
<1>3. PICK f \in [0 .. n -> Readings] : ReadingSteps(t, f) /\ ND!Decimal(t) = ND!Unit * f[n].rl + f[n].rr
  BY <1>1, ReadingByStep DEF n
<1>4. PICK h \in [0 .. Len(s) -> Int] : SumSteps(s, h) /\ ND!Value(s) = h[Len(s)]
  BY <1>1, SumByStep
<1>5. f[0] = [rl |-> 0, rr |-> 0, rb |-> 0] /\ \A k \in 1 .. n : f[k] = ND!Digit(f[k - 1], s[k + b])
  BY <1>2, <1>3 DEF ReadingSteps, n
<1>6. h[0] = 0 /\ \A k \in 1 .. Len(s) : h[k] = h[k - 1] + Worth(s, k)
  BY <1>4 DEF SumSteps
<1>14. \A k \in 0 .. Len(s) : h[k] \in Int /\ h[k] < 100 * LongLimit
  BY <1>0, <1>1, <1>4, <1>6, SumsGrow
<1> DEFINE S == {k \in 0 .. n : Agree(f[k], h[k + b], k + b, q)}
<1>7. 0 \in S
  <2>1. h[b] = 0
    <3>1. CASE b = 0
      BY <1>6, <3>1
    <3>2. CASE b = 1
      <4>1. 1 \in 1 .. Len(s) /\ 1 - 1 = 0
        BY <1>1, <3>2
      <4>2. Worth(s, 1) = 0
        BY <1>0, <3>2 DEF Worth, Shaped
      <4>3. h[1] = h[0] + Worth(s, 1)
        BY <1>6, <4>1
      <4> QED
        BY <1>6, <3>2, <4>2, <4>3
    <3> QED
      BY <1>1, <3>1, <3>2
  <2> HIDE DEF q
  <2>2. b < q /\ b \in Nat /\ q \in Nat
    <3>1. q \in b + 1 .. Len(s) + 1
      BY <1>0 DEF Shaped
    <3> QED
      BY <1>1, <3>1
  <2>3. ND!Power(q - 1 - b) \in Positive
    <3>1. q - 1 - b \in Nat
      BY <2>2
    <3> QED
      BY <3>1, PowerFacts
  <2>4. f[0] \in Readings /\ f[0].rl = 0 /\ f[0].rr = 0 /\ f[0].rb = 0
    BY <1>1, <1>5
  <2>5. 0 = 100 * ND!Power(q - 1 - b) * 0
    BY <2>3 DEF Positive
  <2>6. Agree(f[0], h[b], b, q)
    BY <2>1, <2>2, <2>4, <2>5 DEF Agree
  <2>7. 0 + b = b /\ 0 \in 0 .. n
    BY <1>1
  <2> QED
    BY <2>6, <2>7
<1>8. \A k \in 1 .. n : k - 1 \in S => k \in S
  <2> TAKE k \in 1 .. n
  <2> SUFFICES ASSUME Agree(f[k - 1], h[k - 1 + b], k - 1 + b, q) PROVE Agree(f[k], h[k + b], k + b, q)
    BY <1>1
  <2> DEFINE i == k + b
  <2>1. i \in b + 1 .. Len(s) /\ i - 1 = k - 1 + b /\ i \in 1 .. Len(s)
    BY <1>1
  <2>2. f[k] = ND!Digit(f[k - 1], s[i])
    BY <1>5
  <2> HIDE DEF i, q
  <2>3. h[i] = h[i - 1] + Worth(s, i)
    BY <1>6, <2>1
  <2>5. h[i - 1] + Worth(s, i) < 100 * LongLimit
    BY <1>14, <2>1, <2>3
  <2>4. Agree(ND!Digit(f[k - 1], s[i]), h[i - 1] + Worth(s, i), i, q)
    BY <2>1, <2>5, AgreeLonger DEF q
  <2> QED
    BY <2>2, <2>3, <2>4 DEF i
<1>9. Agree(f[n], h[n + b], n + b, q)
  <2>1. 0 .. n \subseteq S
    <3> HIDE DEF S
    <3> QED
      BY <1>1, <1>7, <1>8, UpTo
  <2> QED
    BY <1>1, <2>1
<1> DEFINE v == f[n]
           total == h[Len(s)]
<1>10. Agree(v, total, Len(s), q)
  BY <1>1, <1>9
<1> HIDE DEF q, v, total
<1>11. q \in Nat /\ Len(s) \in Nat /\ q <= Len(s) + 1
  <2>1. q \in b + 1 .. Len(s) + 1
    BY <1>0 DEF Shaped
  <2> QED
    BY <1>1, <2>1
<1>12. v.rl \in Int /\ v.rr \in Int /\ total \in Int
  BY <1>10 DEF Agree, Readings
<1>13. total = 100 * v.rl + v.rr
  <2>1. CASE Len(s) < q
    <3>1. v.rr = 0 /\ total = 100 * ND!Power(q - 1 - Len(s)) * v.rl
      BY <1>10, <2>1 DEF Agree
    <3>2. q - 1 - Len(s) = 0
      BY <1>11, <2>1
    <3>3. ND!Power(0) = 1
      BY PowerFacts
    <3>4. total = 100 * 1 * v.rl
      BY <3>1, <3>2, <3>3
    <3> QED
      BY <1>12, <3>1, <3>4
  <2>2. CASE ~(Len(s) < q)
    <3>1. Len(s) >= q
      BY <1>11, <2>2
    <3> QED
      BY <1>10, <3>1 DEF Agree
  <2> QED
    BY <2>1, <2>2
<1> QED
  BY <1>3, <1>4, <1>12, <1>13 DEF v, total, ND!Unit

\* _decimal gives the number a text stands for.
LEMMA DecimalIsRight ==
  ASSUME NEW s \in Seq(Int), ND!IsNumber(s), ND!Value(s) < 100 * LongLimit
  PROVE  ND!_decimal(s) = (IF Len(s) > 0 /\ s[1] = ND!Minus THEN -1 ELSE 1) * ND!Value(s)
<1>1. CASE s # <<>> /\ Head(s) \in {ND!Plus, ND!Minus}
  <2> DEFINE t == Tail(s)
  <2>1. t \in Seq(Int) /\ Len(s) = Len(t) + 1 /\ s[1] = Head(s) /\ \A i \in 1 .. Len(t) : t[i] = s[i + 1]
    BY <1>1
  <2>2. Len(s) > 0
    BY <2>1
  <2>3. ND!_decimal(s) = IF s[1] = ND!Minus THEN 0 - ND!Decimal(t) ELSE ND!Decimal(t)
    BY <1>1, <2>1 DEF ND!_decimal
  <2> HIDE DEF t
  <2>4. ReadOf(s, t, 1)
    BY <1>1, <2>1 DEF ReadOf
  <2>5. ND!Decimal(t) = ND!Value(s) /\ ND!Value(s) \in Int
    BY <2>4, DecimalOfDigits
  <2> QED
    BY <2>2, <2>3, <2>5
<1>2. CASE ~(s # <<>> /\ Head(s) \in {ND!Plus, ND!Minus})
  <2>1. ND!_decimal(s) = ND!Decimal(s)
    BY <1>2 DEF ND!_decimal
  <2>2. Len(s) > 0 => s # <<>> /\ Head(s) = s[1]
    OBVIOUS
  <2>3. Len(s) > 0 => s[1] \notin {ND!Plus, ND!Minus}
    BY <1>2, <2>2
  <2>4. Len(s) = Len(s) + 0 /\ \A i \in 1 .. Len(s) : s[i] = s[i + 0]
    OBVIOUS
  <2> DEFINE b == 0
  <2>6. b \in {0, 1} /\ b # 1 /\ Len(s) = Len(s) + b /\ \A i \in 1 .. Len(s) : s[i] = s[i + b]
    BY <2>4
  <2> HIDE DEF b
  <2>5. ReadOf(s, s, b)
    BY <2>3, <2>6 DEF ReadOf
  <2>7. ND!Decimal(s) = ND!Value(s) /\ ND!Value(s) \in Int
    BY <2>5, DecimalOfDigits
  <2>8. ~(Len(s) > 0 /\ s[1] = ND!Minus)
    BY <2>3
  <2> QED
    BY <2>1, <2>7, <2>8
<1> QED
  BY <1>1, <1>2

LEMMA DecSafe ==
  DecInv => /\ ND!ChecksumRight /\ ND!TermsAreSplit /\ ND!RmcIsThis /\ ND!OneBytePast
            /\ ND!DecimalIsValue
<1> SUFFICES ASSUME DecInv PROVE ND!DecimalIsValue
  BY DEF DecInv
<1>1. dec.current \in Seq(Int)
  BY DEF DecInv, Decs, Texts
<1> QED
  BY <1>1, DecimalIsRight DEF ND!DecimalIsValue, ND!Unit

\* Until a sentence fills its buffer, a sentence is accepted for its checksum and handed out
\* in its own terms, and position and speed come from it; the end of a sentence that fills
\* the buffer, and nothing else, is written behind it; numbers that a long holds are
\* converted to their values: for every length of the buffers and width of a long, whatever
\* characters arrive.
THEOREM TextsAreDecoded == Spec => []DecodedSound
<1> DEFINE Inv == part = "decoder" => DecInv
<1>1. Init => Inv
  BY DecInit DEF Init
<1>2. Inv /\ [Next]_vars => Inv'
  <2> SUFFICES ASSUME Inv, [Next]_vars PROVE Inv'
    OBVIOUS
  <2>1. CASE part = "decoder" /\ ND!Next /\ part' = part
    BY <2>1, DecStep
  <2>2. CASE UNCHANGED <<part, decoder>>
    <3>1. part' = part /\ dec' = dec /\ decoded' = decoded /\ reach' = reach /\ spoilt' = spoilt
      BY <2>2 DEF decoder
    <3>2. Explained(dec)' = Explained(dec)
      BY <3>1 DEF Explained, InText, AtStar, AtDigit, Between, Behind, Counted, Opening
    <3>3. ND!ChecksumRight' = ND!ChecksumRight /\ ND!TermsAreSplit' = ND!TermsAreSplit
          /\ ND!RmcIsThis' = ND!RmcIsThis /\ ND!OneBytePast' = ND!OneBytePast
      BY <3>1 DEF ND!ChecksumRight, ND!TermsAreSplit, ND!RmcIsThis, ND!OneBytePast, ND!Whole, ND!Body
    <3> QED
      BY <3>1, <3>2, <3>3 DEF DecInv
  <2>3. CASE part # "decoder" /\ part' = part
    BY <2>3
  <2>4. UNCHANGED vars => UNCHANGED <<part, decoder>>
    BY DEF vars
  <2> QED
    BY <2>1, <2>2, <2>3, <2>4 DEF Next
<1>3. Inv => DecodedSound
  BY DecSafe DEF DecodedSound
<1> QED
  BY <1>1, <1>2, <1>3, PTL DEF Spec
=============================================================================
