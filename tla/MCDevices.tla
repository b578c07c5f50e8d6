------------------------------ MODULE MCDevices ------------------------------
(*****************************************************************************)
(* The drivers of the devices on the board and at its pins: SD card, flash   *)
(* chip, EEPROM, CC3000 radio, two-wire bus, servo, stepper, display,        *)
(* Ethernet chip and WiFi shield; with them the state machine library and    *)
(* the logger, the sketch that is nothing but a driver of the card. They do  *)
(* not share state, so each behaviour is about one of them.                  *)
(*****************************************************************************)
EXTENDS Integers, Sequences

CONSTANTS
  \* libraries/SD: blocks of the card
  Blocks, BlockSize, Values,
  \* libraries/FlashLib
  Base, Bits, Sectors, Bytes, FlashAddresses, FlashCalls,
  \* the gates in the EEPROM
  Gates, Courses, MaxGates, IntSize, DoubleSize, ByteMod,
  \* GPS_logger
  MaxLogs, MaxStarts, MaxLines,
  \* libraries/bfinlibmaster
  Buffers, Sd, MaxSends, MaxPackets,
  \* libraries/Wire
  BUFFER_LENGTH, Data, MaxTransfers,
  \* libraries/Servo
  ServoObjects, MAX_SERVOS, Pins, Angles, Limits, ServoCalls,
  \* libraries/Stepper
  Motors, Moves, Wrap, Delay,
  \* libraries/LiquidCrystal
  Lines, Cursors, Glyphs, LcdCalls,
  \* libraries/FSM
  States, NoState, MaxTime,
  \* libraries/Ethernet: the rings of a socket
  SSIZE, RingSpan, RingStarts, Senders, Chunks, EthPackets,
  \* libraries/Ethernet: clients and servers
  MAX_SOCK_NUM, Clients, Udp, LastServed,
  \* libraries/Ethernet: DHCP
  Servers, Pool, Lease, T1Option, NoIp, OtherIp, Gaps, DhcpCalls, MaxXid, MaxAir,
  \* libraries/WiFi
  TIMEOUT_CHAR, Attempts, WifiSockets, HostAddresses

\* A turn has steps, and the clock has values.
ASSUME StepperAssumption ==
  Motors \subseteq Nat \ {0} /\ Moves \subseteq Int /\ Wrap \in Nat \ {0} /\ Delay \in Nat

\* There is a name for a log.
ASSUME LoggerAssumption == MaxLogs \in Nat \ {0}

\* What the calls are given are integers, and the timer has room for servos.
ASSUME ServoAssumption ==
  MAX_SERVOS \in Nat \ {0} /\ Angles \subseteq Int /\ Limits \subseteq Int \X Int

\* A block has bytes.
ASSUME CardAssumption == BlockSize \in Nat \ {0}

\* Values have bytes, an erased byte (ByteMod - 1) is not the marker 36, and a course is a
\* vector of gates that the device has room for.
ASSUME StoreAssumption ==
  /\ IntSize \in Nat \ {0} /\ DoubleSize \in Nat \ {0} /\ ByteMod \in Nat \ {0, 37}
  /\ MaxGates \in Nat
  /\ \A c \in Courses : c \in Seq(Gates) /\ Len(c) <= MaxGates

\* The calls to the flash memory have addresses of three digits.
ASSUME FlashAssumption ==
  Base \in Nat \ {0} /\ FlashAddresses \subseteq 0 .. Base * Base * Base - 1

\* The radio has room for a number of packets.
ASSUME RadioAssumption == Buffers \in Nat

\* The buffers of the two-wire bus have room for a byte.
ASSUME WireAssumption == BUFFER_LENGTH \in Nat \ {0}

\* A display has at most four rows and eight glyphs; places are numbered from 0.
ASSUME DisplayAssumption ==
  Lines \subseteq 1 .. 4 /\ Cursors \subseteq Nat \X Nat /\ Glyphs \subseteq 0 .. 7

\* A callback that asks for nothing names no state.
ASSUME FsmAssumption == NoState \notin States

\* The pointers of a ring wrap at a multiple of its size, which is more than the size.
ASSUME RingAssumption ==
  /\ SSIZE \in Nat \ {0} /\ RingSpan \in Nat /\ RingSpan > SSIZE /\ RingSpan % SSIZE = 0
  /\ RingStarts \subseteq 0 .. RingSpan - 1 /\ Senders \subseteq Nat /\ Chunks \subseteq Seq(Nat)

\* The objects that hold sockets are different ones.
ASSUME SocketAssumption ==
  MAX_SOCK_NUM \in Nat /\ Udp \notin Clients /\ LastServed \notin Clients \cup {Udp}

\* A lease lasts some seconds, and maintain is called at least twice while it does.
ASSUME LeaseAssumption ==
  /\ Gaps \subseteq Nat
  /\ \A s \in Servers :
       /\ Lease[s] \in Nat /\ Lease[s] >= 2 /\ \A f \in Gaps : 2 * f <= Lease[s]
       /\ T1Option[s] \in Nat

\* The shield is asked at least once, and an address is not the byte that stands for none.
ASSUME ShieldAssumption ==
  TIMEOUT_CHAR \in Nat /\ Attempts \in Nat \ {0} /\ HostAddresses \subseteq Nat \ {255}

VARIABLES
  part,   \* the library this behaviour is about
  chipSelect, inBlock, block, offset, partialBlockRead, type, errorCode, cardMode,
  cardBlock, cardAt, stored, writing, confused, cutOff, got, wanted,   \* libraries/SD: blocks
  chip, should, gotten, flashCalls,   \* libraries/FlashLib
  power, eeprom, writes, loaded, silent, course, before, torn,   \* the tracker's gates in the EEPROM
  pc, start, exists, logs, logfile, unflushed, count, lights,   \* GPS_logger
  transport, call, script, usRxEventOpcode, usRxDataPending, usEventOrDataReceived,
  pucReceivedData,
  usNumberOfFreeBuffers, NumberOfSentPackets, NumberOfReleasedPackets,
  slTransmitDataError, InformHostOnTxComplete, socketActive, reg, ret, due, held,
  answered, told, patched,   \* libraries/bfinlibmaster: calls and events
  ulSpiState, interrupt, edge, HOST_nCS, writer, begun, clocked,   \* libraries/bfinlibmaster: the SPI bus
  role, twi, tw, caller, asked, device, other, result, transfers,   \* libraries/Wire
  servos, ServoCount, object, Channel, OCRnA, timerOn, attaching, level, pulse, left, late,
  calls, misread,   \* libraries/Servo
  motor, clock, stepsLeft, coils, shaft, waited,   \* libraries/Stepper
  lcd, pulses, panel, cgram, holds, lcdCalls,   \* libraries/LiquidCrystal
  fsm, millis, entered, early, requested,   \* libraries/FSM
  ethMode, ethStatus, tx, rx, ethCall, udp, inFlight, written, onWire, arrived, readBack,
  packets,   \* libraries/Ethernet: the rings of a socket
  status, available, _server_port, _sock, serving, own, ended, outlived,
  badAddress, serverRan,   \* libraries/Ethernet: clients and servers
  dh, inside, air, granted, leaseLeft, chipIp, dhCalls,   \* libraries/Ethernet: DHCP
  wifiCall, said, wifiResult, exchange, buffers, _state, serverSocks   \* libraries/WiFi

sdCard ==
  <<chipSelect, inBlock, block, offset, partialBlockRead, type, errorCode, cardMode,
    cardBlock, cardAt, stored, writing, confused, cutOff, got, wanted>>
flash ==
  <<chip, should, gotten, flashCalls>>
waypoints ==
  <<power, eeprom, writes, loaded, silent, course, before, torn>>
logger ==
  <<pc, start, exists, logs, logfile, unflushed, count, lights>>
cc3000 ==
  <<transport, call, script, usRxEventOpcode, usRxDataPending, usEventOrDataReceived,
    pucReceivedData,
    usNumberOfFreeBuffers, NumberOfSentPackets, NumberOfReleasedPackets,
    slTransmitDataError, InformHostOnTxComplete, socketActive, reg, ret, due, held,
    answered, told, patched>>
cc3000Bus ==
  <<ulSpiState, interrupt, edge, HOST_nCS, writer, begun, clocked>>
twoWire ==
  <<role, twi, tw, caller, asked, device, other, result, transfers>>
servo ==
  <<servos, ServoCount, object, Channel, OCRnA, timerOn, attaching, level, pulse, left,
    late, calls, misread>>
stepper ==
  <<motor, clock, stepsLeft, coils, shaft, waited>>
display ==
  <<lcd, pulses, panel, cgram, holds, lcdCalls>>
stateMachine ==
  <<fsm, millis, entered, early, requested>>
w5100 ==
  <<ethMode, ethStatus, tx, rx, ethCall, udp, inFlight, written, onWire, arrived, readBack,
    packets>>
sockets ==
  <<status, available, _server_port, _sock, serving, own, ended, outlived, badAddress,
    serverRan>>
dhcp ==
  <<dh, inside, air, granted, leaseLeft, chipIp, dhCalls>>
wifi ==
  <<wifiCall, said, wifiResult, exchange, buffers, _state, serverSocks>>
vars == <<part, sdCard, flash, waypoints, logger, cc3000, cc3000Bus, twoWire, servo,
          stepper, display, stateMachine, w5100, sockets, dhcp, wifi>>

\* Three courses that differ in length and share a gate at two places; the longest
\* one outgrows the count.
MCCourses == {<<"A">>, <<"B", "A">>, <<"B", "A", "B">>}
MCLimits  == {<<1000, 2000>>}
MCMoves   == {-3, 1, 9}
\* One place on the display, and one past its last row.
MCCursors == {<<3, 0>>, <<1, 3>>}
\* Nothing, one byte, half a buffer, and more than a buffer.
MCChunks  == {<<>>, <<1>>, <<1, 2, 3>>, <<2, 1, 1, 2, 2, 1>>}
\* Two servers with an address each.
MCPool    == [s1 |-> {"ip1"}, s2 |-> {"ip2"}]
MCLease   == [s1 |-> 4, s2 |-> 6]
MCT1      == [s1 |-> 0, s2 |-> 3]

SC == INSTANCE Sd2Card WITH asked <- wanted
FL == INSTANCE SST25VF016B WITH Addresses <- FlashAddresses, MaxCalls <- FlashCalls
WS == INSTANCE WaypointStore
LG == INSTANCE Logger WITH stored <- logs, cache <- unflushed, panel <- lights
CC == INSTANCE CC3000 WITH pc <- call
CS == INSTANCE CC3000Spi
TW == INSTANCE Twi
SV == INSTANCE Servo WITH Objects <- ServoObjects, MaxCalls <- ServoCalls
SP == INSTANCE Stepper
LC == INSTANCE LiquidCrystal WITH MaxCalls <- LcdCalls
FS == INSTANCE FiniteStateMachine WITH wanted <- requested
WZ == INSTANCE W5100 WITH Span <- RingSpan, Starts <- RingStarts, MaxPackets <- EthPackets
ES == INSTANCE EthernetSockets WITH Served <- LastServed, lost <- ended
DH == INSTANCE Dhcp WITH MaxCalls <- DhcpCalls, left <- leaseLeft
WF == INSTANCE WiFi WITH MAX_SOCK_NUM <- WifiSockets, Addresses <- HostAddresses
-----------------------------------------------------------------------------
(* The variables of a library that is not looked at have the value 0. *)
sdCardOff ==
  /\ chipSelect = 0 /\ inBlock = 0 /\ block = 0 /\ offset = 0 /\ partialBlockRead = 0
  /\ type = 0 /\ errorCode = 0 /\ cardMode = 0 /\ cardBlock = 0 /\ cardAt = 0
  /\ stored = 0 /\ writing = 0 /\ confused = 0 /\ cutOff = 0 /\ got = 0 /\ wanted = 0
flashOff ==
  /\ chip = 0 /\ should = 0 /\ gotten = 0 /\ flashCalls = 0
waypointsOff ==
  /\ power = 0 /\ eeprom = 0 /\ writes = 0 /\ loaded = 0 /\ silent = 0 /\ course = 0
  /\ before = 0 /\ torn = 0
loggerOff ==
  /\ pc = 0 /\ start = 0 /\ exists = 0 /\ logs = 0 /\ logfile = 0 /\ unflushed = 0
  /\ count = 0 /\ lights = 0
cc3000Off ==
  /\ transport = 0 /\ call = 0 /\ script = 0 /\ usRxEventOpcode = 0 /\ usRxDataPending = 0
  /\ usEventOrDataReceived = 0 /\ pucReceivedData = 0 /\ usNumberOfFreeBuffers = 0
  /\ NumberOfSentPackets = 0 /\ NumberOfReleasedPackets = 0 /\ slTransmitDataError = 0
  /\ InformHostOnTxComplete = 0 /\ socketActive = 0 /\ reg = 0 /\ ret = 0 /\ due = 0
  /\ held = 0 /\ answered = 0 /\ told = 0 /\ patched = 0
cc3000BusOff ==
  /\ ulSpiState = 0 /\ interrupt = 0 /\ edge = 0 /\ HOST_nCS = 0 /\ writer = 0
  /\ begun = 0 /\ clocked = 0
twoWireOff ==
  /\ role = 0 /\ twi = 0 /\ tw = 0 /\ caller = 0 /\ asked = 0 /\ device = 0 /\ other = 0 /\ result = 0
  /\ transfers = 0
servoOff ==
  /\ servos = 0 /\ ServoCount = 0 /\ object = 0 /\ Channel = 0 /\ OCRnA = 0 /\ timerOn = 0
  /\ attaching = 0 /\ level = 0 /\ pulse = 0 /\ left = 0 /\ late = 0 /\ calls = 0
  /\ misread = 0
stepperOff ==
  /\ motor = 0 /\ clock = 0 /\ stepsLeft = 0 /\ coils = 0 /\ shaft = 0 /\ waited = 0
displayOff ==
  /\ lcd = 0 /\ pulses = 0 /\ panel = 0 /\ cgram = 0 /\ holds = 0 /\ lcdCalls = 0
stateMachineOff ==
  /\ fsm = 0 /\ millis = 0 /\ entered = 0 /\ early = 0 /\ requested = 0
w5100Off ==
  /\ ethMode = 0 /\ ethStatus = 0 /\ tx = 0 /\ rx = 0 /\ ethCall = 0 /\ udp = 0
  /\ inFlight = 0 /\ written = 0 /\ onWire = 0 /\ arrived = 0 /\ readBack = 0
  /\ packets = 0
socketsOff ==
  /\ status = 0 /\ available = 0 /\ _server_port = 0 /\ _sock = 0 /\ serving = 0 /\ own = 0
  /\ ended = 0 /\ outlived = 0 /\ badAddress = 0 /\ serverRan = 0
dhcpOff ==
  /\ dh = 0 /\ inside = 0 /\ air = 0 /\ granted = 0 /\ leaseLeft = 0 /\ chipIp = 0
  /\ dhCalls = 0
wifiOff ==
  /\ wifiCall = 0 /\ said = 0 /\ wifiResult = 0 /\ exchange = 0 /\ buffers = 0
  /\ _state = 0 /\ serverSocks = 0

Init ==
  \/ /\ part = "sdCard" /\ SC!Init
     /\ flashOff /\ waypointsOff /\ loggerOff /\ cc3000Off /\ cc3000BusOff /\ twoWireOff
     /\ servoOff /\ stepperOff /\ displayOff /\ stateMachineOff /\ w5100Off /\ socketsOff
     /\ dhcpOff /\ wifiOff
  \/ /\ part = "flash" /\ FL!Init
     /\ sdCardOff /\ waypointsOff /\ loggerOff /\ cc3000Off /\ cc3000BusOff /\ twoWireOff
     /\ servoOff /\ stepperOff /\ displayOff /\ stateMachineOff /\ w5100Off /\ socketsOff
     /\ dhcpOff /\ wifiOff
  \/ /\ part = "waypoints" /\ WS!Init
     /\ sdCardOff /\ flashOff /\ loggerOff /\ cc3000Off /\ cc3000BusOff /\ twoWireOff
     /\ servoOff /\ stepperOff /\ displayOff /\ stateMachineOff /\ w5100Off /\ socketsOff
     /\ dhcpOff /\ wifiOff
  \/ /\ part = "logger" /\ LG!Init
     /\ sdCardOff /\ flashOff /\ waypointsOff /\ cc3000Off /\ cc3000BusOff /\ twoWireOff
     /\ servoOff /\ stepperOff /\ displayOff /\ stateMachineOff /\ w5100Off /\ socketsOff
     /\ dhcpOff /\ wifiOff
  \/ /\ part = "cc3000" /\ CC!Init
     /\ sdCardOff /\ flashOff /\ waypointsOff /\ loggerOff /\ cc3000BusOff /\ twoWireOff
     /\ servoOff /\ stepperOff /\ displayOff /\ stateMachineOff /\ w5100Off /\ socketsOff
     /\ dhcpOff /\ wifiOff
  \/ /\ part = "cc3000Bus" /\ CS!Init
     /\ sdCardOff /\ flashOff /\ waypointsOff /\ loggerOff /\ cc3000Off /\ twoWireOff
     /\ servoOff /\ stepperOff /\ displayOff /\ stateMachineOff /\ w5100Off /\ socketsOff
     /\ dhcpOff /\ wifiOff
  \/ /\ part = "twoWire" /\ TW!Init
     /\ sdCardOff /\ flashOff /\ waypointsOff /\ loggerOff /\ cc3000Off /\ cc3000BusOff
     /\ servoOff /\ stepperOff /\ displayOff /\ stateMachineOff /\ w5100Off /\ socketsOff
     /\ dhcpOff /\ wifiOff
  \/ /\ part = "servo" /\ SV!Init
     /\ sdCardOff /\ flashOff /\ waypointsOff /\ loggerOff /\ cc3000Off /\ cc3000BusOff
     /\ twoWireOff /\ stepperOff /\ displayOff /\ stateMachineOff /\ w5100Off /\ socketsOff
     /\ dhcpOff /\ wifiOff
  \/ /\ part = "stepper" /\ SP!Init
     /\ sdCardOff /\ flashOff /\ waypointsOff /\ loggerOff /\ cc3000Off /\ cc3000BusOff
     /\ twoWireOff /\ servoOff /\ displayOff /\ stateMachineOff /\ w5100Off /\ socketsOff
     /\ dhcpOff /\ wifiOff
  \/ /\ part = "display" /\ LC!Init
     /\ sdCardOff /\ flashOff /\ waypointsOff /\ loggerOff /\ cc3000Off /\ cc3000BusOff
     /\ twoWireOff /\ servoOff /\ stepperOff /\ stateMachineOff /\ w5100Off /\ socketsOff
     /\ dhcpOff /\ wifiOff
  \/ /\ part = "stateMachine" /\ FS!Init
     /\ sdCardOff /\ flashOff /\ waypointsOff /\ loggerOff /\ cc3000Off /\ cc3000BusOff
     /\ twoWireOff /\ servoOff /\ stepperOff /\ displayOff /\ w5100Off /\ socketsOff
     /\ dhcpOff /\ wifiOff
  \/ /\ part = "w5100" /\ WZ!Init
     /\ sdCardOff /\ flashOff /\ waypointsOff /\ loggerOff /\ cc3000Off /\ cc3000BusOff
     /\ twoWireOff /\ servoOff /\ stepperOff /\ displayOff /\ stateMachineOff /\ socketsOff
     /\ dhcpOff /\ wifiOff
  \/ /\ part = "sockets" /\ ES!Init
     /\ sdCardOff /\ flashOff /\ waypointsOff /\ loggerOff /\ cc3000Off /\ cc3000BusOff
     /\ twoWireOff /\ servoOff /\ stepperOff /\ displayOff /\ stateMachineOff /\ w5100Off
     /\ dhcpOff /\ wifiOff
  \/ /\ part = "dhcp" /\ DH!Init
     /\ sdCardOff /\ flashOff /\ waypointsOff /\ loggerOff /\ cc3000Off /\ cc3000BusOff
     /\ twoWireOff /\ servoOff /\ stepperOff /\ displayOff /\ stateMachineOff /\ w5100Off
     /\ socketsOff /\ wifiOff
  \/ /\ part = "wifi" /\ WF!Init
     /\ sdCardOff /\ flashOff /\ waypointsOff /\ loggerOff /\ cc3000Off /\ cc3000BusOff
     /\ twoWireOff /\ servoOff /\ stepperOff /\ displayOff /\ stateMachineOff /\ w5100Off
     /\ socketsOff /\ dhcpOff

Next ==
  \/ /\ part = "sdCard" /\ SC!Next
     /\ UNCHANGED <<part, flash, waypoints, logger, cc3000, cc3000Bus, twoWire, servo,
                   stepper, display, stateMachine, w5100, sockets, dhcp, wifi>>
  \/ /\ part = "flash" /\ FL!Next
     /\ UNCHANGED <<part, sdCard, waypoints, logger, cc3000, cc3000Bus, twoWire, servo,
                   stepper, display, stateMachine, w5100, sockets, dhcp, wifi>>
  \/ /\ part = "waypoints" /\ WS!Next
     /\ UNCHANGED <<part, sdCard, flash, logger, cc3000, cc3000Bus, twoWire, servo,
                   stepper, display, stateMachine, w5100, sockets, dhcp, wifi>>
  \/ /\ part = "logger" /\ LG!Next
     /\ UNCHANGED <<part, sdCard, flash, waypoints, cc3000, cc3000Bus, twoWire, servo,
                   stepper, display, stateMachine, w5100, sockets, dhcp, wifi>>
  \/ /\ part = "cc3000" /\ CC!Next
     /\ UNCHANGED <<part, sdCard, flash, waypoints, logger, cc3000Bus, twoWire, servo,
                   stepper, display, stateMachine, w5100, sockets, dhcp, wifi>>
  \/ /\ part = "cc3000Bus" /\ CS!Next
     /\ UNCHANGED <<part, sdCard, flash, waypoints, logger, cc3000, twoWire, servo,
                   stepper, display, stateMachine, w5100, sockets, dhcp, wifi>>
  \/ /\ part = "twoWire" /\ TW!Next
     /\ UNCHANGED <<part, sdCard, flash, waypoints, logger, cc3000, cc3000Bus, servo,
                   stepper, display, stateMachine, w5100, sockets, dhcp, wifi>>
  \/ /\ part = "servo" /\ SV!Next
     /\ UNCHANGED <<part, sdCard, flash, waypoints, logger, cc3000, cc3000Bus, twoWire,
                   stepper, display, stateMachine, w5100, sockets, dhcp, wifi>>
  \/ /\ part = "stepper" /\ SP!Next
     /\ UNCHANGED <<part, sdCard, flash, waypoints, logger, cc3000, cc3000Bus, twoWire,
                   servo, display, stateMachine, w5100, sockets, dhcp, wifi>>
  \/ /\ part = "display" /\ LC!Next
     /\ UNCHANGED <<part, sdCard, flash, waypoints, logger, cc3000, cc3000Bus, twoWire,
                   servo, stepper, stateMachine, w5100, sockets, dhcp, wifi>>
  \/ /\ part = "stateMachine" /\ FS!Next
     /\ UNCHANGED <<part, sdCard, flash, waypoints, logger, cc3000, cc3000Bus, twoWire,
                   servo, stepper, display, w5100, sockets, dhcp, wifi>>
  \/ /\ part = "w5100" /\ WZ!Next
     /\ UNCHANGED <<part, sdCard, flash, waypoints, logger, cc3000, cc3000Bus, twoWire,
                   servo, stepper, display, stateMachine, sockets, dhcp, wifi>>
  \/ /\ part = "sockets" /\ ES!Next
     /\ UNCHANGED <<part, sdCard, flash, waypoints, logger, cc3000, cc3000Bus, twoWire,
                   servo, stepper, display, stateMachine, w5100, dhcp, wifi>>
  \/ /\ part = "dhcp" /\ DH!Next
     /\ UNCHANGED <<part, sdCard, flash, waypoints, logger, cc3000, cc3000Bus, twoWire,
                   servo, stepper, display, stateMachine, w5100, sockets, wifi>>
  \/ /\ part = "wifi" /\ WF!Next
     /\ UNCHANGED <<part, sdCard, flash, waypoints, logger, cc3000, cc3000Bus, twoWire,
                   servo, stepper, display, stateMachine, w5100, sockets, dhcp>>

Spec == Init /\ [][Next]_vars
-----------------------------------------------------------------------------
\* Sd2Card: a read, whole or in parts, returns the bytes asked for as they are on the
\* card, and the card gets no command in the middle of a transfer, unless a call has
\* reported an error; between calls it is selected only in a read in parts or a sequence
\* of writes, and in a read in parts it stays selected. From a read past the end of a
\* block (Sd2Card.cpp:362) that comes between two parts of one until init, only the selection
\* between calls is claimed: the card is deselected and the next part read from nothing.
CardProtocol ==
  part = "sdCard" => /\ SC!ReadsWhatWasAsked
                     /\ SC!NoCommandInTransfer
                     /\ SC!BusReleased

\* Flash: at rest the chip holds what the calls asked for that it could hear, and a read
\* the chip can hear returns the byte stored at its address.
FlashHolds ==
  part = "flash" => FL!StoredAsCalled /\ FL!ReadsStored

\* Tracker: a course stored to the end comes back, up to what a byte counts; a store cut
\* short leaves the old number of gates, none, or the new one; and a whole gate of a
\* torn course is of that place, new or from before.
CourseKept ==
  part = "waypoints" => WS!RoundTrip /\ WS!TornCount /\ WS!TornGates

\* Logger: every log but the last name's is of one start of the program, and no line
\* that was readable on the card is taken off it; and the lights blink green exactly
\* when the receiver has been told, once, to send RMC lines only.
LogsKept ==
  /\ [](part = "logger" => LG!OneStartPerLog /\ LG!GreenIsTold)
  /\ [][part = "logger" => LG!LogsOnlyGrowStep]_vars

\* CC3000: over the SPI transport as it is ported no call gets an answer, wlan_start
\* waits for ever, and a write waits for ever only after a packet was read; a write that
\* returns has clocked out its packet, once. Over a transport that does hand on what it
\* reads: a call that returns has the radio's answer to its own command; the driver never
\* gives the radio more packets than it has buffers; between calls the only answer that
\* can sit in the receive buffer, and hold up flow control, is that of wlan_connect; and
\* the program is told that the radio can be shut down only when it holds no packet.
RadioCalls ==
  /\ [](part = "cc3000Bus" => CS!StuckOnlyAfterRead /\ CS!ClockedOnce)
  /\ [](part = "cc3000" => /\ CC!NeverAnswered
                           /\ CC!OwnAnswer /\ CC!NoOverrun /\ CC!OnlyConnectPauses)
  /\ [][part = "cc3000" => CC!ShutDownIsSafeStep]_vars

\* Wire: what a request returns is the bytes of one transfer of the device, as many as
\* it says; endTransmission reports success exactly if the device took every byte; the
\* driver is ready exactly when no transfer is going on at the bus; a master that reads
\* from the node gets the bytes its callback wrote for this request, and what such a master
\* writes is what the callback for messages gets. What other masters can disturb, and how,
\* is said at each of the five.
BusTransfers ==
  part = "twoWire" => /\ TW!RequestIsWhole
                      /\ TW!EndIsAcknowledged
                      /\ TW!ReadyMeansFree
                      /\ TW!ServesLastWrite
                      /\ TW!CallbackGetsMessage

\* Servo: a pulse is as long as the position commanded before it began; a pin is high
\* only during its pulse, unless it was detached in the middle of one; and the position
\* read back is the one written. Stepper: step_number is the position of the shaft
\* within a turn; two steps are never closer than the delay, also when the clock wraps
\* between them; and each step moves the field by one position, if a turn is a multiple
\* of four steps.
MotionAsCommanded ==
  /\ [](part = "servo" => SV!PulseIsCommanded /\ SV!NoPinLeftHigh /\ SV!ReadIsWritten)
  /\ [](part = "stepper" => SP!PositionIsNet)
  /\ [][part = "stepper" => SP!StepsSpacedStep]_vars
  /\ [][part = "stepper" => SP!NeighbouringCoilsStep]_vars

\* LiquidCrystal: after begin driver and display agree on the halves of a byte, from
\* whatever state the display is in; the display has the settings the driver remembers;
\* and a glyph holds the rows it was last given.
DisplayInStep ==
  part = "display" => LC!Synchronised /\ LC!SettingsAgree /\ LC!GlyphsIntact

\* FSM: enter and exit callbacks pair up, unless a transition came before the first
\* update, and an update makes the state current that was asked for last.
TransitionsPaired ==
  /\ [](part = "stateMachine" => FS!EnterExitPaired)
  /\ [][part = "stateMachine" => FS!LastRequestServedStep]_vars

\* W5100: what goes over the wire is what was written, in order, through the wrap of
\* ring and pointers; bytes on their way are not overwritten before they are
\* acknowledged; a read returns the next bytes that arrived and no others. Ethernet: a
\* socket is not opened for another while the connection of its object lives; a server
\* that was called and could have a socket listens; a socket in use belongs to an
\* object, unless its address was refused. DHCP: the address in use was granted to this
\* client, and the renewal of a lease is asked for before it runs out, when maintain is
\* called at least twice while it lasts. The exceptions are stated at each of them.
EthernetSound ==
  /\ part = "w5100" => WZ!SentAsWritten /\ WZ!UnacknowledgedKept /\ WZ!ReadsNext
  /\ part = "sockets" => ES!NoTakeover /\ ES!ServerListens /\ ES!NothingForgotten
  /\ part = "dhcp" => DH!AddressIsGranted /\ DH!RenewedInTime

\* WiFi: a write reports success only if the shield said that the data was sent;
\* hostByName succeeds only with the address the shield resolved; a reply that is late,
\* empty, an error or for another command is never taken for the answer; and a command
\* on the wire has the number and the lengths of its parameters, and its end.
ShieldAnswers ==
  part = "wifi" => /\ WF!WriteConfirmed
                   /\ WF!HostIsResolved
                   /\ WF!GarbledIsFailure
                   /\ WF!CommandIsWhole
=============================================================================
