----------------------------------- MODULE WiFi -----------------------------------
(***************************************************************************)
(* The WiFi shield library: the command frames on the SPI bus               *)
(* (libraries/WiFi/utility/spi_drv.cpp), the driver calls                   *)
(* (utility/wifi_drv.cpp, utility/server_drv.cpp) and the calls of a sketch *)
(* that are made of several of them (WiFi.cpp, WiFiClient.cpp,              *)
(* WiFiServer.cpp): joining a network, scanning, resolving a name, writing. *)
(*                                                                         *)
(* The shield is external: it answers a command with any of its Answers,    *)
(* and the reply reaches the driver in one of several Conditions.           *)
(* Length fields are one cell; a chunk of data is one cell.                 *)
(***************************************************************************)
EXTENDS Integers, Sequences, FiniteSets, SequencesExt

CONSTANTS TIMEOUT_CHAR,   \* cells read while waiting for the start of a reply (1000)
          Attempts,       \* WL_MAX_ATTEMPT_CONNECTION and the like (10; 25 for a write)
          MAX_SOCK_NUM,
          Addresses       \* what a name can resolve to

VARIABLES wifiCall,       \* the call of the sketch in progress: [op, phase, left, sock]
          said,           \* what the shield really answered during the call
          wifiResult,     \* [op, value, said] of the last call that returned
          exchange,       \* the last command: [cmd, request, good, answer, value]
          buffers,        \* contents of the driver's static buffers
          _state,         \* WiFiClass::_state
          serverSocks     \* sockets whose _server_port is the server's port

wifiVars == <<wifiCall, said, wifiResult, exchange, buffers, _state, serverSocks>>

START_CMD == 224
END_CMD == 238
ERR_CMD == 239
REPLY_FLAG == 128
DUMMY_DATA == 255
WL_FAILURE == -1
WL_SUCCESS == 1
WL_NO_SHIELD == 255
WL_IDLE_STATUS == 0
WL_SCAN_COMPLETED == 2
WL_CONNECTED == 3
WL_CONNECT_FAILED == 4
CLOSED == 0
ESTABLISHED == 4
Dummy == <<<<DUMMY_DATA>>>>

\* The commands, with the parameters each driver call sends (one for a socket number, one for a
\* port or an address, one for a chunk of data).
Requests ==
  [SET_NET |-> <<<<1>>>>, SET_PASSPHRASE |-> <<<<1>>, <<2>>>>, SET_KEY |-> <<<<1>>, <<0>>, <<2>>>>,
   DISCONNECT |-> Dummy, GET_CONN_STATUS |-> <<>>, GET_MACADDR |-> Dummy, GET_IPADDR |-> Dummy,
   GET_CURR_SSID |-> Dummy, GET_CURR_BSSID |-> Dummy, GET_CURR_RSSI |-> Dummy, GET_CURR_ENCT |-> Dummy,
   START_SCAN_NETWORKS |-> <<>>, SCAN_NETWORKS |-> <<>>, GET_IDX_ENCT |-> <<<<0>>>>, GET_IDX_RSSI |-> <<<<0>>>>,
   REQ_HOST_BY_NAME |-> <<<<7, 8>>>>, GET_HOST_BY_NAME |-> <<>>, GET_FW_VERSION |-> <<>>,
   START_SERVER_TCP |-> <<<<0, 80>>, <<0>>>>, START_CLIENT_TCP |-> <<<<9>>, <<0, 80>>, <<0>>>>,
   STOP_CLIENT_TCP |-> <<<<0>>>>, GET_STATE_TCP |-> <<<<0>>>>, GET_CLIENT_STATE_TCP |-> <<<<0>>>>,
   AVAIL_DATA_TCP |-> <<<<0>>>>, GET_DATA_TCP |-> <<<<0>>, <<0, 0>>>>, GET_DATABUF_TCP |-> <<<<0>>>>,
   SEND_DATA_TCP |-> <<<<0>>, <<5>>>>, DATA_SENT_TCP |-> <<<<0>>>>]

Commands == DOMAIN Requests

Codes ==
  [SET_NET |-> 16, SET_PASSPHRASE |-> 17, SET_KEY |-> 18, GET_CONN_STATUS |-> 32, GET_IPADDR |-> 33,
   GET_MACADDR |-> 34, GET_CURR_SSID |-> 35, GET_CURR_BSSID |-> 36, GET_CURR_RSSI |-> 37,
   GET_CURR_ENCT |-> 38, SCAN_NETWORKS |-> 39, START_SERVER_TCP |-> 40, GET_STATE_TCP |-> 41,
   DATA_SENT_TCP |-> 42, AVAIL_DATA_TCP |-> 43, GET_DATA_TCP |-> 44, START_CLIENT_TCP |-> 45,
   STOP_CLIENT_TCP |-> 46, GET_CLIENT_STATE_TCP |-> 47, DISCONNECT |-> 48, GET_IDX_RSSI |-> 50,
   GET_IDX_ENCT |-> 51, REQ_HOST_BY_NAME |-> 52, GET_HOST_BY_NAME |-> 53, START_SCAN_NETWORKS |-> 54,
   GET_FW_VERSION |-> 55, SEND_DATA_TCP |-> 68, GET_DATABUF_TCP |-> 69]

Code(cmd) == Codes[cmd]

(*--------------------------- the frames on the bus ------------------------*)
sendCmd(cmd, numParam) == <<START_CMD, Code(cmd), numParam>> \o IF numParam = 0 THEN <<END_CMD>> ELSE <<>>

sendParamNoEnd(param, lastParam) == <<Len(param)>> \o param

sendParam(param, lastParam) == <<Len(param)>> \o param \o IF lastParam THEN <<END_CMD>> ELSE <<>>

Request(cmd) ==
  sendCmd(cmd, Len(Requests[cmd]))
    \o FlattenSeq([i \in 1 .. Len(Requests[cmd]) |-> sendParam(Requests[cmd][i], i = Len(Requests[cmd]))])

At(stream, i) == IF i <= Len(stream) THEN stream[i] ELSE DUMMY_DATA

\* How many cells waitSpiChar reads; an error code ends the wait as a start would.
StartAt(stream) == {i \in 1 .. TIMEOUT_CHAR + 1 : At(stream, i) \in {START_CMD, ERR_CMD}}

NoReply == [ok |-> FALSE, params |-> <<>>]

\* Where the n-th parameter starts, with its length, if the first starts at cell i.
ParamAt(line, i, n) ==
  LET at[k \in 1 .. n] == IF k = 1 THEN i ELSE at[k - 1] + 1 + At(line, at[k - 1]) IN at[n]

\* numParam parameters from cell i on.
Params(stream, i, numParam) ==
  [n \in 1 .. numParam |->
    LET start == ParamAt(stream, i, n) IN [k \in 1 .. At(stream, start) |-> At(stream, start + k)]]

AnswersAny(cell, cmd) == cell >= REPLY_FLAG

AnswersTo(cell, cmd) == cell = Code(cmd) + REPLY_FLAG

\* The common head of the five readers: start, reply code, number of parameters.
Reply(stream, cmd, mayBe(_)) ==
  IF StartAt(stream) = {} THEN NoReply
  ELSE LET i == CHOOSE j \in StartAt(stream) : \A k \in StartAt(stream) : j <= k
       IN  IF ~AnswersTo(At(stream, i + 1), cmd) \/ ~mayBe(At(stream, i + 2)) THEN NoReply
           ELSE [ok |-> TRUE, params |-> Params(stream, i + 3, At(stream, i + 2))]

waitResponseCmd(stream, cmd) == Reply(stream, cmd, LAMBDA n : n = 1)

waitResponseData8(stream, cmd) == Reply(stream, cmd, LAMBDA n : TRUE)

waitResponseData16(stream, cmd) == Reply(stream, cmd, LAMBDA n : TRUE)

\* The parameters are stored as they are read; that they are too few shows only afterwards.
waitResponseParams(stream, cmd, numParam) ==
  LET r == Reply(stream, cmd, LAMBDA n : n /= 0)
  IN  [ok |-> r.ok /\ Len(r.params) = numParam, params |-> r.params]

waitResponse(stream, cmd) == Reply(stream, cmd, LAMBDA n : n /= 0)

(*--------------------------- the driver calls -----------------------------*)
First(r, default) == IF r.params /= <<>> /\ r.params[1] /= <<>> THEN r.params[1][1] ELSE default

Buffered == {"GET_MACADDR", "GET_IPADDR", "GET_CURR_SSID", "GET_CURR_BSSID", "GET_FW_VERSION"}

\* What a driver call returns, given the cells it reads.
JoinValue(cmd, r) ==
  CASE cmd = "SET_NET"                       -> IF First(r, 0) = 1 THEN WL_SUCCESS ELSE WL_FAILURE
    [] cmd \in {"SET_PASSPHRASE", "SET_KEY"} -> First(r, WL_FAILURE)
    [] cmd = "DISCONNECT"                    -> IF r.ok THEN 1 ELSE 0
    [] cmd = "GET_CONN_STATUS"               -> First(r, WL_NO_SHIELD)

\* The address, the names and the firmware version are read into static buffers.
InfoValue(cmd, r) == First(r, IF cmd \in Buffered THEN buffers[cmd] ELSE 0)

\* What has been read is used, whether or not all of it came.
getNetworkData(stream) == First(waitResponseParams(stream, "GET_IPADDR", 3), buffers["GET_IPADDR"])

\* startScanNetworks compares an unsigned byte with -1 and so never reports a failure.
ScanValue(cmd, stream) ==
  IF cmd = "START_SCAN_NETWORKS" THEN WL_SUCCESS ELSE Len(waitResponse(stream, cmd).params)

HostValue(cmd, r) == IF cmd = "REQ_HOST_BY_NAME" THEN (IF r.ok THEN 1 ELSE 0) ELSE First(r, DUMMY_DATA)

SocketValue(cmd, r) ==
  CASE cmd \in {"START_SERVER_TCP", "START_CLIENT_TCP", "STOP_CLIENT_TCP"} -> 0
    [] cmd = "AVAIL_DATA_TCP" -> IF First(r, 0) = 1 THEN 1 ELSE 0
    [] OTHER                  -> First(r, 0)

\* getData stores no byte and returns false (-1 here) if none came; getDataBuf returns false
\* only for data of no length, as its caller has put the size of its buffer for the length.
DataValue(cmd, stream) ==
  IF cmd = "GET_DATABUF_TCP"
  THEN IF waitResponseData16(stream, cmd).params = <<<<>>>> THEN 0 ELSE 1
  ELSE First(waitResponseData8(stream, cmd), IF cmd = "GET_DATA_TCP" THEN WL_FAILURE ELSE 0)

Value(cmd, stream) ==
  CASE cmd \in {"SET_NET", "SET_PASSPHRASE", "SET_KEY", "DISCONNECT", "GET_CONN_STATUS"} ->
         JoinValue(cmd, waitResponseCmd(stream, cmd))
    [] cmd = "GET_IPADDR" -> getNetworkData(stream)
    [] cmd \in {"START_SCAN_NETWORKS", "SCAN_NETWORKS"} -> ScanValue(cmd, stream)
    [] cmd \in {"REQ_HOST_BY_NAME", "GET_HOST_BY_NAME"} -> HostValue(cmd, waitResponseCmd(stream, cmd))
    [] cmd \in {"START_SERVER_TCP", "START_CLIENT_TCP", "STOP_CLIENT_TCP", "GET_STATE_TCP",
                "GET_CLIENT_STATE_TCP", "AVAIL_DATA_TCP", "DATA_SENT_TCP"} ->
         SocketValue(cmd, waitResponseCmd(stream, cmd))
    [] cmd \in {"GET_DATA_TCP", "GET_DATABUF_TCP", "SEND_DATA_TCP"} -> DataValue(cmd, stream)
    [] OTHER -> InfoValue(cmd, waitResponseCmd(stream, cmd))

(*-------------------------------- the shield ------------------------------*)
Answers(cmd) ==
  CASE cmd = "GET_CONN_STATUS"      -> {<<<<s>>>> : s \in {WL_IDLE_STATUS, WL_SCAN_COMPLETED, WL_CONNECTED, WL_CONNECT_FAILED}}
    [] cmd = "GET_HOST_BY_NAME"     -> {<<<<a>>>> : a \in Addresses \cup {DUMMY_DATA}}
    [] cmd = "GET_IPADDR"           -> {<<<<1>>, <<2>>, <<3>>>>, <<<<4>>>>}
    [] cmd = "SCAN_NETWORKS"        -> {<<>>, <<<<1>>, <<2, 2>>>>}
    [] cmd \in {"GET_STATE_TCP", "GET_CLIENT_STATE_TCP"} -> {<<<<CLOSED>>>>, <<<<ESTABLISHED>>>>}
    [] cmd \in {"DATA_SENT_TCP", "AVAIL_DATA_TCP", "SEND_DATA_TCP"} -> {<<<<0>>>>, <<<<1>>>>}
    [] cmd = "GET_DATABUF_TCP"      -> {<<<<1>>>>, <<<<>>>>}
    [] OTHER -> {<<<<1>>>>}

\* How the reply comes; "endless" is one without its end mark.
Conditions == {"whole", "delayed", "endless", "silent", "error", "other", "empty"}

Body(code, params) ==
  <<START_CMD, code, Len(params)>> \o FlattenSeq([i \in 1 .. Len(params) |-> <<Len(params[i])>> \o params[i]])

Frame(code, params) == Body(code, params) \o <<END_CMD>>

Stream(cmd, answer, condition) ==
  LET whole == Frame(Code(cmd) + REPLY_FLAG, answer)
  IN  CASE condition = "whole"   -> whole
        [] condition = "delayed" -> [i \in 1 .. TIMEOUT_CHAR |-> DUMMY_DATA] \o whole
        [] condition = "endless" -> Body(Code(cmd) + REPLY_FLAG, answer)
        [] condition = "silent"  -> [i \in 1 .. TIMEOUT_CHAR + 1 |-> DUMMY_DATA] \o whole
        [] condition = "error"   -> <<ERR_CMD>> \o whole
        [] condition = "other"   -> Frame(Code(cmd) + 1 + REPLY_FLAG, answer)
        [] condition = "empty"   -> Frame(Code(cmd) + REPLY_FLAG, <<>>)

\* Nothing depends on the end mark: readAndCheckChar is called for it, its result is dropped.
Good(condition) == condition \in {"whole", "delayed", "endless"}

\* One command: select, send, wait until the shield is ready, read the reply, deselect.
Ask(cmd, Then(_, _)) ==
  \E answer \in Answers(cmd), condition \in Conditions :
    \E v \in {Value(cmd, Stream(cmd, answer, condition))} :
      /\ exchange' = [cmd |-> cmd, request |-> Request(cmd), good |-> Good(condition), answer |-> answer,
                      value |-> v, before |-> IF cmd \in Buffered THEN buffers[cmd] ELSE 0]
      /\ buffers' = IF cmd \in Buffered THEN [buffers EXCEPT ![cmd] = v] ELSE buffers
      /\ Then(v, IF Good(condition) THEN answer ELSE <<>>)

(*--------------------------- calls of the sketch --------------------------*)
None == [op |-> "none", phase |-> "", left |-> 0, sock |-> 0]
Nothing == [taken |-> FALSE, sent |-> FALSE, address |-> DUMMY_DATA]

Returns(value) ==
  /\ wifiResult' = [op |-> wifiCall.op, value |-> value, said |-> said']
  /\ wifiCall' = None

Goes(phase, left) == wifiCall' = [wifiCall EXCEPT !.phase = phase, !.left = left] /\ UNCHANGED wifiResult

Quiet == [cmd |-> "none", request |-> <<>>, good |-> TRUE, answer |-> <<>>, value |-> 0, before |-> 0]

Calls(op, phase, sock) ==
  /\ wifiCall = None
  /\ wifiCall' = [op |-> op, phase |-> phase, left |-> Attempts, sock |-> sock]
  /\ said' = Nothing
  /\ wifiResult' = [op |-> "none", value |-> 0, said |-> Nothing]
  /\ exchange' = Quiet
  /\ UNCHANGED <<buffers, _state, serverSocks>>

Static == UNCHANGED <<_state, serverSocks>>

\* begin(ssid), begin(ssid, key), begin(ssid, passphrase): set the network, then poll the status.
begin == \E cmd \in {"SET_NET", "SET_PASSPHRASE", "SET_KEY"} : Calls("begin", cmd, 0)

BeginSet ==
  /\ wifiCall.op = "begin" /\ wifiCall.phase /= "poll"
  /\ Ask(wifiCall.phase, LAMBDA v, a :
       UNCHANGED said /\ IF v = WL_FAILURE THEN Returns(WL_CONNECT_FAILED) ELSE Goes("poll", Attempts))
  /\ Static

BeginPoll ==
  /\ wifiCall.op = "begin" /\ wifiCall.phase = "poll"
  /\ Ask("GET_CONN_STATUS", LAMBDA v, a :
       UNCHANGED said
         /\ IF v \in {WL_IDLE_STATUS, WL_SCAN_COMPLETED} /\ wifiCall.left > 1
            THEN Goes("poll", wifiCall.left - 1) ELSE Returns(v))
  /\ Static

scanNetworks == Calls("scan", "start", 0)

ScanStart ==
  /\ wifiCall.op = "scan" /\ wifiCall.phase = "start"
  /\ Ask("START_SCAN_NETWORKS", LAMBDA v, a : UNCHANGED said /\ Goes("poll", Attempts))
  /\ Static

ScanPoll ==
  /\ wifiCall.op = "scan" /\ wifiCall.phase = "poll"
  /\ Ask("SCAN_NETWORKS", LAMBDA v, a :
       UNCHANGED said /\ IF v = 0 /\ wifiCall.left > 1 THEN Goes("poll", wifiCall.left - 1) ELSE Returns(v))
  /\ Static

hostByName == Calls("host", "request", 0)

HostRequest ==
  /\ wifiCall.op = "host" /\ wifiCall.phase = "request"
  /\ Ask("REQ_HOST_BY_NAME", LAMBDA v, a : UNCHANGED said /\ IF v = 0 THEN Returns(0) ELSE Goes("poll", Attempts))
  /\ Static

ResolvedLate(retry) == retry >= 0

\* The name was resolved if the retries were not used up.
Resolved(retry) == retry > 0

HostAfter(v, retry) ==
  IF v = DUMMY_DATA /\ retry > 0 THEN Goes("poll", retry) ELSE Returns(IF Resolved(retry) THEN 1 ELSE 0)

HostPoll ==
  /\ wifiCall.op = "host" /\ wifiCall.phase = "poll"
  /\ Ask("GET_HOST_BY_NAME", LAMBDA v, a :
       /\ said' = [said EXCEPT !.address = IF a = <<>> THEN @ ELSE a[1][1]]
       /\ HostAfter(v, wifiCall.left - IF v = DUMMY_DATA THEN 1 ELSE 0))
  /\ Static

\* The calls that are one command.
query == \E cmd \in {"GET_CONN_STATUS", "DISCONNECT", "GET_CURR_RSSI", "GET_CURR_ENCT", "GET_IDX_ENCT", "GET_IDX_RSSI",
                     "AVAIL_DATA_TCP", "GET_DATABUF_TCP", "GET_STATE_TCP"} \cup Buffered : Calls("query", cmd, 0)

QueryAsk == wifiCall.op = "query" /\ Ask(wifiCall.phase, LAMBDA v, a : UNCHANGED said /\ Returns(v)) /\ Static

(*------------------------------ the client --------------------------------*)
\* getFirstSocket: socket 0 is marked with its own number, 0, so it always looks free.
FirstSocket == IF \E i \in 0 .. MAX_SOCK_NUM - 1 : _state[i] = 0
                 THEN CHOOSE i \in 0 .. MAX_SOCK_NUM - 1 : _state[i] = 0 /\ \A j \in 0 .. i - 1 : _state[j] /= 0
                 ELSE 255

connect == Calls("connect", "start", FirstSocket)

ConnectStart ==
  /\ wifiCall.op = "connect" /\ wifiCall.phase = "start"
  /\ Ask("START_CLIENT_TCP", LAMBDA v, a : UNCHANGED said /\ Goes("poll", Attempts))
  /\ _state' = [_state EXCEPT ![wifiCall.sock] = wifiCall.sock]
  /\ UNCHANGED serverSocks

ConnectPoll ==
  /\ wifiCall.op = "connect" /\ wifiCall.phase = "poll"
  /\ Ask("GET_CLIENT_STATE_TCP", LAMBDA v, a :
       UNCHANGED said /\ IF v = CLOSED /\ wifiCall.left > 1 THEN Goes("poll", wifiCall.left - 1)
                         ELSE Returns(IF v = CLOSED THEN 0 ELSE 1))
  /\ Static

stop == Calls("stop", "start", 0)

StopStart ==
  /\ wifiCall.op = "stop" /\ wifiCall.phase = "start"
  /\ Ask("STOP_CLIENT_TCP", LAMBDA v, a : UNCHANGED said /\ Goes("poll", Attempts))
  /\ Static

StopPoll ==
  /\ wifiCall.op = "stop" /\ wifiCall.phase = "poll"
  /\ Ask("GET_CLIENT_STATE_TCP", LAMBDA v, a :
       UNCHANGED said /\ IF v /= CLOSED /\ wifiCall.left > 1 THEN Goes("poll", wifiCall.left - 1) ELSE Returns(0))
  /\ Static

\* read: nothing when no byte is available, else the byte; peek differs in a parameter only.
\* The byte is a local variable: if getData stores none, what was on the stack is returned.
OnStack == {0, 77, 255}
read == Calls("read", "avail", 0)

ReadAvailable ==
  /\ wifiCall.op = "read" /\ wifiCall.phase = "avail"
  /\ Ask("AVAIL_DATA_TCP", LAMBDA v, a : UNCHANGED said /\ IF v = 0 THEN Returns(-1) ELSE Goes("get", Attempts))
  /\ Static

ReadGet ==
  /\ wifiCall.op = "read" /\ wifiCall.phase = "get"
  /\ Ask("GET_DATA_TCP", LAMBDA v, a :
       UNCHANGED said /\ \E b \in OnStack : Returns(IF v = WL_FAILURE THEN b ELSE v))
  /\ Static

write == Calls("write", "send", 0)

WriteSend ==
  /\ wifiCall.op = "write" /\ wifiCall.phase = "send"
  /\ Ask("SEND_DATA_TCP", LAMBDA v, a :
       /\ said' = [said EXCEPT !.taken = a = <<<<1>>>>]
       /\ IF v = 1 THEN Goes("sent", 0) ELSE Returns(0))
  /\ Static

TimedOutNever(timeout) == FALSE

TimedOut(timeout) == timeout = Attempts

SentAfter(v, timeout) ==
  IF v = 0 /\ timeout < Attempts THEN Goes("sent", timeout) ELSE Returns(IF TimedOut(timeout) THEN 0 ELSE 1)

\* checkDataSent polls until the shield says that the data have left, and counts the refusals.
WriteSent ==
  /\ wifiCall.op = "write" /\ wifiCall.phase = "sent"
  /\ Ask("DATA_SENT_TCP", LAMBDA v, a :
       /\ said' = [said EXCEPT !.sent = a = <<<<1>>>>]
       /\ SentAfter(v, IF v = 0 THEN wifiCall.left + 1 ELSE 0))
  /\ Static

(*------------------------------- the server -------------------------------*)
serverBegin == serverSocks /= 0 .. MAX_SOCK_NUM - 1 /\ Calls("server", "START_SERVER_TCP", Cardinality(serverSocks))

ServerStart ==
  /\ wifiCall.op = "server"
  /\ Ask("START_SERVER_TCP", LAMBDA v, a : UNCHANGED said /\ Returns(0))
  /\ serverSocks' = serverSocks \cup {wifiCall.sock}
  /\ UNCHANGED _state

\* available: the client's state, the server's state (a server found down too often is started
\* again), and the client if its connection is established.
serverAvailable == serverSocks /= {} /\ Calls("accept", "GET_CLIENT_STATE_TCP", 0)

ServerClientState ==
  /\ wifiCall.op = "accept" /\ wifiCall.phase = "GET_CLIENT_STATE_TCP"
  /\ Ask("GET_CLIENT_STATE_TCP", LAMBDA v, a :
       UNCHANGED said /\ wifiCall' = [wifiCall EXCEPT !.phase = "GET_STATE_TCP", !.left = v] /\ UNCHANGED wifiResult)
  /\ Static

ServerState ==
  /\ wifiCall.op = "accept" /\ wifiCall.phase \in {"GET_STATE_TCP", "START_SERVER_TCP"}
  /\ Ask(wifiCall.phase, LAMBDA v, a :
       /\ UNCHANGED said
       /\ \/ v = 0 /\ wifiCall.phase = "GET_STATE_TCP" /\ Goes("START_SERVER_TCP", wifiCall.left)
          \/ IF wifiCall.left = ESTABLISHED THEN Returns(wifiCall.sock)
             ELSE IF wifiCall.sock + 1 \in serverSocks
             THEN /\ wifiCall' = [wifiCall EXCEPT !.phase = "GET_CLIENT_STATE_TCP", !.sock = @ + 1]
                  /\ UNCHANGED wifiResult
             ELSE Returns(255))
  /\ Static

Init ==
  /\ wifiCall = None /\ said = Nothing
  /\ wifiResult = [op |-> "none", value |-> 0, said |-> Nothing]
  /\ exchange = Quiet
  /\ buffers = [b \in Buffered |-> 0]
  /\ _state = [i \in 0 .. MAX_SOCK_NUM - 1 |-> 0]
  /\ serverSocks = {}

Next ==
  \/ begin \/ BeginSet \/ BeginPoll \/ scanNetworks \/ ScanStart \/ ScanPoll
  \/ hostByName \/ HostRequest \/ HostPoll \/ query \/ QueryAsk
  \/ connect \/ ConnectStart \/ ConnectPoll \/ stop \/ StopStart \/ StopPoll
  \/ read \/ ReadAvailable \/ ReadGet \/ write \/ WriteSend \/ WriteSent
  \/ serverBegin \/ ServerStart \/ serverAvailable \/ ServerClientState \/ ServerState

Spec == Init /\ [][Next]_wifiVars

---------------------------------------------------------------------------
\* A write reports success only if the shield took the data and then said that they had been sent,
\* whatever replies did not come, or came too late, empty, as an error or for another command.
WriteConfirmed == wifiResult.op = "write" /\ wifiResult.value = 1 => wifiResult.said.taken /\ wifiResult.said.sent

\* hostByName reports success exactly when the last poll brought an address, also when that was
\* the last of its attempts.
HostIsResolved ==
  wifiResult.op = "host" => (wifiResult.value = 1 <=> wifiResult.said.address \in Addresses)

\* A reply that is late, empty, an error or for another command is never taken for the answer: the
\* driver call returns the value that stands for a failure, or what its buffer held before. Two calls
\* do not report failures: startScanNetworks, and getDataBuf, which looks at its caller's length.
GarbledIsFailure ==
  ~exchange.good => exchange.value \in {WL_FAILURE, 0, WL_NO_SHIELD, exchange.before}
                    \/ exchange.cmd \in {"START_SCAN_NETWORKS", "GET_DATABUF_TCP"}

\* What the shield hears is a whole frame: as many parameters as announced, then the end mark.
CommandIsWhole ==
  exchange.request /= <<>> =>
    LET line == exchange.request
    IN  ParamAt(line, 4, line[3] + 1) = Len(line) /\ line[Len(line)] = END_CMD
===================================================================================
