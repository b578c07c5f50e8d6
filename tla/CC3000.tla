------------------------------- MODULE CC3000 -------------------------------
(***************************************************************************)
(* CC3000: the host driver of the CC3000 radio above its SPI transport     *)
(* (libraries/bfinlibmaster: wlan.cpp, socket.c, netapp.c, nvmem.c, hci.c, *)
(* evnt_handler.c, cc3000_common.c, security.c).  The program calls one    *)
(* function at a time; most send a command and wait for its answer, which  *)
(* SpiReceiveHandler leaves in the one receive buffer; unsolicited events  *)
(* it deals with itself.  The radio is external, and so is the transport   *)
(* that SpiOpen is to register SpiReceiveHandler with.  There are two:     *)
(* "ported" is bfspi.cpp as it stands, which never calls the handler (its  *)
(* SpiTriggerRxProcessing is commented out and not called), so that the    *)
(* first wait of wlan_start does not end; "whole" is the transport this    *)
(* driver is written for, which calls it with each packet of the radio and *)
(* is paused while the buffer is in use.                                   *)
(***************************************************************************)
EXTENDS Integers, Sequences

CONSTANTS
  Buffers,    \* packets the radio can hold
  Sd,         \* the socket the radio hands out
  MaxSends    \* bound on the packets sent between two starts

VARIABLES
  transport,                   \* what is below: "ported" or "whole"
  pc,                          \* where the program is in a call
  script,                      \* what is left of the call: its commands
  usRxEventOpcode, usRxDataPending,
  usEventOrDataReceived, pucReceivedData,
  usNumberOfFreeBuffers, NumberOfSentPackets, NumberOfReleasedPackets,
  slTransmitDataError, InformHostOnTxComplete,
  socketActive,                \* socket_active_status, of socket Sd
  reg,                         \* usNumberOfFreeBuffers between its load and its store
  ret,                         \* *pRetParams of the call
  due, held,                   \* the radio: answers it owes, packets it holds
  answered,                    \* the radio's answer to the last command of this call
  told, patched                \* what the last callback said of shutting down; patches sent

host == <<usNumberOfFreeBuffers, NumberOfSentPackets, NumberOfReleasedPackets,
          slTransmitDataError, InformHostOnTxComplete, socketActive>>
rx == <<usRxEventOpcode, usRxDataPending, usEventOrDataReceived, pucReceivedData>>
cc3000Vars == <<transport, pc, script, rx, host, reg, ret, due, held, answered, told, patched>>

EFAIL == -1
ERROR_SOCKET_INACTIVE == -57
Answers == {ERROR_SOCKET_INACTIVE, 0, 1}     \* an error, none, and a count or socket
Nothing == [op |-> "none", val |-> 0]      \* the receive buffer when it is free
Other == 7                                 \* a socket that is not Sd
Unwritten == 99                \* what an uninitialised result variable happens to hold

-----------------------------------------------------------------------------
(* The functions of the interface: the commands they send, the event they  *)
(* wait for, and when data follows it.                                     *)

Cmd(op, waits, data) == [op |-> op, waits |-> waits, data |-> data]
Plain(op) == <<Cmd(op, TRUE, "never")>>

SimpleLink_Init_Start == Cmd("SIMPLE_LINK_START", TRUE, "never")
wlan_start == <<SimpleLink_Init_Start, Cmd("READ_BUFFER_SIZE", TRUE, "never")>>

\* Mutated form of wlan_disconnect: the answer is not waited for.
wlan_disconnect_async == <<Cmd("WLAN_DISCONNECT", FALSE, "never")>>

wlan_connect == <<Cmd("WLAN_CONNECT", FALSE, "never")>>
wlan_disconnect == Plain("WLAN_DISCONNECT")
wlan_ioctl_set_connection_policy == Plain("SET_CONNECTION_POLICY")
wlan_add_profile == Plain("ADD_PROFILE")
wlan_ioctl_del_profile == Plain("DEL_PROFILE")
wlan_ioctl_get_scan_results == Plain("GET_SCAN_RESULTS")
wlan_ioctl_set_scan_params == Plain("SET_SCANPARAM")
wlan_set_event_mask == Plain("EVENT_MASK")
wlan_ioctl_statusget == Plain("STATUSGET")
wlan_smart_config_start == Plain("SIMPLE_CONFIG_START")
wlan_smart_config_stop == Plain("SIMPLE_CONFIG_STOP")
wlan_smart_config_set_prefix == Plain("SIMPLE_CONFIG_SET_PREFIX")

socket == Plain("SOCKET")
closesocket == Plain("CLOSE_SOCKET")
accept == Plain("ACCEPT")
bind == Plain("BIND")
listen == Plain("LISTEN")
gethostbyname == Plain("GETHOSTNAME")
connect == Plain("CONNECT")
select == Plain("BSD_SELECT")
setsockopt == Plain("SETSOCKOPT")
getsockopt == Plain("GETSOCKOPT")
simple_link_recv == <<Cmd("RECV", TRUE, "positive")>>
mdnsAdvertiser == Plain("MDNS_ADVERTISE")

netapp_dhcp == Plain("NETAPP_DHCP")
netapp_timeout_values == Plain("NETAPP_SET_TIMERS")
netapp_ping_send == Plain("NETAPP_PING_SEND")
netapp_ping_report == Plain("NETAPP_PING_REPORT")
netapp_ping_stop == Plain("NETAPP_PING_STOP")
netapp_ipconfig == Plain("NETAPP_IPCONFIG")
netapp_arp_flush == Plain("NETAPP_ARP_FLUSH")

nvmem_read == <<Cmd("NVMEM_READ", TRUE, "zero")>>
hci_data_command_send(op) == Plain(op)
nvmem_write == hci_data_command_send("NVMEM_WRITE")
nvmem_write_patch == nvmem_write \o nvmem_write     \* two portions
nvmem_read_sp_version == Plain("READ_SP_VERSION")
nvmem_create_entry == Plain("NVMEM_CREATE_ENTRY")
aes_read_key == nvmem_read
wlan_smart_config_process == aes_read_key \o nvmem_read \o wlan_add_profile

Calls ==
  {wlan_connect, wlan_disconnect, wlan_ioctl_set_connection_policy, wlan_add_profile,
   wlan_ioctl_del_profile, wlan_ioctl_get_scan_results, wlan_ioctl_set_scan_params,
   wlan_set_event_mask, wlan_ioctl_statusget, wlan_smart_config_start,
   wlan_smart_config_stop, wlan_smart_config_set_prefix, wlan_smart_config_process,
   socket, closesocket, accept, bind, listen, gethostbyname, connect, select,
   setsockopt, getsockopt, simple_link_recv, mdnsAdvertiser,
   netapp_dhcp, netapp_timeout_values, netapp_ping_send, netapp_ping_report,
   netapp_ping_stop, netapp_ipconfig, netapp_arp_flush,
   nvmem_read, nvmem_write, nvmem_write_patch, nvmem_read_sp_version, nvmem_create_entry}

\* The calls that give up before they send anything (a name that is too long, no prefix).
Refusing == {gethostbyname, mdnsAdvertiser, wlan_smart_config_set_prefix}

\* The events hci_event_handler copies a result out of.
WritesResult(op) == op \notin {"SIMPLE_LINK_START", "READ_BUFFER_SIZE", "MDNS_ADVERTISE"}
-----------------------------------------------------------------------------
Init ==
  /\ transport \in {"ported", "whole"}
  /\ pc = "off" /\ script = << >>
  /\ usRxEventOpcode = "none" /\ usRxDataPending = FALSE
  /\ usEventOrDataReceived = FALSE /\ pucReceivedData = Nothing
  /\ usNumberOfFreeBuffers = 0 /\ NumberOfSentPackets = 0 /\ NumberOfReleasedPackets = 0
  /\ slTransmitDataError = 0 /\ InformHostOnTxComplete = TRUE /\ socketActive = FALSE
  /\ reg = 0 /\ ret = 0 /\ due = << >> /\ held = 0 /\ answered = 0
  /\ told = "none" /\ patched = <<>>

\* wlan_start: the counters are cleared, the radio is powered and answers nothing of
\* before; then the two commands.
WlanStart ==
  /\ pc = "off" /\ pc' = "send" /\ script' = wlan_start
  /\ usRxEventOpcode' = "none" /\ usRxDataPending' = FALSE
  /\ usEventOrDataReceived' = FALSE /\ pucReceivedData' = Nothing
  /\ usNumberOfFreeBuffers' = 0 /\ NumberOfSentPackets' = 0 /\ NumberOfReleasedPackets' = 0
  /\ slTransmitDataError' = 0 /\ patched' = <<>> /\ ret' = 0
  /\ UNCHANGED <<InformHostOnTxComplete, socketActive, reg, due, held, answered, told>>

\* wlan_stop: the radio loses power.
WlanStop ==
  /\ pc = "ready" /\ pc' = "off" /\ due' = << >> /\ held' = 0
  /\ UNCHANGED <<script, rx, host, reg, ret, answered, told, patched>>

Invoke(c) ==
  /\ pc = "ready" /\ Len(due) < 2
  /\ pc' = "send" /\ script' = c /\ ret' = Unwritten
  /\ UNCHANGED <<rx, host, reg, due, held, answered, told, patched>>

Refuse(c) ==
  /\ pc = "ready" /\ c \in Refusing
  /\ UNCHANGED cc3000Vars

\* wlan_set_event_mask: whether the program is told that all has been sent; a mask of
\* that bit alone is not passed on.
SetEventMask(txComplete, only) ==
  /\ pc = "ready" /\ InformHostOnTxComplete' = ~txComplete
  /\ IF txComplete /\ only
     THEN UNCHANGED <<pc, script, ret>>
     ELSE Len(due) < 2 /\ pc' = "send" /\ script' = wlan_set_event_mask /\ ret' = Unwritten
  /\ UNCHANGED <<rx, usNumberOfFreeBuffers, NumberOfSentPackets, NumberOfReleasedPackets,
                 slTransmitDataError, socketActive, reg, due, held, answered, told, patched>>

\* hci_command_send and, for all but wlan_connect, SimpleLinkWaitEvent.
SendCommand ==
  LET c == Head(script)
  IN  /\ pc = "send" /\ due' = Append(due, c.op)
      /\ IF c.waits THEN pc' = "wait" /\ usRxEventOpcode' = c.op /\ UNCHANGED <<script, ret>>
         ELSE pc' = "ready" /\ script' = << >> /\ ret' = 0 /\ UNCHANGED usRxEventOpcode
      /\ UNCHANGED <<usRxDataPending, usEventOrDataReceived, pucReceivedData, host, reg,
                     held, answered, told, patched>>

-----------------------------------------------------------------------------
\* Mutated form of Awaited: any event ends the wait.
AwaitedAny(op) == TRUE

Awaited(op) == op = usRxEventOpcode

\* hci_event_handler, one round: the answer is copied to the caller, the transport
\* resumed; the wait ends with the event that was waited for. After RECV the test for a
\* closed socket looks past the result it copied (evnt_handler.c:319): what it finds there
\* may close the socket of any number.
HandleEvent(active) ==
  LET p == pucReceivedData
  IN  /\ active = socketActive \/ (p.op = "RECV" /\ ~active)
      /\ pc = "wait" /\ usEventOrDataReceived /\ p.op \notin {"DATA", "PATCHES_REQ"}
      /\ ret' = IF WritesResult(p.op) THEN p.val ELSE ret
      /\ usNumberOfFreeBuffers' = IF p.op = "READ_BUFFER_SIZE" THEN Buffers
                                  ELSE usNumberOfFreeBuffers
      /\ usEventOrDataReceived' = FALSE /\ pucReceivedData' = Nothing
      /\ usRxEventOpcode' = IF Awaited(p.op) THEN "none" ELSE usRxEventOpcode
      /\ pc' = IF usRxEventOpcode' = "none" /\ ~usRxDataPending THEN "returned" ELSE pc
      /\ UNCHANGED <<script, usRxDataPending, NumberOfSentPackets, NumberOfReleasedPackets,
                     slTransmitDataError, InformHostOnTxComplete,
                     reg, due, held, answered, told, patched>>
      /\ socketActive' = active

HandleData ==
  /\ pc = "wait" /\ usEventOrDataReceived /\ pucReceivedData.op = "DATA"
  /\ usRxDataPending' = FALSE /\ usEventOrDataReceived' = FALSE /\ pucReceivedData' = Nothing
  /\ pc' = IF usRxEventOpcode = "none" THEN "finished" ELSE pc
  /\ UNCHANGED <<script, usRxEventOpcode, host, reg, ret, due, held, answered, told, patched>>

\* A patch of two portions: the first is sent with its length, the second is written from
\* the middle of the buffer, where SpiWrite puts its own header over the length.
hci_patch_send(has) == IF has THEN <<"with length", "without">> ELSE <<"with length">>

\* hci_unsol_handle_patch_request: the radio asks for a patch while it starts and gets the
\* one the program has, or an empty one.
HandlePatchRequest(has) ==
  /\ pc = "wait" /\ usEventOrDataReceived /\ pucReceivedData.op = "PATCHES_REQ"
  /\ usEventOrDataReceived' = FALSE /\ pucReceivedData' = Nothing
  /\ patched' = hci_patch_send(has)
  /\ UNCHANGED <<pc, script, usRxEventOpcode, usRxDataPending, host, reg, ret, due, held, answered, told>>

set_socket_active_status(sd, active) == IF sd = Sd THEN active ELSE socketActive

Continues(c) == (c.data = "positive" /\ ret > 0) \/ (c.data = "zero" /\ ret = 0)

\* The wait for the event is over: wait for the data, go on with the next command, or
\* note the state of the socket and return. An accept that fails closes the socket that
\* listens.
AfterEvent(listening) ==
  LET c == Head(script)
  IN  /\ pc = "returned"
      /\ IF Continues(c)
         THEN usRxDataPending' = TRUE /\ pc' = "wait" /\ UNCHANGED socketActive
         ELSE /\ pc' = "finished" /\ UNCHANGED usRxDataPending
              /\ socketActive' = CASE c.op = "SOCKET" -> set_socket_active_status(ret, TRUE)
                                   [] c.op = "CLOSE_SOCKET" -> set_socket_active_status(Sd, FALSE)
                                   [] c.op = "ACCEPT" /\ ret >= 0 -> set_socket_active_status(ret, TRUE)
                                   [] c.op = "ACCEPT" /\ ret < 0 -> set_socket_active_status(listening, FALSE)
                                   [] OTHER -> socketActive
      /\ UNCHANGED <<script, usRxEventOpcode, usEventOrDataReceived, pucReceivedData,
                     usNumberOfFreeBuffers, NumberOfSentPackets, NumberOfReleasedPackets,
                     slTransmitDataError, InformHostOnTxComplete, reg, ret, due, held,
                     answered, told, patched>>

\* The next command of the call, when the last one succeeded (wlan_start does not look).
NextCommand ==
  LET more == Len(script) > 1 /\ (ret = 0 \/ Head(script).op = "SIMPLE_LINK_START")
  IN  /\ pc = "finished"
      /\ pc' = IF more THEN "send" ELSE "ready"
      /\ script' = IF more THEN Tail(script) ELSE << >>
      /\ answered' = 0 /\ ret' = IF more THEN Unwritten ELSE 0
      /\ UNCHANGED <<rx, host, reg, due, held, told, patched>>
-----------------------------------------------------------------------------
\* simple_link_send: HostFlowControlConsumeBuff waits for a buffer of the radio, and
\* gives up on an error of an earlier packet or a socket that is not active.
Send ==
  /\ pc = "ready" /\ NumberOfSentPackets < MaxSends
  /\ pc' = "consume"
  /\ UNCHANGED <<script, rx, host, reg, ret, due, held, answered, told, patched>>

ConsumeFails ==
  /\ pc = "consume" /\ (slTransmitDataError # 0 \/ ~socketActive)
  /\ pc' = "ready" /\ slTransmitDataError' = 0
  /\ UNCHANGED <<script, rx, usNumberOfFreeBuffers, NumberOfSentPackets,
                 NumberOfReleasedPackets, InformHostOnTxComplete, socketActive, reg, ret, due,
                 held, answered, told, patched>>

ConsumeLoad ==
  /\ pc = "consume" /\ slTransmitDataError = 0 /\ socketActive /\ usNumberOfFreeBuffers > 0
  /\ pc' = "store" /\ reg' = usNumberOfFreeBuffers
  /\ UNCHANGED <<script, rx, host, ret, due, held, answered, told, patched>>

\* Mutated form of ConsumeStore: the buffer is not taken.
ConsumeNothing ==
  /\ pc = "store" /\ pc' = "count"
  /\ UNCHANGED <<script, rx, host, reg, ret, due, held, answered, told, patched>>

\* usNumberOfFreeBuffers--: what an interrupt adds after the load is overwritten.
ConsumeStore ==
  /\ pc = "store" /\ pc' = "count" /\ usNumberOfFreeBuffers' = reg - 1 /\ reg' = 0
  /\ UNCHANGED <<script, rx, NumberOfSentPackets, NumberOfReleasedPackets,
                 slTransmitDataError, InformHostOnTxComplete, socketActive, ret, due, held,
                 answered, told, patched>>

CountPacket ==
  /\ pc = "count" /\ pc' = "put" /\ NumberOfSentPackets' = NumberOfSentPackets + 1
  /\ UNCHANGED <<script, rx, usNumberOfFreeBuffers, NumberOfReleasedPackets,
                 slTransmitDataError, InformHostOnTxComplete, socketActive, reg, ret, due,
                 held, answered, told, patched>>

\* The packet goes to the radio, which holds it until it has sent it.
hci_data_send == held' = held + 1

PutPacket ==
  /\ pc = "put" /\ pc' = "ready" /\ hci_data_send
  /\ UNCHANGED <<script, rx, host, reg, ret, due, answered, told, patched>>
-----------------------------------------------------------------------------
(* SpiReceiveHandler runs when the radio has a packet and the transport,   *)
(* if it calls the handler at all, is not paused.                          *)

Listening == transport = "whole" /\ pc # "off" /\ ~usEventOrDataReceived

\* An answer, or the data after one: left in the buffer for hci_event_handler.
ReceiveAnswer(v) ==
  LET op == Head(due)
      data == \/ op = "RECV" /\ v > 0
              \/ op = "NVMEM_READ" /\ v = 0
  IN  /\ Listening /\ due # << >>
      /\ usEventOrDataReceived' = TRUE /\ pucReceivedData' = [op |-> op, val |-> v]
      /\ due' = IF data THEN <<"DATA">> \o Tail(due) ELSE Tail(due)
      /\ answered' = IF op \in {"DATA", "WLAN_CONNECT"} THEN answered ELSE v
      /\ UNCHANGED <<pc, script, usRxEventOpcode, usRxDataPending, host, reg, ret, held,
                     told, patched>>

ReceivePatchRequest ==
  /\ Listening /\ due # << >> /\ Head(due) = "SIMPLE_LINK_START" /\ patched = <<>>
  /\ usEventOrDataReceived' = TRUE /\ pucReceivedData' = [op |-> "PATCHES_REQ", val |-> 0]
  /\ UNCHANGED <<pc, script, usRxEventOpcode, usRxDataPending, host, reg, ret, due, held,
                 answered, told, patched>>

\* Mutated form of AllReleased: one packet may still be under way.
AllReleasedEarly(released) == released + 1 >= NumberOfSentPackets

AllReleased(released) == released = NumberOfSentPackets

\* hci_event_unsol_flowcontrol_handler: the radio has sent a packet of those it holds.
ReceiveFreeBuffer ==
  /\ Listening /\ held > 0
  /\ held' = held - 1
  /\ usNumberOfFreeBuffers' = usNumberOfFreeBuffers + 1
  /\ NumberOfReleasedPackets' = NumberOfReleasedPackets + 1
  /\ told' = IF AllReleased(NumberOfReleasedPackets + 1) /\ InformHostOnTxComplete
             THEN "CAN_SHUT_DOWN" ELSE "none"
  /\ UNCHANGED <<pc, script, rx, NumberOfSentPackets, slTransmitDataError,
                 InformHostOnTxComplete, socketActive, reg, ret, due, answered, patched>>

update_socket_active_status(status) ==
  IF status = ERROR_SOCKET_INACTIVE THEN set_socket_active_status(Sd, FALSE) ELSE socketActive

\* The radio could not send: the byte at the offset of the length (8) is noted as the
\* error, and the socket as closed when the status says so.
ReceiveSendFailed(status) ==
  /\ Listening /\ held > 0
  /\ slTransmitDataError' = 8
  /\ socketActive' = update_socket_active_status(status)
  /\ UNCHANGED <<pc, script, rx, usNumberOfFreeBuffers, NumberOfSentPackets,
                 NumberOfReleasedPackets, InformHostOnTxComplete, reg, ret, due, held,
                 answered, told, patched>>

\* Keep-alive, connected, disconnected, address, ping report: passed to the callback.
ReceiveUnsolicited ==
  /\ Listening /\ told' = "none"
  /\ UNCHANGED <<pc, script, rx, host, reg, ret, due, held, answered, patched>>

Next ==
  /\ UNCHANGED transport
  /\ \/ WlanStart \/ WlanStop
     \/ \E c \in Calls \ {wlan_set_event_mask} : Invoke(c) \/ Refuse(c)
     \/ \E t, o \in BOOLEAN : SetEventMask(t, o)
     \/ SendCommand \/ HandleData \/ NextCommand
     \/ \E active \in BOOLEAN : HandleEvent(active)
     \/ \E listening \in {Sd, Other} : AfterEvent(listening)
     \/ \E has \in BOOLEAN : HandlePatchRequest(has)
     \/ Send \/ ConsumeFails \/ ConsumeLoad \/ ConsumeStore \/ CountPacket \/ PutPacket
     \/ \E v \in Answers : ReceiveAnswer(v)
     \/ ReceivePatchRequest \/ ReceiveFreeBuffer \/ ReceiveUnsolicited
     \/ \E s \in {EFAIL, ERROR_SOCKET_INACTIVE} : ReceiveSendFailed(s)

Spec == Init /\ [][Next]_cc3000Vars
-----------------------------------------------------------------------------
\* Over the transport as it is ported no call gets an answer: the program never leaves
\* the first wait of wlan_start (bfspi.cpp, SpiTriggerRxProcessing; evnt_handler.c, the
\* loop of hci_event_handler). The other properties are about the whole transport.
NeverAnswered ==
  transport = "ported" => ~usEventOrDataReceived /\ pc \in {"off", "send", "wait"}

\* When a call is about to return, the result it copied is the radio's answer to its own
\* command, also when the answer of an earlier wlan_connect came first (socket.c,
\* netapp.c: ret after SimpleLinkWaitEvent; mdnsAdvertiser returns what the stack held).
OwnAnswer ==
  pc \in {"returned", "finished"} /\ WritesResult(Head(script).op) => ret = answered

\* The radio is never given a packet it has no room for (socket.c,
\* HostFlowControlConsumeBuff), although an interrupt may fall into the decrement.
NoOverrun == held <= Buffers /\ (pc \in {"count", "put"} => held < Buffers)

\* While the program is in no call, the only answer that can sit in the receive buffer,
\* and so pause the transport and keep flow control out, is that of a wlan_connect
\* (wlan.cpp: its SimpleLinkWaitEvent is commented out).
OnlyConnectPauses ==
  usEventOrDataReceived /\ pc \in {"ready", "consume", "store", "count", "put"}
    => pucReceivedData.op = "WLAN_CONNECT"

\* The program is told that the radio can be shut down only when the radio holds no
\* packet (evnt_handler.c, hci_unsol_event_handler).
ShutDownIsSafeStep == told' = "CAN_SHUT_DOWN" /\ told # told' => held' = 0
ShutDownIsSafe == [][ShutDownIsSafeStep]_cc3000Vars
=============================================================================
