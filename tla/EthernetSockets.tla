----------------------------- MODULE EthernetSockets -----------------------------
(***************************************************************************)
(* Who owns the few hardware sockets of the W5100: EthernetClient,          *)
(* EthernetServer and EthernetUDP of libraries/Ethernet and the commands of *)
(* utility/socket.cpp they give.  No table of owners is kept: an object     *)
(* remembers the number of its socket, and whoever needs one takes the      *)
(* first that the chip reports as unused.                                   *)
(***************************************************************************)
EXTENDS Integers

CONSTANTS MAX_SOCK_NUM,
          Clients,       \* EthernetClient objects of the sketch
          Udp,           \* its EthernetUDP object
          Served         \* the EthernetClient it got last from EthernetServer::available

VARIABLES status,        \* SnSR of every socket
          available,     \* whether received bytes wait in it
          _server_port,  \* whether _server_port[s] is the server's port
          _sock,         \* socket number of every object, MAX_SOCK_NUM when it has none
          serving,       \* the server has been started
          own,           \* objects whose socket still is the one they opened
          lost,          \* objects whose connection has ended, or was ended by another object
          outlived,      \* objects whose socket a connect took when their peer had ended only
                         \* its side
          badAddress,    \* sockets opened for an address that was then refused
          serverRan      \* the last step was a call of the server

sockVars == <<status, available, _server_port, _sock, serving, own, lost, outlived, badAddress, serverRan>>

Socks == 0 .. MAX_SOCK_NUM - 1
Objects == Clients \cup {Udp, Served}

\* The first socket that has one of these statuses.
IsFirst(s, wanted) == status[s] \in wanted /\ \A t \in 0 .. s - 1 : status[t] \notin wanted

Holders(s) == {o \in Objects : _sock[o] = s}

Holds(o) == _sock[o] /= MAX_SOCK_NUM

\* socket(): the socket is closed, whatever it was, and opened anew; owners is the object
\* that has it now, or nobody when it was opened in vain.
Opened(s, owners, st) ==
  /\ status' = [status EXCEPT ![s] = st]
  /\ available' = [available EXCEPT ![s] = FALSE]
  /\ own' = (own \ Holders(s)) \cup owners
  /\ outlived' = IF status[s] = "CLOSE_WAIT" THEN outlived \cup Holders(s) ELSE outlived

clientReusesAny == {"CLOSED", "FIN_WAIT", "CLOSE_WAIT", "ESTABLISHED"}

clientReuses == {"CLOSED", "FIN_WAIT", "CLOSE_WAIT"}

\* EthernetClient::connect waits for the answer of the peer; a refusal closes the socket.
connect(c) ==
  /\ ~Holds(c)
  /\ \E s \in Socks :
       /\ IsFirst(s, clientReuses)
       /\ badAddress' = badAddress \ {s}
       /\ \/ Opened(s, {c}, "ESTABLISHED") /\ _sock' = [_sock EXCEPT ![c] = s]
          \/ Opened(s, {}, "CLOSED") /\ UNCHANGED _sock
  /\ serverRan' = FALSE /\ UNCHANGED <<_server_port, serving, lost>>

\* An address of all ones or zeros, or port 0, is refused after the socket has been opened.
connectRefused(c) ==
  /\ ~Holds(c)
  /\ \E s \in Socks :
       /\ IsFirst(s, clientReuses)
       /\ Opened(s, {}, "INIT")
       /\ badAddress' = badAddress \cup {s}
  /\ serverRan' = FALSE /\ UNCHANGED <<_server_port, _sock, serving, lost>>

\* close() after a disconnect that took longer than a second.
ClosedStatusLate == "FIN_WAIT"

ClosedStatus == "CLOSED"

\* stop: disconnect, wait a second at most, then close the socket if the chip has not.
stop(o) ==
  /\ o \in Clients \cup {Served} /\ Holds(o)
  /\ status' = [status EXCEPT ![_sock[o]] = ClosedStatus]
  /\ available' = [available EXCEPT ![_sock[o]] = FALSE]
  /\ _server_port' = [_server_port EXCEPT ![_sock[o]] = FALSE]
  /\ lost' = (lost \cup Holders(_sock[o])) \ {o}
  /\ outlived' = outlived \ {o}
  /\ _sock' = [_sock EXCEPT ![o] = MAX_SOCK_NUM]
  /\ own' = own \ {o}
  /\ serverRan' = FALSE /\ UNCHANGED <<serving, badAddress>>

read(o) ==
  /\ o \in Clients \cup {Served} /\ Holds(o)
  /\ available' = [available EXCEPT ![_sock[o]] = FALSE]
  /\ serverRan' = FALSE /\ UNCHANGED <<status, _server_port, _sock, serving, own, lost, outlived, badAddress>>

udpBegin ==
  /\ ~Holds(Udp)
  /\ \E s \in Socks :
       /\ IsFirst(s, {"CLOSED", "FIN_WAIT"})
       /\ Opened(s, {Udp}, "UDP")
       /\ _sock' = [_sock EXCEPT ![Udp] = s]
       /\ badAddress' = badAddress \ {s}
  /\ serverRan' = FALSE /\ UNCHANGED <<_server_port, serving, lost>>

udpStop ==
  /\ Holds(Udp)
  /\ status' = [status EXCEPT ![_sock[Udp]] = "CLOSED"]
  /\ available' = [available EXCEPT ![_sock[Udp]] = FALSE]
  /\ _server_port' = [_server_port EXCEPT ![_sock[Udp]] = FALSE]
  /\ lost' = (lost \cup Holders(_sock[Udp])) \ {Udp}
  /\ outlived' = outlived \ {Udp}
  /\ _sock' = [_sock EXCEPT ![Udp] = MAX_SOCK_NUM]
  /\ own' = own \ {Udp}
  /\ serverRan' = FALSE /\ UNCHANGED <<serving, badAddress>>

(*-------------------------------- the server ------------------------------*)
First(socks) == {s \in socks : \A t \in socks : s <= t}

\* Connections the peer has ended and that have been read to the end are stopped by accept.
Finished == {s \in Socks : _server_port[s] /\ status[s] = "CLOSE_WAIT" /\ ~available[s]}

ListeningOrBusy == \E s \in Socks : _server_port[s] /\ status[s] \in {"LISTEN", "ESTABLISHED"}

Listening == \E s \in Socks : _server_port[s] /\ status[s] = "LISTEN"

\* begin opens the first closed socket, if there is one, on the server's port.
Taken == IF Listening THEN {} ELSE First(Finished \cup {s \in Socks : status[s] = "CLOSED"})

accept ==
  /\ status' = [s \in Socks |-> IF s \in Taken THEN "LISTEN" ELSE IF s \in Finished THEN "CLOSED" ELSE status[s]]
  /\ _server_port' = [s \in Socks |-> s \in Taken \/ (_server_port[s] /\ s \notin Finished)]
  /\ available' = [s \in Socks |-> available[s] /\ s \notin Taken]
  /\ badAddress' = badAddress \ Taken
  /\ serving' = TRUE /\ serverRan' = TRUE

StillOwn == {o \in own : _sock[o] \notin Taken}

NowLost == lost \cup UNION {Holders(s) : s \in Finished}

\* EthernetServer::begin in setup: no socket has the server's port yet.
begin == ~serving /\ accept /\ own' = StillOwn /\ UNCHANGED <<_sock, lost, outlived>>

\* write: accept, and the bytes go to every established connection of the server.
serverWrite == serving /\ accept /\ own' = StillOwn /\ lost' = NowLost /\ UNCHANGED <<_sock, outlived>>

Ready == {s \in Socks : _server_port[s] /\ available[s] /\ status[s] \in {"ESTABLISHED", "CLOSE_WAIT"}}

\* available: accept, then the first connection of the server that has something to read.
serverAvailable ==
  /\ serving /\ accept
  /\ \/ /\ Ready = {}
        /\ _sock' = [_sock EXCEPT ![Served] = MAX_SOCK_NUM]
        /\ own' = StillOwn \ {Served}
        /\ lost' = NowLost \ {Served}
        /\ outlived' = outlived \ {Served}
     \/ \E s \in First(Ready) :
        /\ _sock' = [_sock EXCEPT ![Served] = s]
        /\ own' = StillOwn \cup {Served}
        /\ lost' = NowLost \ {Served}
        /\ outlived' = outlived \ {Served}

(*------------------------------- the network ------------------------------*)
Quiet == serverRan' = FALSE /\ UNCHANGED <<_server_port, _sock, serving, own, outlived, badAddress>>

PeerConnects(s) ==
  /\ status[s] = "LISTEN"
  /\ status' = [status EXCEPT ![s] = "ESTABLISHED"]
  /\ UNCHANGED <<available, lost>> /\ Quiet

PeerSends(s) ==
  /\ status[s] \in {"ESTABLISHED", "UDP"} /\ ~available[s]
  /\ available' = [available EXCEPT ![s] = TRUE]
  /\ UNCHANGED <<status, lost>> /\ Quiet

\* The peer ends its side, resets the connection, or is not heard of again; a connection
\* that it has only ended its side of can still be read and written.
PeerEnds(s) ==
  /\ \/ status[s] = "ESTABLISHED" /\ status' \in {[status EXCEPT ![s] = st] : st \in {"CLOSE_WAIT", "CLOSED"}}
     \/ status[s] = "CLOSE_WAIT" /\ status' = [status EXCEPT ![s] = "CLOSED"]
  /\ lost' = IF status'[s] = "CLOSED" THEN lost \cup Holders(s) ELSE lost
  /\ UNCHANGED available /\ Quiet

Init ==
  /\ status = [s \in Socks |-> "CLOSED"]
  /\ available = [s \in Socks |-> FALSE]
  /\ _server_port = [s \in Socks |-> FALSE]
  /\ _sock = [o \in Objects |-> MAX_SOCK_NUM]
  /\ serving = FALSE /\ serverRan = FALSE
  /\ own = {} /\ lost = {} /\ outlived = {} /\ badAddress = {}

Next ==
  \/ \E c \in Clients : connect(c) \/ connectRefused(c)
  \/ \E o \in Objects : stop(o) \/ read(o)
  \/ udpBegin \/ udpStop
  \/ begin \/ serverWrite \/ serverAvailable
  \/ \E s \in Socks : PeerConnects(s) \/ PeerSends(s) \/ PeerEnds(s)

Spec == Init /\ [][Next]_sockVars

---------------------------------------------------------------------------
\* A socket is not opened for someone else while the connection of the object that holds it lives:
\* an object whose socket has been taken over had lost its connection before, although it does not
\* know, and until it is stopped it reads and closes the connection of the other.  Excepted is a
\* connection of which the peer has ended its side only: connect takes its socket too
\* (EthernetClient.cpp:44), though it may hold bytes to read and send() would still send on it.
NoTakeover == \A o \in Objects : Holds(o) /\ o \notin own => o \in lost \cup outlived

\* After a call of the server one of the sockets listens on its port, unless none was closed.
ServerListens ==
  serverRan => \/ \E s \in Socks : _server_port[s] /\ status[s] = "LISTEN"
               \/ \A s \in Socks : status[s] /= "CLOSED"

\* A socket in use can be stopped by someone: it is held by an object or it is the server's.  Only
\* a connect to a refused address leaves a socket that nobody can give back.
NothingForgotten ==
  \A s \in Socks : status[s] = "CLOSED" \/ Holders(s) /= {} \/ _server_port[s] \/ s \in badAddress
==================================================================================
