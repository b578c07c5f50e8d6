-------------------------------- MODULE Dhcp --------------------------------
(***************************************************************************)
(* The DHCP client of libraries/Ethernet, with Ethernet.begin and maintain *)
(* which put its address into the chip.  The servers are external: they    *)
(* answer broadcasts, also those of other clients; an answer can be lost,  *)
(* delayed past a timeout or overtaken.  Times are seconds.                *)
(***************************************************************************)
EXTENDS Integers, FiniteSets

CONSTANTS
  Servers,       \* the servers
  Pool,          \* the addresses each server offers
  Lease,         \* the lease time each server grants
  T1Option,      \* the renewal time each server sends with it, 0 for none
  NoIp,          \* 0.0.0.0
  OtherIp,       \* an address granted to another client
  Gaps,          \* seconds between two calls of maintain
  MaxCalls,      \* bound on the calls of request_DHCP_lease
  MaxXid,        \* bound on the transaction ids
  MaxAir         \* bound on the answers in flight

VARIABLES
  dh,       \* the DhcpClass object
  inside,   \* the call of request_DHCP_lease in progress: "no", "begin", "renew", "rebind";
            \* "renewed" after the one of a renewal, before the second test of checkLease
  air,      \* answers in flight
  granted,  \* the addresses the servers have granted to this client
  left,     \* history: the rest of the lease that was granted last
  chipIp,   \* the address set in the W5100
  dhCalls

dhcpVars == <<dh, inside, air, granted, left, chipIp, dhCalls>>

Init ==
  /\ dh = [state |-> "START", xid |-> 0, initial |-> 0, ip |-> NoIp, server |-> NoIp,
           lease |-> 0, T1 |-> 0, T2 |-> 0, renew |-> 0, rebind |-> 0, checked |-> FALSE]
  /\ inside = "no" /\ air = {} /\ granted = {} /\ left = 0 /\ chipIp = NoIp /\ dhCalls = 0

After(from) == IF from = "renew" THEN "renewed" ELSE "no"

\* The start of request_DHCP_lease: random() picks the first transaction id. Without a
\* socket it returns at once, and the state stays what the caller has set.
request_DHCP_lease(d, from) ==
  /\ dhCalls < MaxCalls /\ dhCalls' = dhCalls + 1
  /\ \/ inside' = from /\ \E id \in 1..2 : dh' = [d EXCEPT !.xid = id, !.initial = id]
     \/ inside' = After(from) /\ dh' = d

beginWithDHCP ==
  /\ inside = "no" /\ dhCalls = 0
  /\ request_DHCP_lease([dh EXCEPT !.state = "START", !.ip = NoIp, !.server = NoIp], "begin")
  /\ UNCHANGED <<air, granted, left, chipIp>>
-----------------------------------------------------------------------------
(* The servers, external.                                                  *)

Answer(type, xid, mac, ip, server) ==
  [type |-> type, xid |-> xid, mac |-> mac, ip |-> ip, server |-> server]

\* What the network does with a broadcast: some of the servers' answers come.
Offers(xid) == {Answer("OFFER", xid, "own", ip, s) : s \in Servers, ip \in UNION {Pool[t] : t \in Servers}}
Deliverable(A) == {a \in A : a.ip \in Pool[a.server]}

Discovered(xid) ==
  \E A \in SUBSET Deliverable(Offers(xid)) :
    Cardinality(air \cup A) <= MaxAir /\ air' = air \cup A /\ UNCHANGED granted

\* The server that is named grants the address, or refuses it when it is not its own;
\* rest is what else is in flight.
Requested(rest, xid, ip, server) ==
  \/ air' = rest /\ UNCHANGED granted
  \/ /\ server \in Servers /\ Cardinality(rest) < MaxAir
     /\ IF ip \in Pool[server]
        THEN granted' = granted \cup {ip} /\ air' = rest \cup {Answer("ACK", xid, "own", ip, server)}
        ELSE air' = rest \cup {Answer("NAK", xid, "own", NoIp, server)} /\ UNCHANGED granted

\* An answer to another client, which is broadcast too.
OtherClient(xid) ==
  /\ Cardinality(air) < MaxAir
  /\ \E s \in Servers : air' = air \cup {Answer("ACK", xid, "other", OtherIp, s)}
  /\ UNCHANGED <<dh, inside, granted, left, chipIp, dhCalls>>
-----------------------------------------------------------------------------
(* The loop of request_DHCP_lease.                                         *)

Looping == inside \in {"begin", "renew", "rebind"}

DhcpStart ==
  /\ Looping /\ dh.state = "START" /\ dh.xid < MaxXid
  /\ dh' = [dh EXCEPT !.state = "DISCOVER", !.xid = @ + 1] /\ Discovered(dh.xid + 1)
  /\ UNCHANGED <<inside, left, chipIp, dhCalls>>

DhcpRerequest ==
  /\ Looping /\ dh.state = "REREQUEST" /\ dh.xid < MaxXid
  /\ dh' = [dh EXCEPT !.state = "REQUEST", !.xid = @ + 1] /\ Requested(air, dh.xid + 1, dh.ip, dh.server)
  /\ UNCHANGED <<inside, left, chipIp, dhCalls>>

\* Mutated form of ForUs: the hardware address is not compared.
ForUsAny(a) == a.xid >= dh.initial /\ a.xid <= dh.xid

\* parseDHCPResponse: the answers that are not flushed
ForUs(a) == a.mac = "own" /\ a.xid >= dh.initial /\ a.xid <= dh.xid

\* What it keeps of them: always the address, the server only if none is known yet or
\* the answer comes from that server, and of an offer or an acknowledgement the lease time
\* and the T1 that is sent with it; without one the T1 known before stays.
Parsed(a) ==
  LET kept == [dh EXCEPT !.ip = a.ip, !.server = IF @ = NoIp THEN a.server ELSE @]
  IN  IF a.type = "NAK" THEN kept
      ELSE [kept EXCEPT !.lease = Lease[a.server], !.renew = Lease[a.server],
                        !.T1 = IF T1Option[a.server] = 0 THEN @ ELSE T1Option[a.server]]

\* Mutated form of Timers: the lease is renewed when it ends, not at T1.
TimersLate(d) ==
  LET t1 == IF d.T1 = 0 THEN d.lease \div 2 ELSE d.T1
  IN  [d EXCEPT !.T1 = t1, !.T2 = d.lease, !.renew = d.lease, !.rebind = d.lease]

\* The timers of a lease: T1 and T2 are calculated only as long as none is known.
Timers(d) ==
  LET t1 == IF d.T1 = 0 THEN d.lease \div 2 ELSE d.T1
      t2 == IF d.T2 = 0 THEN t1 * 2 ELSE d.T2
  IN  [d EXCEPT !.T1 = t1, !.T2 = t2, !.renew = t1, !.rebind = t2]

ParseInDiscover(a) ==
  /\ dh.state = "DISCOVER" /\ left' = left
  /\ IF ForUs(a) /\ a.type = "OFFER"
     THEN /\ dh' = [Parsed(a) EXCEPT !.xid = a.xid, !.state = "REQUEST"]
          /\ Requested(air \ {a}, a.xid, a.ip, Parsed(a).server)
     ELSE dh' = (IF ForUs(a) THEN Parsed(a) ELSE dh) /\ air' = air \ {a} /\ UNCHANGED granted
  /\ UNCHANGED <<inside, chipIp, dhCalls>>

\* The end of the loop, and what begin or maintain make of it, the latter after the second
\* test of checkLease.
Leased(d) ==
  /\ dh' = [d EXCEPT !.xid = 0, !.initial = 0] /\ inside' = After(inside)
  /\ chipIp' = IF inside = "renew" THEN chipIp ELSE d.ip

ParseInRequest(a) ==
  /\ dh.state = "REQUEST" /\ air' = air \ {a}
  /\ \/ ForUs(a) /\ a.type = "ACK" /\ left' = Lease[a.server] /\ Leased([Timers(Parsed(a)) EXCEPT !.state = "LEASED"])
     \/ /\ ~(ForUs(a) /\ a.type = "ACK") /\ UNCHANGED <<left, inside, chipIp>>
        /\ dh' = CASE ForUs(a) /\ a.type = "NAK" -> [Parsed(a) EXCEPT !.state = "START"]
                   [] ForUs(a) /\ a.type = "OFFER" -> Parsed(a)
                   [] OTHER -> dh
  /\ UNCHANGED <<granted, dhCalls>>

\* No answer within the response timeout: 255.
NoAnswer ==
  /\ Looping /\ dh.state \in {"DISCOVER", "REQUEST"}
  /\ dh' = [dh EXCEPT !.state = "START"] /\ UNCHANGED <<inside, air, granted, left, chipIp, dhCalls>>

\* The timeout of the whole call, after any pass of the loop: the state stays.
GiveUp ==
  /\ Looping /\ dh.state \in {"START", "DISCOVER", "REQUEST"}
  /\ inside' = After(inside) /\ dh' = [dh EXCEPT !.xid = 0, !.initial = 0]
  /\ UNCHANGED <<air, granted, left, chipIp, dhCalls>>

Lose(a) == air' = air \ {a} /\ UNCHANGED <<dh, inside, granted, left, chipIp, dhCalls>>
-----------------------------------------------------------------------------
\* checkLease, f seconds after the last call: a timer that would not last another such gap
\* is taken to have run out.
Elapsed(t, f) == IF t < 2 * f THEN 0 ELSE t - f

Counted(f) == IF dh.checked THEN [dh EXCEPT !.renew = Elapsed(@, f), !.rebind = Elapsed(@, f)]
              ELSE [dh EXCEPT !.checked = TRUE]

\* The second test of checkLease, and maintain.
Rebind(d) ==
  IF d.state \in {"LEASED", "START"} /\ d.rebind <= 0
  THEN request_DHCP_lease([d EXCEPT !.state = "START", !.ip = NoIp, !.server = NoIp], "rebind")
  ELSE dh' = d /\ inside' = "no" /\ UNCHANGED dhCalls

\* The first call only starts the clock: it is made at once.
checkLease(f) ==
  LET d == Counted(f)
      rest == IF left > f THEN left - f ELSE 0
      due == d.state = "LEASED" /\ d.renew <= 0
  IN  /\ inside = "no" /\ dhCalls > 0
      /\ IF dh.checked
         THEN /\ left' = rest
              /\ \/ due /\ request_DHCP_lease([d EXCEPT !.state = "REREQUEST"], "renew")
                 \/ ~due /\ Rebind(d)
         ELSE dh' = d /\ UNCHANGED <<left, inside, dhCalls>>
      /\ UNCHANGED <<air, granted, chipIp>>

AfterRenewal ==
  /\ inside = "renewed" /\ Rebind(dh)
  /\ chipIp' = IF dh'.state = "LEASED" THEN dh.ip ELSE chipIp
  /\ UNCHANGED <<air, granted, left>>

\* The bounds are reached: nothing more happens.
DhcpDone == dhCalls = MaxCalls /\ UNCHANGED dhcpVars

Next ==
  \/ beginWithDHCP \/ DhcpStart \/ DhcpRerequest \/ NoAnswer \/ GiveUp \/ AfterRenewal \/ DhcpDone
  \/ (\E x \in 1..2 : OtherClient(x)) \/ \E f \in Gaps : checkLease(f)
  \/ \E a \in air : Lose(a) \/ (Looping /\ (ParseInDiscover(a) \/ ParseInRequest(a)))

Spec == Init /\ [][Next]_dhcpVars
-----------------------------------------------------------------------------
\* The chip never gets an address no server has granted to this client, whatever answers
\* to other clients, late answers and answers of other servers arrive.
AddressIsGranted == chipIp # NoIp => chipIp \in granted

\* A lease does not run out before its renewal is asked for, when maintain is called at
\* least every two seconds (checkLease): unless T1 is more than half of the lease. It can be
\* that because the server says so, or because T1 was calculated from an earlier, longer
\* lease, or sent in another server's offer, and is kept (Dhcp.cpp:98).
RenewedInTime ==
  /\ dh.state = "LEASED" \/ (dh.state = "REREQUEST" /\ inside = "renew")
  /\ dh.T1 <= dh.lease \div 2
  => left > 0
=============================================================================
