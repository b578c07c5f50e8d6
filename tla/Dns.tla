-------------------------------- MODULE Dns --------------------------------
(***************************************************************************)
(* The DNS client of libraries/Ethernet: getHostByName turns a numeric     *)
(* address into an IPAddress itself, and asks the server for other names.  *)
(* The server is external; its answers can be lost, delayed past the       *)
(* timeout of the lookup and into a later one, cut, or come from somewhere *)
(* else at all.  Hosts and packets are sequences of bytes.                 *)
(***************************************************************************)
EXTENDS Integers, Sequences, SequencesExt

CONSTANTS
  HostNames,       \* names, as sequences of characters
  Unset,           \* the caller's address before the call
  Numeric,         \* addresses in numeric form: [host, address]
  AddressOf(_),    \* the address the server knows for a name
  MaxLookups       \* bound on the lookups

VARIABLES
  lookup,      \* the lookup in progress: its name and iRequestId, or its outcome
  answers,     \* packets in flight: who sent them, and their bytes
  lookups

dnsVars == <<lookup, answers, lookups>>

DOT == 46
DIGIT0 == 48
TYPE_A == 1
TYPE_CNAME == 5
-----------------------------------------------------------------------------
(* inet_aton.  The test for digits and dots accepts every character, so a  *)
(* name is told from an address by its values alone: one of at most four   *)
(* parts, none of them above 255, is converted, whatever it is made of.    *)
(* int has 16 bits, and the values may be negative.                        *)

Int16(n) == IF n % 65536 >= 32768 THEN (n % 65536) - 65536 ELSE n % 65536

\* Mutated form of Digit: the next character starts a new value.
DigitOnly(value, c) == Int16(c - DIGIT0)

Digit(value, c) == Int16(value * 10 + (c - DIGIT0))

RECURSIVE Segments(_, _, _)
Segments(s, done, value) ==
  IF s = << >> \/ Len(done) >= 4
  THEN IF value > 255 \/ Len(done) > 3 THEN << >> ELSE Append(done, value % 256)
  ELSE IF Head(s) = DOT
       THEN IF value > 255 THEN << >> ELSE Segments(Tail(s), Append(done, value % 256), 0)
       ELSE Segments(Tail(s), done, Digit(value, Head(s)))

\* The bytes written to the address, from the first on; << >> if the result is 0.
inet_aton(host) == Segments(host, << >>, 0)

\* The address of a caller after that: what was not written stays.
Written(bytes) == bytes \o SubSeq(Unset, Len(bytes) + 1, 4)
-----------------------------------------------------------------------------
(* The request and the answer, as bytes.                                   *)

Word(n) == <<n \div 256, n % 256>>

\* BuildRequest: the labels of the name, each after its length; empty ones are left out.
RECURSIVE Labels(_, _)
Labels(s, label) ==
  IF s = << >> THEN (IF label = << >> THEN << >> ELSE <<Len(label)>> \o label)
  ELSE IF Head(s) = DOT THEN (IF label = << >> THEN << >> ELSE <<Len(label)>> \o label) \o Labels(Tail(s), << >>)
  ELSE Labels(Tail(s), Append(label, Head(s)))

BuildRequest(id, host) ==
  Word(id) \o Word(256) \o Word(1) \o Word(0) \o Word(0) \o Word(0)
    \o Labels(host, << >>) \o <<0>> \o Word(TYPE_A) \o Word(1)

\* The server (external): the question again, and an address, maybe after an alias, or no
\* record at all.  The code of an error is in the low bits of the flags, TRUNCATION_FLAG is 512.
Record(type, data) == <<192, 12>> \o Word(type) \o Word(1) \o <<0, 0, 1, 0>> \o Word(Len(data)) \o data
Question(packet) == SubSeq(packet, 13, Len(packet))
Records(address, kind) ==
  CASE kind = "plain" -> <<Record(TYPE_A, address)>>
    [] kind = "alias" -> <<Record(TYPE_CNAME, <<2, 99, 100, 192, 12>>), Record(TYPE_A, address)>>
    [] kind = "empty" -> << >>
ServerAnswer(packet, address, kind, flags) ==
  LET records == Records(address, kind)
  IN  SubSeq(packet, 1, 2) \o Word(flags) \o Word(1) \o Word(Len(records)) \o Word(0) \o Word(0)
        \o Question(packet) \o FlattenSeq(records)
-----------------------------------------------------------------------------
(* ProcessResponse.                                                        *)

At(p, i) == 256 * p[i] + p[i + 1]
From(p, i) == SubSeq(p, i, Len(p))

RECURSIVE AfterName(_)
AfterName(p) == CASE Head(p) >= 192 -> From(p, 3)
                  [] Head(p) = 0 -> Tail(p)
                  [] OTHER -> AfterName(From(p, Head(p) + 2))

\* The first record that is an address; p starts at the first of n records.
RECURSIVE FirstAddress(_, _)
FirstAddress(p, n) ==
  IF n = 0 THEN [ret |-> -10]
  ELSE LET r == AfterName(p)
           len == At(r, 9)
       IN  IF At(r, 1) # TYPE_A \/ At(r, 3) # 1 THEN FirstAddress(From(r, 11 + len), n - 1)
           ELSE IF len # 4 THEN [ret |-> -9]
           ELSE [ret |-> 1, address |-> SubSeq(r, 11, 14)]

RESPONSE(flags) == flags \div 32768 = 1
TRUNCATION(flags) == (flags \div 512) % 2 = 1

\* The rest of ProcessResponse, for a packet of this request.
Answered(p) ==
  CASE TRUNCATION(At(p, 3)) \/ At(p, 3) % 16 # 0 -> [ret |-> -5]
    [] ~TRUNCATION(At(p, 3)) /\ At(p, 3) % 16 = 0 /\ At(p, 7) = 0 -> [ret |-> -6]
    [] OTHER -> FirstAddress(From(AfterName(From(p, 13)), 5), At(p, 7))

\* Mutated form of ProcessResponse: the id of the request is not compared.
ProcessResponseAnyId(from, p, id) ==
  CASE from # "server" -> [ret |-> -2]
    [] from = "server" /\ Len(p) < 12 -> [ret |-> -3]
    [] OTHER -> Answered(p)

\* ProcessResponse for a packet p that has come.
ProcessResponse(from, p, id) ==
  CASE from # "server" -> [ret |-> -2]
    [] from = "server" /\ Len(p) < 12 -> [ret |-> -3]
    [] from = "server" /\ Len(p) >= 12 /\ (At(p, 1) # id \/ ~RESPONSE(At(p, 3))) -> [ret |-> -4]
    [] OTHER -> Answered(p)
-----------------------------------------------------------------------------
Init == lookup = [at |-> "none"] /\ answers = {} /\ lookups = 0

\* The packets of which one comes at some time, or none: answers, refusals, a cut one, an
\* answer that says it is cut, and an answer to a query from somewhere else.
Replies(host, request) ==
  LET whole == ServerAnswer(request, AddressOf(host), "plain", 32768)
  IN  {[from |-> "server", p |-> ServerAnswer(request, AddressOf(host), kind, flags)] :
          kind \in {"plain", "alias", "empty"}, flags \in {32768, 32768 + 3, 32768 + 512, 256}}
        \cup {[from |-> "server", p |-> SubSeq(whole, 1, 8)],
              [from |-> "elsewhere", p |-> ServerAnswer(request, <<6, 6, 6, 6>>, "plain", 32768)]}

\* A lookup that is over at once.
Ends(host, ret, address) ==
  /\ lookup' = [at |-> "done", host |-> host, ret |-> ret, address |-> address]
  /\ UNCHANGED answers

\* getHostByName: numeric; no server known; no socket free, or the request not sent; or a
\* request whose id is the time.
getHostByName(host) ==
  /\ lookup.at # "wait" /\ lookups < MaxLookups /\ lookups' = lookups + 1
  /\ \/ inet_aton(host) # << >> /\ Ends(host, 1, Written(inet_aton(host)))
     \/ inet_aton(host) = << >> /\ \E ret \in {-2, 0} : Ends(host, ret, << >>)
     \/ /\ inet_aton(host) = << >>
        /\ lookup' = [at |-> "wait", host |-> host, id |-> 300 * lookups + 7]
        /\ LET request == BuildRequest(300 * lookups + 7, host)
           IN  \/ UNCHANGED answers
               \/ \E r \in Replies(host, request) : answers' = answers \cup {r}

\* A packet comes while getHostByName waits; any but a timeout ends the lookup.
Receive(a) ==
  LET r == ProcessResponse(a.from, a.p, lookup.id)
  IN  /\ lookup.at = "wait" /\ answers' = answers \ {a}
      /\ lookup' = [at |-> "done", host |-> lookup.host, ret |-> r.ret,
                    address |-> IF r.ret = 1 THEN r.address ELSE << >>]
      /\ UNCHANGED lookups

\* Three times 5 seconds without an answer.
TimeOut ==
  /\ lookup.at = "wait" /\ UNCHANGED <<answers, lookups>>
  /\ lookup' = [at |-> "done", host |-> lookup.host, ret |-> -1, address |-> << >>]

\* A packet that comes when no socket is open is lost.
Missed(a) == lookup.at # "wait" /\ answers' = answers \ {a} /\ UNCHANGED <<lookup, lookups>>

DnsDone == lookups = MaxLookups /\ lookup.at # "wait" /\ UNCHANGED dnsVars

Next ==
  \/ \E h \in HostNames \cup {n.host : n \in Numeric} : getHostByName(h)
  \/ TimeOut \/ DnsDone \/ \E a \in answers : Receive(a) \/ Missed(a)

Spec == Init /\ [][Next]_dnsVars
-----------------------------------------------------------------------------
\* A lookup that succeeds gives the address of the name it was asked for, although late
\* answers to earlier lookups, cut ones and packets from elsewhere arrive, and aliases
\* precede the address in the answer.  Not claimed of the names that inet_aton converts: its
\* test for digits and dots (Dns.cpp:63) accepts every character, so "a.b" is reported as
\* found, with an address made of its characters, and no server is asked.
LookupIsRight ==
  (lookup.at = "done" /\ lookup.ret = 1 /\ lookup.host \in HostNames /\ inet_aton(lookup.host) = << >>) =>
    lookup.address = AddressOf(lookup.host)

\* An address in numeric form is read without asking the server, and read right.
NumericIsRight ==
  \A n \in Numeric : (lookup.at # "none" /\ lookup.host = n.host) =>
                       lookup.at = "done" /\ lookup.address = n.address

=============================================================================
