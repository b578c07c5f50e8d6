---------------------------- MODULE ShieldProofs ----------------------------
(*****************************************************************************)
(* The theorem about the WiFi shield (WiFi), with its proof: what the run of *)
(* MCDevices shows for a wait of two characters, two attempts and two        *)
(* sockets holds for any of them, and for any addresses.                     *)
(*****************************************************************************)
EXTENDS MCDevices, SequenceTheorems, WellFoundedInduction, TLAPS
-----------------------------------------------------------------------------
(* The WiFi shield *)

\* The first four places in a line of parameters.
LEMMA ParamAtFacts ==
  ASSUME NEW line, NEW i, NEW n \in 1 .. 4
  PROVE LET a2 == i + 1 + WF!At(line, i)
            a3 == a2 + 1 + WF!At(line, a2)
            a4 == a3 + 1 + WF!At(line, a3)
        IN  WF!ParamAt(line, i, n) = IF n = 1 THEN i ELSE IF n = 2 THEN a2 ELSE IF n = 3 THEN a3 ELSE a4
<1> DEFINE at[k \in 1 .. n] == IF k = 1 THEN i ELSE at[k - 1] + 1 + WF!At(line, at[k - 1])
           e(f) == [k \in 1 .. n |-> IF k = 1 THEN i ELSE f[k - 1] + 1 + WF!At(line, f[k - 1])]
           a2 == i + 1 + WF!At(line, i)
           a3 == a2 + 1 + WF!At(line, a2)
           a4 == a3 + 1 + WF!At(line, a3)
           w == [k \in 1 .. n |-> IF k = 1 THEN i ELSE IF k = 2 THEN a2 ELSE IF k = 3 THEN a3 ELSE a4]
<1>1. at = CHOOSE f : f = e(f)
  OBVIOUS
<1>2. a2 = i + 1 + WF!At(line, i) /\ a3 = a2 + 1 + WF!At(line, a2) /\ a4 = a3 + 1 + WF!At(line, a3)
  OBVIOUS
<1>3. e(w) = w
  <2>0. \A m \in 1 .. n : w[m] = IF m = 1 THEN i ELSE IF m = 2 THEN a2 ELSE IF m = 3 THEN a3 ELSE a4
    OBVIOUS
  <2>2. e(w) = [k \in 1 .. n |-> IF k = 1 THEN i ELSE w[k - 1] + 1 + WF!At(line, w[k - 1])]
    OBVIOUS
  <2>3. w = [k \in 1 .. n |-> w[k]]
    OBVIOUS
  <2> HIDE DEF a2, a3, a4, w, e
  <2>1. \A k \in 1 .. n : (IF k = 1 THEN i ELSE w[k - 1] + 1 + WF!At(line, w[k - 1])) = w[k]
    <3> TAKE k \in 1 .. n
    <3>1. k = 1 \/ (k \in 2 .. 4 /\ k - 1 \in 1 .. n)
      OBVIOUS
    <3>2. k # 1 => w[k - 1] = IF k - 1 = 1 THEN i ELSE IF k - 1 = 2 THEN a2 ELSE IF k - 1 = 3 THEN a3 ELSE a4
      BY <3>1, <2>0
    <3>3. CASE k = 1
      BY <3>3, <2>0
    <3>4. CASE k = 2
      BY <3>2, <3>4, <1>2, <2>0
    <3>5. CASE k = 3
      BY <3>2, <3>5, <1>2, <2>0
    <3>6. CASE k = 4
      BY <3>2, <3>6, <1>2, <2>0
    <3> QED
      BY <3>1, <3>3, <3>4, <3>5, <3>6
  <2> QED
    BY <2>1, <2>2, <2>3
<1>4. at = e(at)
  BY <1>1, <1>3
<1>9. WF!ParamAt(line, i, n) = at[n]
  BY DEF WF!ParamAt
<1> HIDE DEF at
<1>5. CASE n = 1
  BY <1>4, <1>5, <1>9
<1>6. CASE n = 2
  <2>1. at[1] = i /\ at[2] = at[1] + 1 + WF!At(line, at[1])
    BY <1>4, <1>6
  <2> QED
    BY <2>1, <1>6, <1>9
<1>7. CASE n = 3
  <2>1. at[1] = i /\ at[2] = at[1] + 1 + WF!At(line, at[1]) /\ at[3] = at[2] + 1 + WF!At(line, at[2])
    BY <1>4, <1>7
  <2> QED
    BY <2>1, <1>7, <1>9
<1>8. CASE n = 4
  <2>1. /\ at[1] = i /\ at[2] = at[1] + 1 + WF!At(line, at[1]) /\ at[3] = at[2] + 1 + WF!At(line, at[2])
        /\ at[4] = at[3] + 1 + WF!At(line, at[3])
    BY <1>4, <1>8
  <2> QED
    BY <2>1, <1>8, <1>9
<1> QED
  BY <1>5, <1>6, <1>7, <1>8

\* Up to three sequences in a row.
LEMMA FlattenFacts ==
  ASSUME NEW f, NEW n \in 1 .. 3, Len(f) = n
  PROVE LET b == f[1] \o f[2]
        IN  WF!FlattenSeq(f) = IF n = 1 THEN f[1] ELSE IF n = 2 THEN b ELSE b \o f[3]
<1> DEFINE J(x, y) == x \o y
           flatten[k \in 1 .. n] == IF k = 1 THEN f[k] ELSE flatten[k - 1] \o f[k]
           e(g) == [k \in 1 .. n |-> IF k = 1 THEN f[k] ELSE g[k - 1] \o f[k]]
           b == f[1] \o f[2]
           c == b \o f[3]
           w == [k \in 1 .. n |-> IF k = 1 THEN f[1] ELSE IF k = 2 THEN b ELSE c]
<1>1. flatten = CHOOSE g : g = e(g)
  OBVIOUS
<1>0. b = J(f[1], f[2]) /\ c = J(b, f[3])
  OBVIOUS
<1>2. e(w) = w
  <2>0. \A m \in 1 .. n : w[m] = IF m = 1 THEN f[1] ELSE IF m = 2 THEN b ELSE c
    OBVIOUS
  <2>2. e(w) = [k \in 1 .. n |-> IF k = 1 THEN f[k] ELSE J(w[k - 1], f[k])]
    OBVIOUS
  <2>3. w = [k \in 1 .. n |-> w[k]]
    OBVIOUS
  <2> HIDE DEF b, c, w, e, J
  <2>1. \A k \in 1 .. n : (IF k = 1 THEN f[k] ELSE J(w[k - 1], f[k])) = w[k]
    <3> TAKE k \in 1 .. n
    <3>1. k = 1 \/ (k \in 2 .. 3 /\ k - 1 \in 1 .. n)
      OBVIOUS
    <3>2. k # 1 => w[k - 1] = IF k - 1 = 1 THEN f[1] ELSE IF k - 1 = 2 THEN b ELSE c
      BY <3>1, <2>0
    <3>3. CASE k = 1
      BY <3>3, <2>0
    <3>4. CASE k = 2
      BY <3>2, <3>4, <2>0, <1>0
    <3>5. CASE k = 3
      BY <3>2, <3>5, <2>0, <1>0
    <3> QED
      BY <3>1, <3>3, <3>4, <3>5
  <2> QED
    BY <2>1, <2>2, <2>3
<1>3. flatten = e(flatten)
  BY <1>1, <1>2
<1>4. WF!FlattenSeq(f) = flatten[n]
  BY DEF WF!FlattenSeq
<1>5. flatten = [k \in 1 .. n |-> IF k = 1 THEN f[k] ELSE J(flatten[k - 1], f[k])]
  BY <1>3
<1> HIDE DEF flatten, J, b, c, e, w
<1>6. flatten[1] = f[1]
  BY <1>5
<1>7. n >= 2 => flatten[2] = J(f[1], f[2])
  BY <1>5, <1>6
<1>8. n = 3 => flatten[3] = J(flatten[2], f[3])
  BY <1>5
<1>9. WF!FlattenSeq(f) = IF n = 1 THEN f[1] ELSE IF n = 2 THEN b ELSE c
  BY <1>0, <1>4, <1>6, <1>7, <1>8
<1> QED
  BY <1>9 DEF b, c

\* The commands, by the number of their parameters.
Bare == {"GET_CONN_STATUS", "START_SCAN_NETWORKS", "SCAN_NETWORKS", "GET_HOST_BY_NAME", "GET_FW_VERSION"}
Dummies == {"DISCONNECT", "GET_MACADDR", "GET_IPADDR", "GET_CURR_SSID", "GET_CURR_BSSID", "GET_CURR_RSSI",
            "GET_CURR_ENCT"}
Zeros == {"GET_IDX_ENCT", "GET_IDX_RSSI", "STOP_CLIENT_TCP", "GET_STATE_TCP", "GET_CLIENT_STATE_TCP",
          "AVAIL_DATA_TCP", "GET_DATABUF_TCP", "DATA_SENT_TCP"}
Ones == {"SET_NET", "REQ_HOST_BY_NAME"}
Twos == {"SET_PASSPHRASE", "START_SERVER_TCP", "GET_DATA_TCP", "SEND_DATA_TCP"}
Threes == {"SET_KEY", "START_CLIENT_TCP"}

\* A command has at most three parameters, and a code below that of a reply.
LEMMA CommandFacts ==
  ASSUME NEW cmd \in WF!Commands
  PROVE WF!Requests[cmd] \in Seq(Seq(Nat)) /\ Len(WF!Requests[cmd]) <= 3 /\ WF!Code(cmd) \in 0 .. 95
<1>1. cmd \in Bare \cup Dummies \cup Zeros \cup Ones \cup Twos \cup Threes
  BY DEF WF!Commands, WF!Requests, Bare, Dummies, Zeros, Ones, Twos, Threes
<1>2. \A c \in Bare : WF!Requests[c] = <<>>
  BY DEF WF!Requests, Bare
<1>3. \A c \in Dummies : WF!Requests[c] = <<<<255>>>>
  BY DEF WF!Requests, WF!Dummy, WF!DUMMY_DATA, Dummies
<1>4. \A c \in Zeros : WF!Requests[c] = <<<<0>>>>
  BY DEF WF!Requests, Zeros
<1>5. WF!Requests["SET_NET"] = <<<<1>>>> /\ WF!Requests["REQ_HOST_BY_NAME"] = <<<<7, 8>>>>
  BY DEF WF!Requests
<1>6. /\ WF!Requests["SET_PASSPHRASE"] = <<<<1>>, <<2>>>>
      /\ WF!Requests["START_SERVER_TCP"] = <<<<0, 80>>, <<0>>>>
      /\ WF!Requests["GET_DATA_TCP"] = <<<<0>>, <<0, 0>>>>
      /\ WF!Requests["SEND_DATA_TCP"] = <<<<0>>, <<5>>>>
  BY DEF WF!Requests
<1>7. /\ WF!Requests["SET_KEY"] = <<<<1>>, <<0>>, <<2>>>>
      /\ WF!Requests["START_CLIENT_TCP"] = <<<<9>>, <<0, 80>>, <<0>>>>
  BY DEF WF!Requests
<1>8. /\ <<0>> \in Seq(Nat) /\ <<1>> \in Seq(Nat) /\ <<2>> \in Seq(Nat) /\ <<5>> \in Seq(Nat) /\ <<9>> \in Seq(Nat)
      /\ <<255>> \in Seq(Nat) /\ <<7, 8>> \in Seq(Nat) /\ <<0, 80>> \in Seq(Nat) /\ <<0, 0>> \in Seq(Nat)
  OBVIOUS
<1>9. /\ \A a \in Seq(Nat) : <<a>> \in Seq(Seq(Nat)) /\ Len(<<a>>) <= 3
      /\ \A a, b \in Seq(Nat) : <<a, b>> \in Seq(Seq(Nat)) /\ Len(<<a, b>>) <= 3
      /\ \A a, b, c \in Seq(Nat) : <<a, b, c>> \in Seq(Seq(Nat)) /\ Len(<<a, b, c>>) <= 3
      /\ <<>> \in Seq(Seq(Nat)) /\ Len(<<>>) <= 3
  OBVIOUS
<1>10. \A c \in WF!Commands : WF!Code(c) \in 0 .. 95
  BY DEF WF!Code, WF!Codes, WF!Commands, WF!Requests
<1> DEFINE Fits(s) == s \in Seq(Seq(Nat)) /\ Len(s) <= 3
<1>11. Fits(WF!Requests[cmd])
  <2>1. /\ Fits(<<>>) /\ Fits(<<<<255>>>>) /\ Fits(<<<<0>>>>) /\ Fits(<<<<1>>>>) /\ Fits(<<<<7, 8>>>>)
        /\ Fits(<<<<1>>, <<2>>>>) /\ Fits(<<<<0, 80>>, <<0>>>>) /\ Fits(<<<<0>>, <<0, 0>>>>)
        /\ Fits(<<<<0>>, <<5>>>>) /\ Fits(<<<<1>>, <<0>>, <<2>>>>) /\ Fits(<<<<9>>, <<0, 80>>, <<0>>>>)
    BY <1>8, <1>9
  <2> HIDE DEF Fits
  <2>2. CASE cmd \in Bare
    BY <2>1, <2>2, <1>2
  <2>3. CASE cmd \in Dummies
    BY <2>1, <2>3, <1>3
  <2>4. CASE cmd \in Zeros
    BY <2>1, <2>4, <1>4
  <2>5. CASE cmd \in Ones
    BY <2>1, <2>5, <1>5 DEF Ones
  <2>6. CASE cmd \in Twos
    BY <2>1, <2>6, <1>6 DEF Twos
  <2>7. CASE cmd \in Threes
    BY <2>1, <2>7, <1>7 DEF Threes
  <2> QED
    BY <1>1, <2>2, <2>3, <2>4, <2>5, <2>6, <2>7
<1> QED
  BY <1>10, <1>11

\* What is where in a row of two.
Row(x, y) == x \o y

\* What is where in a row of two.
LEMMA RowFacts ==
  ASSUME NEW x \in Seq(Nat), NEW y \in Seq(Nat)
  PROVE /\ Row(x, y) \in Seq(Nat) /\ Len(Row(x, y)) = Len(x) + Len(y) /\ Len(x) \in Nat /\ Len(y) \in Nat
        /\ \A k \in 1 .. Len(x) : Row(x, y)[k] = x[k]
        /\ \A k \in 1 .. Len(y) : Row(x, y)[Len(x) + k] = y[k]
  BY DEF Row

\* A parameter behind its length, and what follows.
Packed(x, y) == (<<Len(x)>> \o x) \o y

\* What is where when a parameter is packed in front of the rest.
LEMMA PackedFacts ==
  ASSUME NEW x \in Seq(Nat), NEW y \in Seq(Nat)
  PROVE /\ Packed(x, y) \in Seq(Nat) /\ Len(Packed(x, y)) = 1 + Len(x) + Len(y)
        /\ Len(x) \in Nat /\ Len(y) \in Nat /\ Packed(x, y)[1] = Len(x)
        /\ \A k \in 1 .. Len(y) : Packed(x, y)[1 + Len(x) + k] = y[k]
<1> DEFINE h == <<Len(x)>>
           z == Row(h, x)
<1>1. h \in Seq(Nat) /\ Len(h) = 1 /\ h[1] = Len(x) /\ Len(x) \in Nat /\ Len(y) \in Nat
  OBVIOUS
<1>2. Packed(x, y) = Row(z, y)
  BY DEF Packed, Row
<1>0. z = Row(h, x)
  OBVIOUS
<1> HIDE DEF h, z
<1>3. z \in Seq(Nat) /\ Len(z) = 1 + Len(x) /\ z[1] = Len(x)
  <2>1. Row(h, x) \in Seq(Nat) /\ Len(Row(h, x)) = Len(h) + Len(x) /\ \A k \in 1 .. Len(h) : Row(h, x)[k] = h[k]
    BY <1>1, RowFacts
  <2> QED
    BY <2>1, <1>0, <1>1
<1>4. Row(z, y) \in Seq(Nat) /\ Len(Row(z, y)) = Len(z) + Len(y) /\ \A k \in 1 .. Len(z) : Row(z, y)[k] = z[k]
  BY <1>3, RowFacts
<1>5. \A k \in 1 .. Len(y) : Row(z, y)[Len(z) + k] = y[k]
  BY <1>3, RowFacts
<1>6. Row(z, y)[1] = Len(x)
  BY <1>1, <1>3, <1>4
<1> DEFINE w == Row(z, y)
<1> HIDE DEF w
<1>7. w \in Seq(Nat) /\ Len(w) = 1 + Len(x) + Len(y) /\ w[1] = Len(x) /\ Packed(x, y) = w
  BY <1>1, <1>2, <1>3, <1>4, <1>6 DEF w
<1>8. \A k \in 1 .. Len(y) : w[1 + Len(x) + k] = y[k]
  BY <1>3, <1>5 DEF w
<1> QED
  BY <1>1, <1>7, <1>8

\* What follows the head of a line.
LEMMA HeadedFacts ==
  ASSUME NEW h \in Seq(Nat), NEW rest \in Seq(Nat)
  PROVE /\ Row(h, rest) \in Seq(Nat) /\ Len(Row(h, rest)) = Len(h) + Len(rest) /\ Len(rest) \in Nat
        /\ \A k \in 1 .. Len(h) : Row(h, rest)[k] = h[k]
        /\ \A k \in 1 .. Len(rest) : Row(h, rest)[Len(h) + k] = rest[k]
        /\ \A k \in 1 .. Len(rest) : WF!At(Row(h, rest), Len(h) + k) = rest[k]
<1> DEFINE w == Row(h, rest)
<1>1. /\ w \in Seq(Nat) /\ Len(w) = Len(h) + Len(rest) /\ Len(rest) \in Nat /\ Len(h) \in Nat
      /\ \A k \in 1 .. Len(h) : w[k] = h[k]
      /\ \A k \in 1 .. Len(rest) : w[Len(h) + k] = rest[k]
  BY RowFacts
<1> HIDE DEF w
<1>2. \A k \in 1 .. Len(rest) : WF!At(w, Len(h) + k) = rest[k]
  BY <1>1 DEF WF!At
<1> QED
  BY <1>1, <1>2 DEF w

\* The n-th parameter of the line would begin where the line ends, with the end mark.
Placed(line, n) == WF!ParamAt(line, 4, n) = Len(line) /\ line[Len(line)] = 238

\* The places of the parameters in a line with up to three of them.
LEMMA LineOfNone ==
  ASSUME NEW h \in Seq(Nat), NEW end \in Seq(Nat)
  PROVE Len(h) = 3 /\ Len(end) = 1 /\ end[1] = 238 => LET line == Row(h, end) IN Placed(line, 1)
<1> DEFINE line == Row(h, end)
<1>1. SUFFICES ASSUME Len(h) = 3, Len(end) = 1, end[1] = 238
             PROVE WF!ParamAt(line, 4, 1) = Len(line) /\ line[Len(line)] = 238
  BY DEF Placed
<1>2a. Len(line) = Len(h) + Len(end) /\ \A k \in 1 .. Len(end) : line[Len(h) + k] = end[k]
  BY HeadedFacts
<1> HIDE DEF line
<1>2. Len(line) = 3 + Len(end) /\ \A k \in 1 .. Len(end) : line[3 + k] = end[k]
  BY <1>1, <1>2a
<1>3. Len(line) = 4 /\ line[3 + 1] = 238
  BY <1>1, <1>2
<1>4. WF!ParamAt(line, 4, 1) = 4
  BY ParamAtFacts
<1> QED
  BY <1>3, <1>4

\* A command with one parameter ends where its last parameter does.
LEMMA LineOfOne ==
  ASSUME NEW h \in Seq(Nat), NEW x \in Seq(Nat), NEW end \in Seq(Nat)
  PROVE Len(h) = 3 /\ Len(end) = 1 /\ end[1] = 238 => LET line == Row(h, Packed(x, end)) IN Placed(line, 2)
<1> DEFINE rest == Packed(x, end)
           line == Row(h, rest)
           m == Len(x)
<1>1. SUFFICES ASSUME Len(h) = 3, Len(end) = 1, end[1] = 238
             PROVE WF!ParamAt(line, 4, 2) = Len(line) /\ line[Len(line)] = 238
  BY DEF Placed
<1>2. /\ rest \in Seq(Nat) /\ Len(rest) = 1 + m + Len(end) /\ m \in Nat /\ rest[1] = m
      /\ \A k \in 1 .. Len(end) : rest[1 + m + k] = end[k]
  BY PackedFacts
<1> HIDE DEF rest, m
<1>3. Len(rest) = 2 + m /\ rest[2 + m] = 238
  <2>1. rest[1 + m + 1] = 238
    BY <1>1, <1>2
  <2> QED
    BY <2>1, <1>1, <1>2
<1>4a. /\ Len(line) = Len(h) + Len(rest) /\ \A k \in 1 .. Len(rest) : line[Len(h) + k] = rest[k]
      /\ \A k \in 1 .. Len(rest) : WF!At(line, Len(h) + k) = rest[k]
  BY <1>2, HeadedFacts
<1> HIDE DEF line
<1>4. /\ Len(line) = 3 + Len(rest) /\ \A k \in 1 .. Len(rest) : line[3 + k] = rest[k]
      /\ \A k \in 1 .. Len(rest) : WF!At(line, 3 + k) = rest[k]
  BY <1>1, <1>4a
<1>5. Len(line) = 5 + m /\ line[5 + m] = 238
  <2>1. line[3 + (2 + m)] = 238
    BY <1>2, <1>3, <1>4
  <2> QED
    BY <2>1, <1>2, <1>3, <1>4
<1>6. WF!At(line, 3 + 1) = m
  BY <1>2, <1>3, <1>4
<1>7. WF!ParamAt(line, 4, 2) = 4 + 1 + WF!At(line, 4)
  BY ParamAtFacts
<1> QED
  BY <1>2, <1>5, <1>6, <1>7

\* The same for a command with two parameters.
LEMMA LineOfTwo ==
  ASSUME NEW h \in Seq(Nat), NEW x \in Seq(Nat), NEW y \in Seq(Nat), NEW end \in Seq(Nat)
  PROVE Len(h) = 3 /\ Len(end) = 1 /\ end[1] = 238 => LET line == Row(h, Packed(x, Packed(y, end))) IN Placed(line, 3)
<1> DEFINE more == Packed(y, end)
           rest == Packed(x, more)
           line == Row(h, rest)
           m == Len(x)
           l == Len(y)
<1>1. SUFFICES ASSUME Len(h) = 3, Len(end) = 1, end[1] = 238
             PROVE WF!ParamAt(line, 4, 3) = Len(line) /\ line[Len(line)] = 238
  BY DEF Placed
<1>2. /\ more \in Seq(Nat) /\ Len(more) = 1 + l + Len(end) /\ l \in Nat /\ more[1] = l
      /\ \A k \in 1 .. Len(end) : more[1 + l + k] = end[k]
  BY PackedFacts
<1> HIDE DEF more, l
<1>3. Len(more) = 2 + l /\ more[2 + l] = 238
  <2>1. more[1 + l + 1] = 238
    BY <1>1, <1>2
  <2> QED
    BY <2>1, <1>1, <1>2
<1>4. /\ rest \in Seq(Nat) /\ Len(rest) = 1 + m + Len(more) /\ m \in Nat /\ rest[1] = m
      /\ \A k \in 1 .. Len(more) : rest[1 + m + k] = more[k]
  BY <1>2, PackedFacts
<1> HIDE DEF rest, m
<1>5. Len(rest) = 3 + m + l /\ rest[1 + m + 1] = l /\ rest[1 + m + (2 + l)] = 238
  BY <1>2, <1>3, <1>4
<1>6a. /\ Len(line) = Len(h) + Len(rest) /\ \A k \in 1 .. Len(rest) : line[Len(h) + k] = rest[k]
      /\ \A k \in 1 .. Len(rest) : WF!At(line, Len(h) + k) = rest[k]
  BY <1>4, HeadedFacts
<1> HIDE DEF line
<1>6. /\ Len(line) = 3 + Len(rest) /\ \A k \in 1 .. Len(rest) : line[3 + k] = rest[k]
      /\ \A k \in 1 .. Len(rest) : WF!At(line, 3 + k) = rest[k]
  BY <1>1, <1>6a
<1>7. Len(line) = 6 + m + l /\ line[3 + (1 + m + (2 + l))] = 238
  BY <1>2, <1>4, <1>5, <1>6
<1>8. WF!At(line, 3 + 1) = m /\ WF!At(line, 3 + (1 + m + 1)) = l
  <2>1. 1 \in 1 .. Len(rest) /\ 1 + m + 1 \in 1 .. Len(rest)
    BY <1>2, <1>4, <1>5
  <2> QED
    BY <2>1, <1>4, <1>5, <1>6
<1>9. WF!ParamAt(line, 4, 3) = (4 + 1 + WF!At(line, 4)) + 1 + WF!At(line, 4 + 1 + WF!At(line, 4))
  BY ParamAtFacts
<1>10. WF!At(line, 4) = m /\ WF!At(line, 4 + 1 + m) = l
  <2>1. 3 + 1 = 4 /\ 3 + (1 + m + 1) = 4 + 1 + m
    BY <1>4
  <2> QED
    BY <2>1, <1>8
<1>11. WF!ParamAt(line, 4, 3) = (4 + 1 + m) + 1 + l
  BY <1>9, <1>10
<1>12. 3 + (1 + m + (2 + l)) = 6 + m + l /\ (4 + 1 + m) + 1 + l = 6 + m + l
  BY <1>2, <1>4
<1> QED
  BY <1>7, <1>11, <1>12

\* The same for a command with three parameters.
LEMMA LineOfThree ==
  ASSUME NEW h \in Seq(Nat), NEW x \in Seq(Nat), NEW y \in Seq(Nat), NEW z \in Seq(Nat), NEW end \in Seq(Nat)
  PROVE Len(h) = 3 /\ Len(end) = 1 /\ end[1] = 238 => LET line == Row(h, Packed(x, Packed(y, Packed(z, end)))) IN Placed(line, 4)
<1> DEFINE most == Packed(z, end)
           more == Packed(y, most)
           rest == Packed(x, more)
           line == Row(h, rest)
           m == Len(x)
           l == Len(y)
           j == Len(z)
<1>1. SUFFICES ASSUME Len(h) = 3, Len(end) = 1, end[1] = 238
             PROVE WF!ParamAt(line, 4, 4) = Len(line) /\ line[Len(line)] = 238
  BY DEF Placed
<1>2. /\ most \in Seq(Nat) /\ Len(most) = 1 + j + Len(end) /\ j \in Nat /\ most[1] = j
      /\ \A k \in 1 .. Len(end) : most[1 + j + k] = end[k]
  BY PackedFacts
<1> HIDE DEF most, j
<1>3. Len(most) = 2 + j /\ most[2 + j] = 238
  <2>1. most[1 + j + 1] = 238
    BY <1>1, <1>2
  <2> QED
    BY <2>1, <1>1, <1>2
<1>4. /\ more \in Seq(Nat) /\ Len(more) = 1 + l + Len(most) /\ l \in Nat /\ more[1] = l
      /\ \A k \in 1 .. Len(most) : more[1 + l + k] = most[k]
  BY <1>2, PackedFacts
<1> HIDE DEF more, l
<1>5. Len(more) = 3 + l + j /\ more[1 + l + 1] = j /\ more[1 + l + (2 + j)] = 238
  BY <1>2, <1>3, <1>4
<1>6. /\ rest \in Seq(Nat) /\ Len(rest) = 1 + m + Len(more) /\ m \in Nat /\ rest[1] = m
      /\ \A k \in 1 .. Len(more) : rest[1 + m + k] = more[k]
  BY <1>4, PackedFacts
<1> HIDE DEF rest, m
<1>7. /\ Len(rest) = 4 + m + l + j /\ rest[1 + m + 1] = l
      /\ rest[1 + m + (1 + l + 1)] = j /\ rest[1 + m + (1 + l + (2 + j))] = 238
  <2>1. 1 \in 1 .. Len(more) /\ 1 + l + 1 \in 1 .. Len(more) /\ 1 + l + (2 + j) \in 1 .. Len(more)
    BY <1>2, <1>4, <1>5
  <2>2. Len(rest) = 4 + m + l + j
    BY <1>2, <1>4, <1>5, <1>6
  <2>3. rest[1 + m + 1] = more[1] /\ rest[1 + m + (1 + l + 1)] = more[1 + l + 1]
        /\ rest[1 + m + (1 + l + (2 + j))] = more[1 + l + (2 + j)]
    BY <2>1, <1>6
  <2> QED
    BY <2>2, <2>3, <1>4, <1>5
<1>8a. /\ Len(line) = Len(h) + Len(rest) /\ \A k \in 1 .. Len(rest) : line[Len(h) + k] = rest[k]
      /\ \A k \in 1 .. Len(rest) : WF!At(line, Len(h) + k) = rest[k]
  BY <1>6, HeadedFacts
<1> HIDE DEF line
<1>8. /\ Len(line) = 3 + Len(rest) /\ \A k \in 1 .. Len(rest) : line[3 + k] = rest[k]
      /\ \A k \in 1 .. Len(rest) : WF!At(line, 3 + k) = rest[k]
  BY <1>1, <1>8a
<1>9. Len(line) = 7 + m + l + j /\ line[3 + (1 + m + (1 + l + (2 + j)))] = 238
  <2>1. 1 + m + (1 + l + (2 + j)) \in 1 .. Len(rest)
    BY <1>2, <1>4, <1>6, <1>7
  <2>2. Len(line) = 7 + m + l + j
    BY <1>2, <1>4, <1>6, <1>7, <1>8
  <2> QED
    BY <2>1, <2>2, <1>7, <1>8
<1>10. /\ WF!At(line, 3 + 1) = m /\ WF!At(line, 3 + (1 + m + 1)) = l
       /\ WF!At(line, 3 + (1 + m + (1 + l + 1))) = j
  <2>0. Len(rest) = 4 + m + l + j /\ m \in Nat /\ l \in Nat /\ j \in Nat
    BY <1>2, <1>4, <1>6, <1>7
  <2>1. 1 \in 1 .. Len(rest) /\ 1 + m + 1 \in 1 .. Len(rest) /\ 1 + m + (1 + l + 1) \in 1 .. Len(rest)
    BY <2>0
  <2> QED
    BY <2>1, <1>6, <1>7, <1>8
<1> DEFINE a2 == 4 + 1 + WF!At(line, 4)
           a3 == a2 + 1 + WF!At(line, a2)
<1>11. WF!ParamAt(line, 4, 4) = a3 + 1 + WF!At(line, a3)
  BY ParamAtFacts
<1>12. a2 = 3 + (1 + m + 1)
  BY <1>6, <1>10
<1>13. a3 = a2 + 1 + WF!At(line, a2)
  OBVIOUS
<1> HIDE DEF a2, a3
<1>14. a3 = 3 + (1 + m + (1 + l + 1))
  BY <1>4, <1>6, <1>10, <1>12, <1>13
<1>15. WF!ParamAt(line, 4, 4) = 3 + (1 + m + (1 + l + 1)) + 1 + j
  BY <1>10, <1>11, <1>14
<1>16. /\ 3 + (1 + m + (1 + l + (2 + j))) = 7 + m + l + j
       /\ 3 + (1 + m + (1 + l + 1)) + 1 + j = 7 + m + l + j
  BY <1>2, <1>4, <1>6
<1> QED
  BY <1>9, <1>15, <1>16

\* A parameter as it is sent: the last one with the end mark behind it.
Inner(x) == (<<Len(x)>> \o x) \o <<>>

Final(x) == (<<Len(x)>> \o x) \o <<238>>

\* A parameter that is not the last is followed by the next.
LEMMA ParcelFacts ==
  ASSUME NEW x \in Seq(Nat)
  PROVE /\ Final(x) = Packed(x, <<238>>) /\ Inner(x) \in Seq(Nat)
        /\ \A y \in Seq(Nat) : Inner(x) \o y = Packed(x, y)
<1> DEFINE h == <<Len(x)>>
           z == Row(h, x)
<1>1. h \in Seq(Nat)
  OBVIOUS
<1> HIDE DEF h
<1>2. z \in Seq(Nat)
  BY <1>1, RowFacts
<1>3. Packed(x, <<238>>) = z \o <<238>> /\ \A y \in Seq(Nat) : Packed(x, y) = z \o y
  BY DEF Packed, Row, h
<1>4. Final(x) = z \o <<238>> /\ Inner(x) = z \o <<>>
  BY DEF Final, Inner, Row, h
<1> HIDE DEF z
<1>5. z \o <<>> = z
  BY <1>2, ConcatEmptySeq
<1> QED
  BY <1>2, <1>3, <1>4, <1>5

\* Two parameters that are not the last, and what follows.
LEMMA ParcelsFacts ==
  ASSUME NEW x \in Seq(Nat), NEW y \in Seq(Nat), NEW z \in Seq(Nat)
  PROVE (Inner(x) \o Inner(y)) \o z = Packed(x, Packed(y, z))
<1> DEFINE a == Inner(x)
           b == Inner(y)
<1>1. a \in Seq(Nat) /\ b \in Seq(Nat) /\ b \o z = Packed(y, z) /\ \A w \in Seq(Nat) : a \o w = Packed(x, w)
  BY ParcelFacts
<1>2. Packed(y, z) \in Seq(Nat)
  BY PackedFacts
<1> HIDE DEF a, b
<1>3. (a \o b) \o z = a \o (b \o z)
  <2>1. a \in Seq(Nat) /\ b \in Seq(Nat) /\ z \in Seq(Nat)
    BY <1>1
  <2> QED
    BY ONLY <2>1, ConcatAssociative
<1> QED
  BY <1>1, <1>2, <1>3 DEF a, b

\* Up to three sequences in a row, by their number.
LEMMA FlattenCases ==
  ASSUME NEW f
  PROVE /\ Len(f) = 0 => WF!FlattenSeq(f) = f
        /\ Len(f) = 1 => WF!FlattenSeq(f) = f[1]
        /\ Len(f) = 2 => WF!FlattenSeq(f) = f[1] \o f[2]
        /\ Len(f) = 3 => WF!FlattenSeq(f) = (f[1] \o f[2]) \o f[3]
<1>1. Len(f) = 0 => WF!FlattenSeq(f) = f
  BY DEF WF!FlattenSeq
<1>2. \A n \in 1 .. 3 : Len(f) = n => LET b == f[1] \o f[2]
        IN  WF!FlattenSeq(f) = IF n = 1 THEN f[1] ELSE IF n = 2 THEN b ELSE b \o f[3]
  BY FlattenFacts
<1>3. Len(f) = 1 => WF!FlattenSeq(f) = f[1]
  BY <1>2
<1>4. Len(f) = 2 => WF!FlattenSeq(f) = f[1] \o f[2]
  BY <1>2
<1>5. Len(f) = 3 => WF!FlattenSeq(f) = (f[1] \o f[2]) \o f[3]
  BY <1>2
<1> QED
  BY <1>1, <1>3, <1>4, <1>5

\* A packed parameter is a sequence of bytes.
LEMMA PackedIsSeq == \A x, y \in Seq(Nat) : Packed(x, y) \in Seq(Nat)
  BY PackedFacts

\* The parameters of a command, its code and their number are as the shield expects them.
LEMMA HeadIsSeq ==
  ASSUME NEW cmd \in WF!Commands
  PROVE LET h == <<224, WF!Code(cmd), Len(WF!Requests[cmd])>>
        IN  h \in Seq(Nat) /\ Len(h) = 3 /\ h[3] = Len(WF!Requests[cmd]) /\ Len(WF!Requests[cmd]) \in 0 .. 3
<1> DEFINE c == WF!Code(cmd)
           n == Len(WF!Requests[cmd])
<1>1. WF!Requests[cmd] \in Seq(Seq(Nat)) /\ n <= 3 /\ c \in 0 .. 95
  BY CommandFacts
<1>2. n \in 0 .. 3 /\ c \in Nat
  <2>1. n \in Nat
    BY <1>1
  <2> HIDE DEF n, c
  <2> QED
    BY <2>1, <1>1
<1> HIDE DEF n, c
<1>3. <<224, c, n>> \in Seq(Nat) /\ Len(<<224, c, n>>) = 3 /\ <<224, c, n>>[3] = n
  BY <1>2
<1> QED
  BY <1>2, <1>3 DEF n, c

\* What the shield hears is a whole frame.
LEMMA RequestIsWhole ==
  ASSUME NEW cmd \in WF!Commands
  PROVE LET line == WF!Request(cmd)
        IN  WF!ParamAt(line, 4, line[3] + 1) = Len(line) /\ line[Len(line)] = 238
<1> DEFINE p == WF!Requests[cmd]
           n == Len(p)
           end == <<238>>
           h == <<224, WF!Code(cmd), n>>
           f == [i \in 1 .. n |-> WF!sendParam(p[i], i = n)]
           line == WF!Request(cmd)
           Whole(l) == WF!ParamAt(l, 4, l[3] + 1) = Len(l) /\ l[Len(l)] = 238
<1>1. p \in Seq(Seq(Nat))
  BY CommandFacts
<1>2. h \in Seq(Nat) /\ Len(h) = 3 /\ h[3] = n /\ n \in 0 .. 3
  BY HeadIsSeq
<1>3. end \in Seq(Nat) /\ Len(end) = 1 /\ end[1] = 238
  OBVIOUS
<1>4. line = (h \o (IF n = 0 THEN end ELSE <<>>)) \o WF!FlattenSeq(f)
  BY DEF WF!Request, WF!sendCmd, WF!START_CMD, WF!END_CMD
<1>5. \A i \in 1 .. n : f[i] = IF i = n THEN Final(p[i]) ELSE Inner(p[i])
  BY DEF WF!sendParam, WF!END_CMD, Final, Inner
<1>6. n \in 0 .. 3 /\ f = [i \in 1 .. n |-> f[i]] /\ n = Len(p)
  BY <1>2
<1> HIDE DEF p, n, h, f, end
<1>7. Len(f) = n /\ (n = 0 => f = <<>>) /\ \A i \in 1 .. n : p[i] \in Seq(Nat)
  BY <1>1, <1>6
<1>14. \A x \in Seq(Nat) : Final(x) = Packed(x, end)
  BY ParcelFacts DEF end
<1>8. h \o <<>> = h
  BY <1>2, ConcatEmptySeq
<1>9. \A r \in Seq(Nat) : Row(h, r)[3] = n /\ Row(h, r) = h \o r
  <2> TAKE r \in Seq(Nat)
  <2>1. \A k \in 1 .. Len(h) : Row(h, r)[k] = h[k]
    <3>1. h \in Seq(Nat)
      BY <1>2
    <3> QED
      BY <3>1, RowFacts
  <2>2. Row(h, r)[3] = n
    BY <2>1, <1>2
  <2> QED
    BY <2>2 DEF Row
<1>10. CASE n = 0
  <2>1. WF!FlattenSeq(f) = <<>>
    BY <1>7, <1>10, FlattenCases
  <2>2. Row(h, end) \in Seq(Nat)
    BY <1>2, <1>3, RowFacts
  <2>3. line = Row(h, end)
    <3>1. line = Row(h, end) \o <<>>
      BY <1>3, <1>4, <1>9, <1>10, <2>1
    <3> QED
      BY <3>1, <2>2, ConcatEmptySeq
  <2>4. Len(h) = 3 /\ Len(end) = 1 /\ end[1] = 238
    BY <1>2, <1>3
  <2>5. Placed(line, 1)
    BY <1>2, <1>3, <2>3, <2>4, LineOfNone
  <2> QED
    BY <1>3, <1>9, <1>10, <2>3, <2>5 DEF Placed
<1>11. CASE n = 1
  <2> DEFINE x == p[1]
             z == f[1]
  <2>0. x \in Seq(Nat) /\ z = Final(x)
    BY <1>5, <1>7, <1>11
  <2>1. x \in Seq(Nat) /\ z = Final(x) /\ WF!FlattenSeq(f) = z
    BY <2>0, <1>7, <1>11, FlattenCases
  <2> HIDE DEF x, z
  <2>2. z = Packed(x, end) /\ Packed(x, end) \in Seq(Nat)
    BY <2>1, <1>3, <1>14, PackedIsSeq
  <2>3. line = h \o z
    BY <1>4, <1>8, <1>11, <2>1
  <2>4. line = Row(h, Packed(x, end)) /\ line[3] = n
    BY <1>9, <2>2, <2>3
  <2>5. Len(h) = 3 /\ Len(end) = 1 /\ end[1] = 238 /\ h \in Seq(Nat) /\ end \in Seq(Nat)
    BY <1>2, <1>3
  <2>6. Placed(line, 2)
    BY <2>1, <2>4, <2>5, LineOfOne
  <2> QED
    BY <1>11, <2>4, <2>6 DEF Placed
<1>12. CASE n = 2
  <2> DEFINE x == p[1]
             y == p[2]
             z == f[2]
  <2>1. x \in Seq(Nat) /\ y \in Seq(Nat) /\ f[1] = Inner(x) /\ z = Final(y)
    BY <1>5, <1>7, <1>12
  <2>2. WF!FlattenSeq(f) = Inner(x) \o z
    BY <1>7, <1>12, <2>1, FlattenCases
  <2> HIDE DEF x, y, z
  <2>3. z = Packed(y, end) /\ z \in Seq(Nat) /\ Packed(x, z) \in Seq(Nat)
    BY <2>1, <1>3, <1>14, PackedIsSeq
  <2>4. Inner(x) \o z = Packed(x, z)
    BY <2>1, <2>3, ParcelFacts
  <2>5. line = h \o Packed(x, z)
    BY <1>4, <1>8, <1>12, <2>2, <2>4
  <2>6. line = Row(h, Packed(x, Packed(y, end))) /\ line[3] = n
    BY <1>9, <2>3, <2>5
  <2>7. Len(h) = 3 /\ Len(end) = 1 /\ end[1] = 238 /\ h \in Seq(Nat) /\ end \in Seq(Nat)
    BY <1>2, <1>3
  <2>8. Placed(line, 3)
    BY <2>1, <2>6, <2>7, LineOfTwo
  <2> QED
    BY <1>12, <2>6, <2>8 DEF Placed
<1>13. CASE n = 3
  <2> DEFINE x == p[1]
             y == p[2]
             u == p[3]
             z == f[3]
  <2>1. /\ x \in Seq(Nat) /\ y \in Seq(Nat) /\ u \in Seq(Nat)
        /\ f[1] = Inner(x) /\ f[2] = Inner(y) /\ z = Final(u)
    BY <1>5, <1>7, <1>13
  <2>2. WF!FlattenSeq(f) = (Inner(x) \o Inner(y)) \o z
    BY <1>7, <1>13, <2>1, FlattenCases
  <2> HIDE DEF x, y, u, z
  <2>3. z = Packed(u, end) /\ z \in Seq(Nat) /\ Packed(y, z) \in Seq(Nat) /\ Packed(x, Packed(y, z)) \in Seq(Nat)
    BY <2>1, <1>3, <1>14, PackedIsSeq
  <2>4. (Inner(x) \o Inner(y)) \o z = Packed(x, Packed(y, z))
    BY <2>1, <2>3, ParcelsFacts
  <2>5. line = h \o Packed(x, Packed(y, z))
    BY <1>4, <1>8, <1>13, <2>2, <2>4
  <2>6. line = Row(h, Packed(x, Packed(y, Packed(u, end)))) /\ line[3] = n
    BY <1>9, <2>3, <2>5
  <2>7. Len(h) = 3 /\ Len(end) = 1 /\ end[1] = 238 /\ h \in Seq(Nat) /\ end \in Seq(Nat)
    BY <1>2, <1>3
  <2>8. Placed(line, 4)
    BY <2>1, <2>6, <2>7, LineOfThree
  <2> QED
    BY <1>13, <2>6, <2>8 DEF Placed
<1> QED
  BY <1>6, <1>10, <1>11, <1>12, <1>13

(* What the shield answers, and how the reply reaches the driver *)

\* A parameter behind its length.
Piece(x) == <<Len(x)>> \o x

\* A parameter behind its length is a sequence of bytes.
LEMMA PieceIsSeq == \A x \in Seq(Nat) : Piece(x) \in Seq(Nat)
<1> TAKE x \in Seq(Nat)
<1> DEFINE h == <<Len(x)>>
<1>1. h \in Seq(Nat)
  OBVIOUS
<1> HIDE DEF h
<1>2. Row(h, x) \in Seq(Nat)
  BY <1>1, RowFacts
<1> QED
  BY <1>2 DEF Row, Piece, h

\* Up to three rows of bytes, flattened, are a row of bytes.
LEMMA FlatIsSeq ==
  ASSUME NEW f, NEW n, n \in 0 .. 3 /\ f = [i \in 1 .. n |-> f[i]] /\ \A i \in 1 .. n : f[i] \in Seq(Nat)
  PROVE WF!FlattenSeq(f) \in Seq(Nat)
<1> DEFINE J(x, y) == x \o y
           flat == WF!FlattenSeq(f)
<1>1. Len(f) = n /\ (n = 0 => f = <<>>)
  OBVIOUS
<1>2. \A x, y \in Seq(Nat) : J(x, y) \in Seq(Nat)
  OBVIOUS
<1>3. CASE n = 0
  <2>1. WF!FlattenSeq(f) = f
    BY <1>3, <1>1, FlattenCases
  <2>2. f = <<>> /\ <<>> \in Seq(Nat)
    BY <1>3, <1>1
  <2> QED
    BY <2>1, <2>2
<1>4. CASE n = 1
  <2>1. WF!FlattenSeq(f) = f[1]
    BY <1>4, <1>1, FlattenCases
  <2> QED
    BY <2>1, <1>4
<1>5. CASE n = 2
  <2>1. flat = J(f[1], f[2])
    BY <1>5, <1>1, FlattenCases
  <2>2. f[1] \in Seq(Nat) /\ f[2] \in Seq(Nat)
    BY <1>5
  <2> HIDE DEF J
  <2> QED
    BY <2>1, <2>2, <1>2
<1>6. CASE n = 3
  <2>1. flat = J(J(f[1], f[2]), f[3])
    BY <1>6, <1>1, FlattenCases
  <2>2. f[1] \in Seq(Nat) /\ f[2] \in Seq(Nat) /\ f[3] \in Seq(Nat)
    BY <1>6
  <2> HIDE DEF J
  <2> QED
    BY <2>1, <2>2, <1>2
<1> QED
  BY <1>3, <1>4, <1>5, <1>6

\* Short lists of parameters.
Fits(s) == s \in Seq(Seq(Nat)) /\ Len(s) <= 3

\* A frame, as far as the driver looks at it first.
IsFrame(w, code, n) ==
  w \in Seq(Nat) /\ Len(w) \in Nat /\ Len(w) >= 4 /\ w[1] = 224 /\ w[2] = code /\ w[3] = n

\* The first cells of a frame.
LEMMA FrameFacts ==
  ASSUME NEW code \in Nat, NEW params
  PROVE Fits(params) => IsFrame(WF!Frame(code, params), code, Len(params))
<1> DEFINE n == Len(params)
           h == <<224, code, n>>
           end == <<238>>
           f == [i \in 1 .. n |-> <<Len(params[i])>> \o params[i]]
           flat == WF!FlattenSeq(f)
           body == Row(h, flat)
           w == WF!Frame(code, params)
<1>0. SUFFICES ASSUME Fits(params) PROVE IsFrame(w, code, n)
  OBVIOUS
<1>12. params \in Seq(Seq(Nat)) /\ n <= 3
  BY <1>0 DEF Fits
<1>15. n \in Nat /\ \A i \in 1 .. n : params[i] \in Seq(Nat)
  BY <1>12
<1>2. \A i \in 1 .. n : f[i] = Piece(params[i])
  BY DEF Piece
<1>3. f = [i \in 1 .. n |-> f[i]]
  OBVIOUS
<1>4. end \in Seq(Nat) /\ Len(end) = 1
  OBVIOUS
<1>5. w = body \o end
  BY DEF WF!Frame, WF!Body, WF!START_CMD, WF!END_CMD, Row
<1> HIDE DEF n
<1>1. n \in 0 .. 3 /\ \A i \in 1 .. n : params[i] \in Seq(Nat)
  BY <1>12, <1>15
<1>6. h \in Seq(Nat) /\ Len(h) = 3 /\ h[1] = 224 /\ h[2] = code /\ h[3] = n
  BY <1>1
<1> HIDE DEF f, h, end, w
<1>7. n \in 0 .. 3 /\ f = [i \in 1 .. n |-> f[i]] /\ \A i \in 1 .. n : f[i] \in Seq(Nat)
  BY <1>1, <1>2, <1>3, PieceIsSeq
<1>8. flat \in Seq(Nat)
  BY <1>7, FlatIsSeq
<1> HIDE DEF flat
<1>9. body \in Seq(Nat) /\ Len(body) = Len(h) + Len(flat) /\ Len(flat) \in Nat /\ \A k \in 1 .. Len(h) : body[k] = h[k]
  <2>1. h \in Seq(Nat)
    BY <1>6
  <2> QED
    BY <2>1, <1>8, RowFacts
<1> HIDE DEF body
<1>10. Len(body) >= 3 /\ body[1] = 224 /\ body[2] = code /\ body[3] = n /\ Len(body) \in Nat
  BY <1>6, <1>9
<1>11. w \in Seq(Nat) /\ Len(w) = Len(body) + Len(end) /\ \A k \in 1 .. Len(body) : w[k] = body[k]
  <2>1. Row(body, end) \in Seq(Nat) /\ Len(Row(body, end)) = Len(body) + Len(end)
        /\ \A k \in 1 .. Len(body) : Row(body, end)[k] = body[k]
    <3>1. end \in Seq(Nat)
      BY <1>4
    <3> QED
      BY <3>1, <1>9, RowFacts
  <2> QED
    BY <2>1, <1>5 DEF Row
<1>13. Len(w) >= 4
  BY <1>4, <1>10, <1>11
<1>14. w[1] = 224 /\ w[2] = code /\ w[3] = n
  BY <1>10, <1>11
<1>16. Len(w) \in Nat
  BY <1>11
<1> QED
  BY <1>11, <1>13, <1>14, <1>16 DEF IsFrame

\* Where the reply starts that the driver sees, whether it is missed, and the number of its parameters.
Begin(stream) == CHOOSE j \in WF!StartAt(stream) : \A k \in WF!StartAt(stream) : j <= k

Missed(stream, cmd) ==
  WF!StartAt(stream) = {} \/ WF!At(stream, Begin(stream) + 1) # WF!Code(cmd) + 128

Count(stream) == WF!At(stream, Begin(stream) + 2)

\* Which cell the driver takes for the start.
LEMMA BeginFacts ==
  ASSUME NEW stream, NEW b \in Nat, b <= TIMEOUT_CHAR,
         WF!At(stream, b + 1) \in {224, 239}, \A k \in 1 .. b : WF!At(stream, k) = 255
  PROVE WF!StartAt(stream) # {} /\ Begin(stream) = b + 1
<1> DEFINE S == WF!StartAt(stream)
<1>1. S = {i \in 1 .. TIMEOUT_CHAR + 1 : WF!At(stream, i) \in {224, 239}}
  BY DEF WF!StartAt, WF!START_CMD, WF!ERR_CMD
<1>2. TIMEOUT_CHAR \in Nat
  BY ShieldAssumption
<1>3. b + 1 \in S /\ S \subseteq Nat
  BY <1>1, <1>2
<1>4. \A k \in S : b + 1 <= k
  BY <1>1, <1>2
<1> HIDE DEF S
<1>5. \E j \in S : \A k \in S : j <= k
  BY <1>3, <1>4
<1>6. Begin(stream) \in S /\ \A k \in S : Begin(stream) <= k
  BY <1>5 DEF Begin, S
<1> DEFINE g == Begin(stream)
<1>7. g \in Nat /\ b + 1 <= g /\ g <= b + 1
  BY <1>3, <1>4, <1>6
<1> HIDE DEF g
<1>8. g = b + 1
  BY <1>7
<1> QED
  BY <1>3, <1>8 DEF S, g

\* The parameters of the replies that the shield sends.
LEMMA FitsFacts ==
  /\ Fits(<<>>)
  /\ \A x \in Nat : Fits(<<<<x>>>>)
  /\ Fits(<<<<>>>>) /\ Fits(<<<<1>>, <<2, 2>>>>) /\ Fits(<<<<1>>, <<2>>, <<3>>>>)
<1>1. /\ \A x \in Nat : <<x>> \in Seq(Nat)
      /\ <<>> \in Seq(Nat) /\ <<1>> \in Seq(Nat) /\ <<2>> \in Seq(Nat) /\ <<3>> \in Seq(Nat) /\ <<2, 2>> \in Seq(Nat)
  OBVIOUS
<1>2. /\ \A a \in Seq(Nat) : Fits(<<a>>)
      /\ \A a, b \in Seq(Nat) : Fits(<<a, b>>)
      /\ \A a, b, c \in Seq(Nat) : Fits(<<a, b, c>>)
      /\ Fits(<<>>)
  BY DEF Fits
<1> QED
  BY <1>1, <1>2

\* What the shield answers: what the properties tell apart is one cell.
LEMMA AnswersFacts ==
  ASSUME NEW cmd \in WF!Commands, NEW answer \in WF!Answers(cmd)
  PROVE /\ Fits(answer)
        /\ cmd = "GET_HOST_BY_NAME" => \E x \in HostAddresses \cup {255} : answer = <<<<x>>>>
        /\ cmd \in {"DATA_SENT_TCP", "SEND_DATA_TCP"} => answer = <<<<0>>>> \/ answer = <<<<1>>>>
<1>1. HostAddresses \cup {255} \subseteq Nat
  BY ShieldAssumption
<1>2. cmd = "GET_HOST_BY_NAME" => \E x \in HostAddresses \cup {255} : answer = <<<<x>>>>
  BY DEF WF!Answers, WF!DUMMY_DATA
<1>3. cmd \in {"DATA_SENT_TCP", "SEND_DATA_TCP"} => answer = <<<<0>>>> \/ answer = <<<<1>>>>
  BY DEF WF!Answers
<1>4. \/ \E x \in HostAddresses \cup {255} : answer = <<<<x>>>>
      \/ answer \in {<<<<0>>>>, <<<<1>>>>, <<<<2>>>>, <<<<3>>>>, <<<<4>>>>}
      \/ answer \in {<<>>, <<<<>>>>, <<<<1>>, <<2, 2>>>>, <<<<1>>, <<2>>, <<3>>>>}
  BY DEF WF!Answers, WF!DUMMY_DATA, WF!CLOSED, WF!ESTABLISHED, WF!WL_IDLE_STATUS, WF!WL_SCAN_COMPLETED, WF!WL_CONNECTED, WF!WL_CONNECT_FAILED
<1>5. 0 \in Nat /\ 1 \in Nat /\ 2 \in Nat /\ 3 \in Nat /\ 4 \in Nat
  OBVIOUS
<1>6. Fits(answer)
  <2>1. CASE \E x \in HostAddresses \cup {255} : answer = <<<<x>>>>
    BY <2>1, <1>1, FitsFacts
  <2>2. CASE answer \in {<<<<0>>>>, <<<<1>>>>, <<<<2>>>>, <<<<3>>>>, <<<<4>>>>}
    BY <2>2, <1>5, FitsFacts
  <2>3. CASE answer \in {<<>>, <<<<>>>>, <<<<1>>, <<2, 2>>>>, <<<<1>>, <<2>>, <<3>>>>}
    BY <2>3, FitsFacts
  <2> QED
    BY <1>4, <2>1, <2>2, <2>3
<1> QED
  BY <1>2, <1>3, <1>6

\* A reply that is late, an error or for another command is missed, and an empty one has no
\* parameters.
LEMMA GarbledIsMissed ==
  ASSUME NEW cmd \in WF!Commands, NEW answer \in WF!Answers(cmd), NEW condition \in WF!Conditions,
         ~WF!Good(condition)
  PROVE LET stream == WF!Stream(cmd, answer, condition) IN Missed(stream, cmd) \/ Count(stream) = 0
<1> DEFINE stream == WF!Stream(cmd, answer, condition)
           code == WF!Code(cmd)
           whole == WF!Frame(code + 128, answer)
           empty == WF!Frame(code + 128, <<>>)
           foreign == WF!Frame(code + 1 + 128, answer)
           quiet == [i \in 1 .. TIMEOUT_CHAR + 1 |-> 255]
           error == <<239>>
<1>0. TIMEOUT_CHAR \in Nat
  BY ShieldAssumption
<1>1. code \in 0 .. 95 /\ answer \in Seq(Seq(Nat)) /\ Len(answer) <= 3
  BY CommandFacts, AnswersFacts DEF Fits
<1>2. /\ condition = "silent" => stream = Row(quiet, whole)
      /\ condition = "error" => stream = Row(error, whole)
      /\ condition = "other" => stream = foreign
      /\ condition = "empty" => stream = empty
  BY DEF WF!Stream, WF!REPLY_FLAG, WF!DUMMY_DATA, WF!ERR_CMD, Row
<1>3. condition \in {"silent", "error", "other", "empty"}
  BY DEF WF!Conditions, WF!Good
<1>4. quiet \in Seq(Nat) /\ Len(quiet) = TIMEOUT_CHAR + 1 /\ \A k \in 1 .. TIMEOUT_CHAR + 1 : quiet[k] = 255
  BY <1>0
<1>5. error \in Seq(Nat) /\ Len(error) = 1 /\ error[1] = 239
  OBVIOUS
<1> HIDE DEF stream, code, quiet, error
<1>6. Fits(<<>>)
  BY FitsFacts
<1>7. code + 128 \in Nat /\ code + 1 + 128 \in Nat /\ Fits(answer) /\ Len(<<>>) = 0
  BY <1>1, AnswersFacts
<1>8. /\ IsFrame(whole, code + 128, Len(answer)) /\ IsFrame(foreign, code + 1 + 128, Len(answer))
      /\ IsFrame(empty, code + 128, 0)
  <2> DEFINE c == code + 128
             d == code + 1 + 128
             e == <<>>
  <2>1. c \in Nat /\ d \in Nat /\ Fits(answer) /\ Fits(e) /\ Len(e) = 0
    BY <1>6, <1>7
  <2> HIDE DEF c, d, e
  <2>2. /\ IsFrame(WF!Frame(c, answer), c, Len(answer)) /\ IsFrame(WF!Frame(d, answer), d, Len(answer))
        /\ IsFrame(WF!Frame(c, e), c, Len(e))
    BY <2>1, FrameFacts
  <2> QED
    BY <2>1, <2>2 DEF c, d, e
<1> HIDE DEF whole, empty, foreign
<1>9. CASE condition = "silent"
  <2>1. Row(quiet, whole) \in Seq(Nat) /\ Len(Row(quiet, whole)) = Len(quiet) + Len(whole)
        /\ \A k \in 1 .. Len(quiet) : Row(quiet, whole)[k] = quiet[k]
    <3>1. quiet \in Seq(Nat) /\ whole \in Seq(Nat)
      BY <1>4, <1>8 DEF IsFrame
    <3> QED
      BY <3>1, RowFacts
  <2>2. \A k \in 1 .. TIMEOUT_CHAR + 1 : WF!At(stream, k) = 255
    <3> DEFINE w == Row(quiet, whole)
    <3>1. stream = w /\ Len(w) = TIMEOUT_CHAR + 1 + Len(whole) /\ Len(whole) \in Nat
      BY <1>2, <1>4, <1>8, <1>9, <2>1 DEF IsFrame
    <3>2. \A k \in 1 .. TIMEOUT_CHAR + 1 : w[k] = 255
      BY <1>0, <1>4, <2>1
    <3> HIDE DEF w
    <3> QED
      BY <3>1, <3>2, <1>0 DEF WF!At
  <2>3. WF!StartAt(stream) = {}
    BY <2>2 DEF WF!StartAt, WF!START_CMD, WF!ERR_CMD
  <2>4. Missed(stream, cmd)
    BY <2>3 DEF Missed
  <2> QED
    BY <2>4 DEF stream
<1>10. CASE condition = "error"
  <2> DEFINE w == Row(error, whole)
  <2>1. /\ w \in Seq(Nat) /\ Len(w) = Len(error) + Len(whole)
        /\ \A k \in 1 .. Len(error) : w[k] = error[k]
        /\ \A k \in 1 .. Len(whole) : w[Len(error) + k] = whole[k]
    <3>1. error \in Seq(Nat) /\ whole \in Seq(Nat)
      BY <1>5, <1>8 DEF IsFrame
    <3> QED
      BY <3>1, RowFacts
  <2>2. stream = w
    BY <1>2, <1>10
  <2> HIDE DEF w
  <2>3. w[1] = 239 /\ w[1 + 1] = 224 /\ Len(w) >= 2
    <3>1. Len(whole) \in Nat /\ Len(whole) >= 4 /\ whole[1] = 224
      BY <1>8 DEF IsFrame
    <3>2. Len(w) >= 2 /\ w[1] = 239
      BY <2>1, <3>1, <1>5
    <3>3. w[Len(error) + 1] = whole[1]
      BY <2>1, <3>1
    <3> QED
      BY <3>1, <3>2, <3>3, <1>5
  <2>4. WF!At(stream, 1) = 239 /\ WF!At(stream, 2) = 224
    BY <2>2, <2>3 DEF WF!At
  <2>5. Begin(stream) = 1 /\ WF!StartAt(stream) # {}
    <3> DEFINE b == 0
    <3>1. b \in Nat /\ b <= TIMEOUT_CHAR /\ WF!At(stream, b + 1) \in {224, 239} /\ \A k \in 1 .. b : WF!At(stream, k) = 255
      BY <1>0, <2>4
    <3> HIDE DEF b
    <3>2. Begin(stream) = b + 1 /\ WF!StartAt(stream) # {}
      BY <3>1, BeginFacts
    <3> QED
      BY <3>2 DEF b
  <2>7. Begin(stream) + 1 = 2 /\ code + 128 # 224
    BY <2>5, <1>1
  <2>6. Missed(stream, cmd)
    BY <2>4, <2>7 DEF Missed, code
  <2> QED
    BY <2>6 DEF stream
<1>11. CASE condition = "other" \/ condition = "empty"
  <2>1. stream = foreign \/ stream = empty
    BY <1>2, <1>11
  <2>2. Len(stream) >= 4 /\ stream[1] = 224 /\ (stream[2] = code + 1 + 128 \/ stream[3] = 0) /\ Len(stream) \in Nat
    <3>1. CASE stream = foreign
      BY <3>1, <1>8 DEF IsFrame
    <3>2. CASE stream = empty
      BY <3>2, <1>8 DEF IsFrame
    <3> QED
      BY <2>1, <3>1, <3>2
  <2>3. WF!At(stream, 1) = 224 /\ (WF!At(stream, 2) = code + 1 + 128 \/ WF!At(stream, 3) = 0)
    BY <2>2 DEF WF!At
  <2>4. Begin(stream) = 1 /\ WF!StartAt(stream) # {}
    <3> DEFINE b == 0
    <3>1. b \in Nat /\ b <= TIMEOUT_CHAR /\ WF!At(stream, b + 1) \in {224, 239} /\ \A k \in 1 .. b : WF!At(stream, k) = 255
      BY <1>0, <2>3
    <3> HIDE DEF b
    <3>2. Begin(stream) = b + 1 /\ WF!StartAt(stream) # {}
      BY <3>1, BeginFacts
    <3> QED
      BY <3>2 DEF b
  <2>6. Begin(stream) + 1 = 2 /\ Begin(stream) + 2 = 3 /\ code + 128 # code + 1 + 128
    BY <2>4, <1>1
  <2>5. Missed(stream, cmd) \/ Count(stream) = 0
    BY <2>3, <2>6 DEF Missed, Count, code
  <2> QED
    BY <2>5 DEF stream
<1> QED
  BY <1>3, <1>9, <1>10, <1>11

(* What the readers make of a reply *)

\* What every reader returns once the head of the reply suits it.
Read(stream) == [ok |-> TRUE, params |-> WF!Params(stream, Begin(stream) + 3, Count(stream))]

\* Each of the five readers refuses a reply whose head does not suit it, or reads it whole.
LEMMA ReaderFacts ==
  ASSUME NEW stream, NEW cmd
  PROVE /\ WF!waitResponseCmd(stream, cmd) = IF Missed(stream, cmd) \/ Count(stream) # 1 THEN WF!NoReply ELSE Read(stream)
        /\ WF!waitResponseData8(stream, cmd) = IF Missed(stream, cmd) THEN WF!NoReply ELSE Read(stream)
        /\ WF!waitResponseData16(stream, cmd) = IF Missed(stream, cmd) THEN WF!NoReply ELSE Read(stream)
        /\ Missed(stream, cmd) \/ Count(stream) = 0 => WF!waitResponse(stream, cmd) = WF!NoReply
        /\ Missed(stream, cmd) \/ Count(stream) = 0 => WF!waitResponseParams(stream, cmd, 3) = WF!NoReply
<1>1. WF!waitResponseCmd(stream, cmd) = IF Missed(stream, cmd) \/ Count(stream) # 1 THEN WF!NoReply ELSE Read(stream)
  BY DEF WF!waitResponseCmd, WF!Reply, WF!AnswersTo, WF!REPLY_FLAG, Missed, Count, Begin, Read
<1>2. WF!waitResponseData8(stream, cmd) = IF Missed(stream, cmd) THEN WF!NoReply ELSE Read(stream)
  BY DEF WF!waitResponseData8, WF!Reply, WF!AnswersTo, WF!REPLY_FLAG, Missed, Count, Begin, Read
<1>3. WF!waitResponseData16(stream, cmd) = IF Missed(stream, cmd) THEN WF!NoReply ELSE Read(stream)
  BY DEF WF!waitResponseData16, WF!Reply, WF!AnswersTo, WF!REPLY_FLAG, Missed, Count, Begin, Read
<1>4. Missed(stream, cmd) \/ Count(stream) = 0 => WF!waitResponse(stream, cmd) = WF!NoReply
  BY DEF WF!waitResponse, WF!Reply, WF!AnswersTo, WF!REPLY_FLAG, Missed, Count, Begin
<1>5. Missed(stream, cmd) \/ Count(stream) = 0 => WF!waitResponseParams(stream, cmd, 3) = WF!NoReply
  BY DEF WF!waitResponseParams, WF!Reply, WF!AnswersTo, WF!REPLY_FLAG, WF!NoReply, Missed, Count, Begin
<1> QED
  BY <1>1, <1>2, <1>3, <1>4, <1>5

\* A reply that is missed or has no parameters stands for nothing.
LEMMA MissedReads ==
  ASSUME NEW stream, NEW cmd, Missed(stream, cmd) \/ Count(stream) = 0
  PROVE /\ WF!waitResponseCmd(stream, cmd) = WF!NoReply
        /\ WF!waitResponse(stream, cmd) = WF!NoReply
        /\ WF!waitResponseParams(stream, cmd, 3) = WF!NoReply
        /\ \A d : WF!First(WF!NoReply, d) = d
        /\ \A d : WF!First(WF!waitResponseData8(stream, cmd), d) = d
        /\ \A d : WF!First(WF!waitResponseData16(stream, cmd), d) = d
<1>1. /\ WF!waitResponse(stream, cmd) = WF!NoReply
      /\ WF!waitResponseParams(stream, cmd, 3) = WF!NoReply
      /\ WF!waitResponseCmd(stream, cmd) = WF!NoReply
  BY ReaderFacts
<1>2. \A d : WF!First(WF!NoReply, d) = d
  BY DEF WF!First, WF!NoReply
<1>3. Count(stream) = 0 => Read(stream).params = <<>>
  BY DEF Read, WF!Params
<1>4. Count(stream) = 0 => \A d : WF!First(Read(stream), d) = d
  BY <1>3 DEF WF!First
<1>5. /\ WF!waitResponseData8(stream, cmd) = WF!NoReply \/ (Count(stream) = 0 /\ WF!waitResponseData8(stream, cmd) = Read(stream))
      /\ WF!waitResponseData16(stream, cmd) = WF!NoReply \/ (Count(stream) = 0 /\ WF!waitResponseData16(stream, cmd) = Read(stream))
  BY ReaderFacts
<1> QED
  BY <1>1, <1>2, <1>4, <1>5

\* Such a reply is never taken for an answer.
LEMMA MissedIsFailure ==
  ASSUME NEW stream, NEW cmd \in WF!Commands, Missed(stream, cmd) \/ Count(stream) = 0
  PROVE \/ cmd \in {"START_SCAN_NETWORKS", "GET_DATABUF_TCP"}
        \/ WF!Value(cmd, stream) \in {-1, 0, 255, IF cmd \in WF!Buffered THEN buffers[cmd] ELSE 0}
<1> DEFINE v == WF!Value(cmd, stream)
           b == IF cmd \in WF!Buffered THEN buffers[cmd] ELSE 0
           no == WF!NoReply
<1>1. /\ WF!waitResponseCmd(stream, cmd) = no
      /\ WF!waitResponse(stream, cmd) = no
      /\ WF!waitResponseParams(stream, cmd, 3) = no
      /\ \A d : WF!First(no, d) = d
      /\ \A d : WF!First(WF!waitResponseData8(stream, cmd), d) = d
      /\ \A d : WF!First(WF!waitResponseData16(stream, cmd), d) = d
  BY MissedReads
<1>2. no.ok = FALSE /\ Len(no.params) = 0
  BY DEF WF!NoReply
<1>3. 0 # 1
  OBVIOUS
<1> HIDE DEF no
<1>4. WF!JoinValue("SET_NET", no) = -1
  BY <1>1, <1>3 DEF WF!JoinValue, WF!WL_FAILURE
<1>5. WF!JoinValue("SET_PASSPHRASE", no) = -1 /\ WF!JoinValue("SET_KEY", no) = -1
  BY <1>1 DEF WF!JoinValue, WF!WL_FAILURE
<1>6. WF!JoinValue("DISCONNECT", no) = 0
  BY <1>2 DEF WF!JoinValue
<1>7. WF!JoinValue("GET_CONN_STATUS", no) = 255
  BY <1>1 DEF WF!JoinValue, WF!WL_NO_SHIELD
<1>8. CASE cmd \in {"SET_NET", "SET_PASSPHRASE", "SET_KEY", "DISCONNECT", "GET_CONN_STATUS"}
  <2>1. v = WF!JoinValue(cmd, no)
    BY <1>1, <1>8 DEF WF!Value
  <2> QED
    BY <2>1, <1>4, <1>5, <1>6, <1>7, <1>8
<1>9. CASE cmd = "GET_IPADDR"
  <2>1. v = WF!First(WF!waitResponseParams(stream, cmd, 3), buffers["GET_IPADDR"])
    BY <1>9 DEF WF!Value, WF!getNetworkData
  <2>2. b = buffers["GET_IPADDR"]
    BY <1>9 DEF WF!Buffered
  <2> QED
    BY <2>1, <2>2, <1>1
<1>10. CASE cmd = "SCAN_NETWORKS"
  <2>1. v = Len(WF!waitResponse(stream, cmd).params)
    BY <1>10 DEF WF!Value, WF!ScanValue
  <2> QED
    BY <2>1, <1>1, <1>2
<1>11. CASE cmd \in {"REQ_HOST_BY_NAME", "GET_HOST_BY_NAME"}
  <2>1. v = WF!HostValue(cmd, no)
    BY <1>1, <1>11 DEF WF!Value
  <2>2. v = 0 \/ v = 255
    BY <2>1, <1>1, <1>2 DEF WF!HostValue, WF!DUMMY_DATA
  <2> QED
    BY <2>2
<1>12. CASE cmd \in {"START_SERVER_TCP", "START_CLIENT_TCP", "STOP_CLIENT_TCP", "GET_STATE_TCP",
                     "GET_CLIENT_STATE_TCP", "AVAIL_DATA_TCP", "DATA_SENT_TCP"}
  <2>1. v = WF!SocketValue(cmd, no)
    BY <1>1, <1>12 DEF WF!Value
  <2>2. v = 0
    BY <2>1, <1>1, <1>3 DEF WF!SocketValue
  <2> QED
    BY <2>2
<1>13. CASE cmd \in {"GET_DATA_TCP", "SEND_DATA_TCP"}
  <2>1. v = WF!DataValue(cmd, stream)
    BY <1>13 DEF WF!Value
  <2>2. v = 0 \/ v = -1
    BY <2>1, <1>1, <1>13 DEF WF!DataValue, WF!WL_FAILURE
  <2> QED
    BY <2>2
<1>14. CASE cmd \in {"GET_MACADDR", "GET_CURR_SSID", "GET_CURR_BSSID", "GET_CURR_RSSI", "GET_CURR_ENCT",
                     "GET_IDX_ENCT", "GET_IDX_RSSI", "GET_FW_VERSION"}
  <2>1. v = WF!InfoValue(cmd, no)
    BY <1>1, <1>14 DEF WF!Value
  <2>2. v = b
    BY <2>1, <1>1 DEF WF!InfoValue
  <2> QED
    BY <2>2
<1> QED
  BY <1>8, <1>9, <1>10, <1>11, <1>12, <1>13, <1>14 DEF WF!Commands, WF!Requests

\* A reply with a parameter of one cell, up to its end mark.
IsCell(w, code, x) ==
  /\ w \in Seq(Nat) /\ Len(w) \in 5 .. 6 /\ w[1] = 224 /\ w[2] = code
  /\ w[3] = 1 /\ w[4] = 1 /\ w[5] = x

\* The reply with one byte, cell by cell, with and without its end mark.
LEMMA CellFrame ==
  ASSUME NEW code \in Nat, NEW x \in Nat
  PROVE /\ IsCell(WF!Frame(code, <<<<x>>>>), code, x)
        /\ IsCell(WF!Body(code, <<<<x>>>>), code, x)
<1> DEFINE y == <<x>>
           a == <<Len(y)>>
           p == <<y>>
           f == [i \in 1 .. Len(p) |-> <<Len(p[i])>> \o p[i]]
           h == <<224, code, Len(p)>>
           end == <<238>>
           g == Row(a, y)
           b == Row(h, g)
           m == WF!Body(code, p)
           w == WF!Frame(code, p)
<1>1. y \in Seq(Nat) /\ Len(y) = 1 /\ y[1] = x
  OBVIOUS
<1>2. Len(p) = 1 /\ p[1] = y
  OBVIOUS
<1>3. f = [i \in 1 .. Len(p) |-> Row(<<Len(p[i])>>, p[i])]
  BY DEF Row
<1>4. m = h \o WF!FlattenSeq(f) /\ w = m \o end
  BY DEF WF!Body, WF!Frame, WF!START_CMD, WF!END_CMD
<1>5. end \in Seq(Nat) /\ Len(end) = 1
  OBVIOUS
<1> HIDE DEF p, y, end, m, w
<1>6. h \in Seq(Nat) /\ Len(h) = 3 /\ h[1] = 224 /\ h[2] = code /\ h[3] = 1
  BY <1>2
<1>7. a \in Seq(Nat) /\ Len(a) = 1 /\ a[1] = 1
  BY <1>1
<1> HIDE DEF f
<1>8. f[1] = g /\ Len(f) = 1
  BY <1>2, <1>3
<1> HIDE DEF a, h
<1>9. WF!FlattenSeq(f) = g
  BY <1>8, FlattenCases
<1>10. /\ g \in Seq(Nat) /\ Len(g) = Len(a) + Len(y)
       /\ \A k \in 1 .. Len(a) : g[k] = a[k] /\ \A l \in 1 .. Len(y) : g[Len(a) + l] = y[l]
  <2>1. a \in Seq(Nat) /\ y \in Seq(Nat)
    BY <1>1, <1>7
  <2> QED
    BY <2>1, RowFacts
<1> HIDE DEF g
<1>11. g \in Seq(Nat) /\ Len(g) = 2 /\ g[1] = 1 /\ g[2] = x
  <2>1. g[1 + 1] = x
    BY <1>1, <1>7, <1>10
  <2> QED
    BY <2>1, <1>1, <1>7, <1>10
<1>12. /\ b \in Seq(Nat) /\ Len(b) = Len(h) + Len(g)
       /\ \A k \in 1 .. Len(h) : b[k] = h[k]
  <2>1. h \in Seq(Nat) /\ g \in Seq(Nat)
    BY <1>6, <1>11
  <2> QED
    BY <2>1, RowFacts
<1>13. \A k \in 1 .. Len(g) : b[Len(h) + k] = g[k]
  <2>1. h \in Seq(Nat) /\ g \in Seq(Nat)
    BY <1>6, <1>11
  <2> QED
    BY <2>1, RowFacts
<1>14. m = b /\ w = Row(b, end)
  BY <1>4, <1>9 DEF Row
<1> HIDE DEF b
<1>15. b \in Seq(Nat) /\ Len(b) = 5 /\ b[1] = 224 /\ b[2] = code /\ b[3] = 1 /\ b[4] = 1 /\ b[5] = x
  <2>1. b[3 + 1] = 1 /\ b[3 + 2] = x
    BY <1>6, <1>11, <1>13
  <2> QED
    BY <2>1, <1>6, <1>11, <1>12
<1>16. w \in Seq(Nat) /\ Len(w) = Len(b) + Len(end) /\ \A k \in 1 .. Len(b) : w[k] = b[k]
  <2>1. b \in Seq(Nat) /\ end \in Seq(Nat)
    BY <1>5, <1>15
  <2>2. Row(b, end) \in Seq(Nat) /\ Len(Row(b, end)) = Len(b) + Len(end) /\ \A k \in 1 .. Len(b) : Row(b, end)[k] = b[k]
    BY <2>1, RowFacts
  <2> QED
    BY <2>2, <1>14
<1>17. IsCell(w, code, x)
  BY <1>5, <1>15, <1>16 DEF IsCell
<1>18. IsCell(m, code, x)
  BY <1>14, <1>15 DEF IsCell
<1> QED
  BY <1>17, <1>18 DEF w, m, p, y

\* A reply that arrives whole, also late, is read as what the shield answered.
LEMMA WholeReads ==
  ASSUME NEW cmd \in WF!Commands, NEW x \in Nat, NEW condition, WF!Good(condition)
  PROVE LET stream == WF!Stream(cmd, <<<<x>>>>, condition)
        IN  /\ WF!waitResponseCmd(stream, cmd) = WF!waitResponseData8(stream, cmd)
            /\ \A d : WF!First(WF!waitResponseCmd(stream, cmd), d) = x
<1> DEFINE stream == WF!Stream(cmd, <<<<x>>>>, condition)
           c == WF!Code(cmd) + 128
           whole == WF!Frame(c, <<<<x>>>>)
           open == WF!Body(c, <<<<x>>>>)
           quiet == [i \in 1 .. TIMEOUT_CHAR |-> 255]
           Starts3(b) == /\ b \in Nat /\ b <= TIMEOUT_CHAR
                         /\ \A k \in 1 .. b : WF!At(stream, k) = 255
                         /\ WF!At(stream, b + 1) = 224 /\ WF!At(stream, b + 1 + 1) = c
                         /\ WF!At(stream, b + 1 + 2) = 1 /\ WF!At(stream, b + 1 + 3) = 1
                         /\ WF!At(stream, b + 1 + 4) = x
<1>1. TIMEOUT_CHAR \in Nat
  BY ShieldAssumption
<1>2. c \in Nat
  <2>1. WF!Code(cmd) \in 0 .. 95
    BY CommandFacts
  <2> QED
    BY <2>1
<1> HIDE DEF c
<1>3. /\ whole \in Seq(Nat) /\ Len(whole) \in 5 .. 6 /\ whole[1] = 224 /\ whole[2] = c
      /\ whole[3] = 1 /\ whole[4] = 1 /\ whole[5] = x
  BY <1>2, CellFrame DEF IsCell
<1>20. IsCell(open, c, x)
  BY <1>2, CellFrame
<1>21. WF!Frame(c, <<<<x>>>>) = whole /\ WF!Body(c, <<<<x>>>>) = open
  OBVIOUS
<1> HIDE DEF whole, open
<1>19. /\ open \in Seq(Nat) /\ Len(open) \in 5 .. 6 /\ open[1] = 224 /\ open[2] = c
       /\ open[3] = 1 /\ open[4] = 1 /\ open[5] = x
  BY <1>20 DEF IsCell
<1>5. /\ condition = "whole" => stream = whole
      /\ condition = "endless" => stream = open
      /\ condition = "delayed" => stream = quiet \o whole
  BY <1>21 DEF WF!Stream, WF!REPLY_FLAG, WF!DUMMY_DATA, c
<1>6. quiet \in Seq(Nat) /\ Len(quiet) = TIMEOUT_CHAR /\ \A k \in 1 .. TIMEOUT_CHAR : quiet[k] = 255
  BY <1>1
<1> HIDE DEF quiet, stream
<1>7. \E b : Starts3(b)
  <2>1. CASE condition = "whole"
    <3>1. stream = whole
      BY <2>1, <1>5
    <3>2. /\ WF!At(stream, 1) = 224 /\ WF!At(stream, 2) = c /\ WF!At(stream, 3) = 1
          /\ WF!At(stream, 4) = 1 /\ WF!At(stream, 5) = x
      BY <3>1, <1>3 DEF WF!At
    <3>3. Starts3(0)
      BY <3>2, <1>1
    <3> QED
      BY <3>3
  <2>3. CASE condition = "endless"
    <3>1. stream = open
      BY <2>3, <1>5
    <3>2. /\ WF!At(stream, 1) = 224 /\ WF!At(stream, 2) = c /\ WF!At(stream, 3) = 1
          /\ WF!At(stream, 4) = 1 /\ WF!At(stream, 5) = x
      BY <3>1, <1>19 DEF WF!At
    <3>3. Starts3(0)
      BY <3>2, <1>1
    <3> QED
      BY <3>3
  <2>2. CASE condition = "delayed"
    <3> DEFINE w == Row(quiet, whole)
    <3>1. /\ Len(w) = Len(quiet) + Len(whole)
          /\ \A k \in 1 .. Len(quiet) : w[k] = quiet[k]
      <4>1. quiet \in Seq(Nat) /\ whole \in Seq(Nat)
        BY <1>3, <1>6
      <4> QED
        BY <4>1, RowFacts
    <3>2. \A k \in 1 .. Len(whole) : WF!At(w, Len(quiet) + k) = whole[k]
      <4>1. quiet \in Seq(Nat) /\ whole \in Seq(Nat)
        BY <1>3, <1>6
      <4> QED
        BY <4>1, HeadedFacts
    <3>3. stream = w
      BY <2>2, <1>5 DEF Row
    <3> HIDE DEF w
    <3>4. \A k \in 1 .. TIMEOUT_CHAR : WF!At(stream, k) = 255
      BY <3>1, <3>3, <1>1, <1>3, <1>6 DEF WF!At
    <3>5. \A k \in 1 .. 5 : WF!At(stream, TIMEOUT_CHAR + k) = whole[k]
      BY <3>2, <3>3, <1>3, <1>6
    <3> DEFINE b == TIMEOUT_CHAR
    <3>6. /\ WF!At(stream, b + 1) = 224 /\ WF!At(stream, b + 2) = c /\ WF!At(stream, b + 3) = 1
          /\ WF!At(stream, b + 4) = 1 /\ WF!At(stream, b + 5) = x
      BY <3>5, <1>3
    <3>7. b + 1 + 1 = b + 2 /\ b + 1 + 2 = b + 3 /\ b + 1 + 3 = b + 4 /\ b + 1 + 4 = b + 5
      BY <1>1
    <3>8. Starts3(b)
      BY <3>4, <3>6, <3>7, <1>1
    <3> QED
      BY <3>8
  <2> QED
    BY <2>1, <2>2, <2>3 DEF WF!Good
<1>8. PICK b : Starts3(b)
  BY <1>7
<1>9. WF!StartAt(stream) # {} /\ Begin(stream) = b + 1
  BY <1>8, BeginFacts
<1>10. ~Missed(stream, cmd) /\ Count(stream) = 1
  BY <1>8, <1>9 DEF Missed, Count, c
<1> DEFINE i == b + 1 + 3
<1>11. WF!ParamAt(stream, i, 1) = i
  BY ParamAtFacts
<1>12. i + 1 = b + 1 + 4 /\ Begin(stream) + 3 = i
  BY <1>8, <1>9
<1>13. WF!At(stream, i) = 1 /\ WF!At(stream, i + 1) = x
  BY <1>8, <1>12
<1> HIDE DEF i, Starts3
<1>14. Read(stream).ok /\ Read(stream).params = WF!Params(stream, i, 1)
  BY <1>10, <1>12 DEF Read
<1>15. WF!Params(stream, i, 1)[1] = [k \in 1 .. 1 |-> WF!At(stream, i + k)] /\ WF!Params(stream, i, 1) # <<>>
  BY <1>11, <1>13 DEF WF!Params
<1>16. [k \in 1 .. 1 |-> WF!At(stream, i + k)] # <<>> /\ [k \in 1 .. 1 |-> WF!At(stream, i + k)][1] = x
  BY <1>13
<1>17. \A d : WF!First(Read(stream), d) = x
  BY <1>14, <1>15, <1>16 DEF WF!First
<1>18. WF!waitResponseCmd(stream, cmd) = Read(stream) /\ WF!waitResponseData8(stream, cmd) = Read(stream)
  BY <1>10, ReaderFacts
<1> QED
  BY <1>17, <1>18 DEF stream

(* One command, and the call it belongs to *)

\* A command was asked with this answer for the call, and this value for the sketch.
Asked(cmd, v, a) ==
  \E answer \in WF!Answers(cmd), condition \in WF!Conditions :
    /\ v = WF!Value(cmd, WF!Stream(cmd, answer, condition))
    /\ exchange' = [cmd |-> cmd, request |-> WF!Request(cmd), good |-> WF!Good(condition), answer |-> answer,
                    value |-> v, before |-> IF cmd \in WF!Buffered THEN buffers[cmd] ELSE 0]
    /\ a = IF WF!Good(condition) THEN answer ELSE <<>>

\* What holds of a command is whole and of a garbled reply, and what the value says of the answer.
LEMMA AskedFacts ==
  ASSUME NEW cmd \in WF!Commands, NEW v, NEW a, Asked(cmd, v, a)
  PROVE /\ WF!GarbledIsFailure' /\ WF!CommandIsWhole'
        /\ cmd = "DATA_SENT_TCP" /\ v # 0 => a = <<<<1>>>>
        /\ cmd = "SEND_DATA_TCP" /\ v = 1 => a = <<<<1>>>>
        /\ cmd = "GET_HOST_BY_NAME" => \/ a = <<>> /\ v = 255
                                       \/ a # <<>> /\ a[1][1] = v /\ v \in HostAddresses \cup {255}
<1>1. PICK answer \in WF!Answers(cmd), condition \in WF!Conditions :
        /\ v = WF!Value(cmd, WF!Stream(cmd, answer, condition))
        /\ exchange' = [cmd |-> cmd, request |-> WF!Request(cmd), good |-> WF!Good(condition), answer |-> answer,
                        value |-> v, before |-> IF cmd \in WF!Buffered THEN buffers[cmd] ELSE 0]
        /\ a = IF WF!Good(condition) THEN answer ELSE <<>>
  BY DEF Asked
<1> DEFINE stream == WF!Stream(cmd, answer, condition)
<1>2. WF!CommandIsWhole'
  <2> DEFINE line == WF!Request(cmd)
  <2>1. exchange'.request = line
    BY <1>1
  <2>2. WF!ParamAt(line, 4, line[3] + 1) = Len(line) /\ line[Len(line)] = 238
    BY RequestIsWhole
  <2> HIDE DEF line
  <2> QED
    BY <2>1, <2>2 DEF WF!CommandIsWhole, WF!END_CMD
<1>3. ~WF!Good(condition) => Missed(stream, cmd) \/ Count(stream) = 0
  BY GarbledIsMissed
<1>4. WF!GarbledIsFailure'
  <2>1. /\ exchange'.good = WF!Good(condition) /\ exchange'.value = v /\ exchange'.cmd = cmd
        /\ exchange'.before = IF cmd \in WF!Buffered THEN buffers[cmd] ELSE 0
    BY <1>1
  <2>2. ~WF!Good(condition) => \/ cmd \in {"START_SCAN_NETWORKS", "GET_DATABUF_TCP"}
                               \/ v \in {-1, 0, 255, IF cmd \in WF!Buffered THEN buffers[cmd] ELSE 0}
    BY <1>1, <1>3, MissedIsFailure
  <2> QED
    BY <2>1, <2>2 DEF WF!GarbledIsFailure, WF!WL_FAILURE, WF!WL_NO_SHIELD
<1>5. /\ cmd = "DATA_SENT_TCP" => v = WF!First(WF!waitResponseCmd(stream, cmd), 0)
      /\ cmd = "SEND_DATA_TCP" => v = WF!First(WF!waitResponseData8(stream, cmd), 0)
      /\ cmd = "GET_HOST_BY_NAME" => v = WF!First(WF!waitResponseCmd(stream, cmd), 255)
  BY <1>1 DEF WF!Value, WF!SocketValue, WF!DataValue, WF!HostValue, WF!DUMMY_DATA
<1> HIDE DEF stream
<1>6. CASE ~WF!Good(condition)
  <2>1. /\ cmd = "DATA_SENT_TCP" => v = 0
        /\ cmd = "SEND_DATA_TCP" => v = 0
        /\ cmd = "GET_HOST_BY_NAME" => v = 255
    BY <1>3, <1>5, <1>6, MissedReads
  <2> QED
    BY <1>1, <1>2, <1>4, <1>6, <2>1
<1>7. CASE WF!Good(condition)
  <2>1. \A x \in Nat : answer = <<<<x>>>> =>
          /\ WF!waitResponseCmd(stream, cmd) = WF!waitResponseData8(stream, cmd)
          /\ \A d : WF!First(WF!waitResponseCmd(stream, cmd), d) = x
    <3> TAKE x \in Nat
    <3>1. SUFFICES ASSUME answer = <<<<x>>>>
                   PROVE /\ WF!waitResponseCmd(stream, cmd) = WF!waitResponseData8(stream, cmd)
                         /\ \A d : WF!First(WF!waitResponseCmd(stream, cmd), d) = x
      OBVIOUS
    <3> DEFINE whole == WF!Stream(cmd, <<<<x>>>>, condition)
    <3>2. /\ WF!waitResponseCmd(whole, cmd) = WF!waitResponseData8(whole, cmd)
          /\ \A d : WF!First(WF!waitResponseCmd(whole, cmd), d) = x
      BY <1>7, WholeReads
    <3>3. whole = stream
      BY <3>1 DEF stream
    <3> HIDE DEF whole
    <3> QED
      BY <3>2, <3>3
  <2>2. a = answer
    BY <1>1, <1>7
  <2>3. cmd \in {"DATA_SENT_TCP", "SEND_DATA_TCP"} => answer = <<<<v>>>> /\ v \in {0, 1}
    <3>1. cmd \in {"DATA_SENT_TCP", "SEND_DATA_TCP"} => answer = <<<<0>>>> \/ answer = <<<<1>>>>
      BY AnswersFacts
    <3>2. 0 \in Nat /\ 1 \in Nat
      OBVIOUS
    <3> QED
      BY <3>1, <3>2, <2>1, <1>5
  <2>4. cmd = "GET_HOST_BY_NAME" => answer = <<<<v>>>> /\ v \in HostAddresses \cup {255}
    <3>1. cmd = "GET_HOST_BY_NAME" => \E x \in HostAddresses \cup {255} : answer = <<<<x>>>>
      BY AnswersFacts
    <3>2. HostAddresses \cup {255} \subseteq Nat
      BY ShieldAssumption
    <3> QED
      BY <3>1, <3>2, <2>1, <1>5
  <2>5. <<<<v>>>> # <<>> /\ <<<<v>>>>[1][1] = v
    OBVIOUS
  <2> QED
    BY <1>2, <1>4, <2>2, <2>3, <2>4, <2>5
<1> QED
  BY <1>6, <1>7

(* The inductive invariant *)

\* The call and what the shield has said are records.
WifiShapes ==
  /\ wifiCall = [op |-> wifiCall.op, phase |-> wifiCall.phase, left |-> wifiCall.left, sock |-> wifiCall.sock]
  /\ said = [taken |-> said.taken, sent |-> said.sent, address |-> said.address]

\* A call that has begun asks for commands only.
PhasesKnown ==
  /\ wifiCall.op = "begin" => wifiCall.phase \in {"SET_NET", "SET_PASSPHRASE", "SET_KEY", "poll"}
  /\ wifiCall.op = "query" => wifiCall.phase \in WF!Commands

\* While a name is looked up no address has come, and there are attempts left.
LookingUp ==
  wifiCall.op = "host" =>
    said.address = 255 /\ (wifiCall.phase = "poll" => wifiCall.left \in 1 .. Attempts)

\* While a write waits the shield has taken the data, and has not refused too often.
Sending ==
  wifiCall.op = "write" /\ wifiCall.phase = "sent" =>
    said.taken = TRUE /\ wifiCall.left \in 0 .. Attempts - 1

\* The four properties need the three facts about the call under way: what the shield said
\* for it is what its result will be judged by.
WifiInv ==
  /\ WifiShapes /\ PhasesKnown /\ LookingUp /\ Sending
  /\ WF!WriteConfirmed /\ WF!HostIsResolved /\ WF!GarbledIsFailure /\ WF!CommandIsWhole

\* Nothing is asked when the sketch starts.
LEMMA WifiInit == WF!Init => WifiInv
<1> SUFFICES ASSUME WF!Init PROVE WifiInv
  OBVIOUS
<1>1. WifiShapes
  BY DEF WF!Init, WF!None, WF!Nothing, WifiShapes
<1>2. PhasesKnown /\ LookingUp /\ Sending /\ WF!WriteConfirmed /\ WF!HostIsResolved
  BY DEF WF!Init, WF!None, PhasesKnown, LookingUp, Sending, WF!WriteConfirmed, WF!HostIsResolved
<1>3. WF!GarbledIsFailure /\ WF!CommandIsWhole
  BY DEF WF!Init, WF!Quiet, WF!GarbledIsFailure, WF!CommandIsWhole
<1> QED
  BY <1>1, <1>2, <1>3 DEF WifiInv

\* The call begins.
LEMMA CallsStep ==
  ASSUME NEW op, NEW phase, NEW sock, WF!Calls(op, phase, sock),
         op = "begin" => phase \in {"SET_NET", "SET_PASSPHRASE", "SET_KEY"},
         op = "query" => phase \in WF!Commands,
         op = "host" => phase # "poll", op = "write" => phase # "sent"
  PROVE WifiInv'
<1>1. /\ wifiCall' = [op |-> op, phase |-> phase, left |-> Attempts, sock |-> sock]
      /\ said' = [taken |-> FALSE, sent |-> FALSE, address |-> 255]
      /\ wifiResult'.op = "none"
  BY DEF WF!Calls, WF!Nothing, WF!DUMMY_DATA
<1>2. exchange'.request = <<>> /\ exchange'.good = TRUE
  BY DEF WF!Calls, WF!Quiet
<1>3. WifiShapes'
  BY <1>1 DEF WifiShapes
<1>4. PhasesKnown' /\ LookingUp' /\ Sending'
  BY <1>1 DEF PhasesKnown, LookingUp, Sending
<1>5. WF!WriteConfirmed' /\ WF!HostIsResolved'
  BY <1>1 DEF WF!WriteConfirmed, WF!HostIsResolved
<1>6. WF!GarbledIsFailure' /\ WF!CommandIsWhole'
  BY <1>2 DEF WF!GarbledIsFailure, WF!CommandIsWhole
<1> QED
  BY <1>3, <1>4, <1>5, <1>6 DEF WifiInv

\* The call goes on, or ends.
GoesOn(phase, tries, sock) ==
  /\ wifiCall' = [op |-> wifiCall.op, phase |-> phase, left |-> tries, sock |-> sock]
  /\ wifiResult' = wifiResult

\* A call goes on with the same operation.
LEMMA GoesFacts ==
  ASSUME WifiInv, NEW phase, NEW tries, WF!Goes(phase, tries)
  PROVE GoesOn(phase, tries, wifiCall.sock)
<1>1. wifiCall = [op |-> wifiCall.op, phase |-> wifiCall.phase, left |-> wifiCall.left, sock |-> wifiCall.sock]
  BY DEF WifiInv, WifiShapes
<1> QED
  BY <1>1 DEF WF!Goes, GoesOn

\* The steps of a call that is neither a look-up nor a write.
LEMMA PlainStep ==
  ASSUME WifiInv, NEW cmd \in WF!Commands, NEW v, NEW a, Asked(cmd, v, a), said' = said,
         wifiCall.op \notin {"host", "write"},
         \/ \E value : WF!Returns(value)
         \/ wifiCall.op # "query" /\ \E phase, tries, sock : GoesOn(phase, tries, sock) /\ (wifiCall.op = "begin" => phase = "poll")
  PROVE WifiInv'
<1>1. WF!GarbledIsFailure' /\ WF!CommandIsWhole'
  BY AskedFacts
<1>2. CASE \E value : WF!Returns(value)
  <2>0. PICK value : WF!Returns(value)
    BY <1>2
  <2>1. wifiCall' = [op |-> "none", phase |-> "", left |-> 0, sock |-> 0] /\ wifiResult'.op = wifiCall.op
    BY <2>0 DEF WF!Returns, WF!None
  <2>2. WifiShapes'
    BY <2>1 DEF WifiInv, WifiShapes
  <2>3. PhasesKnown' /\ LookingUp' /\ Sending'
    BY <2>1 DEF PhasesKnown, LookingUp, Sending
  <2>4. WF!WriteConfirmed' /\ WF!HostIsResolved'
    BY <2>1 DEF WF!WriteConfirmed, WF!HostIsResolved
  <2> QED
    BY <1>1, <2>2, <2>3, <2>4 DEF WifiInv
<1>3. CASE wifiCall.op # "query" /\ \E phase, tries, sock : GoesOn(phase, tries, sock) /\ (wifiCall.op = "begin" => phase = "poll")
  <2>1. PICK phase, tries, sock : GoesOn(phase, tries, sock) /\ (wifiCall.op = "begin" => phase = "poll")
    BY <1>3
  <2>2. wifiCall' = [op |-> wifiCall.op, phase |-> phase, left |-> tries, sock |-> sock] /\ wifiResult' = wifiResult
    BY <2>1 DEF GoesOn
  <2>3. WifiShapes'
    BY <2>2 DEF WifiInv, WifiShapes
  <2>4. PhasesKnown' /\ LookingUp' /\ Sending'
    BY <1>3, <2>1, <2>2 DEF PhasesKnown, LookingUp, Sending
  <2>5. WF!WriteConfirmed' /\ WF!HostIsResolved'
    BY <2>2 DEF WifiInv, WF!WriteConfirmed, WF!HostIsResolved
  <2> QED
    BY <1>1, <2>3, <2>4, <2>5 DEF WifiInv
<1> QED
  BY <1>2, <1>3

(* The calls of a sketch *)

\* The sketch may call any operation.
LEMMA CallsSteps ==
  ASSUME \/ WF!begin \/ WF!scanNetworks \/ WF!hostByName \/ WF!query \/ WF!connect \/ WF!stop
         \/ WF!read \/ WF!write \/ WF!serverBegin \/ WF!serverAvailable
  PROVE WifiInv'
<1>1. ASSUME WF!begin PROVE WifiInv'
  <2>1. PICK cmd \in {"SET_NET", "SET_PASSPHRASE", "SET_KEY"} : WF!Calls("begin", cmd, 0)
    BY <1>1 DEF WF!begin
  <2> QED
    BY <2>1, CallsStep
<1>2. ASSUME WF!query PROVE WifiInv'
  <2>1. PICK cmd \in WF!Commands : WF!Calls("query", cmd, 0)
    BY <1>2 DEF WF!query, WF!Commands, WF!Requests, WF!Buffered
  <2> QED
    BY <2>1, CallsStep
<1>3. WF!scanNetworks => WifiInv'
  BY CallsStep DEF WF!scanNetworks
<1>4. WF!hostByName => WifiInv'
  BY CallsStep DEF WF!hostByName
<1>5. WF!connect => WifiInv'
  BY CallsStep DEF WF!connect
<1>6. WF!stop => WifiInv'
  BY CallsStep DEF WF!stop
<1>7. WF!read => WifiInv'
  BY CallsStep DEF WF!read
<1>8. WF!write => WifiInv'
  BY CallsStep DEF WF!write
<1>9. WF!serverBegin => WifiInv'
  BY CallsStep DEF WF!serverBegin
<1>10. WF!serverAvailable => WifiInv'
  BY CallsStep DEF WF!serverAvailable
<1> QED
  BY <1>1, <1>2, <1>3, <1>4, <1>5, <1>6, <1>7, <1>8, <1>9, <1>10

\* The commands of these steps are commands of the shield.
LEMMA CommandsKnown ==
  {"SET_NET", "SET_PASSPHRASE", "SET_KEY", "GET_CONN_STATUS", "START_SCAN_NETWORKS", "SCAN_NETWORKS",
   "REQ_HOST_BY_NAME", "GET_HOST_BY_NAME", "START_CLIENT_TCP", "GET_CLIENT_STATE_TCP", "STOP_CLIENT_TCP",
   "AVAIL_DATA_TCP", "GET_DATA_TCP", "SEND_DATA_TCP", "DATA_SENT_TCP", "START_SERVER_TCP", "GET_STATE_TCP"}
    \subseteq WF!Commands
  BY DEF WF!Commands, WF!Requests

\* BeginSet preserves the invariant.
LEMMA BeginSetStep == ASSUME WifiInv, WF!BeginSet PROVE WifiInv'
<1> DEFINE cmd == wifiCall.phase
<1>1. wifiCall.op = "begin"
  BY DEF WF!BeginSet
<1>2. cmd \in WF!Commands
  BY <1>1, CommandsKnown DEF WF!BeginSet, WifiInv, PhasesKnown
<1>3. PICK v, a : Asked(cmd, v, a) /\ said' = said /\ ((\E value : WF!Returns(value)) \/ (\E tries : WF!Goes("poll", tries)))
  BY DEF WF!BeginSet, WF!Ask, Asked
<1> HIDE DEF cmd
<1>4. (\E value : WF!Returns(value)) \/ \E tries : GoesOn("poll", tries, wifiCall.sock)
  BY <1>3, GoesFacts
<1> QED
  BY <1>1, <1>2, <1>3, <1>4, PlainStep

\* BeginPoll preserves the invariant.
LEMMA BeginPollStep == ASSUME WifiInv, WF!BeginPoll PROVE WifiInv'
<1> DEFINE cmd == "GET_CONN_STATUS"
<1>1. wifiCall.op = "begin"
  BY DEF WF!BeginPoll
<1>2. cmd \in WF!Commands
  BY CommandsKnown
<1>3. PICK v, a : Asked(cmd, v, a) /\ said' = said /\ ((\E value : WF!Returns(value)) \/ (\E tries : WF!Goes("poll", tries)))
  BY DEF WF!BeginPoll, WF!Ask, Asked
<1> HIDE DEF cmd
<1>4. (\E value : WF!Returns(value)) \/ \E tries : GoesOn("poll", tries, wifiCall.sock)
  BY <1>3, GoesFacts
<1> QED
  BY <1>1, <1>2, <1>3, <1>4, PlainStep

\* ScanStart preserves the invariant.
LEMMA ScanStartStep == ASSUME WifiInv, WF!ScanStart PROVE WifiInv'
<1> DEFINE cmd == "START_SCAN_NETWORKS"
<1>1. wifiCall.op = "scan"
  BY DEF WF!ScanStart
<1>2. cmd \in WF!Commands
  BY CommandsKnown
<1>3. PICK v, a : Asked(cmd, v, a) /\ said' = said /\ ((\E value : WF!Returns(value)) \/ (\E tries : WF!Goes("poll", tries)))
  BY DEF WF!ScanStart, WF!Ask, Asked
<1> HIDE DEF cmd
<1>4. (\E value : WF!Returns(value)) \/ \E tries : GoesOn("poll", tries, wifiCall.sock)
  BY <1>3, GoesFacts
<1> QED
  BY <1>1, <1>2, <1>3, <1>4, PlainStep

\* ScanPoll preserves the invariant.
LEMMA ScanPollStep == ASSUME WifiInv, WF!ScanPoll PROVE WifiInv'
<1> DEFINE cmd == "SCAN_NETWORKS"
<1>1. wifiCall.op = "scan"
  BY DEF WF!ScanPoll
<1>2. cmd \in WF!Commands
  BY CommandsKnown
<1>3. PICK v, a : Asked(cmd, v, a) /\ said' = said /\ ((\E value : WF!Returns(value)) \/ (\E tries : WF!Goes("poll", tries)))
  BY DEF WF!ScanPoll, WF!Ask, Asked
<1> HIDE DEF cmd
<1>4. (\E value : WF!Returns(value)) \/ \E tries : GoesOn("poll", tries, wifiCall.sock)
  BY <1>3, GoesFacts
<1> QED
  BY <1>1, <1>2, <1>3, <1>4, PlainStep

\* ConnectStart preserves the invariant.
LEMMA ConnectStartStep == ASSUME WifiInv, WF!ConnectStart PROVE WifiInv'
<1> DEFINE cmd == "START_CLIENT_TCP"
<1>1. wifiCall.op = "connect"
  BY DEF WF!ConnectStart
<1>2. cmd \in WF!Commands
  BY CommandsKnown
<1>3. PICK v, a : Asked(cmd, v, a) /\ said' = said /\ ((\E value : WF!Returns(value)) \/ (\E tries : WF!Goes("poll", tries)))
  BY DEF WF!ConnectStart, WF!Ask, Asked
<1> HIDE DEF cmd
<1>4. (\E value : WF!Returns(value)) \/ \E tries : GoesOn("poll", tries, wifiCall.sock)
  BY <1>3, GoesFacts
<1> QED
  BY <1>1, <1>2, <1>3, <1>4, PlainStep

\* ConnectPoll preserves the invariant.
LEMMA ConnectPollStep == ASSUME WifiInv, WF!ConnectPoll PROVE WifiInv'
<1> DEFINE cmd == "GET_CLIENT_STATE_TCP"
<1>1. wifiCall.op = "connect"
  BY DEF WF!ConnectPoll
<1>2. cmd \in WF!Commands
  BY CommandsKnown
<1>3. PICK v, a : Asked(cmd, v, a) /\ said' = said /\ ((\E value : WF!Returns(value)) \/ (\E tries : WF!Goes("poll", tries)))
  BY DEF WF!ConnectPoll, WF!Ask, Asked
<1> HIDE DEF cmd
<1>4. (\E value : WF!Returns(value)) \/ \E tries : GoesOn("poll", tries, wifiCall.sock)
  BY <1>3, GoesFacts
<1> QED
  BY <1>1, <1>2, <1>3, <1>4, PlainStep

\* StopStart preserves the invariant.
LEMMA StopStartStep == ASSUME WifiInv, WF!StopStart PROVE WifiInv'
<1> DEFINE cmd == "STOP_CLIENT_TCP"
<1>1. wifiCall.op = "stop"
  BY DEF WF!StopStart
<1>2. cmd \in WF!Commands
  BY CommandsKnown
<1>3. PICK v, a : Asked(cmd, v, a) /\ said' = said /\ ((\E value : WF!Returns(value)) \/ (\E tries : WF!Goes("poll", tries)))
  BY DEF WF!StopStart, WF!Ask, Asked
<1> HIDE DEF cmd
<1>4. (\E value : WF!Returns(value)) \/ \E tries : GoesOn("poll", tries, wifiCall.sock)
  BY <1>3, GoesFacts
<1> QED
  BY <1>1, <1>2, <1>3, <1>4, PlainStep

\* StopPoll preserves the invariant.
LEMMA StopPollStep == ASSUME WifiInv, WF!StopPoll PROVE WifiInv'
<1> DEFINE cmd == "GET_CLIENT_STATE_TCP"
<1>1. wifiCall.op = "stop"
  BY DEF WF!StopPoll
<1>2. cmd \in WF!Commands
  BY CommandsKnown
<1>3. PICK v, a : Asked(cmd, v, a) /\ said' = said /\ ((\E value : WF!Returns(value)) \/ (\E tries : WF!Goes("poll", tries)))
  BY DEF WF!StopPoll, WF!Ask, Asked
<1> HIDE DEF cmd
<1>4. (\E value : WF!Returns(value)) \/ \E tries : GoesOn("poll", tries, wifiCall.sock)
  BY <1>3, GoesFacts
<1> QED
  BY <1>1, <1>2, <1>3, <1>4, PlainStep

\* ReadAvailable preserves the invariant.
LEMMA ReadAvailableStep == ASSUME WifiInv, WF!ReadAvailable PROVE WifiInv'
<1> DEFINE cmd == "AVAIL_DATA_TCP"
<1>1. wifiCall.op = "read"
  BY DEF WF!ReadAvailable
<1>2. cmd \in WF!Commands
  BY CommandsKnown
<1>3. PICK v, a : Asked(cmd, v, a) /\ said' = said /\ ((\E value : WF!Returns(value)) \/ (\E tries : WF!Goes("get", tries)))
  BY DEF WF!ReadAvailable, WF!Ask, Asked
<1> HIDE DEF cmd
<1>4. (\E value : WF!Returns(value)) \/ \E tries : GoesOn("get", tries, wifiCall.sock)
  BY <1>3, GoesFacts
<1> QED
  BY <1>1, <1>2, <1>3, <1>4, PlainStep

\* ReadGet preserves the invariant.
LEMMA ReadGetStep == ASSUME WifiInv, WF!ReadGet PROVE WifiInv'
<1> DEFINE cmd == "GET_DATA_TCP"
<1>1. wifiCall.op = "read"
  BY DEF WF!ReadGet
<1>2. cmd \in WF!Commands
  BY CommandsKnown
<1>3. PICK v, a : Asked(cmd, v, a) /\ said' = said /\ ((\E value : WF!Returns(value)))
  BY DEF WF!ReadGet, WF!Ask, Asked
<1> HIDE DEF cmd
<1> QED
  BY <1>1, <1>2, <1>3, PlainStep

\* QueryAsk preserves the invariant.
LEMMA QueryAskStep == ASSUME WifiInv, WF!QueryAsk PROVE WifiInv'
<1> DEFINE cmd == wifiCall.phase
<1>1. wifiCall.op = "query"
  BY DEF WF!QueryAsk
<1>2. cmd \in WF!Commands
  BY <1>1 DEF WifiInv, PhasesKnown
<1>3. PICK v, a : Asked(cmd, v, a) /\ said' = said /\ ((\E value : WF!Returns(value)))
  BY DEF WF!QueryAsk, WF!Ask, Asked
<1> HIDE DEF cmd
<1> QED
  BY <1>1, <1>2, <1>3, PlainStep

\* ServerStart preserves the invariant.
LEMMA ServerStartStep == ASSUME WifiInv, WF!ServerStart PROVE WifiInv'
<1> DEFINE cmd == "START_SERVER_TCP"
<1>1. wifiCall.op = "server"
  BY DEF WF!ServerStart
<1>2. cmd \in WF!Commands
  BY CommandsKnown
<1>3. PICK v, a : Asked(cmd, v, a) /\ said' = said /\ ((\E value : WF!Returns(value)))
  BY DEF WF!ServerStart, WF!Ask, Asked
<1> HIDE DEF cmd
<1> QED
  BY <1>1, <1>2, <1>3, PlainStep

\* ServerClientState preserves the invariant.
LEMMA ServerClientStateStep == ASSUME WifiInv, WF!ServerClientState PROVE WifiInv'
<1> DEFINE cmd == "GET_CLIENT_STATE_TCP"
<1>1. wifiCall.op = "accept"
  BY DEF WF!ServerClientState
<1>2. cmd \in WF!Commands
  BY CommandsKnown
<1>3. PICK v, a : /\ Asked(cmd, v, a) /\ said' = said
                  /\ wifiCall' = [wifiCall EXCEPT !.phase = "GET_STATE_TCP", !.left = v] /\ wifiResult' = wifiResult
  BY DEF WF!ServerClientState, WF!Ask, Asked
<1> HIDE DEF cmd
<1>4. GoesOn("GET_STATE_TCP", v, wifiCall.sock)
  <2>1. wifiCall = [op |-> wifiCall.op, phase |-> wifiCall.phase, left |-> wifiCall.left, sock |-> wifiCall.sock]
    BY DEF WifiInv, WifiShapes
  <2> QED
    BY <2>1, <1>3 DEF GoesOn
<1> QED
  BY <1>1, <1>2, <1>3, <1>4, PlainStep

\* ServerState preserves the invariant.
LEMMA ServerStateStep == ASSUME WifiInv, WF!ServerState PROVE WifiInv'
<1> DEFINE cmd == wifiCall.phase
<1>1. wifiCall.op = "accept" /\ cmd \in {"GET_STATE_TCP", "START_SERVER_TCP"}
  BY DEF WF!ServerState
<1>2. cmd \in WF!Commands
  BY <1>1, CommandsKnown
<1>3. PICK v, a : /\ Asked(cmd, v, a) /\ said' = said
                  /\ \/ \E value : WF!Returns(value)
                     \/ \E tries : WF!Goes("START_SERVER_TCP", tries)
                     \/ /\ wifiCall' = [wifiCall EXCEPT !.phase = "GET_CLIENT_STATE_TCP", !.sock = @ + 1]
                        /\ wifiResult' = wifiResult
  BY DEF WF!ServerState, WF!Ask, Asked
<1> HIDE DEF cmd
<1>4. (\E value : WF!Returns(value)) \/ \E phase, tries, sock : GoesOn(phase, tries, sock)
  <2>1. wifiCall = [op |-> wifiCall.op, phase |-> wifiCall.phase, left |-> wifiCall.left, sock |-> wifiCall.sock]
    BY DEF WifiInv, WifiShapes
  <2>2. CASE /\ wifiCall' = [wifiCall EXCEPT !.phase = "GET_CLIENT_STATE_TCP", !.sock = @ + 1]
             /\ wifiResult' = wifiResult
    <3>1. GoesOn("GET_CLIENT_STATE_TCP", wifiCall.left, wifiCall.sock + 1)
      BY <2>1, <2>2 DEF GoesOn
    <3> QED
      BY <3>1
  <2>3. CASE \E tries : WF!Goes("START_SERVER_TCP", tries)
    BY <2>3, GoesFacts
  <2> QED
    BY <1>3, <2>2, <2>3
<1> QED
  BY <1>1, <1>2, <1>3, <1>4, PlainStep

\* The byte that stands for no address is none.
LEMMA NoAddress == 255 \notin HostAddresses
  BY ShieldAssumption

\* A call that returns has nothing more to keep.
LEMMA ReturnFacts ==
  ASSUME NEW value, WF!Returns(value)
  PROVE /\ wifiCall' = [op |-> "none", phase |-> "", left |-> 0, sock |-> 0]
        /\ wifiResult'.op = wifiCall.op /\ wifiResult'.value = value /\ wifiResult'.said = said'
        /\ PhasesKnown' /\ LookingUp' /\ Sending'
<1>1. /\ wifiCall' = [op |-> "none", phase |-> "", left |-> 0, sock |-> 0]
      /\ wifiResult' = [op |-> wifiCall.op, value |-> value, said |-> said']
  BY DEF WF!Returns, WF!None
<1> QED
  BY <1>1 DEF PhasesKnown, LookingUp, Sending

\* HostRequest preserves the invariant.
LEMMA HostRequestStep == ASSUME WifiInv, WF!HostRequest PROVE WifiInv'
<1>1. wifiCall.op = "host" /\ said.address = 255
  BY DEF WF!HostRequest, WifiInv, LookingUp
<1>2. PICK v, a : /\ Asked("REQ_HOST_BY_NAME", v, a) /\ said' = said
                  /\ WF!Returns(0) \/ WF!Goes("poll", Attempts)
  BY DEF WF!HostRequest, WF!Ask, Asked
<1> DEFINE cmd == "REQ_HOST_BY_NAME"
<1>3. cmd \in WF!Commands /\ Asked(cmd, v, a)
  BY <1>2, CommandsKnown
<1> HIDE DEF cmd
<1>4. WF!GarbledIsFailure' /\ WF!CommandIsWhole'
  BY <1>3, AskedFacts
<1>5. CASE WF!Returns(0)
  <2>1. PhasesKnown' /\ LookingUp' /\ Sending'
    BY <1>5, ReturnFacts
  <2> DEFINE value == 0
  <2>2. WF!Returns(value) /\ value # 1
    BY <1>5
  <2> HIDE DEF value
  <2>3. /\ wifiCall' = [op |-> "none", phase |-> "", left |-> 0, sock |-> 0]
        /\ wifiResult'.op = "host" /\ wifiResult'.value = value /\ wifiResult'.said = said
    BY <1>1, <1>2, <2>2, ReturnFacts
  <2>4. WifiShapes'
    BY <1>2, <2>3 DEF WifiInv, WifiShapes
  <2>5. WF!WriteConfirmed' /\ WF!HostIsResolved'
    BY <1>1, <2>2, <2>3, NoAddress DEF WF!WriteConfirmed, WF!HostIsResolved
  <2> QED
    BY <1>4, <2>1, <2>4, <2>5 DEF WifiInv
<1>6. CASE WF!Goes("poll", Attempts)
  <2>1. wifiCall' = [op |-> wifiCall.op, phase |-> "poll", left |-> Attempts, sock |-> wifiCall.sock] /\ wifiResult' = wifiResult
    BY <1>6, GoesFacts DEF GoesOn
  <2>2. Attempts \in 1 .. Attempts
    BY ShieldAssumption
  <2>3. WifiShapes'
    BY <1>2, <2>1 DEF WifiInv, WifiShapes
  <2>4. PhasesKnown' /\ LookingUp' /\ Sending'
    BY <1>1, <1>2, <2>1, <2>2 DEF PhasesKnown, LookingUp, Sending
  <2>5. WF!WriteConfirmed' /\ WF!HostIsResolved'
    BY <2>1 DEF WifiInv, WF!WriteConfirmed, WF!HostIsResolved
  <2> QED
    BY <1>4, <2>3, <2>4, <2>5 DEF WifiInv
<1> QED
  BY <1>2, <1>5, <1>6

\* HostPoll preserves the invariant.
LEMMA HostPollStep == ASSUME WifiInv, WF!HostPoll PROVE WifiInv'
<1>1. wifiCall.op = "host" /\ said.address = 255 /\ wifiCall.left \in 1 .. Attempts
  BY DEF WF!HostPoll, WifiInv, LookingUp
<1>2. PICK v, a : /\ Asked("GET_HOST_BY_NAME", v, a)
                  /\ said' = [said EXCEPT !.address = IF a = <<>> THEN @ ELSE a[1][1]]
                  /\ WF!HostAfter(v, wifiCall.left - IF v = WF!DUMMY_DATA THEN 1 ELSE 0)
  BY DEF WF!HostPoll, WF!Ask, Asked
<1> DEFINE cmd == "GET_HOST_BY_NAME"
           rest == wifiCall.left - IF v = 255 THEN 1 ELSE 0
<1>3. cmd \in WF!Commands /\ Asked(cmd, v, a) /\ cmd = "GET_HOST_BY_NAME"
  BY <1>2, CommandsKnown
<1> HIDE DEF cmd
<1>4. /\ WF!GarbledIsFailure' /\ WF!CommandIsWhole'
      /\ (a = <<>> /\ v = 255) \/ (a # <<>> /\ a[1][1] = v /\ v \in HostAddresses \cup {255})
  BY <1>3, AskedFacts
<1>5. said' = [taken |-> said.taken, sent |-> said.sent, address |-> v] /\ v \in HostAddresses \cup {255}
  <2>1. said = [taken |-> said.taken, sent |-> said.sent, address |-> said.address]
    BY DEF WifiInv, WifiShapes
  <2>2. (IF a = <<>> THEN said.address ELSE a[1][1]) = v
    BY <1>1, <1>4
  <2> QED
    BY <2>1, <2>2, <1>2, <1>4
<1>6. /\ v = 255 => rest \in 0 .. Attempts - 1
      /\ v # 255 => rest \in 1 .. Attempts
  <2>1. wifiCall.left \in 1 .. Attempts /\ Attempts \in Nat
    BY <1>1, ShieldAssumption
  <2> QED
    BY <2>1
<1>7. WF!HostAfter(v, rest)
  BY <1>2 DEF WF!DUMMY_DATA
<1> HIDE DEF rest
<1>8. CASE v = 255 /\ rest > 0
  <2>1. WF!Goes("poll", rest)
    BY <1>7, <1>8 DEF WF!HostAfter, WF!DUMMY_DATA
  <2>2. wifiCall' = [op |-> wifiCall.op, phase |-> "poll", left |-> rest, sock |-> wifiCall.sock] /\ wifiResult' = wifiResult
    BY <2>1, GoesFacts DEF GoesOn
  <2>3. rest \in 1 .. Attempts
    BY <1>6, <1>8, ShieldAssumption
  <2>4. WifiShapes'
    BY <1>5, <2>2 DEF WifiShapes
  <2>5. PhasesKnown' /\ LookingUp' /\ Sending'
    BY <1>1, <1>5, <1>8, <2>2, <2>3 DEF PhasesKnown, LookingUp, Sending
  <2>6. WF!WriteConfirmed' /\ WF!HostIsResolved'
    BY <2>2 DEF WifiInv, WF!WriteConfirmed, WF!HostIsResolved
  <2> QED
    BY <1>4, <2>4, <2>5, <2>6 DEF WifiInv
<1>9. CASE ~(v = 255 /\ rest > 0)
  <2> DEFINE value == IF WF!Resolved(rest) THEN 1 ELSE 0
  <2>1. WF!Returns(value)
    BY <1>7, <1>9 DEF WF!HostAfter, WF!DUMMY_DATA
  <2>2. value = 1 <=> v # 255
    BY <1>6, <1>9 DEF WF!Resolved
  <2> HIDE DEF value
  <2>3. /\ wifiCall' = [op |-> "none", phase |-> "", left |-> 0, sock |-> 0]
        /\ wifiResult'.op = "host" /\ wifiResult'.value = value /\ wifiResult'.said = said'
        /\ PhasesKnown' /\ LookingUp' /\ Sending'
    BY <1>1, <2>1, ReturnFacts
  <2>4. WifiShapes'
    BY <1>5, <2>3 DEF WifiShapes
  <2>5. value = 1 <=> v \in HostAddresses
    BY <2>2, <1>5, NoAddress
  <2>6. wifiResult'.said.address = v
    <3>1. said'.address = v
      BY <1>5
    <3>2. wifiResult'.said = said'
      BY <2>3
    <3> QED
      BY <3>1, <3>2
  <2>7. WF!HostIsResolved'
    BY <2>3, <2>5, <2>6 DEF WF!HostIsResolved
  <2>8. WF!WriteConfirmed'
    BY <2>3 DEF WF!WriteConfirmed
  <2> QED
    BY <1>4, <2>3, <2>4, <2>7, <2>8 DEF WifiInv
<1> QED
  BY <1>8, <1>9

\* WriteSend preserves the invariant.
LEMMA WriteSendStep == ASSUME WifiInv, WF!WriteSend PROVE WifiInv'
<1>1. wifiCall.op = "write"
  BY DEF WF!WriteSend
<1>2. PICK v, a : /\ Asked("SEND_DATA_TCP", v, a)
                  /\ said' = [said EXCEPT !.taken = a = <<<<1>>>>]
                  /\ IF v = 1 THEN WF!Goes("sent", 0) ELSE WF!Returns(0)
  BY DEF WF!WriteSend, WF!Ask, Asked
<1> DEFINE cmd == "SEND_DATA_TCP"
           one == <<<<1>>>>
<1>3. cmd \in WF!Commands /\ Asked(cmd, v, a) /\ cmd = "SEND_DATA_TCP"
  BY <1>2, CommandsKnown
<1> HIDE DEF cmd
<1>4. WF!GarbledIsFailure' /\ WF!CommandIsWhole' /\ (v = 1 => a = one)
  BY <1>3, AskedFacts
<1>5. said' = [taken |-> (a = one), sent |-> said.sent, address |-> said.address]
  <2>1. said = [taken |-> said.taken, sent |-> said.sent, address |-> said.address]
    BY DEF WifiInv, WifiShapes
  <2> QED
    BY <2>1, <1>2
<1> HIDE DEF one
<1>6. CASE v = 1
  <2>1. WF!Goes("sent", 0)
    BY <1>2, <1>6
  <2> DEFINE tries == 0
  <2>2. wifiCall' = [op |-> wifiCall.op, phase |-> "sent", left |-> 0, sock |-> wifiCall.sock] /\ wifiResult' = wifiResult
    <3>1. WF!Goes("sent", tries)
      BY <2>1
    <3> HIDE DEF tries
    <3>2. GoesOn("sent", tries, wifiCall.sock)
      BY <3>1, GoesFacts
    <3> QED
      BY <3>2 DEF GoesOn, tries
  <2>3. 0 \in 0 .. Attempts - 1
    BY ShieldAssumption
  <2>4. said'.taken = TRUE
    BY <1>4, <1>5, <1>6
  <2>5. WifiShapes'
    BY <1>5, <2>2 DEF WifiShapes
  <2>6. PhasesKnown' /\ LookingUp' /\ Sending'
    BY <1>1, <2>2, <2>3, <2>4 DEF PhasesKnown, LookingUp, Sending
  <2>7. WF!WriteConfirmed' /\ WF!HostIsResolved'
    BY <2>2 DEF WifiInv, WF!WriteConfirmed, WF!HostIsResolved
  <2> QED
    BY <1>4, <2>5, <2>6, <2>7 DEF WifiInv
<1>7. CASE v # 1
  <2> DEFINE value == 0
  <2>1. WF!Returns(value) /\ value # 1
    BY <1>2, <1>7
  <2> HIDE DEF value
  <2>2. /\ wifiCall' = [op |-> "none", phase |-> "", left |-> 0, sock |-> 0]
        /\ wifiResult'.op = "write" /\ wifiResult'.value = value
        /\ PhasesKnown' /\ LookingUp' /\ Sending'
    BY <1>1, <2>1, ReturnFacts
  <2>3. WifiShapes'
    BY <1>5, <2>2 DEF WifiShapes
  <2>4. WF!WriteConfirmed' /\ WF!HostIsResolved'
    BY <2>1, <2>2 DEF WF!WriteConfirmed, WF!HostIsResolved
  <2> QED
    BY <1>4, <2>2, <2>3, <2>4 DEF WifiInv
<1> QED
  BY <1>6, <1>7

\* WriteSent preserves the invariant.
LEMMA WriteSentStep == ASSUME WifiInv, WF!WriteSent PROVE WifiInv'
<1>1. wifiCall.op = "write" /\ wifiCall.left \in 0 .. Attempts - 1 /\ said.taken = TRUE
  BY DEF WF!WriteSent, WifiInv, Sending
<1>2. PICK v, a : /\ Asked("DATA_SENT_TCP", v, a)
                  /\ said' = [said EXCEPT !.sent = a = <<<<1>>>>]
                  /\ WF!SentAfter(v, IF v = 0 THEN wifiCall.left + 1 ELSE 0)
  BY DEF WF!WriteSent, WF!Ask, Asked
<1> DEFINE cmd == "DATA_SENT_TCP"
           one == <<<<1>>>>
           timeout == IF v = 0 THEN wifiCall.left + 1 ELSE 0
<1>3. cmd \in WF!Commands /\ Asked(cmd, v, a) /\ cmd = "DATA_SENT_TCP"
  BY <1>2, CommandsKnown
<1> HIDE DEF cmd
<1>4. WF!GarbledIsFailure' /\ WF!CommandIsWhole' /\ (v # 0 => a = one)
  BY <1>3, AskedFacts
<1>5. said' = [taken |-> said.taken, sent |-> (a = one), address |-> said.address]
  <2>1. said = [taken |-> said.taken, sent |-> said.sent, address |-> said.address]
    BY DEF WifiInv, WifiShapes
  <2> QED
    BY <2>1, <1>2
<1> HIDE DEF one
<1>6. WF!SentAfter(v, timeout)
  BY <1>2
<1>7. timeout \in 0 .. Attempts /\ (v # 0 => timeout = 0) /\ 0 # Attempts /\ Attempts \in Nat
  BY <1>1, ShieldAssumption
<1> HIDE DEF timeout
<1>8. CASE v = 0 /\ timeout < Attempts
  <2>1. WF!Goes("sent", timeout)
    BY <1>6, <1>8 DEF WF!SentAfter
  <2>2. wifiCall' = [op |-> wifiCall.op, phase |-> "sent", left |-> timeout, sock |-> wifiCall.sock] /\ wifiResult' = wifiResult
    BY <2>1, GoesFacts DEF GoesOn
  <2>3. timeout \in 0 .. Attempts - 1
    BY <1>7, <1>8
  <2>4. said'.taken = TRUE
    BY <1>1, <1>5
  <2>5. WifiShapes'
    BY <1>5, <2>2 DEF WifiShapes
  <2>6. PhasesKnown' /\ LookingUp' /\ Sending'
    BY <1>1, <2>2, <2>3, <2>4 DEF PhasesKnown, LookingUp, Sending
  <2>7. WF!WriteConfirmed' /\ WF!HostIsResolved'
    BY <2>2 DEF WifiInv, WF!WriteConfirmed, WF!HostIsResolved
  <2> QED
    BY <1>4, <2>5, <2>6, <2>7 DEF WifiInv
<1>9. CASE ~(v = 0 /\ timeout < Attempts)
  <2> DEFINE value == IF WF!TimedOut(timeout) THEN 0 ELSE 1
  <2>1. WF!Returns(value)
    BY <1>6, <1>9 DEF WF!SentAfter
  <2>2. value = 1 => v # 0
    BY <1>7, <1>9 DEF WF!TimedOut
  <2> HIDE DEF value
  <2>3. /\ wifiCall' = [op |-> "none", phase |-> "", left |-> 0, sock |-> 0]
        /\ wifiResult'.op = "write" /\ wifiResult'.value = value /\ wifiResult'.said = said'
        /\ PhasesKnown' /\ LookingUp' /\ Sending'
    BY <1>1, <2>1, ReturnFacts
  <2>4. WifiShapes'
    BY <1>5, <2>3 DEF WifiShapes
  <2>5. value = 1 => said'.taken = TRUE /\ said'.sent = TRUE
    BY <1>1, <1>4, <1>5, <2>2
  <2>6. WF!WriteConfirmed' /\ WF!HostIsResolved'
    BY <2>3, <2>5 DEF WF!WriteConfirmed, WF!HostIsResolved
  <2> QED
    BY <1>4, <2>3, <2>4, <2>6 DEF WifiInv
<1> QED
  BY <1>8, <1>9

\* Every step of the driver preserves the invariant.
LEMMA WifiStep == WifiInv /\ WF!Next => WifiInv'
<1> SUFFICES ASSUME WifiInv, WF!Next PROVE WifiInv'
  OBVIOUS
<1>1. CASE \/ WF!begin \/ WF!scanNetworks \/ WF!hostByName \/ WF!query \/ WF!connect \/ WF!stop
           \/ WF!read \/ WF!write \/ WF!serverBegin \/ WF!serverAvailable
  BY <1>1, CallsSteps
<1>2. CASE WF!BeginSet \/ WF!BeginPoll \/ WF!ScanStart \/ WF!ScanPoll \/ WF!QueryAsk
  BY <1>2, BeginSetStep, BeginPollStep, ScanStartStep, ScanPollStep, QueryAskStep
<1>3. CASE WF!HostRequest \/ WF!HostPoll
  BY <1>3, HostRequestStep, HostPollStep
<1>4. CASE WF!ConnectStart \/ WF!ConnectPoll \/ WF!StopStart \/ WF!StopPoll
  BY <1>4, ConnectStartStep, ConnectPollStep, StopStartStep, StopPollStep
<1>5. CASE WF!ReadAvailable \/ WF!ReadGet \/ WF!WriteSend \/ WF!WriteSent
  BY <1>5, ReadAvailableStep, ReadGetStep, WriteSendStep, WriteSentStep
<1>6. CASE WF!ServerStart \/ WF!ServerClientState \/ WF!ServerState
  BY <1>6, ServerStartStep, ServerClientStateStep, ServerStateStep
<1> QED
  BY <1>1, <1>2, <1>3, <1>4, <1>5, <1>6 DEF WF!Next

\* A step of another library preserves the invariant.
LEMMA WifiUnchanged == WifiInv /\ UNCHANGED wifi => WifiInv'
  BY DEF wifi, WifiInv, WifiShapes, PhasesKnown, LookingUp, Sending, WF!WriteConfirmed, WF!HostIsResolved,
         WF!GarbledIsFailure, WF!CommandIsWhole
-----------------------------------------------------------------------------
\* ShieldAnswers: a write reports success only if the shield said that the data was sent;
\* hostByName succeeds only with the address the shield resolved; a reply that is late, empty,
\* an error or for another command is never taken for the answer; and a command on the wire has
\* the number and the lengths of its parameters, and its end. For any time the driver waits for
\* a reply, any number of attempts at a name, and any number of sockets and addresses.
THEOREM ShieldAnswersRight == Spec => []ShieldAnswers
<1> DEFINE Inv == part = "wifi" => WifiInv
<1>1. Init => Inv
  BY WifiInit DEF Init
<1>2. Inv /\ [Next]_vars => Inv'
  <2> SUFFICES ASSUME Inv, [Next]_vars PROVE Inv'
    OBVIOUS
  <2>1. CASE part = "wifi" /\ WF!Next /\ part' = part
    BY <2>1, WifiStep
  <2>2. CASE UNCHANGED <<part, wifi>>
    BY <2>2, WifiUnchanged
  <2>3. part' = part /\ (part # "wifi" => Inv')
    BY DEF Next, vars
  <2>4. UNCHANGED vars => UNCHANGED <<part, wifi>>
    BY DEF vars
  <2> QED
    BY <2>1, <2>2, <2>3, <2>4 DEF Next
<1>3. Inv => ShieldAnswers
  BY DEF WifiInv, ShieldAnswers
<1> QED
  BY <1>1, <1>2, <1>3, PTL DEF Spec
================================================================================
