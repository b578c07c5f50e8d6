---------------------------- MODULE DevicesProofs ----------------------------
(*****************************************************************************)
(* Theorems about the drivers of the devices (MCDevices) and their proofs:   *)
(* what the runs show on small instances holds for cards with blocks of any  *)
(* size, flash chips of any size, motors with any number of steps, any       *)
(* number of servos, any names of logs and any states of a machine. For each *)
(* library there is an invariant that its initial states meet and its steps  *)
(* preserve, and that gives the properties of the library; the theorems at   *)
(* the end put it into the behaviours of MCDevices.                          *)
(*****************************************************************************)
EXTENDS MCDevices, SequenceTheorems, WellFoundedInduction, TLAPS
-----------------------------------------------------------------------------
(* Numbers *)

\* The quotient of a number between two multiples of the divisor.
LEMMA QuotientFacts ==
  ASSUME NEW s \in Nat \ {0}, NEW a \in Nat, NEW x \in Nat, a * s <= x, x < a * s + s
  PROVE  x \div s = a
<1> DEFINE d == x \div s
<1>1. d \in Nat /\ d * s <= x /\ x < d * s + s
  OBVIOUS
<1> HIDE DEF d
<1>2. ASSUME NEW b \in Nat, NEW c \in Nat, b < c PROVE b * s + s <= c * s
  <2>1. PICK e \in Nat : c = b + 1 + e
    <3>1. c - b - 1 \in Nat /\ c = b + 1 + (c - b - 1)
      BY <1>2
    <3> QED
      BY <3>1
  <2>2. c * s = b * s + s + e * s
    BY <2>1
  <2>3. e * s \in Nat /\ b * s \in Nat
    BY <2>1
  <2> QED
    BY <2>2, <2>3
<1>3. a * s \in Nat /\ d * s \in Nat
  BY <1>1
<1>4. ~(d < a)
  BY <1>1, <1>2, <1>3
<1>5. ~(a < d)
  BY <1>1, <1>2, <1>3
<1>6. d = a
  BY <1>1, <1>4, <1>5
<1> QED
  BY <1>6 DEF d

\* The remainder of a number that is off by less than a turn.
LEMMA RemainderFacts ==
  ASSUME NEW n \in Nat \ {0}, NEW x \in Int, -n <= x, x < 2 * n
  PROVE  x % n = IF x < 0 THEN x + n ELSE IF x < n THEN x ELSE x - n
OBVIOUS

\* A set of numbers has a least one.
LEMMA LeastNumber ==
  ASSUME NEW S \in SUBSET Nat, S # {}
  PROVE  \E x \in S : \A y \in S : x <= y
<1> DEFINE R == {ss \in Nat \X Nat : ss[1] < ss[2]}
<1>1. IsWellFoundedOn(R, Nat)
  BY NatLessThanWellFounded DEF OpToRel
<1>2. \A x, y \in Nat : x < y => <<x, y>> \in R
  <2> SUFFICES ASSUME NEW x \in Nat, NEW y \in Nat, x < y PROVE <<x, y>> \in R
    OBVIOUS
  <2>1. <<x, y>> \in Nat \X Nat /\ <<x, y>>[1] < <<x, y>>[2]
    OBVIOUS
  <2> QED
    BY <2>1
<1> HIDE DEF R
<1>3. PICK x \in S : \A y \in S : ~(<<y, x>> \in R)
  BY <1>1, WFMin
<1>4. ASSUME NEW y \in S PROVE x <= y
  <2>1. x \in Nat /\ y \in Nat /\ ~(y < x)
    BY <1>2, <1>3
  <2> QED
    BY <2>1
<1> QED
  BY <1>4

-----------------------------------------------------------------------------
(* libraries/SD: blocks of the card                                        *)

CardModes == {"reset", "idle", "sending", "multi"}
StateOf == [cs : BOOLEAN, inb : BOOLEAN, off : Int, mode : CardModes, at : Int,
            confused : BOOLEAN]

CardTypeOK ==
  /\ SC!State \in StateOf
  /\ errorCode \in BOOLEAN /\ writing \in BOOLEAN /\ cutOff \in BOOLEAN

\* In a block that is read in parts host and card are at the same byte of the same block,
\* and the card is selected; outside of it and of a sequence of writes the card is idle, or
\* a call has reported an error, or no init has succeeded.
InStep ==
  /\ inBlock => /\ cardMode = "sending" /\ cardBlock = block /\ cardAt = offset
                /\ chipSelect = TRUE
  /\ ~inBlock /\ ~writing => cardMode \in {"idle", "reset"} \/ errorCode
  /\ confused => errorCode
  /\ got = wanted

\* They are in step until a read past the end of a block cuts off one that is being read.
CardInv ==
  /\ CardTypeOK
  /\ inBlock => ~writing
  /\ writing /\ ~chipSelect => errorCode
  /\ chipSelect => inBlock \/ writing
  /\ ~cutOff => InStep

LEMMA CardInit == SC!Init => CardInv
<1> SUFFICES ASSUME SC!Init PROVE CardInv
  OBVIOUS
<1>1. /\ chipSelect = FALSE /\ inBlock = FALSE /\ offset = 0 /\ cardMode = "reset" /\ cardAt = 0
      /\ confused = FALSE /\ errorCode = FALSE /\ writing = FALSE /\ cutOff = FALSE
      /\ got = << >> /\ wanted = << >>
  BY DEF SC!Init
<1>2. SC!State = [cs |-> FALSE, inb |-> FALSE, off |-> 0, mode |-> "reset", at |-> 0,
                  confused |-> FALSE]
  BY <1>1 DEF SC!State
<1>3. SC!State \in StateOf
  BY <1>2 DEF StateOf, CardModes
<1> QED
  BY <1>1, <1>3 DEF CardInv, CardTypeOK, InStep

LEMMA StateFacts ==
  ASSUME CardInv
  PROVE  LET s == SC!State
         IN  /\ s \in StateOf /\ s.cs = chipSelect /\ s.inb = inBlock /\ s.off = offset
             /\ s.mode = cardMode /\ s.at = cardAt /\ s.confused = confused
BY DEF CardInv, CardTypeOK, SC!State

\* The variables after a call that leaves the state s.
LEMMA BecomesFacts ==
  ASSUME NEW s \in StateOf, SC!Becomes(s)
  PROVE  /\ SC!State' \in StateOf
         /\ chipSelect' = s.cs /\ inBlock' = s.inb /\ offset' = s.off
         /\ cardMode' = s.mode /\ cardAt' = s.at /\ confused' = s.confused
BY DEF SC!Becomes, SC!State, StateOf

\* The end of a read that is in step leaves the card idle.
LEMMA ReadEndFacts ==
  ASSUME NEW s \in StateOf
  PROVE  LET t == SC!ReadEnd(s)
         IN  /\ t \in StateOf /\ t.inb = FALSE /\ t.confused = s.confused
             /\ t.cs = IF s.inb THEN FALSE ELSE s.cs
             /\ ~s.inb => t.mode = s.mode
             /\ s.inb /\ s.cs /\ s.at = s.off => t.mode = "idle"
<1>1. CASE s.inb
  <2> DEFINE rest == IF s.cs THEN BlockSize + SC!Crc - s.off ELSE 0
             n == s.at + rest
             m == IF s.cs /\ n >= BlockSize + SC!Crc THEN "idle" ELSE s.mode
  <2>1. rest \in Int /\ n \in Int /\ BlockSize + SC!Crc + 1 \in Int /\ m \in CardModes
    BY CardAssumption DEF StateOf, SC!Crc, CardModes
  <2>2. s.cs /\ s.at = s.off => m = "idle"
    <3>1. s.cs /\ s.at = s.off => n = BlockSize + SC!Crc
      BY CardAssumption DEF StateOf, SC!Crc
    <3>2. BlockSize + SC!Crc >= BlockSize + SC!Crc
      BY CardAssumption DEF SC!Crc
    <3> QED
      BY <3>1, <3>2
  <2>3. SC!ReadEnd(s) = [s EXCEPT !.inb = FALSE, !.cs = FALSE, !.off = BlockSize + SC!Crc + 1,
                                  !.at = n, !.mode = m]
    BY <1>1 DEF SC!ReadEnd, StateOf
  <2> HIDE DEF rest, n, m
  <2> QED
    BY <1>1, <2>1, <2>2, <2>3 DEF StateOf
<1>2. CASE ~s.inb
  <2>1. SC!ReadEnd(s) = s /\ s.inb = FALSE
    BY <1>2 DEF SC!ReadEnd, StateOf
  <2> QED
    BY <1>2, <2>1
<1> QED
  BY <1>1, <1>2

\* A command, outside of a sequence of writes: the card takes it, or an error was reported.
LEMMA CommandFacts ==
  ASSUME CardInv, ~writing, SC!Ready
  PROVE  LET t == SC!CardCommand(SC!State)
         IN  /\ t \in StateOf /\ t.inb = FALSE /\ t.cs = TRUE
             /\ ~cutOff => /\ t.mode = "idle" \/ errorCode
                           /\ t.confused => errorCode
<1> DEFINE s == SC!State
           r == SC!ReadEnd(s)
<1>1. /\ s \in StateOf /\ s.inb = inBlock /\ s.mode = cardMode /\ s.confused = confused
      /\ s.at = cardAt /\ s.off = offset /\ s.cs = chipSelect
  BY StateFacts
<1> HIDE DEF s
<1>2. /\ r \in StateOf /\ r.inb = FALSE /\ r.confused = confused
      /\ ~inBlock => r.mode = cardMode
      /\ inBlock /\ chipSelect /\ cardAt = offset => r.mode = "idle"
  BY <1>1, ReadEndFacts
<1>3. ~cutOff => r.mode = "idle" \/ errorCode
  BY <1>2 DEF CardInv, InStep, SC!Ready
<1>4. ~cutOff => (confused => errorCode)
  BY DEF CardInv, InStep
<1> HIDE DEF r
<1> DEFINE c == r.confused \/ r.mode # "idle"
<1>5. SC!CardCommand(s) = [r EXCEPT !.cs = TRUE, !.confused = c]
  BY DEF SC!CardCommand, r
<1>6. c \in BOOLEAN /\ (~cutOff => (c => errorCode))
  BY <1>1, <1>2, <1>3, <1>4 DEF StateOf
<1> HIDE DEF c
<1> QED
  BY <1>2, <1>3, <1>5, <1>6 DEF StateOf, s

\* A call that ends with the card deselected after a command.
LEMMA DeselectedCall ==
  ASSUME CardInv, SC!Ready, ~writing,
         SC!Becomes(SC!ChipSelectHigh(SC!CardCommand(SC!State))),
         errorCode' \in {errorCode, TRUE}, UNCHANGED <<writing, cutOff, got, wanted>>
  PROVE  CardInv'
<1> DEFINE t == SC!CardCommand(SC!State)
           u == SC!ChipSelectHigh(t)
<1>1. /\ t \in StateOf /\ t.inb = FALSE
      /\ ~cutOff => (t.mode = "idle" \/ errorCode) /\ (t.confused => errorCode)
  BY CommandFacts
<1> HIDE DEF t
<1>2. /\ u \in StateOf /\ u.inb = FALSE /\ u.cs = FALSE /\ u.mode = t.mode
      /\ u.confused = t.confused
  BY <1>1 DEF SC!ChipSelectHigh, StateOf
<1>3. SC!Becomes(u)
  BY DEF t
<1> HIDE DEF u
<1>4. /\ SC!State' \in StateOf /\ chipSelect' = FALSE /\ inBlock' = FALSE
      /\ cardMode' = t.mode /\ confused' = t.confused
  BY <1>2, <1>3, BecomesFacts
<1>5. errorCode \in BOOLEAN /\ writing \in BOOLEAN /\ cutOff \in BOOLEAN
  BY DEF CardInv, CardTypeOK
<1>6. ~cutOff' => InStep'
  BY <1>1, <1>4, <1>5 DEF CardInv, InStep
<1> QED
  BY <1>4, <1>5, <1>6 DEF CardInv, CardTypeOK

\* A read of a block, whole or in part, returns what was asked for.
LEMMA ReadStep ==
  ASSUME CardInv, NEW b \in Blocks, NEW off \in 0 .. BlockSize - 1, NEW n \in 1 .. BlockSize,
         SC!ReadData(b, off, n)
  PROVE  CardInv'
<1> DEFINE same == SC!SameBlock(b, off)
           s == IF same THEN SC!State
                ELSE [SC!CardCommand(SC!State) EXCEPT !.off = 0, !.inb = TRUE, !.mode = "sending", !.at = 0]
           cb == IF same THEN cardBlock ELSE b
           skip == IF off > s.off THEN off - s.off ELSE 0
           at == s.at + skip
           t == [s EXCEPT !.off = s.off + skip + n, !.at = IF s.cs THEN at + n ELSE @]
           u == IF ~partialBlockRead \/ t.off >= BlockSize THEN SC!ReadEnd(t) ELSE t
<1>1. /\ SC!Ready /\ ~writing /\ off + n <= BlockSize /\ block' = b /\ cardBlock' = cb
      /\ got' = [i \in 1 .. n |-> IF s.cs THEN SC!Byte(cb, at + i - 1) ELSE SC!Silence]
      /\ wanted' = [i \in 1 .. n |-> SC!Byte(b, off + i - 1)]
      /\ SC!Becomes(u)
      /\ UNCHANGED <<errorCode, stored, writing, cutOff>>
  BY DEF SC!ReadData
<1>2. /\ s \in StateOf /\ s.inb = TRUE
      /\ ~cutOff => /\ s.cs = TRUE /\ s.mode = "sending" /\ s.at = s.off /\ s.off <= off
                    /\ s.confused => errorCode
                    /\ cb = b
  <2>1. CASE same
    <3>1. s = SC!State /\ inBlock = TRUE /\ b = block /\ off >= offset /\ offset \in Int
      BY <2>1, StateFacts DEF SC!SameBlock, StateOf
    <3> QED
      BY <2>1, <3>1, StateFacts DEF CardInv, InStep
  <2>2. CASE ~same
    <3> DEFINE c == SC!CardCommand(SC!State)
    <3>1. c \in StateOf /\ c.cs = TRUE /\ (~cutOff => (c.confused => errorCode))
      BY <1>1, CommandFacts
    <3> HIDE DEF c
    <3>2. s = [c EXCEPT !.off = 0, !.inb = TRUE, !.mode = "sending", !.at = 0]
      BY <2>2 DEF c
    <3>3. cb = b
      BY <2>2
    <3> HIDE DEF s, same, cb
    <3>6. s = [cs |-> c.cs, inb |-> TRUE, off |-> 0, mode |-> "sending", at |-> 0,
               confused |-> c.confused]
      BY <3>1, <3>2 DEF StateOf
    <3>7. c.cs = TRUE
      BY <3>1
    <3>9. /\ s.cs = c.cs /\ s.inb = TRUE /\ s.mode = "sending" /\ s.at = 0 /\ s.off = 0
          /\ s.confused = c.confused
      BY <3>6
    <3>8. s.cs = TRUE
      BY <3>7, <3>9
    <3>10. c.cs \in BOOLEAN /\ c.confused \in BOOLEAN /\ "sending" \in CardModes /\ 0 \in Int
      BY <3>1 DEF StateOf, CardModes
    <3>4. s \in StateOf
      BY <3>6, <3>10 DEF StateOf
    <3>5. 0 <= off
      OBVIOUS
    <3> QED
      BY <3>1, <3>3, <3>4, <3>5, <3>8, <3>9
  <2> QED
    BY <2>1, <2>2
<1> HIDE DEF s, cb
<1>3. /\ BlockSize \in Nat /\ off \in Nat /\ n \in Nat /\ s.off \in Int /\ s.at \in Int
      /\ skip \in Int /\ s.cs \in BOOLEAN
  BY <1>2, CardAssumption DEF StateOf
<1>4. ~cutOff => at = off /\ s.off + skip + n = off + n
  BY <1>2, <1>3
<1> DEFINE o == s.off + skip + n
           a == IF s.cs THEN at + n ELSE s.at
<1>6. t = [s EXCEPT !.off = o, !.at = a] /\ o \in Int /\ a \in Int
  BY <1>3
<1>5. ~cutOff => a = o
  BY <1>2, <1>3, <1>4
<1>7. ~cutOff => \A i \in 1 .. n : SC!Byte(cb, at + i - 1) = SC!Byte(b, off + i - 1)
  BY <1>2, <1>4
<1>8. ~cutOff => got' = wanted'
  BY <1>1, <1>2, <1>7
<1> HIDE DEF t, o, a, skip, at
<1>10. /\ t \in StateOf /\ t.inb = TRUE /\ t.mode = s.mode /\ t.at = a /\ t.off = o
       /\ t.confused = s.confused /\ t.cs = s.cs
  BY <1>2, <1>6 DEF StateOf
<1>11. errorCode \in BOOLEAN /\ writing \in BOOLEAN /\ cutOff \in BOOLEAN
  BY DEF CardInv, CardTypeOK
<1>12. CASE u = t
  <2>1. /\ SC!State' \in StateOf /\ inBlock' = TRUE /\ offset' = o /\ cardAt' = a
        /\ cardMode' = s.mode /\ confused' = s.confused /\ chipSelect' = s.cs
    BY <1>1, <1>10, <1>12, BecomesFacts
  <2>2. ~cutOff' => InStep'
    BY <1>1, <1>2, <1>5, <1>8, <2>1 DEF InStep
  <2> QED
    BY <1>1, <1>11, <2>1, <2>2 DEF CardInv, CardTypeOK
<1>13. CASE u = SC!ReadEnd(t)
  <2>1. /\ u \in StateOf /\ u.inb = FALSE /\ u.confused = t.confused /\ u.cs = FALSE
        /\ t.cs /\ t.at = t.off => u.mode = "idle"
    BY <1>10, <1>13, ReadEndFacts
  <2> HIDE DEF u
  <2>2. /\ SC!State' \in StateOf /\ inBlock' = FALSE /\ chipSelect' = FALSE
        /\ cardMode' = u.mode /\ confused' = s.confused
    BY <1>1, <1>10, <2>1, BecomesFacts
  <2>3. ~cutOff' => InStep'
    BY <1>1, <1>2, <1>5, <1>8, <1>10, <2>1, <2>2 DEF InStep
  <2> QED
    BY <1>1, <1>11, <2>2, <2>3 DEF CardInv, CardTypeOK
<1> QED
  BY <1>12, <1>13

LEMMA CardStep == CardInv /\ SC!Next => CardInv'
<1> SUFFICES ASSUME CardInv, SC!Next PROVE CardInv'
  OBVIOUS
<1>0. errorCode \in BOOLEAN /\ writing \in BOOLEAN /\ cutOff \in BOOLEAN
  BY DEF CardInv, CardTypeOK
<1>1. ASSUME NEW ok \in BOOLEAN, NEW kind, SC!InitCard(ok, kind) PROVE CardInv'
  <2> DEFINE lost == confused /\ ~ok
             m == IF ok THEN "idle" ELSE IF kind # "none" THEN "reset" ELSE cardMode
             u == [cs |-> FALSE, inb |-> FALSE, off |-> offset, mode |-> m, at |-> cardAt,
                   confused |-> lost]
  <2>1. /\ SC!Becomes(u) /\ errorCode' = ~ok /\ writing' = FALSE /\ got' = wanted'
        /\ cutOff' = (cutOff /\ ~ok)
    BY <1>1 DEF SC!InitCard
  <2>2. lost \in BOOLEAN /\ (lost => ~ok) /\ (ok => m = "idle") /\ m \in CardModes
        /\ offset \in Int /\ cardAt \in Int
    BY StateFacts DEF StateOf, CardModes
  <2> HIDE DEF lost, m
  <2>4. /\ u \in StateOf /\ u.cs = FALSE /\ u.inb = FALSE /\ u.confused = lost
        /\ (ok => u.mode = "idle")
    BY <2>2 DEF StateOf
  <2> HIDE DEF u
  <2>5. /\ SC!State' \in StateOf /\ chipSelect' = FALSE /\ inBlock' = FALSE /\ confused' = lost
        /\ (ok => cardMode' = "idle")
    BY <2>1, <2>4, BecomesFacts
  <2>6. InStep'
    BY <2>1, <2>2, <2>5 DEF InStep
  <2> QED
    BY <1>0, <2>1, <2>5, <2>6 DEF CardInv, CardTypeOK
<1>2. ASSUME NEW value \in BOOLEAN, SC!PartialBlockRead(value) PROVE CardInv'
  <2> DEFINE s == SC!State
             u == SC!ReadEnd(s)
  <2>1. SC!Becomes(u) /\ UNCHANGED <<errorCode, writing, cutOff, got, wanted>>
    BY <1>2 DEF SC!PartialBlockRead
  <2>2. /\ s \in StateOf /\ s.inb = inBlock /\ s.mode = cardMode /\ s.confused = confused
        /\ s.cs = chipSelect /\ s.at = cardAt /\ s.off = offset
    BY StateFacts
  <2> HIDE DEF s
  <2>3. /\ u \in StateOf /\ u.inb = FALSE /\ u.confused = confused
        /\ u.cs = (IF inBlock THEN FALSE ELSE chipSelect)
        /\ ~inBlock => u.mode = cardMode
        /\ inBlock /\ chipSelect /\ cardAt = offset => u.mode = "idle"
    BY <2>2, ReadEndFacts
  <2> HIDE DEF u
  <2>4. /\ SC!State' \in StateOf /\ inBlock' = FALSE /\ confused' = confused
        /\ cardMode' = u.mode /\ chipSelect' = (IF inBlock THEN FALSE ELSE chipSelect)
    BY <2>1, <2>3, BecomesFacts
  <2>5. ~cutOff' => InStep'
    BY <2>1, <2>3, <2>4 DEF CardInv, InStep
  <2> QED
    BY <1>0, <2>1, <2>4, <2>5 DEF CardInv, CardTypeOK
<1>3. ASSUME NEW b \in Blocks, NEW off \in 0 .. BlockSize - 1, NEW n \in 1 .. BlockSize,
             SC!ReadData(b, off, n)
      PROVE  CardInv'
  BY <1>3, ReadStep
<1>4. ASSUME NEW b, NEW off, NEW n, SC!ReadFails(b, off, n) PROVE CardInv'
  BY <1>4, DeselectedCall DEF SC!ReadFails, SC!Refused
<1>5. ASSUME NEW b, NEW v, SC!WriteBlock(b, v) PROVE CardInv'
  BY <1>5, DeselectedCall DEF SC!WriteBlock
<1>6. ASSUME NEW b, NEW v, NEW taken, SC!WriteFails(b, v, taken) PROVE CardInv'
  BY <1>6, DeselectedCall DEF SC!WriteFails
<1>7. ASSUME NEW ok \in BOOLEAN, SC!ReadRegister(ok) PROVE CardInv'
  BY <1>7, DeselectedCall DEF SC!ReadRegister, SC!Refused
<1>8. ASSUME NEW ok \in BOOLEAN, SC!WriteStop(ok) PROVE CardInv'
  <2> DEFINE m == IF chipSelect THEN "idle" ELSE cardMode
             s == SC!State
             u == SC!ChipSelectHigh([s EXCEPT !.mode = m])
  <2>1. /\ s \in StateOf /\ s.inb = inBlock /\ s.mode = cardMode /\ s.confused = confused
        /\ m \in CardModes
    BY StateFacts DEF StateOf, CardModes
  <2>2. /\ writing /\ SC!Becomes(u) /\ errorCode' = (errorCode \/ ~ok) /\ writing' = FALSE
        /\ UNCHANGED <<cutOff, got, wanted>>
    BY <1>8, <2>1 DEF SC!WriteStop
  <2>6. m = "idle" \/ errorCode
    BY <2>2 DEF CardInv
  <2> HIDE DEF s, m
  <2>3. /\ u \in StateOf /\ u.cs = FALSE /\ u.inb = s.inb /\ u.mode = m /\ u.confused = s.confused
    BY <2>1 DEF SC!ChipSelectHigh, StateOf
  <2> HIDE DEF u
  <2>4. /\ SC!State' \in StateOf /\ chipSelect' = FALSE /\ inBlock' = inBlock /\ cardMode' = m
        /\ confused' = confused
    BY <2>1, <2>2, <2>3, BecomesFacts
  <2>5. ~inBlock /\ (errorCode => errorCode') /\ errorCode' \in BOOLEAN
    BY <2>2 DEF CardInv
  <2>7. ~cutOff' => InStep'
    BY <2>2, <2>4, <2>5, <2>6 DEF CardInv, InStep
  <2> QED
    BY <1>0, <2>2, <2>4, <2>5, <2>7 DEF CardInv, CardTypeOK
<1>9. ASSUME NEW b, SC!WriteStart(b) PROVE CardInv'
  <2> DEFINE t == SC!CardCommand(SC!State)
             u == [t EXCEPT !.mode = "multi"]
  <2>1. /\ SC!Ready /\ ~writing /\ SC!Becomes(u) /\ writing' = TRUE
        /\ UNCHANGED <<errorCode, cutOff, got, wanted>>
    BY <1>9 DEF SC!WriteStart
  <2>2. /\ t \in StateOf /\ t.inb = FALSE /\ t.cs = TRUE
        /\ ~cutOff => (t.confused => errorCode)
    BY <2>1, CommandFacts
  <2> HIDE DEF t
  <2>3. u \in StateOf /\ u.inb = FALSE /\ u.cs = TRUE /\ u.confused = t.confused
    BY <2>2 DEF StateOf, CardModes
  <2> HIDE DEF u
  <2>4. SC!State' \in StateOf /\ inBlock' = FALSE /\ chipSelect' = TRUE /\ confused' = t.confused
    BY <2>1, <2>3, BecomesFacts
  <2>5. ~cutOff' => InStep'
    BY <2>1, <2>2, <2>4 DEF CardInv, InStep
  <2> QED
    BY <1>0, <2>1, <2>4, <2>5 DEF CardInv, CardTypeOK
<1>10. ASSUME NEW v, SC!WriteData(v) PROVE CardInv'
  BY <1>10 DEF SC!WriteData, SC!host, SC!State, CardInv, CardTypeOK, InStep
<1>11. CASE SC!WriteDataFails
  <2> DEFINE s == SC!State
             u == SC!ChipSelectHigh(s)
  <2>1. /\ writing /\ SC!Becomes(u) /\ errorCode' = TRUE
        /\ UNCHANGED <<writing, cutOff, got, wanted>>
    BY <1>11 DEF SC!WriteDataFails, SC!Refused
  <2>2. s \in StateOf /\ s.inb = inBlock
    BY StateFacts
  <2> HIDE DEF s
  <2>3. u \in StateOf /\ u.cs = FALSE /\ u.inb = inBlock
    BY <2>2 DEF SC!ChipSelectHigh, StateOf
  <2> HIDE DEF u
  <2>4. SC!State' \in StateOf /\ chipSelect' = FALSE /\ inBlock' = inBlock
    BY <2>1, <2>3, BecomesFacts
  <2>5. ~inBlock
    BY <2>1 DEF CardInv
  <2>6. ~cutOff' => InStep'
    BY <2>1, <2>4, <2>5 DEF CardInv, InStep
  <2> QED
    BY <1>0, <2>1, <2>4, <2>5, <2>6 DEF CardInv, CardTypeOK
<1>14. ASSUME NEW b, NEW off, NEW n, SC!ReadOutOfBlock(b, off, n) PROVE CardInv'
  <2> DEFINE s == SC!State
             u == SC!ChipSelectHigh(s)
  <2>1. /\ ~writing /\ SC!Becomes(u) /\ cutOff' = (cutOff \/ inBlock)
        /\ UNCHANGED <<errorCode, writing, got, wanted>>
    BY <1>14 DEF SC!ReadOutOfBlock
  <2>2. /\ s \in StateOf /\ s.inb = inBlock /\ s.mode = cardMode /\ s.confused = confused
    BY StateFacts
  <2> HIDE DEF s
  <2>3. /\ u \in StateOf /\ u.cs = FALSE /\ u.inb = inBlock /\ u.mode = cardMode
        /\ u.confused = confused
    BY <2>2 DEF SC!ChipSelectHigh, StateOf
  <2> HIDE DEF u
  <2>4. /\ SC!State' \in StateOf /\ chipSelect' = FALSE /\ inBlock' = inBlock
        /\ cardMode' = cardMode /\ confused' = confused
    BY <2>1, <2>3, BecomesFacts
  <2>5. ~cutOff' => InStep' /\ ~inBlock
    BY <2>1, <2>4 DEF CardInv, InStep
  <2>6. cutOff' \in BOOLEAN
    BY <1>0, <2>1, <2>2 DEF StateOf
  <2> QED
    BY <1>0, <2>1, <2>4, <2>5, <2>6 DEF CardInv, CardTypeOK
<1>12. ASSUME NEW first, NEW last, NEW v, SC!Erase(first, last, v) PROVE CardInv'
  BY <1>12, DeselectedCall DEF SC!Erase
<1>13. ASSUME NEW first, NEW last, NEW v, NEW taken, SC!EraseFails(first, last, v, taken)
       PROVE  CardInv'
  BY <1>13, DeselectedCall DEF SC!EraseFails
<1> QED
  BY <1>1, <1>2, <1>3, <1>4, <1>5, <1>6, <1>7, <1>8, <1>9, <1>10, <1>11, <1>12, <1>13,
     <1>14 DEF SC!Next

\* The invariant gives the properties of the protocol.
LEMMA CardSafe == CardInv => SC!ReadsWhatWasAsked /\ SC!NoCommandInTransfer /\ SC!BusReleased
BY DEF CardInv, InStep, SC!ReadsWhatWasAsked, SC!NoCommandInTransfer, SC!BusReleased
-----------------------------------------------------------------------------
(* libraries/FlashLib                                                      *)

\* An address is the number its digits make.
LEMMA DigitsFacts ==
  ASSUME NEW a \in FlashAddresses
  PROVE  /\ FL!First(FL!Digits(a)) = a
         /\ \A x, y : /\ FL!Address(<<x>> \o FL!Digits(a) \o <<y>>) = a
                      /\ (<<x>> \o FL!Digits(a) \o <<y>>)[1] = x
                      /\ (<<x>> \o FL!Digits(a) \o <<y>>)[5] = y
<1> DEFINE n == Base
           q == a \div n
           r == q \div n
<1>1. n \in Nat \ {0} /\ a \in Nat /\ a < n * n * n
  BY FlashAssumption
<1> HIDE DEF n
<1>2. q \in Nat /\ a = n * q + (a % n) /\ a % n \in Nat /\ a % n < n
  BY <1>1
<1> HIDE DEF q
<1>3. r \in Nat /\ q = n * r + (q % n) /\ q % n \in Nat /\ q % n < n
  BY <1>1, <1>2
<1> HIDE DEF r
<1>4. n * q = n * n * r + n * (q % n)
  <2>1. \A x, y, z, w \in Nat : x = y * z + w => y * x = y * y * z + y * w
    OBVIOUS
  <2> DEFINE m == q % n
  <2>2. n \in Nat /\ m \in Nat /\ q = n * r + m
    BY <1>1, <1>3
  <2> HIDE DEF m
  <2>3. n * q = n * n * r + n * m
    BY <1>2, <1>3, <2>1, <2>2
  <2> QED
    BY <2>3 DEF m
<1>5. n * (q % n) + (a % n) \in Nat /\ n * (q % n) + (a % n) < n * n
  <2>1. \A x, y, z \in Nat : x < z /\ y < z => z * x + y \in Nat /\ z * x + y < z * z
    <3> SUFFICES ASSUME NEW x \in Nat, NEW y \in Nat, NEW z \in Nat, x < z, y < z
                 PROVE  z * x + y \in Nat /\ z * x + y < z * z
      OBVIOUS
    <3>1. z * (z - 1 - x) \in Nat
      BY SMT
    <3>2. z * (z - 1 - x) = z * z - z - z * x
      BY SMT
    <3> QED
      BY <3>1, <3>2
  <2> QED
    BY <1>1, <1>2, <1>3, <2>1
<1>6. a \div (n * n) = r
  <2> DEFINE s == n * n
             e == n * (q % n) + (a % n)
  <2>1. s \in Nat \ {0} /\ e \in Nat /\ e < s
    BY <1>1, <1>5
  <2>2. a = r * s + e
    <3>1. n * n * r = r * (n * n)
      BY <1>1, <1>3
    <3> QED
      BY <1>1, <1>2, <1>3, <1>4, <3>1
  <2> HIDE DEF s, e
  <2>3. r * s \in Nat
    BY <1>3, <2>1
  <2>4. r * s <= a /\ a < r * s + s /\ r \in Nat /\ a \in Nat
    BY <1>1, <1>3, <2>1, <2>2, <2>3
  <2>5. a \div s = r
    BY <2>1, <2>4, QuotientFacts
  <2> QED
    BY <2>5 DEF s
<1>7. r % n = r
  <2>1. r < n
    <3> SUFFICES ASSUME r >= n PROVE FALSE
      BY <1>1, <1>3
    <3>1. \A x, y \in Nat : x >= y => y * y * x >= y * y * y
      <4> SUFFICES ASSUME NEW x \in Nat, NEW y \in Nat, x >= y PROVE y * y * x >= y * y * y
        OBVIOUS
      <4>1. (y * y) * (x - y) \in Nat
        <5>1. y * y \in Nat /\ x - y \in Nat
          OBVIOUS
        <5> QED
          BY <5>1
      <4>2. (y * y) * (x - y) = y * y * x - y * y * y
        OBVIOUS
      <4> QED
        BY <4>1, <4>2
    <3>2. n * n * r >= n * n * n
      BY <1>1, <1>3, <3>1
    <3>3. n * n * r \in Nat /\ n * (q % n) \in Nat /\ n * n * n \in Nat
      BY <1>1, <1>3
    <3> QED
      BY <1>1, <1>2, <1>4, <3>2, <3>3
  <2> QED
    BY <1>1, <1>3, <2>1
<1>8. n * n * r + n * (q % n) + (a % n) = a
  BY <1>1, <1>2, <1>3, <1>4
<1>9. FL!Digits(a) = <<r, q % n, a % n>>
  BY <1>6, <1>7 DEF FL!Digits, n, q
<1>10. FL!First(FL!Digits(a)) = a
  BY <1>8, <1>9 DEF FL!First, n
<1>11. ASSUME NEW x, NEW y
       PROVE  /\ FL!Address(<<x>> \o FL!Digits(a) \o <<y>>) = a
              /\ (<<x>> \o FL!Digits(a) \o <<y>>)[1] = x
              /\ (<<x>> \o FL!Digits(a) \o <<y>>)[5] = y
  <2> DEFINE f == <<x>> \o FL!Digits(a) \o <<y>>
  <2>1. f[1] = x /\ f[2] = r /\ f[3] = q % n /\ f[4] = a % n /\ f[5] = y
    BY <1>9
  <2> HIDE DEF f
  <2>2. FL!Address(f) = a
    BY <1>8, <2>1 DEF FL!Address, n
  <2> QED
    BY <2>1, <2>2 DEF f
<1> QED
  BY <1>10, <1>11

Memory == [FL!Cells -> SUBSET Bits]
ChipOf == [mem : Memory, job : Memory \cup {<< >>}, busy : BOOLEAN, wel : BOOLEAN,
           protected : BOOLEAN, opened : [kind : {"none", "unheard", "read"}, at : Int]]

\* At rest the memory is what the calls made it, and at work it will be; no write is enabled
\* that the chip would take; and it reads out only at rest.
FlashInv ==
  /\ chip \in ChipOf /\ should \in Memory
  /\ IF chip.busy THEN chip.job = should ELSE chip.mem = should
  /\ chip.wel => chip.protected
  /\ chip.opened.kind = "read" => ~chip.busy
  /\ gotten.is = gotten.at

LEMMA FlashInit == FL!Init => FlashInv
<1> SUFFICES ASSUME FL!Init PROVE FlashInv
  OBVIOUS
<1>1. [a \in FL!Cells |-> FL!Blank] \in Memory
  BY DEF Memory, FL!Blank
<1>2. chip \in ChipOf /\ should \in Memory /\ chip.mem = should
  BY <1>1 DEF FL!Init, ChipOf, FL!Closed
<1> QED
  BY <1>2 DEF FL!Init, FL!Closed, FlashInv

\* A chip that listens enables a write; another only ends its frame.
LEMMA EnableFacts ==
  ASSUME NEW c \in ChipOf
  PROVE  LET w == FL!write_enable(c)
         IN  /\ w \in ChipOf /\ w.mem = c.mem /\ w.job = c.job /\ w.busy = c.busy
             /\ w.protected = c.protected /\ w.opened = FL!Closed
             /\ w.wel = (c.wel \/ (c.opened.kind = "none" /\ ~c.busy))
<1> DEFINE f == <<"WRITE_ENABLE">>
<1>1. f[1] = "WRITE_ENABLE"
  OBVIOUS
<1> HIDE DEF f
<1>2. FL!Hears(c, f) = IF c.opened.kind # "none" \/ c.busy THEN c ELSE [c EXCEPT !.wel = TRUE]
  BY <1>1 DEF FL!Hears
<1>3. FL!write_enable(c) = [FL!Hears(c, f) EXCEPT !.opened = FL!Closed]
  BY DEF FL!write_enable, FL!Frame, f
<1>4. FL!Closed \in [kind : {"none", "unheard", "read"}, at : Int]
  BY DEF FL!Closed
<1>5. CASE c.opened.kind = "none" /\ ~c.busy
  <2>1. FL!write_enable(c) = [[c EXCEPT !.wel = TRUE] EXCEPT !.opened = FL!Closed]
    BY <1>2, <1>3, <1>5
  <2> QED
    BY <1>4, <1>5, <2>1 DEF ChipOf
<1>6. CASE ~(c.opened.kind = "none" /\ ~c.busy)
  <2>1. FL!write_enable(c) = [c EXCEPT !.opened = FL!Closed]
    BY <1>2, <1>3, <1>6
  <2>2. c.wel = (c.wel \/ (c.opened.kind = "none" /\ ~c.busy))
    BY <1>6 DEF ChipOf
  <2> QED
    BY <1>4, <2>1, <2>2 DEF ChipOf
<1> QED
  BY <1>5, <1>6

\* A write or an erasure, enabled first: m is what the chip is to make of its memory, sm what
\* the call asks for.
LEMMA ChangeStep ==
  ASSUME FlashInv, NEW m \in Memory, NEW sm \in Memory,
         FL!Writable => m = sm,
         LET w == FL!write_enable(chip)
         IN  chip' = [(IF w.busy THEN w ELSE FL!Takes(w, m)) EXCEPT !.opened = FL!Closed],
         should' = IF FL!Writable THEN sm ELSE should,
         gotten' = gotten
  PROVE  FlashInv'
<1> DEFINE w == FL!write_enable(chip)
<1>1. /\ w \in ChipOf /\ w.mem = chip.mem /\ w.job = chip.job /\ w.busy = chip.busy
      /\ w.protected = chip.protected /\ w.opened = FL!Closed
      /\ w.wel = (chip.wel \/ (chip.opened.kind = "none" /\ ~chip.busy))
  BY EnableFacts DEF FlashInv
<1>2. chip' = [(IF w.busy THEN w ELSE FL!Takes(w, m)) EXCEPT !.opened = FL!Closed]
  OBVIOUS
<1> HIDE DEF w
<1>3. FL!Closed \in [kind : {"none", "unheard", "read"}, at : Int] /\ FL!Closed.kind = "none"
  BY DEF FL!Closed
<1>4. FL!Writable <=> ~chip.busy /\ chip.opened.kind = "none" /\ ~chip.protected
  BY DEF FL!Writable, FL!Listening
<1>5. CASE FL!Writable
  <2>1. chip' = [[w EXCEPT !.job = m, !.busy = TRUE, !.wel = FALSE] EXCEPT !.opened = FL!Closed]
    BY <1>1, <1>2, <1>4, <1>5 DEF FL!Takes
  <2>2. /\ chip' \in ChipOf /\ chip'.job = m /\ chip'.busy = TRUE /\ chip'.wel = FALSE
        /\ chip'.opened = FL!Closed
    BY <1>1, <1>3, <2>1 DEF ChipOf
  <2> QED
    BY <1>3, <1>5, <2>2 DEF FlashInv
<1>6. CASE ~FL!Writable
  <2>1. chip' = [w EXCEPT !.opened = FL!Closed]
    <3>1. w.busy \/ ~w.wel \/ w.protected
      BY <1>1, <1>4, <1>6 DEF FlashInv
    <3> QED
      BY <1>2, <3>1 DEF FL!Takes
  <2>2. /\ chip' \in ChipOf /\ chip'.mem = chip.mem /\ chip'.job = chip.job /\ chip'.busy = chip.busy
        /\ chip'.protected = chip.protected /\ chip'.wel = w.wel /\ chip'.opened = FL!Closed
    BY <1>1, <1>3, <2>1 DEF ChipOf
  <2>3. chip'.wel => chip'.protected
    BY <1>1, <1>4, <1>6, <2>2 DEF FlashInv
  <2> QED
    BY <1>3, <1>6, <2>2, <2>3 DEF FlashInv
<1> QED
  BY <1>5, <1>6

LEMMA FlashStep == FlashInv /\ FL!Next => FlashInv'
<1> SUFFICES ASSUME FlashInv, FL!Next PROVE FlashInv'
  OBVIOUS
<1>1. CASE FL!Finish
  <2>1. /\ chip.busy /\ chip' = [chip EXCEPT !.mem = chip.job, !.job = << >>, !.busy = FALSE]
        /\ UNCHANGED <<should, gotten>>
    BY <1>1 DEF FL!Finish
  <2>2. chip.job \in Memory
    BY <2>1 DEF FlashInv
  <2>3. /\ chip' \in ChipOf /\ chip'.mem = chip.job /\ chip'.busy = FALSE /\ chip'.wel = chip.wel
        /\ chip'.protected = chip.protected /\ chip'.opened = chip.opened
    BY <2>1, <2>2 DEF FlashInv, ChipOf
  <2> QED
    BY <2>1, <2>3 DEF FlashInv
<1>2. CASE FL!eraseChip
  <2> DEFINE m == [a \in FL!Cells |-> FL!Blank]
             w == FL!write_enable(chip)
             f == <<"CHIP_ERASE">>
  <2>1. /\ chip' = FL!Frame(w, f) /\ should' = (IF FL!Writable THEN m ELSE should) /\ gotten' = gotten
    BY <1>2 DEF FL!eraseChip, FL!Changes
  <2>2. m \in Memory
    BY DEF Memory, FL!Blank
  <2>3. f[1] = "CHIP_ERASE" /\ w.opened.kind = "none"
    BY EnableFacts DEF FlashInv, FL!Closed
  <2> HIDE DEF f, w
  <2>4. FL!Hears(w, f) = IF w.busy THEN w ELSE FL!Takes(w, m)
    BY <2>3 DEF FL!Hears
  <2> HIDE DEF m
  <2>5. chip' = [(IF w.busy THEN w ELSE FL!Takes(w, m)) EXCEPT !.opened = FL!Closed]
    BY <2>1, <2>4 DEF FL!Frame
  <2> QED
    BY <2>1, <2>2, <2>5, ChangeStep DEF w
<1>3. ASSUME NEW a \in FlashAddresses, NEW b \in Bytes, FL!writeByte(b, a) PROVE FlashInv'
  <2> DEFINE m == [chip.mem EXCEPT ![a] = @ \cap b]
             sm == [should EXCEPT ![a] = @ \cap b]
             w == FL!write_enable(chip)
             f == <<"BYTE_WRITE">> \o FL!Digits(a) \o <<b>>
  <2>1. /\ chip' = FL!Frame(w, f) /\ should' = (IF FL!Writable THEN sm ELSE should) /\ gotten' = gotten
    BY <1>3 DEF FL!writeByte, FL!Changes
  <2>2. chip.mem \in Memory /\ should \in Memory /\ (FL!Writable => chip.mem = should)
    BY DEF FlashInv, ChipOf, FL!Writable, FL!Listening
  <2>3. m \in Memory /\ sm \in Memory /\ (FL!Writable => m = sm)
    BY <2>2 DEF Memory
  <2>4. f[1] = "BYTE_WRITE" /\ FL!Address(f) = a /\ f[5] = b
    <3>1. \A x, y : /\ FL!Address(<<x>> \o FL!Digits(a) \o <<y>>) = a
                    /\ (<<x>> \o FL!Digits(a) \o <<y>>)[1] = x
                    /\ (<<x>> \o FL!Digits(a) \o <<y>>)[5] = y
      BY DigitsFacts
    <3> QED
      BY <3>1, Zenon
  <2>5. w.opened.kind = "none" /\ w.mem = chip.mem
    BY EnableFacts DEF FlashInv, FL!Closed
  <2> HIDE DEF f, w
  <2>6. FL!Hears(w, f) = IF w.busy THEN w ELSE FL!Takes(w, m)
    BY <2>4, <2>5 DEF FL!Hears
  <2> HIDE DEF m, sm
  <2>7. chip' = [(IF w.busy THEN w ELSE FL!Takes(w, m)) EXCEPT !.opened = FL!Closed]
    BY <2>1, <2>6 DEF FL!Frame
  <2> QED
    BY <2>1, <2>3, <2>7, ChangeStep DEF w
<1>4. ASSUME NEW a \in FlashAddresses, NEW s \in Sectors, FL!eraseSector(a, s) PROVE FlashInv'
  <2> DEFINE m == FL!Erased(chip.mem, a, s)
             sm == FL!Erased(should, a, s)
             w == FL!write_enable(chip)
             f == <<"SECTOR_ERASE">> \o FL!Digits(a) \o <<s>>
  <2>1. /\ chip' = FL!Frame(w, f) /\ should' = (IF FL!Writable THEN sm ELSE should) /\ gotten' = gotten
    BY <1>4 DEF FL!eraseSector, FL!EraseSector, FL!Changes
  <2>2. chip.mem \in Memory /\ should \in Memory /\ (FL!Writable => chip.mem = should)
    BY DEF FlashInv, ChipOf, FL!Writable, FL!Listening
  <2>3. m \in Memory /\ sm \in Memory /\ (FL!Writable => m = sm)
    BY <2>2 DEF Memory, FL!Erased, FL!Blank
  <2>4. f[1] = "SECTOR_ERASE" /\ FL!Address(f) = a /\ f[5] = s
    <3>1. \A x, y : /\ FL!Address(<<x>> \o FL!Digits(a) \o <<y>>) = a
                    /\ (<<x>> \o FL!Digits(a) \o <<y>>)[1] = x
                    /\ (<<x>> \o FL!Digits(a) \o <<y>>)[5] = y
      BY DigitsFacts
    <3> QED
      BY <3>1, Zenon
  <2>5. w.opened.kind = "none" /\ w.mem = chip.mem
    BY EnableFacts DEF FlashInv, FL!Closed
  <2> HIDE DEF f, w
  <2>6. FL!Hears(w, f) = IF w.busy THEN w ELSE FL!Takes(w, m)
    BY <2>4, <2>5 DEF FL!Hears
  <2> HIDE DEF m, sm
  <2>7. chip' = [(IF w.busy THEN w ELSE FL!Takes(w, m)) EXCEPT !.opened = FL!Closed]
    BY <2>1, <2>6 DEF FL!Frame
  <2> QED
    BY <2>1, <2>3, <2>7, ChangeStep DEF w
\* A frame that changes nothing but the protection.
<1>5. ASSUME NEW f, f[1] \notin {"WRITE_ENABLE", "BYTE_WRITE", "CHIP_ERASE", "SECTOR_ERASE"},
             f[1] = "STATREG_WRITE" => f[2] \in BOOLEAN,
             chip' = FL!Frame(chip, f), UNCHANGED <<should, gotten>>
      PROVE  FlashInv'
  <2>1. FL!Hears(chip, f) \in {chip, [chip EXCEPT !.protected = f[2], !.wel = FALSE]}
        /\ (f[1] # "STATREG_WRITE" => FL!Hears(chip, f) = chip)
    BY <1>5 DEF FL!Hears
  <2>2. chip' = [FL!Hears(chip, f) EXCEPT !.opened = FL!Closed]
    BY <1>5 DEF FL!Frame
  <2>3. FL!Closed \in [kind : {"none", "unheard", "read"}, at : Int] /\ FL!Closed.kind = "none"
    BY DEF FL!Closed
  <2>4. /\ chip' \in ChipOf /\ chip'.mem = chip.mem /\ chip'.busy = chip.busy
        /\ chip'.job = chip.job /\ chip'.opened = FL!Closed
        /\ (chip'.wel => chip.wel /\ chip'.protected = chip.protected)
    <3>1. CASE FL!Hears(chip, f) = chip
      <4>1. chip' = [chip EXCEPT !.opened = FL!Closed]
        BY <2>2, <3>1
      <4> QED
        BY <2>3, <4>1 DEF FlashInv, ChipOf
    <3>2. CASE FL!Hears(chip, f) # chip
      <4>1. f[2] \in BOOLEAN
            /\ chip' = [[chip EXCEPT !.protected = f[2], !.wel = FALSE] EXCEPT !.opened = FL!Closed]
        BY <1>5, <2>1, <2>2, <3>2
      <4> QED
        BY <2>3, <4>1 DEF FlashInv, ChipOf
    <3> QED
      BY <3>1, <3>2
  <2> QED
    BY <1>5, <2>3, <2>4 DEF FlashInv
<1>6. CASE FL!readStatusRegistry \/ FL!isReady \/ FL!readID
  BY <1>5, <1>6 DEF FL!readStatusRegistry, FL!isReady, FL!readID, FL!Asks
<1>7. ASSUME NEW p \in BOOLEAN, FL!writeStatusRegistry(p) PROVE FlashInv'
  BY <1>5, <1>7 DEF FL!writeStatusRegistry
<1>8. ASSUME NEW a \in FlashAddresses, FL!readByte(a) PROVE FlashInv'
  <2>1. /\ chip' = [chip EXCEPT !.opened = FL!Closed] /\ should' = should
        /\ IF FL!Listening THEN gotten' = [is |-> chip.mem[a], at |-> should[a]] ELSE gotten' = gotten
    BY <1>8, DigitsFacts DEF FL!readByte, FL!Reads
  <2>2. FL!Closed \in [kind : {"none", "unheard", "read"}, at : Int] /\ FL!Closed.kind = "none"
    BY DEF FL!Closed
  <2>3. /\ chip' \in ChipOf /\ chip'.mem = chip.mem /\ chip'.busy = chip.busy
        /\ chip'.job = chip.job /\ chip'.opened = FL!Closed /\ chip'.wel = chip.wel
        /\ chip'.protected = chip.protected
    BY <2>1, <2>2 DEF FlashInv, ChipOf
  <2>4. gotten'.is = gotten'.at
    BY <2>1 DEF FlashInv, FL!Listening
  <2> QED
    BY <2>1, <2>2, <2>3, <2>4 DEF FlashInv
<1>9. ASSUME NEW a \in FlashAddresses, FL!readBegin(a) PROVE FlashInv'
  <2> DEFINE o == IF FL!Listening THEN [kind |-> "read", at |-> a]
                  ELSE IF chip.opened.kind = "none" THEN FL!Unheard ELSE chip.opened
  <2>1. /\ chip' = [chip EXCEPT !.opened = o] /\ should' = should
        /\ IF FL!Listening THEN gotten' = [is |-> chip.mem[a], at |-> should[a]] ELSE gotten' = gotten
    BY <1>9, DigitsFacts DEF FL!readBegin, FL!Reads
  <2>2. a \in Int
    BY FlashAssumption
  <2>3. o \in [kind : {"none", "unheard", "read"}, at : Int] /\ (o.kind = "read" => ~chip.busy)
    BY <2>2 DEF FlashInv, ChipOf, FL!Listening, FL!Unheard
  <2> HIDE DEF o
  <2>4. /\ chip' \in ChipOf /\ chip'.mem = chip.mem /\ chip'.busy = chip.busy
        /\ chip'.job = chip.job /\ chip'.opened = o /\ chip'.wel = chip.wel
        /\ chip'.protected = chip.protected
    BY <2>1, <2>3 DEF FlashInv, ChipOf
  <2>5. gotten'.is = gotten'.at
    BY <2>1 DEF FlashInv, FL!Listening
  <2> QED
    BY <2>1, <2>3, <2>4, <2>5 DEF FlashInv
<1>10. ASSUME NEW last \in BOOLEAN, FL!readContinue(last) PROVE FlashInv'
  <2> DEFINE at == FL!Following(chip.opened.at)
             o == IF last THEN FL!Closed
                  ELSE IF chip.opened.kind = "read" THEN [kind |-> "read", at |-> at] ELSE FL!Unheard
  <2>1. /\ chip' = [chip EXCEPT !.opened = o] /\ should' = should
        /\ IF chip.opened.kind = "read" THEN gotten' = [is |-> chip.mem[at], at |-> should[at]]
           ELSE gotten' = gotten
    BY <1>10 DEF FL!readContinue, FL!Reads, FL!Following
  <2>2. at \in Int
    BY FlashAssumption DEF FL!Following, FlashInv, ChipOf
  <2> HIDE DEF at
  <2>3. o \in [kind : {"none", "unheard", "read"}, at : Int] /\ (o.kind = "read" => ~chip.busy)
    BY <2>2 DEF FlashInv, ChipOf, FL!Closed, FL!Unheard
  <2> HIDE DEF o
  <2>4. /\ chip' \in ChipOf /\ chip'.mem = chip.mem /\ chip'.busy = chip.busy
        /\ chip'.job = chip.job /\ chip'.opened = o /\ chip'.wel = chip.wel
        /\ chip'.protected = chip.protected
    BY <2>1, <2>3 DEF FlashInv, ChipOf
  <2>5. gotten'.is = gotten'.at
    BY <2>1 DEF FlashInv
  <2> QED
    BY <2>1, <2>3, <2>4, <2>5 DEF FlashInv
<1> QED
  BY <1>1, <1>2, <1>3, <1>4, <1>6, <1>7, <1>8, <1>9, <1>10 DEF FL!Next

\* The invariant gives the properties of the memory and of the reads.
LEMMA FlashSafe == FlashInv => FL!StoredAsCalled /\ FL!ReadsStored
BY DEF FlashInv, FL!StoredAsCalled, FL!ReadsStored
-----------------------------------------------------------------------------
(* GPS_logger                                                              *)

Line == Nat \X {"GGA", "RMC"}
PanelOf == [current_state : {"ST_RESET", "ST_RACE"}, bootFlag : BOOLEAN, pbFlag : BOOLEAN,
            fixquality : {"INVALID", "GPS_FIX", "DGPS_FIX"},
            lights : {"OFF", "YELLOW", "blinks RED", "blinks YELLOW", "blinks GREEN"}, told : Nat]

LoggerTypeOK ==
  /\ pc \in {"off", "on", "undefined"}
  /\ start \in Nat
  /\ exists \subseteq LG!Logs
  /\ logs \in [LG!Logs -> Seq(Line)]
  /\ logfile \in LG!Logs
  /\ unflushed \in Seq(Line)
  /\ lights \in PanelOf

\* The name under which setup() opens the log is free, or the last.
LEMMA LogNameFacts ==
  ASSUME exists \subseteq LG!Logs
  PROVE  LG!LogName \in LG!Logs /\ (LG!LogName \notin exists \/ LG!LogName = MaxLogs - 1)
<1> DEFINE free == LG!Logs \ exists
<1>1. MaxLogs - 1 \in LG!Logs
  BY LoggerAssumption DEF LG!Logs
<1>2. CASE free = {}
  BY <1>1, <1>2 DEF LG!LogName
<1>3. CASE free # {}
  <2>1. free \in SUBSET Nat
    BY LoggerAssumption DEF LG!Logs
  <2>2. \E x \in free : \A y \in free : x <= y
    BY <1>3, <2>1, LeastNumber
  <2>3. LG!Min(free) \in free
    BY <2>2 DEF LG!Min
  <2>4. LG!LogName = LG!Min(free)
    BY <1>3 DEF LG!LogName
  <2> QED
    BY <2>3, <2>4
<1> QED
  BY <1>2, <1>3

\* A log is in the order of the starts, none after this one; a log that is not on the card is
\* empty; one that does not have the last name is of one start, and of this one if it is open;
\* what is not yet flushed is of this start.
LoggerInv ==
  /\ LoggerTypeOK
  /\ pc = "on" => logfile \in exists
  /\ pc # "on" => unflushed = << >>
  /\ \A i \in 1 .. Len(unflushed) : unflushed[i][1] = start
  /\ \A f \in LG!Logs \ exists : logs[f] = << >>
  /\ \A f \in LG!Logs : \A i \in 1 .. Len(logs[f]) : logs[f][i][1] <= start
  /\ \A f \in LG!Logs : \A i, j \in 1 .. Len(logs[f]) :
       /\ i < j => logs[f][i][1] <= logs[f][j][1]
       /\ f # MaxLogs - 1 => logs[f][i][1] = logs[f][j][1]
  /\ pc = "on" /\ logfile # MaxLogs - 1 =>
       \A i \in 1 .. Len(logs[logfile]) : logs[logfile][i][1] = start

\* The lights blink green exactly when the receiver was told.
LightsInv ==
  pc = "on" => /\ lights.told = IF lights.lights = "blinks GREEN" THEN 1 ELSE 0
               /\ lights.current_state = "ST_RACE" <=> lights.lights \in {"blinks GREEN", "YELLOW"}

LEMMA LoggerInit == LG!Init => LoggerInv /\ LightsInv
<1> SUFFICES ASSUME LG!Init PROVE LoggerInv /\ LightsInv
  OBVIOUS
<1>1. 0 \in LG!Logs
  BY LoggerAssumption DEF LG!Logs
<1>2. logs = [f \in LG!Logs |-> << >>] /\ unflushed = << >>
  BY DEF LG!Init
<1>3. LoggerTypeOK
  BY <1>1, <1>2 DEF LG!Init, LG!Booted, LoggerTypeOK, PanelOf
<1>4. Len(unflushed) = 0 /\ \A f \in LG!Logs : Len(logs[f]) = 0
  BY <1>2
<1>5. pc = "off"
  BY DEF LG!Init
<1> QED
  BY <1>2, <1>3, <1>4, <1>5 DEF LoggerInv, LightsInv

\* A pass of loop() that waits for a fix.
LEMMA WaitFacts ==
  ASSUME lights \in PanelOf, LG!WaitForFix
  PROVE  /\ lights' \in PanelOf /\ pc = "on" /\ pc' = "on"
         /\ lights.current_state = "ST_RESET"
         /\ \/ /\ lights'.current_state = "ST_RACE" /\ lights'.lights = "blinks GREEN"
               /\ lights'.told = lights.told + 1
            \/ /\ lights'.current_state = "ST_RESET" /\ lights'.told = lights.told
               /\ lights'.lights \in {"blinks RED", "blinks YELLOW"}
<1> DEFINE go == \/ lights.fixquality = "DGPS_FIX"
                 \/ lights.fixquality = "GPS_FIX" /\ lights.pbFlag
           keeps == lights.pbFlag /\ lights.fixquality = "DGPS_FIX"
           seen == [lights EXCEPT !.bootFlag = TRUE]
           hue == IF lights.fixquality = "INVALID" THEN "blinks RED" ELSE "blinks YELLOW"
<1>1. /\ lights' = IF go THEN [seen EXCEPT !.current_state = "ST_RACE", !.lights = "blinks GREEN",
                                         !.told = lights.told + 1, !.pbFlag = keeps]
                   ELSE [seen EXCEPT !.lights = hue]
      /\ pc = "on" /\ pc' = pc /\ lights.current_state = "ST_RESET"
  BY DEF LG!WaitForFix
<1>2. keeps \in BOOLEAN /\ hue \in {"blinks RED", "blinks YELLOW"}
  OBVIOUS
<1>3. /\ seen \in PanelOf /\ seen.told = lights.told /\ seen.current_state = lights.current_state
      /\ lights.told \in Nat
  BY DEF PanelOf
<1> HIDE DEF go, keeps, seen, hue
<1>4. CASE go
  <2>1. lights' = [seen EXCEPT !.current_state = "ST_RACE", !.lights = "blinks GREEN",
                               !.told = lights.told + 1, !.pbFlag = keeps]
    BY <1>1, <1>4
  <2>2. lights.told + 1 \in Nat
    BY <1>3
  <2>3. lights' \in PanelOf
    BY <1>2, <1>3, <2>1, <2>2 DEF PanelOf
  <2>4. /\ lights'.current_state = "ST_RACE" /\ lights'.lights = "blinks GREEN"
        /\ lights'.told = lights.told + 1
    BY <1>3, <2>1 DEF PanelOf
  <2> QED
    BY <1>1, <2>3, <2>4
<1>5. CASE ~go
  <2>1. lights' = [seen EXCEPT !.lights = hue]
    BY <1>1, <1>5
  <2> QED
    BY <1>1, <1>2, <1>3, <2>1 DEF PanelOf
<1> QED
  BY <1>4, <1>5

\* A step that changes neither card nor file.
LEMMA LightsStep ==
  ASSUME LoggerInv, lights' \in PanelOf, UNCHANGED <<pc, start, exists, logs, logfile, unflushed>>
  PROVE  LoggerInv'
BY DEF LoggerInv, LoggerTypeOK

\* A flush adds what was written to the open log.
LEMMA FlushFacts ==
  ASSUME LoggerInv, LG!Flush, UNCHANGED <<pc, start, exists, logfile>>, pc = "on", lights' \in PanelOf
  PROVE  LoggerInv'
<1> DEFINE s == logs[logfile]
           t == unflushed
           u == s \o t
<1>1. s \in Seq(Line) /\ t \in Seq(Line) /\ logfile \in LG!Logs /\ start \in Nat
  BY DEF LoggerInv, LoggerTypeOK
<1>2. logs' = [logs EXCEPT ![logfile] = u] /\ unflushed' = << >>
  BY DEF LG!Flush
<1>3. logs'[logfile] = u /\ \A f \in LG!Logs \ {logfile} : logs'[f] = logs[f]
  BY <1>1, <1>2 DEF LoggerInv, LoggerTypeOK
<1>4. /\ \A i \in 1 .. Len(s) : s[i][1] <= start /\ s[i][1] \in Nat
      /\ \A i, j \in 1 .. Len(s) : i < j => s[i][1] <= s[j][1]
      /\ \A i \in 1 .. Len(t) : t[i][1] = start
      /\ logfile # MaxLogs - 1 => \A i \in 1 .. Len(s) : s[i][1] = start
  <2>1. \A i \in 1 .. Len(s) : s[i] \in Line
    BY <1>1
  <2> QED
    BY <1>1, <2>1 DEF LoggerInv, Line
<1> HIDE DEF s, t
<1>5. /\ u \in Seq(Line) /\ Len(u) = Len(s) + Len(t) /\ Len(s) \in Nat /\ Len(t) \in Nat
      /\ \A i \in 1 .. Len(u) : u[i] = IF i <= Len(s) THEN s[i] ELSE t[i - Len(s)]
  BY <1>1
<1> HIDE DEF u
<1>6. ASSUME NEW i \in 1 .. Len(u)
      PROVE  \/ i \in 1 .. Len(s) /\ u[i] = s[i]
             \/ i > Len(s) /\ u[i][1] = start
  <2>1. CASE i <= Len(s)
    BY <1>5, <2>1
  <2>2. CASE i > Len(s)
    <3>1. i - Len(s) \in 1 .. Len(t) /\ u[i] = t[i - Len(s)]
      BY <1>5, <2>2
    <3> QED
      BY <1>4, <2>2, <3>1
  <2> QED
    BY <1>5, <2>1, <2>2
<1>7. \A i \in 1 .. Len(u) : u[i][1] <= start
  BY <1>1, <1>4, <1>6
<1>8. \A i, j \in 1 .. Len(u) : i < j => u[i][1] <= u[j][1]
  <2> SUFFICES ASSUME NEW i \in 1 .. Len(u), NEW j \in 1 .. Len(u), i < j PROVE u[i][1] <= u[j][1]
    OBVIOUS
  <2>1. CASE j \in 1 .. Len(s) /\ u[j] = s[j]
    BY <1>4, <1>5, <1>6, <2>1
  <2>2. CASE u[j][1] = start
    BY <1>7, <2>2
  <2> QED
    BY <1>6, <2>1, <2>2
<1>9. logfile # MaxLogs - 1 => \A i \in 1 .. Len(u) : u[i][1] = start
  BY <1>4, <1>6
<1>10. LoggerTypeOK'
  BY <1>2, <1>5 DEF LoggerInv, LoggerTypeOK
<1>11. Len(unflushed') = 0
  BY <1>2
<1>12. \A f \in LG!Logs' : \A i \in 1 .. Len(logs'[f]) : logs'[f][i][1] <= start'
  BY <1>3, <1>7 DEF LoggerInv
<1>13. \A f \in LG!Logs : \A i, j \in 1 .. Len(logs'[f]) :
         /\ i < j => logs'[f][i][1] <= logs'[f][j][1]
         /\ f # MaxLogs - 1 => logs'[f][i][1] = logs'[f][j][1]
  BY <1>3, <1>8, <1>9 DEF LoggerInv
<1>14. logfile \in exists
  BY DEF LoggerInv
<1> QED
  BY <1>2, <1>3, <1>9, <1>10, <1>11, <1>12, <1>13, <1>14 DEF LoggerInv

LEMMA LoggerStep == LoggerInv /\ [LG!Next]_logger => LoggerInv'
<1> SUFFICES ASSUME LoggerInv, [LG!Next]_logger PROVE LoggerInv'
  OBVIOUS
<1>1. CASE LG!Setup
  <2> DEFINE n == LG!LogName
  <2>1. /\ pc = "off" /\ pc' = "on" /\ start' = start + 1 /\ logfile' = n
        /\ exists' = exists \cup {n} /\ logs' = logs /\ unflushed' = << >>
        /\ lights' = LG!Booted
    BY <1>1 DEF LG!Setup, LG!Open
  <2>2. n \in LG!Logs /\ (n \notin exists \/ n = MaxLogs - 1)
    BY LogNameFacts DEF LoggerInv, LoggerTypeOK
  <2> HIDE DEF n
  <2>3. LG!Booted \in PanelOf
    BY DEF LG!Booted, PanelOf
  <2>4. LoggerTypeOK'
    BY <2>1, <2>2, <2>3 DEF LoggerInv, LoggerTypeOK
  <2>5. n # MaxLogs - 1 => logs[n] = << >>
    BY <2>2 DEF LoggerInv
  <2>6. ASSUME NEW f \in LG!Logs, NEW i \in 1 .. Len(logs[f]) PROVE logs[f][i][1] <= start + 1
    <3>1. logs[f][i] \in Line /\ logs[f][i][1] <= start /\ start \in Nat
      BY DEF LoggerInv, LoggerTypeOK
    <3> QED
      BY <3>1 DEF Line
  <2>7. Len(unflushed') = 0 /\ \A i \in 1 .. Len(<< >>) : FALSE
    BY <2>1
  <2> QED
    BY <2>1, <2>4, <2>5, <2>6, <2>7 DEF LoggerInv
<1>2. CASE LG!SetupFails
  <2>1. /\ pc = "off" /\ pc' = "undefined" /\ start' = start + 1
        /\ UNCHANGED <<exists, logs, logfile, unflushed, lights>>
    BY <1>2 DEF LG!SetupFails
  <2>2. LoggerTypeOK'
    BY <2>1 DEF LoggerInv, LoggerTypeOK
  <2>3. ASSUME NEW f \in LG!Logs, NEW i \in 1 .. Len(logs[f]) PROVE logs[f][i][1] <= start + 1
    <3>1. logs[f][i] \in Line /\ logs[f][i][1] <= start /\ start \in Nat
      BY DEF LoggerInv, LoggerTypeOK
    <3> QED
      BY <3>1 DEF Line
  <2>4. unflushed = << >> /\ Len(unflushed') = 0
    BY <2>1 DEF LoggerInv
  <2> QED
    BY <2>1, <2>2, <2>3, <2>4 DEF LoggerInv
<1>3. CASE LG!PowerOff
  <2>1. /\ pc' = "off" /\ unflushed' = << >> /\ Len(unflushed') = 0
        /\ UNCHANGED <<start, exists, logs, logfile, lights>>
    BY <1>3 DEF LG!PowerOff
  <2>2. LoggerTypeOK'
    BY <2>1 DEF LoggerInv, LoggerTypeOK
  <2> QED
    BY <2>1, <2>2 DEF LoggerInv
<1>4. CASE LG!Press \/ LG!StartService \/ LG!WaitForFix
  <2>1. lights' \in PanelOf
    <3>1. lights \in PanelOf
      BY DEF LoggerInv, LoggerTypeOK
    <3>2. CASE LG!Press
      BY <3>1, <3>2 DEF LG!Press, PanelOf
    <3>3. CASE LG!StartService
      BY <3>1, <3>3 DEF LG!StartService, PanelOf
    <3>4. CASE LG!WaitForFix
      BY <3>1, <3>4, WaitFacts
    <3> QED
      BY <1>4, <3>2, <3>3, <3>4
  <2> QED
    BY <1>4, <2>1, LightsStep DEF LG!Press, LG!StartService, LG!WaitForFix
<1>5. ASSUME NEW kind \in {"GGA", "RMC"}, LG!Parsed(kind) PROVE lights' \in PanelOf
  BY <1>5 DEF LG!Parsed, LoggerInv, LoggerTypeOK, PanelOf
<1>6. ASSUME NEW kind \in {"GGA", "RMC"}, LG!LogLine(kind) PROVE LoggerInv'
  <2> DEFINE t == Append(unflushed, <<start, kind>>)
  <2>1. pc = "on" /\ unflushed' = t /\ UNCHANGED <<pc, start, exists, logs, logfile>>
    BY <1>6 DEF LG!LogLine
  <2>2. lights' \in PanelOf
    BY <1>5, <1>6 DEF LG!LogLine
  <2>3. start \in Nat /\ unflushed \in Seq(Line) /\ <<start, kind>> \in Line
    BY DEF LoggerInv, LoggerTypeOK, Line
  <2>4. t \in Seq(Line) /\ \A i \in 1 .. Len(t) : t[i][1] = start
    <3>1. t \in Seq(Line) /\ Len(t) = Len(unflushed) + 1
          /\ \A i \in 1 .. Len(t) : t[i] = IF i <= Len(unflushed) THEN unflushed[i] ELSE <<start, kind>>
      BY <2>3
    <3> QED
      BY <2>3, <3>1 DEF LoggerInv
  <2> HIDE DEF t
  <2> QED
    BY <2>1, <2>2, <2>4 DEF LoggerInv, LoggerTypeOK
<1>7. ASSUME NEW kind \in {"GGA", "RMC"}, LG!ShortWrite(kind) PROVE LoggerInv'
  <2>1. pc = "on" /\ UNCHANGED <<pc, start, exists, logfile>>
    BY <1>7 DEF LG!ShortWrite
  <2>2. lights' \in PanelOf
    BY <1>5, <1>7 DEF LG!ShortWrite
  <2>3. CASE kind = "RMC"
    BY <1>7, <2>1, <2>2, <2>3, FlushFacts DEF LG!ShortWrite
  <2>4. CASE kind # "RMC"
    BY <1>7, <2>1, <2>2, <2>4, LightsStep DEF LG!ShortWrite
  <2> QED
    BY <2>3, <2>4
<1>8. CASE UNCHANGED logger
  BY <1>8 DEF logger, LoggerInv, LoggerTypeOK
<1>9. CASE LG!Idle
  <2>1. UNCHANGED logger
    BY <1>9 DEF LG!Idle, LG!vars, logger
  <2> QED
    BY <1>8, <2>1
<1> QED
  BY <1>1, <1>2, <1>3, <1>4, <1>6, <1>7, <1>8, <1>9 DEF LG!Next

LEMMA LightsKept == LoggerInv /\ LightsInv /\ [LG!Next]_logger => LightsInv'
<1> SUFFICES ASSUME LoggerInv, LightsInv, [LG!Next]_logger PROVE LightsInv'
  OBVIOUS
<1>1. lights \in PanelOf
  BY DEF LoggerInv, LoggerTypeOK
<1>2. CASE LG!Setup \/ LG!SetupFails \/ LG!PowerOff
  <2>1. CASE LG!Setup
    <3>1. lights'.told = 0 /\ lights'.lights = "OFF" /\ lights'.current_state = "ST_RESET"
      BY <2>1 DEF LG!Setup, LG!Booted
    <3> QED
      BY <3>1 DEF LightsInv
  <2>2. CASE LG!SetupFails \/ LG!PowerOff
    BY <2>2 DEF LG!SetupFails, LG!PowerOff, LightsInv
  <2> QED
    BY <1>2, <2>1, <2>2
<1>3. CASE LG!Press
  BY <1>1, <1>3 DEF LG!Press, LightsInv, PanelOf
<1>4. CASE LG!StartService
  BY <1>1, <1>4 DEF LG!StartService, LightsInv, PanelOf
<1>5. CASE LG!WaitForFix
  <2>1. /\ pc = "on" /\ pc' = "on" /\ lights.current_state = "ST_RESET"
        /\ \/ /\ lights'.current_state = "ST_RACE" /\ lights'.lights = "blinks GREEN"
              /\ lights'.told = lights.told + 1
           \/ /\ lights'.current_state = "ST_RESET" /\ lights'.told = lights.told
              /\ lights'.lights \in {"blinks RED", "blinks YELLOW"}
    BY <1>1, <1>5, WaitFacts
  <2>2. lights.told = 0
    BY <2>1 DEF LightsInv
  <2>3. CASE lights'.lights = "blinks GREEN"
    <3>1. lights'.current_state = "ST_RACE" /\ lights'.told = lights.told + 1
      BY <2>1, <2>3
    <3>2. lights'.told = 1
      BY <2>2, <3>1
    <3> QED
      BY <2>3, <3>1, <3>2 DEF LightsInv
  <2>4. CASE lights'.lights # "blinks GREEN"
    BY <2>1, <2>2, <2>4 DEF LightsInv
  <2> QED
    BY <2>3, <2>4
<1>6. ASSUME NEW kind \in {"GGA", "RMC"}, LG!LogLine(kind) \/ LG!ShortWrite(kind) PROVE LightsInv'
  <2>1. pc' = pc /\ LG!Parsed(kind)
    BY <1>6 DEF LG!LogLine, LG!ShortWrite
  <2>2. /\ lights'.told = lights.told /\ lights'.lights = lights.lights
        /\ lights'.current_state = lights.current_state
    BY <1>1, <2>1 DEF LG!Parsed, PanelOf
  <2> QED
    BY <2>1, <2>2 DEF LightsInv
<1>7. CASE UNCHANGED logger \/ LG!Idle
  BY <1>7 DEF logger, LG!Idle, LG!vars, LightsInv
<1> QED
  BY <1>2, <1>3, <1>4, <1>5, <1>6, <1>7 DEF LG!Next

\* A sequence is a prefix of itself with something after it.
LEMMA PrefixFacts ==
  ASSUME NEW s \in Seq(Line), NEW t \in Seq(Line)
  PROVE  LG!IsPrefix(s, s \o t) /\ LG!IsPrefix(s, s)
<1>1. /\ s \o t \in Seq(Line) /\ Len(s) \in Nat /\ Len(s) <= Len(s \o t)
      /\ \A i \in 1 .. Len(s) : (s \o t)[i] = s[i]
  BY SMT
<1>2. SubSeq(s, 1, Len(s)) = SubSeq(s \o t, 1, Len(s))
  <2> DEFINE u == s \o t
  <2> HIDE DEF u
  <2>1. u \in Seq(Line) /\ Len(s) <= Len(u) /\ \A i \in 1 .. Len(s) : u[i] = s[i]
    BY <1>1 DEF u
  <2>2. SubSeq(s, 1, Len(s)) = [i \in 1 .. Len(s) |-> s[i]]
    BY SMT
  <2>3. SubSeq(u, 1, Len(s)) = [i \in 1 .. Len(s) |-> u[i]]
    BY <2>1
  <2>4. SubSeq(s, 1, Len(s)) = SubSeq(u, 1, Len(s))
    BY <2>1, <2>2, <2>3
  <2> QED
    BY <2>4 DEF u
<1> QED
  BY <1>1, <1>2 DEF LG!IsPrefix

\* No step takes a line off the card.
LEMMA LogsGrow == LoggerInv /\ [LG!Next]_logger => LG!LogsOnlyGrowStep
<1> SUFFICES ASSUME LoggerInv, [LG!Next]_logger, NEW f \in LG!Logs PROVE LG!IsPrefix(logs[f], logs'[f])
  BY DEF LG!LogsOnlyGrowStep
<1>1. logs[f] \in Seq(Line) /\ unflushed \in Seq(Line)
  BY DEF LoggerInv, LoggerTypeOK
<1>2. logs' = logs \/ LG!Flush
  BY DEF LG!Next, LG!Setup, LG!SetupFails, LG!PowerOff, LG!Idle, LG!Press, LG!StartService,
         LG!WaitForFix, LG!LogLine, LG!ShortWrite, LG!Open, LG!vars, logger
<1>3. logs'[f] = logs[f] \/ logs'[f] = logs[f] \o unflushed
  BY <1>2 DEF LG!Flush, LoggerInv, LoggerTypeOK
<1> QED
  BY <1>1, <1>3, PrefixFacts

\* The invariant gives the properties of the logs and of the lights.
LEMMA LoggerSafe == LoggerInv /\ LightsInv => LG!OneStartPerLog /\ LG!GreenIsTold
<1> SUFFICES ASSUME LoggerInv, LightsInv PROVE LG!OneStartPerLog
  BY DEF LightsInv, LG!GreenIsTold
<1>1. \A f \in LG!Logs : DOMAIN logs[f] = 1 .. Len(logs[f])
  BY DEF LoggerInv, LoggerTypeOK
<1> QED
  BY <1>1 DEF LoggerInv, LG!OneStartPerLog, LG!Starts
-----------------------------------------------------------------------------
(* The gates in the EEPROM                                                 *)

\* The bytes of all gates of a course.
Total(c) == 4 * DoubleSize * Len(c)

LEMMA TotalFacts == ASSUME NEW c \in Seq(Gates) PROVE Total(c) \in Nat
<1>1. \A d, l \in Nat : 4 * d * l \in Nat
  OBVIOUS
<1>2. DoubleSize \in Nat /\ Len(c) \in Nat
  BY StoreAssumption
<1> QED
  BY <1>1, <1>2 DEF Total

\* One sequence after another.
LEMMA ConcatFacts ==
  ASSUME NEW n \in Nat, NEW m \in Nat, NEW f, NEW g,
         f = [i \in 1 .. n |-> f[i]], g = [i \in 1 .. m |-> g[i]]
  PROVE  f \o g = [i \in 1 .. n + m |-> IF i <= n THEN f[i] ELSE g[i - n]]
<1> DEFINE S == {f[i] : i \in 1 .. n} \cup {g[i] : i \in 1 .. m}
<1>1. f \in [1 .. n -> S] /\ g \in [1 .. m -> S]
  <2>1. \A i \in 1 .. n : f[i] \in S
    OBVIOUS
  <2>2. \A i \in 1 .. m : g[i] \in S
    OBVIOUS
  <2> HIDE DEF S
  <2> QED
    BY <2>1, <2>2
<1> HIDE DEF S
<1>2. f \in Seq(S) /\ g \in Seq(S) /\ Len(f) = n /\ Len(g) = m
  <2>1. f \in Seq(S) /\ g \in Seq(S)
    BY <1>1, IsASeq
  <2>2. DOMAIN f = 1 .. n /\ DOMAIN g = 1 .. m
    BY <1>1
  <2> QED
    BY <2>1, <2>2, LenProperties
<1>3. /\ f \o g \in Seq(S) /\ Len(f \o g) = n + m
      /\ \A i \in 1 .. n + m : (f \o g)[i] = IF i <= n THEN f[i] ELSE g[i - n]
  BY <1>2, ConcatProperties
<1>4. DOMAIN (f \o g) = 1 .. n + m /\ f \o g = [i \in DOMAIN (f \o g) |-> (f \o g)[i]]
  BY <1>3, LenProperties
<1> QED
  BY <1>3, <1>4

\* What storeWaypoints writes, in order: the marker, the count, the gates.
LEMMA WritesFacts ==
  ASSUME NEW c \in Seq(Gates)
  PROVE  LET w == WS!CourseWrites(c)
             m == IntSize
         IN  /\ w = [i \in 1 .. m + m + Total(c) |-> w[i]]
             /\ \A i \in 1 .. m : w[i] = <<i - 1, IF i = 1 THEN WS!Marker ELSE WS!Zero>>
             /\ \A i \in 1 .. m : w[m + i] = <<i, WS!IntBytes(Len(c))[i]>>
             /\ \A i \in 1 .. Total(c) : w[m + m + i] = <<1 + i, WS!GateByte(c, i - 1)>>
<1> DEFINE m == IntSize
           t == Total(c)
           z == [i \in 1 .. m - 1 |-> WS!Zero]
           o == <<WS!Marker>>
           b == o \o z
           f == WS!MarkerWrite
           g == WS!WriteAnything(1, WS!IntBytes(Len(c)))
           h == WS!GateWrites(c)
           w == WS!CourseWrites(c)
<1>1. m \in Nat \ {0} /\ t \in Nat /\ m - 1 \in Nat
  BY StoreAssumption, TotalFacts
<1>2. t = 4 * DoubleSize * Len(c)
  BY DEF Total
<1>3. w = f \o g \o h
  BY DEF WS!CourseWrites
<1>4. f = WS!WriteAnything(0, b)
  BY DEF WS!MarkerWrite
<1>5. g = [i \in 1 .. m |-> <<i, WS!IntBytes(Len(c))[i]>>]
  <2>1. DOMAIN WS!IntBytes(Len(c)) = 1 .. m
    BY DEF WS!IntBytes
  <2>2. \A i \in 1 .. m : 1 + i - 1 = i
    BY <1>1
  <2>3. g = [i \in 1 .. m |-> <<1 + i - 1, WS!IntBytes(Len(c))[i]>>]
    BY <2>1 DEF WS!WriteAnything
  <2> QED
    BY <2>2, <2>3
<1>6. h = [i \in 1 .. t |-> <<1 + i, WS!GateByte(c, i - 1)>>]
  <2>1. h = [i \in 1 .. t |-> <<2 + i - 1, WS!GateByte(c, i - 1)>>]
    BY <1>2 DEF WS!GateWrites, WS!WriteAnything
  <2>2. \A i \in 1 .. t : 2 + i - 1 = 1 + i
    BY <1>1
  <2> QED
    BY <2>1, <2>2
<1> HIDE DEF t, g, h, w
<1>7. b = [i \in 1 .. m |-> IF i = 1 THEN WS!Marker ELSE WS!Zero]
  <2>1. o = [i \in 1 .. 1 |-> o[i]] /\ z = [i \in 1 .. m - 1 |-> z[i]] /\ o[1] = WS!Marker
    OBVIOUS
  <2>2. \A i \in 1 .. m - 1 : z[i] = WS!Zero
    OBVIOUS
  <2> HIDE DEF o, z, m
  <2>3. o \o z = [i \in 1 .. 1 + (m - 1) |-> IF i <= 1 THEN o[i] ELSE z[i - 1]]
    BY <1>1, <2>1, ConcatFacts
  <2>4. 1 + (m - 1) = m
    BY <1>1
  <2>5. \A i \in 1 .. m : (IF i <= 1 THEN o[i] ELSE z[i - 1]) = IF i = 1 THEN WS!Marker ELSE WS!Zero
    BY <1>1, <2>1, <2>2
  <2> QED
    BY <2>3, <2>4, <2>5
<1> HIDE DEF b
<1>8. f = [i \in 1 .. m |-> <<i - 1, IF i = 1 THEN WS!Marker ELSE WS!Zero>>]
  <2>1. DOMAIN b = 1 .. m /\ \A i \in 1 .. m : 0 + i - 1 = i - 1
    BY <1>1, <1>7
  <2>2. f = [i \in 1 .. m |-> <<0 + i - 1, b[i]>>]
    BY <1>4, <2>1 DEF WS!WriteAnything
  <2> QED
    BY <1>7, <2>1, <2>2
<1> HIDE DEF f, m
<1>9. f \o g = [i \in 1 .. m + m |-> IF i <= m THEN f[i] ELSE g[i - m]]
  BY <1>1, <1>5, <1>8, ConcatFacts
<1> DEFINE fg == f \o g
<1> HIDE DEF fg
<1>10. fg \o h = [i \in 1 .. m + m + t |-> IF i <= m + m THEN fg[i] ELSE h[i - (m + m)]]
  <2>1. m + m \in Nat /\ fg = [i \in 1 .. m + m |-> fg[i]]
    BY <1>1, <1>9 DEF fg
  <2> DEFINE n == m + m
  <2> HIDE DEF n
  <2>2. n \in Nat /\ fg = [i \in 1 .. n |-> fg[i]] /\ h = [i \in 1 .. t |-> h[i]]
    BY <1>6, <2>1 DEF n
  <2>3. fg \o h = [i \in 1 .. n + t |-> IF i <= n THEN fg[i] ELSE h[i - n]]
    BY <1>1, <2>2, ConcatFacts
  <2> QED
    BY <2>3 DEF n
<1>11. w = [i \in 1 .. m + m + t |-> IF i <= m + m THEN fg[i] ELSE h[i - (m + m)]]
  BY <1>3, <1>10 DEF fg
<1>12. \A i \in 1 .. m : w[i] = f[i]
  BY <1>1, <1>9, <1>11 DEF fg
<1>13. \A i \in 1 .. m : w[m + i] = g[i]
  <2> SUFFICES ASSUME NEW i \in 1 .. m PROVE w[m + i] = g[i]
    OBVIOUS
  <2> DEFINE x == m + i
  <2>1. x \in 1 .. m + m /\ x \in 1 .. m + m + t /\ x <= m + m /\ ~(x <= m) /\ x - m = i
    BY <1>1
  <2> HIDE DEF x
  <2>2. w[x] = fg[x] /\ fg[x] = g[i]
    BY <1>9, <1>11, <2>1 DEF fg
  <2> QED
    BY <2>2 DEF x
<1>14. \A i \in 1 .. t : w[m + m + i] = h[i]
  <2> SUFFICES ASSUME NEW i \in 1 .. t PROVE w[m + m + i] = h[i]
    OBVIOUS
  <2> DEFINE x == m + m + i
  <2>1. x \in 1 .. m + m + t /\ ~(x <= m + m) /\ x - (m + m) = i
    BY <1>1
  <2> HIDE DEF x
  <2>2. w[x] = h[i]
    BY <1>11, <2>1
  <2> QED
    BY <2>2 DEF x
<1>15. w = [i \in 1 .. m + m + t |-> w[i]]
  BY <1>11
<1>16. /\ \A i \in 1 .. m : w[i] = <<i - 1, IF i = 1 THEN WS!Marker ELSE WS!Zero>>
       /\ \A i \in 1 .. m : w[m + i] = <<i, WS!IntBytes(Len(c))[i]>>
       /\ \A i \in 1 .. t : w[m + m + i] = <<1 + i, WS!GateByte(c, i - 1)>>
  BY <1>5, <1>6, <1>8, <1>12, <1>13, <1>14
<1> QED
  BY <1>15, <1>16 DEF m, t, w

\* Byte a of a device that held old, after the first n bytes of a course were written: the
\* gates are written over the count, and the count over the zeros of the marker.
Written(c, old, n, a) ==
  IF 2 <= a /\ a <= Total(c) + 1 /\ IntSize + IntSize + (a - 1) <= n THEN WS!GateByte(c, a - 2)
  ELSE IF 1 <= a /\ a <= IntSize /\ IntSize + a <= n THEN WS!IntBytes(Len(c))[a]
  ELSE IF a <= IntSize - 1 /\ a + 1 <= n THEN IF a = 0 THEN WS!Marker ELSE WS!Zero
  ELSE old[a]

\* One more byte is written.
LEMMA WrittenStep ==
  ASSUME NEW c \in Seq(Gates), NEW old, NEW n \in Nat, NEW a \in WS!Addresses,
         n < IntSize + IntSize + Total(c)
  PROVE  LET w == WS!CourseWrites(c)[n + 1]
         IN  Written(c, old, n + 1, a) = IF a = w[1] THEN w[2] ELSE Written(c, old, n, a)
<1> DEFINE m == IntSize
           t == Total(c)
           w == WS!CourseWrites(c)
           zero(x) == IF x = 0 THEN WS!Marker ELSE WS!Zero
           head(x) == WS!IntBytes(Len(c))[x]
           gate(x) == WS!GateByte(c, x - 2)
           o(x) == old[x]
<1>1. m \in Nat \ {0} /\ t \in Nat /\ a \in Nat
  <2>1. \A d, l \in Nat : 4 * d * l \in Nat
    OBVIOUS
  <2> QED
    BY <2>1, StoreAssumption, TotalFacts DEF WS!Addresses
<1>2. /\ \A i \in 1 .. m : w[i] = <<i - 1, IF i = 1 THEN WS!Marker ELSE WS!Zero>>
      /\ \A i \in 1 .. m : w[m + i] = <<i, WS!IntBytes(Len(c))[i]>>
      /\ \A i \in 1 .. t : w[m + m + i] = <<1 + i, WS!GateByte(c, i - 1)>>
  BY WritesFacts
<1>3. \A x \in Nat : Written(c, old, x, a) =
        IF 2 <= a /\ a <= t + 1 /\ m + m + (a - 1) <= x THEN gate(a)
        ELSE IF 1 <= a /\ a <= m /\ m + a <= x THEN head(a)
        ELSE IF a <= m - 1 /\ a + 1 <= x THEN zero(a)
        ELSE o(a)
  BY DEF Written
<1>4. n + 1 \in Nat
  OBVIOUS
<1>5. CASE n < m
  <2>1. w[n + 1] = <<n, zero(n)>>
    <3>1. n + 1 \in 1 .. m /\ n + 1 - 1 = n /\ (n + 1 = 1 <=> n = 0)
      BY <1>1, <1>5
    <3> QED
      BY <1>2, <3>1
  <2> HIDE DEF w, zero, head, gate, o, m, t
  <2>2. Written(c, old, n + 1, a) = IF a = n THEN zero(a) ELSE Written(c, old, n, a)
    <3>1. CASE a = n
      BY <1>1, <1>3, <1>4, <1>5, <3>1
    <3>2. CASE a # n
      BY <1>1, <1>3, <1>4, <1>5, <3>2
    <3> QED
      BY <3>1, <3>2
  <2>3. w[n + 1][1] = n /\ w[n + 1][2] = zero(n)
    BY <2>1
  <2> QED
    BY <2>2, <2>3 DEF w
<1>6. CASE m <= n /\ n < m + m
  <2> DEFINE i == n + 1 - m
  <2>1. w[n + 1] = <<i, head(i)>>
    <3>1. i \in 1 .. m /\ m + i = n + 1
      BY <1>1, <1>6
    <3> HIDE DEF i, w
    <3>2. w[m + i] = <<i, WS!IntBytes(Len(c))[i]>>
      BY <1>2, <3>1
    <3> QED
      BY <3>1, <3>2
  <2> HIDE DEF w, zero, head, gate, o, m, t
  <2>2. Written(c, old, n + 1, a) = IF a = i THEN head(a) ELSE Written(c, old, n, a)
    <3>1. CASE a = i
      BY <1>1, <1>3, <1>4, <1>6, <3>1
    <3>2. CASE a # i
      BY <1>1, <1>3, <1>4, <1>6, <3>2
    <3> QED
      BY <3>1, <3>2
  <2>3. w[n + 1][1] = i /\ w[n + 1][2] = head(i)
    BY <2>1
  <2> HIDE DEF i
  <2> QED
    BY <2>2, <2>3 DEF w
<1>7. CASE m + m <= n
  <2> DEFINE i == n + 1 - (m + m)
             e == i + 1
  <2>1. w[n + 1] = <<e, gate(e)>>
    <3>1. i \in 1 .. t /\ m + m + i = n + 1 /\ 1 + i = e /\ i - 1 = e - 2
      BY <1>1, <1>7
    <3> HIDE DEF i, w, e
    <3>2. w[m + m + i] = <<1 + i, WS!GateByte(c, i - 1)>>
      BY <1>2, <3>1
    <3> QED
      BY <3>1, <3>2
  <2> HIDE DEF w, zero, head, gate, o, m, t
  <2>2. Written(c, old, n + 1, a) = IF a = e THEN gate(a) ELSE Written(c, old, n, a)
    <3>1. CASE a = e
      BY <1>1, <1>3, <1>4, <1>7, <3>1 DEF m, t
    <3>2. CASE a # e
      BY <1>1, <1>3, <1>4, <1>7, <3>2
    <3> QED
      BY <3>1, <3>2
  <2>3. w[n + 1][1] = e /\ w[n + 1][2] = gate(e)
    BY <2>1
  <2> HIDE DEF e
  <2> QED
    BY <2>2, <2>3 DEF w
<1> QED
  BY <1>1, <1>5, <1>6, <1>7

\* The first two bytes of a device are erased, or the marker and the count of a course.
HeaderOf(mem) ==
  /\ mem[0] \in {WS!Marker, WS!Blank}
  /\ mem[0] # WS!Marker => mem[1] = WS!Blank
  /\ mem[1][1] \in Nat /\ mem[1][1] < ByteMod

Whole(mem) == mem = [a \in WS!Addresses |-> mem[a]]

\* The first bytes after a part of a course was written.
LEMMA HeaderFacts ==
  ASSUME NEW c \in Seq(Gates), NEW old, HeaderOf(old), NEW n \in Nat, NEW mem,
         mem[0] = Written(c, old, n, 0), mem[1] = Written(c, old, n, 1)
  PROVE  /\ HeaderOf(mem)
         /\ n = 0 => mem[0] = old[0] /\ mem[1] = old[1]
         /\ n > 0 => /\ mem[0] = WS!Marker
                     /\ mem[1] \in {old[1], WS!Zero, <<Len(c) % ByteMod>>}
         /\ n > IntSize => mem[1] = <<Len(c) % ByteMod>>
<1> DEFINE r == Len(c) % ByteMod
<1>1. IntSize \in Nat \ {0} /\ ByteMod \in Nat \ {0} /\ r \in Nat /\ r < ByteMod
  BY StoreAssumption
<1>2. WS!IntBytes(Len(c))[1] = <<r>>
  BY <1>1 DEF WS!IntBytes
<1> HIDE DEF r
<1>3. mem[0] = IF 1 <= n THEN IF 0 <= IntSize - 1 THEN WS!Marker ELSE old[0] ELSE old[0]
  BY <1>1 DEF Written
<1>4. mem[0] = IF n = 0 THEN old[0] ELSE WS!Marker
  BY <1>1, <1>3
<1>5. mem[1] = IF IntSize + 1 <= n THEN <<r>> ELSE IF 1 <= IntSize - 1 /\ 2 <= n THEN WS!Zero ELSE old[1]
  BY <1>1, <1>2 DEF Written
<1>6. mem[1] \in {old[1], WS!Zero, <<r>>} /\ (n > IntSize => mem[1] = <<r>>)
      /\ (n = 0 => mem[1] = old[1])
  BY <1>1, <1>5
<1>7. mem[1][1] \in Nat /\ mem[1][1] < ByteMod
  <2>1. WS!Zero[1] = 0 /\ <<r>>[1] = r
    BY DEF WS!Zero
  <2>2. CASE mem[1] = old[1]
    BY <2>2 DEF HeaderOf
  <2>3. CASE mem[1] = WS!Zero
    BY <1>1, <2>1, <2>3
  <2>4. CASE mem[1] = <<r>>
    BY <1>1, <2>1, <2>4
  <2> QED
    BY <1>6, <2>2, <2>3, <2>4
<1>8. HeaderOf(mem)
  BY <1>4, <1>6, <1>7 DEF HeaderOf
<1> QED
  BY <1>4, <1>6, <1>8 DEF r

\* Where byte j of coordinate k of gate i is.
Place(i, k, j) == 2 + (4 * i + k) * DoubleSize + j - 1

LEMMA PlaceFacts ==
  ASSUME NEW i \in Nat, NEW k \in 0 .. 3, NEW j \in 1 .. DoubleSize, NEW c \in Seq(Gates)
  PROVE  /\ Place(i, k, j) \in Nat /\ Place(i, 0, 1) \in Nat
         /\ 2 <= Place(i, 0, 1) /\ Place(i, 0, 1) <= Place(i, k, j)
         /\ i < Len(c) => /\ Place(i, k, j) <= Total(c) + 1
                          /\ WS!GateByte(c, Place(i, k, j) - 2) = <<c[i + 1], k, j>>
         /\ i >= Len(c) => Place(i, 0, 1) >= Total(c) + 2
<1> DEFINE d == DoubleSize
           l == Len(c)
           n == 4 * i + k
           b == n * d
           p == b + j - 1
<1>1. d \in Nat \ {0} /\ l \in Nat /\ n \in Nat /\ k \in 0 .. 3 /\ j \in 1 .. d /\ n = 4 * i + k
  BY StoreAssumption
<1>2. Total(c) = 4 * d * l
  BY DEF Total
<1>3. Place(i, k, j) = 2 + b + j - 1
  BY DEF Place
<1>4. Place(i, 0, 1) = 2 + (4 * i + 0) * d + 1 - 1
  BY DEF Place
<1>5. d \in Nat
  BY <1>1
<1> HIDE DEF d, l, n
<1>6. \A x, y, z \in Nat : x * y \in Nat /\ (x + y) * z = x * z + y * z /\ 4 * y * x = (4 * x) * y
  OBVIOUS
<1>7. b \in Nat /\ b = (4 * i) * d + k * d /\ k * d \in Nat /\ (4 * i) * d \in Nat
  <2>1. 4 * i \in Nat /\ k \in Nat
    BY <1>1
  <2>2. (4 * i + k) * d = (4 * i) * d + k * d
    BY <1>5, <1>6, <2>1
  <2> QED
    BY <1>1, <1>5, <1>6, <2>1, <2>2
<1>8. Place(i, 0, 1) = 2 + (4 * i) * d
  <2>1. 4 * i + 0 = 4 * i
    OBVIOUS
  <2> QED
    BY <1>4, <1>7, <2>1
<1>9. p \in Nat /\ Place(i, k, j) = p + 2 /\ p - b = j - 1 /\ b <= p /\ p < b + d
  BY <1>1, <1>3, <1>7
<1>10. ASSUME i < l
       PROVE  (4 * i) * d + 4 * d <= (4 * l) * d /\ k * d <= 3 * d
  <2>1. \A x, y, z \in Nat : x <= y => x * z <= y * z
    OBVIOUS
  <2>2. 4 * i + 4 \in Nat /\ 4 * l \in Nat /\ 4 * i + 4 <= 4 * l /\ 4 * i \in Nat
    BY <1>1, <1>10
  <2>3. (4 * i + 4) * d <= (4 * l) * d
    BY <1>5, <2>1, <2>2
  <2>4. (4 * i + 4) * d = (4 * i) * d + 4 * d
    BY <1>5, <1>6, <2>2
  <2>5. k * d <= 3 * d
    BY <1>1, <1>5, <2>1
  <2> QED
    BY <2>3, <2>4, <2>5
<1>11. ASSUME i < l PROVE Place(i, k, j) <= Total(c) + 1
  <2>1. Total(c) = (4 * l) * d
    BY <1>1, <1>2, <1>5, <1>6
  <2>2. 4 * d = 3 * d + d /\ 3 * d \in Nat
    BY <1>5
  <2>3. (4 * l) * d \in Nat
    BY <1>1, <1>5
  <2> DEFINE u == (4 * i) * d
             v == k * d
             w == (4 * l) * d
             e == 3 * d
             pl == Place(i, k, j)
             bb == b
  <2>4. /\ u \in Nat /\ v \in Nat /\ w \in Nat /\ e \in Nat /\ d \in Nat
        /\ bb = u + v /\ bb <= p /\ p < bb + d /\ pl = p + 2 /\ p \in Nat /\ bb \in Nat
        /\ u + (e + d) <= w /\ v <= e /\ Total(c) = w
    BY <1>5, <1>7, <1>9, <1>10, <1>11, <2>1, <2>2, <2>3
  <2> HIDE DEF u, v, w, e, pl, bb, p
  <2>5. pl <= Total(c) + 1
    BY <2>4
  <2> QED
    BY <2>5 DEF pl
<1>12. ASSUME i < l PROVE WS!GateByte(c, p) = <<c[i + 1], k, j>>
  <2> HIDE DEF b, p
  <2>1. p \div d = n
    <3>1. n * d <= p /\ p < n * d + d
      BY <1>9 DEF b
    <3> QED
      BY <1>1, <1>9, <3>1, QuotientFacts
  <2>2. p % d = j - 1
    <3> DEFINE q == p \div d
               r == p % d
    <3>1. r \in Int /\ p = d * q + r
      BY <1>1, <1>9
    <3> HIDE DEF r, q
    <3>2. d * q = b
      BY <1>1, <1>5, <2>1 DEF b, q
    <3>3. p - b = r
      BY <1>7, <1>9, <3>1, <3>2
    <3> QED
      BY <1>9, <3>3 DEF r
  <2>3. n \div 4 = i /\ n % 4 = k
    BY <1>1
  <2>4. (j - 1) + 1 = j
    BY <1>1
  <2> QED
    BY <2>1, <2>2, <2>3, <2>4 DEF WS!GateByte, d
<1>13. ASSUME i >= l PROVE Place(i, 0, 1) >= Total(c) + 2
  <2>1. \A x, y, z \in Nat : x <= y => x * z <= y * z
    OBVIOUS
  <2>2. 4 * i \in Nat /\ 4 * l \in Nat /\ 4 * l <= 4 * i
    BY <1>1, <1>13
  <2>3. (4 * l) * d <= (4 * i) * d
    BY <1>5, <2>1, <2>2
  <2>4. Total(c) = (4 * l) * d /\ (4 * l) * d \in Nat
    BY <1>1, <1>2, <1>5, <1>6
  <2> QED
    BY <1>7, <1>8, <2>3, <2>4
<1>14. p = Place(i, k, j) - 2 /\ Place(i, k, j) \in Nat
  BY <1>9
<1>15. 2 <= Place(i, 0, 1) /\ Place(i, 0, 1) <= Place(i, k, j) /\ Place(i, 0, 1) \in Nat
  <2> DEFINE u == (4 * i) * d
             v == k * d
             pl == Place(i, k, j)
             p0 == Place(i, 0, 1)
             bb == b
  <2>1. /\ u \in Nat /\ v \in Nat /\ bb \in Nat /\ p \in Nat
        /\ bb = u + v /\ bb <= p /\ pl = p + 2 /\ p0 = 2 + u
    BY <1>7, <1>8, <1>9
  <2> HIDE DEF u, v, pl, p0, bb, p
  <2>2. 2 <= p0 /\ p0 <= pl /\ p0 \in Nat
    BY <2>1
  <2> QED
    BY <2>2 DEF p0, pl
<1> HIDE DEF p
<1> QED
  BY <1>11, <1>12, <1>13, <1>14, <1>15 DEF l

\* All bytes of a gate of the given name are at place i.
Stands(mem, i, g) ==
  \A k \in 0 .. 3, j \in 1 .. DoubleSize :
    Place(i, k, j) \in DOMAIN mem /\ mem[Place(i, k, j)] = <<g, k, j>>

LEMMA GateAtFacts ==
  ASSUME NEW mem, NEW i \in Nat
  PROVE  /\ \A g \in Gates : Stands(mem, i, g) => WS!GateAt(mem, i) = g
         /\ WS!GateAt(mem, i) # "mixed" =>
              WS!GateAt(mem, i) \in Gates /\ Stands(mem, i, WS!GateAt(mem, i))
<1>1. WS!GateAt(mem, i) = IF \E g \in Gates : Stands(mem, i, g)
                          THEN CHOOSE g \in Gates : Stands(mem, i, g) ELSE "mixed"
  BY DEF WS!GateAt, Stands, Place
<1>2. ASSUME NEW g \in Gates, NEW h \in Gates, Stands(mem, i, g), Stands(mem, i, h) PROVE g = h
  <2>1. 0 \in 0 .. 3 /\ 1 \in 1 .. DoubleSize
    BY StoreAssumption
  <2>2. <<g, 0, 1>> = <<h, 0, 1>>
    BY <1>2, <2>1 DEF Stands
  <2> QED
    BY <2>2
<1>3. ASSUME NEW g \in Gates, Stands(mem, i, g)
      PROVE  LET h == CHOOSE h \in Gates : Stands(mem, i, h) IN h \in Gates /\ Stands(mem, i, h)
  BY <1>3, Zenon
<1>4. ASSUME NEW g \in Gates, Stands(mem, i, g) PROVE WS!GateAt(mem, i) = g
  <2> DEFINE h == CHOOSE h \in Gates : Stands(mem, i, h)
  <2>1. h \in Gates /\ Stands(mem, i, h)
    BY <1>3, <1>4, Zenon
  <2>2. WS!GateAt(mem, i) = h
    BY <1>1, <1>4
  <2> HIDE DEF h
  <2> QED
    BY <1>2, <1>4, <2>1, <2>2
<1>5. ASSUME WS!GateAt(mem, i) # "mixed"
      PROVE  WS!GateAt(mem, i) \in Gates /\ Stands(mem, i, WS!GateAt(mem, i))
  <2>1. PICK g \in Gates : Stands(mem, i, g)
    BY <1>1, <1>5
  <2> QED
    BY <1>4, <2>1
<1> QED
  BY <1>4, <1>5

\* A whole gate on a device after a part of a course was written is the course's, or one
\* that stood there before; and after all of it was, the course's gates stand.
LEMMA GateFacts ==
  ASSUME NEW c \in Seq(Gates), NEW old, Whole(old), NEW mem, Whole(mem), NEW n \in Nat,
         \A a \in WS!Addresses : mem[a] = Written(c, old, n, a),
         NEW i \in Nat
  PROVE  /\ WS!GateAt(mem, i) # "mixed" =>
              \/ i < Len(c) /\ WS!GateAt(mem, i) = c[i + 1]
              \/ WS!GateAt(mem, i) = WS!GateAt(old, i)
         /\ i < Len(c) /\ Len(c) <= MaxGates /\ n >= IntSize + IntSize + Total(c) =>
              WS!GateAt(mem, i) = c[i + 1]
<1> DEFINE m == IntSize
           t == Total(c)
           g == WS!GateAt(mem, i)
           P(k, j) == Place(i, k, j)
<1>1. m \in Nat \ {0} /\ t \in Nat
  BY StoreAssumption, TotalFacts
<1>2. 0 \in 0 .. 3 /\ 1 \in 1 .. DoubleSize
  BY StoreAssumption
<1>3. DOMAIN mem = WS!Addresses /\ DOMAIN old = WS!Addresses
  BY DEF Whole
<1>4. ASSUME g # "mixed", ~(i < Len(c) /\ g = c[i + 1]) PROVE g = WS!GateAt(old, i)
  <2>1. g \in Gates /\ Stands(mem, i, g)
    BY <1>4, GateAtFacts
  <2> HIDE DEF g
  <2>2. ~(i < Len(c) /\ m + m + (P(0, 1) - 1) <= n)
    <3> SUFFICES ASSUME i < Len(c), m + m + (P(0, 1) - 1) <= n PROVE FALSE
      OBVIOUS
    <3>1. /\ P(0, 1) \in WS!Addresses /\ mem[P(0, 1)] = <<g, 0, 1>>
      BY <1>2, <1>3, <2>1 DEF Stands
    <3>2. /\ 2 <= P(0, 1) /\ P(0, 1) <= t + 1
          /\ WS!GateByte(c, P(0, 1) - 2) = <<c[i + 1], 0, 1>>
      BY <1>2, PlaceFacts
    <3>3. mem[P(0, 1)] = <<c[i + 1], 0, 1>>
      BY <3>1, <3>2 DEF Written
    <3>4. g = c[i + 1]
      BY <3>1, <3>3
    <3> QED
      BY <1>4, <3>4
  <2>3. ASSUME NEW k \in 0 .. 3, NEW j \in 1 .. DoubleSize
        PROVE  P(k, j) \in DOMAIN old /\ old[P(k, j)] = <<g, k, j>>
    <3> DEFINE a == P(k, j)
               f == P(0, 1)
    <3>1. a \in WS!Addresses /\ mem[a] = <<g, k, j>> /\ mem[a] = Written(c, old, n, a)
      BY <1>3, <2>1 DEF Stands
    <3>2. a \in Nat /\ f \in Nat /\ 2 <= f /\ f <= a /\ (i >= Len(c) => f >= t + 2)
      BY PlaceFacts
    <3>3. (i < Len(c)) \/ i >= Len(c)
      OBVIOUS
    <3>4. ~(2 <= a /\ a <= t + 1 /\ m + m + (a - 1) <= n)
      <4> HIDE DEF a, f, m, t
      <4>1. ~(i < Len(c) /\ m + m + (f - 1) <= n)
        BY <2>2 DEF f
      <4> QED
        BY <1>1, <3>2, <3>3, <4>1
    <3>5. CASE 1 <= a /\ a <= m /\ m + a <= n
      <4>1. mem[a] = WS!IntBytes(Len(c))[a]
        BY <3>1, <3>4, <3>5 DEF Written
      <4>2. \E x : WS!IntBytes(Len(c))[a] = <<x>>
        <5>1. a \in 1 .. IntSize
          BY <3>2, <3>5
        <5> QED
          BY <5>1 DEF WS!IntBytes, WS!Zero
      <4>3. PICK x : <<x>> = <<g, k, j>>
        BY <3>1, <4>1, <4>2
      <4> QED
        BY <4>3
    <3>6. CASE ~(1 <= a /\ a <= m /\ m + a <= n) /\ a <= m - 1 /\ a + 1 <= n
      <4>3. a # 0
        <5> HIDE DEF a, f
        <5> QED
          BY <3>2
      <4>4. Written(c, old, n, a) = IF a = 0 THEN WS!Marker ELSE WS!Zero
        <5> HIDE DEF a
        <5> QED
          BY <3>4, <3>6 DEF Written
      <4>1. mem[a] = WS!Zero
        BY <3>1, <4>3, <4>4
      <4>2. <<0>> = <<g, k, j>>
        BY <3>1, <4>1 DEF WS!Zero
      <4> QED
        BY <4>2
    <3>7. CASE ~(1 <= a /\ a <= m /\ m + a <= n) /\ ~(a <= m - 1 /\ a + 1 <= n)
      BY <1>3, <3>1, <3>4, <3>7 DEF Written
    <3> QED
      BY <3>5, <3>6, <3>7
  <2>4. Stands(old, i, g)
    BY <2>3 DEF Stands
  <2> QED
    BY <2>1, <2>4, GateAtFacts
<1>5. ASSUME i < Len(c), Len(c) <= MaxGates, n >= m + m + t PROVE WS!GateAt(mem, i) = c[i + 1]
  <2>1. ASSUME NEW k \in 0 .. 3, NEW j \in 1 .. DoubleSize
        PROVE  P(k, j) \in DOMAIN mem /\ mem[P(k, j)] = <<c[i + 1], k, j>>
    <3> DEFINE a == P(k, j)
    <3>1. /\ a \in Nat /\ 2 <= a /\ a <= t + 1
          /\ WS!GateByte(c, a - 2) = <<c[i + 1], k, j>>
      <4>1. /\ a \in Nat /\ P(0, 1) \in Nat /\ 2 <= P(0, 1) /\ P(0, 1) <= a /\ a <= t + 1
            /\ WS!GateByte(c, a - 2) = <<c[i + 1], k, j>>
        BY <1>5, PlaceFacts
      <4> QED
        BY <4>1
    <3>2. t <= 4 * DoubleSize * MaxGates /\ 4 * DoubleSize * MaxGates \in Nat
      <4>1. \A d, x, y \in Nat : x <= y => 4 * d * x <= 4 * d * y /\ 4 * d * y \in Nat
        OBVIOUS
      <4> QED
        BY <1>5, <4>1, StoreAssumption DEF Total
    <3> HIDE DEF a, t
    <3>3. a \in WS!Addresses
      <4> DEFINE z == 4 * DoubleSize * MaxGates
      <4>1. z \in Nat /\ t <= z
        BY <3>2
      <4>2. WS!Addresses = 0 .. 1 + IntSize + z
        BY DEF WS!Addresses
      <4> HIDE DEF z
      <4> QED
        BY <1>1, <3>1, <4>1, <4>2
    <3>4. m + m + (a - 1) <= n
      BY <1>1, <1>5, <3>1
    <3>5. mem[a] = WS!GateByte(c, a - 2)
      BY <3>1, <3>3, <3>4 DEF Written, t
    <3> QED
      BY <1>3, <3>1, <3>3, <3>5 DEF a
  <2>2. c[i + 1] \in Gates
    <3>1. i + 1 \in 1 .. Len(c)
      BY <1>5
    <3> QED
      BY <3>1, ElementOfSeq
  <2>3. Stands(mem, i, c[i + 1])
    BY <2>1 DEF Stands
  <2> QED
    BY <2>2, <2>3, GateAtFacts
<1> QED
  BY <1>4, <1>5

\* The bytes that are written for a course.
Size(c) == IntSize + IntSize + Total(c)

\* The first n bytes of the last course were written over what the device held before, all of
\* them if the store was not torn; while it goes on the others are still to be written.
Stored(n) ==
  /\ \A a \in WS!Addresses : eeprom[a] = Written(course, before, n, a)
  /\ power # "storing" /\ ~torn => n = Size(course)
  /\ power = "storing" => /\ Len(writes) = Size(course) - n
                          /\ \A i \in 1 .. Size(course) - n :
                               writes[i] = WS!CourseWrites(course)[n + i]

\* Nothing was ever stored.
Fresh ==
  /\ \A a \in WS!Addresses : eeprom[a] = WS!Blank
  /\ course = << >> /\ ~torn /\ power # "storing"

CourseInv ==
  /\ power \in {"off", "storing", "loaded"} /\ torn \in BOOLEAN /\ silent \in BOOLEAN
  /\ course \in Seq(Gates) /\ Len(course) <= MaxGates
  /\ \E S : writes \in Seq(S)
  /\ Whole(eeprom) /\ Whole(before) /\ HeaderOf(before)
  /\ Fresh \/ \E n \in 0 .. Size(course) : Stored(n)
  /\ power # "storing" => writes = << >>
  /\ power = "storing" => ~torn
  /\ power = "loaded" /\ ~silent => loaded = WS!LoadedCourse(eeprom)

\* The first bytes of a device.
LEMMA EepromFacts == CourseInv => HeaderOf(eeprom)
<1> SUFFICES ASSUME CourseInv PROVE HeaderOf(eeprom)
  OBVIOUS
<1>1. 0 \in WS!Addresses /\ 1 \in WS!Addresses
  <2>1. \A d, l \in Nat : 4 * d * l \in Nat
    OBVIOUS
  <2> QED
    BY <2>1, StoreAssumption DEF WS!Addresses
<1>2. CASE Fresh
  <2>1. eeprom[0] = WS!Blank /\ eeprom[1] = WS!Blank
    BY <1>1, <1>2 DEF Fresh
  <2>2. WS!Blank[1] = ByteMod - 1 /\ ByteMod - 1 \in Nat /\ ByteMod - 1 < ByteMod
    BY StoreAssumption DEF WS!Blank
  <2> QED
    BY <2>1, <2>2 DEF HeaderOf
<1>3. ASSUME NEW n \in 0 .. Size(course), Stored(n) PROVE HeaderOf(eeprom)
  <2>1. eeprom[0] = Written(course, before, n, 0) /\ eeprom[1] = Written(course, before, n, 1)
    BY <1>1, <1>3 DEF Stored
  <2>2. n \in Nat
    BY <1>3, TotalFacts, StoreAssumption DEF Size
  <2> QED
    BY <2>1, <2>2, HeaderFacts DEF CourseInv
<1> QED
  BY <1>2, <1>3 DEF CourseInv

LEMMA CourseInit == WS!Init => CourseInv
<1> SUFFICES ASSUME WS!Init PROVE CourseInv
  OBVIOUS
<1>1. /\ power = "off" /\ writes = << >> /\ loaded = << >> /\ silent = FALSE /\ course = << >>
      /\ before = eeprom /\ torn = FALSE /\ eeprom = [a \in WS!Addresses |-> WS!Blank]
  BY DEF WS!Init
<1>2. Fresh
  BY <1>1 DEF Fresh
<1>3. Whole(eeprom) /\ Whole(before)
  BY <1>1 DEF Whole
<1>4. HeaderOf(before)
  <2>1. 0 \in WS!Addresses /\ 1 \in WS!Addresses
    <3>1. \A d, l \in Nat : 4 * d * l \in Nat
      OBVIOUS
    <3> QED
      BY <3>1, StoreAssumption DEF WS!Addresses
  <2>2. before[0] = WS!Blank /\ before[1] = WS!Blank
    BY <1>1, <2>1
  <2>3. WS!Blank[1] = ByteMod - 1 /\ ByteMod - 1 \in Nat /\ ByteMod - 1 < ByteMod
    BY StoreAssumption DEF WS!Blank
  <2> QED
    BY <2>2, <2>3 DEF HeaderOf
<1>5. course \in Seq(Gates) /\ Len(course) <= MaxGates /\ writes \in Seq(Gates)
  BY <1>1, StoreAssumption
<1> QED
  BY <1>1, <1>2, <1>3, <1>4, <1>5 DEF CourseInv

\* The power fails, and what was not written is lost.
LEMMA CutShort == ASSUME CourseInv, WS!PowerOff PROVE CourseInv'
<1>1. /\ power # "off" /\ power' = "off" /\ torn' = (torn \/ writes # << >>) /\ writes' = << >>
      /\ silent' = FALSE /\ UNCHANGED <<eeprom, course, before>>
  BY DEF WS!PowerOff
<1>2. CASE Fresh
  <2>1. writes = << >>
    BY <1>2 DEF CourseInv, Fresh
  <2>2. Fresh'
    BY <1>1, <1>2, <2>1 DEF Fresh
  <2>3. << >> \in Seq(Gates)
    OBVIOUS
  <2> QED
    BY <1>1, <1>2, <2>1, <2>2, <2>3 DEF CourseInv, Whole, HeaderOf
<1>3. ASSUME NEW n \in 0 .. Size(course), Stored(n) PROVE CourseInv'
  <2>1. n \in Nat /\ Size(course) \in Nat /\ n <= Size(course)
    BY <1>3, TotalFacts, StoreAssumption DEF Size, CourseInv
  <2>2. ~torn' => n = Size(course)
    <3> SUFFICES ASSUME ~torn, writes = << >> PROVE n = Size(course)
      BY <1>1
    <3>1. CASE power = "storing"
      <4>1. Size(course) - n = 0
        BY <1>3, <3>1 DEF Stored
      <4> QED
        BY <2>1, <4>1
    <3>2. CASE power # "storing"
      BY <1>3, <3>2 DEF Stored
    <3> QED
      BY <3>1, <3>2
  <2>3. \A a \in WS!Addresses : eeprom'[a] = Written(course', before', n, a)
    BY <1>1, <1>3 DEF Stored
  <2>4. Stored(n)'
    BY <1>1, <2>2, <2>3 DEF Stored, Size
  <2>5. n \in 0 .. Size(course')
    BY <1>1, <1>3
  <2>6. << >> \in Seq(Gates) /\ torn' \in BOOLEAN
    <3>1. torn' = TRUE \/ torn' = FALSE
      BY <1>1
    <3>2. torn' \in BOOLEAN
      BY <3>1, Zenon
    <3> QED
      BY <3>2
  <2> QED
    BY <1>1, <2>4, <2>5, <2>6 DEF CourseInv, Whole, HeaderOf
<1> QED
  BY <1>2, <1>3 DEF CourseInv

\* A store of a course begins.
LEMMA StoreBegins == ASSUME CourseInv, NEW c \in Courses, WS!Store(c) PROVE CourseInv'
<1> DEFINE w == WS!CourseWrites(c)
<1>1. /\ power' = "storing" /\ writes' = w /\ before' = eeprom /\ course' = c /\ torn' = FALSE
      /\ eeprom' = eeprom /\ silent' = silent
  BY DEF WS!Store
<1>2. c \in Seq(Gates) /\ Len(c) <= MaxGates
  BY StoreAssumption
<1>3. Size(c) \in Nat /\ IntSize \in Nat \ {0}
  BY <1>2, TotalFacts, StoreAssumption DEF Size
<1>4. \A a \in WS!Addresses : eeprom[a] = Written(c, eeprom, 0, a)
  <2> SUFFICES ASSUME NEW a \in WS!Addresses PROVE eeprom[a] = Written(c, eeprom, 0, a)
    OBVIOUS
  <2>1. a \in Nat
    <3>1. \A d, l \in Nat : 4 * d * l \in Nat
      OBVIOUS
    <3> QED
      BY <3>1, StoreAssumption DEF WS!Addresses
  <2> QED
    BY <1>3, <2>1 DEF Written
<1>5. /\ w = [i \in 1 .. Size(c) |-> w[i]]
  BY <1>2, WritesFacts DEF Size
<1> HIDE DEF w
<1>6. Len(w) = Size(c) /\ \E S : w \in Seq(S)
  <2> DEFINE S == {w[i] : i \in 1 .. Size(c)}
  <2>1. \A i \in 1 .. Size(c) : w[i] \in S
    OBVIOUS
  <2> HIDE DEF S
  <2>2. w \in [1 .. Size(c) -> S]
    BY <1>5, <2>1
  <2>3. w \in Seq(S)
    BY <1>3, <2>2, IsASeq
  <2>4. DOMAIN w = 1 .. Size(c)
    BY <1>5
  <2>5. Len(w) = Size(c)
    BY <1>3, <2>3, <2>4, LenProperties
  <2> QED
    BY <2>3, <2>5
<1>7. Stored(0)'
  <2>1. Size(c) - 0 = Size(c) /\ \A i \in 1 .. Size(c) : 0 + i = i
    BY <1>3
  <2>2. \A i \in 1 .. Size(c) - 0 : w[i] = w[0 + i]
    BY <2>1
  <2>3. \A a \in WS!Addresses : eeprom'[a] = Written(course', before', 0, a)
    BY <1>1, <1>4
  <2>4. /\ Len(writes') = Size(course') - 0
        /\ \A i \in 1 .. Size(course') - 0 : writes'[i] = WS!CourseWrites(course')[0 + i]
    BY <1>1, <1>6, <2>1, <2>2 DEF w
  <2> QED
    BY <1>1, <2>3, <2>4 DEF Stored
<1>8. Whole(eeprom') /\ Whole(before') /\ HeaderOf(before')
  BY <1>1, EepromFacts DEF CourseInv
<1>9. 0 \in 0 .. Size(course')
  BY <1>1, <1>3
<1>10. \E S : writes' \in Seq(S)
  BY <1>1, <1>6
<1> QED
  BY <1>1, <1>2, <1>7, <1>8, <1>9, <1>10 DEF CourseInv

\* One byte more.
LEMMA ByteWritten == ASSUME CourseInv, WS!WriteByte PROVE CourseInv'
<1> DEFINE w == WS!CourseWrites(course)
           h == Head(writes)
<1>1. /\ writes # << >> /\ eeprom' = [eeprom EXCEPT ![h[1]] = h[2]] /\ writes' = Tail(writes)
      /\ UNCHANGED <<power, loaded, silent, course, before, torn>>
  BY DEF WS!WriteByte
<1>2. power = "storing" /\ ~Fresh
  BY <1>1 DEF CourseInv, Fresh
<1>3. PICK n \in 0 .. Size(course) : Stored(n)
  BY <1>2 DEF CourseInv
<1> DEFINE b == Size(course)
<1>4. n \in Nat /\ b \in Nat /\ n <= b /\ course \in Seq(Gates)
  BY <1>3, TotalFacts, StoreAssumption DEF Size, CourseInv
<1>5. PICK S : writes \in Seq(S)
  BY DEF CourseInv
<1>6. /\ Len(writes) = b - n
      /\ \A i \in 1 .. b - n : writes[i] = w[n + i]
      /\ \A a \in WS!Addresses : eeprom[a] = Written(course, before, n, a)
  BY <1>2, <1>3 DEF Stored
<1>7. b = IntSize + IntSize + Total(course)
  BY DEF Size
<1> HIDE DEF b, w
<1>8. n < b /\ h = w[n + 1] /\ Len(Tail(writes)) = b - (n + 1) /\ Tail(writes) \in Seq(S)
  <2>1. Len(writes) \in Nat /\ Len(writes) # 0 /\ h = writes[1]
    BY <1>1, <1>5
  <2>2. n < b /\ 1 \in 1 .. b - n
    BY <1>4, <1>6, <2>1
  <2>3. h = w[n + 1]
    BY <1>6, <2>1, <2>2
  <2>4. Tail(writes) \in Seq(S) /\ Len(Tail(writes)) = Len(writes) - 1
    BY <1>1, <1>5
  <2> QED
    BY <1>4, <1>6, <2>2, <2>3, <2>4
<1>9. ASSUME NEW i \in 1 .. b - (n + 1) PROVE writes'[i] = w[(n + 1) + i]
  <2>1. i \in Nat /\ i + 1 \in 1 .. b - n /\ n + (i + 1) = (n + 1) + i /\ i \in 1 .. Len(Tail(writes))
    BY <1>4, <1>8
  <2>2. Tail(writes)[i] = writes[i + 1]
    BY <1>1, <1>5, <2>1, HeadTailProperties
  <2>3. writes[i + 1] = w[n + (i + 1)]
    BY <1>6, <2>1
  <2> QED
    BY <1>1, <2>1, <2>2, <2>3
<1>10. ASSUME NEW a \in WS!Addresses PROVE eeprom'[a] = Written(course', before', n + 1, a)
  <2>1. Written(course, before, n + 1, a) =
          IF a = w[n + 1][1] THEN w[n + 1][2] ELSE Written(course, before, n, a)
    BY <1>4, <1>7, <1>8, WrittenStep DEF w
  <2>2. DOMAIN eeprom = WS!Addresses
    BY DEF CourseInv, Whole
  <2>3. eeprom'[a] = IF a = h[1] THEN h[2] ELSE eeprom[a]
    <3> HIDE DEF h
    <3> QED
      BY <1>1, <2>2
  <2>4. eeprom'[a] = IF a = w[n + 1][1] THEN w[n + 1][2] ELSE eeprom[a]
    BY <1>8, <2>3
  <2> HIDE DEF h
  <2> QED
    BY <1>1, <1>6, <2>1, <2>4
<1>11. Whole(eeprom')
  <2>1. DOMAIN eeprom = WS!Addresses
    BY DEF CourseInv, Whole
  <2> HIDE DEF h
  <2> QED
    BY <1>1, <2>1 DEF Whole
<1>12. Stored(n + 1)'
  <2>1. /\ Len(writes') = Size(course') - (n + 1)
        /\ \A i \in 1 .. Size(course') - (n + 1) :
             writes'[i] = WS!CourseWrites(course')[(n + 1) + i]
    BY <1>1, <1>8, <1>9 DEF b, w
  <2> QED
    BY <1>1, <1>2, <1>10, <2>1 DEF Stored
<1>13. n + 1 \in 0 .. Size(course')
  <2>1. b = Size(course')
    BY <1>1 DEF b
  <2> QED
    BY <1>4, <1>8, <2>1
<1>14. writes' \in Seq(S)
  BY <1>1, <1>8
<1>15. Whole(before') /\ HeaderOf(before')
  BY <1>1 DEF CourseInv
<1> QED
  BY <1>1, <1>2, <1>11, <1>12, <1>13, <1>14, <1>15 DEF CourseInv

\* A load reads the device as it is, unless a byte did not come.
LEMMA LoadStep == ASSUME CourseInv, WS!Load PROVE CourseInv'
<1>1. /\ power = "off" /\ power' = "loaded"
      /\ UNCHANGED <<eeprom, writes, course, before, torn>>
  BY DEF WS!Load
<1>2. PICK lost : /\ loaded' = WS!LoadedCourse([a \in WS!Addresses |->
                                 IF a \in lost THEN WS!Blank ELSE eeprom[a]])
                  /\ silent' = (lost # {})
  BY DEF WS!Load
<1>3. silent' \in BOOLEAN
  BY <1>2
<1>4. ~silent' => loaded' = WS!LoadedCourse(eeprom')
  <2> SUFFICES ASSUME lost = {} PROVE loaded' = WS!LoadedCourse(eeprom')
    BY <1>2
  <2>1. [a \in WS!Addresses |-> IF a \in lost THEN WS!Blank ELSE eeprom[a]] =
        [a \in WS!Addresses |-> eeprom[a]]
    OBVIOUS
  <2>2. [a \in WS!Addresses |-> eeprom[a]] = eeprom
    BY DEF CourseInv, Whole
  <2> QED
    BY <1>1, <1>2, <2>1, <2>2
<1>5. Fresh => Fresh'
  BY <1>1 DEF Fresh
<1>6. ASSUME NEW n \in 0 .. Size(course), Stored(n) PROVE Stored(n)' /\ n \in 0 .. Size(course')
  BY <1>1, <1>6 DEF Stored
<1>7. Fresh' \/ \E n \in 0 .. Size(course') : Stored(n)'
  BY <1>5, <1>6 DEF CourseInv
<1>8. /\ Whole(eeprom') /\ Whole(before') /\ HeaderOf(before') /\ \E S : writes' \in Seq(S)
      /\ writes' = << >>
  BY <1>1 DEF CourseInv
<1> QED
  BY <1>1, <1>3, <1>4, <1>7, <1>8 DEF CourseInv

LEMMA CourseStep == CourseInv /\ WS!Next => CourseInv'
BY ByteWritten, CutShort, LoadStep, StoreBegins DEF WS!Next

LEMMA CourseUnchanged == CourseInv /\ UNCHANGED waypoints => CourseInv'
<1> SUFFICES ASSUME CourseInv, UNCHANGED waypoints PROVE CourseInv'
  OBVIOUS
<1>1. UNCHANGED <<power, eeprom, writes, loaded, silent, course, before, torn>>
  BY DEF waypoints
<1>2. Fresh => Fresh'
  BY <1>1 DEF Fresh
<1>3. \A n : Stored(n) => Stored(n)'
  BY <1>1 DEF Stored
<1>4. Fresh' \/ \E n \in 0 .. Size(course) : Stored(n)'
  BY <1>2, <1>3 DEF CourseInv
<1> QED
  BY <1>1, <1>4 DEF CourseInv

\* The number of gates that a load takes.
GateCount(mem) == IF mem[0] = WS!Marker THEN mem[1][1] ELSE 0

LEMMA LoadedFacts ==
  ASSUME NEW mem, HeaderOf(mem)
  PROVE  LET l == WS!LoadedCourse(mem)
         IN  /\ GateCount(mem) \in Nat
             /\ l = [i \in 1 .. GateCount(mem) |-> WS!GateAt(mem, i - 1)]
             /\ Len(l) = GateCount(mem)
<1> DEFINE l == WS!LoadedCourse(mem)
           n == GateCount(mem)
           S == {l[i] : i \in 1 .. n}
<1>1. n \in Nat
  BY DEF HeaderOf, GateCount
<1>2. l = [i \in 1 .. n |-> WS!GateAt(mem, i - 1)]
  BY DEF WS!LoadedCourse, GateCount
<1> HIDE DEF l, n
<1>3. \A i \in 1 .. n : l[i] \in S
  OBVIOUS
<1> HIDE DEF S
<1>4. l \in [1 .. n -> S]
  BY <1>2, <1>3
<1>5. l \in Seq(S) /\ DOMAIN l = 1 .. n
  BY <1>1, <1>4, IsASeq
<1>6. Len(l) = n
  BY <1>1, <1>5, LenProperties
<1> QED
  BY <1>1, <1>2, <1>6 DEF l, n

\* The invariant gives the properties of the stored course.
LEMMA CourseSafe == CourseInv => WS!RoundTrip /\ WS!TornCount /\ WS!TornGates
<1> SUFFICES ASSUME CourseInv, power = "loaded", ~silent
             PROVE  WS!RoundTrip /\ WS!TornCount /\ WS!TornGates
  BY DEF WS!RoundTrip, WS!TornCount, WS!TornGates
<1> DEFINE c == course
           r == Len(c) % ByteMod
<1>1. /\ c \in Seq(Gates) /\ Len(c) <= MaxGates /\ Len(c) \in Nat /\ HeaderOf(eeprom)
      /\ HeaderOf(before) /\ Whole(eeprom) /\ Whole(before)
  BY EepromFacts DEF CourseInv
<1>2. r \in Nat /\ r <= Len(c)
  BY <1>1, StoreAssumption
<1>3. /\ loaded = [i \in 1 .. GateCount(eeprom) |-> WS!GateAt(eeprom, i - 1)]
      /\ Len(loaded) = GateCount(eeprom) /\ GateCount(eeprom) \in Nat
      /\ Len(WS!LoadedCourse(before)) = GateCount(before)
  BY <1>1, LoadedFacts DEF CourseInv
<1>4. 0 \in WS!Addresses /\ 1 \in WS!Addresses
  <2>1. \A d, l \in Nat : 4 * d * l \in Nat
    OBVIOUS
  <2> QED
    BY <2>1, StoreAssumption DEF WS!Addresses
<1>5. CASE Fresh
  <2>1. eeprom[0] = WS!Blank /\ c = << >> /\ ~torn
    BY <1>4, <1>5 DEF Fresh
  <2>2. WS!Blank # WS!Marker
    <3>1. ByteMod - 1 # 36
      BY StoreAssumption
    <3>2. <<ByteMod - 1>> # <<36>>
      BY <3>1
    <3> QED
      BY <3>2 DEF WS!Blank, WS!Marker
  <2>3. loaded = << >>
    BY <1>3, <2>1, <2>2 DEF GateCount
  <2>4. SubSeq(c, 1, r) = << >>
    <3>1. r = 0
      BY <1>2, <2>1
    <3> QED
      BY <2>1, <3>1
  <2> QED
    BY <2>1, <2>3, <2>4 DEF WS!RoundTrip, WS!TornCount, WS!TornGates
<1>6. ASSUME NEW n \in 0 .. Size(c), Stored(n)
      PROVE  WS!RoundTrip /\ WS!TornCount /\ WS!TornGates
  <2>1. n \in Nat /\ Size(c) = IntSize + IntSize + Total(c) /\ Total(c) \in Nat /\ IntSize \in Nat \ {0}
    BY <1>1, <1>6, TotalFacts, StoreAssumption DEF Size
  <2>2. \A a \in WS!Addresses : eeprom[a] = Written(c, before, n, a)
    BY <1>6 DEF Stored
  <2>3. /\ n = 0 => eeprom[0] = before[0] /\ eeprom[1] = before[1]
        /\ n > 0 => /\ eeprom[0] = WS!Marker
                    /\ eeprom[1] \in {before[1], WS!Zero, <<r>>}
        /\ n > IntSize => eeprom[1] = <<r>>
    BY <1>1, <1>4, <2>1, <2>2, HeaderFacts
  <2>4. ASSUME NEW i \in Nat
        PROVE  /\ WS!GateAt(eeprom, i) # "mixed" =>
                    \/ i < Len(c) /\ WS!GateAt(eeprom, i) = c[i + 1]
                    \/ WS!GateAt(eeprom, i) = WS!GateAt(before, i)
               /\ i < Len(c) /\ n >= Size(c) => WS!GateAt(eeprom, i) = c[i + 1]
    BY <1>1, <2>1, <2>2, GateFacts
  <2> HIDE DEF r, c
  <2>5. WS!RoundTrip
    <3> SUFFICES ASSUME ~torn PROVE loaded = SubSeq(c, 1, r)
      BY DEF WS!RoundTrip, c, r
    <3>1. n = Size(c)
      BY <1>6 DEF Stored, c
    <3>2. n > IntSize /\ n > 0 /\ n >= Size(c)
      BY <2>1, <3>1
    <3>3. GateCount(eeprom) = r
      BY <2>3, <3>2 DEF GateCount
    <3>4. ASSUME NEW i \in 1 .. r PROVE loaded[i] = c[i]
      <4>1. i - 1 \in Nat /\ i - 1 < Len(c) /\ (i - 1) + 1 = i
        BY <1>1, <1>2
      <4>2. WS!GateAt(eeprom, i - 1) = c[i]
        BY <2>4, <3>2, <4>1
      <4> QED
        BY <1>3, <3>3, <4>2
    <3>5. loaded = [i \in 1 .. r |-> c[i]]
      BY <1>3, <3>3, <3>4
    <3>6. SubSeq(c, 1, r) = [i \in 1 .. r |-> c[i]]
      <4>1. \A i \in 1 .. r : i + 1 - 1 = i
        BY <1>2
      <4>2. SubSeq(c, 1, r) = [i \in 1 .. r |-> c[i + 1 - 1]]
        BY <1>1, <1>2
      <4> QED
        BY <4>1, <4>2
    <3> QED
      BY <3>5, <3>6
  <2>6. WS!TornCount
    <3> DEFINE marked == before[0] = WS!Marker
    <3>1. GateCount(eeprom) \in {GateCount(before), 0, r} \cup (IF ~marked THEN {ByteMod - 1} ELSE {})
      <4>1. CASE n = 0
        BY <2>3, <4>1 DEF GateCount
      <4>2. CASE n # 0
        <5>1. eeprom[0] = WS!Marker /\ eeprom[1] \in {before[1], WS!Zero, <<r>>}
          BY <2>1, <2>3, <4>2
        <5>2. GateCount(eeprom) = eeprom[1][1]
          BY <5>1 DEF GateCount
        <5>3. CASE eeprom[1] = WS!Zero
          <6>1. WS!Zero[1] = 0
            BY DEF WS!Zero
          <6> QED
            BY <5>2, <5>3, <6>1
        <5>4. CASE eeprom[1] = <<r>>
          BY <5>2, <5>4
        <5>5. CASE eeprom[1] = before[1]
          <6>1. marked => GateCount(eeprom) = GateCount(before)
            BY <5>2, <5>5 DEF GateCount
          <6>2. ~marked => GateCount(eeprom) = ByteMod - 1
            BY <1>1, <5>2, <5>5 DEF HeaderOf, WS!Blank
          <6> QED
            BY <6>1, <6>2
        <5> QED
          BY <5>1, <5>3, <5>4, <5>5
      <4> QED
        BY <4>1, <4>2
    <3>2. Len(WS!LoadedCourse(before)) = GateCount(before) /\ Len(loaded) = GateCount(eeprom)
      BY <1>3
    <3> QED
      BY <3>1, <3>2 DEF WS!TornCount, r, c
  <2>7. WS!TornGates
    <3> SUFFICES ASSUME NEW i \in DOMAIN loaded, loaded[i] # "mixed"
                 PROVE  \/ i <= Len(c) /\ loaded[i] = c[i]
                        \/ loaded[i] = WS!GateAt(before, i - 1)
      BY DEF WS!TornGates, c
    <3>1. i \in 1 .. GateCount(eeprom) /\ loaded[i] = WS!GateAt(eeprom, i - 1)
      BY <1>3
    <3>2. i - 1 \in Nat /\ (i - 1) + 1 = i /\ (i - 1 < Len(c) => i <= Len(c))
      BY <1>1, <1>3, <3>1
    <3> QED
      BY <2>4, <3>1, <3>2
  <2> QED
    BY <2>5, <2>6, <2>7
<1> QED
  BY <1>5, <1>6 DEF CourseInv
-----------------------------------------------------------------------------
(* libraries/bfinlibmaster: the SPI bus                                    *)

\* A packet is begun and not yet clocked out while SpiWrite waits to hand it on, or the
\* interrupt has it; the interrupt has one only while its SpiWrite waits.
BusInv ==
  /\ ulSpiState \in {"CLOSED", "POWERUP", "INITIALIZED", "IDLE", "WRITE_IRQ", "READ_IRQ",
                     "READ_EOT"}
  /\ writer \in {"out", "powerup", "first", "waitIdle", "waitSent"}
  /\ begun \in Int /\ clocked \in Int
  /\ CS!StuckOnlyAfterRead
  /\ IF writer = "out" \/ (writer = "waitSent" /\ ulSpiState # "WRITE_IRQ")
     THEN clocked = begun
     ELSE clocked = begun - 1
  /\ ulSpiState = "WRITE_IRQ" => writer = "waitSent"
  /\ writer = "first" => ulSpiState = "INITIALIZED"
  /\ ulSpiState \in {"POWERUP", "INITIALIZED"} => interrupt

LEMMA BusClocked == BusInv => CS!ClockedOnce
BY DEF BusInv, CS!ClockedOnce

LEMMA BusInit == CS!Init => BusInv
BY DEF CS!Init, BusInv, CS!StuckOnlyAfterRead

LEMMA BusStep == BusInv /\ CS!Next => BusInv'
<1> SUFFICES ASSUME BusInv, CS!Next PROVE BusInv'
  OBVIOUS
<1> USE DEF CS!Running
<1>1. CASE CS!SpiOpen
  BY <1>1 DEF CS!SpiOpen, BusInv, CS!StuckOnlyAfterRead
<1>2. CASE CS!SpiClose
  BY <1>2 DEF CS!SpiClose, BusInv, CS!StuckOnlyAfterRead
<1>3. CASE CS!SpiWrite
  BY <1>3 DEF CS!SpiWrite, BusInv, CS!StuckOnlyAfterRead
<1>4. CASE CS!SpiFirstWrite
  BY <1>4 DEF CS!SpiFirstWrite, BusInv, CS!StuckOnlyAfterRead
<1>5. CASE CS!SpiFirstWriteDone
  BY <1>5 DEF CS!SpiFirstWriteDone, CS!SpiWriteDataSynchronous, BusInv, CS!StuckOnlyAfterRead
<1>6. CASE CS!SpiWriteArm
  BY <1>6 DEF CS!SpiWriteArm, BusInv, CS!StuckOnlyAfterRead
<1>7. CASE CS!SpiWriteReturn
  BY <1>7 DEF CS!SpiWriteReturn, BusInv, CS!StuckOnlyAfterRead
<1>8. CASE CS!RadioSignals
  BY <1>8 DEF CS!RadioSignals, BusInv, CS!StuckOnlyAfterRead
<1>9. CASE CS!SPI_IRQ
  <2>1. CASE CS!IrqWrites
    BY <1>9, <2>1 DEF CS!SPI_IRQ, CS!IrqWrites, CS!SpiWriteDataSynchronous, BusInv,
                      CS!StuckOnlyAfterRead
  <2>2. CASE CS!IrqElse
    BY <1>9, <2>2 DEF CS!SPI_IRQ, CS!IrqElse, CS!SpiReadHeader, BusInv, CS!StuckOnlyAfterRead
  <2> QED
    BY <1>9, <2>1, <2>2 DEF CS!SPI_IRQ
<1> QED
  BY <1>1, <1>2, <1>3, <1>4, <1>5, <1>6, <1>7, <1>8, <1>9 DEF CS!Next

-----------------------------------------------------------------------------
(* libraries/bfinlibmaster: calls and events                               *)

\* A command waits for its answer, unless it is wlan_connect's; data follows the answers to
\* two of them.
IsCommand(c) ==
  /\ c.waits \in BOOLEAN
  /\ c.waits <=> c.op # "WLAN_CONNECT"
  /\ c.op \notin {"DATA", "PATCHES_REQ", "none"}
  /\ c.data = "positive" <=> c.op = "RECV"
  /\ c.data = "zero" <=> c.op = "NVMEM_READ"

IsScript(s) == s # << >> /\ (\E S : s \in Seq(S)) /\ \A i \in 1 .. Len(s) : IsCommand(s[i])

\* The answer v to a command is followed by data.
DataFollows(op, v) ==
  \/ op = "RECV" /\ v > 0
  \/ op = "NVMEM_READ" /\ v = 0

StartOps == {"SIMPLE_LINK_START", "READ_BUFFER_SIZE"}
Ordinary(s) == \A i \in 1 .. Len(s) : s[i].op \notin StartOps

LEMMA SingleFacts ==
  ASSUME NEW c, IsCommand(c), c.op \notin StartOps
  PROVE  IsScript(<<c>>) /\ Ordinary(<<c>>)
<1>1. <<c>> \in Seq({c}) /\ Len(<<c>>) = 1 /\ <<c>>[1] = c /\ <<c>> # << >>
  OBVIOUS
<1>2. \A i \in 1 .. Len(<<c>>) : <<c>>[i] = c
  BY <1>1
<1> QED
  BY <1>1, <1>2 DEF IsScript, Ordinary

LEMMA PlainFacts ==
  ASSUME NEW op, op \notin {"WLAN_CONNECT", "DATA", "PATCHES_REQ", "none", "RECV", "NVMEM_READ"},
         op \notin StartOps
  PROVE  IsScript(CC!Plain(op)) /\ Ordinary(CC!Plain(op))
<1> DEFINE c == [op |-> op, waits |-> TRUE, data |-> "never"]
<1>1. IsCommand(c) /\ c.op = op
  BY DEF IsCommand
<1>2. CC!Plain(op) = <<c>>
  BY DEF CC!Plain, CC!Cmd
<1> HIDE DEF c
<1> QED
  BY <1>1, <1>2, SingleFacts

LEMMA PairFacts ==
  ASSUME NEW s, NEW t, IsScript(s), IsScript(t), Ordinary(s), Ordinary(t)
  PROVE  IsScript(s \o t) /\ Ordinary(s \o t)
<1>1. PICK S : s \in Seq(S)
  BY DEF IsScript
<1>2. PICK T : t \in Seq(T)
  BY DEF IsScript
<1> DEFINE U == S \cup T
<1>3. s \in Seq(U) /\ t \in Seq(U)
  <2>1. s \in [1 .. Len(s) -> U] /\ t \in [1 .. Len(t) -> U] /\ Len(s) \in Nat /\ Len(t) \in Nat
    BY <1>1, <1>2
  <2> QED
    BY <2>1, IsASeq
<1> HIDE DEF U
<1>4. /\ s \o t \in Seq(U) /\ Len(s \o t) = Len(s) + Len(t) /\ Len(s) \in Nat /\ Len(t) \in Nat
      /\ \A i \in 1 .. Len(s) + Len(t) : (s \o t)[i] = IF i <= Len(s) THEN s[i] ELSE t[i - Len(s)]
  BY <1>3, ConcatProperties
<1>5. ASSUME NEW i \in 1 .. Len(s) + Len(t)
      PROVE  IsCommand((s \o t)[i]) /\ (s \o t)[i].op \notin StartOps
  <2>1. CASE i <= Len(s)
    BY <1>4, <2>1 DEF Ordinary, IsScript
  <2>2. CASE ~(i <= Len(s))
    <3>1. i - Len(s) \in 1 .. Len(t) /\ (s \o t)[i] = t[i - Len(s)]
      BY <1>4, <2>2
    <3> QED
      BY <3>1 DEF Ordinary, IsScript
  <2> QED
    BY <2>1, <2>2
<1>6. s \o t # << >>
  <2>1. Len(s) # 0
    BY <1>1 DEF IsScript
  <2> QED
    BY <1>4, <2>1
<1> QED
  BY <1>4, <1>5, <1>6 DEF Ordinary, IsScript

\* The calls of the program are made of commands, none of them of the start.
LEMMA CallsFacts ==
  ASSUME NEW s \in CC!Calls
  PROVE  IsScript(s) /\ Ordinary(s)
<1> DEFINE Good(x) == IsScript(x) /\ Ordinary(x)
<1>1. Good(CC!wlan_connect)
  <2> DEFINE c == [op |-> "WLAN_CONNECT", waits |-> FALSE, data |-> "never"]
  <2>1. IsCommand(c) /\ c.op \notin StartOps
    BY DEF IsCommand, StartOps
  <2>2. CC!wlan_connect = <<c>>
    BY DEF CC!wlan_connect, CC!Cmd
  <2> HIDE DEF c
  <2> QED
    BY <2>1, <2>2, SingleFacts
<1>2. Good(CC!simple_link_recv)
  <2> DEFINE c == [op |-> "RECV", waits |-> TRUE, data |-> "positive"]
  <2>1. IsCommand(c) /\ c.op \notin StartOps
    BY DEF IsCommand, StartOps
  <2>2. CC!simple_link_recv = <<c>>
    BY DEF CC!simple_link_recv, CC!Cmd
  <2> HIDE DEF c
  <2> QED
    BY <2>1, <2>2, SingleFacts
<1>3. Good(CC!nvmem_read)
  <2> DEFINE c == [op |-> "NVMEM_READ", waits |-> TRUE, data |-> "zero"]
  <2>1. IsCommand(c) /\ c.op \notin StartOps
    BY DEF IsCommand, StartOps
  <2>2. CC!nvmem_read = <<c>>
    BY DEF CC!nvmem_read, CC!Cmd
  <2> HIDE DEF c
  <2> QED
    BY <2>1, <2>2, SingleFacts
<1>4. Good(CC!nvmem_write) /\ Good(CC!wlan_add_profile)
  BY PlainFacts DEF CC!nvmem_write, CC!hci_data_command_send, CC!wlan_add_profile, StartOps
<1>5. Good(CC!nvmem_write_patch)
  BY <1>4, PairFacts DEF CC!nvmem_write_patch
<1>6. Good(CC!wlan_smart_config_process)
  BY <1>3, <1>4, PairFacts DEF CC!wlan_smart_config_process, CC!aes_read_key
<1>7. /\ Good(CC!wlan_disconnect) /\ Good(CC!wlan_ioctl_set_connection_policy)
      /\ Good(CC!wlan_ioctl_del_profile) /\ Good(CC!wlan_ioctl_get_scan_results)
      /\ Good(CC!wlan_ioctl_set_scan_params) /\ Good(CC!wlan_set_event_mask)
      /\ Good(CC!wlan_ioctl_statusget) /\ Good(CC!wlan_smart_config_start)
      /\ Good(CC!wlan_smart_config_stop) /\ Good(CC!wlan_smart_config_set_prefix)
  BY PlainFacts DEF CC!wlan_disconnect, CC!wlan_ioctl_set_connection_policy,
     CC!wlan_ioctl_del_profile, CC!wlan_ioctl_get_scan_results, CC!wlan_ioctl_set_scan_params,
     CC!wlan_set_event_mask, CC!wlan_ioctl_statusget, CC!wlan_smart_config_start,
     CC!wlan_smart_config_stop, CC!wlan_smart_config_set_prefix, StartOps
<1>8. /\ Good(CC!socket) /\ Good(CC!closesocket) /\ Good(CC!accept) /\ Good(CC!bind)
      /\ Good(CC!listen) /\ Good(CC!gethostbyname) /\ Good(CC!connect) /\ Good(CC!select)
      /\ Good(CC!setsockopt) /\ Good(CC!getsockopt) /\ Good(CC!mdnsAdvertiser)
  BY PlainFacts DEF CC!socket, CC!closesocket, CC!accept, CC!bind, CC!listen,
     CC!gethostbyname, CC!connect, CC!select, CC!setsockopt, CC!getsockopt, CC!mdnsAdvertiser,
     StartOps
<1>9. /\ Good(CC!netapp_dhcp) /\ Good(CC!netapp_timeout_values) /\ Good(CC!netapp_ping_send)
      /\ Good(CC!netapp_ping_report) /\ Good(CC!netapp_ping_stop) /\ Good(CC!netapp_ipconfig)
      /\ Good(CC!netapp_arp_flush) /\ Good(CC!nvmem_read_sp_version)
      /\ Good(CC!nvmem_create_entry)
  BY PlainFacts DEF CC!netapp_dhcp, CC!netapp_timeout_values, CC!netapp_ping_send,
     CC!netapp_ping_report, CC!netapp_ping_stop, CC!netapp_ipconfig, CC!netapp_arp_flush,
     CC!nvmem_read_sp_version, CC!nvmem_create_entry, StartOps
<1> HIDE DEF Good
<1>10. Good(s)
  BY <1>1, <1>2, <1>3, <1>4, <1>5, <1>6, <1>7, <1>8, <1>9 DEF CC!Calls
<1> QED
  BY <1>10 DEF Good

Busy == {"send", "wait", "returned", "finished"}
Sending == {"consume", "store", "count", "put"}

\* The radio's answers to wlan_connect are all that it owes, or that is in the buffer.
OnlyConnects(s) == s \in Seq({"WLAN_CONNECT"})
FreeOrConnect == usEventOrDataReceived => pucReceivedData.op = "WLAN_CONNECT"

\* The radio owes the data after an answer, or the data is in the buffer.
DataOwed ==
  \/ due = <<"DATA">> /\ ~usEventOrDataReceived
  \/ due = << >> /\ usEventOrDataReceived /\ pucReceivedData.op = "DATA"

\* The result of the call is the radio's answer to its last command.
Own == CC!WritesResult(Head(script).op) => ret = answered

\* The command was sent and not answered yet.
Asked ==
  /\ usRxEventOpcode = Head(script).op /\ ~usRxDataPending
  /\ \E s \in Seq({"WLAN_CONNECT"}) : due = Append(s, Head(script).op)
  /\ usEventOrDataReceived => pucReceivedData.op \in {"WLAN_CONNECT", "PATCHES_REQ"}

\* The answer is in the buffer.
InBuffer ==
  /\ usRxEventOpcode = Head(script).op /\ ~usRxDataPending
  /\ usEventOrDataReceived /\ pucReceivedData.op = Head(script).op
  /\ answered = pucReceivedData.val
  /\ due = IF DataFollows(Head(script).op, answered) THEN <<"DATA">> ELSE << >>

\* The call waits for the data.
AwaitsData == usRxEventOpcode = "none" /\ usRxDataPending /\ DataOwed /\ Own

\* A command of a call is sent, answered, and its data taken, and nothing else is under way
\* but answers to wlan_connect, and these before its own.
CallInv ==
  /\ call \in {"off", "ready"} \cup Busy \cup Sending
  /\ call \in Busy => IsScript(script)
  /\ call \in {"wait", "returned", "finished"} => Head(script).op # "WLAN_CONNECT"
  /\ call = "off" => due = << >>
  /\ call \in {"ready", "send"} \cup Sending =>
       OnlyConnects(due) /\ FreeOrConnect /\ ~usRxDataPending
  /\ call = "wait" => Asked \/ InBuffer \/ AwaitsData
  /\ call = "returned" =>
       /\ usRxEventOpcode = "none" /\ ~usRxDataPending /\ Own
       /\ IF DataFollows(Head(script).op, answered) THEN DataOwed
          ELSE due = << >> /\ ~usEventOrDataReceived
  /\ call = "finished" =>
       ~usRxDataPending /\ Own /\ due = << >> /\ ~usEventOrDataReceived
  /\ usEventOrDataReceived \in BOOLEAN /\ usRxDataPending \in BOOLEAN

LEMMA HeadFacts == ASSUME NEW s, IsScript(s) PROVE IsCommand(Head(s)) /\ Len(s) \in Nat
<1>1. PICK S : s \in Seq(S)
  BY DEF IsScript
<1>2. Len(s) \in Nat /\ Len(s) # 0 /\ Head(s) = s[1]
  BY <1>1 DEF IsScript
<1>3. 1 \in 1 .. Len(s)
  BY <1>2
<1> QED
  BY <1>2, <1>3 DEF IsScript

LEMMA TailFacts ==
  ASSUME NEW s, IsScript(s), Len(s) > 1
  PROVE  IsScript(Tail(s)) /\ (Ordinary(s) => Ordinary(Tail(s)))
<1>1. PICK S : s \in Seq(S)
  BY DEF IsScript
<1>2. /\ Len(s) \in Nat /\ Tail(s) \in Seq(S) /\ Len(Tail(s)) = Len(s) - 1
      /\ \A i \in 1 .. Len(s) - 1 : Tail(s)[i] = s[i + 1] /\ i + 1 \in 1 .. Len(s)
  BY <1>1, HeadTailProperties DEF IsScript
<1>3. Tail(s) # << >>
  <2> DEFINE t == Tail(s)
  <2>1. t \in Seq(S) /\ Len(t) = Len(s) - 1
    BY <1>2
  <2> HIDE DEF t
  <2>2. Len(t) # 0
    BY <1>2, <2>1
  <2>3. t # << >>
    BY <2>1, <2>2
  <2> QED
    BY <2>3 DEF t
<1> QED
  BY <1>2, <1>3 DEF IsScript, Ordinary

LEMMA CallInit == CC!Init => CallInv
<1> SUFFICES ASSUME CC!Init PROVE CallInv
  OBVIOUS
<1>1. /\ call = "off" /\ due = << >> /\ usRxDataPending = FALSE /\ usEventOrDataReceived = FALSE
  BY DEF CC!Init
<1> QED
  BY <1>1 DEF CallInv, Busy, Sending

\* The radio starts.
LEMMA StartScript == IsScript(CC!wlan_start)
<1> DEFINE a == [op |-> "SIMPLE_LINK_START", waits |-> TRUE, data |-> "never"]
           b == [op |-> "READ_BUFFER_SIZE", waits |-> TRUE, data |-> "never"]
<1>1. IsCommand(a) /\ IsCommand(b)
  BY DEF IsCommand
<1>2. CC!wlan_start = <<a, b>>
  BY DEF CC!wlan_start, CC!SimpleLink_Init_Start, CC!Cmd
<1> HIDE DEF a, b
<1>3. <<a, b>> \in Seq({a, b}) /\ Len(<<a, b>>) = 2 /\ <<a, b>>[1] = a /\ <<a, b>>[2] = b
  OBVIOUS
<1>4. \A i \in 1 .. 2 : <<a, b>>[i] = a \/ <<a, b>>[i] = b
  <2> SUFFICES ASSUME NEW i \in 1 .. 2 PROVE <<a, b>>[i] = a \/ <<a, b>>[i] = b
    OBVIOUS
  <2>1. i = 1 \/ i = 2
    OBVIOUS
  <2> QED
    BY <1>3, <2>1
<1>5. <<a, b>> # << >>
  OBVIOUS
<1> QED
  BY <1>1, <1>2, <1>3, <1>4, <1>5 DEF IsScript

\* The answer to the command that is owed next is received.
LEMMA AnswerReceived ==
  ASSUME CallInv, NEW v \in CC!Answers, CC!ReceiveAnswer(v)
  PROVE  CallInv'
<1> DEFINE op == Head(due)
           data == \/ op = "RECV" /\ v > 0
                   \/ op = "NVMEM_READ" /\ v = 0
           c == Head(script)
<1>1. /\ call # "off" /\ ~usEventOrDataReceived /\ due # << >>
      /\ usEventOrDataReceived' = TRUE /\ pucReceivedData'.op = op /\ pucReceivedData'.val = v
      /\ due' = IF data THEN <<"DATA">> \o Tail(due) ELSE Tail(due)
      /\ answered' = IF op \in {"DATA", "WLAN_CONNECT"} THEN answered ELSE v
      /\ UNCHANGED <<call, script, usRxEventOpcode, usRxDataPending, ret>>
  <2>1. pucReceivedData' = [op |-> op, val |-> v]
    BY DEF CC!ReceiveAnswer
  <2> HIDE DEF op
  <2>2. pucReceivedData'.op = op /\ pucReceivedData'.val = v
    BY <2>1
  <2> QED
    BY <2>2 DEF CC!ReceiveAnswer, CC!Listening, op
<1>2. ASSUME NEW s \in Seq({"WLAN_CONNECT"}), s # << >>
      PROVE  /\ Head(s) = "WLAN_CONNECT" /\ Tail(s) \in Seq({"WLAN_CONNECT"})
             /\ \A e : Head(Append(s, e)) = "WLAN_CONNECT" /\ Tail(Append(s, e)) = Append(Tail(s), e)
  <2>1. Head(s) \in {"WLAN_CONNECT"} /\ Tail(s) \in Seq({"WLAN_CONNECT"})
    BY <1>2, HeadTailProperties
  <2>2. ASSUME NEW e PROVE Head(Append(s, e)) = Head(s) /\ Tail(Append(s, e)) = Append(Tail(s), e)
    BY <1>2
  <2> QED
    BY <2>1, <2>2
<1>3. CASE call \in {"ready", "send"} \cup Sending
  <2>1. OnlyConnects(due)
    BY <1>3 DEF CallInv
  <2>2. op = "WLAN_CONNECT" /\ Tail(due) \in Seq({"WLAN_CONNECT"})
    BY <1>1, <1>2, <2>1 DEF OnlyConnects
  <2>3. due' = Tail(due)
    BY <1>1, <2>2
  <2> HIDE DEF op
  <2> QED
    BY <1>1, <1>3, <2>2, <2>3 DEF CallInv, OnlyConnects, FreeOrConnect, Busy, Sending
<1>4. CASE call = "wait" /\ Asked
  <2>1. PICK s \in Seq({"WLAN_CONNECT"}) : due = Append(s, c.op)
    BY <1>4 DEF Asked
  <2>2. IsCommand(c) /\ c.op # "WLAN_CONNECT" /\ c.op # "DATA"
    BY <1>4, HeadFacts DEF CallInv, Busy, IsCommand
  <2>3. CASE s # << >>
    <3>1. op = "WLAN_CONNECT" /\ Tail(due) = Append(Tail(s), c.op)
          /\ Tail(s) \in Seq({"WLAN_CONNECT"})
      BY <1>2, <2>1, <2>3
    <3>2. due' = Append(Tail(s), c.op)
      BY <1>1, <3>1
    <3>3. Asked'
      BY <1>1, <1>4, <3>1, <3>2 DEF Asked
    <3> QED
      BY <1>1, <1>4, <3>3 DEF CallInv, Busy, Sending
  <2>4. CASE s = << >>
    <3> DEFINE o == c.op
    <3>1. op = o /\ Tail(due) = << >>
      <4>1. due = <<o>>
        BY <2>1, <2>4
      <4> HIDE DEF o
      <4> QED
        BY <4>1
    <3>2. data <=> DataFollows(o, v)
      BY <3>1 DEF DataFollows
    <3>3. answered' = v
      BY <1>1, <2>2, <3>1
    <3>4. due' = IF DataFollows(o, v) THEN <<"DATA">> ELSE << >>
      <4> HIDE DEF data, op
      <4>1. <<"DATA">> \o << >> = <<"DATA">>
        OBVIOUS
      <4> QED
        BY <1>1, <3>1, <3>2, <4>1
    <3>5. InBuffer'
      BY <1>1, <1>4, <3>1, <3>3, <3>4 DEF Asked, InBuffer
    <3> QED
      BY <1>1, <1>4, <3>5 DEF CallInv, Busy, Sending
  <2> QED
    BY <2>3, <2>4
<1>5. CASE DataOwed
  <2>1. due = <<"DATA">>
    BY <1>1, <1>5 DEF DataOwed
  <2>2. op = "DATA" /\ Tail(due) = << >>
    BY <2>1
  <2>3. due' = << >> /\ answered' = answered
    BY <1>1, <2>2
  <2>4. DataOwed'
    BY <1>1, <2>2, <2>3 DEF DataOwed
  <2>5. Own => Own'
    BY <1>1, <2>3 DEF Own
  <2> HIDE DEF op
  <2>6. CASE call = "wait" /\ AwaitsData
    <3>1. AwaitsData'
      BY <1>1, <2>4, <2>5, <2>6 DEF AwaitsData
    <3> QED
      BY <1>1, <2>6, <3>1 DEF CallInv, Busy, Sending
  <2>7. CASE call = "returned"
    BY <1>1, <2>1, <2>3, <2>4, <2>5, <2>7 DEF CallInv, Busy, Sending
  <2>8. CASE call \in {"ready", "send"} \cup Sending
    BY <1>3, <2>8
  <2>9. CASE call = "wait" /\ Asked
    BY <1>4, <2>9
  <2> QED
    BY <1>1, <2>6, <2>7, <2>8, <2>9 DEF CallInv, Busy, InBuffer
<1>6. \/ call \in {"ready", "send"} \cup Sending
      \/ call = "wait" /\ Asked
      \/ DataOwed
  BY <1>1 DEF CallInv, Busy, InBuffer, AwaitsData
<1> QED
  BY <1>3, <1>4, <1>5, <1>6
\* The parts of CallInv, for the steps that touch none of them.
CallVars == <<call, script, usRxEventOpcode, usRxDataPending, usEventOrDataReceived,
              pucReceivedData, ret, due, answered>>

LEMMA CallUnchanged == CallInv /\ UNCHANGED CallVars => CallInv'
BY DEF CallInv, CallVars, Busy, Sending, OnlyConnects, FreeOrConnect, Asked, InBuffer,
       AwaitsData, DataOwed, Own

\* A call that does no more than move on, among those that own no answer.
LEMMA CallMoves ==
  ASSUME CallInv, call \in {"ready"} \cup Sending, call' \in {"ready"} \cup Sending,
         UNCHANGED <<usRxEventOpcode, usRxDataPending, usEventOrDataReceived,
                     pucReceivedData, due>>
  PROVE  CallInv'
BY DEF CallInv, Busy, Sending, OnlyConnects, FreeOrConnect

\* A call begins.
LEMMA CallBegins ==
  ASSUME CallInv, call = "ready", call' = "send", IsScript(script'),
         UNCHANGED <<usRxEventOpcode, usRxDataPending, usEventOrDataReceived,
                     pucReceivedData, due>>
  PROVE  CallInv'
BY DEF CallInv, Busy, Sending, OnlyConnects, FreeOrConnect

\* A command is sent: what was owed before are answers to wlan_connect.
LEMMA CommandSent ==
  ASSUME CallInv, CC!SendCommand
  PROVE  CallInv'
<1> DEFINE c == Head(script)
<1>1. /\ call = "send" /\ due' = Append(due, c.op)
      /\ IF c.waits THEN call' = "wait" /\ usRxEventOpcode' = c.op /\ UNCHANGED script
         ELSE call' = "ready"
      /\ UNCHANGED <<usRxDataPending, usEventOrDataReceived, pucReceivedData>>
  BY DEF CC!SendCommand
<1>2. IsCommand(c) /\ IsScript(script)
  BY <1>1, HeadFacts DEF CallInv, Busy
<1>3. due \in Seq({"WLAN_CONNECT"}) /\ FreeOrConnect /\ usRxDataPending = FALSE
      /\ usEventOrDataReceived \in BOOLEAN
  BY <1>1 DEF CallInv, OnlyConnects
<1>4. CASE c.waits
  <2>1. Asked'
    BY <1>1, <1>3, <1>4 DEF Asked, FreeOrConnect
  <2>2. c.op # "WLAN_CONNECT"
    BY <1>2, <1>4 DEF IsCommand
  <2>3. Head(script') = c /\ script' = script /\ call' = "wait" /\ usRxDataPending' = FALSE
        /\ usEventOrDataReceived' = usEventOrDataReceived
    BY <1>1, <1>3, <1>4
  <2> HIDE DEF c
  <2> QED
    BY <1>2, <1>3, <2>1, <2>2, <2>3 DEF CallInv, Busy, Sending
<1>5. CASE ~c.waits
  <2>1. c.op = "WLAN_CONNECT"
    BY <1>2, <1>5 DEF IsCommand
  <2>2. due' \in Seq({"WLAN_CONNECT"})
    BY <1>1, <1>3, <2>1
  <2>3. call' = "ready" /\ usRxDataPending' = FALSE
        /\ UNCHANGED <<usEventOrDataReceived, pucReceivedData>>
    BY <1>1, <1>3, <1>5
  <2> QED
    BY <1>3, <2>2, <2>3 DEF CallInv, Busy, Sending, OnlyConnects, FreeOrConnect
<1> QED
  BY <1>4, <1>5

\* An event is handled: an answer to wlan_connect, and the call waits on, or its own.
LEMMA EventHandled ==
  ASSUME CallInv, NEW active, CC!HandleEvent(active)
  PROVE  CallInv'
<1> DEFINE o == pucReceivedData.op
           c == Head(script)
<1>1. /\ call = "wait" /\ usEventOrDataReceived /\ o \notin {"DATA", "PATCHES_REQ"}
      /\ ret' = IF CC!WritesResult(o) THEN pucReceivedData.val ELSE ret
      /\ usEventOrDataReceived' = FALSE
      /\ usRxEventOpcode' = IF o = usRxEventOpcode THEN "none" ELSE usRxEventOpcode
      /\ call' = IF usRxEventOpcode' = "none" /\ ~usRxDataPending THEN "returned" ELSE call
      /\ UNCHANGED <<script, usRxDataPending, due, answered>>
  BY DEF CC!HandleEvent, CC!Awaited
<1>2. IsCommand(c) /\ IsScript(script) /\ c.op # "WLAN_CONNECT"
  BY <1>1, HeadFacts DEF CallInv, Busy
<1>3. c.op # "none" /\ c.op # "DATA" /\ c.op # "PATCHES_REQ"
  BY <1>2 DEF IsCommand
<1>4. CASE Asked
  <2>1. usRxEventOpcode' = c.op /\ call' = "wait" /\ usRxDataPending = FALSE
    <3>1. o = "WLAN_CONNECT" /\ usRxEventOpcode = c.op /\ ~usRxDataPending
      BY <1>1, <1>4 DEF Asked
    <3> HIDE DEF o, c
    <3> QED
      BY <1>1, <1>2, <1>3, <3>1 DEF CallInv
  <2>2. Asked'
    BY <1>1, <1>4, <2>1 DEF Asked
  <2> QED
    BY <1>1, <1>2, <2>1, <2>2 DEF CallInv, Busy, Sending
<1>5. CASE InBuffer
  <2>1. o = c.op /\ usRxEventOpcode = c.op /\ ~usRxDataPending
        /\ answered = pucReceivedData.val
        /\ due = IF DataFollows(c.op, answered) THEN <<"DATA">> ELSE << >>
    BY <1>5 DEF InBuffer
  <2>2. usRxEventOpcode' = "none" /\ call' = "returned"
    <3> HIDE DEF o, c
    <3> QED
      BY <1>1, <2>1
  <2>3. Own'
    BY <1>1, <2>1 DEF Own
  <2>4. DataFollows(c.op, answered) => DataOwed'
    BY <1>1, <2>1 DEF DataOwed
  <2>5. ~DataFollows(c.op, answered) => due' = << >> /\ ~usEventOrDataReceived'
    BY <1>1, <2>1
  <2>6. usRxDataPending' = FALSE /\ script' = script /\ answered' = answered
        /\ usEventOrDataReceived' = FALSE
    BY <1>1, <2>1 DEF CallInv
  <2> QED
    BY <1>2, <2>2, <2>3, <2>4, <2>5, <2>6 DEF CallInv, Busy, Sending
<1>6. ~AwaitsData
  BY <1>1 DEF AwaitsData, DataOwed
<1> QED
  BY <1>1, <1>4, <1>5, <1>6 DEF CallInv

\* The data is taken.
LEMMA DataHandled ==
  ASSUME CallInv, CC!HandleData
  PROVE  CallInv'
<1>1. /\ call = "wait" /\ usEventOrDataReceived /\ pucReceivedData.op = "DATA"
      /\ usRxDataPending' = FALSE /\ usEventOrDataReceived' = FALSE
      /\ call' = IF usRxEventOpcode = "none" THEN "finished" ELSE call
      /\ UNCHANGED <<script, usRxEventOpcode, ret, due, answered>>
  BY DEF CC!HandleData
<1>2. IsCommand(Head(script)) /\ IsScript(script) /\ Head(script).op # "WLAN_CONNECT"
  BY <1>1, HeadFacts DEF CallInv, Busy
<1>3. ~Asked /\ ~InBuffer
  BY <1>1, <1>2 DEF Asked, InBuffer, IsCommand
<1>4. AwaitsData
  BY <1>1, <1>3 DEF CallInv
<1>5. call' = "finished" /\ due' = << >> /\ Own'
  BY <1>1, <1>4 DEF AwaitsData, DataOwed, Own
<1> QED
  BY <1>1, <1>2, <1>5 DEF CallInv, Busy, Sending

\* A request for a patch is answered, and the call waits on.
LEMMA PatchHandled ==
  ASSUME CallInv, NEW has \in BOOLEAN, CC!HandlePatchRequest(has)
  PROVE  CallInv'
<1>1. /\ call = "wait" /\ usEventOrDataReceived /\ pucReceivedData.op = "PATCHES_REQ"
      /\ usEventOrDataReceived' = FALSE
      /\ UNCHANGED <<call, script, usRxEventOpcode, usRxDataPending, ret, due, answered>>
  BY DEF CC!HandlePatchRequest
<1>2. IsCommand(Head(script)) /\ IsScript(script) /\ Head(script).op # "WLAN_CONNECT"
  BY <1>1, HeadFacts DEF CallInv, Busy
<1>3. Asked
  BY <1>1, <1>2 DEF CallInv, InBuffer, AwaitsData, DataOwed, IsCommand
<1>4. Asked'
  BY <1>1, <1>3 DEF Asked
<1> QED
  BY <1>1, <1>2, <1>4 DEF CallInv, Busy, Sending

\* The wait for the event is over: the data is waited for exactly if it follows.
LEMMA EventOver ==
  ASSUME CallInv, NEW listening, CC!AfterEvent(listening)
  PROVE  CallInv'
<1> DEFINE c == Head(script)
           follows == DataFollows(c.op, answered)
<1>1. /\ call = "returned"
      /\ IF CC!Continues(c) THEN usRxDataPending' = TRUE /\ call' = "wait"
         ELSE call' = "finished" /\ UNCHANGED usRxDataPending
      /\ UNCHANGED <<script, usRxEventOpcode, usEventOrDataReceived, pucReceivedData, ret,
                     due, answered>>
  BY DEF CC!AfterEvent
<1>2. IsCommand(c) /\ IsScript(script) /\ c.op # "WLAN_CONNECT"
  BY <1>1, HeadFacts DEF CallInv, Busy
<1>3. /\ usRxEventOpcode = "none" /\ ~usRxDataPending /\ Own
      /\ follows => DataOwed
      /\ ~follows => due = << >> /\ ~usEventOrDataReceived
  BY <1>1 DEF CallInv
<1>4. CC!Continues(c) <=> follows
  <2>1. c.op \in {"RECV", "NVMEM_READ"} => ret = answered
    BY <1>3 DEF Own, CC!WritesResult
  <2>2. /\ c.data = "positive" <=> c.op = "RECV"
        /\ c.data = "zero" <=> c.op = "NVMEM_READ"
    BY <1>2 DEF IsCommand
  <2> HIDE DEF c
  <2>3. CASE c.op = "RECV"
    BY <2>1, <2>2, <2>3 DEF CC!Continues, DataFollows
  <2>4. CASE c.op = "NVMEM_READ"
    BY <2>1, <2>2, <2>4 DEF CC!Continues, DataFollows
  <2>5. CASE c.op \notin {"RECV", "NVMEM_READ"}
    BY <2>2, <2>5 DEF CC!Continues, DataFollows
  <2> QED
    BY <2>3, <2>4, <2>5
<1>5. Own'
  BY <1>1, <1>3 DEF Own
<1>6. usEventOrDataReceived' \in BOOLEAN /\ usRxDataPending \in BOOLEAN
  BY <1>1 DEF CallInv
<1>7. CASE follows
  <2>1. AwaitsData'
    BY <1>1, <1>3, <1>4, <1>5, <1>7 DEF AwaitsData, DataOwed
  <2>2. script' = script /\ call' = "wait" /\ usRxDataPending' = TRUE
    BY <1>1, <1>4, <1>7
  <2> QED
    BY <1>2, <1>6, <2>1, <2>2 DEF CallInv, Busy, Sending
<1>8. CASE ~follows
  <2>1. script' = script /\ call' = "finished" /\ usRxDataPending' = usRxDataPending
        /\ due' = << >> /\ ~usEventOrDataReceived'
    BY <1>1, <1>3, <1>4, <1>8
  <2> QED
    BY <1>2, <1>3, <1>5, <1>6, <2>1 DEF CallInv, Busy, Sending
<1> QED
  BY <1>7, <1>8

\* A command is done: the next one, or the end of the call.
LEMMA CommandDone ==
  ASSUME CallInv, CC!NextCommand
  PROVE  CallInv'
<1> DEFINE more == Len(script) > 1 /\ (ret = 0 \/ Head(script).op = "SIMPLE_LINK_START")
<1>1. /\ call = "finished" /\ call' = (IF more THEN "send" ELSE "ready")
      /\ script' = (IF more THEN Tail(script) ELSE << >>)
      /\ UNCHANGED <<usRxEventOpcode, usRxDataPending, usEventOrDataReceived,
                     pucReceivedData, due>>
  BY DEF CC!NextCommand, CC!rx
<1>2. IsScript(script) /\ due = << >> /\ ~usEventOrDataReceived /\ ~usRxDataPending
  BY <1>1 DEF CallInv, Busy
<1>3. more => IsScript(script')
  BY <1>1, <1>2, TailFacts
<1>4. OnlyConnects(due') /\ FreeOrConnect'
  BY <1>1, <1>2 DEF OnlyConnects, FreeOrConnect
<1> HIDE DEF more
<1>5. call' \in {"send", "ready"} /\ (call' = "send" => IsScript(script'))
  BY <1>1, <1>3
<1> QED
  BY <1>1, <1>2, <1>4, <1>5 DEF CallInv, Busy, Sending

\* The radio asks for a patch.
LEMMA PatchAsked ==
  ASSUME CallInv, CC!ReceivePatchRequest
  PROVE  CallInv'
<1>1. /\ call # "off" /\ ~usEventOrDataReceived /\ due # << >>
      /\ Head(due) = "SIMPLE_LINK_START"
      /\ usEventOrDataReceived' = TRUE
      /\ UNCHANGED <<call, script, usRxEventOpcode, usRxDataPending, ret, due, answered>>
  BY DEF CC!ReceivePatchRequest, CC!Listening
<1>2. pucReceivedData'.op = "PATCHES_REQ"
  <2>1. pucReceivedData' = [op |-> "PATCHES_REQ", val |-> 0]
    BY DEF CC!ReceivePatchRequest
  <2> QED
    BY <2>1
<1>3. ~DataOwed
  <2>1. Head(<<"DATA">>) = "DATA"
    OBVIOUS
  <2> QED
    BY <1>1, <2>1 DEF DataOwed
<1>4. call \notin {"ready", "send"} \cup Sending
  <2> SUFFICES ASSUME call \in {"ready", "send"} \cup Sending PROVE FALSE
    OBVIOUS
  <2>1. due \in Seq({"WLAN_CONNECT"})
    BY DEF CallInv, OnlyConnects
  <2>2. Head(due) \in {"WLAN_CONNECT"}
    BY <1>1, <2>1, HeadTailProperties
  <2> QED
    BY <1>1, <2>2
<1>5. call = "wait" /\ Asked
  BY <1>1, <1>3, <1>4 DEF CallInv, Busy, InBuffer, AwaitsData
<1>6. Asked'
  BY <1>1, <1>2, <1>5 DEF Asked
<1> QED
  BY <1>1, <1>5, <1>6 DEF CallInv, Busy, Sending

LEMMA CallStep == CallInv /\ CC!Next => CallInv'
<1> SUFFICES ASSUME CallInv, CC!Next PROVE CallInv'
  OBVIOUS
<1>1. CASE CC!WlanStart
  <2>1. call = "off" /\ call' = "send" /\ IsScript(script') /\ due' = << >>
        /\ usRxDataPending' = FALSE /\ usEventOrDataReceived' = FALSE
    BY <1>1, StartScript DEF CC!WlanStart, CallInv
  <2>2. << >> \in Seq({"WLAN_CONNECT"})
    OBVIOUS
  <2>3. OnlyConnects(due') /\ FreeOrConnect'
    BY <2>1, <2>2 DEF OnlyConnects, FreeOrConnect
  <2> QED
    BY <2>1, <2>3 DEF CallInv, Busy, Sending
<1>2. CASE CC!WlanStop
  <2>1. call' = "off" /\ due' = << >>
        /\ UNCHANGED <<usRxDataPending, usEventOrDataReceived>>
    BY <1>2 DEF CC!WlanStop, CC!rx
  <2> QED
    BY <2>1 DEF CallInv, Busy, Sending
<1>3. ASSUME NEW s \in CC!Calls, CC!Invoke(s) PROVE CallInv'
  BY <1>3, CallsFacts, CallBegins DEF CC!Invoke, CC!rx
<1>4. ASSUME NEW s \in CC!Calls, CC!Refuse(s) PROVE CallInv'
  BY <1>4, CallUnchanged DEF CC!Refuse, CC!cc3000Vars, CC!rx, CallVars
<1>5. ASSUME NEW t \in BOOLEAN, NEW o \in BOOLEAN, CC!SetEventMask(t, o) PROVE CallInv'
  <2>1. CASE t /\ o
    BY <1>5, <2>1, CallMoves DEF CC!SetEventMask, CC!rx
  <2>2. CASE ~(t /\ o)
    <3>1. call = "ready" /\ call' = "send" /\ script' = CC!wlan_set_event_mask
          /\ UNCHANGED <<usRxEventOpcode, usRxDataPending, usEventOrDataReceived,
                     pucReceivedData, due>>
      BY <1>5, <2>2 DEF CC!SetEventMask, CC!rx
    <3>2. CC!wlan_set_event_mask \in CC!Calls
      BY DEF CC!Calls
    <3> QED
      BY <3>1, <3>2, CallsFacts, CallBegins
  <2> QED
    BY <2>1, <2>2
<1>6. CASE \/ CC!Send \/ CC!ConsumeFails \/ CC!ConsumeLoad \/ CC!ConsumeStore
           \/ CC!CountPacket \/ CC!PutPacket
  <2>1. /\ call \in {"ready"} \cup Sending /\ call' \in {"ready"} \cup Sending
        /\ UNCHANGED <<usRxEventOpcode, usRxDataPending, usEventOrDataReceived,
                       pucReceivedData, due>>
    BY <1>6 DEF CC!Send, CC!ConsumeFails, CC!ConsumeLoad, CC!ConsumeStore, CC!CountPacket,
                CC!PutPacket, CC!rx, Sending
  <2> QED
    BY <2>1, CallMoves
<1>7. ASSUME NEW s, CC!ReceiveFreeBuffer \/ CC!ReceiveUnsolicited \/ CC!ReceiveSendFailed(s)
      PROVE  CallInv'
  BY <1>7, CallUnchanged DEF CC!ReceiveFreeBuffer, CC!ReceiveUnsolicited,
     CC!ReceiveSendFailed, CC!rx, CallVars
<1> QED
  BY <1>1, <1>2, <1>3, <1>4, <1>5, <1>6, <1>7, CommandSent, EventHandled, DataHandled,
     PatchHandled, EventOver, CommandDone, PatchAsked, AnswerReceived DEF CC!Next
\* The radio is never given more than it has room for: what it holds, what is free and what
\* is on its way fit in it, also between the load and the store of the count of what is
\* free; and a packet counted as sent is released, held or about to be put. Before the
\* first command of a start has been answered the radio holds nothing.
FlowInv ==
  /\ held \in Nat /\ usNumberOfFreeBuffers \in Nat /\ reg \in Nat
  /\ NumberOfSentPackets \in Nat /\ NumberOfReleasedPackets \in Nat
  /\ usNumberOfFreeBuffers + held <= Buffers
  /\ call = "store" => reg >= 1 /\ reg + held <= Buffers
  /\ call \in {"count", "put"} => (usNumberOfFreeBuffers + held) + 1 <= Buffers
  /\ call = "off" => held = 0
  /\ call \notin {"off", "put"} => NumberOfSentPackets = NumberOfReleasedPackets + held
  /\ call = "put" => NumberOfSentPackets = (NumberOfReleasedPackets + held) + 1
  /\ call \in Busy /\ ~Ordinary(script) => held = 0

FlowVars == <<held, usNumberOfFreeBuffers, reg, NumberOfSentPackets, NumberOfReleasedPackets>>

LEMMA FlowInit == CC!Init => FlowInv
BY RadioAssumption DEF CC!Init, FlowInv, Busy

LEMMA FlowStep == CallInv /\ FlowInv /\ CC!Next => FlowInv'
<1> SUFFICES ASSUME CallInv, FlowInv, CC!Next PROVE FlowInv'
  OBVIOUS
<1> USE RadioAssumption
<1>1. CASE CC!WlanStart
  <2>1. call = "off" /\ call' = "send" /\ usNumberOfFreeBuffers' = 0
        /\ NumberOfSentPackets' = 0 /\ NumberOfReleasedPackets' = 0
        /\ held' = held /\ reg' = reg
    BY <1>1 DEF CC!WlanStart
  <2> QED
    BY <2>1 DEF FlowInv, Busy
<1>2. CASE CC!WlanStop
  <2>1. call' = "off" /\ held' = 0
        /\ UNCHANGED <<usNumberOfFreeBuffers, reg, NumberOfSentPackets, NumberOfReleasedPackets>>
    BY <1>2 DEF CC!WlanStop, CC!host
  <2> QED
    BY <2>1 DEF FlowInv, Busy
<1>3. ASSUME NEW s \in CC!Calls, CC!Invoke(s) PROVE FlowInv'
  <2>1. call = "ready" /\ call' = "send" /\ Ordinary(script') /\ UNCHANGED FlowVars
    BY <1>3, CallsFacts DEF CC!Invoke, CC!host, FlowVars
  <2> QED
    BY <2>1 DEF FlowInv, FlowVars, Busy
<1>4. ASSUME NEW s \in CC!Calls, CC!Refuse(s) PROVE FlowInv'
  BY <1>4 DEF CC!Refuse, CC!cc3000Vars, CC!host, FlowInv, Busy
<1>5. ASSUME NEW t \in BOOLEAN, NEW o \in BOOLEAN, CC!SetEventMask(t, o) PROVE FlowInv'
  <2>1. CC!wlan_set_event_mask \in CC!Calls
    BY DEF CC!Calls
  <2>2. call = "ready" /\ UNCHANGED FlowVars
        /\ (call' = "ready" \/ (call' = "send" /\ Ordinary(script')))
    BY <1>5, <2>1, CallsFacts DEF CC!SetEventMask, FlowVars
  <2> QED
    BY <2>2 DEF FlowInv, FlowVars, Busy
<1>6. CASE CC!SendCommand
  <2>1. call = "send" /\ UNCHANGED FlowVars
        /\ (call' = "ready" \/ (call' = "wait" /\ script' = script))
    BY <1>6 DEF CC!SendCommand, CC!host, FlowVars
  <2> QED
    BY <2>1 DEF FlowInv, FlowVars, Busy
<1>7. ASSUME NEW active, CC!HandleEvent(active) PROVE FlowInv'
  <2> DEFINE o == pucReceivedData.op
             c == Head(script)
  <2>1. /\ call = "wait" /\ call' \in {"wait", "returned"} /\ script' = script
        /\ usEventOrDataReceived /\ o \notin {"DATA", "PATCHES_REQ"}
        /\ usNumberOfFreeBuffers' = IF o = "READ_BUFFER_SIZE" THEN Buffers
                                    ELSE usNumberOfFreeBuffers
        /\ UNCHANGED <<held, reg, NumberOfSentPackets, NumberOfReleasedPackets>>
    BY <1>7 DEF CC!HandleEvent
  <2>2. o = "READ_BUFFER_SIZE" => c.op = "READ_BUFFER_SIZE"
    BY <2>1 DEF CallInv, Asked, InBuffer, AwaitsData, DataOwed
  <2>3. c.op = "READ_BUFFER_SIZE" => ~Ordinary(script)
    <3>1. IsScript(script)
      BY <2>1 DEF CallInv, Busy
    <3>2. PICK S : script \in Seq(S)
      BY <3>1 DEF IsScript
    <3>3. 1 \in 1 .. Len(script) /\ c = script[1]
      <4>1. Len(script) \in Nat /\ Len(script) # 0
        BY <3>1, <3>2 DEF IsScript
      <4> QED
        BY <3>2, <4>1
    <3> QED
      BY <3>3 DEF Ordinary, StartOps
  <2> HIDE DEF o, c
  <2>4. CASE o = "READ_BUFFER_SIZE"
    <3>1. held = 0
      BY <2>1, <2>2, <2>3, <2>4 DEF FlowInv, Busy
    <3> QED
      BY <2>1, <2>4, <3>1 DEF FlowInv, Busy
  <2>5. CASE o # "READ_BUFFER_SIZE"
    BY <2>1, <2>5 DEF FlowInv, Busy
  <2> QED
    BY <2>4, <2>5
<1>8. ASSUME NEW has, CC!HandleData \/ CC!HandlePatchRequest(has) \/ CC!AfterEvent(has)
      PROVE  FlowInv'
  <2>1. call \in Busy /\ call' \in Busy /\ script' = script /\ UNCHANGED FlowVars
        /\ call # "off" /\ call' # "off"
    BY <1>8 DEF CC!HandleData, CC!HandlePatchRequest, CC!AfterEvent, CC!host, FlowVars, Busy
  <2> QED
    BY <2>1 DEF FlowInv, FlowVars, Busy
<1>9. CASE CC!NextCommand
  <2>1. call = "finished" /\ UNCHANGED FlowVars
        /\ (call' = "ready" \/ (call' = "send" /\ Len(script) > 1 /\ script' = Tail(script)))
    BY <1>9 DEF CC!NextCommand, CC!host, FlowVars
  <2>2. IsScript(script)
    BY <2>1 DEF CallInv, Busy
  <2>3. call' = "send" => (Ordinary(script) => Ordinary(script'))
    BY <2>1, <2>2, TailFacts
  <2> QED
    BY <2>1, <2>3 DEF FlowInv, FlowVars, Busy
<1>10. CASE CC!Send \/ CC!ConsumeFails
  <2>1. call \in {"ready", "consume"} /\ call' \in {"ready", "consume"} /\ UNCHANGED FlowVars
    BY <1>10 DEF CC!Send, CC!ConsumeFails, CC!host, FlowVars
  <2> QED
    BY <2>1 DEF FlowInv, FlowVars, Busy
<1>11. CASE CC!ConsumeLoad
  <2>1. /\ call = "consume" /\ call' = "store" /\ usNumberOfFreeBuffers > 0
        /\ reg' = usNumberOfFreeBuffers
        /\ UNCHANGED <<held, usNumberOfFreeBuffers, NumberOfSentPackets,
                       NumberOfReleasedPackets>>
    BY <1>11 DEF CC!ConsumeLoad, CC!host
  <2> QED
    BY <2>1 DEF FlowInv, Busy
<1>12. CASE CC!ConsumeStore
  <2>1. /\ call = "store" /\ call' = "count" /\ usNumberOfFreeBuffers' = reg - 1 /\ reg' = 0
        /\ UNCHANGED <<held, NumberOfSentPackets, NumberOfReleasedPackets>>
    BY <1>12 DEF CC!ConsumeStore
  <2> QED
    BY <2>1 DEF FlowInv, Busy
<1>13. CASE CC!CountPacket
  <2>1. /\ call = "count" /\ call' = "put" /\ NumberOfSentPackets' = NumberOfSentPackets + 1
        /\ UNCHANGED <<held, usNumberOfFreeBuffers, reg, NumberOfReleasedPackets>>
    BY <1>13 DEF CC!CountPacket
  <2> QED
    BY <2>1 DEF FlowInv, Busy
<1>14. CASE CC!PutPacket
  <2>1. /\ call = "put" /\ call' = "ready" /\ held' = held + 1
        /\ UNCHANGED <<usNumberOfFreeBuffers, reg, NumberOfSentPackets,
                       NumberOfReleasedPackets>>
    BY <1>14 DEF CC!PutPacket, CC!hci_data_send, CC!host
  <2> QED
    BY <2>1 DEF FlowInv, Busy
<1>15. CASE CC!ReceiveFreeBuffer
  <2>1. /\ held > 0 /\ held' = held - 1 /\ UNCHANGED <<call, script, reg, NumberOfSentPackets>>
        /\ usNumberOfFreeBuffers' = usNumberOfFreeBuffers + 1
        /\ NumberOfReleasedPackets' = NumberOfReleasedPackets + 1
    BY <1>15 DEF CC!ReceiveFreeBuffer
  <2> QED
    BY <2>1 DEF FlowInv, Busy
<1>16. ASSUME NEW v, \/ CC!ReceiveAnswer(v) \/ CC!ReceivePatchRequest
                     \/ CC!ReceiveUnsolicited \/ CC!ReceiveSendFailed(v)
       PROVE  FlowInv'
  <2>1. UNCHANGED <<call, script>> /\ UNCHANGED FlowVars
    BY <1>16 DEF CC!ReceiveAnswer, CC!ReceivePatchRequest, CC!ReceiveUnsolicited,
                 CC!ReceiveSendFailed, CC!host, FlowVars
  <2> QED
    BY <2>1 DEF FlowInv, FlowVars, Busy
<1> QED
  BY <1>1, <1>2, <1>3, <1>4, <1>5, <1>6, <1>7, <1>8, <1>9, <1>10, <1>11, <1>12, <1>13,
     <1>14, <1>15, <1>16 DEF CC!Next

\* Over the transport as it is ported the program is in wlan_start, or before it.
PortedInv ==
  transport = "ported" => /\ ~usEventOrDataReceived /\ call \in {"off", "send", "wait"}
                          /\ call = "send" => script = CC!wlan_start

LEMMA PortedInit == CC!Init => PortedInv
BY DEF CC!Init, PortedInv

LEMMA PortedStep == PortedInv /\ CC!Next => PortedInv'
<1> SUFFICES ASSUME PortedInv, CC!Next, transport' = "ported" PROVE PortedInv'
  BY DEF PortedInv
<1>1. transport = "ported" /\ ~usEventOrDataReceived /\ call \in {"off", "send", "wait"}
      /\ (call = "send" => script = CC!wlan_start)
  BY DEF CC!Next, PortedInv
<1>2. Head(CC!wlan_start).waits = TRUE
  <2> DEFINE a == [op |-> "SIMPLE_LINK_START", waits |-> TRUE, data |-> "never"]
             b == [op |-> "READ_BUFFER_SIZE", waits |-> TRUE, data |-> "never"]
  <2>1. CC!wlan_start = <<a, b>>
    BY DEF CC!wlan_start, CC!SimpleLink_Init_Start, CC!Cmd
  <2>2. a.waits = TRUE
    OBVIOUS
  <2> HIDE DEF a, b
  <2> QED
    BY <2>1, <2>2
<1>3. CASE CC!WlanStart
  BY <1>3 DEF CC!WlanStart, PortedInv
<1>4. CASE CC!SendCommand
  BY <1>1, <1>2, <1>4 DEF CC!SendCommand, PortedInv
<1>5. CC!WlanStart \/ CC!SendCommand
  <2>1. ASSUME NEW s, NEW o,
               \/ CC!WlanStop \/ CC!Invoke(s) \/ CC!Refuse(s) \/ CC!SetEventMask(s, o)
               \/ CC!HandleEvent(s) \/ CC!HandleData \/ CC!AfterEvent(s)
               \/ CC!NextCommand \/ CC!HandlePatchRequest(s) \/ CC!Send
               \/ CC!ConsumeFails \/ CC!ConsumeLoad \/ CC!ConsumeStore
               \/ CC!CountPacket \/ CC!PutPacket \/ CC!ReceiveAnswer(s)
               \/ CC!ReceivePatchRequest \/ CC!ReceiveFreeBuffer
               \/ CC!ReceiveUnsolicited \/ CC!ReceiveSendFailed(s)
        PROVE  FALSE
    BY <1>1, <2>1 DEF CC!WlanStop, CC!Invoke, CC!Refuse, CC!SetEventMask, CC!HandleEvent,
       CC!HandleData, CC!AfterEvent, CC!NextCommand, CC!HandlePatchRequest, CC!Send,
       CC!ConsumeFails, CC!ConsumeLoad, CC!ConsumeStore, CC!CountPacket, CC!PutPacket,
       CC!ReceiveAnswer, CC!ReceivePatchRequest, CC!ReceiveFreeBuffer,
       CC!ReceiveUnsolicited, CC!ReceiveSendFailed, CC!Listening
  <2> QED
    BY <2>1 DEF CC!Next
<1> QED
  BY <1>3, <1>4, <1>5

\* The invariants give what a call promises.
LEMMA CallSafe ==
  CallInv /\ FlowInv => CC!OwnAnswer /\ CC!NoOverrun /\ CC!OnlyConnectPauses
<1> SUFFICES ASSUME CallInv, FlowInv
             PROVE  CC!OwnAnswer /\ CC!NoOverrun /\ CC!OnlyConnectPauses
  OBVIOUS
<1>1. CC!OwnAnswer
  BY DEF CallInv, Own, CC!OwnAnswer
<1>2. CC!NoOverrun
  BY RadioAssumption DEF FlowInv, CC!NoOverrun
<1>3. CC!OnlyConnectPauses
  BY DEF CallInv, FreeOrConnect, Sending, CC!OnlyConnectPauses
<1> QED
  BY <1>1, <1>2, <1>3

\* The program is told that it may shut down when the last packet has been released.
LEMMA ShutDownSafe == FlowInv /\ CC!Next => CC!ShutDownIsSafeStep
<1> SUFFICES ASSUME FlowInv, CC!Next, told' = "CAN_SHUT_DOWN", told # told'
             PROVE  held' = 0
  BY DEF CC!ShutDownIsSafeStep
<1>1. CASE CC!ReceiveFreeBuffer
  <2>1. /\ held > 0 /\ held' = held - 1 /\ call # "off"
        /\ NumberOfReleasedPackets + 1 = NumberOfSentPackets
    BY <1>1 DEF CC!ReceiveFreeBuffer, CC!AllReleased, CC!Listening
  <2> QED
    BY <2>1 DEF FlowInv
<1>2. ASSUME NEW s, NEW o, ~CC!ReceiveFreeBuffer,
             \/ CC!WlanStart \/ CC!WlanStop \/ CC!Invoke(s) \/ CC!Refuse(s)
             \/ CC!SetEventMask(s, o) \/ CC!SendCommand \/ CC!HandleEvent(s) \/ CC!HandleData
             \/ CC!AfterEvent(s) \/ CC!NextCommand \/ CC!HandlePatchRequest(s) \/ CC!Send
             \/ CC!ConsumeFails \/ CC!ConsumeLoad \/ CC!ConsumeStore \/ CC!CountPacket
             \/ CC!PutPacket \/ CC!ReceiveAnswer(s) \/ CC!ReceivePatchRequest
             \/ CC!ReceiveUnsolicited \/ CC!ReceiveSendFailed(s)
      PROVE  told' = told \/ told' = "none"
  BY <1>2 DEF CC!WlanStart, CC!WlanStop, CC!Invoke, CC!Refuse, CC!SetEventMask,
     CC!SendCommand, CC!HandleEvent, CC!HandleData, CC!AfterEvent, CC!NextCommand,
     CC!HandlePatchRequest, CC!Send, CC!ConsumeFails, CC!ConsumeLoad, CC!ConsumeStore,
     CC!CountPacket, CC!PutPacket, CC!ReceiveAnswer, CC!ReceivePatchRequest,
     CC!ReceiveUnsolicited, CC!ReceiveSendFailed, CC!cc3000Vars
<1> QED
  BY <1>1, <1>2 DEF CC!Next
-----------------------------------------------------------------------------
(* libraries/Servo                                                         *)

Ticks == {t \in Nat : t < SV!Span}
Int8s == {b \in Int : -128 <= b /\ b <= 127}
Indices == 0 .. MAX_SERVOS - 1
PinOf == [nbr : Pins \cup {0}, isActive : BOOLEAN, ticks : Ticks]
ObjectOf == [index : Int, min : Int8s, max : Int8s]
PulseOf == [channel : Indices \cup {-1}, ticks : Ticks, since : Ticks, met : BOOLEAN]

ServoTypeOK ==
  /\ servos \in [Indices -> PinOf]
  /\ ServoCount \in 0 .. MAX_SERVOS
  /\ object \in [ServoObjects -> ObjectOf]
  /\ Channel \in Indices \cup {-1}
  /\ OCRnA \in Ticks
  /\ pulse \in PulseOf

\* A pin that is high is left so, or it is that of the pulse.
HighPins ==
  \A p \in level \ left : pulse.channel \in Indices /\ p = servos[pulse.channel].nbr

\* The pulse under way is that of the channel the interrupt was last at; nothing met it, and
\* then its servo is active and the compare value its end; or something did, and then the
\* pins that are high are those left so.
PulseTimed ==
  pulse.channel # -1 =>
    /\ pulse.channel = Channel /\ Channel < ServoCount
    /\ pulse.met => level \subseteq left
    /\ ~pulse.met => /\ servos[Channel].isActive
                     /\ OCRnA = (pulse.since + pulse.ticks) % SV!Span

ServoInv == ServoTypeOK /\ HighPins /\ PulseTimed /\ late = 0 /\ misread = 0

\* The pulse widths an object allows.
LEMMA WidthFacts ==
  ASSUME ServoTypeOK, NEW o \in ServoObjects
  PROVE  /\ SV!SERVO_MIN(o) \in Int /\ 36 <= SV!SERVO_MIN(o) /\ SV!SERVO_MIN(o) <= 1056
         /\ SV!SERVO_MAX(o) \in Int /\ 1892 <= SV!SERVO_MAX(o) /\ SV!SERVO_MAX(o) <= 2912
<1>1. object[o].min \in Int8s /\ object[o].max \in Int8s
  BY DEF ServoTypeOK, ObjectOf
<1> QED
  BY <1>1 DEF Int8s, SV!SERVO_MIN, SV!SERVO_MAX, SV!MIN_PULSE_WIDTH, SV!MAX_PULSE_WIDTH

\* What writeMicroseconds stores fits in the timer.
LEMMA TicksFacts ==
  ASSUME ServoTypeOK, NEW o \in ServoObjects, NEW v \in Int
  PROVE  SV!writeMicroseconds(o, v) \in Ticks
<1> DEFINE lo == SV!SERVO_MIN(o)
           hi == SV!SERVO_MAX(o)
           c == SV!Clip(v, lo, hi)
<1>1. lo \in Int /\ 36 <= lo /\ lo <= 1056 /\ hi \in Int /\ 1892 <= hi /\ hi <= 2912
  BY WidthFacts
<1> HIDE DEF lo, hi
<1>2. c \in Int /\ 36 <= c /\ c <= 2912
  BY <1>1 DEF SV!Clip
<1> HIDE DEF c
<1>3. SV!writeMicroseconds(o, v) = 2 * (c - 2)
  BY DEF SV!writeMicroseconds, SV!usToTicks, SV!TRIM_DURATION, c, lo, hi
<1> QED
  BY <1>2, <1>3 DEF Ticks, SV!Span

\* The angle read back is the angle written, whatever the limits.
LEMMA AngleFacts ==
  ASSUME ServoTypeOK, NEW o \in ServoObjects, NEW a \in Nat, a <= 180
  PROVE  LET us == SV!map(a, 0, 180, SV!SERVO_MIN(o), SV!SERVO_MAX(o))
         IN  us \in Int /\ SV!Read(o, SV!writeMicroseconds(o, us)) = a
<1> DEFINE lo == SV!SERVO_MIN(o)
           hi == SV!SERVO_MAX(o)
           s == hi - lo
           p == a * s
           q == p \div 180
<1>1. lo \in Int /\ 36 <= lo /\ lo <= 1056 /\ hi \in Int /\ 1892 <= hi /\ hi <= 2912
  BY WidthFacts
<1> HIDE DEF lo, hi
<1>2. s \in Int /\ 836 <= s /\ s <= 2876 /\ hi = lo + s
  BY <1>1
<1> HIDE DEF s
<1>3. p \in Nat /\ p <= 180 * s
  <2>1. \A x, y \in Nat : x <= 180 => x * y \in Nat /\ x * y <= 180 * y
    OBVIOUS
  <2> QED
    BY <1>2, <2>1
<1>4. (a - 0) * (hi - lo) = p
  BY <1>1 DEF s
<1> HIDE DEF p
<1>5. q \in Nat /\ q <= s /\ p < (q + 1) * 180 /\ (q + 1) * 180 <= p + 180
  BY <1>2, <1>3
<1>6. SV!map(a, 0, 180, lo, hi) = q + lo
  BY <1>1, <1>3, <1>4 DEF SV!map, SV!Div
<1> HIDE DEF q
<1>7. SV!writeMicroseconds(o, q + lo) = 2 * (q + lo - 2)
  BY <1>1, <1>2, <1>5 DEF SV!writeMicroseconds, SV!Clip, SV!usToTicks, SV!TRIM_DURATION, lo, hi
<1>8. SV!readMicroseconds(2 * (q + lo - 2)) = q + lo
  <2> DEFINE w == q + lo - 2
  <2>1. w \in Nat /\ w < 4096 /\ q + lo = w + 2
    BY <1>1, <1>2, <1>5
  <2> HIDE DEF w
  <2>2. 8 * (2 * w) = 16 * w /\ (16 * w) % 65536 = 16 * w /\ (16 * w) \div 16 = w
    BY <2>1
  <2>3. SV!readMicroseconds(2 * w) = w + 2
    BY <2>1, <2>2 DEF SV!readMicroseconds, SV!ticksToUs, SV!Span, SV!TRIM_DURATION
  <2> QED
    BY <2>1, <2>3 DEF w
<1>9. SV!Read(o, 2 * (q + lo - 2))
        = SV!Div(((SV!readMicroseconds(2 * (q + lo - 2)) + 1) - lo) * (180 - 0), hi - lo) + 0
  BY DEF SV!Read, SV!map, lo, hi
<1>10. ((SV!readMicroseconds(2 * (q + lo - 2)) + 1) - lo) * (180 - 0) = (q + 1) * 180 /\ hi - lo = s
  BY <1>1, <1>2, <1>5, <1>8
<1>11. ((q + 1) * 180) \div s = a
  <2> DEFINE x == (q + 1) * 180
  <2>1. x \in Nat /\ a * s <= x /\ x < a * s + s
    BY <1>2, <1>3, <1>5 DEF p
  <2>2. s \in Nat \ {0} /\ a \in Nat
    BY <1>2
  <2> HIDE DEF x
  <2>3. x \div s = a
    BY <2>1, <2>2, QuotientFacts
  <2> QED
    BY <2>3 DEF x
<1>12. SV!Read(o, 2 * (q + lo - 2)) = a
  BY <1>5, <1>9, <1>10, <1>11 DEF SV!Div
<1> QED
  BY <1>1, <1>5, <1>6, <1>7, <1>12 DEF lo, hi

LEMMA ServoInit == SV!Init => ServoInv
<1> SUFFICES ASSUME SV!Init PROVE ServoInv
  OBVIOUS
<1>1. 0 \in Ticks /\ MAX_SERVOS \in Nat
  BY ServoAssumption DEF Ticks, SV!Span
<1>2. servos \in [Indices -> PinOf] /\ object \in [ServoObjects -> ObjectOf] /\ pulse \in PulseOf
  BY <1>1 DEF Int8s, SV!Init, SV!NoPulse, PinOf, ObjectOf, PulseOf, Indices
<1>3. pulse.channel = -1 /\ level = {}
  BY DEF SV!Init, SV!NoPulse
<1>4. HighPins /\ PulseTimed
  BY <1>3 DEF HighPins, PulseTimed
<1>5. ServoCount = 0 /\ Channel \in Indices /\ OCRnA = 0 /\ late = 0 /\ misread = 0
  BY ServoAssumption DEF SV!Init, Indices
<1> QED
  BY <1>1, <1>2, <1>4, <1>5 DEF ServoInv, ServoTypeOK

\* A call that leaves the pulse and the pins alone keeps the invariant.
LEMMA QuietCall ==
  ASSUME ServoInv, ServoTypeOK', UNCHANGED <<Channel, OCRnA, level, pulse, left, late>>,
         misread' = 0, ServoCount <= ServoCount',
         \A i \in Indices : /\ servos'[i].nbr = servos[i].nbr
                            /\ servos[i].isActive => servos'[i].isActive
  PROVE  ServoInv'
<1>1. HighPins'
  BY DEF ServoInv, HighPins
<1>2. PulseTimed'
  <2> SUFFICES ASSUME pulse.channel # -1 PROVE PulseTimed'
    BY DEF PulseTimed
  <2>1. pulse.channel = Channel /\ Channel \in Indices /\ Channel < ServoCount
    BY DEF ServoInv, ServoTypeOK, PulseTimed
  <2>2. Channel < ServoCount'
    BY <2>1 DEF ServoInv, ServoTypeOK, Indices
  <2> QED
    BY <2>1, <2>2 DEF ServoInv, PulseTimed
<1> QED
  BY <1>1, <1>2 DEF ServoInv

\* attach and detach: what met the pulse.
LEMMA MeetingCall ==
  ASSUME ServoInv, NEW j \in Indices, ServoTypeOK', SV!Meets(j),
         UNCHANGED <<Channel, OCRnA, level, late, misread, ServoCount>>,
         \A i \in Indices \ {j} : /\ servos'[i].nbr = servos[i].nbr
                                  /\ servos'[i].isActive = servos[i].isActive
  PROVE  ServoInv'
<1>1. /\ pulse'.channel = pulse.channel /\ pulse'.since = pulse.since
      /\ pulse'.ticks = pulse.ticks
      /\ pulse.channel # j => pulse' = pulse
      /\ pulse.channel = j => pulse'.met
  BY DEF SV!Meets, ServoInv, ServoTypeOK, PulseOf
<1>2. left \subseteq left' /\ (pulse.channel = j => servos[j].nbr \in left')
  BY DEF SV!Meets
<1>3. CASE pulse.channel = j
  <2>1. level \subseteq left'
    BY <1>2, <1>3 DEF ServoInv, HighPins
  <2>2. PulseTimed'
    BY <1>1, <1>3, <2>1 DEF ServoInv, PulseTimed
  <2> QED
    BY <2>1, <2>2 DEF ServoInv, HighPins
<1>4. CASE pulse.channel # j
  <2>1. pulse' = pulse /\ left' = left
    BY <1>1, <1>4 DEF SV!Meets
  <2>2. HighPins'
    BY <1>4, <2>1 DEF ServoInv, HighPins
  <2>3. PulseTimed'
    <3> SUFFICES ASSUME pulse.channel # -1 PROVE PulseTimed'
      BY <2>1 DEF PulseTimed
    <3>1. pulse.channel = Channel /\ Channel \in Indices \ {j}
      BY <1>4 DEF ServoInv, ServoTypeOK, PulseTimed
    <3>2. servos'[Channel].isActive = servos[Channel].isActive
      BY <3>1
    <3> QED
      BY <2>1, <3>1, <3>2 DEF ServoInv, PulseTimed
  <2> QED
    BY <2>2, <2>3 DEF ServoInv
<1> QED
  BY <1>3, <1>4

\* The interrupt ends a pulse at its time and starts the next.
LEMMA InterruptStep == ServoInv /\ SV!handle_interrupts => ServoInv'
<1> SUFFICES ASSUME ServoInv, SV!handle_interrupts PROVE ServoInv'
  OBVIOUS
<1> DEFINE next == Channel + 1
           more == next < ServoCount /\ next < MAX_SERVOS
           rises == more /\ servos[next].isActive
           width == (OCRnA - pulse.since) % SV!Span
           now == IF Channel < 0 THEN 0 ELSE OCRnA
<1>1. /\ OCRnA' = IF more THEN SV!Compare(next, now)
                  ELSE IF now + 4 < SV!RefreshTicks THEN SV!RefreshTicks ELSE (now + 4) % SV!Span
      /\ Channel' = IF more THEN next ELSE -1
      /\ level' = IF rises THEN SV!Lowered \cup {servos[next].nbr} ELSE SV!Lowered
      /\ late' = IF pulse.channel = Channel /\ Channel >= 0 /\ ~pulse.met
                 THEN width - pulse.ticks ELSE late
      /\ pulse' = IF rises
                  THEN [channel |-> next, ticks |-> servos[next].ticks, since |-> now, met |-> FALSE]
                  ELSE [channel |-> -1, ticks |-> 0, since |-> 0, met |-> FALSE]
      /\ UNCHANGED <<servos, ServoCount, object, left, misread>>
  BY DEF SV!handle_interrupts, SV!NoPulse
<1>2. /\ ServoCount \in Nat /\ OCRnA \in Ticks /\ Channel \in Indices \cup {-1}
      /\ servos \in [Indices -> PinOf]
      /\ pulse.channel \in Indices \cup {-1} /\ pulse.met \in BOOLEAN
      /\ pulse.ticks \in Ticks /\ pulse.since \in Ticks
  BY DEF ServoInv, ServoTypeOK, PulseOf
<1>3. MAX_SERVOS \in Nat /\ SV!Span = 65536 /\ Ticks = {t \in Nat : t < 65536}
  BY ServoAssumption DEF Ticks, SV!Span
<1>4. /\ now \in Ticks /\ next \in Nat /\ (more => next \in Indices)
      /\ (Channel >= 0 <=> Channel # -1)
  BY <1>2, <1>3 DEF Indices
<1>5. late' = 0
  <2>1. CASE pulse.channel = Channel /\ Channel >= 0 /\ ~pulse.met
    <3>1. OCRnA = (pulse.since + pulse.ticks) % 65536
      BY <1>3, <1>4, <2>1 DEF ServoInv, PulseTimed
    <3>2. \A x, y \in Nat : x < 65536 /\ y < 65536 => (((x + y) % 65536) - x) % 65536 = y
      OBVIOUS
    <3>3. width = pulse.ticks
      BY <1>2, <1>3, <3>1, <3>2
    <3>4. pulse.ticks \in Int
      BY <1>2, <1>3
    <3> HIDE DEF width
    <3> QED
      BY <1>1, <2>1, <3>3, <3>4
  <2>2. CASE ~(pulse.channel = Channel /\ Channel >= 0 /\ ~pulse.met)
    BY <1>1, <2>2 DEF ServoInv
  <2> QED
    BY <2>1, <2>2
<1>6. SV!Lowered \subseteq left
  <2>1. SV!Lowered \subseteq level
    BY DEF SV!Lowered
  <2>2. CASE pulse.channel = -1
    <3>1. -1 \notin Indices
      BY DEF Indices
    <3> QED
      BY <2>1, <2>2, <3>1 DEF ServoInv, HighPins
  <2>3. CASE pulse.channel # -1 /\ pulse.met
    BY <2>1, <2>3 DEF ServoInv, PulseTimed
  <2>4. CASE pulse.channel # -1 /\ ~pulse.met
    <3>1. /\ pulse.channel = Channel /\ Channel < ServoCount /\ servos[Channel].isActive
          /\ Channel >= 0
      BY <1>4, <2>4 DEF ServoInv, PulseTimed
    <3>2. SV!Lowered = level \ {servos[Channel].nbr}
      BY <3>1 DEF SV!Lowered
    <3> QED
      BY <3>1, <3>2 DEF ServoInv, HighPins
  <2> QED
    BY <1>2, <2>2, <2>3, <2>4
<1>7. CASE rises
  <2>1. /\ OCRnA' = (now + servos[next].ticks) % SV!Span /\ Channel' = next
        /\ level' = SV!Lowered \cup {servos[next].nbr}
        /\ pulse' = [channel |-> next, ticks |-> servos[next].ticks, since |-> now, met |-> FALSE]
    BY <1>1, <1>7 DEF SV!Compare
  <2>2. next \in Indices /\ next < ServoCount /\ servos[next].isActive
    BY <1>4, <1>7
  <2> HIDE DEF next, now
  <2>3. servos[next].ticks \in Ticks
    BY <1>2, <2>2 DEF PinOf
  <2>4. OCRnA' \in Ticks
    BY <1>3, <1>4, <2>1, <2>3
  <2>5. pulse' \in PulseOf
    BY <1>4, <2>1, <2>2, <2>3 DEF PulseOf
  <2>6. /\ pulse'.channel = next /\ pulse'.ticks = servos[next].ticks /\ pulse'.since = now
        /\ pulse'.met = FALSE
    BY <2>1
  <2>7. ServoTypeOK'
    BY <1>1, <2>1, <2>2, <2>4, <2>5 DEF ServoInv, ServoTypeOK
  <2>8. HighPins'
    BY <1>1, <1>6, <2>1, <2>2, <2>6 DEF HighPins
  <2>9. PulseTimed'
    BY <1>1, <2>1, <2>2, <2>6 DEF PulseTimed
  <2> QED
    BY <1>1, <1>5, <2>7, <2>8, <2>9 DEF ServoInv
<1>8. CASE ~rises
  <2>1. /\ pulse' = [channel |-> -1, ticks |-> 0, since |-> 0, met |-> FALSE]
        /\ level' = SV!Lowered
    BY <1>1, <1>8
  <2>2. OCRnA' \in Ticks
    <3>1. CASE more
      <4>1. OCRnA' = (now + servos[next].ticks) % 65536
        BY <1>1, <1>3, <3>1 DEF SV!Compare
      <4>2. servos[next].ticks \in Ticks
        BY <1>2, <1>4, <3>1 DEF PinOf
      <4> HIDE DEF next, now
      <4> QED
        BY <1>3, <1>4, <4>1, <4>2
    <3>2. CASE ~more
      <4>1. OCRnA' = IF now + 4 < 40000 THEN 40000 ELSE (now + 4) % 65536
        BY <1>1, <1>3, <3>2 DEF SV!RefreshTicks, SV!usToTicks
      <4> HIDE DEF now
      <4> QED
        BY <1>3, <1>4, <4>1
    <3> QED
      BY <3>1, <3>2
  <2>3. Channel' \in Indices \cup {-1}
    BY <1>1, <1>4
  <2>4. pulse' \in PulseOf /\ pulse'.channel = -1
    BY <1>3, <2>1 DEF PulseOf
  <2>5. ServoTypeOK'
    BY <1>1, <2>2, <2>3, <2>4 DEF ServoInv, ServoTypeOK
  <2> QED
    BY <1>1, <1>5, <1>6, <2>1, <2>4, <2>5 DEF ServoInv, HighPins, PulseTimed
<1> QED
  BY <1>7, <1>8

LEMMA ServoStep == ServoInv /\ SV!Next => ServoInv'
<1> SUFFICES ASSUME ServoInv, SV!Next PROVE ServoInv'
  OBVIOUS
<1>0. MAX_SERVOS \in Nat
  BY ServoAssumption
<1>1. ASSUME NEW o \in ServoObjects, SV!construct(o) PROVE ServoInv'
  <2>1. UNCHANGED <<Channel, OCRnA, level, pulse, left, late, misread>>
    BY <1>1 DEF SV!construct
  <2>2. CASE ServoCount < MAX_SERVOS
    <3>1. /\ object' = [object EXCEPT ![o].index = ServoCount]
          /\ servos' = [servos EXCEPT ![ServoCount].ticks = 3000]
          /\ ServoCount' = ServoCount + 1
      BY <1>1, <2>2 DEF SV!construct, SV!DEFAULT_PULSE_WIDTH, SV!usToTicks
    <3>2. 3000 \in Ticks
      BY DEF Ticks, SV!Span
    <3>3. servos' \in [Indices -> PinOf]
      <4>1. servos \in [Indices -> PinOf] /\ ServoCount \in Indices
        BY <1>0, <2>2 DEF ServoInv, ServoTypeOK, Indices
      <4> QED
        BY <3>1, <3>2, <4>1 DEF PinOf
    <3>4. \A i \in Indices : servos'[i].nbr = servos[i].nbr /\ servos'[i].isActive = servos[i].isActive
      BY <3>1 DEF ServoInv, ServoTypeOK, PinOf
    <3>5. ServoCount \in Int /\ ServoCount' \in 0 .. MAX_SERVOS /\ ServoCount <= ServoCount'
      BY <1>0, <2>2, <3>1 DEF ServoInv, ServoTypeOK
    <3>6. object' \in [ServoObjects -> ObjectOf]
      BY <3>1, <3>5 DEF ServoInv, ServoTypeOK, ObjectOf
    <3>7. ServoTypeOK'
      BY <2>1, <3>3, <3>5, <3>6 DEF ServoInv, ServoTypeOK
    <3> QED
      BY <2>1, <3>4, <3>5, <3>7, QuietCall DEF ServoInv
  <2>3. CASE ~(ServoCount < MAX_SERVOS)
    <3>1. object' = [object EXCEPT ![o].index = 255] /\ UNCHANGED <<servos, ServoCount>>
      BY <1>1, <2>3 DEF SV!construct, SV!INVALID_SERVO
    <3>2. object' \in [ServoObjects -> ObjectOf]
      BY <3>1 DEF ServoInv, ServoTypeOK, ObjectOf
    <3>3. ServoTypeOK' /\ ServoCount <= ServoCount'
      BY <1>0, <2>1, <3>1, <3>2 DEF ServoInv, ServoTypeOK
    <3> QED
      BY <2>1, <3>1, <3>3, QuietCall DEF ServoInv
  <2> QED
    BY <2>2, <2>3
<1>2. ASSUME NEW o \in ServoObjects, SV!detach(o) PROVE ServoInv'
  <2> DEFINE j == object[o].index
  <2>1. /\ j \in Indices /\ SV!Meets(j)
        /\ servos' = [servos EXCEPT ![j].isActive = FALSE]
        /\ UNCHANGED <<ServoCount, object, Channel, OCRnA, level, late, misread>>
    BY <1>2 DEF SV!detach, SV!Valid, ServoInv, ServoTypeOK
  <2> HIDE DEF j
  <2>2. servos' \in [Indices -> PinOf]
    BY <2>1 DEF ServoInv, ServoTypeOK, PinOf
  <2>3. \A i \in Indices \ {j} : servos'[i] = servos[i]
    BY <2>1 DEF ServoInv, ServoTypeOK
  <2>4. pulse' \in PulseOf
    BY <2>1 DEF SV!Meets, ServoInv, ServoTypeOK, PulseOf
  <2>5. ServoTypeOK'
    BY <2>1, <2>2, <2>4 DEF ServoInv, ServoTypeOK
  <2> QED
    BY <2>1, <2>3, <2>5, MeetingCall
<1>3. ASSUME NEW o \in ServoObjects, NEW p \in Pins, NEW l \in Limits, SV!attach(o, p, l) PROVE ServoInv'
  <2> DEFINE j == object[o].index
             mn == SV!Int8(SV!Div(SV!MIN_PULSE_WIDTH - l[1], 4))
             mx == SV!Int8(SV!Div(SV!MAX_PULSE_WIDTH - l[2], 4))
  <2>1. /\ j \in Indices /\ SV!Meets(j)
        /\ servos' = [servos EXCEPT ![j].nbr = p]
        /\ object' = [object EXCEPT ![o].min = mn, ![o].max = mx]
        /\ UNCHANGED <<ServoCount, Channel, OCRnA, level, late, misread>>
    BY <1>3 DEF SV!attach, SV!Valid, ServoInv, ServoTypeOK
  <2>2. mn \in Int8s /\ mx \in Int8s
    <3>1. l[1] \in Int /\ l[2] \in Int
      BY ServoAssumption
    <3>2. \A x \in Int : SV!Div(x, 4) \in Int
      BY DEF SV!Div
    <3>3. \A x \in Int : SV!Int8(x) \in Int8s
      BY DEF SV!Int8, Int8s
    <3>4. SV!MIN_PULSE_WIDTH - l[1] \in Int /\ SV!MAX_PULSE_WIDTH - l[2] \in Int
      BY <3>1 DEF SV!MIN_PULSE_WIDTH, SV!MAX_PULSE_WIDTH
    <3> QED
      BY <3>2, <3>3, <3>4
  <2> HIDE DEF j, mn, mx
  <2>3. servos' \in [Indices -> PinOf]
    BY <2>1 DEF ServoInv, ServoTypeOK, PinOf
  <2>4. \A i \in Indices \ {j} : servos'[i] = servos[i]
    BY <2>1 DEF ServoInv, ServoTypeOK
  <2>5. pulse' \in PulseOf
    BY <2>1 DEF SV!Meets, ServoInv, ServoTypeOK, PulseOf
  <2>6. object' \in [ServoObjects -> ObjectOf]
    BY <2>1, <2>2 DEF ServoInv, ServoTypeOK, ObjectOf
  <2>7. ServoTypeOK'
    BY <2>1, <2>3, <2>5, <2>6 DEF ServoInv, ServoTypeOK
  <2> QED
    BY <2>1, <2>4, <2>7, MeetingCall
<1>4. ASSUME NEW o \in ServoObjects, NEW v \in Angles, SV!write(o, v) PROVE ServoInv'
  <2> DEFINE j == object[o].index
             a == SV!Clip(v, 0, 180)
             us == IF v < 544 THEN SV!map(a, 0, 180, SV!SERVO_MIN(o), SV!SERVO_MAX(o)) ELSE v
             ticks == SV!writeMicroseconds(o, us)
  <2>1. /\ servos' = [servos EXCEPT ![j].ticks = ticks]
        /\ misread' = IF v < 544 THEN SV!Read(o, ticks) - a ELSE misread
        /\ UNCHANGED <<ServoCount, object, Channel, OCRnA, level, pulse, left, late>>
    BY <1>4 DEF SV!write, SV!MIN_PULSE_WIDTH
  <2>2. v \in Int
    BY ServoAssumption
  <2>3. a \in Nat /\ a <= 180
    BY <2>2 DEF SV!Clip
  <2> HIDE DEF a, j
  <2>4. LET u == SV!map(a, 0, 180, SV!SERVO_MIN(o), SV!SERVO_MAX(o))
        IN  u \in Int /\ SV!Read(o, SV!writeMicroseconds(o, u)) = a
    BY <2>3, AngleFacts DEF ServoInv
  <2>5. us \in Int /\ (v < 544 => SV!Read(o, ticks) = a)
    BY <2>2, <2>4
  <2> HIDE DEF us
  <2>6. ticks \in Ticks
    BY <2>5, TicksFacts DEF ServoInv
  <2> HIDE DEF ticks
  <2>7. servos' \in [Indices -> PinOf]
    BY <2>1, <2>6 DEF ServoInv, ServoTypeOK, PinOf
  <2>8. \A i \in Indices : servos'[i].nbr = servos[i].nbr /\ servos'[i].isActive = servos[i].isActive
    BY <2>1 DEF ServoInv, ServoTypeOK, PinOf
  <2>9. misread' = 0
    BY <2>1, <2>3, <2>5 DEF ServoInv
  <2>10. ServoTypeOK' /\ ServoCount <= ServoCount'
    BY <1>0, <2>1, <2>7 DEF ServoInv, ServoTypeOK
  <2> QED
    BY <2>1, <2>8, <2>9, <2>10, QuietCall
<1>5. CASE SV!initISR
  <2>1. UNCHANGED <<servos, ServoCount, object, Channel, OCRnA, level, pulse, left, late, misread>>
    BY <1>5 DEF SV!initISR
  <2> QED
    BY <2>1 DEF ServoInv, ServoTypeOK, HighPins, PulseTimed
<1>6. CASE SV!attachActive
  <2> DEFINE j == object[attaching.obj].index
  <2>1. /\ servos' = [servos EXCEPT ![j].isActive = TRUE]
        /\ UNCHANGED <<ServoCount, object, Channel, OCRnA, level, pulse, left, late, misread>>
    BY <1>6 DEF SV!attachActive
  <2> HIDE DEF j
  <2>2. servos' \in [Indices -> PinOf]
    BY <2>1 DEF ServoInv, ServoTypeOK, PinOf
  <2>3. \A i \in Indices : servos'[i].nbr = servos[i].nbr /\ (servos[i].isActive => servos'[i].isActive)
    BY <2>1 DEF ServoInv, ServoTypeOK, PinOf
  <2>4. ServoTypeOK' /\ ServoCount <= ServoCount'
    BY <1>0, <2>1, <2>2 DEF ServoInv, ServoTypeOK
  <2> QED
    BY <2>1, <2>3, <2>4, QuietCall DEF ServoInv
<1>7. CASE SV!handle_interrupts
  BY <1>7, InterruptStep
<1> QED
  BY <1>1, <1>2, <1>3, <1>4, <1>5, <1>6, <1>7 DEF SV!Next

\* The invariant gives the properties of the pulses and of the angle.
LEMMA ServoSafe ==
  ServoInv => SV!PulseIsCommanded /\ SV!NoPinLeftHigh /\ SV!ReadIsWritten
<1> SUFFICES ASSUME ServoInv, NEW p \in level, p \notin left
             PROVE  p \in {servos[i].nbr : i \in {pulse.channel} \cap DOMAIN servos}
  BY DEF ServoInv, SV!PulseIsCommanded, SV!NoPinLeftHigh, SV!ReadIsWritten
<1>1. pulse.channel \in Indices /\ p = servos[pulse.channel].nbr /\ DOMAIN servos = Indices
  BY DEF ServoInv, ServoTypeOK, HighPins
<1> QED
  BY <1>1
-----------------------------------------------------------------------------
(* libraries/Stepper                                                       *)

MotorRecord == [step_number : Nat, direction : {0, 1}, last_step_time : 0 .. Wrap - 1,
                number_of_steps : Motors, pin_count : {2, 4}]

\* The time since the last step by the clock.
Elapsed == (clock - motor.last_step_time) % Wrap

\* The place in the turn is that of the shaft, and the coils are set for it; the clock
\* never shows more time since the last step than has really passed, up to the delay.
StepperInv ==
  /\ motor \in MotorRecord /\ clock \in 0 .. Wrap - 1 /\ waited \in 0 .. Delay
  /\ motor.step_number < motor.number_of_steps
  /\ shaft = motor.step_number
  /\ waited = Delay \/ Elapsed <= waited
  /\ coils # << >> => coils = SP!stepMotor(motor.pin_count, motor.step_number % 4)

\* The place after a step in the motor's direction.
Turned == IF motor.direction = 1 THEN SP!Forward(motor) ELSE SP!Backward(motor)

LEMMA TurnedFacts ==
  ASSUME StepperInv
  PROVE  /\ Turned \in Nat /\ Turned < motor.number_of_steps
         /\ Turned = (shaft + (IF motor.direction = 1 THEN 1 ELSE -1)) % motor.number_of_steps
         /\ motor.number_of_steps % 4 = 0 =>
              Turned % 4 = ((motor.step_number % 4) + (IF motor.direction = 1 THEN 1 ELSE 3)) % 4
<1> DEFINE n == motor.number_of_steps
           s == motor.step_number
<1>1. n \in Nat \ {0} /\ s \in Nat /\ s < n /\ shaft = s /\ motor.direction \in {0, 1}
  BY StepperAssumption DEF StepperInv, MotorRecord
<1>2. Turned = IF motor.direction = 1 THEN IF s + 1 = n THEN 0 ELSE s + 1
               ELSE (IF s = 0 THEN n ELSE s) - 1
  BY DEF Turned, SP!Forward, SP!Backward
<1> HIDE DEF n, s
<1>3. (s + 1) % n = IF s + 1 = n THEN 0 ELSE s + 1
  <2> DEFINE x == s + 1
  <2>1. x \in Int /\ -n <= x /\ x < 2 * n /\ x = s + 1
    BY <1>1
  <2> HIDE DEF x
  <2>2. x % n = IF x < 0 THEN x + n ELSE IF x < n THEN x ELSE x - n
    BY <1>1, <2>1, RemainderFacts
  <2> QED
    BY <1>1, <2>1, <2>2
<1>4. (s - 1) % n = IF s = 0 THEN n - 1 ELSE s - 1
  <2>1. s - 1 \in Int /\ -n <= s - 1 /\ s - 1 < 2 * n
    BY <1>1
  <2>2. (s - 1) % n = IF s - 1 < 0 THEN s - 1 + n ELSE IF s - 1 < n THEN s - 1 ELSE s - 1 - n
    BY <1>1, <2>1, RemainderFacts, Zenon
  <2> QED
    BY <1>1, <2>2
<1>5. \A a \in Nat : /\ (a + 1) % 4 = ((a % 4) + 1) % 4
                     /\ a > 0 => (a - 1) % 4 = ((a % 4) + 3) % 4
  OBVIOUS
<1>6. n % 4 = 0 => 0 % 4 = (((n - 1) % 4) + 1) % 4 /\ (n - 1) % 4 = ((0 % 4) + 3) % 4
  BY <1>1
<1>7. CASE motor.direction = 1
  <2>1. Turned = (s + 1) % n /\ Turned \in Nat /\ Turned < n
    BY <1>1, <1>2, <1>3, <1>7
  <2>2. n % 4 = 0 => Turned % 4 = ((s % 4) + 1) % 4
    <3>1. CASE s + 1 = n
      BY <1>1, <1>2, <1>6, <1>7, <3>1
    <3>2. CASE s + 1 # n
      BY <1>1, <1>2, <1>5, <1>7, <3>2
    <3> QED
      BY <3>1, <3>2
  <2> QED
    BY <1>1, <1>7, <2>1, <2>2 DEF n, s
<1>8. CASE motor.direction = 0
  <2>1. Turned = (s - 1) % n /\ Turned \in Nat /\ Turned < n
    BY <1>1, <1>2, <1>4, <1>8
  <2>2. n % 4 = 0 => Turned % 4 = ((s % 4) + 3) % 4
    <3>1. CASE s = 0
      BY <1>1, <1>2, <1>6, <1>8, <3>1
    <3>2. CASE s # 0
      BY <1>1, <1>2, <1>5, <1>8, <3>2
    <3> QED
      BY <3>1, <3>2
  <2>3. s + (-1) = s - 1
    BY <1>1
  <2> QED
    BY <1>1, <1>8, <2>1, <2>2, <2>3 DEF n, s
<1> QED
  BY <1>1, <1>7, <1>8

\* A round of the loop in step() that moves the motor.
LEMMA OneStepFacts ==
  ASSUME StepperInv, SP!oneStep
  PROVE  /\ motor' = [motor EXCEPT !.step_number = Turned, !.last_step_time = clock]
         /\ coils' = SP!stepMotor(motor.pin_count, Turned % 4)
         /\ shaft' = Turned /\ waited' = 0 /\ clock' = clock
         /\ Elapsed >= Delay
BY TurnedFacts DEF SP!oneStep, SP!DelayPassed, Elapsed, Turned

LEMMA StepperInit == SP!Init => StepperInv
<1> SUFFICES ASSUME SP!Init PROVE StepperInv
  OBVIOUS
<1>1. PICK n \in Motors, pins \in {2, 4} :
        motor = [step_number |-> 0, direction |-> 0, last_step_time |-> 0, number_of_steps |-> n,
                 pin_count |-> pins]
  BY DEF SP!Init
<1> QED
  BY <1>1, StepperAssumption DEF SP!Init, StepperInv, MotorRecord

LEMMA StepperStep == StepperInv /\ SP!Next => StepperInv'
<1> SUFFICES ASSUME StepperInv, SP!Next PROVE StepperInv'
  OBVIOUS
<1>1. ASSUME NEW n \in Moves, SP!step(n) PROVE StepperInv'
  <2>1. /\ motor' = [motor EXCEPT !.direction = IF n > 0 THEN 1 ELSE 0]
        /\ UNCHANGED <<clock, coils, shaft, waited>>
    BY <1>1 DEF SP!step
  <2>2. /\ motor' \in MotorRecord /\ motor'.step_number = motor.step_number
        /\ motor'.number_of_steps = motor.number_of_steps /\ motor'.pin_count = motor.pin_count
        /\ motor'.last_step_time = motor.last_step_time
    BY <2>1 DEF StepperInv, MotorRecord
  <2> QED
    BY <2>1, <2>2 DEF StepperInv, Elapsed
<1>2. CASE SP!oneStep
  <2>1. /\ motor' \in MotorRecord /\ motor'.step_number = Turned
        /\ motor'.number_of_steps = motor.number_of_steps /\ motor'.pin_count = motor.pin_count
        /\ motor'.last_step_time = clock
    BY <1>2, OneStepFacts, TurnedFacts DEF StepperInv, MotorRecord
  <2>2. (clock - clock) % Wrap = 0
    BY StepperAssumption DEF StepperInv
  <2>3. Elapsed' <= waited'
    BY <1>2, <2>1, <2>2, OneStepFacts DEF Elapsed
  <2> QED
    BY <1>2, <2>1, <2>3, OneStepFacts, TurnedFacts, StepperAssumption DEF StepperInv
<1>3. CASE SP!Tick
  <2>1. /\ clock' = (clock + 1) % Wrap
        /\ waited' = IF waited < Delay THEN waited + 1 ELSE waited
        /\ motor' = motor /\ coils' = coils /\ shaft' = shaft
    BY <1>3 DEF SP!Tick
  <2> DEFINE l == motor.last_step_time
  <2>2. Wrap \in Nat \ {0} /\ Delay \in Nat /\ clock \in 0 .. Wrap - 1 /\ l \in 0 .. Wrap - 1
    BY StepperAssumption DEF StepperInv, MotorRecord
  <2> HIDE DEF l
  <2>3. clock' \in 0 .. Wrap - 1
    BY <2>1, <2>2
  <2>4. clock' = IF clock + 1 < Wrap THEN clock + 1 ELSE 0
    <3> DEFINE x == clock + 1
    <3>1. x \in Int /\ -Wrap <= x /\ x < 2 * Wrap /\ x = clock + 1
      BY <2>2
    <3> HIDE DEF x
    <3>2. x % Wrap = IF x < 0 THEN x + Wrap ELSE IF x < Wrap THEN x ELSE x - Wrap
      BY <2>2, <3>1, RemainderFacts
    <3> QED
      BY <2>1, <2>2, <3>1, <3>2
  <2>5. ASSUME NEW c \in 0 .. Wrap - 1
        PROVE  (c - l) % Wrap = IF c < l THEN c - l + Wrap ELSE c - l
    <3>1. c - l \in Int /\ -Wrap <= c - l /\ c - l < 2 * Wrap
      BY <2>2
    <3>2. (c - l) % Wrap = IF c - l < 0 THEN c - l + Wrap ELSE IF c - l < Wrap THEN c - l ELSE c - l - Wrap
      BY <2>2, <3>1, RemainderFacts, Zenon
    <3> QED
      BY <2>2, <3>2
  <2>6. (clock - l) % Wrap = IF clock < l THEN clock - l + Wrap ELSE clock - l
    BY <2>2, <2>5
  <2>7. (clock' - l) % Wrap = IF clock' < l THEN clock' - l + Wrap ELSE clock' - l
    BY <2>3, <2>5
  <2>8. (clock' - l) % Wrap <= ((clock - l) % Wrap) + 1
    BY <2>2, <2>4, <2>6, <2>7
  <2>9. Elapsed' = (clock' - l) % Wrap /\ Elapsed = (clock - l) % Wrap
    BY <2>1 DEF Elapsed, l
  <2>10. Elapsed' \in Int /\ Elapsed \in Int /\ Elapsed' <= Elapsed + 1
    <3>1. clock' \in Int /\ clock \in Int /\ l \in Int /\ Wrap \in Int
      BY <2>2, <2>3
    <3>2. (clock' - l) % Wrap \in Int /\ (clock - l) % Wrap \in Int
      BY <2>6, <2>7, <3>1
    <3> QED
      BY <2>8, <2>9, <3>2
  <2>11. waited' \in 0 .. Delay /\ (waited' = Delay \/ Elapsed' <= waited')
    BY <2>1, <2>2, <2>10 DEF StepperInv
  <2> QED
    BY <2>1, <2>3, <2>11 DEF StepperInv
<1> QED
  BY <1>1, <1>2, <1>3 DEF SP!Next

\* A step comes after the delay.
LEMMA StepperSpaces == StepperInv /\ [SP!Next]_stepper => SP!StepsSpacedStep
<1> SUFFICES ASSUME StepperInv, SP!Next, coils' # coils PROVE waited = Delay
  BY DEF SP!StepsSpacedStep, stepper
<1>1. SP!oneStep
  BY DEF SP!Next, SP!step, SP!Tick
<1>2. Elapsed >= Delay
  BY <1>1, OneStepFacts
<1>3. Elapsed \in Int
  BY StepperAssumption DEF StepperInv, MotorRecord, Elapsed
<1> QED
  BY <1>2, <1>3, StepperAssumption DEF StepperInv

\* A step moves the field by one position.
LEMMA StepperNeighbours == StepperInv /\ [SP!Next]_stepper => SP!NeighbouringCoilsStep
<1> SUFFICES ASSUME StepperInv, SP!Next, coils' # coils, coils # << >>,
                    motor.number_of_steps % 4 = 0
             PROVE  \E i \in 0 .. 3 :
                      /\ coils = SP!stepMotor(motor.pin_count, i)
                      /\ coils' = SP!stepMotor(motor.pin_count,
                                               (i + (IF motor.direction = 1 THEN 1 ELSE 3)) % 4)
  BY DEF SP!NeighbouringCoilsStep, stepper
<1>1. SP!oneStep
  BY DEF SP!Next, SP!step, SP!Tick
<1>2. /\ coils = SP!stepMotor(motor.pin_count, motor.step_number % 4)
      /\ coils' = SP!stepMotor(motor.pin_count, Turned % 4)
  BY <1>1, OneStepFacts DEF StepperInv
<1>3. Turned % 4 = ((motor.step_number % 4) + (IF motor.direction = 1 THEN 1 ELSE 3)) % 4
  BY TurnedFacts
<1>4. motor.step_number % 4 \in 0 .. 3
  BY DEF StepperInv, MotorRecord
<1> QED
  BY <1>2, <1>3, <1>4
-----------------------------------------------------------------------------
(* libraries/FSM                                                           *)

Machine == [needToTriggerEnter : BOOLEAN, currentState : States, nextState : States,
            stateChangeTime : Nat]

\* The next state is the one asked for last, and the callbacks have been paired.
FsmInv ==
  /\ fsm \in Machine /\ millis \in Nat
  /\ entered \in [States -> Int] /\ early \in BOOLEAN
  /\ requested = fsm.nextState
  /\ FS!EnterExitPaired

LEMMA RequestedFacts ==
  ASSUME NEW m \in Machine, NEW s \in FS!Requests, millis \in Nat
  PROVE  /\ FS!Requested(m, s) \in Machine
         /\ FS!Requested(m, s).currentState = m.currentState
         /\ FS!Requested(m, s).needToTriggerEnter = m.needToTriggerEnter
         /\ FS!Requested(m, s).nextState = FS!Wanted(m.nextState, s)
BY FsmAssumption DEF Machine, FS!Requested, FS!Wanted, FS!Requests

LEMMA MovedFacts ==
  ASSUME NEW m \in Machine, NEW s \in States, NEW x \in FS!Requests, NEW e \in FS!Requests,
         millis \in Nat
  PROVE  /\ FS!Moved(m, s, x, e) \in Machine
         /\ FS!Moved(m, s, x, e).currentState = s
         /\ FS!Moved(m, s, x, e).needToTriggerEnter = m.needToTriggerEnter
         /\ FS!Moved(m, s, x, e).nextState = FS!Wanted(s, e)
<1> DEFINE exit == FS!Requested(m, x)
           moved == [exit EXCEPT !.currentState = s, !.nextState = s]
           in == FS!Requested(moved, e)
<1>1. exit \in Machine /\ exit.needToTriggerEnter = m.needToTriggerEnter
  BY RequestedFacts
<1> HIDE DEF exit
<1>2. /\ moved \in Machine /\ moved.currentState = s /\ moved.nextState = s
      /\ moved.needToTriggerEnter = m.needToTriggerEnter
  BY <1>1 DEF Machine
<1> HIDE DEF moved
<1>3. /\ in \in Machine /\ in.currentState = s /\ in.nextState = FS!Wanted(s, e)
      /\ in.needToTriggerEnter = m.needToTriggerEnter
  BY <1>2, RequestedFacts
<1> HIDE DEF in
<1>4. FS!Moved(m, s, x, e) = [in EXCEPT !.stateChangeTime = millis]
  BY DEF FS!Moved, in, moved, exit
<1> QED
  BY <1>3, <1>4 DEF Machine

LEMMA PassedFacts ==
  ASSUME NEW n \in [States -> Int], NEW a \in States, NEW b \in States
  PROVE  /\ FS!Passed(n, a, b) \in [States -> Int]
         /\ \A s \in States : FS!Passed(n, a, b)[s] = n[s] - (IF s = a THEN 1 ELSE 0)
                                                     + (IF s = b THEN 1 ELSE 0)
BY DEF FS!Passed

LEMMA FsmStep == FsmInv /\ FS!Next => FsmInv'
<1> SUFFICES ASSUME FsmInv, FS!Next PROVE FsmInv'
  OBVIOUS
<1> USE DEF FsmInv
<1>1. fsm.currentState \in States /\ fsm.nextState \in States /\ fsm.needToTriggerEnter \in BOOLEAN
  BY DEF Machine
<1>2. CASE FS!Tick
  BY <1>2 DEF FS!Tick, FS!EnterExitPaired
<1>3. ASSUME NEW s \in States, FS!transitionTo(s) PROVE FsmInv'
  <2>1. s \in FS!Requests /\ FS!Wanted(fsm.nextState, s) = s
    BY FsmAssumption DEF FS!Requests, FS!Wanted
  <2>2. /\ fsm' \in Machine /\ fsm'.currentState = fsm.currentState
        /\ fsm'.needToTriggerEnter = fsm.needToTriggerEnter /\ fsm'.nextState = s
    BY <1>3, <2>1, RequestedFacts DEF FS!transitionTo
  <2>3. requested' = s /\ UNCHANGED <<millis, entered, early>>
    BY <1>3 DEF FS!transitionTo
  <2> QED
    BY <2>2, <2>3 DEF FS!EnterExitPaired
<1>4. ASSUME NEW s \in States, NEW x \in FS!Requests, NEW e \in FS!Requests,
             FS!immediateTransitionTo(s, x, e)
      PROVE  FsmInv'
  <2>1. /\ fsm' \in Machine /\ fsm'.currentState = s
        /\ fsm'.needToTriggerEnter = fsm.needToTriggerEnter /\ fsm'.nextState = FS!Wanted(s, e)
    BY <1>4, MovedFacts DEF FS!immediateTransitionTo
  <2>2. /\ requested' = FS!Wanted(s, e) /\ millis' = millis
        /\ early' = (early \/ fsm.needToTriggerEnter)
        /\ entered' = IF early' THEN entered ELSE FS!Passed(entered, fsm.currentState, s)
    BY <1>4 DEF FS!immediateTransitionTo
  <2>3. CASE early'
    BY <1>1, <2>1, <2>2, <2>3 DEF FS!EnterExitPaired
  <2>4. CASE ~early'
    <3>1. /\ entered' \in [States -> Int]
          /\ \A t \in States : entered'[t] = entered[t] - (IF t = fsm.currentState THEN 1 ELSE 0)
                                                        + (IF t = s THEN 1 ELSE 0)
      BY <1>1, <2>2, <2>4, PassedFacts
    <3>2. ~early /\ ~fsm.needToTriggerEnter
      BY <2>2, <2>4
    <3> QED
      BY <1>1, <2>1, <2>2, <2>4, <3>1, <3>2 DEF FS!EnterExitPaired
  <2> QED
    BY <2>3, <2>4
<1>5. ASSUME NEW e \in FS!Requests, FS!firstUpdate(e) PROVE FsmInv'
  <2>1. /\ FS!Requested(fsm, e) \in Machine
        /\ FS!Requested(fsm, e).currentState = fsm.currentState
        /\ FS!Requested(fsm, e).nextState = FS!Wanted(fsm.nextState, e)
    BY RequestedFacts
  <2>2. fsm' = [FS!Requested(fsm, e) EXCEPT !.needToTriggerEnter = FALSE]
    BY <1>5 DEF FS!firstUpdate
  <2>3. /\ fsm' \in Machine /\ fsm'.currentState = fsm.currentState
        /\ fsm'.nextState = FS!Wanted(fsm.nextState, e) /\ ~fsm'.needToTriggerEnter
    BY <2>1, <2>2 DEF Machine
  <2>4. /\ fsm.needToTriggerEnter
        /\ entered' = [entered EXCEPT ![fsm.currentState] = @ + 1]
        /\ requested' = FS!Wanted(requested, e) /\ UNCHANGED <<millis, early>>
    BY <1>5 DEF FS!firstUpdate
  <2> QED
    BY <1>1, <2>3, <2>4 DEF FS!EnterExitPaired
<1>6. ASSUME NEW x \in FS!Requests, NEW e \in FS!Requests, NEW u \in FS!Requests, FS!update(x, e, u)
      PROVE  FsmInv'
  <2> DEFINE moves == fsm.currentState # fsm.nextState
             at == IF moves THEN FS!Moved(fsm, fsm.nextState, x, e) ELSE fsm
             asking == IF moves THEN FS!Wanted(fsm.nextState, e) ELSE requested
  <2>1. /\ at \in Machine /\ at.currentState = fsm.nextState
        /\ at.needToTriggerEnter = fsm.needToTriggerEnter /\ at.nextState = asking
    <3>1. CASE moves
      <4>1. at = FS!Moved(fsm, fsm.nextState, x, e) /\ asking = FS!Wanted(fsm.nextState, e)
        BY <3>1
      <4>2. /\ FS!Moved(fsm, fsm.nextState, x, e) \in Machine
            /\ FS!Moved(fsm, fsm.nextState, x, e).currentState = fsm.nextState
            /\ FS!Moved(fsm, fsm.nextState, x, e).needToTriggerEnter = fsm.needToTriggerEnter
            /\ FS!Moved(fsm, fsm.nextState, x, e).nextState = FS!Wanted(fsm.nextState, e)
        BY <1>1, MovedFacts
      <4> HIDE DEF at, asking, moves
      <4> QED
        BY <4>1, <4>2
    <3>2. CASE ~moves
      BY <3>2
    <3> QED
      BY <3>1, <3>2
  <2>2. /\ ~fsm.needToTriggerEnter
        /\ fsm' = FS!Requested(at, u)
        /\ entered' = IF moves /\ ~early THEN FS!Passed(entered, fsm.currentState, fsm.nextState)
                      ELSE entered
        /\ requested' = FS!Wanted(asking, u) /\ UNCHANGED <<millis, early>>
    BY <1>6 DEF FS!update
  <2> HIDE DEF at, asking
  <2>3. /\ fsm' \in Machine /\ fsm'.currentState = fsm.nextState
        /\ fsm'.needToTriggerEnter = FALSE /\ fsm'.nextState = FS!Wanted(asking, u)
    BY <2>1, <2>2, RequestedFacts
  <2>4. CASE moves /\ ~early
    <3>1. /\ entered' \in [States -> Int]
          /\ \A t \in States : entered'[t] = entered[t] - (IF t = fsm.currentState THEN 1 ELSE 0)
                                                        + (IF t = fsm.nextState THEN 1 ELSE 0)
      BY <1>1, <2>2, <2>4, PassedFacts
    <3> QED
      BY <1>1, <2>2, <2>3, <2>4, <3>1 DEF FS!EnterExitPaired
  <2>5. CASE ~(moves /\ ~early)
    BY <1>1, <2>2, <2>3, <2>5 DEF FS!EnterExitPaired
  <2> QED
    BY <2>4, <2>5
<1> QED
  BY <1>2, <1>3, <1>4, <1>5, <1>6 DEF FS!Next

LEMMA FsmInit == FS!Init => FsmInv
<1> SUFFICES ASSUME FS!Init PROVE FsmInv
  OBVIOUS
<1>1. PICK s \in States :
        /\ fsm = [needToTriggerEnter |-> TRUE, currentState |-> s, nextState |-> s,
                  stateChangeTime |-> 0]
        /\ requested = s
  BY DEF FS!Init
<1>2. fsm \in Machine /\ fsm.needToTriggerEnter /\ requested = fsm.nextState
  BY <1>1 DEF Machine
<1>3. millis = 0 /\ early = FALSE /\ entered = [t \in States |-> 0]
  BY DEF FS!Init
<1>4. entered \in [States -> Int] /\ early \in BOOLEAN /\ millis \in Nat
  <2>1. entered \in [States -> Int]
    BY <1>3
  <2>2. early \in BOOLEAN
    BY <1>3, Zenon
  <2> QED
    BY <1>3, <2>1, <2>2
<1>5. FS!EnterExitPaired
  <2>1. fsm.needToTriggerEnter = TRUE
    BY <1>1
  <2>2. \A t \in States : entered[t] = 0
    BY <1>3
  <2> QED
    BY <2>1, <2>2, Zenon DEF FS!EnterExitPaired
<1> QED
  BY <1>2, <1>4, <1>5 DEF FsmInv

\* FSM: an update makes the state current that was asked for last.
LEMMA FsmServes == FsmInv => FS!LastRequestServedStep
<1> SUFFICES ASSUME FsmInv, NEW x \in FS!Requests, NEW e \in FS!Requests, NEW u \in FS!Requests,
                    FS!update(x, e, u)
             PROVE  fsm'.currentState = requested
  BY DEF FS!LastRequestServedStep
<1> DEFINE moves == fsm.currentState # fsm.nextState
           at == IF moves THEN FS!Moved(fsm, fsm.nextState, x, e) ELSE fsm
<1>1. fsm.nextState \in States /\ fsm \in Machine /\ millis \in Nat /\ requested = fsm.nextState
  BY DEF Machine, FsmInv
<1>2. at \in Machine /\ at.currentState = fsm.nextState
  <2>1. CASE moves
    <3>1. /\ FS!Moved(fsm, fsm.nextState, x, e) \in Machine
          /\ FS!Moved(fsm, fsm.nextState, x, e).currentState = fsm.nextState
      BY <1>1, MovedFacts
    <3> QED
      BY <2>1, <3>1
  <2>2. CASE ~moves
    BY <2>2, <1>1
  <2> QED
    BY <2>1, <2>2
<1>3. fsm' = FS!Requested(at, u)
  BY DEF FS!update
<1> HIDE DEF at
<1> QED
  BY <1>1, <1>2, <1>3, RequestedFacts
-----------------------------------------------------------------------------
(* libraries/LiquidCrystal                                                 *)

EnablePulse == [rs : {0, 1}, v : Nat]

ScreenOf == [eight : BOOLEAN, half : -1 .. 15, twoLine : BOOLEAN, tall : BOOLEAN,
            control : SUBSET {1, 2, 4}, mode : SUBSET {1, 2}, ram : {"text", "glyph"},
            addr : 0 .. 127]
LcdOf == [eight : BOOLEAN, twoLine : BOOLEAN, tall : BOOLEAN, numlines : 1 .. 4,
          control : SUBSET {1, 2, 4}, mode : SUBSET {1, 2}]

\* One after the other; one alone; none.
Then(s, t) == s \o t
Alone(x) == <<x>>
Nothing == << >>

\* The display without the half of a byte that it has taken.
Entire(p) == [p EXCEPT !.half = -1]

\* A display that agrees with its driver.
Agrees(p, l) ==
  /\ p.eight = l.eight /\ p.half = -1 /\ p.twoLine = l.twoLine /\ p.tall = l.tall
  /\ p.control = l.control /\ p.mode \in {l.mode, l.mode \cup {2}}

\* The byte v is to come, as a whole or its second half, and then the rest.
Coming(p, q, l, v, rs, rest) ==
  \/ p.half = -1 /\ q = Then(LC!send(l, v, rs), rest)
  \/ ~l.eight /\ p.half = v \div 16 /\ q = Then(LC!write4bits(rs, v), rest)

\* The bytes that begin sends, and the pulses from each of them to its end.
FunctionByte(l) ==
  32 + (IF l.eight THEN 16 ELSE 0) + (IF l.twoLine THEN 8 ELSE 0) + (IF l.tall THEN 4 ELSE 0)
ControlByte(l) == 8 + LC!Sum(l.control)
ModeByte(l) == 4 + LC!Sum(l.mode)

Final(l) == Then(LC!send(l, ModeByte(l), 0), Nothing)
Clearing(l) == Then(LC!send(l, 1, 0), Final(l))
Showing(l) == Then(LC!send(l, ControlByte(l), 0), Clearing(l))
Setting(l) == Then(LC!send(l, FunctionByte(l), 0), Showing(l))

Nibble(n) == Alone([rs |-> 0, v |-> n])
Three == Nibble(3)
Two == Nibble(2)

\* The rows of a glyph from row k.
RowsFrom(l, g, k) ==
  LET row(i, rest) == Then(LC!send(l, LC!Row(g, i), 1), rest)
      from7 == row(7, Nothing)
      from6 == row(6, from7)
      from5 == row(5, from6)
      from4 == row(4, from5)
      from3 == row(3, from4)
      from2 == row(2, from3)
      from1 == row(1, from2)
  IN  CASE k = 0 -> row(0, from1) [] k = 1 -> from1 [] k = 2 -> from2 [] k = 3 -> from3
        [] k = 4 -> from4 [] k = 5 -> from5 [] k = 6 -> from6 [] k = 7 -> from7
        [] k = 8 -> Nothing

\* A display that has the driver's lines and font, and one that has its display control too.
LinesSet(p, l) == p.eight = l.eight /\ p.half = -1 /\ p.twoLine = l.twoLine /\ p.tall = l.tall
Shown(p, l) == LinesSet(p, l) /\ p.control = l.control

Intact(rows, S) == \A g \in S, i \in 0 .. 7 : rows[8 * g + i] = LC!Row(g, i)

\* All but g, and its rows before k.
Partly(rows, S, g, k) ==
  /\ Intact(rows, S \ {g})
  /\ \A i \in 0 .. 7 : i < k => rows[8 * g + i] = LC!Row(g, i)

DisplayTypeOK ==
  /\ lcd \in LcdOf /\ panel \in ScreenOf /\ cgram \in [0 .. 63 -> Nat] /\ holds \subseteq 0 .. 7
  /\ lcd.eight => panel.eight
  /\ panel.eight => panel.half = -1

\* Where begin is: four wires in a display that may be anywhere, in eight bit mode at the
\* third try whatever it was in before; eight wires in a display that is in eight bit mode.
Synchronising ==
  /\ Intact(cgram, holds)
  /\ \/ /\ ~lcd.eight
        /\ \/ pulses = Then(Three, Then(Three, Then(Three, Then(Two, Setting(lcd)))))
           \/ /\ panel.eight \/ panel.half \in {-1, 3}
              /\ pulses = Then(Three, Then(Three, Then(Two, Setting(lcd))))
           \/ /\ panel.eight \/ panel.half = 3
              /\ pulses = Then(Three, Then(Two, Setting(lcd)))
           \/ panel.eight /\ pulses = Then(Two, Setting(lcd))
     \/ /\ lcd.eight
        /\ \E rest \in {Setting(lcd), Then(LC!send(lcd, FunctionByte(lcd), 0), Setting(lcd)),
                        Then(LC!send(lcd, FunctionByte(lcd), 0), Then(LC!send(lcd, FunctionByte(lcd), 0), Setting(lcd)))} :
             Coming(panel, pulses, lcd, FunctionByte(lcd), 0, rest)

Configuring ==
  /\ panel.eight = lcd.eight /\ Intact(cgram, holds)
  /\ \/ Coming(panel, pulses, lcd, FunctionByte(lcd), 0, Showing(lcd))
     \/ LinesSet(Entire(panel), lcd) /\ Coming(panel, pulses, lcd, ControlByte(lcd), 0, Clearing(lcd))
     \/ Shown(Entire(panel), lcd) /\ Coming(panel, pulses, lcd, 1, 0, Final(lcd))

\* The last instruction of a call makes the display agree with the driver.
Commanding ==
  /\ panel.eight = lcd.eight /\ Intact(cgram, holds)
  /\ \E v \in 0 .. 255 : Coming(panel, pulses, lcd, v, 0, Nothing) /\ Agrees(LC!Instruct(Entire(panel), v), lcd)

\* The character goes to the text, unless there is no glyph it could spoil.
Printing ==
  /\ Agrees(Entire(panel), lcd) /\ Intact(cgram, holds)
  /\ holds # {} => panel.ram = "text"
  /\ Coming(panel, pulses, lcd, LC!Text, 1, Nothing)

\* A glyph is about to be stored, and its rows before k are.
Addressing ==
  /\ Agrees(Entire(panel), lcd)
  /\ \E g \in 0 .. 7 :
       /\ Coming(panel, pulses, lcd, 64 + 8 * g, 0, RowsFrom(lcd, g, 0))
       /\ holds # {} => 2 \in lcd.mode /\ Intact(cgram, holds \ {g})

Storing ==
  /\ Agrees(Entire(panel), lcd)
  /\ \E g \in 0 .. 7, k \in 0 .. 7 :
       /\ Coming(panel, pulses, lcd, LC!Row(g, k), 1, RowsFrom(lcd, g, k + 1))
       /\ holds # {} => /\ 2 \in lcd.mode /\ panel.ram = "glyph" /\ panel.addr = 8 * g + k
                        /\ Partly(cgram, holds, g, k)

Resting == pulses = Nothing /\ Agrees(panel, lcd) /\ Intact(cgram, holds)

\* Between calls display and driver agree; within one they do as far as it has come.
DisplayInv ==
  /\ DisplayTypeOK
  /\ Synchronising \/ Configuring \/ Commanding \/ Printing \/ Addressing \/ Storing \/ Resting

\* The flags in an instruction are those it was made from.
LEMMA FlagFacts ==
  ASSUME NEW f \in SUBSET {1, 2, 4}
  PROVE  /\ LC!Sum(f) \in 0 .. 7
         /\ LC!Flags(8 + LC!Sum(f)) = f
         /\ 4 \notin f => LC!Sum(f) \in 0 .. 3 /\ LC!Flags(4 + LC!Sum(f)) \ {4} = f
<1> DEFINE s == LC!Sum(f)
<1>1. s = (IF 1 \in f THEN 1 ELSE 0) + (IF 2 \in f THEN 2 ELSE 0) + (IF 4 \in f THEN 4 ELSE 0)
  BY DEF LC!Sum
<1>2. s \in 0 .. 7 /\ (4 \notin f => s \in 0 .. 3)
  BY <1>1
<1>3. /\ LC!Bit(8 + s, 1) <=> 1 \in f
      /\ LC!Bit(8 + s, 2) <=> 2 \in f
      /\ LC!Bit(8 + s, 4) <=> 4 \in f
  BY <1>1 DEF LC!Bit
<1>4. ASSUME 4 \notin f
      PROVE  (LC!Bit(4 + s, 1) <=> 1 \in f) /\ (LC!Bit(4 + s, 2) <=> 2 \in f)
  BY <1>1, <1>4 DEF LC!Bit
<1> HIDE DEF s
<1>5. LC!Flags(8 + s) = f
  BY <1>3 DEF LC!Flags
<1>6. 4 \notin f => LC!Flags(4 + s) \ {4} = f
  BY <1>4 DEF LC!Flags
<1> QED
  BY <1>2, <1>5, <1>6 DEF s

\* The display with an address.
Placed(p, m, a) == [p EXCEPT !.ram = m, !.addr = a]

\* It can take any.
LEMMA AddressFacts ==
  ASSUME NEW p \in ScreenOf, NEW m \in {"text", "glyph"}, NEW a \in 0 .. 127
  PROVE  /\ Placed(p, m, a) \in ScreenOf
         /\ Placed(p, m, a).ram = m
         /\ Placed(p, m, a).addr = a
         /\ Placed(p, m, a).eight = p.eight
         /\ Placed(p, m, a).half = p.half
         /\ Placed(p, m, a).twoLine = p.twoLine
         /\ Placed(p, m, a).tall = p.tall
         /\ Placed(p, m, a).control = p.control
         /\ Placed(p, m, a).mode = p.mode
BY DEF Placed, ScreenOf

\* What an instruction does, by its leading one.
LEMMA InstructFacts ==
  ASSUME NEW p \in ScreenOf, NEW v \in 0 .. 255
  PROVE  /\ LC!Instruct(p, v) \in ScreenOf
         /\ LC!Instruct(p, v).half = p.half
         /\ v \notin 32 .. 63 => LC!Instruct(p, v).eight = p.eight
         /\ v \in 32 .. 63 => LC!Instruct(p, v).eight = LC!Bit(v, 16)
<1>1. CASE v >= 128
  <2> DEFINE m == "text"
             a == v - 128
  <2>1. LC!Instruct(p, v) = Placed(p, m, a)
    BY <1>1 DEF LC!Instruct, Placed
  <2>2. a \in 0 .. 127 /\ m \in {"text", "glyph"}
    BY <1>1
  <2> HIDE DEF m, a
  <2>3. /\ Placed(p, m, a) \in ScreenOf
        /\ Placed(p, m, a).half = p.half /\ Placed(p, m, a).eight = p.eight
    BY <2>2, AddressFacts
  <2> QED
    BY <1>1, <2>1, <2>3
<1>2. CASE v \in 64 .. 127
  <2> DEFINE m == "glyph"
             a == v - 64
  <2>1. LC!Instruct(p, v) = Placed(p, m, a)
    BY <1>2 DEF LC!Instruct, Placed
  <2>2. a \in 0 .. 127 /\ m \in {"text", "glyph"}
    BY <1>2
  <2> HIDE DEF m, a
  <2>3. /\ Placed(p, m, a) \in ScreenOf
        /\ Placed(p, m, a).half = p.half /\ Placed(p, m, a).eight = p.eight
    BY <2>2, AddressFacts
  <2> QED
    BY <1>2, <2>1, <2>3
<1>3. CASE v \in 32 .. 63
  <2>1. LC!Instruct(p, v) = [p EXCEPT !.eight = LC!Bit(v, 16), !.twoLine = LC!Bit(v, 8),
                                     !.tall = LC!Bit(v, 4)]
    BY <1>3 DEF LC!Instruct
  <2>2. LC!Bit(v, 16) \in BOOLEAN /\ LC!Bit(v, 8) \in BOOLEAN /\ LC!Bit(v, 4) \in BOOLEAN
    BY DEF LC!Bit
  <2> QED
    BY <1>3, <2>1, <2>2 DEF ScreenOf
<1>4. CASE v \in 16 .. 31
  BY <1>4 DEF LC!Instruct, ScreenOf
<1>5. CASE v \in 8 .. 15
  <2>1. LC!Instruct(p, v) = [p EXCEPT !.control = LC!Flags(v)]
    BY <1>5 DEF LC!Instruct
  <2>2. LC!Flags(v) \in SUBSET {1, 2, 4}
    BY DEF LC!Flags
  <2> QED
    BY <1>5, <2>1, <2>2 DEF ScreenOf
<1>6. CASE v \in 4 .. 7
  <2>1. LC!Instruct(p, v) = [p EXCEPT !.mode = LC!Flags(v) \ {4}]
    BY <1>6 DEF LC!Instruct
  <2>2. LC!Flags(v) \ {4} \in SUBSET {1, 2}
    BY DEF LC!Flags
  <2> QED
    BY <1>6, <2>1, <2>2 DEF ScreenOf
<1>7. CASE v \in 2 .. 3
  <2> DEFINE m == "text"
             a == 0
  <2>1. LC!Instruct(p, v) = Placed(p, m, a)
    BY <1>7 DEF LC!Instruct, Placed
  <2>2. a \in 0 .. 127 /\ m \in {"text", "glyph"}
    OBVIOUS
  <2> HIDE DEF m, a
  <2>3. /\ Placed(p, m, a) \in ScreenOf
        /\ Placed(p, m, a).half = p.half /\ Placed(p, m, a).eight = p.eight
    BY <2>2, AddressFacts
  <2> QED
    BY <1>7, <2>1, <2>3
<1>8. CASE v = 1
  <2> DEFINE t == "text"
             z == 0
             q == Placed(p, t, z)
             m == p.mode \cup {2}
  <2>1. t \in {"text", "glyph"} /\ z \in 0 .. 127
    OBVIOUS
  <2>2. m \in SUBSET {1, 2}
    BY DEF ScreenOf
  <2>3. LC!Instruct(p, v) = [q EXCEPT !.mode = m]
    BY <1>8 DEF LC!Instruct, Placed, ScreenOf
  <2> HIDE DEF t, z, m
  <2>4. q \in ScreenOf /\ q.half = p.half /\ q.eight = p.eight
    BY <2>1, AddressFacts
  <2> HIDE DEF q
  <2>5. [q EXCEPT !.mode = m] \in ScreenOf /\ [q EXCEPT !.mode = m].half = q.half
        /\ [q EXCEPT !.mode = m].eight = q.eight
    BY <2>2, <2>4 DEF ScreenOf
  <2>6. v \notin 32 .. 63
    BY <1>8
  <2> DEFINE r == [q EXCEPT !.mode = m]
  <2> HIDE DEF r
  <2>7. LC!Instruct(p, v) = r /\ r \in ScreenOf /\ r.half = q.half /\ r.eight = q.eight
    BY <2>3, <2>5 DEF r
  <2> QED
    BY <2>4, <2>6, <2>7
<1>9. CASE v = 0
  BY <1>9 DEF LC!Instruct, ScreenOf
<1> QED
  BY <1>1, <1>2, <1>3, <1>4, <1>5, <1>6, <1>7, <1>8, <1>9

\* The instruction that sets an address in the glyph memory.
LEMMA GlyphPlaced ==
  ASSUME NEW p \in ScreenOf, NEW v \in 64 .. 127
  PROVE  /\ LC!Instruct(p, v).ram = "glyph" /\ LC!Instruct(p, v).addr = v - 64
         /\ LC!Instruct(p, v).eight = p.eight /\ LC!Instruct(p, v).twoLine = p.twoLine
         /\ LC!Instruct(p, v).tall = p.tall /\ LC!Instruct(p, v).control = p.control
         /\ LC!Instruct(p, v).mode = p.mode
<1> DEFINE m == "glyph"
           a == v - 64
<1>1. LC!Instruct(p, v) = Placed(p, m, a)
  BY DEF LC!Instruct, Placed
<1>2. a \in 0 .. 127 /\ m \in {"text", "glyph"}
  OBVIOUS
<1> HIDE DEF m, a
<1>3. /\ Placed(p, m, a).ram = m
      /\ Placed(p, m, a).addr = a
      /\ Placed(p, m, a).eight = p.eight
      /\ Placed(p, m, a).twoLine = p.twoLine
      /\ Placed(p, m, a).tall = p.tall
      /\ Placed(p, m, a).control = p.control
      /\ Placed(p, m, a).mode = p.mode
  BY <1>2 DEF Placed, ScreenOf
<1> QED
  BY <1>1, <1>3 DEF m, a

\* A byte of data moves the address.
LEMMA StoredFacts ==
  ASSUME NEW p \in ScreenOf
  PROVE  /\ LC!Stored(p) \in ScreenOf
         /\ LC!Stored(p).half = p.half /\ LC!Stored(p).eight = p.eight /\ LC!Stored(p).ram = p.ram
         /\ \A l \in LcdOf : Agrees(p, l) => Agrees(LC!Stored(p), l)
         /\ 2 \in p.mode => LC!Stored(p).addr = (p.addr + 1) % 128
<1> DEFINE a == IF 2 \in p.mode THEN (p.addr + 1) % 128 ELSE (p.addr - 1) % 128
<1>1. LC!Stored(p) = [p EXCEPT !.addr = a]
  BY DEF LC!Stored, ScreenOf
<1>2. a \in 0 .. 127
  BY DEF ScreenOf
<1>3. 2 \in p.mode => a = (p.addr + 1) % 128
  OBVIOUS
<1> HIDE DEF a
<1>4. [p EXCEPT !.addr = a].addr = a
  BY DEF ScreenOf
<1>5. [p EXCEPT !.addr = a] \in ScreenOf
  BY <1>2 DEF ScreenOf
<1>6. /\ LC!Stored(p).half = p.half /\ LC!Stored(p).eight = p.eight /\ LC!Stored(p).ram = p.ram
      /\ LC!Stored(p).twoLine = p.twoLine /\ LC!Stored(p).tall = p.tall
      /\ LC!Stored(p).control = p.control /\ LC!Stored(p).mode = p.mode
  BY <1>1 DEF ScreenOf
<1> QED
  BY <1>1, <1>3, <1>4, <1>5, <1>6 DEF Agrees

\* Their order does not depend on brackets.
LEMMA ThenFacts ==
  /\ \A s, t \in Seq(EnablePulse) : Then(s, t) \in Seq(EnablePulse)
  /\ \A s, t, u \in Seq(EnablePulse) : Then(Then(s, t), u) = Then(s, Then(t, u))
  /\ \A s \in Seq(EnablePulse) : Then(s, Nothing) = s
  /\ \A x \in EnablePulse : Alone(x) \in Seq(EnablePulse)
  /\ \A x \in EnablePulse, s \in Seq(EnablePulse) :
       /\ Then(Alone(x), s) # Nothing
       /\ Head(Then(Alone(x), s)) = x
       /\ Tail(Then(Alone(x), s)) = s
  /\ Nothing \in Seq(EnablePulse)
<1>1. ASSUME NEW s \in Seq(EnablePulse), NEW t \in Seq(EnablePulse), NEW u \in Seq(EnablePulse)
      PROVE  Then(Then(s, t), u) = Then(s, Then(t, u))
  BY ConcatAssociative DEF Then
<1>2. ASSUME NEW s \in Seq(EnablePulse) PROVE Then(s, Nothing) = s
  BY ConcatEmptySeq DEF Then, Nothing
<1>3. ASSUME NEW x \in EnablePulse, NEW s \in Seq(EnablePulse)
      PROVE  /\ Then(Alone(x), s) # Nothing
             /\ Head(Then(Alone(x), s)) = x
             /\ Tail(Then(Alone(x), s)) = s
  BY DEF Then, Alone, Nothing
<1>4. ASSUME NEW s \in Seq(EnablePulse), NEW t \in Seq(EnablePulse) PROVE Then(s, t) \in Seq(EnablePulse)
  BY DEF Then
<1>5. ASSUME NEW x \in EnablePulse PROVE Alone(x) \in Seq(EnablePulse)
  BY DEF Alone
<1>6. Nothing \in Seq(EnablePulse)
  BY DEF Nothing
<1> QED
  BY <1>1, <1>2, <1>3, <1>4, <1>5, <1>6

\* What a byte is on the lines.
Sent(l, v, rs, rest) ==
  /\ LC!send(l, v, rs) \in Seq(EnablePulse)
  /\ l.eight =>
       /\ Head(Then(LC!send(l, v, rs), rest)).rs = rs
       /\ Head(Then(LC!send(l, v, rs), rest)).v = v
       /\ Tail(Then(LC!send(l, v, rs), rest)) = rest
  /\ ~l.eight =>
       /\ Head(Then(LC!send(l, v, rs), rest)).rs = rs
       /\ Head(Then(LC!send(l, v, rs), rest)).v = v \div 16
       /\ Tail(Then(LC!send(l, v, rs), rest)) = Then(LC!write4bits(rs, v), rest)
  /\ LC!write4bits(rs, v) \in Seq(EnablePulse)
  /\ Head(Then(LC!write4bits(rs, v), rest)).rs = rs
  /\ Head(Then(LC!write4bits(rs, v), rest)).v = v % 16
  /\ Tail(Then(LC!write4bits(rs, v), rest)) = rest
  /\ Then(LC!send(l, v, rs), rest) # Nothing /\ Then(LC!write4bits(rs, v), rest) # Nothing
  /\ Then(LC!send(l, v, rs), rest) \in Seq(EnablePulse)

LEMMA SendFacts ==
  ASSUME NEW l \in LcdOf, NEW v \in 0 .. 255, NEW rs \in {0, 1}, NEW rest \in Seq(EnablePulse)
  PROVE  Sent(l, v, rs, rest)
<1> DEFINE a == [rs |-> rs, v |-> v]
           b == [rs |-> rs, v |-> v \div 16]
           c == [rs |-> rs, v |-> v % 16]
<1>1. a \in EnablePulse /\ b \in EnablePulse /\ c \in EnablePulse
  BY DEF EnablePulse
<1>2. (v \div 16) % 16 = v \div 16 /\ v \div 16 \in Int
  OBVIOUS
<1>3. /\ LC!write8bits(rs, v) = Alone(a)
      /\ LC!write4bits(rs, v) = Alone(c)
      /\ LC!write4bits(rs, v \div 16) = Alone(b)
  BY <1>2 DEF LC!write8bits, LC!write4bits, Alone
<1>4. LC!send(l, v, rs) = IF l.eight THEN Alone(a) ELSE Then(Alone(b), Alone(c))
  BY <1>3 DEF LC!send, Then
<1> HIDE DEF a, b, c
<1>5. Alone(a) \in Seq(EnablePulse) /\ Alone(b) \in Seq(EnablePulse) /\ Alone(c) \in Seq(EnablePulse)
  BY <1>1, ThenFacts
<1>6. LC!send(l, v, rs) \in Seq(EnablePulse)
  BY <1>4, <1>5, ThenFacts
<1>7. ASSUME l.eight
      PROVE  /\ Head(Then(LC!send(l, v, rs), rest)) = a /\ Tail(Then(LC!send(l, v, rs), rest)) = rest
             /\ Then(LC!send(l, v, rs), rest) # Nothing
  BY <1>1, <1>4, <1>7, ThenFacts
<1>8. ASSUME ~l.eight
      PROVE  /\ Head(Then(LC!send(l, v, rs), rest)) = b
             /\ Tail(Then(LC!send(l, v, rs), rest)) = Then(Alone(c), rest)
             /\ Then(LC!send(l, v, rs), rest) # Nothing
  <2>1. Then(LC!send(l, v, rs), rest) = Then(Alone(b), Then(Alone(c), rest))
    BY <1>4, <1>5, <1>8, ThenFacts
  <2>2. Then(Alone(c), rest) \in Seq(EnablePulse)
    BY <1>5, ThenFacts
  <2> QED
    BY <1>1, <2>1, <2>2, ThenFacts
<1>9. /\ Head(Then(Alone(c), rest)) = c /\ Tail(Then(Alone(c), rest)) = rest /\ Then(Alone(c), rest) # Nothing
      /\ Then(LC!send(l, v, rs), rest) \in Seq(EnablePulse)
  BY <1>1, <1>5, <1>6, ThenFacts
<1>10. a.rs = rs /\ a.v = v /\ b.rs = rs /\ b.v = v \div 16 /\ c.rs = rs /\ c.v = v % 16
  BY DEF a, b, c
<1> QED
  BY <1>3, <1>5, <1>6, <1>7, <1>8, <1>9, <1>10 DEF Sent

\* A pulse in a byte: half of it arrives, or it is whole.
HalfIn(v, rs, rest) ==
  /\ Coming(panel', pulses', lcd', v, rs, rest) /\ panel' \in ScreenOf
  /\ Entire(panel') = Entire(panel) /\ cgram' = cgram

WholeIn(v, rs, rest) ==
  /\ pulses' = rest
  /\ panel' = IF rs = 0 THEN LC!Instruct(Entire(panel), v) ELSE LC!Stored(Entire(panel))
  /\ cgram' = IF rs = 1 /\ panel.ram = "glyph"
              THEN [cgram EXCEPT ![panel.addr % 64] = v] ELSE cgram

LEMMA ByteStep ==
  ASSUME lcd \in LcdOf, panel \in ScreenOf, panel.eight = lcd.eight, NEW v \in 0 .. 255,
         NEW rs \in {0, 1}, NEW rest \in Seq(EnablePulse), Coming(panel, pulses, lcd, v, rs, rest), LC!pulseEnable
  PROVE  HalfIn(v, rs, rest) \/ WholeIn(v, rs, rest)
<1> DEFINE e == Head(pulses)
           b == LC!Arrives(e)
<1>0. pulses' = Tail(pulses) /\ lcd' = lcd
  BY DEF LC!pulseEnable
<1>s. Sent(lcd, v, rs, rest)
  BY SendFacts
<1>a. lcd.eight => /\ Head(Then(LC!send(lcd, v, rs), rest)).rs = rs
                   /\ Head(Then(LC!send(lcd, v, rs), rest)).v = v
                   /\ Tail(Then(LC!send(lcd, v, rs), rest)) = rest
  BY <1>s DEF Sent
<1>b. ~lcd.eight => /\ Head(Then(LC!send(lcd, v, rs), rest)).rs = rs
                    /\ Head(Then(LC!send(lcd, v, rs), rest)).v = v \div 16
                    /\ Tail(Then(LC!send(lcd, v, rs), rest)) = Then(LC!write4bits(rs, v), rest)
  BY <1>s DEF Sent
<1>c. /\ Head(Then(LC!write4bits(rs, v), rest)).rs = rs
      /\ Head(Then(LC!write4bits(rs, v), rest)).v = v % 16
      /\ Tail(Then(LC!write4bits(rs, v), rest)) = rest
  BY <1>s DEF Sent
<1>1. /\ panel' = CASE b.rs = -1 -> [panel EXCEPT !.half = b.v]
                    [] b.rs = 0 -> LC!Instruct([panel EXCEPT !.half = -1], b.v)
                    [] b.rs = 1 -> LC!Stored([panel EXCEPT !.half = -1])
      /\ cgram' = IF b.rs = 1 /\ panel.ram = "glyph"
                  THEN [cgram EXCEPT ![panel.addr % 64] = b.v] ELSE cgram
  BY DEF LC!pulseEnable
<1>2. ASSUME b = [rs |-> rs, v |-> v], Tail(pulses) = rest
      PROVE  WholeIn(v, rs, rest)
  <2>1. b.rs = rs /\ b.v = v
    BY <1>2
  <2> HIDE DEF b
  <2> QED
    BY <1>0, <1>1, <1>2, <2>1 DEF Entire, WholeIn
<1>3. CASE lcd.eight /\ panel.half = -1 /\ pulses = Then(LC!send(lcd, v, rs), rest)
  <2>1. e.rs = rs /\ e.v = v /\ Tail(pulses) = rest
    BY <1>3, <1>a
  <2> HIDE DEF e
  <2>2. b = [rs |-> rs, v |-> v]
    BY <1>3, <2>1 DEF LC!Arrives
  <2> QED
    BY <1>2, <2>1, <2>2
<1>4. CASE ~lcd.eight /\ panel.half = -1 /\ pulses = Then(LC!send(lcd, v, rs), rest)
  <2>1. e.rs = rs /\ e.v = v \div 16 /\ Tail(pulses) = Then(LC!write4bits(rs, v), rest)
    BY <1>4, <1>b
  <2>b. ~panel.eight
    BY <1>4
  <2> HIDE DEF e
  <2>2. b = [rs |-> -1, v |-> v \div 16]
    BY <1>4, <2>1, <2>b DEF LC!Arrives
  <2>3. b.rs = -1 /\ b.v = v \div 16
    BY <2>2
  <2> HIDE DEF b
  <2>4. panel' = [panel EXCEPT !.half = v \div 16] /\ cgram' = cgram
    BY <1>1, <2>3
  <2>5. v \div 16 \in -1 .. 15
    OBVIOUS
  <2>6. panel'.half = v \div 16 /\ panel' \in ScreenOf /\ Entire(panel') = Entire(panel)
    BY <2>4, <2>5 DEF ScreenOf, Entire
  <2> QED
    BY <1>0, <1>4, <2>1, <2>4, <2>6 DEF Coming, HalfIn
<1>5. CASE ~lcd.eight /\ panel.half = v \div 16 /\ pulses = Then(LC!write4bits(rs, v), rest)
  <2>1. e.rs = rs /\ e.v = v % 16 /\ Tail(pulses) = rest
    BY <1>5, <1>c
  <2>2. v \div 16 # -1 /\ 16 * (v \div 16) + (v % 16) = v
    OBVIOUS
  <2>b. ~panel.eight
    BY <1>5
  <2> HIDE DEF e
  <2>3. b = [rs |-> rs, v |-> v]
    BY <1>5, <2>1, <2>2, <2>b DEF LC!Arrives
  <2> QED
    BY <1>2, <2>1, <2>3
<1> QED
  BY <1>3, <1>4, <1>5 DEF Coming, LcdOf

\* The bytes of begin.
LEMMA ByteFacts ==
  ASSUME NEW l \in LcdOf
  PROVE  /\ FunctionByte(l) \in 32 .. 63 /\ ControlByte(l) \in 8 .. 15 /\ ModeByte(l) \in 4 .. 7
         /\ LC!Bit(FunctionByte(l), 16) = l.eight
         /\ LC!Bit(FunctionByte(l), 8) = l.twoLine
         /\ LC!Bit(FunctionByte(l), 4) = l.tall
         /\ LC!Flags(ControlByte(l)) = l.control
         /\ LC!Flags(ModeByte(l)) \ {4} = l.mode
<1>1. l.eight \in BOOLEAN /\ l.twoLine \in BOOLEAN /\ l.tall \in BOOLEAN
      /\ l.control \in SUBSET {1, 2, 4} /\ l.mode \in SUBSET {1, 2, 4} /\ 4 \notin l.mode
  BY DEF LcdOf
<1>2. FunctionByte(l) \in 32 .. 63
  BY <1>1 DEF FunctionByte
<1>3. /\ LC!Bit(FunctionByte(l), 16) = l.eight
      /\ LC!Bit(FunctionByte(l), 8) = l.twoLine
      /\ LC!Bit(FunctionByte(l), 4) = l.tall
  BY <1>1 DEF FunctionByte, LC!Bit
<1> QED
  BY <1>1, <1>2, <1>3, FlagFacts DEF ControlByte, ModeByte

\* Their effects.
LEMMA ConfigureFacts ==
  ASSUME NEW l \in LcdOf, NEW p \in ScreenOf, p.half = -1
  PROVE  /\ LinesSet(LC!Instruct(p, FunctionByte(l)), l)
         /\ LinesSet(p, l) => Shown(LC!Instruct(p, ControlByte(l)), l)
         /\ Shown(p, l) => Shown(LC!Instruct(p, 1), l)
         /\ Shown(p, l) => Agrees(LC!Instruct(p, ModeByte(l)), l)
<1> DEFINE f == FunctionByte(l)
           c == ControlByte(l)
           m == ModeByte(l)
<1>1. f \in 32 .. 63 /\ c \in 8 .. 15 /\ m \in 4 .. 7
  BY ByteFacts
<1>2. LC!Instruct(p, f) = [p EXCEPT !.eight = l.eight, !.twoLine = l.twoLine, !.tall = l.tall]
  <2> HIDE DEF f
  <2>1. LC!Instruct(p, f) = [p EXCEPT !.eight = LC!Bit(f, 16), !.twoLine = LC!Bit(f, 8),
                                     !.tall = LC!Bit(f, 4)]
    BY <1>1 DEF LC!Instruct
  <2> QED
    BY <2>1, ByteFacts DEF f
<1>3. LC!Instruct(p, c) = [p EXCEPT !.control = l.control]
  <2> HIDE DEF c
  <2>1. LC!Instruct(p, c) = [p EXCEPT !.control = LC!Flags(c)]
    BY <1>1 DEF LC!Instruct
  <2> QED
    BY <2>1, ByteFacts DEF c
<1>4. LC!Instruct(p, m) = [p EXCEPT !.mode = l.mode]
  <2> HIDE DEF m
  <2>1. LC!Instruct(p, m) = [p EXCEPT !.mode = LC!Flags(m) \ {4}]
    BY <1>1 DEF LC!Instruct
  <2> QED
    BY <2>1, ByteFacts DEF m
<1>5. LC!Instruct(p, 1) = [p EXCEPT !.ram = "text", !.addr = 0, !.mode = p.mode \cup {2}]
  BY DEF LC!Instruct, ScreenOf
<1> HIDE DEF f, c, m
<1>6. LinesSet(LC!Instruct(p, f), l)
  BY <1>2 DEF LinesSet, ScreenOf
<1>7. LinesSet(p, l) => Shown(LC!Instruct(p, c), l)
  BY <1>3 DEF LinesSet, Shown, ScreenOf
<1>8. Shown(p, l) => Agrees(LC!Instruct(p, m), l)
  BY <1>4 DEF LinesSet, Shown, Agrees, ScreenOf
<1>9. Shown(p, l) => Shown(LC!Instruct(p, 1), l)
  BY <1>5 DEF LinesSet, Shown, ScreenOf
<1> QED
  BY <1>6, <1>7, <1>8, <1>9 DEF f, c, m

\* What is to come is a sequence of pulses.
LEMMA RestFacts ==
  ASSUME NEW l \in LcdOf
  PROVE  /\ Final(l) \in Seq(EnablePulse) /\ Clearing(l) \in Seq(EnablePulse)
         /\ Showing(l) \in Seq(EnablePulse) /\ Setting(l) \in Seq(EnablePulse)
         /\ Then(LC!send(l, FunctionByte(l), 0), Setting(l)) \in Seq(EnablePulse)
         /\ Then(LC!send(l, FunctionByte(l), 0), Then(LC!send(l, FunctionByte(l), 0), Setting(l)))
              \in Seq(EnablePulse)
         /\ Three \in Seq(EnablePulse) /\ Two \in Seq(EnablePulse)
<1>1. Nothing \in Seq(EnablePulse)
  BY ThenFacts
<1>2. FunctionByte(l) \in 0 .. 255 /\ ControlByte(l) \in 0 .. 255 /\ ModeByte(l) \in 0 .. 255
  BY ByteFacts
<1>a. ASSUME NEW v \in 0 .. 255, NEW rest \in Seq(EnablePulse)
      PROVE  Then(LC!send(l, v, 0), rest) \in Seq(EnablePulse)
  <2>1. \A rs \in {0, 1} : Then(LC!send(l, v, rs), rest) \in Seq(EnablePulse)
    <3> SUFFICES ASSUME NEW rs \in {0, 1} PROVE Then(LC!send(l, v, rs), rest) \in Seq(EnablePulse)
      OBVIOUS
    <3>1. Sent(l, v, rs, rest)
      BY SendFacts
    <3> QED
      BY <3>1 DEF Sent
  <2> QED
    BY <2>1
<1>3. Final(l) \in Seq(EnablePulse)
  BY <1>1, <1>2, <1>a DEF Final
<1>4. Clearing(l) \in Seq(EnablePulse)
  BY <1>3, <1>a DEF Clearing
<1>5. Showing(l) \in Seq(EnablePulse)
  BY <1>2, <1>4, <1>a DEF Showing
<1>6. Setting(l) \in Seq(EnablePulse)
  BY <1>2, <1>5, <1>a DEF Setting
<1>7. Then(LC!send(l, FunctionByte(l), 0), Setting(l)) \in Seq(EnablePulse)
  BY <1>2, <1>6, <1>a
<1>8. Then(LC!send(l, FunctionByte(l), 0), Then(LC!send(l, FunctionByte(l), 0), Setting(l)))
        \in Seq(EnablePulse)
  BY <1>2, <1>7, <1>a
<1>9. Three \in Seq(EnablePulse) /\ Two \in Seq(EnablePulse)
  <2>1. [rs |-> 0, v |-> 3] \in EnablePulse /\ [rs |-> 0, v |-> 2] \in EnablePulse
    BY DEF EnablePulse
  <2> QED
    BY <2>1, ThenFacts DEF Three, Two, Nibble
<1> QED
  BY <1>3, <1>4, <1>5, <1>6, <1>7, <1>8, <1>9

\* What begin sends.
LEMMA BeginFacts ==
  ASSUME NEW l \in LcdOf
  PROVE  /\ ~l.eight => LC!Synchronise(l) \o LC!Configure(l)
                          = Then(Three, Then(Three, Then(Three, Then(Two, Setting(l)))))
         /\ l.eight => LC!Synchronise(l) \o LC!Configure(l)
                          = Then(LC!send(l, FunctionByte(l), 0), Then(LC!send(l, FunctionByte(l), 0),
                              Then(LC!send(l, FunctionByte(l), 0), Setting(l))))
<1> DEFINE f == LC!send(l, FunctionByte(l), 0)
           d == LC!send(l, ControlByte(l), 0)
           c == LC!send(l, 1, 0)
           m == LC!send(l, ModeByte(l), 0)
<1>1. f \in Seq(EnablePulse) /\ d \in Seq(EnablePulse) /\ c \in Seq(EnablePulse) /\ m \in Seq(EnablePulse)
  <2>1. ASSUME NEW v \in 0 .. 255 PROVE LC!send(l, v, 0) \in Seq(EnablePulse)
    <3>1. \A rs \in {0, 1} : LC!send(l, v, rs) \in Seq(EnablePulse)
      <4> SUFFICES ASSUME NEW rs \in {0, 1} PROVE LC!send(l, v, rs) \in Seq(EnablePulse)
        OBVIOUS
      <4>1. Nothing \in Seq(EnablePulse)
        BY ThenFacts
      <4>2. Sent(l, v, rs, Nothing)
        BY <4>1, SendFacts
      <4> QED
        BY <4>2 DEF Sent
    <3> QED
      BY <3>1
  <2>2. FunctionByte(l) \in 0 .. 255 /\ ControlByte(l) \in 0 .. 255 /\ ModeByte(l) \in 0 .. 255
    BY ByteFacts
  <2> QED
    BY <2>1, <2>2, 1 \in 0 .. 255, Zenon
<1>2. LC!Configure(l) = Then(Then(Then(f, d), c), m)
  BY DEF LC!Configure, LC!FunctionSet, LC!DisplayControl, LC!EntryModeSet, LC!command,
     LC!LCD_FUNCTIONSET, LC!LCD_8BITMODE, LC!LCD_2LINE, LC!LCD_5x10DOTS, FunctionByte,
     ControlByte, ModeByte, Then
<1>3. LC!FunctionSet(l) = f
  BY DEF LC!FunctionSet, LC!command, LC!LCD_FUNCTIONSET, LC!LCD_8BITMODE, LC!LCD_2LINE,
     LC!LCD_5x10DOTS, FunctionByte
<1>4. Setting(l) = Then(f, Then(d, Then(c, Then(m, Nothing))))
  BY DEF Setting, Showing, Clearing, Final
<1>5. Three \in Seq(EnablePulse) /\ Two \in Seq(EnablePulse) /\ Setting(l) \in Seq(EnablePulse)
  BY RestFacts
<1>6. LC!write4bits(0, 3) = Three /\ LC!write4bits(0, 2) = Two
  BY DEF LC!write4bits, Three, Two, Nibble, Alone
<1>7. LC!Synchronise(l) = IF l.eight THEN Then(Then(f, f), f)
                          ELSE Then(Then(Then(Three, Three), Three), Two)
  BY <1>3, <1>6 DEF LC!Synchronise, Then
<1>8. LC!Synchronise(l) \o LC!Configure(l) = Then(LC!Synchronise(l), LC!Configure(l))
  BY DEF Then
<1> HIDE DEF f, d, c, m
<1>9. LC!Configure(l) = Setting(l)
  BY <1>1, <1>2, <1>4, ThenFacts
<1>10. ASSUME l.eight
       PROVE  LC!Synchronise(l) \o LC!Configure(l) = Then(f, Then(f, Then(f, Setting(l))))
  <2>1. LC!Synchronise(l) \o LC!Configure(l) = Then(Then(Then(f, f), f), Setting(l))
    BY <1>7, <1>8, <1>9, <1>10
  <2> DEFINE r == Setting(l)
  <2>2. r \in Seq(EnablePulse)
    BY <1>5
  <2> HIDE DEF r
  <2>3. Then(Then(Then(f, f), f), r) = Then(f, Then(f, Then(f, r)))
    BY <1>1, <2>2, ThenFacts
  <2> QED
    BY <2>1, <2>3 DEF r
<1>11. ASSUME ~l.eight
       PROVE  LC!Synchronise(l) \o LC!Configure(l)
                = Then(Three, Then(Three, Then(Three, Then(Two, Setting(l)))))
  <2>1. LC!Synchronise(l) \o LC!Configure(l)
          = Then(Then(Then(Then(Three, Three), Three), Two), Setting(l))
    BY <1>7, <1>8, <1>9, <1>11
  <2> DEFINE a == Three
             b == Two
             r == Setting(l)
  <2>2. a \in Seq(EnablePulse) /\ b \in Seq(EnablePulse) /\ r \in Seq(EnablePulse)
    BY <1>5
  <2> HIDE DEF a, b, r
  <2>3. Then(a, a) \in Seq(EnablePulse) /\ Then(Then(a, a), a) \in Seq(EnablePulse)
        /\ Then(b, r) \in Seq(EnablePulse) /\ Then(a, Then(b, r)) \in Seq(EnablePulse)
    BY <2>2, ThenFacts
  <2>4. Then(Then(Then(Then(a, a), a), b), r) = Then(Then(Then(a, a), a), Then(b, r))
    BY <2>2, <2>3, ThenFacts
  <2>5. Then(Then(Then(a, a), a), Then(b, r)) = Then(Then(a, a), Then(a, Then(b, r)))
    BY <2>2, <2>3, ThenFacts
  <2>6. Then(Then(a, a), Then(a, Then(b, r))) = Then(a, Then(a, Then(a, Then(b, r))))
    BY <2>2, <2>3, ThenFacts
  <2>7. Then(Then(Then(Then(a, a), a), b), r) = Then(a, Then(a, Then(a, Then(b, r))))
    BY <2>4, <2>5, <2>6
  <2> QED
    BY <2>1, <2>7 DEF a, b, r
<1> QED
  BY <1>10, <1>11 DEF f

\* A display without half a byte.
LEMMA EntireFacts ==
  ASSUME NEW p \in ScreenOf
  PROVE  /\ Entire(p) \in ScreenOf /\ Entire(p).half = -1 /\ Entire(p).eight = p.eight
         /\ Entire(p).twoLine = p.twoLine /\ Entire(p).tall = p.tall
         /\ Entire(p).control = p.control /\ Entire(p).mode = p.mode
         /\ Entire(p).ram = p.ram /\ Entire(p).addr = p.addr
BY DEF Entire, ScreenOf

\* A byte is a number.
LEMMA ByteIsNumber == \A v \in 0 .. 255 : v \in Nat
OBVIOUS

\* What a pulse does with a byte that is to come: it is still to come, or it is there.
Waits(v, rs, rest) ==
  /\ DisplayTypeOK' /\ lcd' = lcd /\ holds' = holds /\ cgram' = cgram
  /\ Coming(panel', pulses', lcd, v, rs, rest)
  /\ Entire(panel') = Entire(panel)
  /\ panel'.eight = panel.eight /\ panel'.ram = panel.ram /\ panel'.addr = panel.addr

Comes(v, rs, rest) ==
  /\ lcd' = lcd /\ holds' = holds /\ pulses' = rest
  /\ panel' \in ScreenOf /\ panel'.half = -1 /\ cgram' \in [0 .. 63 -> Nat]
  /\ rs = 0 => panel' = LC!Instruct(Entire(panel), v) /\ cgram' = cgram
  /\ rs = 1 => /\ panel' = LC!Stored(Entire(panel))
               /\ panel.ram = "text" => cgram' = cgram
               /\ panel.ram = "glyph" => cgram' = [cgram EXCEPT ![panel.addr % 64] = v]
  /\ v \notin 32 .. 63 \/ rs = 1 => panel'.eight = panel.eight

LEMMA ByteFate ==
  ASSUME DisplayTypeOK, panel.eight = lcd.eight, NEW v \in 0 .. 255,
         NEW rs \in {0, 1}, NEW rest \in Seq(EnablePulse),
         Coming(panel, pulses, lcd, v, rs, rest), LC!pulseEnable
  PROVE  Waits(v, rs, rest) \/ Comes(v, rs, rest)
<1>1. lcd' = lcd /\ holds' = holds
  BY DEF LC!pulseEnable
<1>2. lcd \in LcdOf /\ panel \in ScreenOf /\ cgram \in [0 .. 63 -> Nat]
  BY DEF DisplayTypeOK
<1> DEFINE p == Entire(panel)
<1>3. p \in ScreenOf /\ p.half = -1 /\ p.eight = panel.eight /\ p.ram = panel.ram /\ p.addr = panel.addr
  BY <1>2, EntireFacts
<1>4. CASE HalfIn(v, rs, rest)
  <2>0. /\ Coming(panel', pulses', lcd', v, rs, rest) /\ Entire(panel') = Entire(panel) /\ cgram' = cgram
        /\ panel' \in ScreenOf
    BY <1>4 DEF HalfIn
  <2>1. panel'.eight = panel.eight /\ panel'.ram = panel.ram /\ panel'.addr = panel.addr
    BY <1>3, <2>0, EntireFacts
  <2>2. lcd.eight => panel'.half = -1
    BY <1>1, <2>0 DEF Coming
  <2>3. DisplayTypeOK'
    BY <1>1, <2>0, <2>1, <2>2 DEF DisplayTypeOK
  <2> QED
    BY <1>1, <2>0, <2>1, <2>3 DEF Waits
<1>5. CASE WholeIn(v, rs, rest)
  <2> HIDE DEF p
  <2>1. CASE rs = 0
    <3>1. panel' = LC!Instruct(p, v) /\ cgram' = cgram
      BY <1>5, <2>1 DEF p, WholeIn
    <3>2. panel' \in ScreenOf /\ panel'.half = -1 /\ (v \notin 32 .. 63 => panel'.eight = panel.eight)
      BY <1>3, <3>1, InstructFacts
    <3> QED
      BY <1>1, <1>2, <1>5, <2>1, <3>1, <3>2 DEF Comes, p, WholeIn
  <2>2. CASE rs = 1
    <3>1. panel' = LC!Stored(p)
      BY <1>5, <2>2 DEF p, WholeIn
    <3>2. panel' \in ScreenOf /\ panel'.half = -1 /\ panel'.eight = panel.eight
      BY <1>3, <3>1, StoredFacts
    <3>3. cgram' \in [0 .. 63 -> Nat]
      <4>1. v \in Nat
        BY ByteIsNumber
      <4> DEFINE a == panel.addr % 64
      <4>2. cgram' = cgram \/ cgram' = [cgram EXCEPT ![a] = v]
        BY <1>5 DEF WholeIn
      <4> HIDE DEF a
      <4>3. [cgram EXCEPT ![a] = v] \in [0 .. 63 -> Nat]
        BY <1>2, <4>1, Zenon
      <4> QED
        BY <1>2, <4>2, <4>3, Zenon
    <3>4. /\ panel.ram = "text" => cgram' = cgram
          /\ panel.ram = "glyph" => cgram' = [cgram EXCEPT ![panel.addr % 64] = v]
      BY <1>5, <2>2 DEF WholeIn
    <3> QED
      BY <1>1, <1>5, <2>2, <3>1, <3>2, <3>3, <3>4 DEF Comes, p, WholeIn
  <2> QED
    BY <2>1, <2>2
<1> QED
  BY <1>2, <1>4, <1>5, ByteStep

\* The rows of a glyph are bytes, and one follows the other.
LEMMA RowFacts ==
  ASSUME NEW g \in 0 .. 7, NEW k \in 0 .. 7
  PROVE  /\ LC!Row(g, k) \in 1 .. 64
         /\ 8 * g + k \in 0 .. 63
         /\ LC!GlyphAddress(g) = 64 + 8 * g /\ LC!GlyphAddress(g) \in 64 .. 120
BY DEF LC!Row, LC!GlyphAddress

LEMMA RowsFacts ==
  ASSUME NEW l \in LcdOf, NEW g \in 0 .. 7
  PROVE  /\ \A k \in 0 .. 8 : RowsFrom(l, g, k) \in Seq(EnablePulse)
         /\ \A k \in 0 .. 7 : RowsFrom(l, g, k) = Then(LC!send(l, LC!Row(g, k), 1), RowsFrom(l, g, k + 1))
         /\ RowsFrom(l, g, 8) = Nothing
<1>1. RowsFrom(l, g, 8) = Nothing
  BY DEF RowsFrom
<1>2. ASSUME NEW k \in 0 .. 7
      PROVE  RowsFrom(l, g, k) = Then(LC!send(l, LC!Row(g, k), 1), RowsFrom(l, g, k + 1))
  <2>0. CASE k = 0
    BY <2>0 DEF RowsFrom
  <2>1. CASE k = 1
    BY <2>1 DEF RowsFrom
  <2>2. CASE k = 2
    BY <2>2 DEF RowsFrom
  <2>3. CASE k = 3
    BY <2>3 DEF RowsFrom
  <2>4. CASE k = 4
    BY <2>4 DEF RowsFrom
  <2>5. CASE k = 5
    BY <2>5 DEF RowsFrom
  <2>6. CASE k = 6
    BY <2>6 DEF RowsFrom
  <2>7. CASE k = 7
    BY <2>7 DEF RowsFrom
  <2> QED
    BY <2>0, <2>1, <2>2, <2>3, <2>4, <2>5, <2>6, <2>7
<1>3. ASSUME NEW k \in 0 .. 7, RowsFrom(l, g, k + 1) \in Seq(EnablePulse)
      PROVE  RowsFrom(l, g, k) \in Seq(EnablePulse)
  <2>1. LC!Row(g, k) \in 0 .. 255
    BY RowFacts
  <2> DEFINE v == LC!Row(g, k)
             rest == RowsFrom(l, g, k + 1)
  <2> HIDE DEF v, rest
  <2>2. \A rs \in {0, 1} : Sent(l, v, rs, rest)
    <3> SUFFICES ASSUME NEW rs \in {0, 1} PROVE Sent(l, v, rs, rest)
      OBVIOUS
    <3> QED
      BY <1>3, <2>1, SendFacts DEF v, rest
  <2>3. Sent(l, v, 1, rest)
    BY <2>2
  <2> QED
    BY <1>2, <2>3 DEF Sent, v, rest
<1>4. RowsFrom(l, g, 8) \in Seq(EnablePulse)
  BY <1>1, ThenFacts
<1>5. RowsFrom(l, g, 7) \in Seq(EnablePulse)
  <2>1. 7 \in 0 .. 7 /\ 7 + 1 = 8
    OBVIOUS
  <2> QED
    BY <1>3, <1>4, <2>1
<1>6. RowsFrom(l, g, 6) \in Seq(EnablePulse)
  <2>1. 6 \in 0 .. 7 /\ 6 + 1 = 7
    OBVIOUS
  <2> QED
    BY <1>3, <1>5, <2>1
<1>7. RowsFrom(l, g, 5) \in Seq(EnablePulse)
  <2>1. 5 \in 0 .. 7 /\ 5 + 1 = 6
    OBVIOUS
  <2> QED
    BY <1>3, <1>6, <2>1
<1>8. RowsFrom(l, g, 4) \in Seq(EnablePulse)
  <2>1. 4 \in 0 .. 7 /\ 4 + 1 = 5
    OBVIOUS
  <2> QED
    BY <1>3, <1>7, <2>1
<1>9. RowsFrom(l, g, 3) \in Seq(EnablePulse)
  <2>1. 3 \in 0 .. 7 /\ 3 + 1 = 4
    OBVIOUS
  <2> QED
    BY <1>3, <1>8, <2>1
<1>10. RowsFrom(l, g, 2) \in Seq(EnablePulse)
  <2>1. 2 \in 0 .. 7 /\ 2 + 1 = 3
    OBVIOUS
  <2> QED
    BY <1>3, <1>9, <2>1
<1>11. RowsFrom(l, g, 1) \in Seq(EnablePulse)
  <2>1. 1 \in 0 .. 7 /\ 1 + 1 = 2
    OBVIOUS
  <2> QED
    BY <1>3, <1>10, <2>1
<1>12. RowsFrom(l, g, 0) \in Seq(EnablePulse)
  <2>1. 0 \in 0 .. 7 /\ 0 + 1 = 1
    OBVIOUS
  <2> QED
    BY <1>3, <1>11, <2>1
<1>13. \A k \in 0 .. 8 : RowsFrom(l, g, k) \in Seq(EnablePulse)
  <2> TAKE k \in 0 .. 8
  <2>1. k = 0 \/ k = 1 \/ k = 2 \/ k = 3 \/ k = 4 \/ k = 5 \/ k = 6 \/ k = 7 \/ k = 8
    OBVIOUS
  <2> QED
    BY <1>4, <1>5, <1>6, <1>7, <1>8, <1>9, <1>10, <1>11, <1>12, <2>1
<1> QED
  BY <1>1, <1>2, <1>13

\* A pulse with four wires, while driver and display may not agree.
NibbleComes(n, rest) ==
  /\ lcd' = lcd /\ holds' = holds /\ cgram' = cgram /\ pulses' = rest
  /\ panel' \in ScreenOf /\ (panel'.eight => panel'.half = -1)
  /\ panel.eight => (panel'.eight <=> n = 3) /\ panel'.half = -1
  /\ ~panel.eight /\ panel.half = -1 => ~panel'.eight /\ panel'.half = n
  /\ ~panel.eight /\ panel.half = 3 /\ n = 3 => panel'.eight
  /\ ~panel.eight /\ panel.half # -1 => panel'.half = -1

LEMMA NibbleStep ==
  ASSUME DisplayTypeOK, ~lcd.eight, NEW n \in {2, 3}, NEW rest \in Seq(EnablePulse),
         pulses = Then(Nibble(n), rest), LC!pulseEnable
  PROVE  NibbleComes(n, rest)
<1> DEFINE e == [rs |-> 0, v |-> n]
           b == LC!Arrives(Head(pulses))
           p == Entire(panel)
<1>1. lcd' = lcd /\ holds' = holds /\ pulses' = Tail(pulses)
  BY DEF LC!pulseEnable
<1>2. panel \in ScreenOf /\ (panel.eight => panel.half = -1)
  BY DEF DisplayTypeOK
<1>3. p \in ScreenOf /\ p.half = -1 /\ p.eight = panel.eight
  BY <1>2, EntireFacts
<1>4. e \in EnablePulse /\ e.rs = 0 /\ e.v = n
  BY DEF EnablePulse
<1>5. Head(pulses) = e /\ Tail(pulses) = rest
  <2> HIDE DEF e
  <2>1. pulses = Then(Alone(e), rest)
    BY DEF e, Nibble
  <2>2. Head(Then(Alone(e), rest)) = e /\ Tail(Then(Alone(e), rest)) = rest
    BY <1>4, ThenFacts
  <2> QED
    BY <2>1, <2>2
<1>6. /\ b.rs = -1 => panel' = [panel EXCEPT !.half = b.v]
      /\ b.rs = 0 => panel' = LC!Instruct(p, b.v)
      /\ b.rs # 1 => cgram' = cgram
  BY DEF LC!pulseEnable, Entire
<1>7. CASE panel.eight
  <2>1. b = [rs |-> 0, v |-> 16 * n]
    BY <1>4, <1>5, <1>7 DEF LC!Arrives
  <2>2. b.rs = 0 /\ b.v = 16 * n
    BY <2>1
  <2> HIDE DEF b, p
  <2>3. panel' = LC!Instruct(p, 16 * n) /\ cgram' = cgram
    BY <1>6, <2>2
  <2> DEFINE v == 16 * n
  <2>4. v \in 0 .. 255 /\ v \in 32 .. 63 /\ (LC!Bit(v, 16) <=> n = 3)
    BY DEF LC!Bit
  <2> HIDE DEF v
  <2>5. LC!Instruct(p, v) \in ScreenOf /\ LC!Instruct(p, v).half = -1
    BY <1>3, <2>4, InstructFacts
  <2>7. LC!Instruct(p, v).eight = LC!Bit(v, 16)
    BY <1>3, <2>4, InstructFacts
  <2>8. panel' = LC!Instruct(p, v)
    BY <2>3 DEF v
  <2>9. panel' \in ScreenOf /\ panel'.half = -1 /\ (panel'.eight <=> n = 3)
    BY <2>4, <2>5, <2>7, <2>8
  <2> QED
    BY <1>1, <1>5, <1>7, <2>3, <2>9 DEF NibbleComes
<1>8. CASE ~panel.eight /\ panel.half = -1
  <2>1. b = [rs |-> -1, v |-> n]
    BY <1>4, <1>5, <1>8 DEF LC!Arrives
  <2>2. b.rs = -1 /\ b.v = n
    BY <2>1
  <2> HIDE DEF b
  <2>3. panel' = [panel EXCEPT !.half = n] /\ cgram' = cgram
    BY <1>6, <2>2
  <2>4. panel' \in ScreenOf /\ panel'.half = n /\ panel'.eight = panel.eight
    <3>1. n \in -1 .. 15
      OBVIOUS
    <3> QED
      BY <1>2, <2>3, <3>1 DEF ScreenOf
  <2> QED
    BY <1>1, <1>5, <1>8, <2>3, <2>4 DEF NibbleComes
<1>9. CASE ~panel.eight /\ panel.half # -1
  <2> DEFINE v == 16 * panel.half + n
  <2>1. b = [rs |-> 0, v |-> v]
    BY <1>4, <1>5, <1>9 DEF LC!Arrives
  <2>2. b.rs = 0 /\ b.v = v
    BY <2>1
  <2>3. panel.half \in 0 .. 15
    BY <1>2, <1>9 DEF ScreenOf
  <2>4. v \in 0 .. 255 /\ (panel.half = 3 /\ n = 3 => v = 51)
    <3>1. ASSUME NEW h \in 0 .. 15 PROVE 16 * h + n \in 0 .. 255 /\ (h = 3 /\ n = 3 => 16 * h + n = 51)
      OBVIOUS
    <3> QED
      BY <2>3, <3>1
  <2> HIDE DEF b, p, v
  <2>5. panel' = LC!Instruct(p, v) /\ cgram' = cgram
    BY <1>6, <2>2
  <2>6. panel' \in ScreenOf /\ panel'.half = -1
    BY <1>3, <2>4, <2>5, InstructFacts
  <2>7. v = 51 => panel'.eight
    <3>2. v = 51 => LC!Bit(v, 16)
      BY DEF LC!Bit
    <3>3. v = 51 => LC!Instruct(p, v).eight = LC!Bit(v, 16)
      BY <1>3, <2>4, InstructFacts
    <3> QED
      BY <2>5, <3>2, <3>3
  <2> QED
    BY <1>1, <1>5, <1>9, <2>4, <2>5, <2>6, <2>7 DEF NibbleComes
<1> QED
  BY <1>2, <1>7, <1>8, <1>9 DEF ScreenOf

\* Begin with four wires: the display counts halves with the driver when it sees the 2.
LEMMA FourWireStep ==
  ASSUME DisplayTypeOK, Synchronising, ~lcd.eight, LC!pulseEnable
  PROVE  DisplayInv'
<1> DEFINE r == Setting(lcd)
<1>0. lcd \in LcdOf /\ panel \in ScreenOf /\ cgram \in [0 .. 63 -> Nat] /\ holds \subseteq 0 .. 7
      /\ Intact(cgram, holds)
  BY DEF DisplayTypeOK, Synchronising
<1> DEFINE r2 == Then(Two, r)
           r3 == Then(Three, r2)
           r4 == Then(Three, r3)
<1>1. r \in Seq(EnablePulse) /\ r2 \in Seq(EnablePulse) /\ r3 \in Seq(EnablePulse) /\ r4 \in Seq(EnablePulse)
  <2>1. r \in Seq(EnablePulse) /\ Three \in Seq(EnablePulse) /\ Two \in Seq(EnablePulse)
    BY <1>0, RestFacts
  <2> HIDE DEF r
  <2> QED
    BY <2>1, ThenFacts
<1>2. \/ pulses = Then(Three, r4)
      \/ (panel.eight \/ panel.half \in {-1, 3}) /\ pulses = r4
      \/ (panel.eight \/ panel.half = 3) /\ pulses = r3
      \/ panel.eight /\ pulses = r2
  BY DEF Synchronising
<1>3. ASSUME NEW n \in {2, 3}, NibbleComes(n, pulses')
      PROVE  DisplayTypeOK' /\ Intact(cgram', holds') /\ ~lcd'.eight /\ Setting(lcd') = r
  BY <1>0, <1>3 DEF NibbleComes, DisplayTypeOK
<1>4. ASSUME NEW n \in {2, 3}, NEW rest \in Seq(EnablePulse), pulses = Then(Nibble(n), rest)
      PROVE  NibbleComes(n, rest) /\ pulses' = rest
  <2>1. NibbleComes(n, rest)
    BY <1>4, NibbleStep
  <2> QED
    BY <2>1 DEF NibbleComes
<1>5. CASE pulses = Then(Three, r4)
  <2>1. NibbleComes(3, r4) /\ pulses' = r4
    BY <1>1, <1>4, <1>5 DEF Three
  <2>2. panel'.eight \/ panel'.half \in {-1, 3}
    BY <2>1 DEF NibbleComes
  <2>3. DisplayTypeOK' /\ Intact(cgram', holds') /\ ~lcd'.eight /\ Setting(lcd') = r
    BY <1>3, <2>1
  <2>4. Synchronising'
    BY <2>1, <2>2, <2>3 DEF Synchronising
  <2> QED
    BY <2>3, <2>4 DEF DisplayInv
<1>6. CASE (panel.eight \/ panel.half \in {-1, 3}) /\ pulses = r4
  <2>1. NibbleComes(3, r3) /\ pulses' = r3
    BY <1>1, <1>4, <1>6 DEF Three
  <2>2. panel'.eight \/ panel'.half = 3
    BY <1>6, <2>1 DEF NibbleComes
  <2>3. DisplayTypeOK' /\ Intact(cgram', holds') /\ ~lcd'.eight /\ Setting(lcd') = r
    BY <1>3, <2>1
  <2>4. Synchronising'
    BY <2>1, <2>2, <2>3 DEF Synchronising
  <2> QED
    BY <2>3, <2>4 DEF DisplayInv
<1>7. CASE (panel.eight \/ panel.half = 3) /\ pulses = r3
  <2>1. NibbleComes(3, r2) /\ pulses' = r2
    BY <1>1, <1>4, <1>7 DEF Three
  <2>2. panel'.eight
    BY <1>7, <2>1 DEF NibbleComes
  <2>3. DisplayTypeOK' /\ Intact(cgram', holds') /\ ~lcd'.eight /\ Setting(lcd') = r
    BY <1>3, <2>1
  <2>4. Synchronising'
    BY <2>1, <2>2, <2>3 DEF Synchronising
  <2> QED
    BY <2>3, <2>4 DEF DisplayInv
<1>8. CASE panel.eight /\ pulses = r2
  <2>1. NibbleComes(2, r) /\ pulses' = r
    BY <1>1, <1>4, <1>8 DEF Two
  <2>2. ~panel'.eight /\ panel'.half = -1
    BY <1>8, <2>1 DEF NibbleComes
  <2>3. DisplayTypeOK' /\ Intact(cgram', holds') /\ ~lcd'.eight /\ Setting(lcd') = r
    BY <1>3, <2>1
  <2>a. panel'.eight \in BOOLEAN /\ lcd'.eight \in BOOLEAN
    BY <2>3 DEF DisplayTypeOK, ScreenOf, LcdOf
  <2>4. Coming(panel', pulses', lcd', FunctionByte(lcd'), 0, Showing(lcd'))
    BY <2>1, <2>2, <2>3 DEF Coming, Setting
  <2>5. Configuring'
    BY <2>2, <2>3, <2>4, <2>a DEF Configuring
  <2> QED
    BY <2>3, <2>5 DEF DisplayInv
<1> QED
  BY <1>2, <1>5, <1>6, <1>7, <1>8

\* A byte that the display still waits for leaves everything else as it is.
LEMMA WaitsFacts ==
  ASSUME NEW v \in 0 .. 255, NEW rs \in {0, 1}, NEW rest, Waits(v, rs, rest)
  PROVE  /\ DisplayTypeOK' /\ lcd' = lcd /\ holds' = holds /\ cgram' = cgram
         /\ panel'.eight = panel.eight /\ panel'.ram = panel.ram /\ panel'.addr = panel.addr
         /\ Entire(panel') = Entire(panel) /\ Coming(panel', pulses', lcd', v, rs, rest)
BY DEF Waits

\* Begin with eight wires.
LEMMA EightWireStep ==
  ASSUME DisplayTypeOK, Synchronising, lcd.eight, LC!pulseEnable
  PROVE  DisplayInv'
<1> DEFINE f == FunctionByte(lcd)
           s == Setting(lcd)
           s2 == Then(LC!send(lcd, f, 0), s)
           s3 == Then(LC!send(lcd, f, 0), s2)
<1>0. lcd \in LcdOf /\ panel \in ScreenOf /\ cgram \in [0 .. 63 -> Nat] /\ holds \subseteq 0 .. 7
      /\ Intact(cgram, holds) /\ panel.eight
  BY DEF DisplayTypeOK, Synchronising
<1>1. f \in 0 .. 255
  BY <1>0, ByteFacts
<1>2. s \in Seq(EnablePulse) /\ s2 \in Seq(EnablePulse) /\ s3 \in Seq(EnablePulse)
  BY <1>0, RestFacts
<1>3. PICK rest \in {s, s2, s3} : Coming(panel, pulses, lcd, f, 0, rest)
  BY DEF Synchronising
<1>4. panel.eight = lcd.eight
  BY <1>0 DEF LcdOf, ScreenOf
<1>5. Waits(f, 0, rest) \/ Comes(f, 0, rest)
  <2> HIDE DEF f, s, s2, s3
  <2>1. \A rs \in {0, 1} : Coming(panel, pulses, lcd, f, rs, rest) => Waits(f, rs, rest) \/ Comes(f, rs, rest)
    <3> SUFFICES ASSUME NEW rs \in {0, 1}, Coming(panel, pulses, lcd, f, rs, rest)
                 PROVE  Waits(f, rs, rest) \/ Comes(f, rs, rest)
      OBVIOUS
    <3> QED
      BY <1>1, <1>2, <1>4, ByteFate
  <2> QED
    BY <1>3, <2>1
<1>6. CASE Waits(f, 0, rest)
  <2>1. DisplayTypeOK' /\ lcd' = lcd /\ holds' = holds /\ cgram' = cgram
        /\ Coming(panel', pulses', lcd', f, 0, rest)
    BY <1>6 DEF Waits
  <2>2. Synchronising'
    BY <1>0, <1>3, <2>1 DEF Synchronising
  <2> QED
    BY <2>1, <2>2 DEF DisplayInv
<1>7. CASE Comes(f, 0, rest)
  <2>1. lcd' = lcd /\ holds' = holds /\ cgram' = cgram /\ pulses' = rest
        /\ panel' \in ScreenOf /\ panel'.half = -1 /\ panel' = LC!Instruct(Entire(panel), f)
    BY <1>7 DEF Comes
  <2>2. panel'.eight = lcd.eight
    <3>1. Entire(panel) \in ScreenOf /\ Entire(panel).half = -1
      BY <1>0, EntireFacts
    <3>2. LinesSet(LC!Instruct(Entire(panel), f), lcd)
      BY <1>0, <3>1, ConfigureFacts
    <3> QED
      BY <2>1, <3>2 DEF LinesSet
  <2>3. DisplayTypeOK'
    BY <1>0, <2>1, <2>2 DEF DisplayTypeOK
  <2>4. CASE rest = s
    <3>1. Coming(panel', pulses', lcd', FunctionByte(lcd'), 0, Showing(lcd'))
      BY <2>1, <2>4 DEF Coming, Setting
    <3>2. Configuring'
      BY <1>0, <2>1, <2>2, <3>1 DEF Configuring
    <3> QED
      BY <2>3, <3>2 DEF DisplayInv
  <2>5. CASE rest = s2
    <3>1. Coming(panel', pulses', lcd', f, 0, s)
      BY <2>1, <2>5 DEF Coming
    <3>2. Synchronising'
      BY <1>0, <2>1, <3>1 DEF Synchronising
    <3> QED
      BY <2>3, <3>2 DEF DisplayInv
  <2>6. CASE rest = s3
    <3>1. Coming(panel', pulses', lcd', f, 0, s2)
      BY <2>1, <2>6 DEF Coming
    <3>2. Synchronising'
      BY <1>0, <2>1, <3>1 DEF Synchronising
    <3> QED
      BY <2>3, <3>2 DEF DisplayInv
  <2> QED
    BY <1>3, <2>4, <2>5, <2>6
<1> QED
  BY <1>5, <1>6, <1>7

\* The next byte is an instruction, or it is data.
LEMMA NextByte ==
  ASSUME DisplayTypeOK, panel.eight = lcd.eight, NEW v \in 0 .. 255, NEW rest \in Seq(EnablePulse),
         LC!pulseEnable
  PROVE  /\ Coming(panel, pulses, lcd, v, 0, rest) => Waits(v, 0, rest) \/ Comes(v, 0, rest)
         /\ Coming(panel, pulses, lcd, v, 1, rest) => Waits(v, 1, rest) \/ Comes(v, 1, rest)
<1>1. \A rs \in {0, 1} : Coming(panel, pulses, lcd, v, rs, rest) => Waits(v, rs, rest) \/ Comes(v, rs, rest)
  <2> SUFFICES ASSUME NEW rs \in {0, 1}, Coming(panel, pulses, lcd, v, rs, rest)
               PROVE  Waits(v, rs, rest) \/ Comes(v, rs, rest)
    OBVIOUS
  <2> QED
    BY ByteFate
<1> QED
  BY <1>1

\* The rest of begin sets the lines, then the display control, clears and sets the mode.
LEMMA ConfigureStep ==
  ASSUME DisplayTypeOK, Configuring, LC!pulseEnable
  PROVE  DisplayInv'
<1> DEFINE f == FunctionByte(lcd)
           c == ControlByte(lcd)
           m == ModeByte(lcd)
           p == Entire(panel)
<1>0. lcd \in LcdOf /\ panel \in ScreenOf /\ cgram \in [0 .. 63 -> Nat] /\ holds \subseteq 0 .. 7
      /\ Intact(cgram, holds) /\ panel.eight = lcd.eight
  BY DEF DisplayTypeOK, Configuring
<1>1. f \in 32 .. 63 /\ c \in 8 .. 15 /\ m \in 4 .. 7 /\ f \in 0 .. 255 /\ c \in 0 .. 255 /\ m \in 0 .. 255
  BY <1>0, ByteFacts
<1>2. p \in ScreenOf /\ p.half = -1 /\ p.eight = panel.eight
  BY <1>0, EntireFacts
<1>3. Showing(lcd) \in Seq(EnablePulse) /\ Clearing(lcd) \in Seq(EnablePulse) /\ Final(lcd) \in Seq(EnablePulse)
  BY <1>0, RestFacts
<1>a. /\ LinesSet(LC!Instruct(p, f), lcd)
      /\ LinesSet(p, lcd) => Shown(LC!Instruct(p, c), lcd)
      /\ Shown(p, lcd) => Shown(LC!Instruct(p, 1), lcd)
      /\ Shown(p, lcd) => Agrees(LC!Instruct(p, m), lcd)
  BY <1>0, <1>2, ConfigureFacts
<1>4. ASSUME NEW v \in 0 .. 255, NEW rest, Comes(v, 0, rest),
             LC!Instruct(p, v).eight = lcd.eight
      PROVE  /\ DisplayTypeOK' /\ lcd' = lcd /\ Intact(cgram', holds') /\ panel'.eight = lcd'.eight
             /\ panel'.half = -1 /\ pulses' = rest /\ panel' = LC!Instruct(p, v) /\ Entire(panel') = panel'
  <2>1. lcd' = lcd /\ holds' = holds /\ cgram' = cgram /\ pulses' = rest
        /\ panel' \in ScreenOf /\ panel'.half = -1 /\ panel' = LC!Instruct(p, v)
    BY <1>4 DEF Comes
  <2>2. Entire(panel') = panel'
    BY <2>1 DEF Entire, ScreenOf
  <2> QED
    BY <1>0, <1>4, <2>1, <2>2 DEF DisplayTypeOK
<1>5. CASE Coming(panel, pulses, lcd, f, 0, Showing(lcd))
  <2>1. Waits(f, 0, Showing(lcd)) \/ Comes(f, 0, Showing(lcd))
    BY <1>0, <1>1, <1>3, <1>5, NextByte
  <2>2. CASE Waits(f, 0, Showing(lcd))
    <3>1. Configuring'
      BY <1>0, <2>2 DEF Waits, Configuring
    <3> QED
      BY <2>2, <3>1 DEF Waits, DisplayInv
  <2>3. CASE Comes(f, 0, Showing(lcd))
    <3>1. LC!Instruct(p, f).eight = lcd.eight
      BY <1>a DEF LinesSet
    <3>2. /\ DisplayTypeOK' /\ lcd' = lcd /\ Intact(cgram', holds') /\ panel'.eight = lcd'.eight
          /\ panel'.half = -1 /\ pulses' = Showing(lcd) /\ panel' = LC!Instruct(p, f)
          /\ Entire(panel') = panel'
      BY <1>1, <1>4, <2>3, <3>1
    <3>3. LinesSet(Entire(panel'), lcd') /\ Coming(panel', pulses', lcd', ControlByte(lcd'), 0, Clearing(lcd'))
      BY <1>a, <3>2 DEF Coming, Showing
    <3>4. Configuring'
      BY <3>2, <3>3 DEF Configuring
    <3> QED
      BY <3>2, <3>4 DEF DisplayInv
  <2> QED
    BY <2>1, <2>2, <2>3
<1>6. CASE LinesSet(p, lcd) /\ Coming(panel, pulses, lcd, c, 0, Clearing(lcd))
  <2>1. Waits(c, 0, Clearing(lcd)) \/ Comes(c, 0, Clearing(lcd))
    BY <1>0, <1>1, <1>3, <1>6, NextByte
  <2>2. CASE Waits(c, 0, Clearing(lcd))
    <3>1. Configuring'
      BY <1>0, <1>6, <2>2 DEF Waits, Configuring
    <3> QED
      BY <2>2, <3>1 DEF Waits, DisplayInv
  <2>3. CASE Comes(c, 0, Clearing(lcd))
    <3>1. LC!Instruct(p, c).eight = lcd.eight
      BY <1>a, <1>6 DEF LinesSet, Shown
    <3>2. /\ DisplayTypeOK' /\ lcd' = lcd /\ Intact(cgram', holds') /\ panel'.eight = lcd'.eight
          /\ panel'.half = -1 /\ pulses' = Clearing(lcd) /\ panel' = LC!Instruct(p, c)
          /\ Entire(panel') = panel'
      BY <1>1, <1>4, <2>3, <3>1
    <3>3. Shown(Entire(panel'), lcd') /\ Coming(panel', pulses', lcd', 1, 0, Final(lcd'))
      BY <1>a, <1>6, <3>2 DEF Coming, Clearing
    <3>4. Configuring'
      BY <3>2, <3>3 DEF Configuring
    <3> QED
      BY <3>2, <3>4 DEF DisplayInv
  <2> QED
    BY <2>1, <2>2, <2>3
<1>7. CASE Shown(p, lcd) /\ Coming(panel, pulses, lcd, 1, 0, Final(lcd))
  <2>a. 1 \in 0 .. 255
    OBVIOUS
  <2>1. Waits(1, 0, Final(lcd)) \/ Comes(1, 0, Final(lcd))
    <3>1. \A v \in 0 .. 255 : Coming(panel, pulses, lcd, v, 0, Final(lcd))
                                => Waits(v, 0, Final(lcd)) \/ Comes(v, 0, Final(lcd))
      BY <1>0, <1>3, NextByte
    <3> QED
      BY <1>7, <2>a, <3>1
  <2>2. CASE Waits(1, 0, Final(lcd))
    <3>1. Configuring'
      BY <1>0, <1>7, <2>2 DEF Waits, Configuring
    <3> QED
      BY <2>2, <3>1 DEF Waits, DisplayInv
  <2>3. CASE Comes(1, 0, Final(lcd))
    <3>1. LC!Instruct(p, 1).eight = lcd.eight
      BY <1>a, <1>7 DEF LinesSet, Shown
    <3>2. /\ DisplayTypeOK' /\ lcd' = lcd /\ Intact(cgram', holds') /\ panel'.eight = lcd'.eight
          /\ panel'.half = -1 /\ pulses' = Final(lcd) /\ panel' = LC!Instruct(p, 1)
          /\ Entire(panel') = panel'
      <4>1. \A v \in 0 .. 255 : Comes(v, 0, Final(lcd)) /\ LC!Instruct(p, v).eight = lcd.eight =>
              /\ DisplayTypeOK' /\ lcd' = lcd /\ Intact(cgram', holds') /\ panel'.eight = lcd'.eight
              /\ panel'.half = -1 /\ pulses' = Final(lcd) /\ panel' = LC!Instruct(p, v)
              /\ Entire(panel') = panel'
        BY <1>4
      <4> QED
        BY <2>3, <2>a, <3>1, <4>1
    <3>3. Shown(panel', lcd)
      BY <1>a, <1>7, <3>2
    <3>4. panel' \in ScreenOf
      BY <3>2 DEF DisplayTypeOK
    <3>5. Agrees(LC!Instruct(Entire(panel'), ModeByte(lcd)), lcd)
      <4>1. Agrees(LC!Instruct(panel', ModeByte(lcd)), lcd)
        BY <1>0, <3>2, <3>3, <3>4, ConfigureFacts
      <4> QED
        BY <3>2, <4>1
    <3>6. Coming(panel', pulses', lcd', ModeByte(lcd), 0, Nothing)
      BY <3>2 DEF Coming, Final
    <3>7. Commanding'
      BY <1>1, <3>2, <3>5, <3>6 DEF Commanding
    <3> QED
      BY <3>2, <3>7 DEF DisplayInv
  <2> QED
    BY <2>1, <2>2, <2>3
<1> QED
  BY <1>5, <1>6, <1>7 DEF Configuring

\* The last instruction of a call.
LEMMA CommandStep ==
  ASSUME DisplayTypeOK, Commanding, LC!pulseEnable
  PROVE  DisplayInv'
<1> DEFINE p == Entire(panel)
<1>0. lcd \in LcdOf /\ panel \in ScreenOf /\ cgram \in [0 .. 63 -> Nat] /\ holds \subseteq 0 .. 7
      /\ Intact(cgram, holds) /\ panel.eight = lcd.eight /\ Nothing \in Seq(EnablePulse)
  BY ThenFacts DEF DisplayTypeOK, Commanding
<1>1. PICK v \in 0 .. 255 : /\ Coming(panel, pulses, lcd, v, 0, Nothing)
                            /\ Agrees(LC!Instruct(p, v), lcd)
  BY DEF Commanding
<1>2. Waits(v, 0, Nothing) \/ Comes(v, 0, Nothing)
  BY <1>0, <1>1, NextByte
<1>3. CASE Waits(v, 0, Nothing)
  <2>1. /\ DisplayTypeOK' /\ lcd' = lcd /\ holds' = holds /\ cgram' = cgram /\ panel'.eight = panel.eight
        /\ Entire(panel') = p /\ Coming(panel', pulses', lcd', v, 0, Nothing)
    BY <1>3 DEF Waits
  <2>2. Commanding'
    BY <1>0, <1>1, <2>1 DEF Commanding
  <2> QED
    BY <2>1, <2>2 DEF DisplayInv
<1>4. CASE Comes(v, 0, Nothing)
  <2>1. lcd' = lcd /\ holds' = holds /\ cgram' = cgram /\ pulses' = Nothing
        /\ panel' \in ScreenOf /\ panel'.half = -1 /\ panel' = LC!Instruct(p, v)
    BY <1>4 DEF Comes
  <2>2. Agrees(panel', lcd')
    BY <1>1, <2>1
  <2>3. Resting'
    BY <1>0, <2>1, <2>2 DEF Resting
  <2>4. DisplayTypeOK'
    BY <1>0, <2>1, <2>2 DEF DisplayTypeOK, Agrees
  <2> QED
    BY <2>3, <2>4 DEF DisplayInv
<1> QED
  BY <1>2, <1>3, <1>4

\* A character.
LEMMA PrintStep ==
  ASSUME DisplayTypeOK, Printing, LC!pulseEnable
  PROVE  DisplayInv'
<1> DEFINE p == Entire(panel)
           v == LC!Text
<1>0. lcd \in LcdOf /\ panel \in ScreenOf /\ cgram \in [0 .. 63 -> Nat] /\ holds \subseteq 0 .. 7
      /\ Intact(cgram, holds) /\ Agrees(p, lcd) /\ Nothing \in Seq(EnablePulse) /\ v \in 0 .. 255
      /\ (holds # {} => panel.ram = "text") /\ Coming(panel, pulses, lcd, v, 1, Nothing)
  <2>1. v \in 0 .. 255
    BY DEF LC!Text
  <2> HIDE DEF v
  <2>2. Coming(panel, pulses, lcd, v, 1, Nothing)
    BY DEF Printing, v
  <2> QED
    BY <2>1, <2>2, ThenFacts DEF DisplayTypeOK, Printing
<1> HIDE DEF v
<1>1. p \in ScreenOf /\ p.half = -1 /\ p.eight = panel.eight
  BY <1>0, EntireFacts
<1>2. panel.eight = lcd.eight
  BY <1>0, <1>1 DEF Agrees
<1>3. Waits(v, 1, Nothing) \/ Comes(v, 1, Nothing)
  BY <1>0, <1>2, NextByte
<1>4. CASE Waits(v, 1, Nothing)
  <2>1. /\ DisplayTypeOK' /\ lcd' = lcd /\ holds' = holds /\ cgram' = cgram /\ panel'.ram = panel.ram
        /\ Entire(panel') = p /\ Coming(panel', pulses', lcd', v, 1, Nothing)
    BY <1>4 DEF Waits
  <2>2. Printing'
    BY <1>0, <2>1 DEF Printing, v
  <2> QED
    BY <2>1, <2>2 DEF DisplayInv
<1>5. CASE Comes(v, 1, Nothing)
  <2>1. lcd' = lcd /\ holds' = holds /\ pulses' = Nothing /\ cgram' \in [0 .. 63 -> Nat]
        /\ panel' \in ScreenOf /\ panel'.half = -1 /\ panel' = LC!Stored(p)
        /\ (panel.ram = "text" => cgram' = cgram)
    BY <1>5 DEF Comes
  <2>2. Agrees(panel', lcd')
    BY <1>0, <1>1, <2>1, StoredFacts
  <2>3. Intact(cgram', holds')
    BY <1>0, <2>1 DEF Intact
  <2>4. Resting'
    BY <2>1, <2>2, <2>3 DEF Resting
  <2>5. DisplayTypeOK'
    BY <1>0, <2>1, <2>2 DEF DisplayTypeOK, Agrees
  <2> QED
    BY <2>4, <2>5 DEF DisplayInv
<1> QED
  BY <1>3, <1>4, <1>5

\* The address of a glyph.
LEMMA AddressStep ==
  ASSUME DisplayTypeOK, Addressing, LC!pulseEnable
  PROVE  DisplayInv'
<1> DEFINE p == Entire(panel)
<1>0. lcd \in LcdOf /\ panel \in ScreenOf /\ cgram \in [0 .. 63 -> Nat] /\ holds \subseteq 0 .. 7
      /\ Agrees(p, lcd)
  BY DEF DisplayTypeOK, Addressing
<1>1. p \in ScreenOf /\ p.half = -1 /\ p.eight = panel.eight
  BY <1>0, EntireFacts
<1>2. panel.eight = lcd.eight
  BY <1>0, <1>1 DEF Agrees
<1>3. PICK g \in 0 .. 7 : /\ Coming(panel, pulses, lcd, 64 + 8 * g, 0, RowsFrom(lcd, g, 0))
                          /\ holds # {} => 2 \in lcd.mode /\ Intact(cgram, holds \ {g})
  BY DEF Addressing
<1> DEFINE v == 64 + 8 * g
           rest == RowsFrom(lcd, g, 0)
<1>4. v \in 0 .. 255 /\ v \in 64 .. 127 /\ v - 64 = 8 * g /\ 8 * g \in 0 .. 127
  OBVIOUS
<1>5. rest \in Seq(EnablePulse) /\ rest = Then(LC!send(lcd, LC!Row(g, 0), 1), RowsFrom(lcd, g, 1))
  <2>1. /\ \A k \in 0 .. 8 : RowsFrom(lcd, g, k) \in Seq(EnablePulse)
        /\ \A k \in 0 .. 7 : RowsFrom(lcd, g, k) = Then(LC!send(lcd, LC!Row(g, k), 1), RowsFrom(lcd, g, k + 1))
    BY <1>0, RowsFacts
  <2>2. 0 \in 0 .. 8 /\ 0 \in 0 .. 7 /\ 0 + 1 = 1
    OBVIOUS
  <2> QED
    BY <2>1, <2>2
<1>a. Coming(panel, pulses, lcd, v, 0, rest)
  BY <1>3
<1> HIDE DEF v, rest
<1>6. Waits(v, 0, rest) \/ Comes(v, 0, rest)
  BY <1>0, <1>2, <1>4, <1>5, <1>a, NextByte
<1>7. CASE Waits(v, 0, rest)
  <2>1. /\ DisplayTypeOK' /\ lcd' = lcd /\ holds' = holds /\ cgram' = cgram
        /\ Entire(panel') = p /\ Coming(panel', pulses', lcd', v, 0, rest)
    BY <1>7 DEF Waits
  <2>2. Coming(panel', pulses', lcd', 64 + 8 * g, 0, RowsFrom(lcd', g, 0))
    BY <2>1 DEF v, rest
  <2>3. Addressing'
    BY <1>0, <1>3, <2>1, <2>2 DEF Addressing
  <2> QED
    BY <2>1, <2>3 DEF DisplayInv
<1>8. CASE Comes(v, 0, rest)
  <2>1. lcd' = lcd /\ holds' = holds /\ cgram' = cgram /\ pulses' = rest
        /\ panel' \in ScreenOf /\ panel'.half = -1 /\ panel' = LC!Instruct(p, v)
    BY <1>8 DEF Comes
  <2>5. /\ panel'.ram = "glyph" /\ panel'.addr = 8 * g /\ panel'.eight = p.eight /\ panel'.twoLine = p.twoLine
        /\ panel'.tall = p.tall /\ panel'.control = p.control /\ panel'.mode = p.mode
    BY <1>1, <1>4, <2>1, GlyphPlaced
  <2>6. Agrees(panel', lcd') /\ Entire(panel') = panel'
    BY <1>0, <2>1, <2>5 DEF Agrees, Entire, ScreenOf
  <2>7. DisplayTypeOK'
    BY <1>0, <2>1, <2>6 DEF DisplayTypeOK, Agrees
  <2>8. Coming(panel', pulses', lcd', LC!Row(g, 0), 1, RowsFrom(lcd', g, 1))
    BY <1>5, <2>1 DEF Coming
  <2>9. Storing'
    <3>1. 0 \in 0 .. 7 /\ 0 + 1 = 1 /\ 8 * g + 0 = 8 * g
      OBVIOUS
    <3>2. panel'.ram = "glyph" /\ panel'.addr = 8 * g + 0
      BY <2>5, <3>1
    <3>3. holds' # {} => /\ 2 \in lcd'.mode /\ panel'.ram = "glyph" /\ panel'.addr = 8 * g + 0
                         /\ Partly(cgram', holds', g, 0)
      BY <1>3, <2>1, <3>2 DEF Partly
    <3>4. Coming(panel', pulses', lcd', LC!Row(g, 0), 1, RowsFrom(lcd', g, 0 + 1))
      BY <2>8, <3>1
    <3> QED
      BY <2>6, <3>1, <3>3, <3>4 DEF Storing
  <2> QED
    BY <2>7, <2>9 DEF DisplayInv
<1> QED
  BY <1>6, <1>7, <1>8

\* A row of a glyph goes to its own place.
RowPut(rows, g, k) == [rows EXCEPT ![8 * g + k] = LC!Row(g, k)]

LEMMA RowPutFacts ==
  ASSUME NEW was \in [0 .. 63 -> Nat], NEW S \in SUBSET (0 .. 7), NEW g \in 0 .. 7, NEW k \in 0 .. 7,
         Partly(was, S, g, k)
  PROVE  Partly(RowPut(was, g, k), S, g, k + 1)
<1> DEFINE rows == RowPut(was, g, k)
<1>1. ASSUME NEW h \in 0 .. 7, NEW i \in 0 .. 7
      PROVE  /\ 8 * h + i \in 0 .. 63 /\ 8 * g + k \in 0 .. 63
             /\ 8 * h + i = 8 * g + k => h = g /\ i = k
  OBVIOUS
<1>2. ASSUME NEW a \in 0 .. 63
      PROVE  /\ a # 8 * g + k => rows[a] = was[a]
             /\ a = 8 * g + k => rows[a] = LC!Row(g, k)
  BY DEF RowPut
<1> HIDE DEF rows
<1>3. ASSUME NEW h \in S \ {g}, NEW i \in 0 .. 7 PROVE rows[8 * h + i] = LC!Row(h, i)
  <2>1. h \in 0 .. 7 /\ h # g /\ was[8 * h + i] = LC!Row(h, i)
    BY DEF Intact, Partly
  <2>2. 8 * h + i \in 0 .. 63 /\ 8 * h + i # 8 * g + k
    BY <1>1, <2>1
  <2> QED
    BY <1>2, <2>1, <2>2
<1>4. ASSUME NEW i \in 0 .. 7, i < k + 1 PROVE rows[8 * g + i] = LC!Row(g, i)
  <2>1. CASE i = k
    BY <1>1, <1>2, <2>1
  <2>2. CASE i # k
    <3>1. i < k
      BY <1>4, <2>2
    <3>2. 8 * g + i \in 0 .. 63 /\ 8 * g + i # 8 * g + k
      BY <1>1, <2>2
    <3>3. was[8 * g + i] = LC!Row(g, i)
      BY <3>1 DEF Partly
    <3> QED
      BY <1>2, <3>2, <3>3
  <2> QED
    BY <2>1, <2>2
<1> QED
  BY <1>3, <1>4 DEF Intact, Partly, rows

LEMMA StoreStep ==
  ASSUME DisplayTypeOK, Storing, LC!pulseEnable
  PROVE  DisplayInv'
<1> DEFINE p == Entire(panel)
<1>0. lcd \in LcdOf /\ panel \in ScreenOf /\ cgram \in [0 .. 63 -> Nat] /\ holds \subseteq 0 .. 7
      /\ Agrees(p, lcd)
  BY DEF DisplayTypeOK, Storing
<1>1. p \in ScreenOf /\ p.half = -1 /\ p.eight = panel.eight /\ p.addr = panel.addr /\ p.ram = panel.ram
  BY <1>0, EntireFacts
<1>2. panel.eight = lcd.eight
  BY <1>0, <1>1 DEF Agrees
<1>3. PICK g \in 0 .. 7, k \in 0 .. 7 :
        /\ Coming(panel, pulses, lcd, LC!Row(g, k), 1, RowsFrom(lcd, g, k + 1))
        /\ holds # {} => /\ 2 \in lcd.mode /\ panel.ram = "glyph" /\ panel.addr = 8 * g + k
                         /\ Partly(cgram, holds, g, k)
  BY DEF Storing
<1> DEFINE v == LC!Row(g, k)
           rest == RowsFrom(lcd, g, k + 1)
<1>4. v \in 0 .. 255 /\ 8 * g + k \in 0 .. 63
  BY RowFacts
<1>5. rest \in Seq(EnablePulse)
  <2>1. \A n \in 0 .. 8 : RowsFrom(lcd, g, n) \in Seq(EnablePulse)
    BY <1>0, RowsFacts
  <2>2. k + 1 \in 0 .. 8
    OBVIOUS
  <2> QED
    BY <2>1, <2>2
<1>a. Coming(panel, pulses, lcd, v, 1, rest)
  BY <1>3
<1> HIDE DEF v, rest
<1>6. Waits(v, 1, rest) \/ Comes(v, 1, rest)
  BY <1>0, <1>2, <1>4, <1>5, <1>a, NextByte
<1>7. CASE Waits(v, 1, rest)
  <2>1. /\ DisplayTypeOK' /\ lcd' = lcd /\ holds' = holds /\ cgram' = cgram
        /\ panel'.ram = panel.ram /\ panel'.addr = panel.addr
        /\ Entire(panel') = p /\ Coming(panel', pulses', lcd', v, 1, rest)
    BY <1>7 DEF Waits
  <2>2. Coming(panel', pulses', lcd', LC!Row(g, k), 1, RowsFrom(lcd', g, k + 1))
    BY <2>1 DEF v, rest
  <2>3. Storing'
    BY <1>0, <1>3, <2>1, <2>2 DEF Storing
  <2> QED
    BY <2>1, <2>3 DEF DisplayInv
<1>8. CASE Comes(v, 1, rest)
  <2>1. lcd' = lcd /\ holds' = holds /\ pulses' = rest /\ cgram' \in [0 .. 63 -> Nat]
        /\ panel' \in ScreenOf /\ panel'.half = -1 /\ panel' = LC!Stored(p)
        /\ (panel.ram = "glyph" => cgram' = [cgram EXCEPT ![panel.addr % 64] = v])
    BY <1>8 DEF Comes
  <2>2. Agrees(panel', lcd') /\ panel'.ram = panel.ram
        /\ (2 \in p.mode => panel'.addr = (panel.addr + 1) % 128)
    BY <1>0, <1>1, <2>1, StoredFacts
  <2>3. Entire(panel') = panel'
    BY <2>1 DEF Entire, ScreenOf
  <2>4. DisplayTypeOK'
    BY <1>0, <2>1, <2>2 DEF DisplayTypeOK, Agrees
  <2>5. ASSUME holds # {}
        PROVE  /\ 2 \in lcd'.mode /\ panel'.ram = "glyph" /\ panel'.addr = 8 * g + k + 1
               /\ Partly(cgram', holds', g, k + 1)
    <3>1. panel.addr = 8 * g + k /\ panel.ram = "glyph" /\ 2 \in lcd.mode
      BY <1>3, <2>5
    <3>2. panel.addr % 64 = 8 * g + k /\ (panel.addr + 1) % 128 = 8 * g + k + 1
      BY <1>4, <3>1
    <3>3. cgram' = RowPut(cgram, g, k)
      BY <2>1, <3>1, <3>2 DEF v, RowPut
    <3>4. 2 \in p.mode
      BY <1>0, <3>1 DEF Agrees
    <3>5. Partly(cgram', holds, g, k + 1)
      BY <1>0, <1>3, <2>5, <3>3, RowPutFacts
    <3> QED
      BY <2>1, <2>2, <3>1, <3>2, <3>4, <3>5
  <2>6. CASE k = 7
    <3>1. rest = Nothing
      <4>1. k + 1 = 8
        BY <2>6
      <4> QED
        BY <1>0, <4>1, RowsFacts DEF rest
    <3>2. Intact(cgram', holds')
      <4> SUFFICES ASSUME NEW h \in holds, NEW i \in 0 .. 7 PROVE cgram'[8 * h + i] = LC!Row(h, i)
        BY <2>1 DEF Intact
      <4>1. CASE h = g
        BY <2>5, <2>6, <4>1 DEF Partly
      <4>2. CASE h # g
        BY <2>1, <2>5, <4>2 DEF Intact, Partly
      <4> QED
        BY <4>1, <4>2
    <3>3. Resting'
      BY <2>1, <2>2, <3>1, <3>2 DEF Resting
    <3> QED
      BY <2>4, <3>3 DEF DisplayInv
  <2>7. CASE k # 7
    <3> DEFINE n == k + 1
    <3>1. n \in 0 .. 7 /\ 8 * g + k + 1 = 8 * g + n
      BY <2>7
    <3>2. rest = Then(LC!send(lcd, LC!Row(g, n), 1), RowsFrom(lcd, g, n + 1))
      <4> HIDE DEF n
      <4>1. RowsFrom(lcd, g, n) = Then(LC!send(lcd, LC!Row(g, n), 1), RowsFrom(lcd, g, n + 1))
        BY <1>0, <3>1, RowsFacts
      <4> QED
        BY <4>1 DEF rest, n
    <3> HIDE DEF n
    <3>3. Coming(panel', pulses', lcd', LC!Row(g, n), 1, RowsFrom(lcd', g, n + 1))
      BY <2>1, <3>2 DEF Coming
    <3>4. holds' # {} => /\ 2 \in lcd'.mode /\ panel'.ram = "glyph" /\ panel'.addr = 8 * g + n
                         /\ Partly(cgram', holds', g, n)
      BY <2>1, <2>5, <3>1 DEF n
    <3>5. Storing'
      BY <2>2, <2>3, <3>1, <3>3, <3>4 DEF Storing
    <3> QED
      BY <2>4, <3>5 DEF DisplayInv
  <2> QED
    BY <2>6, <2>7
<1> QED
  BY <1>6, <1>7, <1>8

\* What is still to come is never nothing, but between calls.
LEMMA StillComing ==
  ASSUME NEW l \in LcdOf, NEW p, NEW q, NEW v \in 0 .. 255, NEW rest \in Seq(EnablePulse)
  PROVE  /\ Coming(p, q, l, v, 0, rest) => q # Nothing
         /\ Coming(p, q, l, v, 1, rest) => q # Nothing
<1>1. \A rs \in {0, 1} : Coming(p, q, l, v, rs, rest) => q # Nothing
  <2> SUFFICES ASSUME NEW rs \in {0, 1}, Coming(p, q, l, v, rs, rest) PROVE q # Nothing
    OBVIOUS
  <2>1. Sent(l, v, rs, rest)
    BY SendFacts
  <2>2. Then(LC!send(l, v, rs), rest) # Nothing /\ Then(LC!write4bits(rs, v), rest) # Nothing
    BY <2>1 DEF Sent
  <2> QED
    BY <2>2 DEF Coming
<1> QED
  BY <1>1

LEMMA BetweenCalls ==
  ASSUME DisplayInv, pulses = Nothing
  PROVE  Resting
<1>0. lcd \in LcdOf /\ panel \in ScreenOf
  BY DEF DisplayInv, DisplayTypeOK
<1>1. ~Synchronising
  <2> DEFINE r == Setting(lcd)
             r2 == Then(Two, r)
             r3 == Then(Three, r2)
             r4 == Then(Three, r3)
  <2>1. r \in Seq(EnablePulse) /\ Three \in Seq(EnablePulse) /\ Two \in Seq(EnablePulse)
    BY <1>0, RestFacts
  <2>2. r2 \in Seq(EnablePulse) /\ r3 \in Seq(EnablePulse) /\ r4 \in Seq(EnablePulse)
    <3> HIDE DEF r
    <3> QED
      BY <2>1, ThenFacts
  <2>3. ASSUME NEW n \in {2, 3}, NEW t \in Seq(EnablePulse) PROVE Then(Nibble(n), t) # Nothing
    <3> DEFINE e == [rs |-> 0, v |-> n]
    <3>1. e \in EnablePulse /\ Nibble(n) = Alone(e)
      BY DEF EnablePulse, Nibble
    <3> HIDE DEF e
    <3> QED
      BY <3>1, ThenFacts
  <2>4. pulses # r2 /\ pulses # r3 /\ pulses # r4 /\ pulses # Then(Three, r4)
    BY <2>1, <2>2, <2>3 DEF Three, Two
  <2>5. CASE ~lcd.eight
    BY <2>4, <2>5 DEF Synchronising
  <2>6. CASE lcd.eight
    <3> SUFFICES ASSUME Synchronising PROVE FALSE
      OBVIOUS
    <3>1. FunctionByte(lcd) \in 0 .. 255
      BY <1>0, ByteFacts
    <3>2. PICK rest \in Seq(EnablePulse) : Coming(panel, pulses, lcd, FunctionByte(lcd), 0, rest)
      BY <1>0, <2>6, RestFacts DEF Synchronising
    <3> QED
      BY <1>0, <3>1, <3>2, StillComing
  <2> QED
    BY <2>5, <2>6
<1>2. ~Configuring
  <2>1. FunctionByte(lcd) \in 0 .. 255 /\ ControlByte(lcd) \in 0 .. 255 /\ 1 \in 0 .. 255
        /\ Showing(lcd) \in Seq(EnablePulse) /\ Clearing(lcd) \in Seq(EnablePulse)
        /\ Final(lcd) \in Seq(EnablePulse)
    BY <1>0, ByteFacts, RestFacts
  <2>2. ASSUME NEW v \in 0 .. 255, NEW rest \in Seq(EnablePulse)
        PROVE  ~Coming(panel, pulses, lcd, v, 0, rest)
    BY <1>0, StillComing
  <2>3. ~Coming(panel, pulses, lcd, 1, 0, Final(lcd))
    BY <2>1, <2>2
  <2>4. ~Coming(panel, pulses, lcd, FunctionByte(lcd), 0, Showing(lcd))
        /\ ~Coming(panel, pulses, lcd, ControlByte(lcd), 0, Clearing(lcd))
    BY <2>1, <2>2
  <2> QED
    BY <2>3, <2>4 DEF Configuring
<1>3. ~Commanding
  BY <1>0, StillComing, ThenFacts DEF Commanding
<1>4. ~Printing
  <2> DEFINE v == LC!Text
  <2>1. v \in 0 .. 255
    BY DEF LC!Text
  <2> HIDE DEF v
  <2>2. ~Coming(panel, pulses, lcd, v, 1, Nothing)
    BY <1>0, <2>1, StillComing, ThenFacts
  <2> QED
    BY <2>2 DEF Printing, v
<1>5. ~Addressing
  <2> SUFFICES ASSUME NEW g \in 0 .. 7, Coming(panel, pulses, lcd, 64 + 8 * g, 0, RowsFrom(lcd, g, 0))
               PROVE  FALSE
    BY DEF Addressing
  <2> DEFINE v == 64 + 8 * g
             rest == RowsFrom(lcd, g, 0)
  <2>1. v \in 0 .. 255 /\ 0 \in 0 .. 8
    OBVIOUS
  <2>2. rest \in Seq(EnablePulse)
    <3>1. \A k \in 0 .. 8 : RowsFrom(lcd, g, k) \in Seq(EnablePulse)
      BY <1>0, RowsFacts
    <3> QED
      BY <2>1, <3>1
  <2>3. Coming(panel, pulses, lcd, v, 0, rest)
    OBVIOUS
  <2> HIDE DEF v, rest
  <2> QED
    BY <1>0, <2>1, <2>2, <2>3, StillComing
<1>6. ~Storing
  <2> SUFFICES ASSUME NEW g \in 0 .. 7, NEW k \in 0 .. 7,
                      Coming(panel, pulses, lcd, LC!Row(g, k), 1, RowsFrom(lcd, g, k + 1))
               PROVE  FALSE
    BY DEF Storing
  <2> DEFINE v == LC!Row(g, k)
             rest == RowsFrom(lcd, g, k + 1)
  <2>1. v \in 0 .. 255
    BY RowFacts
  <2>2. rest \in Seq(EnablePulse)
    <3>1. \A n \in 0 .. 8 : RowsFrom(lcd, g, n) \in Seq(EnablePulse)
      BY <1>0, RowsFacts
    <3>2. k + 1 \in 0 .. 8
      OBVIOUS
    <3> QED
      BY <3>1, <3>2
  <2>3. Coming(panel, pulses, lcd, v, 1, rest)
    OBVIOUS
  <2> HIDE DEF v, rest
  <2> QED
    BY <1>0, <2>1, <2>2, <2>3, StillComing
<1> QED
  BY <1>1, <1>2, <1>3, <1>4, <1>5, <1>6 DEF DisplayInv

LEMMA DisplaySafe ==
  DisplayInv => LC!Synchronised /\ LC!SettingsAgree /\ LC!GlyphsIntact
<1> SUFFICES ASSUME DisplayInv PROVE LC!Synchronised /\ LC!SettingsAgree /\ LC!GlyphsIntact
  OBVIOUS
<1>1. pulses = << >> => Resting
  BY BetweenCalls DEF Nothing
<1> QED
  BY <1>1 DEF Resting, Agrees, Intact, LC!Synchronised, LC!SettingsAgree, LC!GlyphsIntact

\* Wherever the display is, the board may begin.
LEMMA Begins ==
  ASSUME DisplayTypeOK, NEW l \in LcdOf, l.eight = lcd.eight, LC!Start(l), panel' = panel, cgram' = cgram,
         holds' \subseteq 0 .. 7, Intact(cgram, holds')
  PROVE  DisplayInv'
<1>1. lcd' = l /\ pulses' = LC!Synchronise(l) \o LC!Configure(l)
  BY DEF LC!Start
<1>2. DisplayTypeOK'
  BY <1>1 DEF DisplayTypeOK
<1>3. CASE ~l.eight
  <2>1. pulses' = Then(Three, Then(Three, Then(Three, Then(Two, Setting(l)))))
    BY <1>1, <1>3, BeginFacts
  <2>2. Synchronising'
    BY <1>1, <1>3, <2>1 DEF Synchronising
  <2> QED
    BY <1>2, <2>2 DEF DisplayInv
<1>4. CASE l.eight
  <2> DEFINE s == Setting(l)
             s2 == Then(LC!send(l, FunctionByte(l), 0), s)
             s3 == Then(LC!send(l, FunctionByte(l), 0), s2)
  <2>1. pulses' = Then(LC!send(l, FunctionByte(l), 0), s3)
    BY <1>1, <1>4, BeginFacts
  <2>2. panel'.half = -1
    BY <1>4 DEF DisplayTypeOK
  <2>3. Coming(panel', pulses', lcd', FunctionByte(l), 0, s3)
    BY <1>1, <2>1, <2>2 DEF Coming
  <2>4. Synchronising'
    BY <1>1, <1>4, <2>3 DEF Synchronising
  <2> QED
    BY <1>2, <2>4 DEF DisplayInv
<1> QED
  BY <1>3, <1>4

LEMMA BegunFacts ==
  ASSUME NEW l \in [eight : BOOLEAN, twoLine : BOOLEAN, tall : BOOLEAN, numlines : 0 .. 4,
                    control : SUBSET {1, 2, 4}, mode : SUBSET {1, 2}],
         NEW lines \in 1 .. 4, NEW tall \in BOOLEAN
  PROVE  LC!Begun(l, lines, tall) \in LcdOf /\ LC!Begun(l, lines, tall).eight = l.eight
<1>1. (l.twoLine \/ lines > 1) \in BOOLEAN /\ (l.tall \/ (tall /\ lines = 1)) \in BOOLEAN
  OBVIOUS
<1> QED
  BY <1>1 DEF LC!Begun, LcdOf

LEMMA ConstructedFacts ==
  ASSUME NEW eight \in BOOLEAN
  PROVE  LC!Constructed(eight) \in LcdOf /\ LC!Constructed(eight).eight = eight
<1> DEFINE blank == [eight |-> eight, twoLine |-> FALSE, tall |-> FALSE, numlines |-> 0, control |-> {}, mode |-> {}]
           first == 1
           low == FALSE
<1>1. /\ blank \in [eight : BOOLEAN, twoLine : BOOLEAN, tall : BOOLEAN, numlines : 0 .. 4,
                    control : SUBSET {1, 2, 4}, mode : SUBSET {1, 2}]
      /\ blank.eight = eight /\ first \in 1 .. 4 /\ low \in BOOLEAN
  OBVIOUS
<1>2. LC!Constructed(eight) = LC!Begun(blank, first, low)
  BY DEF LC!Constructed
<1> HIDE DEF blank, first, low
<1> QED
  BY <1>1, <1>2, BegunFacts

\* A call that is one instruction, after which the display agrees with the driver.
LEMMA CommandCall ==
  ASSUME DisplayInv, NEW l \in LcdOf, l.eight = lcd.eight, NEW v \in 0 .. 255,
         Agrees(LC!Instruct(panel, v), l), LC!Calls(l, LC!send(l, v, 0)), holds' = holds
  PROVE  DisplayInv'
<1>1. lcd' = l /\ pulses' = LC!send(l, v, 0) /\ panel' = panel /\ cgram' = cgram /\ pulses = Nothing
  BY DEF LC!Calls, Nothing
<1>2. Resting /\ DisplayTypeOK
  BY <1>1, BetweenCalls DEF DisplayInv
<1>3. DisplayTypeOK'
  BY <1>1, <1>2 DEF DisplayTypeOK
<1>4. Entire(panel) = panel /\ panel.half = -1 /\ panel.eight = l.eight
  BY <1>2 DEF Resting, Agrees, Entire, DisplayTypeOK, ScreenOf
<1>5. LC!send(l, v, 0) \in Seq(EnablePulse)
  <2>1. \A rs \in {0, 1} : Sent(l, v, rs, Nothing)
    <3> SUFFICES ASSUME NEW rs \in {0, 1} PROVE Sent(l, v, rs, Nothing)
      OBVIOUS
    <3> QED
      BY SendFacts, ThenFacts
  <2>2. Sent(l, v, 0, Nothing)
    BY <2>1
  <2> QED
    BY <2>2 DEF Sent
<1>6. pulses' = Then(LC!send(l, v, 0), Nothing)
  BY <1>1, <1>5, ThenFacts
<1>7. Coming(panel', pulses', lcd', v, 0, Nothing)
  BY <1>1, <1>4, <1>6 DEF Coming
<1>8. Agrees(LC!Instruct(Entire(panel'), v), lcd')
  BY <1>1, <1>4
<1>9. Commanding'
  BY <1>1, <1>2, <1>4, <1>7, <1>8 DEF Commanding, Resting
<1> QED
  BY <1>3, <1>9 DEF DisplayInv

\* What the instructions of the calls leave as it was.
LEMMA MovingFacts ==
  ASSUME NEW p \in ScreenOf, NEW l \in LcdOf, Agrees(p, l)
  PROVE  /\ Agrees(LC!Instruct(p, 1), l)
         /\ Agrees(LC!Instruct(p, 2), l)
         /\ \A v \in 128 .. 255 : Agrees(LC!Instruct(p, v), l)
         /\ \A v \in 16 .. 31 : Agrees(LC!Instruct(p, v), l)
<1>1. Agrees(LC!Instruct(p, 1), l)
  <2>1. LC!Instruct(p, 1) = [p EXCEPT !.ram = "text", !.addr = 0, !.mode = p.mode \cup {2}]
    BY DEF LC!Instruct, ScreenOf
  <2> QED
    BY <2>1 DEF Agrees, ScreenOf
<1>2. Agrees(LC!Instruct(p, 2), l)
  <2>1. LC!Instruct(p, 2) = [p EXCEPT !.ram = "text", !.addr = 0]
    BY DEF LC!Instruct
  <2> QED
    BY <2>1 DEF Agrees, ScreenOf
<1>3. ASSUME NEW v \in 128 .. 255 PROVE Agrees(LC!Instruct(p, v), l)
  <2> DEFINE m == "text"
             a == v - 128
  <2>1. LC!Instruct(p, v) = Placed(p, m, a)
    BY DEF LC!Instruct, Placed
  <2> HIDE DEF m, a
  <2>2. /\ Placed(p, m, a).eight = p.eight
        /\ Placed(p, m, a).half = p.half
        /\ Placed(p, m, a).twoLine = p.twoLine
        /\ Placed(p, m, a).tall = p.tall
        /\ Placed(p, m, a).control = p.control
        /\ Placed(p, m, a).mode = p.mode
    BY DEF Placed, ScreenOf
  <2> QED
    BY <2>1, <2>2 DEF Agrees
<1>4. ASSUME NEW v \in 16 .. 31 PROVE Agrees(LC!Instruct(p, v), l)
  <2>1. LC!Instruct(p, v) = p
    BY DEF LC!Instruct
  <2> QED
    BY <2>1
<1> QED
  BY <1>1, <1>2, <1>3, <1>4

LEMMA SettingFacts ==
  ASSUME NEW p \in ScreenOf, NEW l \in LcdOf, LinesSet(p, l)
  PROVE  /\ p.mode \in {l.mode, l.mode \cup {2}} => Agrees(LC!Instruct(p, ControlByte(l)), l)
         /\ p.control = l.control => Agrees(LC!Instruct(p, ModeByte(l)), l)
<1> DEFINE c == ControlByte(l)
<1>1. c \in 8 .. 15 /\ LC!Flags(c) = l.control
  BY ByteFacts
<1> HIDE DEF c
<1>2. LC!Instruct(p, c) = [p EXCEPT !.control = LC!Flags(c)]
  BY <1>1 DEF LC!Instruct
<1>3. p.mode \in {l.mode, l.mode \cup {2}} => Agrees(LC!Instruct(p, c), l)
  BY <1>1, <1>2 DEF LinesSet, Agrees, ScreenOf
<1>4. p.control = l.control => Agrees(LC!Instruct(p, ModeByte(l)), l)
  <2>1. p.half = -1
    BY DEF LinesSet
  <2> QED
    BY <2>1, ConfigureFacts DEF Shown
<1> QED
  BY <1>3, <1>4 DEF c

LEMMA ControlCall ==
  ASSUME DisplayInv, NEW f \in {1, 2, 4}, NEW on \in BOOLEAN, LC!setControl(f, on)
  PROVE  DisplayInv'
<1> DEFINE s == IF on THEN lcd.control \cup {f} ELSE lcd.control \ {f}
           l == [lcd EXCEPT !.control = s]
<1>1. LC!Calls(l, LC!DisplayControl(l)) /\ holds' = holds
  BY DEF LC!setControl
<1>2. pulses = Nothing
  BY <1>1 DEF LC!Calls, Nothing
<1>3. Resting /\ lcd \in LcdOf /\ panel \in ScreenOf
  BY <1>2, BetweenCalls DEF DisplayInv, DisplayTypeOK
<1>4. s \in SUBSET {1, 2, 4}
  BY <1>3 DEF LcdOf
<1> HIDE DEF s
<1>5. l \in LcdOf /\ l.eight = lcd.eight /\ l.twoLine = lcd.twoLine /\ l.tall = lcd.tall /\ l.mode = lcd.mode
  BY <1>3, <1>4 DEF LcdOf
<1> HIDE DEF l
<1>6. LinesSet(panel, l) /\ panel.mode \in {l.mode, l.mode \cup {2}}
  BY <1>3, <1>5 DEF Resting, Agrees, LinesSet
<1>7. Agrees(LC!Instruct(panel, ControlByte(l)), l)
  BY <1>3, <1>5, <1>6, SettingFacts
<1>8. ControlByte(l) \in 0 .. 255 /\ LC!DisplayControl(l) = LC!send(l, ControlByte(l), 0)
  BY <1>5, ByteFacts DEF LC!DisplayControl, LC!command, ControlByte
<1> QED
  BY <1>1, <1>5, <1>7, <1>8, CommandCall

LEMMA ModeCall ==
  ASSUME DisplayInv, NEW f \in {1, 2}, NEW on \in BOOLEAN, LC!setMode(f, on)
  PROVE  DisplayInv'
<1> DEFINE s == IF on THEN lcd.mode \cup {f} ELSE lcd.mode \ {f}
           l == [lcd EXCEPT !.mode = s]
<1>1. LC!Calls(l, LC!EntryModeSet(l)) /\ holds' = holds
  BY DEF LC!setMode
<1>2. pulses = Nothing
  BY <1>1 DEF LC!Calls, Nothing
<1>3. Resting /\ lcd \in LcdOf /\ panel \in ScreenOf
  BY <1>2, BetweenCalls DEF DisplayInv, DisplayTypeOK
<1>4. s \in SUBSET {1, 2}
  BY <1>3 DEF LcdOf
<1> HIDE DEF s
<1>5. l \in LcdOf /\ l.eight = lcd.eight /\ l.twoLine = lcd.twoLine /\ l.tall = lcd.tall
      /\ l.control = lcd.control
  BY <1>3, <1>4 DEF LcdOf
<1> HIDE DEF l
<1>6. LinesSet(panel, l) /\ panel.control = l.control
  BY <1>3, <1>5 DEF Resting, Agrees, LinesSet
<1>7. Agrees(LC!Instruct(panel, ModeByte(l)), l)
  BY <1>3, <1>5, <1>6, SettingFacts
<1>8. ModeByte(l) \in 0 .. 255 /\ LC!EntryModeSet(l) = LC!send(l, ModeByte(l), 0)
  BY <1>5, ByteFacts DEF LC!EntryModeSet, LC!command, ModeByte
<1> QED
  BY <1>1, <1>5, <1>7, <1>8, CommandCall

\* clear, home, setCursor and the scrolls.
LEMMA MovingCall ==
  ASSUME DisplayInv, NEW v \in 0 .. 255, LC!Calls(lcd, LC!send(lcd, v, 0)), holds' = holds,
         v \in 1 .. 2 \/ v \in 16 .. 31 \/ v \in 128 .. 255
  PROVE  DisplayInv'
<1>1. pulses = Nothing
  BY DEF LC!Calls, Nothing
<1>2. Agrees(panel, lcd) /\ lcd \in LcdOf /\ panel \in ScreenOf
  BY <1>1, BetweenCalls DEF DisplayInv, DisplayTypeOK, Resting
<1>3. v = 1 \/ v = 2 \/ v \in 16 .. 31 \/ v \in 128 .. 255
  OBVIOUS
<1>4. Agrees(LC!Instruct(panel, v), lcd)
  BY <1>2, <1>3, MovingFacts
<1> QED
  BY <1>2, <1>4, CommandCall

LEMMA CursorFacts ==
  ASSUME DisplayInv, NEW col \in Nat, NEW row \in Nat, LC!setCursor(col, row)
  PROVE  DisplayInv'
<1> DEFINE r == IF row >= lcd.numlines THEN lcd.numlines - 1 ELSE row
           v == 128 + ((col + LC!row_offsets[r + 1]) % 128)
<1>1. LC!Calls(lcd, LC!send(lcd, v, 0)) /\ holds' = holds
  BY DEF LC!setCursor, LC!command
<1>2. lcd.numlines \in 1 .. 4
  BY DEF DisplayInv, DisplayTypeOK, LcdOf
<1>3. r + 1 \in 1 .. 4
  BY <1>2
<1>4. \A i \in 1 .. 4 : LC!row_offsets[i] \in 0 .. 84
  BY DEF LC!row_offsets
<1>5. PICK n \in 0 .. 84 : LC!row_offsets[r + 1] = n
  BY <1>3, <1>4
<1>6. LC!Calls(lcd, LC!send(lcd, 128 + ((col + n) % 128), 0)) /\ holds' = holds
  BY <1>1, <1>5
<1> HIDE DEF r, v
<1> DEFINE b == 128 + ((col + n) % 128)
<1>7. b \in 128 .. 255 /\ b \in 0 .. 255
  OBVIOUS
<1>8. LC!Calls(lcd, LC!send(lcd, b, 0)) /\ holds' = holds
  BY <1>6
<1> HIDE DEF b
<1> QED
  BY <1>7, <1>8, MovingCall

LEMMA PlainCalls ==
  ASSUME DisplayInv, LC!clear \/ LC!home \/ \E right \in BOOLEAN : LC!scrollDisplay(right)
  PROVE  DisplayInv'
<1>1. \E v \in {1, 2, 24, 28} : LC!Calls(lcd, LC!send(lcd, v, 0)) /\ holds' = holds
  <2>1. CASE LC!clear
    BY <2>1 DEF LC!clear, LC!command
  <2>2. CASE LC!home
    BY <2>2 DEF LC!home, LC!command
  <2>3. ASSUME NEW right \in BOOLEAN, LC!scrollDisplay(right)
        PROVE  \E v \in {1, 2, 24, 28} : LC!Calls(lcd, LC!send(lcd, v, 0)) /\ holds' = holds
    <3> DEFINE n == 24 + (IF right THEN 4 ELSE 0)
    <3>1. n \in {1, 2, 24, 28}
      OBVIOUS
    <3>2. LC!Calls(lcd, LC!send(lcd, n, 0)) /\ holds' = holds
      BY <2>3 DEF LC!scrollDisplay, LC!command
    <3> HIDE DEF n
    <3> QED
      BY <3>1, <3>2
  <2> QED
    BY <2>1, <2>2, <2>3
<1>2. PICK v \in {1, 2, 24, 28} : LC!Calls(lcd, LC!send(lcd, v, 0)) /\ holds' = holds
  BY <1>1
<1>3. v \in 0 .. 255 /\ (v \in 1 .. 2 \/ v \in 16 .. 31 \/ v \in 128 .. 255)
  OBVIOUS
<1> QED
  BY <1>2, <1>3, MovingCall

LEMMA ThenThen ==
  \A s, x, u \in Seq(EnablePulse) :
    Then(Then(s, x), u) = Then(s, Then(x, u)) /\ Then(s, x) \in Seq(EnablePulse)
BY ThenFacts

LEMMA GlyphCall ==
  ASSUME DisplayInv, NEW g \in 0 .. 7, LC!createChar(g)
  PROVE  DisplayInv'
<1> DEFINE a == LC!send(lcd, 64 + 8 * g, 0)
           w(i) == LC!send(lcd, LC!Row(g, i), 1)
<1>1. /\ lcd' = lcd /\ panel' = panel /\ cgram' = cgram /\ pulses = Nothing
      /\ holds' = IF 2 \in lcd.mode THEN holds \cup {g} ELSE {}
  BY DEF LC!createChar, LC!Calls, Nothing
<1>2. Resting /\ DisplayTypeOK /\ lcd \in LcdOf /\ panel \in ScreenOf /\ holds \subseteq 0 .. 7
  BY <1>1, BetweenCalls DEF DisplayInv, DisplayTypeOK
<1>3. pulses' = Then(Then(Then(Then(Then(Then(Then(Then(a, w(0)), w(1)), w(2)), w(3)), w(4)), w(5)), w(6)), w(7))
  <2> DEFINE rows == [i \in 1 .. 8 |-> LC!write(lcd, LC!Row(g, i - 1))]
  <2>1. pulses' = Then(Then(Then(Then(Then(Then(Then(Then(a, rows[1]), rows[2]), rows[3]), rows[4]), rows[5]),
                                 rows[6]), rows[7]), rows[8])
    BY DEF LC!createChar, LC!Calls, LC!command, LC!GlyphAddress, Then
  <2>2. ASSUME NEW i \in 1 .. 8 PROVE rows[i] = w(i - 1)
    BY DEF LC!write
  <2> HIDE DEF rows
  <2>3. /\ 1 - 1 = 0 /\ 2 - 1 = 1 /\ 3 - 1 = 2 /\ 4 - 1 = 3 /\ 5 - 1 = 4 /\ 6 - 1 = 5 /\ 7 - 1 = 6
        /\ 8 - 1 = 7 /\ 1 \in 1 .. 8 /\ 2 \in 1 .. 8 /\ 3 \in 1 .. 8 /\ 4 \in 1 .. 8
        /\ 5 \in 1 .. 8 /\ 6 \in 1 .. 8 /\ 7 \in 1 .. 8 /\ 8 \in 1 .. 8
    OBVIOUS
  <2> HIDE DEF w
  <2>4. /\ rows[1] = w(0) /\ rows[2] = w(1) /\ rows[3] = w(2) /\ rows[4] = w(3)
        /\ rows[5] = w(4) /\ rows[6] = w(5) /\ rows[7] = w(6) /\ rows[8] = w(7)
    BY <2>2, <2>3
  <2> QED
    BY <2>1, <2>4
<1>4. a \in Seq(EnablePulse) /\ \A i \in 0 .. 7 : w(i) \in Seq(EnablePulse)
  <2>1. ASSUME NEW v \in 0 .. 255 PROVE \A rs \in {0, 1} : LC!send(lcd, v, rs) \in Seq(EnablePulse)
    <3> SUFFICES ASSUME NEW rs \in {0, 1} PROVE LC!send(lcd, v, rs) \in Seq(EnablePulse)
      OBVIOUS
    <3>1. Sent(lcd, v, rs, Nothing)
      BY <1>2, SendFacts, ThenFacts
    <3> QED
      BY <3>1 DEF Sent
  <2>2. ASSUME NEW i \in 0 .. 7 PROVE w(i) \in Seq(EnablePulse)
    <3>1. LC!Row(g, i) \in 0 .. 255
      BY RowFacts
    <3> QED
      BY <2>1, <3>1
  <2>3. 64 + 8 * g \in 0 .. 255
    OBVIOUS
  <2> QED
    BY <2>1, <2>2, <2>3
<1>5. ASSUME NEW k \in 0 .. 7 PROVE RowsFrom(lcd, g, k) = Then(w(k), RowsFrom(lcd, g, k + 1))
  BY <1>2, RowsFacts
<1>6. ASSUME NEW k \in 0 .. 8 PROVE RowsFrom(lcd, g, k) \in Seq(EnablePulse)
  BY <1>2, RowsFacts
<1>7. RowsFrom(lcd, g, 8) = Nothing
  BY <1>2, RowsFacts
<1>8. pulses' = Then(a, RowsFrom(lcd, g, 0))
  <2> DEFINE t(k) == RowsFrom(lcd, g, k)
             w0 == w(0)
             w1 == w(1)
             w2 == w(2)
             w3 == w(3)
             w4 == w(4)
             w5 == w(5)
             w6 == w(6)
             w7 == w(7)
             t0 == t(0)
             t1 == t(1)
             t2 == t(2)
             t3 == t(3)
             t4 == t(4)
             t5 == t(5)
             t6 == t(6)
             t7 == t(7)
  <2>1. pulses' = Then(Then(Then(Then(Then(Then(Then(Then(a, w0), w1), w2), w3), w4), w5), w6), w7)
    BY <1>3
  <2>2. /\ w0 \in Seq(EnablePulse) /\ w1 \in Seq(EnablePulse) /\ w2 \in Seq(EnablePulse)
        /\ w3 \in Seq(EnablePulse) /\ w4 \in Seq(EnablePulse) /\ w5 \in Seq(EnablePulse)
        /\ w6 \in Seq(EnablePulse) /\ w7 \in Seq(EnablePulse) /\ a \in Seq(EnablePulse)
    BY <1>4
  <2>3. /\ t0 = Then(w0, t1) /\ t1 = Then(w1, t2) /\ t2 = Then(w2, t3) /\ t3 = Then(w3, t4)
        /\ t4 = Then(w4, t5) /\ t5 = Then(w5, t6) /\ t6 = Then(w6, t7) /\ t7 = Then(w7, Nothing)
    <3>1. /\ 0 + 1 = 1 /\ 1 + 1 = 2 /\ 2 + 1 = 3 /\ 3 + 1 = 4 /\ 4 + 1 = 5 /\ 5 + 1 = 6 /\ 6 + 1 = 7
          /\ 7 + 1 = 8 /\ 0 \in 0 .. 7 /\ 1 \in 0 .. 7 /\ 2 \in 0 .. 7 /\ 3 \in 0 .. 7 /\ 4 \in 0 .. 7
          /\ 5 \in 0 .. 7 /\ 6 \in 0 .. 7 /\ 7 \in 0 .. 7
      OBVIOUS
    <3> HIDE DEF w
    <3> QED
      BY <1>5, <1>7, <3>1
  <2>4. /\ t0 \in Seq(EnablePulse) /\ t1 \in Seq(EnablePulse) /\ t2 \in Seq(EnablePulse)
        /\ t3 \in Seq(EnablePulse) /\ t4 \in Seq(EnablePulse) /\ t5 \in Seq(EnablePulse)
        /\ t6 \in Seq(EnablePulse) /\ t7 \in Seq(EnablePulse)
    BY <1>6
  <2> HIDE DEF a, w0, w1, w2, w3, w4, w5, w6, w7, t0, t1, t2, t3, t4, t5, t6, t7
  <2> DEFINE p0 == Then(a, w0)
             p1 == Then(p0, w1)
             p2 == Then(p1, w2)
             p3 == Then(p2, w3)
             p4 == Then(p3, w4)
             p5 == Then(p4, w5)
             p6 == Then(p5, w6)
             p7 == Then(p6, w7)
  <2>5. \A s, x, u \in Seq(EnablePulse) :
          Then(Then(s, x), u) = Then(s, Then(x, u)) /\ Then(s, x) \in Seq(EnablePulse)
    BY ThenThen
  <2>6. pulses' = p7
    BY <2>1
  <2>7. p0 = Then(a, w0) /\ p0 \in Seq(EnablePulse)
    BY <2>2, <2>5
  <2> HIDE DEF p0
  <2>8. p1 = Then(p0, w1) /\ p1 \in Seq(EnablePulse)
    BY <2>2, <2>5, <2>7
  <2> HIDE DEF p1
  <2>9. p2 = Then(p1, w2) /\ p2 \in Seq(EnablePulse)
    BY <2>2, <2>5, <2>8
  <2> HIDE DEF p2
  <2>10. p3 = Then(p2, w3) /\ p3 \in Seq(EnablePulse)
    BY <2>2, <2>5, <2>9
  <2> HIDE DEF p3
  <2>11. p4 = Then(p3, w4) /\ p4 \in Seq(EnablePulse)
    BY <2>2, <2>5, <2>10
  <2> HIDE DEF p4
  <2>12. p5 = Then(p4, w5) /\ p5 \in Seq(EnablePulse)
    BY <2>2, <2>5, <2>11
  <2> HIDE DEF p5
  <2>13. p6 = Then(p5, w6) /\ p6 \in Seq(EnablePulse)
    BY <2>2, <2>5, <2>12
  <2> HIDE DEF p6
  <2>14. p7 = Then(p6, w7) /\ p7 \in Seq(EnablePulse)
    BY <2>2, <2>5, <2>13
  <2> HIDE DEF p7
  <2>15. p7 = Then(p6, t7)
    <3>1. Then(w7, Nothing) = w7
      BY <2>2, ThenFacts
    <3> QED
      BY <2>14, <2>3, <3>1
  <2>16. p7 = Then(p5, t6)
    <3>1. Then(Then(p5, w6), t7) = Then(p5, Then(w6, t7))
      BY <2>2, <2>4, <2>5, <2>12
    <3> QED
      BY <2>13, <2>15, <2>3, <3>1
  <2>17. p7 = Then(p4, t5)
    <3>1. Then(Then(p4, w5), t6) = Then(p4, Then(w5, t6))
      BY <2>2, <2>4, <2>5, <2>11
    <3> QED
      BY <2>12, <2>16, <2>3, <3>1
  <2>18. p7 = Then(p3, t4)
    <3>1. Then(Then(p3, w4), t5) = Then(p3, Then(w4, t5))
      BY <2>2, <2>4, <2>5, <2>10
    <3> QED
      BY <2>11, <2>17, <2>3, <3>1
  <2>19. p7 = Then(p2, t3)
    <3>1. Then(Then(p2, w3), t4) = Then(p2, Then(w3, t4))
      BY <2>2, <2>4, <2>5, <2>9
    <3> QED
      BY <2>10, <2>18, <2>3, <3>1
  <2>20. p7 = Then(p1, t2)
    <3>1. Then(Then(p1, w2), t3) = Then(p1, Then(w2, t3))
      BY <2>2, <2>4, <2>5, <2>8
    <3> QED
      BY <2>9, <2>19, <2>3, <3>1
  <2>21. p7 = Then(p0, t1)
    <3>1. Then(Then(p0, w1), t2) = Then(p0, Then(w1, t2))
      BY <2>2, <2>4, <2>5, <2>7
    <3> QED
      BY <2>8, <2>20, <2>3, <3>1
  <2>22. p7 = Then(a, t0)
    <3>1. Then(Then(a, w0), t1) = Then(a, Then(w0, t1))
      BY <2>2, <2>4, <2>5
    <3> QED
      BY <2>7, <2>21, <2>3, <3>1
  <2> QED
    BY <2>6, <2>22 DEF t0
<1>9. Agrees(Entire(panel'), lcd')
  <2>1. Entire(panel) = panel
    BY <1>2 DEF Resting, Agrees, Entire, ScreenOf
  <2> QED
    BY <1>1, <1>2, <2>1 DEF Resting
<1>10. Coming(panel', pulses', lcd', 64 + 8 * g, 0, RowsFrom(lcd', g, 0))
  BY <1>1, <1>2, <1>8 DEF Coming, Resting, Agrees
<1>11. holds' # {} => 2 \in lcd'.mode /\ Intact(cgram', holds' \ {g})
  BY <1>1, <1>2 DEF Resting, Intact
<1>12. Addressing'
  BY <1>9, <1>10, <1>11 DEF Addressing
<1>13. DisplayTypeOK'
  BY <1>1, <1>2 DEF DisplayTypeOK
<1> QED
  BY <1>12, <1>13 DEF DisplayInv

LEMMA PrintCall ==
  ASSUME DisplayInv, LC!print
  PROVE  DisplayInv'
<1> DEFINE v == LC!Text
<1>1. /\ lcd' = lcd /\ panel' = panel /\ cgram' = cgram /\ pulses = Nothing
      /\ pulses' = LC!send(lcd, v, 1)
      /\ holds' = IF panel.ram = "glyph" THEN {} ELSE holds
  BY DEF LC!print, LC!Calls, LC!write, Nothing
<1>2. Resting /\ DisplayTypeOK /\ lcd \in LcdOf /\ panel \in ScreenOf /\ holds \subseteq 0 .. 7
  BY <1>1, BetweenCalls DEF DisplayInv, DisplayTypeOK
<1>3. v \in 0 .. 255
  BY DEF LC!Text
<1> HIDE DEF v
<1>4. LC!send(lcd, v, 1) \in Seq(EnablePulse)
  <2>1. \A rs \in {0, 1} : Sent(lcd, v, rs, Nothing)
    <3> SUFFICES ASSUME NEW rs \in {0, 1} PROVE Sent(lcd, v, rs, Nothing)
      OBVIOUS
    <3> QED
      BY <1>2, <1>3, SendFacts, ThenFacts
  <2>2. Sent(lcd, v, 1, Nothing)
    BY <2>1
  <2> QED
    BY <2>2 DEF Sent
<1>5. pulses' = Then(LC!send(lcd, v, 1), Nothing)
  BY <1>1, <1>4, ThenFacts
<1>6. Coming(panel', pulses', lcd', v, 1, Nothing)
  BY <1>1, <1>2, <1>5 DEF Coming, Resting, Agrees
<1>7. Agrees(Entire(panel'), lcd')
  <2>1. Entire(panel) = panel
    BY <1>2 DEF Resting, Agrees, Entire, ScreenOf
  <2> QED
    BY <1>1, <1>2, <2>1 DEF Resting
<1>8. holds' # {} => panel'.ram = "text"
  BY <1>1, <1>2 DEF ScreenOf
<1>9. Intact(cgram', holds')
  BY <1>1, <1>2 DEF Resting, Intact
<1>10. Printing'
  BY <1>6, <1>7, <1>8, <1>9 DEF Printing, v
<1>11. DisplayTypeOK'
  BY <1>1, <1>2 DEF DisplayTypeOK
<1> QED
  BY <1>10, <1>11 DEF DisplayInv

\* begin and a reset of the board.
LEMMA BeginCalls ==
  ASSUME DisplayInv, LC!Reset \/ \E n \in Lines, t \in BOOLEAN : LC!begin(n, t)
  PROVE  DisplayInv'
<1>1. DisplayTypeOK /\ lcd \in LcdOf /\ holds \subseteq 0 .. 7
  BY DEF DisplayInv, DisplayTypeOK
<1>2. CASE LC!Reset
  <2> DEFINE l == LC!Constructed(lcd.eight)
  <2>1. l \in LcdOf /\ l.eight = lcd.eight
    <3>1. lcd.eight \in BOOLEAN
      BY <1>1 DEF LcdOf
    <3> QED
      BY <3>1, ConstructedFacts
  <2> HIDE DEF l
  <2>2. LC!Start(l) /\ holds' = {} /\ panel' = panel /\ cgram' = cgram
    BY <1>2 DEF LC!Reset, l
  <2>3. Intact(cgram, holds') /\ holds' \subseteq 0 .. 7
    BY <2>2 DEF Intact
  <2> QED
    BY <1>1, <2>1, <2>2, <2>3, Begins
<1>3. ASSUME NEW n \in Lines, NEW t \in BOOLEAN, LC!begin(n, t)
      PROVE  DisplayInv'
  <2> DEFINE l == LC!Begun(lcd, n, t)
  <2>1. l \in LcdOf /\ l.eight = lcd.eight
    <3>1. n \in 1 .. 4
      BY DisplayAssumption
    <3>2. (lcd.twoLine \/ n > 1) \in BOOLEAN /\ (lcd.tall \/ (t /\ n = 1)) \in BOOLEAN
      BY <1>1 DEF LcdOf
    <3> QED
      BY <1>1, <3>1, <3>2 DEF LC!Begun, LcdOf
  <2> HIDE DEF l
  <2>2. LC!Start(l) /\ holds' = holds /\ panel' = panel /\ cgram' = cgram /\ pulses = Nothing
    BY <1>3 DEF LC!begin, l, Nothing
  <2>3. Intact(cgram, holds')
    BY <2>2, BetweenCalls DEF Resting
  <2> QED
    BY <1>1, <2>1, <2>2, <2>3, Begins
<1> QED
  BY <1>2, <1>3

LEMMA DisplayInit == LC!Init => DisplayInv
<1> SUFFICES ASSUME LC!Init PROVE DisplayInv
  OBVIOUS
<1>1. PICK eight \in BOOLEAN : lcd = LC!Constructed(eight)
  BY DEF LC!Init
<1>2. /\ pulses = LC!Synchronise(lcd) \o LC!Configure(lcd)
      /\ panel = [eight |-> TRUE, half |-> -1, twoLine |-> FALSE, tall |-> FALSE, control |-> {}, mode |-> {2},
                  ram |-> "text", addr |-> 0]
      /\ cgram = [a \in 0 .. 63 |-> 0] /\ holds = {}
  BY DEF LC!Init
<1>3. lcd \in LcdOf
  BY <1>1, ConstructedFacts
<1>4. panel \in ScreenOf /\ panel.eight /\ panel.half = -1
  BY <1>2 DEF ScreenOf
<1>5. DisplayTypeOK
  <2>1. cgram \in [0 .. 63 -> Nat] /\ holds \subseteq 0 .. 7
    BY <1>2
  <2> QED
    BY <1>3, <1>4, <2>1 DEF DisplayTypeOK
<1>6. Intact(cgram, holds)
  BY <1>2 DEF Intact
<1>7. CASE ~lcd.eight
  <2>1. pulses = Then(Three, Then(Three, Then(Three, Then(Two, Setting(lcd)))))
    BY <1>2, <1>3, <1>7, BeginFacts
  <2>2. Synchronising
    BY <1>6, <1>7, <2>1 DEF Synchronising
  <2> QED
    BY <1>5, <2>2 DEF DisplayInv
<1>8. CASE lcd.eight
  <2> DEFINE s == Setting(lcd)
             s2 == Then(LC!send(lcd, FunctionByte(lcd), 0), s)
             s3 == Then(LC!send(lcd, FunctionByte(lcd), 0), s2)
  <2>1. pulses = Then(LC!send(lcd, FunctionByte(lcd), 0), s3)
    BY <1>2, <1>3, <1>8, BeginFacts
  <2>2. Coming(panel, pulses, lcd, FunctionByte(lcd), 0, s3)
    BY <1>4, <2>1 DEF Coming
  <2>3. Synchronising
    BY <1>6, <1>8, <2>2 DEF Synchronising
  <2> QED
    BY <1>5, <2>3 DEF DisplayInv
<1> QED
  BY <1>7, <1>8

LEMMA PulseStep ==
  ASSUME DisplayInv, LC!pulseEnable
  PROVE  DisplayInv'
<1>1. DisplayTypeOK /\ pulses # Nothing
  BY DEF DisplayInv, LC!pulseEnable, Nothing
<1>2. ~Resting
  BY <1>1 DEF Resting
<1> QED
  BY <1>1, <1>2, FourWireStep, EightWireStep, ConfigureStep, CommandStep, PrintStep, AddressStep,
     StoreStep DEF DisplayInv

LEMMA DisplayStep == DisplayInv /\ LC!Next => DisplayInv'
<1> SUFFICES ASSUME DisplayInv, LC!Next PROVE DisplayInv'
  OBVIOUS
<1>1. CASE LC!pulseEnable
  BY <1>1, PulseStep
<1>2. CASE LC!Reset \/ \E n \in Lines, t \in BOOLEAN : LC!begin(n, t)
  BY <1>2, BeginCalls
<1>3. CASE LC!clear \/ LC!home \/ \E right \in BOOLEAN : LC!scrollDisplay(right)
  BY <1>3, PlainCalls
<1>4. CASE LC!print
  BY <1>4, PrintCall
<1>5. ASSUME NEW c \in Cursors, LC!setCursor(c[1], c[2]) PROVE DisplayInv'
  <2>1. c[1] \in Nat /\ c[2] \in Nat
    BY DisplayAssumption
  <2> QED
    BY <1>5, <2>1, CursorFacts
<1>6. ASSUME NEW f \in {1, 2, 4}, NEW on \in BOOLEAN, LC!setControl(f, on) PROVE DisplayInv'
  BY <1>6, ControlCall
<1>7. ASSUME NEW f \in {1, 2}, NEW on \in BOOLEAN, LC!setMode(f, on) PROVE DisplayInv'
  BY <1>7, ModeCall
<1>8. ASSUME NEW g \in Glyphs, LC!createChar(g) PROVE DisplayInv'
  <2>1. g \in 0 .. 7
    BY DisplayAssumption
  <2> QED
    BY <1>8, <2>1, GlyphCall
<1> QED
  BY <1>1, <1>2, <1>3, <1>4, <1>5, <1>6, <1>7, <1>8 DEF LC!Next

LEMMA DisplayUnchanged == DisplayInv /\ UNCHANGED display => DisplayInv'
BY DEF display, DisplayInv, DisplayTypeOK, Synchronising, Configuring, Commanding, Printing, Addressing,
   Storing, Resting

-----------------------------------------------------------------------------
(* The theorems *)

\* CardProtocol: whole and partial reads return the bytes that were asked for, the card
\* gets no command in a transfer unless an error was reported, and between calls it is
\* selected only in a read in parts or a sequence of writes, for any size of block and any
\* order of calls, failures and inits; after a read past the end of a block cut off a read
\* in parts only the selection between calls is claimed, until init.
THEOREM CardIsAsked == Spec => []CardProtocol
<1> DEFINE Inv == part = "sdCard" => CardInv
<1>1. Init => Inv
  BY CardInit DEF Init
<1>2. Inv /\ [Next]_vars => Inv'
  <2> SUFFICES ASSUME Inv, [Next]_vars PROVE Inv'
    OBVIOUS
  <2>1. CASE part = "sdCard" /\ SC!Next /\ part' = part
    BY <2>1, CardStep
  <2>2. CASE UNCHANGED <<part, sdCard>>
    BY <2>2 DEF CardInv, CardTypeOK, InStep, SC!State, sdCard
  <2>3. UNCHANGED vars => UNCHANGED <<part, sdCard>>
    BY DEF vars
  <2> QED
    BY <2>1, <2>2, <2>3 DEF Next
<1>3. Inv => CardProtocol
  BY CardSafe DEF CardProtocol
<1> QED
  BY <1>1, <1>2, <1>3, PTL DEF Spec

\* FlashHolds: the chip holds what the calls it could hear asked for, and a read returns
\* the byte at its address, for any number of addresses.
THEOREM FlashIsTrue == Spec => []FlashHolds
<1> DEFINE Inv == part = "flash" => FlashInv
<1>1. Init => Inv
  BY FlashInit DEF Init
<1>2. Inv /\ [Next]_vars => Inv'
  <2> SUFFICES ASSUME Inv, [Next]_vars PROVE Inv'
    OBVIOUS
  <2>1. CASE part = "flash" /\ FL!Next /\ part' = part
    BY <2>1, FlashStep
  <2>2. CASE UNCHANGED <<part, flash>>
    BY <2>2 DEF FlashInv, flash
  <2>3. UNCHANGED vars => UNCHANGED <<part, flash>>
    BY DEF vars
  <2> QED
    BY <2>1, <2>2, <2>3 DEF Next
<1>3. Inv => FlashHolds
  BY FlashSafe DEF FlashHolds
<1> QED
  BY <1>1, <1>2, <1>3, PTL DEF Spec

\* CourseKept: a course that was stored to the end comes back when it is loaded, a store cut
\* short leaves the old count, none or the new one, and the gates of a torn course are of
\* their places, for courses, counts and coordinates of any length.
THEOREM CourseIsKept == Spec => []CourseKept
<1> DEFINE Inv == part = "waypoints" => CourseInv
<1>1. Init => Inv
  BY CourseInit DEF Init
<1>2. Inv /\ [Next]_vars => Inv'
  <2> SUFFICES ASSUME Inv, [Next]_vars PROVE Inv'
    OBVIOUS
  <2>1. CASE part = "waypoints" /\ WS!Next /\ part' = part
    BY <2>1, CourseStep
  <2>2. CASE UNCHANGED <<part, waypoints>>
    BY <2>2, CourseUnchanged
  <2>3. UNCHANGED vars => UNCHANGED <<part, waypoints>>
    BY DEF vars
  <2> QED
    BY <2>1, <2>2, <2>3 DEF Next
<1>3. Inv => CourseKept
  BY CourseSafe DEF CourseKept
<1> QED
  BY <1>1, <1>2, <1>3, PTL DEF Spec

\* LogsKept: a log is of one start and only grows, and green lights tell that the receiver
\* was told, for any number of names, starts and lines.
THEOREM LogsAreKept == Spec => LogsKept
<1> DEFINE Inv == part = "logger" => LoggerInv /\ LightsInv
<1>1. Init => Inv
  BY LoggerInit DEF Init
<1>2. Inv /\ [Next]_vars => Inv'
  <2> SUFFICES ASSUME Inv, [Next]_vars PROVE Inv'
    OBVIOUS
  <2>1. part = "logger" /\ [LG!Next]_logger /\ part' = part => Inv'
    BY LoggerStep, LightsKept
  <2>2. part # "logger" /\ part' = part => Inv'
    OBVIOUS
  <2>3. part' = part /\ (part = "logger" => [LG!Next]_logger)
    <3>1. UNCHANGED vars => UNCHANGED <<part, logger>>
      BY DEF vars
    <3> QED
      BY <3>1 DEF Next
  <2> QED
    BY <2>1, <2>2, <2>3
<1>3. Inv => (part = "logger" => LG!OneStartPerLog /\ LG!GreenIsTold)
  BY LoggerSafe
<1>4. Inv /\ [Next]_vars => [part = "logger" => LG!LogsOnlyGrowStep]_vars
  <2> SUFFICES ASSUME Inv, [Next]_vars, part = "logger" PROVE LG!LogsOnlyGrowStep
    OBVIOUS
  <2>1. [LG!Next]_logger
    <3>1. UNCHANGED vars => UNCHANGED logger
      BY DEF vars
    <3> QED
      BY <3>1 DEF Next
  <2> QED
    BY <2>1, LogsGrow
<1> QED
  BY <1>1, <1>2, <1>3, <1>4, PTL DEF Spec, LogsKept

\* MotionAsCommanded: the pulses of any number of servos are the ones commanded, and a motor
\* of any number of steps is where its step number says, spaces its steps by the delay and
\* moves its field by one position at a time.
THEOREM MotionIsCommanded == Spec => MotionAsCommanded
<1> DEFINE Inv == /\ part = "servo" => ServoInv
                  /\ part = "stepper" => StepperInv
<1>1. Init => Inv
  BY ServoInit, StepperInit DEF Init
<1>2. Inv /\ [Next]_vars => Inv'
  <2> SUFFICES ASSUME Inv, [Next]_vars PROVE Inv'
    OBVIOUS
  <2>1. CASE part = "servo" /\ SV!Next /\ part' = part
    BY <2>1, ServoStep
  <2>2. CASE part = "stepper" /\ SP!Next /\ part' = part
    BY <2>2, StepperStep
  <2>3. CASE UNCHANGED <<part, servo, stepper>>
    <3>1. part = "servo" => ServoInv'
      BY <2>3 DEF ServoInv, ServoTypeOK, HighPins, PulseTimed, servo
    <3>2. part = "stepper" => StepperInv'
      BY <2>3 DEF StepperInv, Elapsed, stepper
    <3> QED
      BY <2>3, <3>1, <3>2
  <2>4. part' = part /\ (part \notin {"servo", "stepper"} => Inv')
    BY DEF Next, vars
  <2>5. UNCHANGED vars => UNCHANGED <<part, servo, stepper>>
    BY DEF vars
  <2> QED
    BY <2>1, <2>2, <2>3, <2>4, <2>5 DEF Next
<1>3. Inv => (part = "servo" => SV!PulseIsCommanded /\ SV!NoPinLeftHigh /\ SV!ReadIsWritten)
  BY ServoSafe
<1>4. Inv => (part = "stepper" => SP!PositionIsNet)
  BY DEF StepperInv, SP!PositionIsNet
<1>5. Inv /\ [Next]_vars /\ part = "stepper" => StepperInv /\ [SP!Next]_stepper
  <2>1. UNCHANGED vars => UNCHANGED stepper
    BY DEF vars
  <2> QED
    BY <2>1 DEF Next
<1>6. Inv /\ [Next]_vars => [part = "stepper" => SP!StepsSpacedStep]_vars
  BY <1>5, StepperSpaces
<1>7. Inv /\ [Next]_vars => [part = "stepper" => SP!NeighbouringCoilsStep]_vars
  BY <1>5, StepperNeighbours
<1> QED
  BY <1>1, <1>2, <1>3, <1>4, <1>6, <1>7, PTL DEF Spec, MotionAsCommanded

\* RadioCalls: over the SPI transport as it is ported no call gets an answer, a write waits
\* for ever only after a packet was read, and one that returns has clocked out its packet,
\* once. Over a transport that hands on what it reads a call returns the radio's answer to
\* its own command, the radio is never given more than it has room for, only answers to
\* wlan_connect sit in the buffer between calls, and the program is told that it may shut
\* down when the radio holds nothing. For any number of buffers, packets and calls.
THEOREM RadioIsCalled == Spec => RadioCalls
<1> DEFINE Inv == /\ part = "cc3000" => CallInv /\ FlowInv /\ PortedInv
                  /\ part = "cc3000Bus" => BusInv
<1>1. Init => Inv
  BY CallInit, FlowInit, PortedInit, BusInit DEF Init
<1>2. Inv /\ [Next]_vars => Inv'
  <2> SUFFICES ASSUME Inv, [Next]_vars PROVE Inv'
    OBVIOUS
  <2>1. CASE part = "cc3000" /\ CC!Next /\ part' = part
    BY <2>1, CallStep, FlowStep, PortedStep
  <2>2. CASE part = "cc3000Bus" /\ CS!Next /\ part' = part
    BY <2>2, BusStep
  <2>3. CASE UNCHANGED <<part, cc3000, cc3000Bus>>
    <3>1. part = "cc3000" => CallInv'
      BY <2>3, CallUnchanged DEF CallVars, cc3000
    <3>2. part = "cc3000" => FlowInv'
      BY <2>3 DEF FlowInv, Busy, cc3000
    <3>3. part = "cc3000" => PortedInv'
      BY <2>3 DEF PortedInv, cc3000
    <3>4. part = "cc3000Bus" => BusInv'
      BY <2>3 DEF BusInv, CS!StuckOnlyAfterRead, cc3000Bus
    <3> QED
      BY <2>3, <3>1, <3>2, <3>3, <3>4
  <2>4. part' = part /\ (part \notin {"cc3000", "cc3000Bus"} => Inv')
    BY DEF Next, vars
  <2>5. UNCHANGED vars => UNCHANGED <<part, cc3000, cc3000Bus>>
    BY DEF vars
  <2> QED
    BY <2>1, <2>2, <2>3, <2>4, <2>5 DEF Next
<1>3. Inv => (part = "cc3000" => /\ CC!NeverAnswered
                                 /\ CC!OwnAnswer /\ CC!NoOverrun /\ CC!OnlyConnectPauses)
  BY CallSafe DEF PortedInv, CC!NeverAnswered
<1>4. Inv => (part = "cc3000Bus" => CS!StuckOnlyAfterRead /\ CS!ClockedOnce)
  BY BusClocked DEF BusInv
<1>5. Inv /\ [Next]_vars => [part = "cc3000" => CC!ShutDownIsSafeStep]_vars
  <2> SUFFICES ASSUME Inv, [Next]_vars, part = "cc3000" PROVE CC!ShutDownIsSafeStep \/ UNCHANGED vars
    OBVIOUS
  <2>1. CASE CC!Next
    BY <2>1, ShutDownSafe
  <2> QED
    BY <2>1 DEF Next
<1> QED
  BY <1>1, <1>2, <1>3, <1>4, <1>5, PTL DEF Spec, RadioCalls

\* TransitionsPaired: enter and exit callbacks pair up and the last request is served,
\* for any states and requests in any callback.
THEOREM CallbacksPaired == Spec => TransitionsPaired
<1> DEFINE Inv == part = "stateMachine" => FsmInv
<1>1. Init => Inv
  BY FsmInit DEF Init
<1>2. Inv /\ [Next]_vars => Inv'
  <2> SUFFICES ASSUME Inv, [Next]_vars PROVE Inv'
    OBVIOUS
  <2>1. CASE part = "stateMachine" /\ FS!Next /\ part' = part
    BY <2>1, FsmStep
  <2>2. CASE UNCHANGED <<part, stateMachine>>
    BY <2>2 DEF FsmInv, FS!EnterExitPaired, stateMachine
  <2>3. UNCHANGED vars => UNCHANGED <<part, stateMachine>>
    BY DEF vars
  <2> QED
    BY <2>1, <2>2, <2>3 DEF Next
<1>3. Inv => (part = "stateMachine" => FS!EnterExitPaired)
  BY DEF FsmInv
<1>4. Inv => (part = "stateMachine" => FS!LastRequestServedStep)
  BY FsmServes
<1> QED
  BY <1>1, <1>2, <1>3, <1>4, PTL DEF Spec, TransitionsPaired

\* DisplayInStep: display and driver agree on the halves of a byte and on the settings, from
\* whatever state a reset left the display in, and stored glyphs stay whole, for any number of
\* calls and resets, any rows, places and glyphs.
THEOREM DisplayStaysInStep == Spec => []DisplayInStep
<1> DEFINE Inv == part = "display" => DisplayInv
<1>1. Init => Inv
  BY DisplayInit DEF Init
<1>2. Inv /\ [Next]_vars => Inv'
  <2> SUFFICES ASSUME Inv, [Next]_vars PROVE Inv'
    OBVIOUS
  <2>1. CASE part = "display" /\ LC!Next /\ part' = part
    BY <2>1, DisplayStep
  <2>2. CASE UNCHANGED <<part, display>>
    BY <2>2, DisplayUnchanged
  <2>3. UNCHANGED vars => UNCHANGED <<part, display>>
    BY DEF vars
  <2> QED
    BY <2>1, <2>2, <2>3 DEF Next
<1>3. Inv => DisplayInStep
  BY DisplaySafe DEF DisplayInStep
<1> QED
  BY <1>1, <1>2, <1>3, PTL DEF Spec
=============================================================================
