----------------------------- MODULE NMEADecoder -----------------------------
(***************************************************************************)
(* libraries/NMEA: decode() takes a sentence character by character, keeps *)
(* its terms and its parity, and when the checksum is right copies them    *)
(* for the program.  Characters are ASCII codes.  What the copies hold is  *)
(* looked at when a sentence has just been accepted.                       *)
(***************************************************************************)
EXTENDS Integers, Sequences

CONSTANTS
  Characters,
  MaxSentence, MaxTerms, MaxTerm,   \* 100, 30 and 15
  LongLimit,                        \* a long is in -LongLimit .. LongLimit - 1; 2^31
  GPRMC_TERM,                       \* "$GPRMC,"
  RmcTerms,                         \* the terms read of such a sentence: 1 .. 8
  OnlyRmc                           \* _gprmc_only

Dollar == 36
Comma == 44
Star == 42
Plus == 43
Minus == 45
Dot == 46
Zero == 48
Stale == <<-1>>    \* what an earlier sentence left in a term

VARIABLES
  dec,        \* _state, parity, tag, sentence, terms, current (the term being filled)
  accepted,   \* the sentence just accepted: sentence, terms, rmc; or NoSentence
  reach,      \* history: the highest index the last character wrote in _sentence, _term and a term
  spoilt      \* whether a write past _sentence, or its copy, has changed where a term is kept

decVars == <<dec, accepted, reach, spoilt>>

NoSentence == [sentence |-> <<>>, terms |-> <<>>, rmc |-> [i \in RmcTerms |-> <<>>]]

\* What is handed out once a term is kept somewhere else.
Garbage == [NoSentence EXCEPT !.sentence = Stale]

NothingWritten == [sentence |-> 0, terms |-> 0, term |-> 0]
Idle == [state |-> 0, parity |-> 0, tag |-> 0, sentence |-> <<>>, terms |-> <<>>, current |-> <<>>]

Init ==
  /\ dec = Idle
  /\ accepted = NoSentence
  /\ reach = NothingWritten
  /\ spoilt = FALSE

\* The exclusive or of two bytes
Xor(a, b) ==
  LET bit(w) == w * (((a \div w) + (b \div w)) % 2)
  IN  bit(1) + bit(2) + bit(4) + bit(8) + bit(16) + bit(32) + bit(64) + bit(128)

_dehex(c) == IF c >= 65 THEN c - 55 ELSE c - 48

\* A long that does not hold its new value wraps around.
Long(x) ==
  IF x \in -LongLimit .. LongLimit - 1 THEN x ELSE ((x + LongLimit) % (2 * LongLimit)) - LongLimit

\* _decimal, in units of 1 / Unit: rl, a long, counts the digits before the dot, rr adds
\* those behind it, each a tenth of the one before (rb).  The rounding of the floats rr and
\* rb is left out.
Unit == 100
Digit(v, c) ==
  CASE c = Dot -> [v EXCEPT !.rb = IF @ = 0 THEN Unit \div 10 ELSE @]
    [] c # Dot /\ v.rb = 0 -> [v EXCEPT !.rl = Long(10 * @ + c - Zero)]
    [] OTHER -> [v EXCEPT !.rr = @ + v.rb * (c - Zero), !.rb = @ \div 10]
Decimal(s) ==
  LET v[n \in 0 .. Len(s)] == IF n = 0 THEN [rl |-> 0, rr |-> 0, rb |-> 0] ELSE Digit(v[n - 1], s[n])
  IN  Unit * v[Len(s)].rl + v[Len(s)].rr

\* Mutated form of _decimal: the sign counts as a digit.
_decimalSign(s) == Decimal(s)

_decimal(s) ==
  LET signed == s # <<>> /\ Head(s) \in {Plus, Minus}
      rr == Decimal(IF signed THEN Tail(s) ELSE s)
  IN  IF signed /\ Head(s) = Minus THEN 0 - rr ELSE rr

\* Mutated form of Runaway: the length of a term is not looked at.
RunawayTerms(d) == Len(d.sentence) >= MaxSentence \/ Len(d.terms) >= MaxTerms

\* The guard at the top of decode.
Runaway(d) == Len(d.sentence) >= MaxSentence \/ Len(d.terms) >= MaxTerms \/ Len(d.current) >= MaxTerm

Started == [state |-> 1, parity |-> 0, tag |-> 0, sentence |-> <<Dollar>>, terms |-> <<>>, current |-> <<>>]

\* A character joins the sentence; before the comma it is compared with the tag.
Added(d, c) == [d EXCEPT !.sentence = Append(@, c)]
Tagged(d, c) ==
  LET n == Len(d.sentence)
  IN  IF n < Len(GPRMC_TERM) /\ GPRMC_TERM[n + 1] = c THEN [d EXCEPT !.tag = @ + 1] ELSE d

EndTerm(d) == [d EXCEPT !.terms = Append(@, d.current), !.current = <<>>]

\* Mutated form of InSentence: a comma does not count for the parity.
InSentenceNoComma(d, c) ==
  CASE c = Comma -> EndTerm(d)
    [] c = Star -> [EndTerm(d) EXCEPT !.state = 2]
    [] OTHER -> [d EXCEPT !.current = Append(@, c), !.parity = Xor(@, c)]

\* State 1: between '$' and '*'.
InSentence(d, c) ==
  CASE c = Comma -> [EndTerm(d) EXCEPT !.parity = Xor(@, c)]
    [] c = Star -> [EndTerm(d) EXCEPT !.state = 2]
    [] OTHER -> [d EXCEPT !.current = Append(@, c), !.parity = Xor(@, c)]

\* State 2: the first digit of the checksum.
FirstDigit(d, c) == [d EXCEPT !.current = Append(@, c), !.parity = @ - 16 * _dehex(c), !.state = 3]

\* State 3: the second digit; the sentence and its last term are ended.
SecondDigit(d, c) ==
  [EndTerm([d EXCEPT !.current = Append(@, c)]) EXCEPT !.parity = @ - _dehex(c), !.state = 0]

\* The copies made of a sentence with the right checksum, of the right kind.
Accepts(d) == d.parity = 0 /\ (OnlyRmc => d.tag = Len(GPRMC_TERM) - 1)

\* Mutated form of TermsOf: the checksum is not copied.
TermsOfBody(d) == SubSeq(d.terms, 1, Len(d.terms) - 1)

\* f_term
TermsOf(d) == d.terms

\* Mutated form of Rmc: the terms are counted from one.
RmcFromOne(d) ==
  [i \in RmcTerms |-> IF d.tag # Len(GPRMC_TERM) - 1 THEN <<>>
                      ELSE IF i <= Len(d.terms) THEN d.terms[i] ELSE Stale]

\* The terms the position, speed and course are read from, counted from zero; those the
\* sentence does not have are still there from an earlier one.
Rmc(d) ==
  [i \in RmcTerms |-> IF d.tag # Len(GPRMC_TERM) - 1 THEN <<>>
                      ELSE IF i < Len(d.terms) THEN d.terms[i + 1] ELSE Stale]

Completed(d) ==
  IF Accepts(d) THEN [sentence |-> d.sentence, terms |-> TermsOf(d), rmc |-> Rmc(d)] ELSE NoSentence

\* What the writes for one more character reach, the end of the string in state 3 included.
Reached(d) ==
  LET end == IF d.state = 3 THEN 1 ELSE 0
  IN  [sentence |-> Len(d.sentence) + end, terms |-> Len(d.terms), term |-> Len(d.current) + end]

\* A sentence that fills _sentence is ended behind it, in the pointer _term[0], of which the
\* end of the string clears a byte; when it is accepted its copy does the same to f_term[0].
Overruns(d) == d.state = 3 /\ Len(d.sentence) = MaxSentence - 1

\* decode: '$' always starts a sentence; the end of a line and a sentence that is too long
\* end it.  What is left of a sentence in state 0 is not looked at again.
decode(c) ==
  /\ c # Dollar /\ ~spoilt
  /\ \E d \in {IF Runaway(dec) \/ c \in {10, 13} THEN Idle ELSE dec} :
       \/ /\ d.state = 0
          /\ dec' = Idle /\ accepted' = NoSentence /\ reach' = NothingWritten /\ UNCHANGED spoilt
       \/ /\ d.state = 1
          /\ dec' = InSentence(Added(Tagged(d, c), c), c)
          /\ accepted' = NoSentence /\ reach' = Reached(d) /\ UNCHANGED spoilt
       \/ /\ d.state = 2
          /\ dec' = FirstDigit(Added(d, c), c)
          /\ accepted' = NoSentence /\ reach' = Reached(d) /\ UNCHANGED spoilt
       \/ /\ d.state = 3
          /\ dec' = Idle
          /\ accepted' = Completed(SecondDigit(Added(d, c), c))
          /\ reach' = Reached(d) /\ UNCHANGED spoilt
       \/ /\ Overruns(d)
          /\ dec' = Idle /\ reach' = Reached(d)
          /\ spoilt' = TRUE /\ accepted' \in {NoSentence, Garbage}

decodeDollar ==
  /\ ~spoilt
  /\ dec' = Started /\ accepted' = NoSentence /\ reach' = NothingWritten /\ UNCHANGED spoilt

\* With the first term somewhere else in memory, any character may do anything.
decodeSpoilt == spoilt /\ accepted' \in {NoSentence, Garbage} /\ UNCHANGED <<dec, reach, spoilt>>

Next == decodeDollar \/ decodeSpoilt \/ \E c \in Characters : decode(c)

Spec == Init /\ [][Next]_decVars
-----------------------------------------------------------------------------
ParityOf(s) ==
  LET parity[n \in 0 .. Len(s)] == IF n = 0 THEN 0 ELSE Xor(parity[n - 1], s[n]) IN parity[Len(s)]

\* The terms of a text, separated by commas.
Split(s) ==
  LET terms[n \in 0 .. Len(s)] ==
        IF n = 0 THEN << <<>> >>
        ELSE IF s[n] = Comma THEN Append(terms[n - 1], <<>>)
        ELSE [terms[n - 1] EXCEPT ![Len(terms[n - 1])] = Append(@, s[n])]
  IN  terms[Len(s)]

Whole == accepted.sentence
Body == SubSeq(Whole, 2, Len(Whole) - 3)

\* As long as no sentence has filled its buffer, a sentence is accepted only if its two
\* digits are the parity of all that lies between the dollar and the star, whatever was
\* received before and in between (decode).
ChecksumRight ==
  ~spoilt /\ Whole # <<>> =>
    ParityOf(Body) = 16 * _dehex(Whole[Len(Whole) - 1]) + _dehex(Whole[Len(Whole)])

\* So long, too, the terms handed to the program are those of the accepted sentence: its
\* text between the separators, and last its two digits, which need not be digits (decode,
\* _dehex).
TermsAreSplit ==
  ~spoilt /\ Whole # <<>> =>
    accepted.terms = Append(Split(Body), SubSeq(Whole, Len(Whole) - 1, Len(Whole)))

\* So long, too, the position, speed and course are read from the terms of the sentence
\* accepted, if it has them; a right but short sentence leaves the values of an earlier one
\* (decode).
RmcIsThis ==
  ~spoilt /\ Whole # <<>> /\ SubSeq(Whole, 1, Len(GPRMC_TERM)) = GPRMC_TERM =>
    \A i \in RmcTerms : i < Len(accepted.terms) => accepted.rmc[i] = accepted.terms[i + 1]

DigitsOf(s) == {i \in 1 .. Len(s) : s[i] \in Zero .. Zero + 9}
PointOf(s) == IF \E i \in 1 .. Len(s) : s[i] = Dot THEN CHOOSE i \in 1 .. Len(s) : s[i] = Dot ELSE Len(s) + 1
IsNumber(s) ==
  /\ \A i \in 1 .. Len(s) : i \in DigitsOf(s) \/ i = PointOf(s) \/ (i = 1 /\ s[i] \in {Plus, Minus})
  /\ Len(s) - PointOf(s) <= 2
Power(n) == LET ten[k \in 0 .. n] == IF k = 0 THEN 1 ELSE 10 * ten[k - 1] IN ten[n]
Place(s, i) == IF i < PointOf(s) THEN Unit * Power(PointOf(s) - 1 - i) ELSE Unit \div Power(i - PointOf(s))
Value(s) ==
  LET sum[n \in 0 .. Len(s)] ==
        IF n = 0 THEN 0
        ELSE sum[n - 1] + (IF n \in DigitsOf(s) THEN Place(s, n) * (s[n] - Zero) ELSE 0)
  IN  sum[Len(s)]

\* The term being received, if it is a number whose whole part a long holds, is converted to
\* that number: its digits times the power of ten their places give (_decimal, for the
\* values of a sentence and term_decimal).
DecimalIsValue ==
  LET s == dec.current
  IN  IsNumber(s) /\ Value(s) < Unit * LongLimit =>
        _decimal(s) = (IF Len(s) > 0 /\ s[1] = Minus THEN -1 ELSE 1) * Value(s)

\* However long a sentence and its terms, no write goes past the buffers, but for one byte
\* behind _sentence, and behind its copy, and that only when the checksum of a sentence
\* that fills the buffer is complete ("avoid runaway sentences"); nothing else moves a term
\* (decode).
OneBytePast ==
  /\ reach.sentence <= MaxSentence /\ reach.terms < MaxTerms /\ reach.term < MaxTerm
  /\ reach.sentence = MaxSentence => dec.state = 0
  /\ spoilt => reach.sentence = MaxSentence
=============================================================================
