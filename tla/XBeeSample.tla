----------------------------- MODULE XBeeSample -----------------------------
(***************************************************************************)
(* I/O sample frames of the XBee library: the radio (external) packs the   *)
(* state of its pins into a frame, the accessors of Rx16IoSampleResponse,  *)
(* Rx64IoSampleResponse and ZBRxIoSampleResponse find it again.  Only the  *)
(* data the accessors look at is kept: a frame is its bytes from the       *)
(* sample on, at the offset of its kind.                                   *)
(***************************************************************************)
EXTENDS Integers, Sequences, FiniteSets

CONSTANTS Analogs, Digitals   \* pins that may be enabled: subsets of 0..5 and of 0..8

VARIABLE sample   \* what the radio sampled, and the frame data it sent
sampleVars == <<sample>>

Byte(d, i) == d[i + 1]
Bit(b, n) == (b \div 2^n) % 2 = 1
Bits(S) == (IF 0 \in S THEN 1 ELSE 0) + (IF 1 \in S THEN 2 ELSE 0) + (IF 2 \in S THEN 4 ELSE 0)
           + (IF 3 \in S THEN 8 ELSE 0) + (IF 4 \in S THEN 16 ELSE 0) + (IF 5 \in S THEN 32 ELSE 0)
           + (IF 6 \in S THEN 64 ELSE 0) + (IF 7 \in S THEN 128 ELSE 0)

\* A ten-bit reading of pin p in the n-th sample.
Reading(p, n) == (256 * ((p + n) % 4) + 40 * p + n) % 1024
Word(v) == <<v \div 256, v % 256>>
High(S) == IF 8 \in S THEN 1 ELSE 0

RECURSIVE AnalogWords(_, _, _)
AnalogWords(A, p, n) ==
  IF p > 5 THEN << >>
  ELSE (IF p \in A THEN Word(Reading(p, n)) ELSE << >>) \o AnalogWords(A, p + 1, n)

\* The radio: the masks, and for each sample the digital states and the readings.  That the
\* two bytes of states belong to each sample is how the reader in the comment at lines
\* 328-418 of XBee.cpp, which calls itself verified, takes the frame apart.
OneSample(A, D, on, n) ==
  (IF D = {} THEN << >> ELSE <<High(on), Bits(on)>>) \o AnalogWords(A, 0, n)
Pad(n) == [i \in 1..n |-> 0]
Series1(A, D, on, count, rssiOffset) ==
  Pad(rssiOffset + 2) \o <<count, High(D) + 2 * Bits(A), Bits(D)>>
    \o OneSample(A, D, on[1], 0) \o (IF count = 2 THEN OneSample(A, D, on[2], 1) ELSE << >>)
Series2(A, D, on) ==
  Pad(11) \o <<1, High(D) * 4, Bits(D), Bits(A)>>
    \o (IF D = {} THEN << >> ELSE <<High(on[1]) * 4, Bits(on[1])>>) \o AnalogWords(A, 0, 0)
-----------------------------------------------------------------------------
(* RxIoSampleBaseResponse: o is getSampleOffset().                         *)

getSampleOffset(rssiOffset) == rssiOffset + 2
getSampleSize(d, o) == Byte(d, o)
containsDigital(d, o) == Bit(Byte(d, o + 1), 0) \/ Byte(d, o + 2) > 0
isAnalogEnabled(d, o, pin) == Bit(Byte(d, o + 1), pin + 1)

\* isDigitalEnabled looks at the states of the first sample, not at the mask: a pin that is
\* enabled and low does not count, against XBee.h:490.
isDigitalEnabled(d, o, pin) ==
  IF pin < 8 THEN Bit(Byte(d, o + 4), pin) ELSE Bit(Byte(d, o + 3), 0)

\* Mutated form of getAnalog: the samples are as far apart as the readings of one pin.
getAnalogSpacing(d, o, pin, n) ==
  LET start == 3 + (IF containsDigital(d, o) THEN 2 * (n + 1) ELSE 0)
                 + 2 * Cardinality({i \in 0..(pin - 1) : isAnalogEnabled(d, o, i)}) + 2 * n
  IN  256 * Byte(d, o + start) + Byte(d, o + start + 1)

\* The comment above getAnalog says that it is wrong; by the layout of the verified reader
\* it is not (AnalogAsSampled).
getAnalog(d, o, pin, n) ==
  LET start == 3 + (IF containsDigital(d, o) THEN 2 * (n + 1) ELSE 0)
                 + 2 * Cardinality({i \in 0..(pin - 1) : isAnalogEnabled(d, o, i)})
                 + n * 2 * Cardinality({i \in 0..5 : isAnalogEnabled(d, o, i)})
  IN  256 * Byte(d, o + start) + Byte(d, o + start + 1)

\* isDigitalOn: the sample asked for is ignored, the first one is read.
isDigitalOn(d, o, pin, n) ==
  IF pin < 8 THEN Bit(Byte(d, o + 4), pin) ELSE Bit(Byte(d, o + 3), 0)

(* ZBRxIoSampleResponse.                                                   *)

zbContainsDigital(d) == (Byte(d, 12) \div 4) % 8 > 0 \/ Byte(d, 13) > 0
zbIsAnalogEnabled(d, pin) == pin \in {0, 1, 2, 3, 7} /\ Bit(Byte(d, 14), pin)
zbIsDigitalEnabled(d, pin) ==
  IF pin <= 7 THEN Bit(Byte(d, 13), pin) ELSE pin \in 10..12 /\ Bit(Byte(d, 12), pin - 8)
zbGetAnalog(d, pin) ==
  LET start == 15 + (IF zbContainsDigital(d) THEN 2 ELSE 0)
                  + 2 * Cardinality({i \in 0..(pin - 1) : zbIsAnalogEnabled(d, i)})
  IN  256 * Byte(d, start) + Byte(d, start + 1)

\* Mutated form of zbIsDigitalOn: the two bytes of the digital sample are swapped.
zbIsDigitalOnSwapped(d, pin) ==
  IF pin <= 7 THEN Bit(Byte(d, 15), pin) ELSE Bit(Byte(d, 16), pin - 8)

zbIsDigitalOn(d, pin) ==
  IF pin <= 7 THEN Bit(Byte(d, 16), pin) ELSE Bit(Byte(d, 15), pin - 8)
-----------------------------------------------------------------------------
Init == sample = [kind |-> "none", A |-> {}, D |-> {}, on |-> <<{}, {}>>, count |-> 0,
                  o |-> 0, d |-> << >>]

\* A frame of one or two samples from a Series 1 radio, at its 16 or 64 bit address.
RxIoSample(A, D, on, count, rssiOffset) ==
  sample' = [kind |-> "S1", A |-> A, D |-> D, on |-> on, count |-> count,
             o |-> getSampleOffset(rssiOffset), d |-> Series1(A, D, on, count, rssiOffset)]

\* A frame from a Series 2 radio; D10 to D12 are bits 2 to 4 of the high byte.
ZBRxIoSample(A, D, on) ==
  sample' = [kind |-> "S2", A |-> A, D |-> D, on |-> on, count |-> 1,
             o |-> 0, d |-> Series2(A, D, on)]

Receive ==
  \E A \in SUBSET Analogs, D \in SUBSET Digitals : \E on1, on2 \in SUBSET D :
    /\ sample.kind = "none"
    /\ \/ \E count \in 1..2, off \in {2, 8} : RxIoSample(A, D, <<on1, on2>>, count, off)
       \/ A \subseteq 0..3 /\ ZBRxIoSample(A, D, <<on1, on2>>)

\* The frame has been read and is discarded.
Discard == sample.kind # "none" /\ sample' = [kind |-> "none", A |-> {}, D |-> {},
             on |-> <<{}, {}>>, count |-> 0, o |-> 0, d |-> << >>]

Next == Receive \/ Discard

Spec == Init /\ [][Next]_sampleVars
-----------------------------------------------------------------------------
\* getAnalog returns the reading that was sampled at the pin, in each sample of a frame
\* and whatever other pins are enabled: the remark THIS IS WRONG at XBee.cpp:420 does not
\* hold of this version.
AnalogAsSampled ==
  \A p \in sample.A, n \in 0..(sample.count - 1) :
    IF sample.kind = "S1"
    THEN /\ isAnalogEnabled(sample.d, sample.o, p)
         /\ getSampleSize(sample.d, sample.o) = sample.count
         /\ getAnalog(sample.d, sample.o, p, n) = Reading(p, n)
    ELSE zbIsAnalogEnabled(sample.d, p) /\ zbGetAnalog(sample.d, p) = Reading(p, n)

\* A Series 2 frame tells which pins are enabled, and which of them are high.  In a Series 1
\* frame with states, a pin reported as enabled is enabled, and one that is enabled is on for
\* any index exactly if it was high in the FIRST sample: neither the enabled pins that were
\* low (XBee.cpp:321-326) nor the states of a later sample (459-465) can be had.
DigitalAsSampled ==
  CASE sample.kind = "S2" ->
         \A p \in Digitals :
           LET pin == IF p = 8 THEN 10 ELSE p
           IN  /\ zbIsDigitalEnabled(sample.d, pin) <=> p \in sample.D
               /\ p \in sample.D => (zbIsDigitalOn(sample.d, pin) <=> p \in sample.on[1])
    [] sample.kind = "S1" /\ sample.D # {} ->
         \A p \in Digitals, n \in 0..(sample.count - 1) :
           /\ isDigitalEnabled(sample.d, sample.o, p) => p \in sample.D
           /\ p \in sample.D => (isDigitalOn(sample.d, sample.o, p, n) <=> p \in sample.on[1])
    [] OTHER -> TRUE
=============================================================================
