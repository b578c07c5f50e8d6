------------------------------- MODULE MCLines -------------------------------
(*****************************************************************************)
(* What makes lines out of bytes and values out of lines: the GPS libraries, *)
(* the software serial port, and the visualizer at the other end of the      *)
(* tracker's line.  Each behaviour is about one of them.                     *)
(*****************************************************************************)
EXTENDS Integers, Sequences

CONSTANTS
  \* libraries/SPK_GPS: lines
  Chars, BufferLength, WaitLines, RxSize, MaxBytes,
  \* SPK_GPS and Adafruit_GPS: parse
  MaxSentences, Cuts,
  \* libraries/NMEA
  Characters, MaxSentence, MaxTerms, MaxTerm, LongLimit, GPRMC_TERM, RmcTerms,
  \* libraries/Adafruit_GPS: lines
  LineLen, LineBuffer, CopyLen, Tries, SentLines, MaxLost, Kinds,
  \* libraries/SoftwareSerial
  SerialPorts, Inverted, NoPort, _SS_MAX_RX_BUFF, Bytes,
  \* GPS_visualizer
  numPoints, TrackerPorts, MaxLines, MaxDamaged

\* The bytes are characters, and a buffer has room for a dollar sign and its end.
ASSUME ReaderAssumption == "NUL" \notin Chars /\ BufferLength \in Nat /\ BufferLength >= 2

ASSUME SerialAssumption == _SS_MAX_RX_BUFF \in Nat \ {0} /\ Bytes \subseteq 0 .. 255

ASSUME AdafruitAssumption == LineBuffer \in Nat \ {0} /\ LineLen \in Nat /\ CopyLen \in Nat

\* The loops of the visualizer need two points; a tracker sends lines of these kinds.
ASSUME VisualizerAssumption ==
  /\ numPoints \in Nat /\ numPoints >= 2
  /\ TrackerPorts \subseteq SUBSET {"track", "waypoint", "startfinish", "test", "split", "reset"}

\* The characters are ASCII codes. A sentence may be as long as its buffers say, which have
\* room for a term of two digits and its end; the tag of an RMC sentence has no star.
ASSUME DecoderAssumption ==
  /\ Characters \subseteq 0 .. 127 /\ MaxSentence \in Nat \ {0} /\ MaxTerms \in Nat \ {0}
  /\ MaxTerm \in Nat /\ MaxTerm > 2 /\ LongLimit \in Nat \ {0}
  /\ GPRMC_TERM \in Seq(Nat) \ {<<>>} /\ \A i \in 1 .. Len(GPRMC_TERM) : GPRMC_TERM[i] # 42

VARIABLES
  part,   \* the library this behaviour is about
  rx, bytes, lines, currentline, lastline, lineidx, recvdflag, paused, inStandbyMode, pc,
  waited, text, ended, pending, verdict,   \* libraries/SPK_GPS: lines
  library, gps, old, fixFlag, count, whole, accepted, point,   \* SPK_GPS and Adafruit_GPS: parse
  dec, decoded, reach, spoilt,   \* libraries/NMEA
  uart, gpsIn, prog, heard, parsed,   \* libraries/Adafruit_GPS: lines
  ring, head, tail, active_object, overflowed, tuned, enabled, step, taken, due,   \* libraries/SoftwareSerial
  port, ev, pic, linesIn, good, damaged, frame   \* GPS_visualizer

reader ==
  <<rx, bytes, lines, currentline, lastline, lineidx, recvdflag, paused, inStandbyMode, pc,
  waited, text, ended, pending, verdict>>
parser ==
  <<library, gps, old, fixFlag, count, whole, accepted, point>>
decoder ==
  <<dec, decoded, reach, spoilt>>
adafruit ==
  <<uart, gpsIn, prog, heard, parsed>>
serialPort ==
  <<ring, head, tail, active_object, overflowed, tuned, enabled, step, taken, due>>
visualizer ==
  <<port, ev, pic, linesIn, good, damaged, frame>>
vars == <<part, reader, parser, decoder, adafruit, serialPort, visualizer>>

\* The values of tuples, for the model checker.
MCTerm  == <<36, 65, 44>>

NR == INSTANCE NMEAReader WITH
  MAXLINELENGTH <- BufferLength, MAXWAITSENTENCE <- WaitLines, Endless <- FALSE
NP == INSTANCE NMEAParser
ND == INSTANCE NMEADecoder WITH OnlyRmc <- FALSE, accepted <- decoded
AG == INSTANCE AdafruitGPS WITH
  MAXLINELENGTH <- LineBuffer, MAXWAITSENTENCE <- Tries, MaxLines <- SentLines
SS == INSTANCE SoftwareSerial WITH Ports <- SerialPorts
VZ == INSTANCE Visualizer WITH Ports <- TrackerPorts
-----------------------------------------------------------------------------
(* The variables of a library that is not looked at have the value 0. *)
readerOff ==
  /\ rx = 0 /\ bytes = 0 /\ lines = 0 /\ currentline = 0 /\ lastline = 0 /\ lineidx = 0
  /\ recvdflag = 0 /\ paused = 0 /\ inStandbyMode = 0 /\ pc = 0 /\ waited = 0 /\ text = 0
  /\ ended = 0 /\ pending = 0 /\ verdict = 0
parserOff ==
  /\ library = 0 /\ gps = 0 /\ old = 0 /\ fixFlag = 0 /\ count = 0 /\ whole = 0
  /\ accepted = 0 /\ point = 0
decoderOff ==
  /\ dec = 0 /\ decoded = 0 /\ reach = 0 /\ spoilt = 0
adafruitOff ==
  /\ uart = 0 /\ gpsIn = 0 /\ prog = 0 /\ heard = 0 /\ parsed = 0
serialPortOff ==
  /\ ring = 0 /\ head = 0 /\ tail = 0 /\ active_object = 0 /\ overflowed = 0 /\ tuned = 0
  /\ enabled = 0 /\ step = 0 /\ taken = 0 /\ due = 0
visualizerOff ==
  /\ port = 0 /\ ev = 0 /\ pic = 0 /\ linesIn = 0 /\ good = 0 /\ damaged = 0 /\ frame = 0

Init ==
  \/ /\ part = "reader" /\ NR!Init
     /\ parserOff /\ decoderOff /\ adafruitOff /\ serialPortOff /\ visualizerOff
  \/ /\ part = "parser" /\ NP!Init
     /\ readerOff /\ decoderOff /\ adafruitOff /\ serialPortOff /\ visualizerOff
  \/ /\ part = "decoder" /\ ND!Init
     /\ readerOff /\ parserOff /\ adafruitOff /\ serialPortOff /\ visualizerOff
  \/ /\ part = "adafruit" /\ AG!Init
     /\ readerOff /\ parserOff /\ decoderOff /\ serialPortOff /\ visualizerOff
  \/ /\ part = "serialPort" /\ SS!Init
     /\ readerOff /\ parserOff /\ decoderOff /\ adafruitOff /\ visualizerOff
  \/ /\ part = "visualizer" /\ VZ!Init
     /\ readerOff /\ parserOff /\ decoderOff /\ adafruitOff /\ serialPortOff

Next ==
  \/ /\ part = "reader" /\ NR!Next
     /\ UNCHANGED <<part, parser, decoder, adafruit, serialPort, visualizer>>
  \/ /\ part = "parser" /\ NP!Next
     /\ UNCHANGED <<part, reader, decoder, adafruit, serialPort, visualizer>>
  \/ /\ part = "decoder" /\ ND!Next
     /\ UNCHANGED <<part, reader, parser, adafruit, serialPort, visualizer>>
  \/ /\ part = "adafruit" /\ AG!Next
     /\ UNCHANGED <<part, reader, parser, decoder, serialPort, visualizer>>
  \/ /\ part = "serialPort" /\ SS!Next
     /\ UNCHANGED <<part, reader, parser, decoder, adafruit, visualizer>>
  \/ /\ part = "visualizer" /\ VZ!Next
     /\ UNCHANGED <<part, reader, parser, decoder, adafruit, serialPort>>

Spec == Init /\ [][Next]_vars
-----------------------------------------------------------------------------
\* SPK_GPS: a finished line is what was received, up to the length of the buffer; every
\* finished line is taken once, before the next byte is read; and a line with the right
\* checksum is never refused.
LinesIntact ==
  part = "reader" => NR!LineAsReceived /\ NR!EachLineOnce /\ NR!GoodLinesPass

\* SPK_GPS and Adafruit_GPS: a track point has its coordinates from one sentence, unless
\* a line was cut short, and speed and fix quality, which decide, are of accepted
\* sentences.
ParsedSound ==
  part = "parser" => NP!PointIsWhole /\ NP!UsedIsAccepted

\* NMEA: until a sentence fills its buffer, a sentence is accepted only if its digits are
\* the parity of its text, the terms handed out are those of the accepted sentence, and
\* position and speed come from its terms, if it has them; the end of a sentence that fills
\* it is the only write past the buffers; and a number that a long holds is converted to
\* its value.
DecodedSound ==
  part = "decoder" => /\ ND!ChecksumRight
                      /\ ND!TermsAreSplit
                      /\ ND!RmcIsThis
                      /\ ND!OneBytePast
                      /\ ND!DecimalIsValue

\* Adafruit_GPS: a line parsed before the next but one arrives is as it was received,
\* and the status that is taken apart is the answer waited for. SoftwareSerial: bytes
\* are kept in the order they arrived in, for the port that listens, and read returns
\* the oldest byte kept, also when one arrives meanwhile.
ReceivedInOrder ==
  /\ part = "adafruit" => AG!ParsedAsRead /\ AG!StatusIsAnswer
  /\ part = "serialPort" => SS!BytesInOrder /\ SS!ReadIsOldest

\* Visualizer: also when it is drawn while it changes, the track never goes back to older
\* points, but for the corner of the picture; between lines the picture has the last points
\* but the newest, in order; and a gate mixes the numbers of two lines only because of a
\* damaged line.
PictureTrue ==
  part = "visualizer" => VZ!ShownInOrder /\ VZ!TrackIsRecent /\ VZ!TornByDamage
=============================================================================
