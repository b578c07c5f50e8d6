----------------------------- MODULE NMEAParser -----------------------------
(***************************************************************************)
(* The second part of SPK_GPS::parse, behind the checksum test, and of the *)
(* Adafruit_GPS::parse it is derived from: a GGA or an RMC line is walked  *)
(* field by field, each one is written into the receiver's variables as it *)
(* is met, and a field of a wrong kind ends the walk with what was written *)
(* before it in place.                                                     *)
(*                                                                         *)
(* Instead of its value a variable holds the number of the sentence it     *)
(* came from.  Fields are counted by the commas before them.  A line cut   *)
(* short runs out of commas: strchr returns NULL and the walk goes on in   *)
(* low memory, so what follows is Junk and a test there may go either way. *)
(***************************************************************************)
EXTENDS Integers, FiniteSets, FiniteSetsExt

CONSTANTS
  MaxSentences,  \* bound on the sentences parsed
  Cuts           \* numbers of fields of a line that is cut short

Types == {"GGA", "RMC"}
Junk  == -1

\* The fields that end the walk when they are of a wrong kind: the hemisphere
\* of the longitude; of an RMC line also the status and the other hemisphere.
Tests == [GGA |-> {5}, RMC |-> {2, 4, 6}]

LastField == [GGA |-> 11, RMC |-> 9]

\* The field each variable is read from.  The hemispheres only give a sign.
SpkLayout ==
  [GGA |-> [milliseconds |-> 1, latitude |-> 2, longitude |-> 4, fixquality |-> 6,
            satellites |-> 7, HDOP |-> 8, altitude |-> 9, geoidheight |-> 11],
   RMC |-> [milliseconds |-> 1, fix |-> 2, latitude |-> 3, longitude |-> 5,
            speed |-> 7, angle |-> 8, date |-> 9]]

\* Adafruit_GPS takes the time from GGA lines only.
AdafruitLayout ==
  [GGA |-> [milliseconds |-> 1, latitude |-> 2, longitude |-> 4, fixquality |-> 6,
            satellites |-> 7, HDOP |-> 8, altitude |-> 9, geoidheight |-> 11],
   RMC |-> [fix |-> 2, latitude |-> 3, longitude |-> 5, speed |-> 7, angle |-> 8, date |-> 9]]

Fields == UNION {DOMAIN SpkLayout[t] : t \in Types}

\* A sentence: its kind, how many of its fields there are, and which of its
\* tested fields are of a wrong kind.
Sentences ==
  {s \in [type : Types, n : Cuts \cup {LastField[t] : t \in Types},
          wrong : SUBSET UNION {Tests[t] : t \in Types}] :
     /\ s.n <= LastField[s.type]
     /\ s.wrong \subseteq {k \in Tests[s.type] : k <= s.n}}

VARIABLES
  library,   \* whose parse it is
  gps,       \* the receiver's variables
  old,       \* lat_old and long_old (SPK_GPS)
  fixFlag,   \* the value of fix
  count,     \* sentences so far
  whole,     \* history: those that had all their fields ...
  accepted,  \* ... and those that parse accepted
  point      \* the last track point: its sentence, and where its values are from

vars == <<library, gps, old, fixFlag, count, whole, accepted, point>>

-----------------------------------------------------------------------------
Layout == IF library = "SPK_GPS" THEN SpkLayout ELSE AdafruitLayout

\* Mutated form of Verdict: the walk ends with return true.
VerdictTrue(bad) == TRUE

\* parse returns true when no test failed.
Verdict(bad) == bad = {}

\* Mutated form of Written: the fields after the failed test are read as well.
WrittenAll(s, bad) == DOMAIN Layout[s.type]

\* The variables written: all of them, or those before the first failed test.
Written(s, bad) ==
  {f \in DOMAIN Layout[s.type] : bad = {} \/ Layout[s.type][f] < Min(bad)}

\* The receiver's variables after sentence number c.
Walk(s, bad, c) ==
  [f \in Fields |-> IF f \notin Written(s, bad) THEN gps[f]
                    ELSE IF Layout[s.type][f] <= s.n THEN c ELSE Junk]

NoPoint == [sentence |-> 0, latitude |-> 0, longitude |-> 0, speed |-> 0]

Init ==
  /\ library \in {"SPK_GPS", "Adafruit_GPS"}
  /\ gps = [f \in Fields |-> 0]
  /\ old = <<0, 0>>
  /\ fixFlag = FALSE
  /\ count = 0
  /\ whole = {} /\ accepted = {}
  /\ point = NoPoint

\* parse, and what the tracker does with its result: a point of the track when
\* the line was accepted and the fix flag is set.
Parse(s, bad, valid) ==
  /\ count < MaxSentences
  /\ bad \cap 0 .. s.n = s.wrong
  /\ count' = count + 1
  /\ gps' = Walk(s, bad, count')
  /\ old' = IF s.type = "RMC" /\ library = "SPK_GPS" THEN <<gps.latitude, gps.longitude>> ELSE old
  /\ fixFlag' = IF "fix" \in Written(s, bad) THEN valid ELSE fixFlag
  /\ whole' = IF s.n = LastField[s.type] THEN whole \cup {count'} ELSE whole
  /\ accepted' = IF Verdict(bad) THEN accepted \cup {count'} ELSE accepted
  /\ point' = IF Verdict(bad) /\ fixFlag'
              THEN [sentence |-> count', latitude |-> gps'.latitude,
                    longitude |-> gps'.longitude, speed |-> gps'.speed]
              ELSE point
  /\ UNCHANGED library

\* A line that is neither kind: nothing is written, parse returns false.
ParseOther ==
  /\ count < MaxSentences
  /\ count' = count + 1
  /\ UNCHANGED <<library, gps, old, fixFlag, whole, accepted, point>>

\* A pass of the loop without a line.
NoNewLine == UNCHANGED vars

Next ==
  \/ ParseOther \/ NoNewLine
  \/ \E s \in Sentences, valid \in BOOLEAN :
       \E bad \in SUBSET Tests[s.type] : Parse(s, bad, valid)

Spec == Init /\ [][Next]_vars

-----------------------------------------------------------------------------
\* A point of the track is one place: its two coordinates are of the sentence
\* that made it, whatever refused lines have left in the receiver's variables;
\* only a line cut short can break that.
PointIsWhole ==
  point.sentence \in whole =>
    point.latitude = point.sentence /\ point.longitude = point.sentence

\* The values that decide - the speed that ends a race, the fix quality that
\* lets one start - are of accepted sentences, although refused ones leave
\* their time, fix flag and coordinates behind.
UsedIsAccepted ==
  {gps.speed, gps.fixquality} \subseteq accepted \cup {0, Junk}
=============================================================================
