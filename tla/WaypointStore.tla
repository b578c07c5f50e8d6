---------------------------- MODULE WaypointStore ----------------------------
(***************************************************************************)
(* storeWaypoints and loadWaypoints of libraries/SpeedFeed on the EEPROM   *)
(* behind EEPROMAnything: every value is written byte by byte, and the     *)
(* power may fail between any two of them.                                 *)
(*                                                                         *)
(* The marker and the count are written with the full size of an int, one  *)
(* byte apart, so each write runs over the place of the next one: the      *)
(* marker's zero bytes over the count, the count's over the first          *)
(* coordinate.  A course is a sequence of gates; a gate is a name.  A byte *)
(* of the header is a tuple <<n>>, byte j of coordinate k of gate g is     *)
(* <<g, k, j>>.  A byte is written whole or not at all.                    *)
(***************************************************************************)
EXTENDS Integers, Sequences, SequencesExt

CONSTANTS
  Gates,       \* names of gates
  Courses,     \* the courses that service mode may make
  MaxGates,    \* bound on the gates of a course
  IntSize,     \* sizeof(int) = sizeof(size_t): 4
  DoubleSize,  \* sizeof(double): 8
  ByteMod      \* values of a byte: 256

Marker == <<36>>             \* 0x24
Zero   == <<0>>
Blank  == <<ByteMod - 1>>    \* an erased byte; also what a silent read returns

Addresses == 0 .. 1 + IntSize + 4 * DoubleSize * MaxGates

VARIABLES
  power,    \* "off", "storing" in service mode, "loaded" otherwise
  eeprom,   \* the bytes of the device
  writes,   \* what is left to write: a sequence of pairs address, byte
  loaded,   \* what loadWaypoints put into the empty vector
  silent,   \* a read of that load found the device silent
  course,   \* the course that was stored last
  before,   \* the bytes of the device when that store began
  torn      \* the power failed during the last store

vars == <<power, eeprom, writes, loaded, silent, course, before, torn>>

-----------------------------------------------------------------------------
\* EEPROM_writeAnything at address a of a value with the given bytes
WriteAnything(a, bytes) == [i \in DOMAIN bytes |-> <<a + i - 1, bytes[i]>>]

\* An int, low byte first.
IntBytes(n) ==
  [i \in 1 .. IntSize |-> CASE i = 1 -> <<n % ByteMod>>
                            [] i = 2 -> <<n \div ByteMod>>
                            [] OTHER -> Zero]

\* Byte p of the gates of a course: coordinates come one after the other, each byte by byte.
GateByte(c, p) ==
  <<c[((p \div DoubleSize) \div 4) + 1], (p \div DoubleSize) % 4, (p % DoubleSize) + 1>>

\* The loop of storeWaypoints, from address 2 on
GateWrites(c) ==
  WriteAnything(2, [n \in 1 .. 4 * DoubleSize * Len(c) |-> GateByte(c, n - 1)])

MarkerWrite == WriteAnything(0, <<Marker>> \o [i \in 1 .. IntSize - 1 |-> Zero])

\* Mutated form of CourseWrites: the header is written after the gates.
HeaderLast(c) ==
  GateWrites(c) \o MarkerWrite \o WriteAnything(1, IntBytes(Len(c)))

\* Mutated form of CourseWrites: the count is kept up to date gate by gate.
CountPerGate(c) ==
  MarkerWrite
  \o FlattenSeq([n \in 1 .. Len(c) |->
       <<<<1, <<n % ByteMod>>>>>>
       \o SubSeq(GateWrites(c), 4 * DoubleSize * (n - 1) + 1, 4 * DoubleSize * n)])

\* Mutated form of CourseWrites: the vector is walked from its end.
FromTheEnd(c) ==
  MarkerWrite \o WriteAnything(1, IntBytes(Len(c))) \o GateWrites(Reverse(c))

\* storeWaypoints: the marker at 0, the count at 1, the gates from 2 on.
CourseWrites(c) ==
  MarkerWrite \o WriteAnything(1, IntBytes(Len(c))) \o GateWrites(c)

\* A gate read back from place i (from 0): its name if all four coordinates are
\* that gate's, else "mixed", a gate whose ends are not those of a stored gate.
GateAt(mem, i) ==
  LET IsGate(g) == \A k \in 0 .. 3, j \in 1 .. DoubleSize :
                     LET a == 2 + (4 * i + k) * DoubleSize + j - 1
                     IN  a \in DOMAIN mem /\ mem[a] = <<g, k, j>>
  IN  IF \E g \in Gates : IsGate(g) THEN CHOOSE g \in Gates : IsGate(g)
      ELSE "mixed"

\* loadWaypoints on the bytes mem: nothing without the marker, else as many
\* gates as the one byte of the count says.
LoadedCourse(mem) ==
  [i \in 1 .. (IF mem[0] = Marker THEN mem[1][1] ELSE 0) |-> GateAt(mem, i - 1)]

-----------------------------------------------------------------------------
Init ==
  /\ power = "off"
  /\ eeprom = [a \in Addresses |-> Blank]
  /\ writes = << >>
  /\ loaded = << >>
  /\ silent = FALSE
  /\ course = << >>
  /\ before = eeprom
  /\ torn = FALSE

\* A start in service mode, which reads nothing and, once per start, calls
\* storeWaypoints with the course it has made.
Store(c) ==
  /\ power = "off"
  /\ power' = "storing"
  /\ writes' = CourseWrites(c)
  /\ before' = eeprom
  /\ course' = c
  /\ torn' = FALSE
  /\ loaded' = << >>
  /\ UNCHANGED <<eeprom, silent>>

\* writeEEPROM: one byte, then five milliseconds of delay.
WriteByte ==
  /\ writes # << >>
  /\ eeprom' = [eeprom EXCEPT ![Head(writes)[1]] = Head(writes)[2]]
  /\ writes' = Tail(writes)
  /\ UNCHANGED <<power, loaded, silent, course, before, torn>>

\* The power goes: what has not been written is lost.
PowerOff ==
  /\ power # "off"
  /\ power' = "off"
  /\ torn' = (torn \/ writes # << >>)
  /\ writes' = << >>
  /\ loaded' = << >>
  /\ silent' = FALSE
  /\ UNCHANGED <<eeprom, course, before>>

\* A normal start: loadWaypoints.  readEEPROM returns 0xFF for a byte the device
\* does not answer for; at most one of the reads meets that.
Load ==
  /\ power = "off"
  /\ \E lost \in {{}} \cup {{a} : a \in Addresses} :
       /\ loaded' = LoadedCourse([a \in Addresses |->
                                    IF a \in lost THEN Blank ELSE eeprom[a]])
       /\ silent' = (lost # {})
  /\ power' = "loaded"
  /\ UNCHANGED <<eeprom, writes, course, before, torn>>

Next == WriteByte \/ PowerOff \/ Load \/ \E c \in Courses : Store(c)

Spec == Init /\ [][Next]_vars

-----------------------------------------------------------------------------
\* A course that was stored to the end comes back as it was, although the
\* header's values overlap each other and the first gate; of a course beyond
\* what a byte counts, only the remainder comes back.
RoundTrip ==
  power = "loaded" /\ ~torn /\ ~silent =>
    loaded = SubSeq(course, 1, Len(course) % ByteMod)

\* A store cut short leaves the old number of gates, none, or the new number:
\* never another one - but on a device that had no course, whose erased count
\* becomes the greatest one as soon as the marker is there.
TornCount ==
  power = "loaded" /\ torn /\ ~silent =>
    Len(loaded) \in {Len(LoadedCourse(before)), 0, Len(course) % ByteMod}
                    \cup (IF before[0] # Marker THEN {ByteMod - 1} ELSE {})

\* A whole gate of a torn course is the new course's gate of that place or the
\* one that stood there before.  The latter need not be of the last course: a
\* first torn store can hide a gate that a second one brings back.
TornGates ==
  power = "loaded" /\ torn /\ ~silent =>
    \A i \in DOMAIN loaded :
      loaded[i] # "mixed" =>
        \/ i <= Len(course) /\ loaded[i] = course[i]
        \/ loaded[i] = GateAt(before, i - 1)
=============================================================================
