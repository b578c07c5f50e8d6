------------------------------- MODULE Logger -------------------------------
(***************************************************************************)
(* GPS_logger: setup() picks a name for the log on the SD card, loop()     *)
(* waits for a fix, or for the button, and appends every line that parses. *)
(* The card library is external: open with FILE_WRITE creates or appends,  *)
(* write goes to a cache and only a flush makes it part of the file; a     *)
(* write that meets a full card or an error of the card returns 0.         *)
(* A line is tagged with the start of the program that wrote it.           *)
(***************************************************************************)
EXTENDS Integers, Sequences, SequencesExt, FiniteSetsExt

CONSTANTS
  MaxLogs,    \* names GPSLOG00 ..: 100
  MaxStarts,  \* bound on the starts of the program
  MaxLines    \* bound on the lines of one start

Logs == 0 .. MaxLogs - 1

VARIABLES
  pc,       \* "off", "on", or "undefined": see SetupFails
  start,    \* the number of this start
  exists,   \* the names on the card
  stored,   \* the lines a reader of the card finds in each file
  logfile,  \* the open file
  cache,    \* lines written to it since the last flush
  count,    \* lines of this start
  panel     \* the state machine of loop(), the receiver's fix and the two lights

vars == <<pc, start, exists, stored, logfile, cache, count, panel>>

-----------------------------------------------------------------------------
\* Mutated form of LogName: the search gives up one name early.
LogNameEarly ==
  LET free == {i \in Logs : i \notin exists /\ i < MaxLogs - 1}
  IN  IF free = {} THEN MaxLogs - 2 ELSE Min(free)

\* The name that is left in the variable filename by the loop of setup(): the
\* first that does not exist, or the last one.
LogName ==
  LET free == Logs \ exists
  IN  IF free = {} THEN MaxLogs - 1 ELSE Min(free)

\* What loop() starts from: current_state (next_state is the same at the end of every
\* pass), the flags, the fix of the last GGA line, how both lights blink or shine, and
\* how often the receiver was told to send RMC lines only.
Booted == [current_state |-> "ST_RESET", bootFlag |-> FALSE, pbFlag |-> FALSE,
           fixquality |-> "INVALID", lights |-> "OFF", told |-> 0]

Init ==
  /\ pc = "off"
  /\ panel = Booted
  /\ start = 0
  /\ exists = {}
  /\ stored = [f \in Logs |-> << >>]
  /\ logfile = 0
  /\ cache = << >>
  /\ count = 0

\* Mutated form of Open: the file is truncated.
OpenTruncates(f) ==
  /\ exists' = exists \cup {f}
  /\ stored' = [stored EXCEPT ![f] = << >>]

\* SD.open(filename, FILE_WRITE)
Open(f) ==
  /\ exists' = exists \cup {f}
  /\ UNCHANGED stored

Setup ==
  /\ pc = "off" /\ start < MaxStarts
  /\ pc' = "on"
  /\ start' = start + 1
  /\ logfile' = LogName
  /\ Open(LogName)
  /\ cache' = << >>
  /\ count' = 0
  /\ panel' = Booted

\* There is no card, or it does not answer: open fails and setup() returns
\* before it has filled myLEDs, whose elements loop() then uses.
SetupFails ==
  /\ pc = "off" /\ start < MaxStarts
  /\ pc' = "undefined"
  /\ start' = start + 1
  /\ UNCHANGED <<exists, stored, logfile, cache, count, panel>>

\* The cache and the size of the file go to the card.
Flush == /\ stored' = [stored EXCEPT ![logfile] = @ \o cache]
         /\ cache' = << >>

\* interruptPB, after the time in which a press counts as a bounce of the last one.
Press ==
  /\ pc = "on"
  /\ panel' = [panel EXCEPT !.pbFlag = TRUE]
  /\ UNCHANGED <<pc, start, exists, stored, logfile, cache, count>>

\* Mutated form of StartService: the state is not changed.
StartServiceStays ==
  /\ pc = "on" /\ panel.current_state = "ST_RESET" /\ ~panel.bootFlag
  /\ panel' = [panel EXCEPT !.bootFlag = TRUE, !.pbFlag = FALSE, !.lights = "YELLOW"]
  /\ UNCHANGED <<pc, start, exists, stored, logfile, cache, count>>

\* The first pass of loop() finds the button held: it waits for the release, and logs
\* what the receiver sends by itself.
StartService ==
  /\ pc = "on" /\ panel.current_state = "ST_RESET" /\ ~panel.bootFlag
  /\ panel' = [panel EXCEPT !.current_state = "ST_RACE", !.bootFlag = TRUE, !.pbFlag = FALSE,
                            !.lights = "YELLOW"]
  /\ UNCHANGED <<pc, start, exists, stored, logfile, cache, count>>

\* A pass in ST_RESET: the lights show the fix; a fix of the better kind, or any fix and
\* the button, asks the receiver for RMC lines only.
WaitForFix ==
  LET go == \/ panel.fixquality = "DGPS_FIX"
            \/ panel.fixquality = "GPS_FIX" /\ panel.pbFlag
      seen == [panel EXCEPT !.bootFlag = TRUE]
  IN  /\ pc = "on" /\ panel.current_state = "ST_RESET"
      /\ panel' =
           IF go
           THEN [seen EXCEPT !.current_state = "ST_RACE", !.lights = "blinks GREEN",
                             !.told = panel.told + 1,
                             !.pbFlag = panel.pbFlag /\ panel.fixquality = "DGPS_FIX"]
           ELSE [seen EXCEPT !.lights = IF panel.fixquality = "INVALID" THEN "blinks RED"
                                        ELSE "blinks YELLOW"]
      /\ UNCHANGED <<pc, start, exists, stored, logfile, cache, count>>

\* parse: a GGA line brings a new fix.
Parsed(type) ==
  \E fix \in {"INVALID", "GPS_FIX", "DGPS_FIX"} :
    panel' = IF type = "GGA" THEN [panel EXCEPT !.fixquality = fix] ELSE panel

\* A line that parses is written ...
LogLine(type) ==
  /\ pc = "on" /\ count < MaxLines
  /\ count' = count + 1
  /\ Parsed(type)
  /\ cache' = Append(cache, <<start, type>>)
  /\ UNCHANGED <<pc, start, exists, stored, logfile>>

\* ... or the write comes out short.  The test for an RMC line, and with it the
\* flush, is the body of the test for a short write.
ShortWrite(type) ==
  /\ pc = "on" /\ count < MaxLines
  /\ count' = count + 1
  /\ Parsed(type)
  /\ IF type = "RMC" THEN Flush ELSE UNCHANGED <<stored, cache>>
  /\ UNCHANGED <<pc, start, exists, logfile>>

\* The power fails: what is in the cache is lost.
PowerOff ==
  /\ pc # "off"
  /\ pc' = "off"
  /\ cache' = << >>
  /\ UNCHANGED <<start, exists, stored, logfile, count, panel>>

\* The device stays switched off, or nothing more arrives.
Idle == UNCHANGED vars

Next ==
  \/ Setup \/ SetupFails \/ PowerOff \/ Idle
  \/ Press \/ StartService \/ WaitForFix
  \/ \E type \in {"GGA", "RMC"} : LogLine(type) \/ ShortWrite(type)

Spec == Init /\ [][Next]_vars

-----------------------------------------------------------------------------
Starts(f) == {stored[f][i][1] : i \in DOMAIN stored[f]}

\* Every log but the last name's is of one start of the program, through power
\* failures and failed writes; in the last one later starts follow earlier ones.
OneStartPerLog ==
  \A f \in Logs :
    IF f = MaxLogs - 1
    THEN \A i, j \in DOMAIN stored[f] : i < j => stored[f][i][1] <= stored[f][j][1]
    ELSE \A s, t \in Starts(f) : s = t

\* The program never takes a line off the card that was once readable on it.
LogsOnlyGrowStep == \A f \in Logs : IsPrefix(stored[f], stored'[f])
LogsOnlyGrow == [][LogsOnlyGrowStep]_vars

\* The receiver is told once, and before the lights blink green, to send RMC lines only;
\* started with the button held, the logger leaves the receiver as it is (loop).
GreenIsTold ==
  pc = "on" => /\ panel.told = IF panel.lights = "blinks GREEN" THEN 1 ELSE 0
               /\ panel.current_state = "ST_RACE" <=> panel.lights \in {"blinks GREEN", "YELLOW"}

\* GPS_logger.ino:71, "write, sync after write": a line that was written is on
\* the card.
SyncAfterWrite == cache = << >>
=============================================================================
