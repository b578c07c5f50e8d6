----------------------------- MODULE NMEAReader -----------------------------
(***************************************************************************)
(* The line reader of libraries/SPK_GPS: read() takes one byte from the    *)
(* UART into one of two line buffers, newNMEAreceived() and lastNMEA()     *)
(* hand a finished line to the program, parse() looks for a checksum       *)
(* first; pause, standby, wakeup and waitForSentence are the other calls.  *)
(*                                                                         *)
(* The UART's interrupt fills its queue at any time and drops what does    *)
(* not fit.  What arrives is any stream of bytes: a sentence with bytes    *)
(* lost or changed on the wire is one of them.  Of a checksum the lowest   *)
(* bit is kept: among the characters used here only "1" has it set.        *)
(***************************************************************************)
EXTENDS Integers, Sequences, FiniteSets, SequencesExt

CONSTANTS
  Chars,            \* the bytes that may arrive
  MAXLINELENGTH,    \* 120
  MAXWAITSENTENCE,  \* 5
  RxSize,           \* capacity of the UART's queue
  Endless,          \* TRUE: bytes arrive for ever; FALSE: at most MaxBytes
  MaxBytes

NUL   == "NUL"
Cells == 0 .. MAXLINELENGTH - 1

\* The line that wakeup() waits for, by its first character.
PMTK_AWAKE == <<"$">>

VARIABLES
  rx, bytes,              \* the UART's queue; how many bytes have arrived
  lines,                  \* line1 and line2
  currentline, lastline,  \* which of them is being filled, which is finished
  lineidx, recvdflag, paused, inStandbyMode,
  pc,                     \* "read", "check", "wait" in waitForSentence, "hung"
  waited,                 \* its loop counter
  \* history: the bytes of the line so far and of the finished one, the lines
  \* finished and not yet taken, and what the checksum test of the last one said
  text, ended, pending, verdict

buffers == <<lines, currentline, lastline, lineidx>>
flags   == <<paused, inStandbyMode>>
uart    == <<rx, bytes>>
vars    == <<uart, buffers, recvdflag, flags, pc, waited,
             text, ended, pending, verdict>>

-----------------------------------------------------------------------------
\* The C string in a buffer
StringOf(buf) ==
  LET n == CHOOSE n \in 0 .. MAXLINELENGTH :
             /\ n = MAXLINELENGTH \/ buf[n] = NUL
             /\ \A k \in 0 .. n - 1 : buf[k] # NUL
  IN  [k \in 1 .. n |-> buf[k - 1]]

\* The lowest bit of a character and of a hexadecimal digit
Bit(c) == IF c = "1" THEN 1 ELSE 0

\* The lowest bit of the XOR of the characters from..to of s
BitSum(s, from, to) == Cardinality({i \in from .. to : Bit(s[i]) = 1}) % 2

\* Mutated form of Checksum: the star is looked for where it is, but the digits
\* are not.
ChecksumHalfMoved(s) ==
  LET n == Len(s)
  IN  IF n < 4 \/ s[n - 2] # "*" THEN {"goes on"}
      ELSE IF BitSum(s, 2, n - 3) = Bit(s[n - 2]) THEN {"goes on"} ELSE {"refused"}

\* The first part of parse: nmea[strlen(nmea)-4], the star of a line that still
\* has its '\r'.  On a line of less than four characters that index lies before
\* the buffer; should a star be found there, the loop over the characters has a
\* bound that its uint8_t counter never reaches.
Checksum(s) ==
  LET n == Len(s)
  IN  CASE n < 4 -> {"goes on", "hung"}
        [] n >= 4 /\ s[n - 3] # "*" -> {"goes on"}
        [] OTHER -> IF BitSum(s, 2, n - 4) = Bit(s[n - 1])
                    THEN {"goes on"} ELSE {"refused"}

\* strstr on the first 19 characters, those waitForSentence copies
Holds(s, w) ==
  \E i \in 1 .. Len(s) - Len(w) + 1 :
    i + Len(w) - 1 <= 19 /\ SubSeq(s, i, i + Len(w) - 1) = w

-----------------------------------------------------------------------------
\* common_init, on static buffers
Init ==
  /\ rx = << >> /\ bytes = 0
  /\ lines = [b \in {1, 2} |-> [k \in Cells |-> NUL]]
  /\ currentline = 1 /\ lastline = 2
  /\ lineidx = 0
  /\ recvdflag = FALSE
  /\ paused = FALSE /\ inStandbyMode = FALSE
  /\ pc = "read" /\ waited = 0
  /\ text = << >> /\ ended = << >> /\ pending = 0 /\ verdict = "none"

\* The UART's interrupt
Arrive(c) ==
  /\ Endless \/ bytes < MaxBytes
  /\ bytes' = IF Endless THEN bytes ELSE bytes + 1
  /\ rx' = IF Len(rx) < RxSize THEN Append(rx, c) ELSE rx
  /\ UNCHANGED <<buffers, recvdflag, flags, pc, waited, text, ended, pending, verdict>>

\* read() returns 0
ReadNothing ==
  /\ pc = "read"
  /\ paused \/ rx = << >>
  /\ pc' = "check"
  /\ UNCHANGED <<uart, buffers, recvdflag, flags, waited, text, ended, pending, verdict>>

\* The last cell is filled again and again by a line that is too long.
Capped(i) == IF i >= MAXLINELENGTH THEN MAXLINELENGTH - 1 ELSE i

\* Mutated form of StoreByte: a dollar sign does not start a line.
StoreByteRunsOn(c) ==
  /\ lines' = [lines EXCEPT ![currentline][lineidx] = c]
  /\ lineidx' = Capped(lineidx + 1)
  /\ UNCHANGED <<currentline, lastline, recvdflag>>

\* The branches of read() for an ordinary byte and for a dollar sign, which
\* gives up the line begun ...
StoreByte(c) ==
  LET i == IF c = "$" THEN 0 ELSE lineidx
      b == IF c = "$" THEN [lines EXCEPT ![currentline][lineidx] = NUL] ELSE lines
  IN  /\ lines' = [b EXCEPT ![currentline][i] = c]
      /\ lineidx' = Capped(i + 1)
      /\ UNCHANGED <<currentline, lastline, recvdflag>>

\* ... for the end of the line, which swaps the buffers ...
EndLine ==
  /\ lines' = [lines EXCEPT ![currentline][lineidx] = NUL]
  /\ currentline' = IF currentline = 1 THEN 2 ELSE 1
  /\ lastline' = currentline
  /\ lineidx' = 0
  /\ recvdflag' = TRUE

\* ... and for a carriage return, which is dropped.
Read ==
  /\ pc = "read"
  /\ ~paused /\ rx # << >>
  /\ LET c == Head(rx)
     IN  /\ \/ c = "CR" /\ UNCHANGED <<buffers, recvdflag>>
            \/ c = "LF" /\ EndLine
            \/ c \notin {"CR", "LF"} /\ StoreByte(c)
         /\ text' = IF c = "$" THEN <<"$">>
                    ELSE IF c = "LF" THEN << >>
                    ELSE IF c = "CR" \/ Len(text) = MAXLINELENGTH - 1 THEN text
                    ELSE Append(text, c)
         /\ ended' = IF c = "LF" THEN text ELSE ended
         /\ pending' = IF c = "LF" THEN pending + 1 ELSE pending
         /\ verdict' = IF c = "LF" THEN "none" ELSE verdict
  /\ rx' = Tail(rx)
  /\ pc' = "check"
  /\ UNCHANGED <<bytes, flags, waited>>

\* newNMEAreceived() returns false
CheckNothing ==
  /\ pc = "check" /\ ~recvdflag
  /\ pc' = "read"
  /\ UNCHANGED <<uart, buffers, recvdflag, flags, waited, text, ended, pending, verdict>>

\* Mutated form of LastNMEA: the flag stays up.
LastNMEAKeeps ==
  /\ pending' = pending - 1
  /\ UNCHANGED recvdflag

LastNMEA ==
  /\ recvdflag' = FALSE
  /\ pending' = pending - 1

\* parse(lastNMEA()), up to the end of the checksum test
TakeLine ==
  /\ pc = "check" /\ recvdflag
  /\ LastNMEA
  /\ verdict' \in Checksum(StringOf(lines[lastline]))
  /\ pc' = IF verdict' = "hung" THEN "hung" ELSE "read"
  /\ UNCHANGED <<uart, buffers, flags, waited, text, ended>>

\* Calls the program may make besides.
Pause(p) ==
  /\ pc = "check"
  /\ paused' = p
  /\ UNCHANGED <<uart, buffers, recvdflag, inStandbyMode, pc, waited,
                 text, ended, pending, verdict>>

Standby ==
  /\ pc = "check" /\ ~inStandbyMode
  /\ inStandbyMode' = TRUE
  /\ UNCHANGED <<uart, buffers, recvdflag, paused, pc, waited,
                 text, ended, pending, verdict>>

Wakeup ==
  /\ pc = "check" /\ inStandbyMode
  /\ inStandbyMode' = FALSE
  /\ pc' = "wait"
  /\ waited' = 0
  /\ UNCHANGED <<uart, buffers, recvdflag, paused, text, ended, pending, verdict>>

\* One pass of waitForSentence that finds a line.
WaitTake ==
  /\ pc = "wait" /\ recvdflag
  /\ LastNMEA
  /\ waited' = waited + 1
  /\ pc' = IF Holds(StringOf(lines[lastline]), PMTK_AWAKE) \/ waited' >= MAXWAITSENTENCE
           THEN "check" ELSE "wait"
  /\ UNCHANGED <<uart, buffers, flags, text, ended, verdict>>

\* A pass that finds none changes nothing: the loop does not call read().  Nor
\* does the endless loop over the characters of a short line.
Spin ==
  /\ pc = "hung" \/ (pc = "wait" /\ ~recvdflag)
  /\ UNCHANGED vars

Loop == ReadNothing \/ Read \/ CheckNothing \/ TakeLine \/ WaitTake \/ Spin

Next ==
  \/ Loop
  \/ \E c \in Chars : Arrive(c)
  \/ \E p \in BOOLEAN : Pause(p)
  \/ Standby \/ Wakeup

\* The program runs, and the receiver sends line after line.
Spec ==
  /\ Init /\ [][Next]_vars
  /\ WF_vars(Loop)
  /\ \A c \in Chars : WF_vars(Arrive(c))

-----------------------------------------------------------------------------
\* The line that is handed over is what arrived since the last dollar sign or
\* line end, without carriage returns, cut to the length of the buffer: nothing
\* of an earlier, longer line and nothing of a line that lost its end.
LineAsReceived == StringOf(lines[lastline]) = ended

\* Every finished line is taken exactly once, and before the next byte is read:
\* the buffer under it is not filled again while the program looks at it.
EachLineOnce ==
  /\ pending = IF recvdflag THEN 1 ELSE 0
  /\ pc = "read" => pending = 0

\* A line with a checksum: a star and two digits at its end, and no other star.
HasChecksum(s) ==
  Len(s) >= 4 /\ {i \in DOMAIN s : s[i] = "*"} = {Len(s) - 2}

SumMatches(s) == BitSum(s, 2, Len(s) - 3) = Bit(s[Len(s)])

\* A line whose checksum is right is not refused.
GoodLinesPass ==
  verdict = "refused" => ~(HasChecksum(ended) /\ SumMatches(ended))

\* SPK_GPS.cpp:31-45, "do checksum check ... bad checksum :( return false": a
\* line whose checksum is wrong is refused.
BadChecksumRefused ==
  verdict = "goes on" /\ HasChecksum(ended) => SumMatches(ended)

\* SPK_GPS.h:76, "how long to wait when we're looking for a response": the wait
\* of wakeup() ends, after MAXWAITSENTENCE lines at the latest.
WaitEnds == pc = "wait" ~> pc # "wait"
=============================================================================
