----------------------------- MODULE AdafruitGPS -----------------------------
(***************************************************************************)
(* libraries/Adafruit_GPS: read() runs in a timer interrupt and fills two  *)
(* line buffers by turns; the program polls for a line, takes the buffer   *)
(* it is in and works on it while the next characters arrive.  The logger  *)
(* calls (LOCUS) send a command and look for its answer among the lines.   *)
(*                                                                         *)
(* A character is the number of its line and its place in it; place 1 is   *)
(* the dollar, and two characters are enough to tell the kind of a line.   *)
(***************************************************************************)
EXTENDS Integers, Sequences

CONSTANTS
  LineLen,          \* characters of a line before its end
  MAXLINELENGTH,    \* 120
  MAXWAITSENTENCE,  \* 5
  CopyLen,          \* 19: the characters of a line that waitForSentence copies
  Kinds,            \* of lines: those of "log", "started" and "awake" answer commands
  MaxLines,         \* bound: lines sent by the receiver
  MaxLost           \* bound: characters lost on the way

Nul == [line |-> 0, at |-> 0]
Newline == [line |-> 0, at |-> -1]

VARIABLES
  uart,       \* the receiver's side: line (its number), kind of each line so far, at (characters sent), lost
  gpsIn,      \* read(): buf (two), cur, last, idx, recvd, paused
  prog,       \* the program: pc, ptr, wanted, tries, standby, answer
  heard,      \* history: arriving (the line as read so far), ended (the last one that ended),
              \* taken (the one ended when the program took a buffer), lag
  parsed      \* the last text that was parsed, and what it should have been

adaVars == <<uart, gpsIn, prog, heard, parsed>>

NoParse == [is |-> <<>>, should |-> <<>>]

Init ==
  /\ uart = [line |-> 0, kind |-> <<>>, at |-> 0, lost |-> 0]
  /\ gpsIn = [buf |-> [b \in 1 .. 2 |-> [i \in 1 .. MAXLINELENGTH |-> Nul]], cur |-> 1, last |-> 2, idx |-> 0,
              recvd |-> FALSE, paused |-> FALSE]
  /\ prog = [pc |-> "idle", ptr |-> 0, wanted |-> "fix", tries |-> 0, standby |-> FALSE]
  /\ heard = [arriving |-> <<>>, ended |-> <<>>, taken |-> <<>>, lag |-> 0]
  /\ parsed = NoParse

-----------------------------------------------------------------------------
(* The receiver sends lines; read() takes them. *)

\* A character goes to place idx + 1; the index stays below the end of the buffer.
Put(g, c) ==
  [g EXCEPT !.buf[g.cur][g.idx + 1] = c, !.idx = IF @ + 1 >= MAXLINELENGTH THEN MAXLINELENGTH - 1 ELSE @ + 1]
Terminated(g) == [g EXCEPT !.buf[g.cur][g.idx + 1] = Nul]

\* Mutated form of Swap: the buffer just filled is filled again.
SwapNot(g) == [g EXCEPT !.idx = 0, !.recvd = TRUE, !.last = g.cur]

Swap(g) == [g EXCEPT !.cur = 3 - g.cur, !.last = g.cur, !.idx = 0, !.recvd = TRUE]

Taken(g, c) ==
  CASE c = Newline -> Swap(Terminated(g))
    [] c # Newline /\ c.at = 1 -> Put([Terminated(g) EXCEPT !.idx = 0], c)
    [] OTHER -> Put(g, c)

\* The line as a reader with one long buffer would have it.
Capped(s, c) == IF Len(s) < MAXLINELENGTH - 1 THEN Append(s, c) ELSE s
Heard(c) ==
  CASE c = Newline -> [heard EXCEPT !.ended = heard.arriving, !.arriving = <<>>, !.lag = IF @ = 0 THEN 1 ELSE 2]
    [] OTHER -> [heard EXCEPT !.arriving = Capped(IF c.at = 1 THEN <<>> ELSE @, c), !.lag = IF @ = 0 THEN 0 ELSE 2]

\* The timer interrupt: read() with a character there.
read ==
  /\ ~gpsIn.paused
  /\ uart.line > 0 /\ uart.at <= LineLen
  /\ \E c \in {IF uart.at = LineLen THEN Newline ELSE [line |-> uart.line, at |-> uart.at + 1]} :
       gpsIn' = Taken(gpsIn, c) /\ heard' = Heard(c)
  /\ uart' = [uart EXCEPT !.at = @ + 1]
  /\ UNCHANGED <<prog, parsed>>

\* A line starts, after the one before; its kind is the receiver's choice.
NewLine(k) ==
  /\ uart.line < MaxLines /\ (uart.line > 0 => uart.at = LineLen + 1)
  /\ uart' = [uart EXCEPT !.line = @ + 1, !.kind = Append(@, k), !.at = 0]
  /\ UNCHANGED <<gpsIn, prog, heard, parsed>>

\* A character is lost on the line, the end of a line included.
Lose ==
  /\ uart.line > 0 /\ uart.at <= LineLen /\ uart.lost < MaxLost
  /\ uart' = [uart EXCEPT !.at = @ + 1, !.lost = @ + 1]
  /\ UNCHANGED <<gpsIn, prog, heard, parsed>>

-----------------------------------------------------------------------------
(* The program *)

\* The text in a buffer, up to its end.
Place(b) == CHOOSE i \in 1 .. MAXLINELENGTH : gpsIn.buf[b][i] = Nul /\ \A j \in 1 .. i - 1 : gpsIn.buf[b][j] # Nul
TextIn(b) ==
  IF \E i \in 1 .. MAXLINELENGTH : gpsIn.buf[b][i] = Nul
  THEN SubSeq(gpsIn.buf[b], 1, Place(b) - 1) ELSE gpsIn.buf[b]

\* strstr: the head of a line of kind k.
Contains(s, k) ==
  \E i \in 1 .. Len(s) - 1 : /\ s[i].at = 1 /\ s[i + 1].at = 2
                             /\ s[i].line = s[i + 1].line /\ uart.kind[s[i].line] = k

\* lastNMEA: the flag is cleared, then the buffer handed out; a line may end in between.
ClearFlag == gpsIn' = [gpsIn EXCEPT !.recvd = FALSE]
HandOut(pc) ==
  /\ prog' = [prog EXCEPT !.pc = pc, !.ptr = gpsIn.last]
  /\ heard' = [heard EXCEPT !.taken = heard.ended, !.lag = 0]
  /\ UNCHANGED <<uart, gpsIn>>

\* newNMEAreceived
poll ==
  /\ prog.pc = "idle" /\ gpsIn.recvd
  /\ ClearFlag
  /\ prog' = [prog EXCEPT !.pc = "last"] /\ parsed' = NoParse
  /\ UNCHANGED <<uart, heard>>

lastNMEA == prog.pc = "last" /\ HandOut("parse") /\ UNCHANGED parsed

\* The end of a parse, which has gone through the text in the buffer; what it does with the
\* text is in NMEAParser.
parse ==
  /\ prog.pc = "parse"
  /\ parsed' = IF heard.lag < 2 THEN [is |-> TextIn(prog.ptr), should |-> heard.taken] ELSE NoParse
  /\ prog' = [prog EXCEPT !.pc = "idle", !.ptr = 0]
  /\ UNCHANGED <<uart, gpsIn, heard>>

pause == prog.pc = "idle" /\ gpsIn' = [gpsIn EXCEPT !.paused = ~@] /\ UNCHANGED <<uart, prog, heard, parsed>>

\* sendCommand, and what each call waits for.
Waits(k) == prog' = [prog EXCEPT !.pc = "wait", !.wanted = k, !.tries = 0] /\ UNCHANGED <<uart, parsed>>

LOCUS_StartLogger ==
  /\ prog.pc = "idle" /\ Waits("started")
  /\ gpsIn' = [gpsIn EXCEPT !.recvd = FALSE] /\ UNCHANGED heard

LOCUS_ReadStatus == prog.pc = "idle" /\ Waits("log") /\ UNCHANGED <<gpsIn, heard>>

standby ==
  /\ prog.pc = "idle" /\ ~prog.standby
  /\ prog' = [prog EXCEPT !.standby = TRUE]
  /\ UNCHANGED <<uart, gpsIn, heard, parsed>>

wakeup ==
  /\ prog.pc = "idle" /\ prog.standby
  /\ prog' = [prog EXCEPT !.standby = FALSE, !.pc = "wait", !.wanted = "awake", !.tries = 0]
  /\ UNCHANGED <<uart, gpsIn, heard, parsed>>

\* Mutated form of Found: any line will do.
FoundAny(s, k) == s # <<>>

Found(s, k) == Contains(s, k)

\* A round of waitForSentence with a line there: the line is taken, its first characters are
\* copied, and looked at.
waitForSentence ==
  /\ prog.pc = "wait" /\ prog.tries < MAXWAITSENTENCE /\ gpsIn.recvd
  /\ ClearFlag
  /\ prog' = [prog EXCEPT !.pc = "waitLast"]
  /\ UNCHANGED <<uart, heard, parsed>>

waitTakes == prog.pc = "waitLast" /\ HandOut("copy") /\ UNCHANGED parsed

Copied(s) == IF Len(s) <= CopyLen THEN s ELSE SubSeq(s, 1, CopyLen)

waitLooks ==
  /\ prog.pc = "copy"
  /\ prog' = [prog EXCEPT !.tries = @ + 1, !.ptr = 0,
                          !.pc = IF ~Found(Copied(TextIn(prog.ptr)), prog.wanted) THEN "wait"
                                 ELSE IF prog.wanted = "log" THEN "status" ELSE "idle"]
  /\ UNCHANGED <<uart, gpsIn, heard, parsed>>

waitFails ==
  /\ prog.pc = "wait" /\ prog.tries = MAXWAITSENTENCE
  /\ prog' = [prog EXCEPT !.pc = "idle"]
  /\ UNCHANGED <<uart, gpsIn, heard, parsed>>

\* LOCUS_ReadStatus takes the last line again and reads the numbers from it.
statusClears ==
  /\ prog.pc = "status" /\ ClearFlag
  /\ prog' = [prog EXCEPT !.pc = "again"]
  /\ UNCHANGED <<uart, heard, parsed>>

\* By then it may be another line; what is read from that is not looked at.
statusTakes ==
  /\ prog.pc = "again"
  /\ prog' = IF heard.lag = 0 THEN [prog EXCEPT !.pc = "reads", !.ptr = gpsIn.last]
             ELSE [prog EXCEPT !.pc = "told"]
  /\ parsed' = NoParse
  /\ UNCHANGED <<uart, gpsIn, heard>>

readsStatus ==
  /\ prog.pc = "reads"
  /\ parsed' = IF heard.lag < 2 THEN [is |-> TextIn(prog.ptr), should |-> heard.taken] ELSE NoParse
  /\ prog' = [prog EXCEPT !.pc = "told", !.ptr = 0]
  /\ UNCHANGED <<uart, gpsIn, heard>>

returns ==
  /\ prog.pc = "told" /\ prog' = [prog EXCEPT !.pc = "idle"] /\ parsed' = NoParse
  /\ UNCHANGED <<uart, gpsIn, heard>>

Next ==
  \/ read \/ Lose \/ (\E k \in Kinds : NewLine(k))
  \/ poll \/ lastNMEA \/ parse \/ pause
  \/ LOCUS_StartLogger \/ LOCUS_ReadStatus \/ standby \/ wakeup
  \/ waitForSentence \/ waitTakes \/ waitLooks \/ waitFails
  \/ statusClears \/ statusTakes \/ readsStatus \/ returns

Spec == Init /\ [][Next]_adaVars
-----------------------------------------------------------------------------
\* The text a program parses is the line that had last ended when it was given the buffer, as
\* it was read, however many characters arrive meanwhile - up to the end of the next line.
\* From then on the buffer is being filled again, and nothing is claimed of a text parsed
\* later (read, lastNMEA).
ParsedAsRead == parsed.is = parsed.should

\* The status is read from a line that answers the query, unless another line ended between
\* the two looks LOCUS_ReadStatus takes at the last line, or two while it reads.
StatusIsAnswer == prog.pc = "told" /\ parsed # NoParse => Contains(parsed.is, "log")
=============================================================================
