---------------------------- MODULE LiquidCrystal ----------------------------
(***************************************************************************)
(* libraries/LiquidCrystal: the driver of a character display (HD44780).   *)
(* Every call ends in pulses of the enable line, each with four or eight   *)
(* data lines.  The board may be reset between any two pulses; the display *)
(* is not reset with it, and may have taken half a byte.                   *)
(*                                                                         *)
(* The delays of the driver are longer than the display needs, so that the *)
(* display has finished with a pulse when the next one comes.              *)
(***************************************************************************)
EXTENDS Integers, Sequences, FiniteSets

CONSTANTS
  Lines,       \* arguments of begin
  Cursors,     \* <<col, row>> arguments of setCursor
  Glyphs,      \* arguments of createChar, from 0 .. 7
  MaxCalls     \* bound: calls and resets

LCD_FUNCTIONSET == 32
LCD_8BITMODE == 16
LCD_2LINE == 8
LCD_5x10DOTS == 4
Text == 65           \* the character printed: no row of a glyph

VARIABLES
  lcd,        \* the driver: eight, twoLine, tall (of _displayfunction), numlines,
              \* control and mode: the flags that are set
  pulses,     \* the enable pulses still to come: [rs, v]
  panel,      \* the display: eight, half (a nibble or -1), twoLine, tall, control, mode, ram, addr
  cgram,      \* the glyph memory of the display
  holds,      \* history: the glyphs stored since the last reset that nothing was written over
  lcdCalls    \* bounded by MaxCalls

lcdVars == <<lcd, pulses, panel, cgram, holds, lcdCalls>>

-----------------------------------------------------------------------------
(* The display *)

\* Bit b (a power of two) of v.
Bit(v, b) == (v \div b) % 2 = 1
Flags(v) == {b \in {1, 2, 4} : Bit(v, b)}

\* An instruction: the leading one selects it.  Shifts of the display are of no concern here.
Instruct(p, v) ==
  CASE v >= 128 -> [p EXCEPT !.ram = "text", !.addr = v - 128]
    [] v \in 64 .. 127 -> [p EXCEPT !.ram = "glyph", !.addr = v - 64]
    [] v \in 32 .. 63 -> [p EXCEPT !.eight = Bit(v, 16), !.twoLine = Bit(v, 8), !.tall = Bit(v, 4)]
    [] v \in 16 .. 31 -> p
    [] v \in 8 .. 15 -> [p EXCEPT !.control = Flags(v)]
    [] v \in 4 .. 7 -> [p EXCEPT !.mode = Flags(v) \ {4}]
    [] v \in 2 .. 3 -> [p EXCEPT !.ram = "text", !.addr = 0]
    [] v = 1 -> [p EXCEPT !.ram = "text", !.addr = 0, !.mode = @ \cup {2}]
    [] OTHER -> p

\* A byte of data: the address moves as the entry mode says.
Stored(p) == [p EXCEPT !.addr = IF 2 \in p.mode THEN (@ + 1) % 128 ELSE (@ - 1) % 128]

\* What a pulse does.  With four wires a display in eight bit mode sees the low half as 0.
\* A byte that is not whole yet has rs = -1.
Arrives(e) ==
  IF panel.eight THEN [rs |-> e.rs, v |-> IF lcd.eight THEN e.v ELSE 16 * e.v]
  ELSE IF panel.half = -1 THEN [rs |-> -1, v |-> e.v]
  ELSE [rs |-> e.rs, v |-> 16 * panel.half + e.v]

\* digitalWrite of the data lines and pulseEnable.
pulseEnable ==
  /\ pulses # <<>>
  /\ pulses' = Tail(pulses)
  /\ \E b \in {Arrives(Head(pulses))} :
       /\ panel' = CASE b.rs = -1 -> [panel EXCEPT !.half = b.v]
                     [] b.rs = 0 -> Instruct([panel EXCEPT !.half = -1], b.v)
                     [] b.rs = 1 -> Stored([panel EXCEPT !.half = -1])
       /\ cgram' = IF b.rs = 1 /\ panel.ram = "glyph"
                   THEN [cgram EXCEPT ![panel.addr % 64] = b.v] ELSE cgram
  /\ UNCHANGED <<lcd, holds, lcdCalls>>

-----------------------------------------------------------------------------
(* The driver *)

write8bits(rs, v) == <<[rs |-> rs, v |-> v]>>
write4bits(rs, v) == <<[rs |-> rs, v |-> v % 16]>>

send(l, v, rs) == IF l.eight THEN write8bits(rs, v) ELSE write4bits(rs, v \div 16) \o write4bits(rs, v)

command(l, v) == send(l, v, 0)
write(l, v) == send(l, v, 1)

Sum(flags) == (IF 1 \in flags THEN 1 ELSE 0) + (IF 2 \in flags THEN 2 ELSE 0) + (IF 4 \in flags THEN 4 ELSE 0)
DisplayControl(l) == command(l, 8 + Sum(l.control))
EntryModeSet(l) == command(l, 4 + Sum(l.mode))
FunctionSet(l) ==
  command(l, LCD_FUNCTIONSET + (IF l.eight THEN LCD_8BITMODE ELSE 0) + (IF l.twoLine THEN LCD_2LINE ELSE 0)
             + (IF l.tall THEN LCD_5x10DOTS ELSE 0))

\* Mutated form of Synchronise: the eight bit mode is asked for twice, not three times.
SynchroniseTwice(l) ==
  IF l.eight THEN FunctionSet(l) \o FunctionSet(l) \o FunctionSet(l)
  ELSE write4bits(0, 3) \o write4bits(0, 3) \o write4bits(0, 2)

\* The first part of begin: whatever state the display is in, to eight bits, then to four.
Synchronise(l) ==
  IF l.eight THEN FunctionSet(l) \o FunctionSet(l) \o FunctionSet(l)
  ELSE write4bits(0, 3) \o write4bits(0, 3) \o write4bits(0, 3) \o write4bits(0, 2)

\* Mutated form of Configure: the entry mode is left to the power-on default of the display.
ConfigureNoEntry(l) == FunctionSet(l) \o DisplayControl(l) \o command(l, 1)

\* The second part: lines and font, display on, clear, text to the right.
Configure(l) == FunctionSet(l) \o DisplayControl(l) \o command(l, 1) \o EntryModeSet(l)

\* begin: the two-line and tall flags are set and never cleared.
Begun(l, lines, tall) ==
  [l EXCEPT !.twoLine = @ \/ lines > 1, !.tall = @ \/ (tall /\ lines = 1), !.numlines = lines,
            !.control = {4}, !.mode = {2}]

Start(l) == lcd' = l /\ pulses' = Synchronise(l) \o Configure(l)

\* init, from the constructors: begin(16, 1).
Constructed(eight) ==
  Begun([eight |-> eight, twoLine |-> FALSE, tall |-> FALSE, numlines |-> 0, control |-> {}, mode |-> {}], 1, FALSE)

\* The display powers on in eight bit mode, text to the right.
Init ==
  /\ \E eight \in BOOLEAN :
       /\ lcd = Constructed(eight)
       /\ pulses = Synchronise(lcd) \o Configure(lcd)
  /\ panel = [eight |-> TRUE, half |-> -1, twoLine |-> FALSE, tall |-> FALSE, control |-> {}, mode |-> {2},
              ram |-> "text", addr |-> 0]
  /\ cgram = [a \in 0 .. 63 |-> 0]
  /\ holds = {} /\ lcdCalls = 0

Call == lcdCalls < MaxCalls /\ lcdCalls' = lcdCalls + 1

\* The board is reset: the sketch constructs its display again.
Reset == Call /\ Start(Constructed(lcd.eight)) /\ holds' = {} /\ UNCHANGED <<panel, cgram>>

Calls(l, sent) == Call /\ pulses = <<>> /\ lcd' = l /\ pulses' = sent /\ UNCHANGED <<panel, cgram>>

begin(lines, tall) == Call /\ pulses = <<>> /\ Start(Begun(lcd, lines, tall)) /\ UNCHANGED <<panel, cgram, holds>>

clear == Calls(lcd, command(lcd, 1)) /\ UNCHANGED holds
home == Calls(lcd, command(lcd, 2)) /\ UNCHANGED holds

row_offsets == <<0, 64, 20, 84>>

setCursor(col, row) ==
  LET r == IF row >= lcd.numlines THEN lcd.numlines - 1 ELSE row
  IN  Calls(lcd, command(lcd, 128 + ((col + row_offsets[r + 1]) % 128))) /\ UNCHANGED holds

\* display/noDisplay (4), cursor/noCursor (2), blink/noBlink (1)
setControl(flag, on) ==
  \E l \in {[lcd EXCEPT !.control = IF on THEN @ \cup {flag} ELSE @ \ {flag}]} :
    Calls(l, DisplayControl(l)) /\ UNCHANGED holds

\* leftToRight/rightToLeft (2), autoscroll/noAutoscroll (1)
setMode(flag, on) ==
  \E l \in {[lcd EXCEPT !.mode = IF on THEN @ \cup {flag} ELSE @ \ {flag}]} :
    Calls(l, EntryModeSet(l)) /\ UNCHANGED holds

scrollDisplay(right) == Calls(lcd, command(lcd, 24 + (IF right THEN 4 ELSE 0))) /\ UNCHANGED holds

\* Mutated form of GlyphAddress: a glyph is one byte apart from the next.
GlyphAddressPlain(location) == 64 + location

GlyphAddress(location) == 64 + 8 * location

\* The eight rows of a glyph; row i of location g is the byte 8g + i + 1.
Row(g, i) == 8 * g + i + 1

\* createChar leaves the address in the glyph memory, and the rows go downwards when text
\* runs to the left: only rows written upwards are a glyph, and the others spoil glyphs.
createChar(g) ==
  LET rows == [i \in 1 .. 8 |-> write(lcd, Row(g, i - 1))]
  IN  /\ Calls(lcd, command(lcd, GlyphAddress(g))
                    \o rows[1] \o rows[2] \o rows[3] \o rows[4] \o rows[5] \o rows[6] \o rows[7] \o rows[8])
      /\ holds' = IF 2 \in lcd.mode THEN holds \cup {g} ELSE {}

print == Calls(lcd, write(lcd, Text)) /\ holds' = IF panel.ram = "glyph" THEN {} ELSE holds

Next ==
  \/ pulseEnable \/ Reset
  \/ \E n \in Lines, t \in BOOLEAN : begin(n, t)
  \/ clear \/ home \/ print
  \/ \E c \in Cursors : setCursor(c[1], c[2])
  \/ \E f \in {1, 2, 4}, on \in BOOLEAN : setControl(f, on)
  \/ \E f \in {1, 2}, on \in BOOLEAN : setMode(f, on)
  \/ \E right \in BOOLEAN : scrollDisplay(right)
  \/ \E g \in Glyphs : createChar(g)

Spec == Init /\ [][Next]_lcdVars
-----------------------------------------------------------------------------
\* Between calls the display has taken whole bytes and its interface is as wide as the
\* driver's, also after a reset that came in the middle of a byte (begin's "we start in
\* 8bit mode, try to set 4 bit mode").
Synchronised == pulses = <<>> => panel.eight = lcd.eight /\ panel.half = -1

\* Between calls the display has the lines, the font, the display control and the entry
\* mode that the driver keeps for its next command, whatever they were before a reset;
\* except that clear makes text run to the right again in the display while _displaymode
\* still says left.
SettingsAgree ==
  pulses = <<>> => /\ panel.twoLine = lcd.twoLine /\ panel.tall = lcd.tall
                   /\ panel.control = lcd.control
                   /\ panel.mode \in {lcd.mode, lcd.mode \cup {2}}

\* A stored glyph stays whole while others are stored and text is written, as long as text
\* is only written with the address in the text memory (createChar, setCursor).
GlyphsIntact ==
  pulses = <<>> => \A g \in holds, i \in 0 .. 7 : cgram[8 * g + i] = Row(g, i)
=============================================================================
