------------------------------- MODULE Sd2Card -------------------------------
(***************************************************************************)
(* Sd2Card: the commands to an SD card on the SPI bus                      *)
(* (libraries/SD/utility/Sd2Card.cpp).  The host keeps chip select, and in *)
(* partial block mode a block it has read half of; the card keeps what it  *)
(* is doing.  A call is one action; every command may be refused or time   *)
(* out.  The card is external and modelled by what the calls rely on.      *)
(***************************************************************************)
EXTENDS Integers, Sequences

CONSTANTS
  Blocks,     \* block numbers
  BlockSize,  \* bytes of a block (512)
  Values      \* what a block may hold

VARIABLES
  chipSelect,                           \* TRUE: the line is low, the card listens
  inBlock, block, offset,               \* a block that is being read in parts
  partialBlockRead,
  type,                                 \* 0 before init, "SD1", "SD2", "SDHC"
  errorCode,
  cardMode,                             \* of the card: "reset", "idle", "sending", "multi"
  cardBlock, cardAt,                    \* the block, and the byte that comes next
  stored,                               \* what each block holds
  writing,                              \* the program is between writeStart and writeStop
  confused,                             \* a command was sent into a transfer
  cutOff,                               \* a block read in parts was deselected in the middle
  got, asked                            \* of the last read since init: what came, what was asked for

vars == <<chipSelect, inBlock, block, offset, partialBlockRead, type, errorCode,
          cardMode, cardBlock, cardAt, stored, writing, confused, cutOff, got, asked>>

host == <<chipSelect, inBlock, block, offset, partialBlockRead, type, errorCode>>

Init ==
  /\ chipSelect = FALSE /\ inBlock = FALSE /\ block = 0 /\ offset = 0
  /\ partialBlockRead = FALSE /\ type = "none" /\ errorCode = FALSE
  /\ cardMode = "reset" /\ cardBlock = 0 /\ cardAt = 0
  /\ stored \in [Blocks -> {CHOOSE v \in Values : TRUE}]
  /\ writing = FALSE /\ confused = FALSE /\ cutOff = FALSE
  /\ got = << >> /\ asked = << >>

Byte(b, i) == <<b, stored[b], i>>
Silence == << >>                       \* what is read while no device is selected
Crc == 2                               \* bytes after the data of a block

\* The program uses the card after an init that succeeded; after writeStart it calls
\* writeData and writeStop.
Ready == type # "none" /\ cardMode # "reset"

-----------------------------------------------------------------------------
(* A host and card state s: the variables above that a command changes.    *)

State == [cs |-> chipSelect, inb |-> inBlock, off |-> offset, mode |-> cardMode,
          at |-> cardAt, confused |-> confused]

\* Mutated form of ReadEnd: one of the two bytes of the checksum is left.
ReadEndShort(s) ==
  LET rest == IF s.cs THEN BlockSize + Crc - s.off - 1 ELSE 0
  IN  IF ~s.inb THEN s
      ELSE [s EXCEPT !.inb = FALSE, !.cs = FALSE, !.off = BlockSize + Crc, !.at = @ + rest,
                     !.mode = IF s.cs /\ s.at + rest >= BlockSize + Crc THEN "idle" ELSE @]

\* readEnd: the rest of the block and its checksum are clocked out of a card that is
\* selected.
ReadEnd(s) ==
  LET rest == IF s.cs THEN BlockSize + Crc - s.off ELSE 0
  IN  IF ~s.inb THEN s
      ELSE [s EXCEPT !.inb = FALSE, !.cs = FALSE, !.off = BlockSize + Crc + 1, !.at = @ + rest,
                     !.mode = IF s.cs /\ s.at + rest >= BlockSize + Crc THEN "idle" ELSE @]

\* cardCommand: the card takes it for a command only when it is not in a transfer.
CardCommand(s) ==
  LET t == ReadEnd(s)
  IN  [t EXCEPT !.cs = TRUE, !.confused = @ \/ t.mode # "idle"]

\* Mutated form of ChipSelectHigh: the card stays selected.
ChipSelectStays(s) == s

ChipSelectHigh(s) == [s EXCEPT !.cs = FALSE]

Becomes(s) ==
  /\ chipSelect' = s.cs /\ inBlock' = s.inb /\ offset' = s.off
  /\ cardMode' = s.mode /\ cardAt' = s.at /\ confused' = s.confused

\* A call that fails at a command: the error is noted and the card deselected.
Refused(s) ==
  /\ Becomes(ChipSelectHigh(s))
  /\ errorCode' = TRUE
  /\ UNCHANGED <<partialBlockRead, type, cardBlock, stored, writing, cutOff, got, asked>>

-----------------------------------------------------------------------------
\* init, in the middle of a read or of a sequence of writes too: reset (repeated for two
\* seconds, in which a card sends the rest of its block), version, ready, capacity; each
\* may time out or be refused, those after the version with the type of the card set.
InitCard(ok, kind) ==
  /\ (ok => kind # "none") /\ (~ok => kind # "SDHC")
  /\ Becomes([cs |-> FALSE, inb |-> FALSE, off |-> offset,
              mode |-> IF ok THEN "idle" ELSE IF kind # "none" THEN "reset" ELSE cardMode,
              at |-> cardAt, confused |-> confused /\ ~ok])
  /\ partialBlockRead' = FALSE
  /\ errorCode' = ~ok
  /\ type' = kind
  /\ writing' = FALSE
  /\ cutOff' = (cutOff /\ ~ok) /\ got' = << >> /\ asked' = << >>
  /\ UNCHANGED <<block, cardBlock, stored>>

\* partialBlockRead(value)
PartialBlockRead(value) ==
  /\ Ready
  /\ Becomes(ReadEnd(State))
  /\ partialBlockRead' = value
  /\ UNCHANGED <<block, type, errorCode, cardBlock, stored, writing, cutOff, got, asked>>

\* Mutated form of SameBlock: an earlier part of the block is taken for a later one.
SameBlockAnyOffset(b, off) == inBlock /\ b = block

\* The part that is asked for is still to come of the block that is being read.
SameBlock(b, off) == inBlock /\ b = block /\ off >= offset

\* readData: count bytes of block b from offset off on. A card that was deselected in the
\* middle of the block sends nothing, and the same block is not asked for again.
ReadData(b, off, count) ==
  LET s == IF SameBlock(b, off) THEN State
           ELSE [CardCommand(State) EXCEPT !.off = 0, !.inb = TRUE,
                                           !.mode = "sending", !.at = 0]
      cb == IF SameBlock(b, off) THEN cardBlock ELSE b
      skip == IF off > s.off THEN off - s.off ELSE 0           \* the bytes before off
      at == s.at + skip
      t == [s EXCEPT !.off = s.off + skip + count, !.at = IF s.cs THEN at + count ELSE @]
  IN  /\ Ready /\ ~writing /\ count > 0 /\ off + count <= BlockSize
      /\ block' = b /\ cardBlock' = cb
      /\ got' = [i \in 1 .. count |-> IF s.cs THEN Byte(cb, at + i - 1) ELSE Silence]
      /\ asked' = [i \in 1 .. count |-> Byte(b, off + i - 1)]
      /\ Becomes(IF ~partialBlockRead \/ t.off >= BlockSize THEN ReadEnd(t) ELSE t)
      /\ UNCHANGED <<partialBlockRead, type, errorCode, stored, writing, cutOff>>

\* ... a part that goes past the end of the block is refused without an error code; the
\* card is deselected, whatever block is being read in parts, and that one stays open.
ReadOutOfBlock(b, off, count) ==
  /\ Ready /\ ~writing /\ count > 0 /\ off + count > BlockSize
  /\ Becomes(ChipSelectHigh(State))
  /\ cutOff' = (cutOff \/ inBlock)
  /\ UNCHANGED <<block, partialBlockRead, type, errorCode, cardBlock, stored, writing, got, asked>>

\* ... the card refuses CMD17, or no start token comes in time.
ReadFails(b, off, count) ==
  /\ Ready /\ ~writing /\ count > 0 /\ off + count <= BlockSize
  /\ ~SameBlock(b, off)
  /\ block' = b
  /\ Refused(CardCommand(State))

\* writeBlock: CMD24, the data, the wait for the programming, and its status (CMD13).
WriteBlock(b, v) ==
  /\ Ready /\ ~writing
  /\ Becomes(ChipSelectHigh(CardCommand(State)))
  /\ stored' = [stored EXCEPT ![b] = v]
  /\ UNCHANGED <<block, partialBlockRead, type, errorCode, cardBlock, writing, cutOff, got, asked>>

\* ... it fails before the data is taken, or after it: the status is lost.
WriteFails(b, v, taken) ==
  /\ Ready /\ ~writing
  /\ Becomes(ChipSelectHigh(CardCommand(State)))
  /\ errorCode' = TRUE
  /\ stored' = IF taken THEN [stored EXCEPT ![b] = v] ELSE stored
  /\ UNCHANGED <<block, partialBlockRead, type, cardBlock, writing, cutOff, got, asked>>

\* readRegister, for cardSize and readCID.
ReadRegister(ok) ==
  /\ Ready /\ ~writing
  /\ IF ok THEN /\ Becomes(ChipSelectHigh(CardCommand(State)))
                /\ UNCHANGED <<partialBlockRead, type, errorCode, cardBlock, stored, writing, cutOff, got, asked>>
           ELSE Refused(CardCommand(State))
  /\ UNCHANGED block

\* erase: the register is read, then CMD32 and CMD33 give the range and CMD38 starts it.
\* What erased blocks hold is up to the vendor of the card.
Erased(first, last, v) == [b \in DOMAIN stored |-> IF b \in first .. last THEN v ELSE stored[b]]

Erase(first, last, v) ==
  /\ Ready /\ ~writing
  /\ Becomes(ChipSelectHigh(CardCommand(State)))
  /\ stored' = Erased(first, last, v)
  /\ UNCHANGED <<block, partialBlockRead, type, errorCode, cardBlock, writing, cutOff, got, asked>>

\* ... the card cannot erase single blocks or refuses a command, or it takes the last one
\* and is not ready in time.
EraseFails(first, last, v, taken) ==
  /\ Ready /\ ~writing
  /\ Becomes(ChipSelectHigh(CardCommand(State)))
  /\ errorCode' = TRUE
  /\ stored' = IF taken THEN Erased(first, last, v) ELSE stored
  /\ UNCHANGED <<block, partialBlockRead, type, cardBlock, writing, cutOff, got, asked>>

\* writeStart: ACMD23 and CMD25; the card stays selected for the blocks that follow.
WriteStart(b) ==
  /\ Ready /\ ~writing
  /\ Becomes([CardCommand(State) EXCEPT !.mode = "multi"])
  /\ cardBlock' = b /\ writing' = TRUE
  /\ UNCHANGED <<block, partialBlockRead, type, errorCode, stored, cutOff, got, asked>>

WriteData(v) ==
  /\ writing /\ chipSelect /\ cardBlock \in Blocks
  /\ stored' = [stored EXCEPT ![cardBlock] = v]
  /\ cardBlock' = cardBlock + 1
  /\ UNCHANGED <<host, cardMode, cardAt, writing, confused, cutOff, got, asked>>

\* ... the card does not accept the data, and is deselected in the middle of the
\* sequence.
WriteDataFails ==
  /\ writing /\ chipSelect
  /\ UNCHANGED block
  /\ Refused(State)

\* writeStop.  A card that is not selected does not see the token that ends the
\* sequence, and the bus looks as if it were ready.
WriteStop(ok) ==
  /\ writing
  /\ Becomes(ChipSelectHigh([State EXCEPT !.mode = IF chipSelect THEN "idle" ELSE @]))
  /\ errorCode' = (errorCode \/ ~ok)
  /\ writing' = FALSE
  /\ UNCHANGED <<block, partialBlockRead, type, cardBlock, stored, cutOff, got, asked>>

Next ==
  \/ \E ok \in BOOLEAN, kind \in {"none", "SD1", "SD2", "SDHC"} : InitCard(ok, kind)
  \/ \E value \in BOOLEAN : PartialBlockRead(value)
  \/ \E b \in Blocks, off \in 0 .. BlockSize - 1, count \in 1 .. BlockSize :
       ReadData(b, off, count) \/ ReadOutOfBlock(b, off, count) \/ ReadFails(b, off, count)
  \/ \E b \in Blocks, v \in Values :
       WriteBlock(b, v) \/ \E taken \in BOOLEAN : WriteFails(b, v, taken)
  \/ \E first, last \in Blocks, v \in Values :
       Erase(first, last, v) \/ \E taken \in BOOLEAN : EraseFails(first, last, v, taken)
  \/ \E ok \in BOOLEAN : ReadRegister(ok) \/ WriteStop(ok)
  \/ \E b \in Blocks : WriteStart(b)
  \/ \E v \in Values : WriteData(v)
  \/ WriteDataFails

Spec == Init /\ [][Next]_vars

-----------------------------------------------------------------------------
\* A read returns the bytes that were asked for, as they are on the card, in any
\* order of whole and partial reads with writes, failures and inits between them; until
\* init, except after a read past the end of a block that came between two parts of one.
ReadsWhatWasAsked == ~confused /\ ~cutOff => got = asked

\* The card never gets a command in the middle of a transfer, unless a call has
\* reported an error before, or a read past the end of a block has been refused as above.
NoCommandInTransfer == confused => errorCode \/ cutOff

\* Between calls the card is selected only for a block that is being read in parts
\* or for a sequence of writes: the bus is free for other devices. For such a block it
\* stays selected (Sd2Card.cpp:323), but for the refused read.
BusReleased ==
  /\ chipSelect => inBlock \/ writing
  /\ inBlock => chipSelect \/ cutOff
=============================================================================
