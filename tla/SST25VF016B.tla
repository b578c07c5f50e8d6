----------------------------- MODULE SST25VF016B -----------------------------
(***************************************************************************)
(* libraries/FlashLib: a serial flash memory.  A call sends one or more    *)
(* frames, each from the fall to the rise of the select line; a multi-byte *)
(* read leaves the line low until its last byte.  The chip programs and    *)
(* erases after the call has returned, and until it has finished it hears  *)
(* nothing but a read of its status.                                       *)
(*                                                                         *)
(* A byte stored is the set of its bits that are 1: programming can only   *)
(* clear bits, erasing sets them.  An address has three digits of base     *)
(* Base (256).                                                             *)
(***************************************************************************)
EXTENDS Integers, Sequences

CONSTANTS
  Base,
  Bits,        \* of a byte
  Sectors,     \* the sizes of eraseSector: 4 KB, 32 KB, 64 KB
  Bytes,       \* arguments of writeByte
  Addresses,   \* arguments of the calls
  MaxCalls     \* bound

Cells == 0 .. Base * Base * Base - 1
Blank == Bits

VARIABLES
  chip,       \* mem, job (what it is busy with: the memory to be), busy, wel, protected,
              \* opened: the frame left open: none, or a read at an address, or one not heard
  should,     \* history: the memory as the calls the chip could hear made it
  gotten,     \* the last byte read by a call the chip could hear, and what was at its address
  flashCalls

flashVars == <<chip, should, gotten, flashCalls>>

Closed == [kind |-> "none", at |-> 0]
Unheard == [kind |-> "unheard", at |-> 0]

\* The chip powers on with all its blocks protected.
Init ==
  /\ chip = [mem |-> [a \in Cells |-> Blank], job |-> <<>>, busy |-> FALSE, wel |-> FALSE, protected |-> TRUE,
             opened |-> Closed]
  /\ should = [a \in Cells |-> Blank]
  /\ gotten = [is |-> {}, at |-> {}]
  /\ flashCalls = 0

-----------------------------------------------------------------------------
(* The chip: what it does with a frame of bytes; "last" raises the select line. *)

Address(f) == Base * Base * f[2] + Base * f[3] + f[4]

Erased(mem, at, size) == [a \in Cells |-> IF a \div size = at \div size THEN Blank ELSE mem[a]]

\* A job is taken up only after a write enable, and clears it.
Takes(c, mem) ==
  IF c.wel /\ ~c.protected THEN [c EXCEPT !.job = mem, !.busy = TRUE, !.wel = FALSE] ELSE c

Hears(c, f) ==
  IF c.opened.kind # "none" \/ c.busy THEN c
  ELSE CASE
       f[1] = "WRITE_ENABLE" -> [c EXCEPT !.wel = TRUE]
    [] f[1] = "STATREG_WRITE" -> [c EXCEPT !.protected = f[2], !.wel = FALSE]
    [] f[1] = "BYTE_WRITE" -> Takes(c, [c.mem EXCEPT ![Address(f)] = @ \cap f[5]])
    [] f[1] = "CHIP_ERASE" -> Takes(c, [a \in Cells |-> Blank])
    [] f[1] = "SECTOR_ERASE" -> Takes(c, Erased(c.mem, Address(f), f[5]))
    [] OTHER -> c

\* The frame of a whole call, and the line raised after it.
Frame(c, f) == [Hears(c, f) EXCEPT !.opened = Closed]

\* The end of programming or erasing.
Finish ==
  /\ chip.busy
  /\ chip' = [chip EXCEPT !.mem = chip.job, !.job = <<>>, !.busy = FALSE]
  /\ UNCHANGED <<should, gotten, flashCalls>>

-----------------------------------------------------------------------------
(* The driver *)

\* The address bytes, most significant first.
Digits(a) == <<(a \div (Base * Base)) % Base, (a \div Base) % Base, a % Base>>

write_enable(c) == Frame(c, <<"WRITE_ENABLE">>)

Called == flashCalls < MaxCalls /\ flashCalls' = flashCalls + 1

\* The chip can hear a command.
Listening == ~chip.busy /\ chip.opened.kind = "none"
Writable == Listening /\ ~chip.protected

Changes(c, mem) ==
  /\ Called /\ chip' = c
  /\ should' = IF Writable THEN mem ELSE should
  /\ UNCHANGED gotten

writeByte(b, a) ==
  Changes(Frame(write_enable(chip), <<"BYTE_WRITE">> \o Digits(a) \o <<b>>),
          [should EXCEPT ![a] = @ \cap b])

\* Mutated form of EraseSector: erasing is not enabled first.
EraseSectorPlain(c, a, size) == Frame(c, <<"SECTOR_ERASE">> \o Digits(a) \o <<size>>)

EraseSector(c, a, size) == Frame(write_enable(c), <<"SECTOR_ERASE">> \o Digits(a) \o <<size>>)

eraseSector(a, size) == Changes(EraseSector(chip, a, size), Erased(should, a, size))

eraseChip == Changes(Frame(write_enable(chip), <<"CHIP_ERASE">>), [a \in Cells |-> Blank])

\* statreg_write_enable and the register: a chip that hears the one hears the other.
writeStatusRegistry(protect) ==
  /\ Called /\ chip' = Frame(chip, <<"STATREG_WRITE", protect>>)
  /\ UNCHANGED <<should, gotten>>

\* These change nothing but end an open frame.
Asks(f) == Called /\ chip' = Frame(chip, f) /\ UNCHANGED <<should, gotten>>
readStatusRegistry == Asks(<<"STATREG_READ">>)
readID == Asks(<<"READ_ID">>)

\* isReady reads the status; what it returns is the bit that is set while the chip is busy.
isReady == readStatusRegistry

\* Mutated form of First: the dummy byte is taken for the first byte.
FirstNoDummy(d) == (Base * Base * d[1] + Base * d[2] + d[3] - 1) % (Base * Base * Base)

\* The address of the byte that the chip sends after the command, the address and a dummy.
First(d) == Base * Base * d[1] + Base * d[2] + d[3]

Reads(at, addr) ==
  gotten' = [is |-> chip.mem[at], at |-> should[addr]]

readByte(a) ==
  /\ Called /\ chip' = [chip EXCEPT !.opened = Closed]
  /\ IF Listening THEN Reads(First(Digits(a)), a) ELSE UNCHANGED gotten
  /\ UNCHANGED should

\* readByteMulti: READ_BEGIN, READ_CONTINUE and READ_END.  The chip keeps the address.
readBegin(a) ==
  /\ Called
  /\ chip' = [chip EXCEPT !.opened = IF Listening THEN [kind |-> "read", at |-> First(Digits(a))]
                                     ELSE IF chip.opened.kind = "none" THEN Unheard ELSE @]
  /\ IF Listening THEN Reads(First(Digits(a)), a) ELSE UNCHANGED gotten
  /\ UNCHANGED should

Following(at) == (at + 1) % (Base * Base * Base)

readContinue(last) ==
  /\ Called
  /\ IF chip.opened.kind = "read"
     THEN Reads(Following(chip.opened.at), Following(chip.opened.at)) ELSE UNCHANGED gotten
  /\ chip' = [chip EXCEPT !.opened =
                IF last THEN Closed
                ELSE IF chip.opened.kind = "read"
                THEN [kind |-> "read", at |-> Following(chip.opened.at)] ELSE Unheard]
  /\ UNCHANGED should

Next ==
  \/ Finish \/ eraseChip \/ readStatusRegistry \/ isReady \/ readID
  \/ \E a \in Addresses :
       \/ readByte(a) \/ readBegin(a)
       \/ \E b \in Bytes : writeByte(b, a)
       \/ \E s \in Sectors : eraseSector(a, s)
  \/ \E p \in BOOLEAN : writeStatusRegistry(p)
  \/ \E last \in BOOLEAN : readContinue(last)

Spec == Init /\ [][Next]_flashVars
-----------------------------------------------------------------------------
\* When the chip is at rest it holds exactly what the calls asked for that found it
\* unprotected, at rest and not in a multi-byte read; the others are lost without a sign
\* (writeByte, eraseSector and eraseChip do not look at the status).
StoredAsCalled == ~chip.busy => chip.mem = should

\* A read of a chip that can hear it returns the byte stored at its address, alone or in a
\* row of reads (readByte, readByteMulti).
ReadsStored == gotten.is = gotten.at
=============================================================================
