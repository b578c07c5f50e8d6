------------------------------ MODULE CC3000Spi ------------------------------
(***************************************************************************)
(* CC3000Spi: the SPI transport of the CC3000 as it is ported here         *)
(* (libraries/bfinlibmaster/bfspi.cpp).  The program writes packets with   *)
(* SpiWrite, which busy-waits on ulSpiState; the interrupt SPI_IRQ, which  *)
(* WlanInterruptEnable attaches to the line of the radio, moves it on. The *)
(* interrupt reads what the radio has, but the port has commented out what *)
(* would hand it to the driver above (SpiTriggerRxProcessing): a read is   *)
(* the last thing that happens.  The radio is external: once powered it    *)
(* may pull its line low at any time.  A falling edge that comes while the *)
(* interrupt is detached is latched.                                       *)
(***************************************************************************)
EXTENDS Integers

CONSTANTS
  MaxPackets   \* bound on the packets written between SpiOpen and SpiClose

VARIABLES
  ulSpiState,       \* "CLOSED" before SpiOpen, then the state of the driver
  interrupt,        \* SPI_IRQ is attached
  edge,             \* the line has fallen and SPI_IRQ has not run
  HOST_nCS,         \* "LOW" selects the radio
  writer,           \* where the program is in SpiWrite
  begun, clocked    \* calls of SpiWrite since SpiOpen, and packets clocked out since

spiVars == <<ulSpiState, interrupt, edge, HOST_nCS, writer, begun, clocked>>

Init ==
  /\ ulSpiState = "CLOSED" /\ interrupt = FALSE /\ edge = FALSE
  /\ HOST_nCS = "HIGH" /\ writer = "out" /\ begun = 0 /\ clocked = 0

SpiOpen ==
  /\ writer = "out" /\ ulSpiState = "CLOSED"
  /\ ulSpiState' = "POWERUP" /\ interrupt' = TRUE /\ HOST_nCS' = "HIGH"
  /\ begun' = 0 /\ clocked' = 0
  /\ UNCHANGED <<edge, writer>>

\* The program runs: it is not held up by an interrupt that does not end.
Running == ulSpiState # "READ_IRQ"

SpiClose ==
  /\ writer = "out" /\ ulSpiState # "CLOSED" /\ Running
  /\ ulSpiState' = "CLOSED" /\ interrupt' = FALSE /\ edge' = FALSE
  /\ UNCHANGED <<HOST_nCS, writer, begun, clocked>>

\* SpiWrite: wait for the radio to be up, or take the interrupt away and wait for the
\* driver to be idle.
SpiWrite ==
  /\ writer = "out" /\ ulSpiState # "CLOSED" /\ Running /\ begun < MaxPackets
  /\ begun' = begun + 1
  /\ IF ulSpiState \in {"POWERUP", "INITIALIZED"}
     THEN writer' = "powerup" /\ UNCHANGED interrupt
     ELSE writer' = "waitIdle" /\ interrupt' = FALSE
  /\ UNCHANGED <<ulSpiState, edge, HOST_nCS, clocked>>

\* SpiFirstWrite selects the radio and clocks the packet out; the radio stays selected.
SpiFirstWrite ==
  /\ writer = "powerup" /\ ulSpiState = "INITIALIZED"
  /\ HOST_nCS' = "LOW" /\ writer' = "first"
  /\ UNCHANGED <<ulSpiState, interrupt, edge, begun, clocked>>

\* The bytes of a packet are clocked out, whether the radio is selected or not.
SpiWriteDataSynchronous == clocked' = clocked + 1

\* The header is read and the radio stays selected. When it announces no bytes the read
\* ends; else the loop waits for a byte that nothing clocks, and never ends.
SpiReadHeader == ulSpiState' \in {"READ_IRQ", "READ_EOT"} /\ HOST_nCS' = "LOW"

\* Mutated form of SpiFirstWriteDone: the driver is not made idle.
SpiFirstWriteStays ==
  /\ writer = "first"
  /\ SpiWriteDataSynchronous /\ writer' = "waitSent"
  /\ UNCHANGED <<ulSpiState, interrupt, edge, HOST_nCS, begun>>

SpiFirstWriteDone ==
  /\ writer = "first"
  /\ SpiWriteDataSynchronous
  /\ ulSpiState' = "IDLE" /\ writer' = "waitSent"
  /\ UNCHANGED <<interrupt, edge, HOST_nCS, begun>>

\* The driver is idle: the packet is left to the interrupt, with the radio deselected.
SpiWriteArm ==
  /\ writer = "waitIdle" /\ ulSpiState = "IDLE"
  /\ ulSpiState' = "WRITE_IRQ" /\ HOST_nCS' = "HIGH" /\ interrupt' = TRUE
  /\ writer' = "waitSent"
  /\ UNCHANGED <<edge, begun, clocked>>

SpiWriteReturn ==
  /\ writer = "waitSent" /\ ulSpiState = "IDLE" /\ writer' = "out"
  /\ UNCHANGED <<ulSpiState, interrupt, edge, HOST_nCS, begun, clocked>>

\* The radio is up, answers chip select, or has a packet.
RadioSignals ==
  /\ ulSpiState # "CLOSED" /\ ~edge /\ edge' = TRUE
  /\ UNCHANGED <<ulSpiState, interrupt, HOST_nCS, writer, begun, clocked>>

\* Mutated form of IrqWrites: the driver is not made idle after the packet.
IrqWritesStays ==
  /\ ulSpiState = "WRITE_IRQ"
  /\ SpiWriteDataSynchronous
  /\ HOST_nCS' = "HIGH" /\ UNCHANGED ulSpiState

\* A packet waits: it is clocked out and the driver is idle.
IrqWrites ==
  /\ ulSpiState = "WRITE_IRQ"
  /\ SpiWriteDataSynchronous
  /\ ulSpiState' = "IDLE" /\ HOST_nCS' = "HIGH"

\* The first edge says the radio is up; when idle what the radio has is read; in any
\* other state the edge is lost.
IrqElse ==
  /\ ulSpiState # "WRITE_IRQ" /\ UNCHANGED clocked
  /\ CASE ulSpiState = "POWERUP" -> ulSpiState' = "INITIALIZED" /\ UNCHANGED HOST_nCS
       [] ulSpiState = "IDLE" -> SpiReadHeader
       [] OTHER -> UNCHANGED <<ulSpiState, HOST_nCS>>

SPI_IRQ ==
  /\ interrupt /\ edge /\ Running /\ edge' = FALSE
  /\ IrqWrites \/ IrqElse
  /\ UNCHANGED <<interrupt, writer, begun>>

Next ==
  \/ SpiOpen \/ SpiClose \/ SpiWrite \/ SpiFirstWrite \/ SpiFirstWriteDone
  \/ SpiWriteArm \/ SpiWriteReturn \/ RadioSignals \/ SPI_IRQ

Spec == Init /\ [][Next]_spiVars
-----------------------------------------------------------------------------
\* SpiWrite can be left spinning only after a read, which nothing follows: the state is
\* READ_EOT, or the interrupt itself does not end (READ_IRQ). Short of that every wait can
\* still end: the driver is idle, or the interrupt that makes it so is attached
\* (bfspi.cpp, the loops of SpiWrite and of SpiReadDataSynchronous).
StuckOnlyAfterRead ==
  LET stuck == ulSpiState \in {"READ_EOT", "READ_IRQ"}
  IN  /\ writer = "waitIdle" => ulSpiState = "IDLE" \/ stuck
      /\ writer = "waitSent" => \/ ulSpiState = "IDLE" \/ stuck
                                \/ ulSpiState = "WRITE_IRQ" /\ interrupt
      /\ writer = "powerup" => ulSpiState \in {"POWERUP", "INITIALIZED"} /\ interrupt

\* When SpiWrite returns its packet has been clocked out, and none goes out twice, however
\* the edges fall (bfspi.cpp, SpiWrite: "here we will wait till end of transaction").
ClockedOnce == clocked \in {begun - 1, begun} /\ (writer = "out" => clocked = begun)
=============================================================================
