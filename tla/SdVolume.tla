------------------------------ MODULE SdVolume ------------------------------
(***************************************************************************)
(* SdVolume: the FAT of a card and the one block of it that is held in     *)
(* memory (libraries/SD/utility/SdVolume.cpp).                             *)
(* A driver state s is a record: card (what the card holds, per block),    *)
(* the cache (block, buf, dirty, mirror), search (allocSearchStart_), the  *)
(* files of SdFile, and of the call under way: ok (it has not failed yet)  *)
(* and fuel (the transfers the card still completes before one fails).     *)
(* Block layout: the first FAT, its mirror, the root directory, the data;  *)
(* a cluster is one block.                                                 *)
(***************************************************************************)
EXTENDS Integers, Sequences

CONSTANTS
  ClusterCount,  \* data clusters, numbered from 2
  PerFat,        \* FAT entries in a block (256)
  PerBlock       \* bytes in a block (512)

FatEnd == ClusterCount + 1
EOC == ClusterCount + 2
IsEOC(c) == c > FatEnd

BlocksPerFat == FatEnd \div PerFat + 1
RootBlock == 2 * BlocksPerFat
ClusterStartBlock(c) == RootBlock + c - 1
NoBlock == RootBlock + EOC              \* 0XFFFFFFFF: the card has no such block

Fail(s) == [s EXCEPT !.ok = FALSE]
Then(s, Op(_)) == IF s.ok THEN Op(s) ELSE s
With(x, Op(_)) == Op(x)

\* Sd2Card: one block transferred, or an error of the card.
Transfer(s, b) ==
  IF s.fuel = 0 \/ b \notin DOMAIN s.card THEN Fail(s) ELSE [s EXCEPT !.fuel = @ - 1]

WriteBlock(s, b, data) ==
  Then(Transfer(s, b), LAMBDA t : [t EXCEPT !.card[b] = data])

-----------------------------------------------------------------------------
\* Mutated form of CacheFlush: the mirror is not written.
CacheFlushOneFat(s) ==
  IF ~s.dirty THEN s
  ELSE Then(WriteBlock(s, s.block, s.buf),
            LAMBDA t : [t EXCEPT !.dirty = FALSE, !.mirror = 0])

CacheFlush(s) ==
  LET mirrored(t) == IF t.mirror = 0 THEN t
                     ELSE Then(WriteBlock(t, t.mirror, t.buf),
                               LAMBDA u : [u EXCEPT !.mirror = 0])
  IN  IF ~s.dirty THEN s
      ELSE Then(Then(WriteBlock(s, s.block, s.buf), mirrored),
                LAMBDA t : [t EXCEPT !.dirty = FALSE])

\* Mutated form of CacheRawBlock: the block is replaced without a flush.
CacheRawBlockDrops(s, b, forWrite) ==
  LET loaded == IF s.block = b THEN s
                ELSE Then(Transfer(s, b), LAMBDA t :
                       [t EXCEPT !.block = b, !.buf = t.card[b], !.dirty = FALSE])
  IN  Then(loaded, LAMBDA t : [t EXCEPT !.dirty = @ \/ forWrite])

\* Bring block b into the cache; a block that is already there is not read again.
CacheRawBlock(s, b, forWrite) ==
  LET loaded == IF s.block = b THEN s
                ELSE Then(Then(CacheFlush(s), LAMBDA t : Transfer(t, b)),
                          LAMBDA t : [t EXCEPT !.block = b, !.buf = t.card[b]])
  IN  Then(loaded, LAMBDA t : [t EXCEPT !.dirty = @ \/ forWrite])

\* The cache becomes block b with contents that were not read from the card.
CacheNewBlock(s, b, data) ==
  Then(CacheFlush(s), LAMBDA t : [t EXCEPT !.block = b, !.buf = data, !.dirty = TRUE])

-----------------------------------------------------------------------------
FatBlock(c) == c \div PerFat

\* After FatGet the entry is read with FatValue.
FatGet(s, c) ==
  IF c > FatEnd THEN Fail(s) ELSE CacheRawBlock(s, FatBlock(c), FALSE)

FatValue(s, c) == s.buf[c % PerFat]

FatPut(s, c, v) ==
  IF c < 2 \/ c > FatEnd THEN Fail(s)
  ELSE Then(CacheRawBlock(s, FatBlock(c), FALSE), LAMBDA t :
         [t EXCEPT !.buf[c % PerFat] = v, !.dirty = TRUE,
                   !.mirror = FatBlock(c) + BlocksPerFat])

\* The search of allocContiguous for count free clusters in a row, once around
\* the FAT; the result has the group bgn..end.
RECURSIVE FindFree(_, _, _, _, _)
FindFree(s, n, bgn, end, count) ==
  LET wrap == end > FatEnd
      b == IF wrap THEN 2 ELSE bgn
      e == IF wrap THEN 2 ELSE end
      look(t) == IF ~t.ok THEN [s |-> t, bgn |-> 0, end |-> 0]
                 ELSE IF FatValue(t, e) = 0 /\ e - b + 1 = count
                      THEN [s |-> t, bgn |-> b, end |-> e]
                 ELSE FindFree(t, n + 1, IF FatValue(t, e) # 0 THEN e + 1 ELSE b, e + 1, count)
  IN  IF n >= ClusterCount THEN [s |-> Fail(s), bgn |-> 0, end |-> 0]
      ELSE With(FatGet(s, e), look)

RECURSIVE Link(_, _, _)
Link(s, bgn, end) ==
  IF end <= bgn THEN s
  ELSE Then(FatPut(s, end - 1, end), LAMBDA t : Link(t, bgn, end - 1))

AllocFrom(s, cur) == IF cur # 0 THEN cur + 1 ELSE s.search

\* Mutated form of AllocContiguous: the end of the new chain is not marked.
AllocUnmarked(s, count, cur) ==
  LET join(t, bgn) == IF cur # 0 THEN FatPut(t, cur, bgn) ELSE t
      take(g) == [s |-> Then(g.s, LAMBDA t : join(t, g.bgn)), bgn |-> g.bgn]
  IN  With(FindFree(s, 0, AllocFrom(s, cur), AllocFrom(s, cur), count), take)

\* A chain of count clusters, linked to cluster cur if there is one.
AllocContiguous(s, count, cur) ==
  LET join(t, bgn) ==
        IF cur # 0 THEN FatPut(t, cur, bgn)
        ELSE [t EXCEPT !.search = IF count = 1 THEN bgn + 1 ELSE @]
      chain(t, g) == Then(FatPut(t, g.end, EOC), LAMBDA u : Link(u, g.bgn, g.end))
      take(g) == [s |-> Then(Then(g.s, LAMBDA t : chain(t, g)), LAMBDA t : join(t, g.bgn)),
                  bgn |-> g.bgn]
  IN  With(FindFree(s, 0, AllocFrom(s, cur), AllocFrom(s, cur), count), take)

RECURSIVE FreeFrom(_, _)
FreeFrom(s, c) ==
  LET follow(t, next) == Then(FatPut(t, c, 0),
                              LAMBDA u : IF IsEOC(next) THEN u ELSE FreeFrom(u, next))
  IN  Then(FatGet(s, c), LAMBDA t : follow(t, FatValue(t, c)))

FreeChain(s, c) == FreeFrom([s EXCEPT !.search = 2], c)
=============================================================================
