------------------------------- MODULE SdFile -------------------------------
(***************************************************************************)
(* SdFile and File: files in the root directory of a FAT16 card, over the  *)
(* block cache of SdVolume (libraries/SD).  Every call may meet an error   *)
(* of the card at any of its transfers, and the power may fail between     *)
(* calls; a power failure in the middle of a call is an error at that      *)
(* transfer followed by Restart, since no call transfers anything after an *)
(* error.                                                                  *)
(* The program uses one handle per file, and removes closed files.         *)
(***************************************************************************)
EXTENDS SdVolume, FiniteSets, FiniteSetsExt

CONSTANTS
  Files,      \* names of plain files
  Dirs,       \* names of directories
  RootSlots,  \* entries of the root directory
  Lengths,    \* lengths of the writes and of the reads
  Positions,  \* positions that are sought, and lengths that files are cut to
  MaxSize,    \* bound on the size of a file
  MaxFaults,  \* bound on the errors of the card
  MaxStarts,  \* bound on the restarts
  MaxCalls    \* bound on the calls

Names == Files \cup Dirs
Junk == 0               \* a byte of a block that was never written

VARIABLES
  card, cache, search, file,   \* the driver, see SdVolume
  want,    \* per file, the bytes the program has written
  may,     \* per file, per byte, the values a reader of the card alone may find
  vague,   \* files that were in use by a call that failed
  torn,    \* a call that frees clusters failed
  faults, starts, calls

vars == <<card, cache, search, file, want, may, vague, torn, faults, starts, calls>>

\* The arguments of open that the calls below use.
Modes == {{"READ"}, {"READ", "WRITE", "CREAT"}, {"WRITE", "CREAT", "TRUNC"},
          {"WRITE", "APPEND", "SYNC"}}

NoEntry == [name |-> "free", first |-> 0, size |-> 0, dir |-> FALSE]
Closed == [type |-> "closed", flags |-> {}, cur |-> 0, pos |-> 0, slot |-> 0,
           size |-> 0, first |-> 0]

EmptyCard ==
  [b \in 0 .. NoBlock - 2 |->
     IF b < RootBlock THEN [i \in 0 .. PerFat - 1 |-> IF b % BlocksPerFat = 0 /\ i < 2
                                                      THEN EOC ELSE 0]
     ELSE IF b = RootBlock THEN [i \in 0 .. RootSlots - 1 |-> NoEntry]
     ELSE [i \in 0 .. PerBlock - 1 |-> Junk]]

EmptyCache == [block |-> NoBlock, buf |-> << >>, dirty |-> FALSE, mirror |-> 0]

Init ==
  /\ card = EmptyCard
  /\ cache = EmptyCache /\ search = 2
  /\ file = [f \in Names |-> Closed]
  /\ want = [f \in Files |-> << >>]
  /\ may = [f \in Files |-> << >>]
  /\ vague = {} /\ torn = FALSE
  /\ faults = 0 /\ starts = 0 /\ calls = 0

Driver(fuel) ==
  [card |-> card, block |-> cache.block, buf |-> cache.buf, dirty |-> cache.dirty,
   mirror |-> cache.mirror, search |-> search, file |-> file, fuel |-> fuel, ok |-> TRUE]

-----------------------------------------------------------------------------
(* The methods of SdFile.                                                  *)

\* addCluster
AddCluster(s, f) ==
  LET grow(got) == Then(got.s, LAMBDA t :
        [t EXCEPT !.file[f].cur = got.bgn,
                  !.file[f].first = IF @ = 0 THEN got.bgn ELSE @,
                  !.file[f].flags = IF t.file[f].first = 0 THEN @ \cup {"DIRTY"} ELSE @])
  IN  With(AllocContiguous(s, 1, s.file[f].cur), grow)

\* cacheDirEntry(CACHE_FOR_WRITE), then the entry is changed.
PutEntry(s, f, e) ==
  Then(CacheRawBlock(s, RootBlock, TRUE), LAMBDA t : [t EXCEPT !.buf[s.file[f].slot] = e])

\* Mutated form of Sync: the size goes to the card before the data.
SyncSizeFirst(s, f) ==
  LET h == s.file[f]
      e == [name |-> f, first |-> h.first, size |-> h.size, dir |-> FALSE]
  IN  IF h.type # "file" THEN CacheFlush(s)
      ELSE Then(WriteBlock(s, RootBlock, [s.card[RootBlock] EXCEPT ![h.slot] = e]),
             LAMBDA t : CacheFlush([t EXCEPT !.file[f].flags = @ \ {"DIRTY"}]))

Sync(s, f) ==
  LET h == s.file[f]
      entry(t) == [t.buf[h.slot] EXCEPT !.first = h.first,
                                        !.size = IF h.type = "dir" THEN @ ELSE h.size]
      put(t) == [t EXCEPT !.buf[h.slot] = entry(t), !.file[f].flags = @ \ {"DIRTY"}]
  IN  IF h.type = "closed" THEN Fail(s)
      ELSE Then(IF "DIRTY" \in h.flags THEN Then(CacheRawBlock(s, RootBlock, TRUE), put) ELSE s,
                CacheFlush)

\* n steps along the chain of f.
RECURSIVE Advance(_, _, _)
Advance(s, f, n) ==
  LET c == s.file[f].cur
      got == FatGet(s, c)
  IN  IF n = 0 THEN s
      ELSE Then(got, LAMBDA t :
             Advance([t EXCEPT !.file[f].cur = FatValue(t, c)], f, n - 1))

\* Mutated form of SeekSet: the index of a cluster from the position itself.
SeekSetAtEnd(s, f, pos) ==
  LET h == s.file[f]
      nNew == pos \div PerBlock
  IN  IF h.type = "closed" \/ pos > h.size THEN Fail(s)
      ELSE Then(Advance([s EXCEPT !.file[f].cur = h.first], f, nNew),
                LAMBDA t : [t EXCEPT !.file[f].pos = pos])

\* seekSet: the cluster is the one of the byte before pos.
SeekSet(s, f, pos) ==
  LET h == s.file[f]
      nCur == (h.pos - 1) \div PerBlock
      nNew == (pos - 1) \div PerBlock
      back == nNew < nCur \/ h.pos = 0
  IN  IF h.type = "closed" \/ pos > h.size THEN Fail(s)
      ELSE IF pos = 0 THEN [s EXCEPT !.file[f].cur = 0, !.file[f].pos = 0]
      ELSE Then(Advance([s EXCEPT !.file[f].cur = IF back THEN h.first ELSE @], f,
                        IF back THEN nNew ELSE nNew - nCur),
                LAMBDA t : [t EXCEPT !.file[f].pos = pos])

\* truncate: clusters are freed before the entry says so.
Truncate(s, f, length) ==
  LET h == s.file[f]
      newPos == Min({h.pos, length})
      cur(t) == t.file[f].cur
      toFree(t) == IF length = 0 THEN h.first ELSE FatValue(t, cur(t))
      ended(t) == IF length = 0 THEN [t EXCEPT !.file[f].first = 0] ELSE FatPut(t, cur(t), EOC)
      cut(t) == IF length # 0 /\ IsEOC(toFree(t)) THEN t
                ELSE Then(FreeChain(t, toFree(t)), ended)
      freed(t) == Then(IF length = 0 THEN t ELSE FatGet(t, cur(t)), cut)
      shrunk(t) == Sync([t EXCEPT !.file[f].size = length,
                                  !.file[f].flags = @ \cup {"DIRTY"}], f)
  IN  IF h.type # "file" \/ "WRITE" \notin h.flags \/ length > h.size THEN Fail(s)
      ELSE IF h.size = 0 THEN s
      ELSE Then(Then(Then(SeekSet(s, f, length), freed), shrunk),
                LAMBDA t : SeekSet(t, f, newPos))

\* openCachedEntry: the entry in slot i of the cached root block.
OpenCachedEntry(s, f, i, oflag) ==
  LET e == s.buf[i]
      chain == IF e.dir THEN FatGet(s, e.first) ELSE s      \* chainSize: one cluster
      h == [type |-> IF e.dir THEN "dir" ELSE "file",
            flags |-> oflag \ {"CREAT", "EXCL", "TRUNC"}, cur |-> 0, pos |-> 0,
            slot |-> i, size |-> IF e.dir THEN PerBlock ELSE e.size, first |-> e.first]
  IN  IF e.dir /\ oflag \cap {"WRITE", "TRUNC"} # {} THEN Fail(s)
      ELSE Then(chain, LAMBDA t :
             LET u == [t EXCEPT !.file[f] = h]
             IN  IF "TRUNC" \in oflag THEN Truncate(u, f, 0) ELSE u)

\* open: the first slot with that name, not looking past a slot that was never
\* used; a new entry goes into the first empty slot, and to the card at once.
OpenFile(s, f, oflag) ==
  LET slots == 0 .. RootSlots - 1
      used(t) == {i \in slots : \A j \in slots : j < i => t.buf[j].name # "free"}
      here(t) == {i \in used(t) : t.buf[i].name = f}
      empty(t) == {i \in used(t) : t.buf[i].name \in {"free", "deleted"}}
      create(t, i) == Then(PutEntry([t EXCEPT !.file[f].slot = i], f, [NoEntry EXCEPT !.name = f]),
                           CacheFlush)
      choose(t) == IF here(t) # {} THEN Min(here(t)) ELSE Min(empty(t))
      refused(t) == IF here(t) # {} THEN {"CREAT", "EXCL"} \subseteq oflag
                    ELSE ~({"CREAT", "WRITE"} \subseteq oflag) \/ empty(t) = {}
      enter(t) == IF refused(t) THEN Fail(t)
                  ELSE Then(IF here(t) # {} THEN t ELSE create(t, choose(t)),
                            LAMBDA u : OpenCachedEntry(u, f, choose(t), oflag))
  IN  IF s.file[f].type # "closed" THEN Fail(s)
      ELSE Then(CacheRawBlock(s, RootBlock, FALSE), enter)

\* remove: the file stays open when its clusters cannot be freed.
RemoveFile(s, f) ==
  LET h == s.file[f]
      gone(t) == [t EXCEPT !.buf[h.slot].name = "deleted", !.file[f].type = "closed"]
  IN  Then(Then(Then(Truncate(s, f, 0), LAMBDA t : CacheRawBlock(t, RootBlock, TRUE)), gone),
           CacheFlush)

\* The cluster for the byte at the position of f: the next of the chain, or a new one.
WriteCluster(s, f) ==
  LET h == s.file[f]
      full(t) == IF h.cur = 0 THEN h.first = 0 ELSE IsEOC(FatValue(t, h.cur))
      move(t) == IF full(t) THEN AddCluster(t, f)
                 ELSE [t EXCEPT !.file[f].cur = IF @ = 0 THEN h.first ELSE FatValue(t, h.cur)]
  IN  IF h.pos % PerBlock # 0 THEN s
      ELSE Then(IF h.cur = 0 THEN s ELSE FatGet(s, h.cur), move)

\* n bytes into the block at the position: a whole block goes to the card, and a
\* cached copy of it is given up; the start of a new block is not read first.
WritePart(s, f, n, v) ==
  LET h == s.file[f]
      b == ClusterStartBlock(h.cur)
      off == h.pos % PerBlock
      new == [i \in 0 .. PerBlock - 1 |-> IF i >= off /\ i < off + n THEN v ELSE Junk]
      over(t) == [t EXCEPT !.buf = [i \in 0 .. PerBlock - 1 |->
                                      IF i >= off /\ i < off + n THEN v ELSE t.buf[i]]]
  IN  IF n = PerBlock
      THEN WriteBlock([s EXCEPT !.block = IF @ = b THEN NoBlock ELSE @], b, new)
      ELSE IF off = 0 /\ h.pos >= h.size THEN CacheNewBlock(s, b, new)
      ELSE Then(CacheRawBlock(s, b, TRUE), over)

RECURSIVE WriteLoop(_, _, _, _)
WriteLoop(s, f, nToWrite, v) ==
  LET n(t) == Min({nToWrite, PerBlock - (t.file[f].pos % PerBlock)})
      part(t) == Then(WritePart(t, f, n(t), v), LAMBDA u :
                   WriteLoop([u EXCEPT !.file[f].pos = @ + n(t)], f, nToWrite - n(t), v))
  IN  IF nToWrite = 0 THEN s ELSE Then(WriteCluster(s, f), part)

\* write: nbyte bytes of value v.
WriteFile(s, f, nbyte, v) ==
  LET h == s.file[f]
      seek == IF "APPEND" \in h.flags THEN SeekSet(s, f, h.size) ELSE s
      grown(t) == IF t.file[f].pos <= t.file[f].size THEN t
                  ELSE [t EXCEPT !.file[f].size = t.file[f].pos,
                                 !.file[f].flags = @ \cup {"DIRTY"}]
      synced(t) == IF "SYNC" \in h.flags THEN Sync(t, f) ELSE t
  IN  IF h.type # "file" \/ "WRITE" \notin h.flags THEN Fail(s)
      ELSE Then(Then(Then(seek, LAMBDA t : WriteLoop(t, f, nbyte, v)), grown), synced)

\* read: nbyte bytes from the position.  A whole block that is not cached is read
\* past the cache.
RECURSIVE ReadLoop(_, _, _, _)
ReadLoop(s, f, toRead, out) ==
  LET h == s.file[f]
      off == h.pos % PerBlock
      n == Min({toRead, PerBlock - off})
      b(t) == ClusterStartBlock(t.file[f].cur)
      at == IF off # 0 THEN s
            ELSE IF h.pos = 0 THEN [s EXCEPT !.file[f].cur = h.first]
            ELSE Then(FatGet(s, h.cur), LAMBDA t :
                   [t EXCEPT !.file[f].cur = FatValue(t, h.cur)])
      load(t) == IF n = PerBlock /\ b(t) # t.block THEN Transfer(t, b(t))
                 ELSE CacheRawBlock(t, b(t), FALSE)
      data(t) == [i \in 1 .. n |-> IF b(t) = t.block THEN t.buf[off + i - 1]
                                   ELSE t.card[b(t)][off + i - 1]]
      more(t) == IF ~t.ok THEN [s |-> t, out |-> out]
                 ELSE ReadLoop([t EXCEPT !.file[f].pos = @ + n], f, toRead - n, out \o data(t))
  IN  IF toRead = 0 THEN [s |-> s, out |-> out] ELSE With(Then(at, load), more)

ReadFile(s, f, nbyte) ==
  LET h == s.file[f]
  IN  IF h.type = "closed" \/ "READ" \notin h.flags THEN [s |-> Fail(s), out |-> << >>]
      ELSE ReadLoop(s, f, IF h.pos > h.size THEN nbyte ELSE Min({nbyte, h.size - h.pos}), << >>)

\* makeDir: a new file becomes a directory with one cluster of entries, of which
\* the dots, whose bytes are not told apart from others here, are written last.
MakeDirectory(s, d) ==
  LET opened == OpenFile(s, d, {"CREAT", "EXCL", "READ", "WRITE"})
      typed(t) == AddCluster([t EXCEPT !.file[d].type = "dir", !.file[d].flags = {"READ"}], d)
      zeroed(t) == CacheNewBlock(t, ClusterStartBlock(t.file[d].cur),
                                 [i \in 0 .. PerBlock - 1 |-> Junk])
      marked(t) == Then(CacheRawBlock([t EXCEPT !.file[d].size = PerBlock], RootBlock, TRUE),
                        LAMBDA u : [u EXCEPT !.buf[u.file[d].slot].dir = TRUE])
      dots(t) == CacheRawBlock(t, ClusterStartBlock(t.file[d].first), TRUE)
      steps == Then(Then(Then(opened, typed), zeroed), LAMBDA t : Sync(t, d))
  IN  Then(Then(Then(steps, marked), dots), CacheFlush)

\* rmDir, of a directory with no entry but its dots: it becomes a plain file first.
RemoveDirectory(s, d) ==
  LET h == s.file[d]
      scan == CacheRawBlock(s, ClusterStartBlock(h.first), FALSE)
  IN  IF h.type # "dir" THEN Fail(s)
      ELSE Then(scan, LAMBDA t :
             RemoveFile([t EXCEPT !.file[d].type = "file", !.file[d].pos = 0, !.file[d].cur = 0,
                                  !.file[d].flags = @ \cup {"WRITE"}], d))

\* createContiguous: all clusters of the file at once, or none of the file.
CreateContiguousFile(s, f, size) ==
  LET done(t, bgn) == Sync([t EXCEPT !.file[f].first = bgn, !.file[f].size = size,
                                     !.file[f].flags = @ \cup {"DIRTY"}], f)
      take(got) == IF got.s.ok THEN done(got.s, got.bgn)
                   ELSE Fail(RemoveFile([got.s EXCEPT !.ok = TRUE], f))
  IN  Then(OpenFile(s, f, {"CREAT", "EXCL", "READ", "WRITE"}), LAMBDA t :
        With(AllocContiguous(t, ((size - 1) \div PerBlock) + 1, 0), take))

\* timestamp, with a date that is valid: the times themselves are left out.
Timestamp(s, f) ==
  IF s.file[f].type = "closed" THEN Fail(s)
  ELSE Then(CacheRawBlock(s, RootBlock, TRUE), LAMBDA t : Sync(t, f))

\* Mutated form of RunEnd: the chain is followed wherever it leads.
RECURSIVE RunEndLoose(_, _)
RunEndLoose(s, c) ==
  With(FatGet(s, c), LAMBDA t :
    IF ~t.ok THEN [s |-> t, last |-> c]
    ELSE IF IsEOC(FatValue(t, c)) THEN [s |-> t, last |-> c]
    ELSE RunEndLoose(t, FatValue(t, c)))

\* The last cluster of the run of clusters that begins with c, if the chain ends there.
RECURSIVE RunEnd(_, _)
RunEnd(s, c) ==
  With(FatGet(s, c), LAMBDA t :
    IF ~t.ok THEN [s |-> t, last |-> c]
    ELSE IF IsEOC(FatValue(t, c)) THEN [s |-> t, last |-> c]
    ELSE IF FatValue(t, c) = c + 1 THEN RunEnd(t, c + 1)
    ELSE [s |-> Fail(t), last |-> c])

\* contiguousRange: the blocks of a file whose clusters follow each other.
ContiguousRange(s, f) ==
  LET first == s.file[f].first
      range(got) == [s |-> got.s, bgn |-> ClusterStartBlock(first),
                     end |-> ClusterStartBlock(got.last)]
  IN  IF first = 0 THEN [s |-> Fail(s), bgn |-> 0, end |-> 0]
      ELSE With(RunEnd(s, first), range)

\* rmRfStar of the root: every entry in turn, files even when they are read-only.
RECURSIVE RemoveAll(_, _)
RemoveAll(s, i) ==
  LET one(t, e) == Then(OpenCachedEntry(t, e.name, i, {"READ"}), LAMBDA w :
                     IF e.dir THEN RemoveDirectory(w, e.name)
                     ELSE RemoveFile([w EXCEPT !.file[e.name].flags = @ \cup {"WRITE"}], e.name))
      step(t) == IF t.buf[i].name = "free" THEN t
                 ELSE IF t.buf[i].name = "deleted" THEN RemoveAll(t, i + 1)
                 ELSE Then(one(t, t.buf[i]), LAMBDA u : RemoveAll(u, i + 1))
  IN  IF i = RootSlots THEN s ELSE Then(CacheRawBlock(s, RootBlock, FALSE), step)

-----------------------------------------------------------------------------
(* The calls a program makes.                                              *)

Unlimited == 1000
MaxTransfers == 8       \* a fault at a later transfer of one call is not tried
Fuel == {Unlimited} \cup (IF faults < MaxFaults THEN 0 .. MaxTransfers ELSE {})

Fault(r) == ~r.ok /\ r.fuel = 0

Single(w) == [i \in DOMAIN w |-> {w[i]}]
Over(w, p, n, v) ==
  [i \in 1 .. Max({Len(w), p + n}) |-> IF i > p /\ i <= p + n THEN v ELSE w[i]]

\* The clusters from c on, in the FAT that View shows; at most n of them.
RECURSIVE Chain(_, _, _)
Chain(View(_), c, n) ==
  IF n = 0 \/ c \notin 2 .. FatEnd THEN << >>
  ELSE <<c>> \o Chain(View, View(FatBlock(c))[c % PerFat], n - 1)

Content(View(_), first, size) ==
  LET chain == Chain(View, first, ClusterCount)
      block(i) == (i - 1) \div PerBlock
  IN  [i \in 1 .. size |-> IF block(i) < Len(chain)
                           THEN View(ClusterStartBlock(chain[block(i) + 1]))[(i - 1) % PerBlock]
                           ELSE Junk]

OnCard(b) == card[b]
InDriver(b) == IF cache.block = b THEN cache.buf ELSE card[b]

\* The bytes of f as the directory of the card alone gives them.
CardContent(f) ==
  LET at == {i \in 0 .. RootSlots - 1 : card[RootBlock][i].name = f}
      e == card[RootBlock][Min(at)]
  IN  IF at = {} THEN << >> ELSE Content(OnCard, e.first, e.size)

\* The state after a call: of the driver, and of what is known about the files.
Done(r, f, w, m, frees) ==
  /\ card' = r.card /\ search' = r.search /\ file' = r.file
  /\ cache' = [block |-> r.block, buf |-> r.buf, dirty |-> r.dirty, mirror |-> r.mirror]
  /\ faults' = IF Fault(r) THEN faults + 1 ELSE faults
  /\ torn' = (torn \/ (frees /\ Fault(r)))
  /\ vague' = IF r.ok THEN vague ELSE vague \cup {f}
  /\ want' = w /\ may' = m
  /\ calls' = calls + 1
  /\ UNCHANGED starts

\* Writes of a file alternate between two values of bytes.
NextByte(f) == IF want[f] # << >> /\ want[f][1] = 1 THEN 2 ELSE 1

Live == ~torn /\ calls < MaxCalls
\* After a call on f has failed the program only flushes or closes f.
Usable(f) == Live /\ f \notin vague

Open(f, oflag, fuel) ==
  /\ Usable(f) /\ file[f].type = "closed"
  /\ \E r \in {OpenFile(Driver(fuel), f, oflag)} :
       LET cut == r.ok /\ "TRUNC" \in oflag
       IN  Done([r EXCEPT !.ok = ~Fault(r), !.file[f] = IF r.ok THEN @ ELSE Closed], f,
                IF cut THEN [want EXCEPT ![f] = << >>] ELSE want,
                IF cut THEN [may EXCEPT ![f] = << >>] ELSE may, "TRUNC" \in oflag)

Write(f, n, v, fuel) ==
  LET h == file[f]
      p == IF "APPEND" \in h.flags THEN h.size ELSE h.pos
      w == [want EXCEPT ![f] = Over(@, p, n, v)]
      hit == [may EXCEPT ![f] = [i \in DOMAIN @ |-> IF i > p /\ i <= p + n
                                                    THEN @[i] \cup {v} ELSE @[i]]]
  IN  /\ Usable(f) /\ "WRITE" \in h.flags /\ p + n <= MaxSize
      /\ \E r \in {WriteFile(Driver(fuel), f, n, v)} :
           IF ~r.ok THEN Done(r, f, want, hit, FALSE)
           ELSE Done(r, f, w, IF "SYNC" \in h.flags THEN [may EXCEPT ![f] = Single(w[f])]
                              ELSE hit, FALSE)

Seek(f, pos, fuel) ==
  /\ Usable(f) /\ file[f].type = "file" /\ pos <= file[f].size
  /\ Done(SeekSet(Driver(fuel), f, pos), f, want, may, FALSE)

\* File::flush, or File::close, which forgets the handle whatever sync() returned.
Flush(f, close, fuel) ==
  /\ Live /\ file[f].type = "file"
  /\ \E r \in {Sync(Driver(fuel), f)} :
       Done([r EXCEPT !.file[f] = IF close THEN Closed ELSE @], f, want,
            IF r.ok /\ f \notin vague THEN [may EXCEPT ![f] = Single(want[f])] ELSE may, FALSE)

\* timestamp ends with sync.
Stamp(f, fuel) ==
  /\ Usable(f) /\ file[f].type = "file"
  /\ \E r \in {Timestamp(Driver(fuel), f)} :
       Done(r, f, want, IF r.ok THEN [may EXCEPT ![f] = Single(want[f])] ELSE may, FALSE)

Read(f, n, fuel) ==
  /\ Usable(f) /\ "READ" \in file[f].flags /\ file[f].type = "file" /\ file[f].pos < file[f].size
  /\ Done(ReadFile(Driver(fuel), f, n).s, f, want, may, FALSE)

Shorten(f, n, fuel) ==
  LET w == [want EXCEPT ![f] = SubSeq(@, 1, n)]
  IN  /\ Usable(f) /\ "WRITE" \in file[f].flags /\ n < file[f].size
      /\ \E r \in {Truncate(Driver(fuel), f, n)} :
           IF r.ok THEN Done(r, f, w, [may EXCEPT ![f] = Single(w[f])], TRUE)
           ELSE Done(r, f, want, may, TRUE)

\* SD.remove, with a handle of its own; nothing is freed before it has found the file.
Remove(f, fuel) ==
  /\ Usable(f) /\ file[f].type = "closed"
  /\ \E open \in {OpenFile(Driver(fuel), f, {"WRITE"})} :
     \E r \in {Then(open, LAMBDA s : RemoveFile(s, f))} :
       /\ open.ok \/ Fault(open)
       /\ Done([r EXCEPT !.file[f] = Closed], f,
               IF r.ok THEN [want EXCEPT ![f] = << >>] ELSE want,
               IF r.ok THEN [may EXCEPT ![f] = << >>] ELSE may, open.ok)

CreateContiguous(f, n, fuel) ==
  /\ Usable(f) /\ file[f].type = "closed"
  /\ \E r \in {CreateContiguousFile(Driver(fuel), f, n)} :
       LET view(b) == IF r.block = b THEN r.buf ELSE r.card[b]
           w == [want EXCEPT ![f] = Content(view, r.file[f].first, n)]
       IN  IF r.ok THEN Done(r, f, w, [may EXCEPT ![f] = Single(w[f])], FALSE)
           ELSE Done([r EXCEPT !.ok = ~Fault(r), !.file[f] = Closed], f, want, may, FALSE)

MakeDir(d, fuel) ==
  /\ Live
  /\ \E r \in {MakeDirectory(Driver(fuel), d)} :
       Done([r EXCEPT !.file[d] = Closed], d, want, may, FALSE)

RmDir(d, fuel) ==
  /\ Live
  /\ \E open \in {OpenFile(Driver(fuel), d, {"READ"})} :
     \E r \in {Then(open, LAMBDA s : RemoveDirectory(s, d))} :
       /\ open.ok \/ Fault(open)
       /\ Done([r EXCEPT !.file[d] = Closed], d, want, may, open.ok)

RmRfStar(fuel) ==
  /\ Live /\ \A f \in Names : file[f].type = "closed"
  /\ \E r \in {RemoveAll(Driver(fuel), 0)} :
       /\ r.ok \/ Fault(r)
       /\ LET left(w) == IF r.ok THEN [f \in Files |-> << >>] ELSE w
          IN  Done([r EXCEPT !.file = [f \in Names |-> Closed]], "", left(want), left(may), TRUE)

\* The power fails and comes back: SD.begin() reads the card afresh.
Restart ==
  /\ ~torn /\ starts < MaxStarts
  /\ starts' = starts + 1
  /\ cache' = EmptyCache /\ search' = 2
  /\ file' = [f \in Names |-> Closed]
  /\ want' = [f \in Files |-> CardContent(f)]
  /\ may' = [f \in Files |-> Single(CardContent(f))]
  /\ vague' = {}
  /\ UNCHANGED <<card, torn, faults, calls>>

\* The program stops using the card.
Idle == UNCHANGED vars

Next ==
  \/ Restart \/ Idle
  \/ \E fuel \in Fuel :
       \/ \E f \in Files :
            \/ \E oflag \in Modes : Open(f, oflag, fuel)
            \/ \E n \in Lengths : Write(f, n, NextByte(f), fuel) \/ Read(f, n, fuel)
            \/ \E n \in Positions : Seek(f, n, fuel) \/ Shorten(f, n, fuel)
            \/ \E close \in BOOLEAN : Flush(f, close, fuel)
            \/ Remove(f, fuel) \/ Stamp(f, fuel)
            \/ CreateContiguous(f, MaxSize, fuel)
       \/ \E d \in Dirs : MakeDir(d, fuel) \/ RmDir(d, fuel)
       \/ RmRfStar(fuel)

Spec == Init /\ [][Next]_vars

-----------------------------------------------------------------------------
Clean(f) == f \notin vague

\* A whole block was written over one that waited in the cache: the cache has lost its block
\* number and kept its dirty mark, and can never be flushed again (SdFile::write).
CacheLost == cache.dirty /\ cache.block = NoBlock

Entries(View(_)) == {i \in 0 .. RootSlots - 1 : View(RootBlock)[i].name \in Names}

\* Every entry of the directory has a chain of its own that is long enough for
\* its size: of the card alone, at any moment the power may fail, as long as no
\* call that frees clusters was interrupted.
ChainsDisjoint ==
  LET root == card[RootBlock]
      chain(i) == Chain(OnCard, root[i].first, ClusterCount + 1)
  IN  ~torn => \A i, j \in Entries(OnCard) :
        /\ root[i].size <= PerBlock * Len(chain(i))
        /\ i # j => /\ root[i].name # root[j].name
                    /\ {chain(i)[k] : k \in DOMAIN chain(i)}
                         \cap {chain(j)[k] : k \in DOMAIN chain(j)} = {}

\* After a power failure a reader of the card finds every byte that was there
\* at the last flush, or what has been written over it since.
FlushedSurvives ==
  ~torn => \A f \in Files : Clean(f) =>
    LET c == CardContent(f)
    IN  Len(c) = Len(may[f]) /\ \A i \in DOMAIN c : c[i] \in may[f][i]

\* What a program reads through an open file from its position on is what it wrote,
\* whichever of the two files used the one cache last - until the cache is lost.
ReadBack ==
  ~torn /\ ~CacheLost => \A f \in Files :
    (Clean(f) /\ "READ" \in file[f].flags /\ file[f].type = "file") =>
      ReadFile(Driver(Unlimited), f, MaxSize).out = SubSeq(want[f], file[f].pos + 1, Len(want[f]))

\* The blocks that contiguousRange gives for an open file hold, on the card, what the
\* program wrote to it, once the call has made the cache give up its block.
RangeHoldsFile ==
  ~torn => \A f \in Files : Clean(f) /\ file[f].type = "file" =>
    LET r == ContiguousRange(Driver(Unlimited), f)
        block(i) == r.bgn + (i - 1) \div PerBlock
    IN  r.s.ok => \A i \in DOMAIN want[f] :
                    /\ block(i) <= r.end
                    /\ r.s.card[block(i)][(i - 1) % PerBlock] = want[f][i]

\* The documented failures of sync are "a call to sync() before a file has been opened or an
\* I/O error" (SdFile.cpp:962): the sync of an open file succeeds while the card does.
SyncOnlyFailsByCard ==
  faults = 0 => \A f \in Files : file[f].type = "file" => Sync(Driver(Unlimited), f).ok

\* The second FAT is a copy of the first whenever no change is pending.
MirrorAgrees ==
  (faults = 0 /\ ~cache.dirty) =>
    \A b \in 0 .. BlocksPerFat - 1 : card[b] = card[b + BlocksPerFat]

\* A cluster that is marked as used belongs to a file: nothing is lost while no
\* call has failed.
NoLostClusters ==
  (faults = 0 /\ starts = 0 /\ vague = {}) =>
    LET first(f, i) == IF file[f].type = "closed" THEN InDriver(RootBlock)[i].first
                       ELSE file[f].first
        owned == UNION {LET ch == Chain(InDriver, first(InDriver(RootBlock)[i].name, i), ClusterCount)
                        IN  {ch[k] : k \in DOMAIN ch} : i \in Entries(InDriver)}
    IN  \A c \in 2 .. FatEnd : InDriver(FatBlock(c))[c % PerFat] # 0 <=> c \in owned
=============================================================================
