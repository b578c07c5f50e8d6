----------------------------- MODULE SdDirectory -----------------------------
(***************************************************************************)
(* Listing a directory of the card (File::openNextFile, SdFile::readDir)   *)
(* while files of it come and go.  A listing has a position of its own,    *)
(* and the length the directory had when it was opened; opening the file   *)
(* that was found looks its name up again, from the first entry, with the  *)
(* same position.                                                          *)
(***************************************************************************)
EXTENDS Integers, Sequences, FiniteSets, FiniteSetsExt, SequencesExt

CONSTANTS
  Names,
  PerCluster,   \* entries of a cluster
  MaxClusters   \* bound on the clusters of the directory

VARIABLES
  slots,     \* the entries on the card: [name, kind]
  dirFile,   \* the listing: pos (curPosition_ / 32), size (fileSize_ / 32), mode
  stable,    \* history: names there since the listing began, in the clusters it knows
  listed,    \* history: the files returned since it began, in order
  over       \* the listing has returned File()

dirVars == <<slots, dirFile, stable, listed, over>>

FREE == [name |-> "free", kind |-> "free"]
DELETED == [name |-> "deleted", kind |-> "deleted"]
Dots == [name |-> "dots", kind |-> "dots"]
Label == [name |-> "label", kind |-> "label"]

NewCluster == [i \in 1 .. PerCluster |-> FREE]
Present(n, upTo) == \E i \in 1 .. upTo : slots[i].name = n
NamesIn(upTo) == {n \in Names : Present(n, upTo)}

\* A directory with its dots and an entry that is neither a file nor a directory.
Init ==
  /\ slots = [NewCluster EXCEPT ![1] = Dots, ![2] = Label]
  /\ dirFile = [pos |-> 0, size |-> PerCluster, mode |-> "READ"]
  /\ stable = {} /\ listed = <<>> /\ over = FALSE

\* The slot of a new entry: the first one free or deleted.
Empty(s) == {i \in 1 .. Len(s) : s[i] \in {FREE, DELETED}}

\* Another handle creates a file or a directory; a full directory gets a cluster of free
\* entries.
Create(n, kind) ==
  /\ ~Present(n, Len(slots))
  /\ Empty(slots) = {} => Len(slots) < MaxClusters * PerCluster
  /\ \E s \in {IF Empty(slots) = {} THEN slots \o NewCluster ELSE slots} :
       slots' = [s EXCEPT ![Min(Empty(s))] = [name |-> n, kind |-> kind]]
  /\ UNCHANGED <<dirFile, stable, listed, over>>

RemoveEntry(n) ==
  /\ Present(n, Len(slots))
  /\ slots' = [i \in 1 .. Len(slots) |-> IF slots[i].name = n THEN DELETED ELSE slots[i]]
  /\ stable' = stable \ {n}
  /\ UNCHANGED <<dirFile, listed, over>>

Begins(d) ==
  dirFile' = d /\ stable' = NamesIn(d.size) /\ listed' = <<>> /\ over' = FALSE /\ UNCHANGED slots

\* SD.open of the directory, and rewindDirectory, which keeps the length.
OpenDir(mode) == Begins([pos |-> 0, size |-> Len(slots), mode |-> mode])
rewindDirectory == Begins([dirFile EXCEPT !.pos = 0])

\* Mutated form of readDir: an entry that was deleted ends the directory.
readDirDeleted(p) ==
  LET from == {i \in p + 1 .. dirFile.size : slots[i].kind \in {"free", "deleted", "file", "dir"}}
  IN  IF from = {} THEN dirFile.size + 1 ELSE Min(from)

\* readDir from position p: the place of the next file, directory or free entry, or past
\* the end.
readDir(p) ==
  LET from == {i \in p + 1 .. dirFile.size : slots[i].kind \in {"free", "file", "dir"}}
  IN  IF from = {} THEN dirFile.size + 1 ELSE Min(from)

\* Mutated form of readDirCache: the position stays at the entry.
readDirCacheStays(i) == i - 1

\* readDirCache of entry i leaves the position behind it: one byte read and 31 skipped.
readDirCache(i) == i

\* open by name: the entry with that name, and the position after the search.
Search(n) == Min({i \in 1 .. dirFile.size : slots[i].name = n})
Opens(e) == e.kind = "file" \/ (e.kind = "dir" /\ dirFile.mode = "READ")

More(i) == i <= dirFile.size /\ slots[i] # FREE

openNextFile ==
  \E i \in {readDir(dirFile.pos)} :
    \/ /\ ~More(i)
       /\ dirFile' = [dirFile EXCEPT !.pos = Min({i, dirFile.size})]
       /\ over' = TRUE /\ UNCHANGED <<slots, stable, listed>>
    \/ /\ More(i)
       /\ \E j \in {Search(slots[i].name)} :
            /\ dirFile' = [dirFile EXCEPT !.pos = readDirCache(j)]
            /\ listed' = IF Opens(slots[j]) THEN Append(listed, slots[j].name) ELSE listed
            /\ over' = (over \/ ~Opens(slots[j]))
       /\ UNCHANGED <<slots, stable>>

\* Mutated form of ls: entries that are neither files nor directories end the list.
lsShort ==
  LET end == Min({i \in 1 .. dirFile.size : slots[i].kind \notin {"deleted", "dots", "file", "dir"}}
                   \cup {dirFile.size + 1})
      shown == SelectSeq(SubSeq(slots, 1, end - 1), LAMBDA e : e.kind \in {"file", "dir"})
  IN  /\ dirFile' = [dirFile EXCEPT !.pos = Min({end, dirFile.size})]
      /\ listed' = [i \in DOMAIN shown |-> shown[i].name]
      /\ stable' = NamesIn(dirFile.size) /\ over' = TRUE
      /\ UNCHANGED slots

\* ls: from the first entry up to a free one or the end, what is a file or a directory is
\* printed; the content of a directory is printed through a handle of its own, and the
\* position is set behind it again.
ls ==
  LET end == Min({i \in 1 .. dirFile.size : slots[i] = FREE} \cup {dirFile.size + 1})
      shown == SelectSeq(SubSeq(slots, 1, end - 1), LAMBDA e : e.kind \in {"file", "dir"})
  IN  /\ dirFile' = [dirFile EXCEPT !.pos = Min({end, dirFile.size})]
      /\ listed' = [i \in DOMAIN shown |-> shown[i].name]
      /\ stable' = NamesIn(dirFile.size) /\ over' = TRUE
      /\ UNCHANGED slots

Next ==
  \/ \E n \in Names : RemoveEntry(n) \/ \E k \in {"file", "dir"} : Create(n, k)
  \/ \E m \in {"READ", "WRITE"} : OpenDir(m)
  \/ rewindDirectory \/ ls
  \/ Len(listed) <= Cardinality(Names) /\ openNextFile   \* bound

Spec == Init /\ [][Next]_dirVars
-----------------------------------------------------------------------------
\* When a listing for reading is over it has returned every file that was there all the
\* time, whatever was created and removed meanwhile; a file in a cluster added after the
\* directory was opened may be missed, and a listing for writing ends at the first
\* directory (openNextFile, rewindDirectory).
ListsAll == over /\ dirFile.mode = "READ" => stable \subseteq ToSet(listed)

\* Looking the name up again does not set the listing back: no file that was there all
\* the time is returned twice (openNextFile and open share the position).
ListedOnce ==
  \A i, j \in 1 .. Len(listed) : i < j /\ listed[i] \in stable => listed[i] # listed[j]
=============================================================================
