--------------------------------- MODULE SDClass ---------------------------------
(***************************************************************************)
(* The path handling of libraries/SD/SD.cpp over a tree of directories.     *)
(* There are two walks down a path: walkPath with a callback per component  *)
(* (exists, mkdir, rmdir, remove) and getParentDir (open).  Paths are       *)
(* sequences of characters; a node of the tree is the sequence of the names *)
(* that lead to it.  What SdFile does with one name in one directory is     *)
(* taken from module SdFile and reduced to its effect on the tree.          *)
(***************************************************************************)
EXTENDS Integers, Sequences, SequencesExt

CONSTANTS MAX_COMPONENT_LEN,  \* of a name in 8.3 form (12)
          Paths               \* the paths a sketch passes

VARIABLES tree,     \* node -> "dir" or "file"
          done      \* the last call: [call, path, ok, before]

pathVars == <<tree, done>>

Root == <<>>
Slash == "/"

(*----------------------- SdFile, one name in a directory ------------------*)
Usable(name) == Len(name) \in 1 .. MAX_COMPONENT_LEN

OpenIn(t, dir, name) == t[dir] = "dir" /\ Usable(name) /\ Append(dir, name) \in DOMAIN t

Without(t, node) == [n \in DOMAIN t \ {node} |-> t[n]]

Including(t, node, kind) == [n \in DOMAIN t \cup {node} |-> IF n = node THEN kind ELSE t[n]]

EmptyNever(t, node) == TRUE

Empty(t, node) == \A n \in DOMAIN t : ~IsStrictPrefix(node, n)

(*------------------------------- walking a path ---------------------------*)
Until(path) == SelectInSeq(path, LAMBDA c : c = Slash)

Unslashed(path) == IF path /= <<>> /\ path[1] = Slash THEN Tail(path) ELSE path

\* getNextPathComponent: one leading slash, at most MAX_COMPONENT_LEN characters, one trailing slash.
NameLength(path) ==
  LET upTo == IF Until(path) = 0 THEN Len(path) ELSE Until(path) - 1
  IN  IF upTo > MAX_COMPONENT_LEN THEN MAX_COMPONENT_LEN ELSE upTo

getNextPathComponentShort(path) ==
  LET p == Unslashed(path)
      n == NameLength(p)
  IN  [name |-> SubSeq(p, 1, n), rest |-> SubSeq(p, n + 1, Len(p))]

getNextPathComponent(path) ==
  LET p == Unslashed(path)
      n == NameLength(p)
  IN  [name |-> SubSeq(p, 1, n), rest |-> Unslashed(SubSeq(p, n + 1, Len(p)))]

callback_pathExists(t, dir, name) == [ok |-> OpenIn(t, dir, name), tree |-> t]

\* A name that exists is taken as it is, directory or not.
callback_makeDirPath(t, dir, name, room) ==
  IF OpenIn(t, dir, name) THEN [ok |-> TRUE, tree |-> t]
  ELSE IF room /\ t[dir] = "dir" /\ Usable(name)
         THEN [ok |-> TRUE, tree |-> Including(t, Append(dir, name), "dir")]
         ELSE [ok |-> FALSE, tree |-> t]

callback_removeAny(t, dir, name, last) ==
  IF OpenIn(t, dir, name) /\ t[Append(dir, name)] = "file"
    THEN [ok |-> TRUE, tree |-> Without(t, Append(dir, name))] ELSE [ok |-> ~last, tree |-> t]

callback_remove(t, dir, name, last) ==
  IF ~last THEN [ok |-> TRUE, tree |-> t]
  ELSE IF OpenIn(t, dir, name) /\ t[Append(dir, name)] = "file"
         THEN [ok |-> TRUE, tree |-> Without(t, Append(dir, name))] ELSE [ok |-> FALSE, tree |-> t]

callback_rmdir(t, dir, name, last) ==
  IF ~last THEN [ok |-> TRUE, tree |-> t]
  ELSE IF OpenIn(t, dir, name) /\ t[Append(dir, name)] = "dir" /\ Empty(t, Append(dir, name))
         THEN [ok |-> TRUE, tree |-> Without(t, Append(dir, name))] ELSE [ok |-> FALSE, tree |-> t]

Callback(call, t, dir, name, last, room) ==
  CASE call = "exists" -> callback_pathExists(t, dir, name)
    [] call = "mkdir"  -> callback_makeDirPath(t, dir, name, room)
    [] call = "remove" -> callback_remove(t, dir, name, last)
    [] call = "rmdir"  -> callback_rmdir(t, dir, name, last)

RECURSIVE walkPath(_, _, _, _, _)
walkPath(call, t, dir, path, room) ==
  LET c == getNextPathComponent(path)
      r == Callback(call, t, dir, c.name, c.rest = <<>>, room)
  IN  IF ~r.ok \/ c.rest = <<>> THEN r
      ELSE IF OpenIn(r.tree, dir, c.name) THEN walkPath(call, r.tree, Append(dir, c.name), c.rest, room)
      ELSE [ok |-> FALSE, tree |-> r.tree]

\* getParentDir: slashes are skipped; what follows the last one is left for open.
RECURSIVE getParentDir(_, _, _)
getParentDir(t, dir, path) ==
  IF Until(path) = 0 THEN [ok |-> TRUE, dir |-> dir, name |-> path]
  ELSE IF path[1] = Slash THEN getParentDir(t, dir, Tail(path))
  ELSE LET name == SubSeq(path, 1, NameLength(path))
       IN  IF OpenIn(t, dir, name)
             THEN getParentDir(t, Append(dir, name), SubSeq(path, Len(name) + 1, Len(path)))
             ELSE [ok |-> FALSE, dir |-> dir, name |-> path]

openForRead(t, path) ==
  LET p == getParentDir(t, Root, path)
  IN  p.ok /\ (p.name = <<>> \/ OpenIn(t, p.dir, p.name))

\* open for writing creates a file that is not there, and refuses a directory.
openForWrite(t, path, room) ==
  LET p    == getParentDir(t, Root, path)
      node == Append(p.dir, p.name)
  IN  IF ~p.ok \/ p.name = <<>> THEN [ok |-> p.ok, tree |-> t]
      ELSE IF OpenIn(t, p.dir, p.name) THEN [ok |-> t[node] = "file", tree |-> t]
      ELSE IF room /\ t[p.dir] = "dir" /\ Usable(p.name) THEN [ok |-> TRUE, tree |-> Including(t, node, "file")]
      ELSE [ok |-> FALSE, tree |-> t]

(*--------------------------------- the calls ------------------------------*)
Did(call, path, r) ==
  /\ tree' = r.tree
  /\ done' = [call |-> call, path |-> path, ok |-> r.ok, before |-> tree]

exists(path) == Did("exists", path, walkPath("exists", tree, Root, path, TRUE))

mkdir(path) == \E room \in BOOLEAN : Did("mkdir", path, walkPath("mkdir", tree, Root, path, room))

rmdir(path) == Did("rmdir", path, walkPath("rmdir", tree, Root, path, TRUE))

remove(path) == Did("remove", path, walkPath("remove", tree, Root, path, TRUE))

openFile(path) == \E room \in BOOLEAN : Did("open", path, openForWrite(tree, path, room))

Init ==
  /\ tree = [n \in {Root} |-> "dir"]
  /\ done = [call |-> "none", path |-> <<>>, ok |-> TRUE, before |-> tree]

Next == \E path \in Paths : exists(path) \/ mkdir(path) \/ rmdir(path) \/ remove(path) \/ openFile(path)

Spec == Init /\ [][Next]_pathVars

---------------------------------------------------------------------------
\* What a path means: the names between its slashes.
RECURSIVE Names(_)
Names(path) ==
  LET p == Unslashed(path)
      n == IF Until(p) = 0 THEN Len(p) ELSE Until(p) - 1
  IN  IF p = <<>> THEN <<>> ELSE <<SubSeq(p, 1, n)>> \o Names(SubSeq(p, n + 1, Len(p)))

\* A path with names that fit and no name missing between two slashes.
Proper(path) == Names(path) /= <<>> /\ \A i \in 1 .. Len(Names(path)) : Usable(Names(path)[i])

\* The two walks agree: a file or directory can be opened exactly if exists finds it, for every
\* proper path, with or without leading and trailing slash.
WalksAgree ==
  \A path \in Paths : Proper(path) =>
    LET found == walkPath("exists", tree, Root, path, TRUE).ok
    IN  found = openForRead(tree, path) /\ found = (Names(path) \in DOMAIN tree)

\* A call changes nothing but what its path names: mkdir adds directories on the way and reports
\* success only if the whole path is there; remove and rmdir take away the last name only; a failed
\* remove or rmdir changes nothing.
OnlyNamedChanges ==
  Proper(done.path) =>
    LET node == Names(done.path)
    IN  /\ \A n \in DOMAIN tree \ DOMAIN done.before : IsPrefix(n, node)
        /\ \A n \in DOMAIN done.before \ DOMAIN tree : n = node /\ done.ok
        /\ done.call \in {"mkdir", "open"} /\ done.ok => node \in DOMAIN tree
        /\ done.call \in {"rmdir", "remove"} /\ done.ok => node \notin DOMAIN tree

\* Nothing is left hanging below a directory that is gone or below a plain file.
NoOrphans == \A n \in DOMAIN tree : n /= Root => Front(n) \in DOMAIN tree /\ tree[Front(n)] = "dir"
==================================================================================
