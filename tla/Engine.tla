------------------------------- MODULE Engine -------------------------------
(***************************************************************************)
(* class replay::Engine: what one answered request of the trace, or one    *)
(* garbage collection, does to the tree of nodes and to the file system    *)
(* under test.                                                             *)
(*                                                                         *)
(* Every handler is an operator that takes a world (see NodeTree), the     *)
(* request, the response and the nodes its getNode calls found, and returns *)
(* the world it leaves; an early return leaves the world it was given.     *)
(* The handlers run to completion one after the other: main() is single    *)
(* threaded.                                                               *)
(***************************************************************************)
EXTENDS NodeTree

CONSTANTS
  Exchange,      \* answered requests: [req, res] of one operation
  Faults,        \* sets of system calls that may fail during one exchange
  GcTimes,       \* times at which a collection may run
  HardThreshold, \* GC_NODE_HARD_THRESHOLD
  Discard,       \* GC_DISCARD_THRESHOLD
  DiscardHard,   \* GC_DISCARD_HARD_THRESHOLD
  SizeSpace,     \* 2^64: sizes and offsets are uint64_t
  InodeTest      \* Settings::inodeTest

ASSUME EngineAssumption ==
  /\ \A x \in Exchange : /\ x.res.time \in Int /\ x.res.size \in Nat
                         /\ x.req.offset \in Nat /\ x.req.count \in Nat
  /\ GcTimes \subseteq Int
  /\ HardThreshold \in Nat /\ Discard \in Nat /\ DiscardHard \in Nat
  /\ SizeSpace \in Nat \ {0}
  /\ InodeTest \in BOOLEAN

VARIABLES
  node,   \* fhmap, with the nodes it owns
  disk,   \* the file system under test
  err     \* the exception that ended the replay, or NoError

vars == <<node, disk, err>>

World(io) == [node |-> node, disk |-> disk, err |-> err, io |-> io]
Commit(w) == node' = w.node /\ disk' = w.disk /\ err' = w.err

-----------------------------------------------------------------------------
(* Helpers of the handlers.                                                *)

\* rename(2); then the old name is removed in case it is still there.
RenamePath(w, from, to) ==
  LET moved == Renamed(w.disk, from, to)
      gone  == from # to /\ "remove" \notin w.io /\ CanRemove(moved, from)
  IN  Then(w, IF "rename" \in w.io \/ ~CanRename(w.disk, from, to) THEN w
              ELSE [w EXCEPT !.disk = IF gone THEN Removed(moved, {from}) ELSE moved])

\* Slip: the path of the new parent is not made.
RenameUnprepared(w, e, p, x) ==
  IF ~w.node[e].created THEN w
  ELSE RenamePath(calcPath(calcPath(w, e), p), PathOf(w, e), Append(PathOf(w, p), x))

\* A created element is renamed to x in p, whose path is made first.
RenameOnDisk(w, e, p, x) ==
  IF ~w.node[e].created THEN w
  ELSE RenamePath(makePath(calcPath(w, e), p), PathOf(w, e), Append(PathOf(w, p), x))

ClearParent(w, p) == IF p = NoNode THEN w ELSE clearEmptyDir(w, p)

createMoveElement(w, e, p, x) ==
  ClearParent(addChild(setName(Detached(RenameOnDisk(w, e, p, x), e), e, x), p, e),
              w.node[e].parent)

\* Slip: the node keeps its type.
createKeepFType(w, e, ftype) == IF w.node[e].created THEN RemoveOnDisk(w, e) ELSE w

createChangeFType(w, e, ftype) ==
  LET v == IF w.node[e].created THEN RemoveOnDisk(w, e) ELSE w
  IN  Then(w, IF w.node[e].dir = (ftype = "DIR") THEN w
              ELSE SetDir(v, e, ftype = "DIR"))

\* Slip: a directory that has moved is given a second node.
NeverDisplaced(w, c, e, res) == FALSE

\* The name is taken by c.  When c has another handle than the response says,
\* a directory the map knows takes its place and c is renamed to its handle's
\* name; otherwise c gets the handle.
Displaced(w, c, e, res) == w.node[c].fh # res.fh /\ res.ftype = "DIR" /\ e # NoNode

\* Slip: the node keeps the handle of the file that had the name before.
SettleWithOldHandle(w, p, c, e, req, res) ==
  IF Displaced(w, c, e, res)
  THEN createMoveElement(createMoveElement(w, c, p, handleName[w.node[c].fh]), e, p, req.name)
  ELSE w

SettleElement(w, p, c, e, req, res) ==
  IF w.node[c].fh = res.fh THEN w
  ELSE IF Displaced(w, c, e, res)
  THEN createMoveElement(createMoveElement(w, c, p, handleName[w.node[c].fh]), e, p, req.name)
  ELSE switchNodeHandle(w, c, res.fh)

\* A new node for handle h, attached to p under name x.
AddNew(w, p, h, x, time, isDir) ==
  LET v == createNode(w, h, x, time)
  IN  Then(v, addChild(SetDir(v, NewNode(w), isDir), p, NewNode(w)))

\* The directory of a request, made if its handle is new, and visited.
VisitDir(w, h, found, time) ==
  Touch(getOrCreateDir(w, h, found, time), OrNew(w, found), time)

-----------------------------------------------------------------------------
(* Handlers.  d, e, ... are what getNode finds for the handles of the      *)
(* request and of the response.                                            *)

\* The guard createLookup and createFile share.  "." and ".." are not in Name.
NamesEntry(req, res) ==
  /\ req.fh \in Handle /\ res.fh \in Handle /\ req.fh # res.fh
  /\ req.name \in Name
  /\ res.ftype \in {"REG", "DIR"}

LookupIn(w, p, e, req, res) ==
  LET c     == w.node[p].kids[req.name]
      n     == IF c = NoNode \/ Displaced(w, c, e, res) THEN e ELSE c
      isDir == res.ftype = "DIR"
      \* a second name of a file that has one
      link  == c = NoNode /\ e # NoNode /\ ~isDir /\ w.node[e].parent # NoNode
      v     == IF c # NoNode THEN SettleElement(w, p, c, e, req, res)
               ELSE createMoveElement(w, e, p, req.name)
  IN  IF c = NoNode /\ e = NoNode
      THEN AddNew(w, p, res.fh, req.name, res.time, isDir)
      ELSE IF link
      THEN Touch(AddNew(w, p, w.node[e].fh, req.name, res.time, FALSE), e, res.time)
      ELSE Touch(createChangeFType(v, n, res.ftype), n, res.time)

createLookup(w, req, res, d, e) ==
  LET v == VisitDir(w, req.fh, d, res.time)
  IN  IF NamesEntry(req, res)
      THEN Then(v, LookupIn(v, OrNew(w, d), e, req, res)) ELSE w

\* Write file to new size.
Rewrite(w, n, res) ==
  LET v == IF res.op = "CREATE" THEN SetSize(w, n, 0) ELSE w
  IN  IF res.ftype = "DIR" THEN v ELSE writeToSize(v, n, res.size)

\* The name is taken.
CreateOver(w, p, c, e, req, res) ==
  LET n == IF Displaced(w, c, e, res) THEN e ELSE c
      v == Rewrite(SettleElement(w, p, c, e, req, res), n, res)
  IN  Touch(createChangeFType(v, n, res.ftype), n, res.time)

\* The name is free, but the map knows the regular file.
CreateAgain(w, p, e, req, res) ==
  LET v == IF w.node[e].created THEN RemoveOnDisk(w, e) ELSE w
      u == addChild(setName(Detached(v, e), e, req.name), p, e)
      t == writeToSize(SetSize(createChangeFType(u, e, res.ftype), e, 0), e, res.size)
  IN  Touch(ClearParent(t, w.node[e].parent), e, res.time)

\* Slip: a new file is not written.
CreateUnwritten(w, p, e, req, res) ==
  LET c == w.node[p].kids[req.name]
  IN  IF c # NoNode THEN CreateOver(w, p, c, e, req, res)
      ELSE IF res.ftype = "DIR" THEN LookupIn(w, p, e, req, res)
      ELSE IF e # NoNode THEN CreateAgain(w, p, e, req, res)
      ELSE AddNew(w, p, res.fh, req.name, res.time, FALSE)

CreateIn(w, p, e, req, res) ==
  LET c   == w.node[p].kids[req.name]
      new == AddNew(w, p, res.fh, req.name, res.time, FALSE)
  IN  IF c # NoNode THEN CreateOver(w, p, c, e, req, res)
      ELSE IF res.ftype = "DIR" THEN LookupIn(w, p, e, req, res)
      ELSE IF e # NoNode THEN CreateAgain(w, p, e, req, res)
      ELSE Then(new, writeToSize(new, NewNode(w), res.size))

createFile(w, req, res, d, e) ==
  LET v == VisitDir(w, req.fh, d, res.time)
  IN  IF NamesEntry(req, res)
      THEN Then(v, CreateIn(v, OrNew(w, d), e, req, res)) ELSE w

\* Slip: the file stays on the disk.
RemoveFromTreeOnly(w, d, c, time) ==
  LET u == deleteChild(w, d, c)
  IN  removeNode(Touch(Then(u, clearEmptyDir(u, d)), d, time), c)

RemoveChildOf(w, d, c, time) ==
  LET v == IF w.node[c].created THEN Unlink(w, c) ELSE w
      u == deleteChild(v, d, c)
  IN  removeNode(Touch(Then(u, clearEmptyDir(u, d)), d, time), c)

\* Slip: a REMOVE of what was never created is ignored.
removeCreatedFile(w, req, res, d) ==
  LET c == w.node[d].kids[req.name]
  IN  IF /\ req.fh \in Handle /\ req.name \in Name
         /\ d # NoNode
         /\ c # NoNode /\ isDeletable(w, c) /\ w.node[c].created
      THEN RemoveChildOf(w, d, c, res.time) ELSE w

removeFile(w, req, res, d) ==
  LET c == w.node[d].kids[req.name]
  IN  IF /\ req.fh \in Handle /\ req.name \in Name
         /\ d # NoNode
         /\ c # NoNode /\ isDeletable(w, c)
      THEN RemoveChildOf(w, d, c, res.time) ELSE w

\* The bytes a WRITE covers; off_t is the signed half of the size space.
FileLimit == SizeSpace \div 2
Fill(w, n, req) ==
  LET path == PathOf(w, n)
      last == Min({req.offset + req.count, FileLimit - 1})
  IN  IF req.offset >= FileLimit \/ req.count = 0 \/ "write" \in w.io THEN w
      ELSE [w EXCEPT !.disk = Resized(@, path, Max({SizeOf(@, path), last}))]

Truncate(w, n, size) ==
  IF size >= FileLimit \/ "truncate" \in w.io THEN w
  ELSE [w EXCEPT !.disk = Resized(@, PathOf(w, n), size)]

\* Slip: every WRITE truncates the file.
WriteToTruncated(w, n, req) ==
  LET end == (req.offset + req.count) % SizeSpace
      v   == IF end > w.node[n].size THEN SetSize(w, n, end) ELSE w
      u   == OpenNode(v, n, TRUE)
  IN  IF ~OpenOk(v, n) THEN v
      ELSE IF InodeTest THEN Truncate(u, n, u.node[n].size) ELSE Fill(u, n, req)

WriteTo(w, n, req) ==
  LET end == (req.offset + req.count) % SizeSpace
      v   == IF end > w.node[n].size THEN SetSize(w, n, end) ELSE w
      u   == OpenNode(v, n, w.node[n].size = 0)
  IN  IF ~OpenOk(v, n) THEN v
      ELSE IF InodeTest THEN Truncate(u, n, u.node[n].size) ELSE Fill(u, n, req)

writeFile(w, req, res, d) ==
  LET n == OrNew(w, d)
      v == Touch(getOrCreateNode(w, req.fh, d, res.time), n, res.time)
      u == Then(v, MakeParent(v, n))
      t == Then(u, calcPath(u, n))
  IN  IF req.fh \in Handle /\ res.ftype = "REG" THEN Then(t, WriteTo(t, n, req)) ELSE w

\* Slip: the node of the target is not freed.
OverwrittenLeak(w, a, q, b) ==
  IF b = NoNode THEN w
  ELSE deleteChild(IF w.node[b].created THEN SetCreated(w, a) ELSE w, q, b)

\* Slip: the target stays.
NotOverwritten(w, a, q, b) == w

\* The target b, which is overwritten, goes.
Overwritten(w, a, q, b) ==
  IF b = NoNode THEN w
  ELSE removeNode(deleteChild(IF w.node[b].created THEN SetCreated(w, a) ELSE w, q, b), b)

\* Slip: when rename(2) fails the tree stays as it is.
MoveIfRenamed(w, p, a, q, b, x) ==
  LET v == Overwritten(RenameOnDisk(w, a, q, x), a, q, b)
  IN  IF w.node[a].created /\ "rename" \in w.io THEN RenameOnDisk(w, a, q, x)
      ELSE clearEmptyDir(addChild(setName(removeChild(v, p, a), a, x), q, a), p)

\* a takes its place.
MoveOver(w, p, a, q, b, x) ==
  LET v == Overwritten(RenameOnDisk(w, a, q, x), a, q, b)
  IN  clearEmptyDir(addChild(setName(removeChild(v, p, a), a, x), q, a), p)

\* Slip: a directory that is not empty is overwritten.
RenameOverTree(w, p, a, q, req) ==
  LET b == w.node[q].kids[req.name2]
  IN  IF a # b THEN MoveOver(w, p, a, q, b, req.name2) ELSE w

RenameIn(w, p, a, q, req) ==
  LET b == w.node[q].kids[req.name2]
  IN  IF (b = NoNode \/ isDeletable(w, b)) /\ a # b
      THEN MoveOver(w, p, a, q, b, req.name2) ELSE w

renameFile(w, req, res, d, f) ==
  LET a == w.node[d].kids[req.name]
      q == OrNew(w, f)
      v == VisitDir(Touch(Touch(w, d, res.time), a, res.time), req.fh2, f, res.time)
  IN  IF /\ req.fh \in Handle /\ req.fh2 \in Handle
         /\ req.name \in Name /\ req.name2 \in Name
         /\ ~(req.fh = req.fh2 /\ req.name = req.name2)
         /\ d # NoNode
         /\ a # NoNode
      THEN Then(v, RenameIn(v, d, a, q, req)) ELSE w

\* remove(path) of the element a link replaces; it stays when that fails.
Replaceable(w, c) == w.node[c].created => CanUnlink(w, c)
\* Slip: the node is freed while its parent still has it.
ReplaceAttached(w, p, c) ==
  LET v == IF w.node[c].created THEN Unlink(w, c) ELSE w
  IN  removeNode(v, c)

ReplaceChild(w, p, c) ==
  LET v == IF w.node[c].created THEN Unlink(w, c) ELSE w
  IN  removeNode(deleteChild(v, p, c), c)

\* Slip: the link is made in the tree only.
LinkInTree(w, p, s, x, time) == AddNew(w, p, w.node[s].fh, x, time, FALSE)

LinkOnDisk(w, s, n, from, to) ==
  IF w.err # NoError \/ ~w.node[s].created THEN w
  ELSE IF "link" \notin w.io /\ CanLink(w.disk, from, to)
  THEN [SetCreated(w, n) EXCEPT !.disk = Linked(@, from, to)]
  ELSE IF Exists(w.disk, from) /\ Exists(w.disk, to) THEN SetCreated(w, n) ELSE w

LinkIn(w, p, s, x, time) ==
  LET v == IF w.node[s].created THEN makePath(calcPath(w, s), p) ELSE w
  IN  LinkOnDisk(AddNew(v, p, w.node[s].fh, x, time, FALSE), s, NewNode(w),
                 PathOf(w, s), Append(PathOf(w, p), x))

createLink(w, req, res, s, f) ==
  LET v == VisitDir(Touch(w, s, res.time), req.fh2, f, res.time)
      p == OrNew(w, f)
      c == v.node[p].kids[req.name]
      u == calcPath(v, c)
      t == ReplaceChild(v, p, c)
  IN  IF /\ req.fh \in Handle /\ req.fh2 \in Handle /\ req.name \in Name
         /\ s # NoNode
      THEN Then(v, IF c = NoNode THEN LinkIn(v, p, s, req.name, res.time)
                   ELSE IF ~isDeletable(v, c) \/ c = s THEN v
                   ELSE IF v.node[c].created /\ u.err # NoError THEN u
                   ELSE IF Replaceable(v, c)
                   THEN Then(t, LinkIn(t, p, s, req.name, res.time)) ELSE v)
      ELSE w

SymlinkOnDisk(w, p, n, to) ==
  IF w.err # NoError \/ ~w.node[p].created THEN w
  ELSE Then(calcPath(w, p),
            IF "symlink" \notin w.io /\ CanCreate(w.disk, to)
            THEN [SetCreated(w, n) EXCEPT !.disk = Symlinked(@, to)]
            ELSE IF Exists(w.disk, to) THEN SetCreated(w, n) ELSE w)

SymlinkIn(w, p, h, x, time) ==
  SymlinkOnDisk(AddNew(w, p, h, x, time, FALSE), p, NewNode(w), Append(PathOf(w, p), x))

createSymlink(w, req, res, d) ==
  LET v == VisitDir(w, req.fh, d, res.time)
      p == OrNew(w, d)
      c == v.node[p].kids[req.name]
      u == calcPath(v, c)
      t == ReplaceChild(v, p, c)
  IN  IF /\ req.fh \in Handle /\ res.fh \in Handle
         /\ req.name \in Name /\ req.name2 \in Name
      THEN Then(v, IF c = NoNode THEN SymlinkIn(v, p, res.fh, req.name, res.time)
                   ELSE IF ~isDeletable(v, c) THEN v
                   ELSE IF v.node[c].created /\ u.err # NoError THEN u
                   ELSE IF Replaceable(v, c)
                   THEN Then(t, SymlinkIn(t, p, res.fh, req.name, res.time)) ELSE v)
      ELSE w

\* lstat(2) reads only; what setAttr's chmod(2) and utime(2) change is not part
\* of a disk.
getAttr(w, req, res, d) ==
  LET v == Touch(w, d, res.time)
  IN  IF req.fh \in Handle /\ d # NoNode
      THEN IF w.node[d].created THEN calcPath(v, d) ELSE v
      ELSE w
setAttr(w, req, res, d) == getAttr(w, req, res, d)

-----------------------------------------------------------------------------
(* Engine::gc.  recursive_tree_gc walks down from every node of the map, in *)
(* the map's unspecified order, as long as it meets nodes that are not     *)
(* created and old; whatever the order, it collects the nodes below which  *)
(* every node is such.  What the order decides is which exceptions occur:  *)
(* taking a node from a parent with the same handle throws, and the walk   *)
(* does not return from a cycle.  The world a gc that throws leaves is the *)
(* one it was given: the program ends without looking at it.               *)

koTime(w, time) ==
  time - (IF Cardinality(DOMAIN w.node) > HardThreshold THEN DiscardHard ELSE Discard)

Stale(w, n, time) == ~w.node[n].created /\ w.node[n].access < koTime(w, time)

\* The largest set of stale nodes that holds the children of its nodes.
Garbage(w, time) ==
  UNION {S \in SUBSET {n \in DOMAIN w.node : Stale(w, n, time)} :
           \A n \in S : Kids(w, n) \subseteq S}

\* Slip: garbage is not taken from its parent.
CollectedInPlace(w, time) ==
  LET nodes == [n \in DOMAIN w.node \ Garbage(w, time) |-> w.node[n]]
  IN  [w EXCEPT !.node = nodes]

Collected(w, time) ==
  LET garbage == Garbage(w, time)
      Keep(n) == [x \in Name |-> IF w.node[n].kids[x] \in garbage THEN NoNode
                                 ELSE w.node[n].kids[x]]
      nodes   == [n \in DOMAIN w.node \ garbage |-> [w.node[n] EXCEPT !.kids = Keep(n)]]
  IN  [w EXCEPT !.node = nodes]

\* Garbage whose parent has the same handle: it is taken from its parent unless
\* the parent, garbage too, is reached first.
Misfits(w, time) ==
  {n \in Garbage(w, time) : LET p == w.node[n].parent
                            IN  p # NoNode /\ w.node[p].fh = w.node[n].fh}

\* The nodes of cycles, all of them stale; the walk is caught there unless a
\* child that is not garbage ends it first.
OnCycle(w, n) == w.node[n].parent # NoNode /\ n \in ToSet(Chain(w, w.node[n].parent))
Whirls(w, time) ==
  {n \in DOMAIN w.node : /\ OnCycle(w, n)
                         /\ \A m \in ToSet(Chain(w, n)) : Stale(w, m, time)}

gc(w, time) ==
  {v \in {Collected(w, time)} :
     /\ Whirls(w, time) \cap Garbage(w, time) = {}
     /\ \A n \in Misfits(w, time) : w.node[n].parent \in Garbage(w, time)}
  \cup {v \in {[w EXCEPT !.err = "Wrong parameter"]} : Misfits(w, time) # {}}
  \cup {v \in {[w EXCEPT !.err = "Stack overflow"]} : Whirls(w, time) # {}}

-----------------------------------------------------------------------------
(* The specification.                                                      *)

Init == node = <<>> /\ disk = EmptyDisk /\ err = NoError

\* Two calls of getNode with one handle find the same node.
SameFound(g, h, d, e) == g = h => d = e

Found(h) == getNode(World({}), h)

ReplayLookup(x, io) ==
  /\ x.res.op = "LOOKUP"
  /\ \E d \in Found(x.req.fh), e \in Found(x.res.fh) :
       Commit(createLookup(World(io), x.req, x.res, d, e))

ReplayCreate(x, io) ==
  /\ x.res.op \in {"CREATE", "MKDIR"}
  /\ \E d \in Found(x.req.fh), e \in Found(x.res.fh) :
       Commit(createFile(World(io), x.req, x.res, d, e))

ReplayRemove(x, io) ==
  /\ x.res.op \in {"REMOVE", "RMDIR"}
  /\ \E d \in Found(x.req.fh) : Commit(removeFile(World(io), x.req, x.res, d))

ReplayWrite(x, io) ==
  /\ x.res.op = "WRITE"
  /\ \E d \in Found(x.req.fh) : Commit(writeFile(World(io), x.req, x.res, d))

ReplayRename(x, io) ==
  /\ x.res.op = "RENAME"
  /\ \E d \in Found(x.req.fh), f \in Found(x.req.fh2) :
       /\ SameFound(x.req.fh, x.req.fh2, d, f)
       /\ Commit(renameFile(World(io), x.req, x.res, d, f))

ReplayLink(x, io) ==
  /\ x.res.op = "LINK"
  /\ \E s \in Found(x.req.fh), f \in Found(x.req.fh2) :
       /\ SameFound(x.req.fh, x.req.fh2, s, f)
       /\ Commit(createLink(World(io), x.req, x.res, s, f))

ReplaySymlink(x, io) ==
  /\ x.res.op = "SYMLINK"
  /\ \E d \in Found(x.req.fh) : Commit(createSymlink(World(io), x.req, x.res, d))

ReplayGetAttr(x, io) ==
  /\ x.res.op \in {"ACCESS", "GETATTR"}
  /\ \E d \in Found(x.req.fh) : Commit(getAttr(World(io), x.req, x.res, d))

ReplaySetAttr(x, io) ==
  /\ x.res.op = "SETATTR"
  /\ \E d \in Found(x.req.fh) : Commit(setAttr(World(io), x.req, x.res, d))

Process(x, io) ==
  \/ ReplayLookup(x, io)  \/ ReplayCreate(x, io) \/ ReplayRemove(x, io)
  \/ ReplayWrite(x, io)   \/ ReplayRename(x, io) \/ ReplayLink(x, io)
  \/ ReplaySymlink(x, io) \/ ReplayGetAttr(x, io) \/ ReplaySetAttr(x, io)

Collect(time) == \E w \in gc(World({}), time) : Commit(w)

\* An exception ends the replay: main() leaves its loop.
Next ==
  /\ err = NoError
  /\ \/ \E x \in Exchange, io \in Faults : Process(x, io)
     \/ \E time \in GcTimes : Collect(time)

Spec == Init /\ [][Next]_vars

-----------------------------------------------------------------------------
(* Properties: whatever the trace holds.                                   *)

\* The type invariant: every node is well typed, and the exception that ended
\* the replay, if any, is one the code throws.
TypeOK ==
  /\ DOMAIN node \subseteq Node
  /\ node \in [DOMAIN node -> NodeType]
  /\ err \in Error \cup {NoError}

\* No pointer of the tree dangles, and its two directions agree: a node is found
\* in its parent's map of children under its own name, and nowhere else.  The
\* nodes are owned by the FileHandleMap alone, which frees them in removeFile,
\* in renameFile, when a link replaces a file, and in gc.
TreeConsistent == ParentKnowsChild(node) /\ ChildKnowsParent(node)

\* No two nodes stand for one path of the file system under test, so that no
\* element is created, renamed or removed on behalf of another.  Roots are named
\* after their handles and are what nothing but the handle keeps apart.
PathsDistinct ==
  LET w == World({})
  IN  err = NoError =>
        \A m, n \in DOMAIN node :
          Rooted(w, m) /\ Rooted(w, n) /\ PathOf(w, m) = PathOf(w, n) => m = n

\* Engine never deletes a node that has children, renames a node that has a
\* parent, or removes a node from a parent that does not have it: those
\* exceptions of Node do not depend on the trace.
NoInternalError == err \notin InternalError

\* In w the name x of a directory with handle g is an entry for handle h.
Resolves(w, g, x, h, isDir) ==
  \E p \in DOMAIN w.node :
    LET c == w.node[p].kids[x]
    IN  w.node[p].fh = g /\ c # NoNode /\ w.node[c].fh = h /\ w.node[c].dir = isDir

\* Whatever was replayed before, and whether or not the disk follows, the tree
\* agrees with the answer to a LOOKUP, CREATE or MKDIR that was just replayed:
\* the name stands for the handle and the type of the answer.  This is how the
\* replay recovers from frames the trace has lost.
EntryResolves ==
  LET Agrees(w, f) ==
        w.err = NoError => Resolves(w, f.req.fh, f.req.name, f.res.fh, f.res.ftype = "DIR")
  IN  err = NoError =>
        \A f \in Exchange, io \in Faults :
          NamesEntry(f.req, f.res) =>
            \A d \in Found(f.req.fh), e \in Found(f.res.fh) :
              /\ f.res.op = "LOOKUP" =>
                   Agrees(createLookup(World(io), f.req, f.res, d, e), f)
              /\ f.res.op \in {"CREATE", "MKDIR"} =>
                   Agrees(createFile(World(io), f.req, f.res, d, e), f)
=============================================================================
