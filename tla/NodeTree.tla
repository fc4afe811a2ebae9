------------------------------ MODULE NodeTree ------------------------------
(***************************************************************************)
(* The in-memory tree of src/tree: class Node and class FileHandleMap.     *)
(*                                                                         *)
(* The operators work on a world w, a record of                            *)
(*   node : the nodes the FileHandleMap owns, by address                   *)
(*   disk : the file system under test (PosixFs)                           *)
(*   err  : the exception that is unwinding, NoError if none is            *)
(*   io   : the system calls that fail although their arguments are fine   *)
(*          (no space, an I/O error) while the current frame is replayed   *)
(* and return the world the member function of the same name leaves.  Once *)
(* an exception is thrown nothing catches it before main(), so that every  *)
(* later call of the handler is skipped: an operator returns the world it  *)
(* was given when w.err is set.                                            *)
(*                                                                         *)
(* A dangling pointer cannot be followed: TLC stops with an error when     *)
(* w.node is applied to an address that is not allocated.                  *)
(***************************************************************************)
EXTENDS PosixFs, Integers

CONSTANTS
  Handle,       \* file handles that are not empty
  Name,         \* file names that are not empty
  Node,         \* addresses; allocation fails with std::bad_alloc beyond them
  NoNode,       \* nullptr
  handleName    \* FileHandleInt::operator std::string

ASSUME TreeAssumption ==
  /\ IsFiniteSet(Node) /\ NoNode \notin Node
  /\ handleName \in [Handle -> Name]
  /\ \A g, h \in Handle : handleName[g] = handleName[h] => g = h

NoError == "none"
Error == {"Wrong parameter", "Cannot find element", "Same name present",
          "Children not empty", "Attached to a parent", "Path too long",
          "Stack overflow", "Not a directory", "Out of memory"}

\* The exceptions Node throws when it is used wrongly by Engine, whatever is in
\* the trace.
InternalError == {"Cannot find element", "Children not empty", "Attached to a parent"}

\* Sequencing: `next' happens unless an exception is unwinding.
Then(w, next) == IF w.err = NoError THEN next ELSE w

\* `if (!cond) throw e;' followed by `next'.
Check(w, cond, e, next) ==
  Then(w, IF cond THEN next ELSE [w EXCEPT !.err = e])

-----------------------------------------------------------------------------
(* Accessors.                                                              *)

Kids(w, n)        == {c \in {w.node[n].kids[x] : x \in Name} : c # NoNode}
isDeletable(w, n) == Kids(w, n) = {}
Touch(w, n, time) == Then(w, [w EXCEPT !.node[n].access = time])
SetDir(w, n, b)   == Then(w, [w EXCEPT !.node[n].dir = b])
SetSize(w, n, s)  == Then(w, [w EXCEPT !.node[n].size = s])
SetCreated(w, n)  == Then(w, [w EXCEPT !.node[n].created = TRUE])

-----------------------------------------------------------------------------
(* The tree.                                                               *)

removeChild(w, p, c) ==
  Check(w, p # c /\ w.node[p].fh # w.node[c].fh, "Wrong parameter",
  Check(w, w.node[p].kids[w.node[c].name] = c, "Cannot find element",
    [w EXCEPT !.node[p].kids[w.node[c].name] = NoNode, !.node[c].parent = NoNode]))

Detached(w, c) ==
  IF w.node[c].parent = NoNode THEN w ELSE removeChild(w, w.node[c].parent, c)

addChild(w, p, c) ==
  LET name == w.node[c].name
      v    == Detached(w, c)
  IN  Check(w, p # c /\ w.node[p].fh # w.node[c].fh, "Wrong parameter",
      IF w.node[p].kids[name] = c THEN w
      ELSE Check(w, w.node[p].kids[name] = NoNode, "Same name present",
           Then(v, [v EXCEPT !.node[p].kids[name] = c, !.node[c].parent = p])))

deleteChild(w, p, c) ==
  Check(w, isDeletable(w, c), "Children not empty", removeChild(w, p, c))

setName(w, n, x) ==
  Check(w, x = w.node[n].name \/ w.node[n].parent = NoNode, "Attached to a parent",
    [w EXCEPT !.node[n].name = x])

-----------------------------------------------------------------------------
(* FileHandleMap.  The multimap's key is always the node's own handle.     *)

\* getNode: which of several nodes with one handle the unordered_multimap
\* finds is unspecified.
getNode(w, h) ==
  LET found == {n \in DOMAIN w.node : w.node[n].fh = h}
  IN  IF found = {} THEN {NoNode} ELSE found

NewNode(w) == CHOOSE n \in Node : n \notin DOMAIN w.node

createNode(w, h, x, time) ==
  Check(w, Node \ DOMAIN w.node # {}, "Out of memory",
    [w EXCEPT !.node = [m \in DOMAIN @ \cup {NewNode(w)} |->
       IF m \in DOMAIN w.node THEN w.node[m]
       ELSE [fh |-> h, name |-> x, parent |-> NoNode, kids |-> [y \in Name |-> NoNode],
             created |-> FALSE, dir |-> FALSE, size |-> 0, access |-> time]]])

removeNode(w, n) == Then(w, [w EXCEPT !.node = Restrict(@, DOMAIN @ \ {n})])

switchNodeHandle(w, n, h) == Then(w, [w EXCEPT !.node[n].fh = h])

\* getOrCreateNode and getOrCreateDir, where found is what getNode found; the
\* node they return is OrNew(w, found).
OrNew(w, found) == IF found = NoNode THEN NewNode(w) ELSE found

getOrCreateNode(w, h, found, time) ==
  IF found # NoNode THEN w ELSE createNode(w, h, handleName[h], time)

\* Slip: a directory of which only the handle is known has no name.
getOrCreateNamelessDir(w, h, found, time) ==
  IF found = NoNode
  THEN SetDir(createNode(w, h, "", time), NewNode(w), TRUE)
  ELSE Check(w, w.node[found].dir, "Not a directory", w)

getOrCreateDir(w, h, found, time) ==
  IF found = NoNode
  THEN SetDir(createNode(w, h, handleName[h], time), NewNode(w), TRUE)
  ELSE Check(w, w.node[found].dir, "Not a directory", w)

-----------------------------------------------------------------------------
(* Paths.  Names are short: a path is too long only when the parents of a  *)
(* node form a cycle, on which calcPath fills its buffer and throws, and   *)
(* makePathHelper recurses until the stack is exhausted.                   *)

\* The chain, continued with the parent of its first node.
Up(w, chain) ==
  LET p == w.node[chain[1]].parent IN IF p = NoNode THEN chain ELSE <<p>> \o chain

\* The nodes from the root of n's tree to n (cut off on a cycle).
Chain(w, n) ==
  LET N == Cardinality(DOMAIN w.node)
      up[k \in 1 .. N] == IF k = 1 THEN <<n>> ELSE Up(w, up[k - 1])
  IN  up[N]

Rooted(w, n) == w.node[Chain(w, n)[1]].parent = NoNode
PathAlong(w, chain) == [i \in DOMAIN chain |-> w.node[chain[i]].name]
PathOf(w, n) == PathAlong(w, Chain(w, n))

calcPath(w, n) == Check(w, Rooted(w, n), "Path too long", w)

\* w with disk d, on which the nodes of N are created, or no longer created.
Marked(w, N, d) ==
  LET nodes == [m \in DOMAIN w.node |->
                  [w.node[m] EXCEPT !.created = w.node[m].created \/ m \in N]]
  IN  [w EXCEPT !.disk = d, !.node = nodes]
\* Slip: directories that are removed from the disk still count as created.
StillMarked(w, N, d) == [w EXCEPT !.disk = d]

Unmarked(w, N, d) ==
  LET nodes == [m \in DOMAIN w.node |->
                  [w.node[m] EXCEPT !.created = w.node[m].created /\ m \notin N]]
  IN  [w EXCEPT !.disk = d, !.node = nodes]

\* makePathHelper: every directory from the root down that is not created is
\* made; one that exists already counts as created.
MakeAlong(w, chain, path) ==
  LET Path(k)    == SubSeq(path, 1, k)
      Made(k)    == /\ ~Exists(w.disk, Path(k)) /\ ~w.node[chain[k]].created
                    /\ "mkdir" \notin w.io
      Reached(k) == \A j \in 1 .. k : IsDir(w.disk, Path(j)) \/ Made(j)
      created    == {chain[k] : k \in {j \in DOMAIN chain :
                                         Exists(w.disk, Path(j)) \/ Reached(j)}}
      made       == {Path(k) : k \in {j \in DOMAIN chain : Made(j) /\ Reached(j)}}
  IN  Marked(w, created, Mkdirs(w.disk, made))

MakeChain(w, n) == MakeAlong(w, Chain(w, n), PathOf(w, n))

makePath(w, n) ==
  IF w.node[n].created THEN calcPath(w, n)
  ELSE Check(w, Rooted(w, n), "Stack overflow", MakeChain(w, n))

\* The parent's path, made before a file is opened in it.
MakeParent(w, n) ==
  LET p == w.node[n].parent
  IN  Then(w, IF p # NoNode /\ ~w.node[p].created THEN makePath(w, p) ELSE w)

\* Upwards from d, created directories without a created child are removed
\* from the disk, until one is still in use or cannot be removed.
ClearAlong(w, chain, path) ==
  LET L == Len(chain)
      Path(k)  == SubSeq(path, 1, k)
      Idle(k)  == /\ w.node[chain[k]].created
                  /\ \A c \in Kids(w, chain[k]) :
                       w.node[c].created => k < L /\ c = chain[k + 1]
      Empty(k) == /\ "remove" \notin w.io /\ Exists(w.disk, Path(k))
                  /\ \A q \in Below(w.disk, Path(k)) : k < L /\ IsPrefix(Path(k + 1), q)
      Cleared  == {k \in DOMAIN chain : \A j \in k .. L : Idle(j) /\ Empty(j)}
      Clear(K) == Unmarked(w, {chain[k] : k \in K}, Removed(w.disk, {Path(k) : k \in K}))
  IN  Check(w, Idle(L) => Rooted(w, chain[L]), "Path too long", Clear(Cleared))

clearEmptyDir(w, d) == ClearAlong(w, Chain(w, d), PathOf(w, d))

-----------------------------------------------------------------------------
(* Files.                                                                  *)

\* remove(calcPath()), and with it the reset of created when it succeeds.
CanUnlink(w, n) == "remove" \notin w.io /\ CanRemove(w.disk, PathOf(w, n))
Unlink(w, n) ==
  Then(calcPath(w, n), IF CanUnlink(w, n)
                       THEN [w EXCEPT !.disk = Removed(@, {PathOf(w, n)})] ELSE w)
RemoveOnDisk(w, n) ==
  LET v == Unlink(w, n)
  IN  Then(v, IF CanUnlink(w, n) THEN [v EXCEPT !.node[n].created = FALSE] ELSE v)

\* open(O_RDWR | O_CREAT) of n's path.
OpenOk(w, n) == "open" \notin w.io /\ CanOpen(w.disk, PathOf(w, n))
OpenNode(w, n, trunc) ==
  [w EXCEPT !.node[n].created = TRUE, !.disk = Opened(@, PathOf(w, n), trunc)]

SetLength(w, path, size) == [w EXCEPT !.disk = Resized(@, path, size)]

OpenToSize(w, n, size, trunc) ==
  Then(w, IF ~OpenOk(w, n) THEN w
          ELSE IF "truncate" \in w.io THEN OpenNode(w, n, trunc)
          ELSE SetLength(OpenNode(w, n, trunc), PathOf(w, n), size))

writeToSize(w, n, size) ==
  LET curr == w.node[n].size
      v    == IF w.node[n].created THEN calcPath(w, n) ELSE w
  IN  IF w.err # NoError \/ (w.node[n].created /\ curr = size) THEN w
      ELSE IF /\ w.node[n].created /\ Rooted(w, n)
              /\ IsFile(w.disk, PathOf(w, n)) /\ "truncate" \notin w.io
           THEN SetLength(w, PathOf(w, n), size)
      ELSE OpenToSize(calcPath(SetSize(MakeParent(v, n), n, size), n), n, size, size < curr)

-----------------------------------------------------------------------------
(* Well-formed trees.                                                      *)

NodeType ==
  [fh : Handle, name : Name, parent : Node \cup {NoNode},
   kids : [Name -> Node \cup {NoNode}], created : BOOLEAN, dir : BOOLEAN,
   size : Nat, access : Int]

\* A node's parent is allocated and has the node in its map of children, under
\* the node's name.
ParentKnowsChild(nodes) ==
  \A n \in DOMAIN nodes : nodes[n].parent # NoNode =>
    /\ nodes[n].parent \in DOMAIN nodes
    /\ nodes[nodes[n].parent].kids[nodes[n].name] = n

\* What a map of children holds under a name is allocated, has that name, and
\* has the map's node as its parent.
ChildKnowsParent(nodes) ==
  \A n \in DOMAIN nodes, x \in Name : nodes[n].kids[x] # NoNode =>
    /\ nodes[n].kids[x] \in DOMAIN nodes
    /\ nodes[nodes[n].kids[x]].parent = n
    /\ nodes[nodes[n].kids[x]].name = x
=============================================================================
