--------------------------- MODULE NodeTreeProofs ---------------------------
(***************************************************************************)
(* What the operators of NodeTree preserve.  A world is good when its heap *)
(* of nodes is well formed and no exception is unwinding that only a wrong *)
(* use of Node can throw.                                                  *)
(***************************************************************************)
EXTENDS NodeTree, TLAPS

Heap(nodes) ==
  /\ DOMAIN nodes \subseteq Node
  /\ nodes \in [DOMAIN nodes -> NodeType]
  /\ ParentKnowsChild(nodes)
  /\ ChildKnowsParent(nodes)

GoodErr(e) == e \in (Error \cup {NoError}) \ InternalError

Good(w) ==
  /\ DOMAIN w = {"node", "disk", "err", "io"}
  /\ GoodErr(w.err)
  /\ Heap(w.node)

\* v differs from w in the disk and in attributes of the nodes, not in the tree,
\* and if an exception was unwinding it still is.
SameTree(w, v) ==
  /\ DOMAIN v = {"node", "disk", "err", "io"}
  /\ GoodErr(v.err) /\ (v.err = NoError => w.err = NoError)
  /\ v.node \in [DOMAIN w.node -> NodeType]
  /\ \A n \in DOMAIN w.node : /\ v.node[n].fh = w.node[n].fh
                              /\ v.node[n].name = w.node[n].name
                              /\ v.node[n].parent = w.node[n].parent
                              /\ v.node[n].dir = w.node[n].dir
                              /\ v.node[n].kids = w.node[n].kids

\* What SameTree leaves of one node.
LEMMA SameTreeNode ==
  ASSUME NEW w, NEW v, SameTree(w, v), NEW n \in DOMAIN w.node
  PROVE  /\ n \in DOMAIN v.node
         /\ v.node[n].parent = w.node[n].parent /\ v.node[n].kids = w.node[n].kids
         /\ isDeletable(w, n) => isDeletable(v, n)
BY DEF SameTree, isDeletable, Kids

\* v is w, or an exception in w, or w with c taken from its parent.
Loosened(w, v, c) ==
  /\ Good(v) /\ DOMAIN v.node = DOMAIN w.node
  /\ v.err = NoError => v.node[c].parent = NoNode
  /\ v.node[c].kids = w.node[c].kids
  /\ \A m \in DOMAIN w.node : /\ v.node[m].name = w.node[m].name
                              /\ m # c => v.node[m].parent = w.node[m].parent
                              /\ \A y \in Name : v.node[m].kids[y] \in {w.node[m].kids[y], NoNode}

\* v has the nodes of w, placed as they were in w, and maybe new ones.
Extended(w, v) ==
  /\ Good(v) /\ DOMAIN w.node \subseteq DOMAIN v.node
  /\ \A m \in DOMAIN w.node : /\ v.node[m].fh = w.node[m].fh
                              /\ v.node[m].name = w.node[m].name
                              /\ v.node[m].parent = w.node[m].parent
                              /\ v.node[m].kids = w.node[m].kids

-----------------------------------------------------------------------------
(* Heaps.                                                                  *)

\* Two nodes of a heap whose two directions agree.
Links(old, p, c) ==
  /\ p \in DOMAIN old /\ c \in DOMAIN old /\ NoNode \notin DOMAIN old
  /\ \A m \in DOMAIN old : old[m].name \in Name
  /\ ParentKnowsChild(old) /\ ChildKnowsParent(old)

\* new is old with kid at c's name under p, and par as the parent of c.
Edited(old, new, p, c, kid, par) ==
  /\ DOMAIN new = DOMAIN old
  /\ new[c].parent = par /\ new[p].kids[old[c].name] = kid
  /\ \A m \in DOMAIN old : new[m].name = old[m].name
  /\ \A m \in DOMAIN old : m # c => new[m].parent = old[m].parent
  /\ \A m \in DOMAIN old, y \in Name :
       m # p \/ y # old[c].name => new[m].kids[y] = old[m].kids[y]

\* Removing the link between a parent and its child keeps the two directions of
\* the tree in agreement.
LEMMA DetachLinks ==
  ASSUME NEW old, NEW new, NEW p, NEW c, Links(old, p, c), old[p].kids[old[c].name] = c,
         Edited(old, new, p, c, NoNode, NoNode)
  PROVE  ParentKnowsChild(new) /\ ChildKnowsParent(new)
<1>1. ASSUME NEW m \in DOMAIN old, new[m].parent # NoNode
      PROVE  new[m].parent \in DOMAIN old /\ new[new[m].parent].kids[new[m].name] = m
  BY <1>1 DEF Links, Edited, ParentKnowsChild, ChildKnowsParent
<1>2. ASSUME NEW m \in DOMAIN old, NEW y \in Name, new[m].kids[y] # NoNode
      PROVE  /\ new[m].kids[y] \in DOMAIN old
             /\ new[new[m].kids[y]].parent = m /\ new[new[m].kids[y]].name = y
  BY <1>2 DEF Links, Edited, ParentKnowsChild, ChildKnowsParent
<1> QED BY <1>1, <1>2 DEF Links, Edited, ParentKnowsChild, ChildKnowsParent

\* Removing a child from its parent leaves a well-formed heap.
LEMMA HeapDetach ==
  ASSUME NEW old, Heap(old), NEW p \in DOMAIN old, NEW c \in DOMAIN old, p # c,
         old[p].kids[old[c].name] = c,
         NEW new, new = [old EXCEPT ![p].kids[old[c].name] = NoNode, ![c].parent = NoNode]
  PROVE  Heap(new) /\ DOMAIN new = DOMAIN old
<1> DEFINE x == old[c].name
<1>1. DOMAIN new = DOMAIN old
  OBVIOUS
<1>2. /\ old[p] \in NodeType /\ old[c] \in NodeType /\ x \in Name
      /\ new[p] = [old[p] EXCEPT !.kids = [old[p].kids EXCEPT ![x] = NoNode]]
      /\ new[c] = [old[c] EXCEPT !.parent = NoNode]
      /\ \A m \in DOMAIN old \ {p, c} : new[m] = old[m]
  BY DEF Heap, NodeType
<1>3. new[p] \in NodeType /\ new[c] \in NodeType
  BY <1>2 DEF Heap, NodeType
<1>4. new \in [DOMAIN old -> NodeType]
  BY <1>2, <1>3 DEF Heap
<1>5. Edited(old, new, p, c, NoNode, NoNode)
  BY <1>1, <1>2 DEF Heap, NodeType, Edited
<1>6. Links(old, p, c)
  BY TreeAssumption DEF Heap, NodeType, Links
<1>7. ParentKnowsChild(new) /\ ChildKnowsParent(new)
  BY <1>5, <1>6, DetachLinks
<1> QED BY <1>1, <1>4, <1>7 DEF Heap

\* So does linking a node without parent to a free place.
LEMMA AttachLinks ==
  ASSUME NEW old, NEW new, NEW p, NEW c, Links(old, p, c), old[p].kids[old[c].name] = NoNode /\ old[c].parent = NoNode,
         Edited(old, new, p, c, c, p)
  PROVE  ParentKnowsChild(new) /\ ChildKnowsParent(new)
<1>1. ASSUME NEW m \in DOMAIN old, new[m].parent # NoNode
      PROVE  new[m].parent \in DOMAIN old /\ new[new[m].parent].kids[new[m].name] = m
  BY <1>1 DEF Links, Edited, ParentKnowsChild, ChildKnowsParent
<1>2. ASSUME NEW m \in DOMAIN old, NEW y \in Name, new[m].kids[y] # NoNode
      PROVE  /\ new[m].kids[y] \in DOMAIN old
             /\ new[new[m].kids[y]].parent = m /\ new[new[m].kids[y]].name = y
  BY <1>2 DEF Links, Edited, ParentKnowsChild, ChildKnowsParent
<1> QED BY <1>1, <1>2 DEF Links, Edited, ParentKnowsChild, ChildKnowsParent

\* Adding a node without parent at a free place leaves a well-formed heap.
LEMMA HeapAttach ==
  ASSUME NEW old, Heap(old), NEW p \in DOMAIN old, NEW c \in DOMAIN old, p # c,
         old[c].parent = NoNode, old[p].kids[old[c].name] = NoNode,
         NEW new, new = [old EXCEPT ![p].kids[old[c].name] = c, ![c].parent = p]
  PROVE  Heap(new) /\ DOMAIN new = DOMAIN old
<1> DEFINE x == old[c].name
<1>1. DOMAIN new = DOMAIN old
  OBVIOUS
<1>2. /\ old[p] \in NodeType /\ old[c] \in NodeType /\ x \in Name
      /\ new[p] = [old[p] EXCEPT !.kids = [old[p].kids EXCEPT ![x] = c]]
      /\ new[c] = [old[c] EXCEPT !.parent = p]
      /\ \A m \in DOMAIN old \ {p, c} : new[m] = old[m]
  BY DEF Heap, NodeType
<1>3. new[p] \in NodeType /\ new[c] \in NodeType
  BY <1>2 DEF Heap, NodeType
<1>4. new \in [DOMAIN old -> NodeType]
  BY <1>2, <1>3 DEF Heap
<1>5. Edited(old, new, p, c, c, p)
  BY <1>1, <1>2 DEF Heap, NodeType, Edited
<1>6. Links(old, p, c)
  BY TreeAssumption DEF Heap, NodeType, Links
<1>7. ParentKnowsChild(new) /\ ChildKnowsParent(new)
  BY <1>5, <1>6, AttachLinks
<1> QED BY <1>1, <1>4, <1>7 DEF Heap

\* So does naming a node that has no parent.
LEMMA HeapRename ==
  ASSUME NEW nodes, Heap(nodes), NEW n \in DOMAIN nodes, nodes[n].parent = NoNode,
         NEW x \in Name, NEW new, new = [nodes EXCEPT ![n].name = x]
  PROVE  Heap(new) /\ DOMAIN new = DOMAIN nodes
<1>1. DOMAIN new = DOMAIN nodes
  OBVIOUS
<1>2. new \in [DOMAIN nodes -> NodeType]
  BY DEF Heap, NodeType
<1>3. ParentKnowsChild(new) /\ ChildKnowsParent(new)
  BY TreeAssumption DEF Heap, NodeType, ParentKnowsChild, ChildKnowsParent
<1> QED BY <1>1, <1>2, <1>3 DEF Heap

\* So does freeing a node without parent and children.
LEMMA HeapFree ==
  ASSUME NEW nodes, Heap(nodes), NEW n \in DOMAIN nodes, nodes[n].parent = NoNode,
         \A x \in Name : nodes[n].kids[x] = NoNode,
         NEW new, new = [m \in DOMAIN nodes \ {n} |-> nodes[m]]
  PROVE  Heap(new)
<1>1. DOMAIN new = DOMAIN nodes \ {n} /\ new \in [DOMAIN new -> NodeType]
  BY DEF Heap
<1>2. ParentKnowsChild(new) /\ ChildKnowsParent(new)
  BY <1>1, TreeAssumption DEF Heap, NodeType, ParentKnowsChild, ChildKnowsParent
<1> QED BY <1>1, <1>2 DEF Heap

\* A heap whose tree is that of a well-formed heap is well formed.
LEMMA SameTreeGood ==
  ASSUME NEW w, Good(w), NEW v, SameTree(w, v)
  PROVE  Good(v) /\ DOMAIN v.node = DOMAIN w.node
<1>1. DOMAIN v.node = DOMAIN w.node
  BY DEF SameTree
<1>2. ParentKnowsChild(v.node) /\ ChildKnowsParent(v.node)
  BY <1>1 DEF Good, Heap, SameTree, ParentKnowsChild, ChildKnowsParent, NodeType
<1> QED BY <1>1, <1>2 DEF Good, Heap, SameTree

\* SameTree is transitive.
LEMMA SameTreeTrans ==
  ASSUME NEW w, NEW v, NEW u, DOMAIN v.node = DOMAIN w.node, SameTree(w, v), SameTree(v, u)
  PROVE  SameTree(w, u)
BY DEF SameTree

\* And reflexive on good worlds.
LEMMA SameTreeRefl ==
  ASSUME NEW w, Good(w)
  PROVE  SameTree(w, w)
BY DEF SameTree, Good, Heap

-----------------------------------------------------------------------------
(* Operations on attributes and on the disk.                               *)

\* SetLastAccess changes the time only.
LEMMA TouchSame ==
  ASSUME NEW w, Good(w), NEW n \in DOMAIN w.node, NEW time \in Int
  PROVE  SameTree(w, Touch(w, n, time))
BY DEF Touch, Then, SameTree, Good, Heap, NodeType

\* SetType changes the type only.
LEMMA SetDirGood ==
  ASSUME NEW w, Good(w), NEW n \in DOMAIN w.node, NEW b \in BOOLEAN,
         NEW v, v = SetDir(w, n, b)
  PROVE  Extended(w, v) /\ DOMAIN v.node = DOMAIN w.node /\ v.err = w.err
<1>1. CASE w.err # NoError
  BY <1>1 DEF SetDir, Then, Extended
<1>2. CASE w.err = NoError
  <2> DEFINE new == [w.node EXCEPT ![n].dir = b]
  <2>1. v.node = new /\ DOMAIN v = DOMAIN w /\ v.err = w.err
    BY <1>2 DEF SetDir, Then, Good
  <2>2. DOMAIN new = DOMAIN w.node /\ new \in [DOMAIN w.node -> NodeType]
    BY DEF Good, Heap, NodeType
  <2>3. \A m \in DOMAIN w.node : /\ new[m].fh = w.node[m].fh
                                 /\ new[m].name = w.node[m].name
                                 /\ new[m].parent = w.node[m].parent
                                 /\ new[m].kids = w.node[m].kids
    BY DEF Good, Heap, NodeType
  <2> HIDE DEF new
  <2>4. ParentKnowsChild(new) /\ ChildKnowsParent(new)
    BY <2>2, <2>3 DEF Good, Heap, ParentKnowsChild, ChildKnowsParent, NodeType
  <2> QED BY <2>1, <2>2, <2>3, <2>4 DEF Good, Heap, Extended
<1> QED BY <1>1, <1>2

\* SetSize changes the size only.
LEMMA SetSizeSame ==
  ASSUME NEW w, Good(w), NEW n \in DOMAIN w.node, NEW s \in Nat
  PROVE  SameTree(w, SetSize(w, n, s))
BY DEF SetSize, Then, SameTree, Good, Heap, NodeType

\* SetCreated(true) changes the flag only.
LEMMA SetCreatedSame ==
  ASSUME NEW w, Good(w), NEW n \in DOMAIN w.node
  PROVE  SameTree(w, SetCreated(w, n))
BY DEF SetCreated, Then, SameTree, Good, Heap, NodeType

\* SetCreated(false) changes the flag only.
LEMMA ClearCreatedSame ==
  ASSUME NEW w, Good(w), NEW n \in DOMAIN w.node
  PROVE  SameTree(w, [w EXCEPT !.node[n].created = FALSE])
BY DEF SameTree, Good, Heap, NodeType

\* CalcPath changes nothing; it may throw.
LEMMA CalcPathSame ==
  ASSUME NEW w, Good(w), NEW n \in DOMAIN w.node
  PROVE  SameTree(w, calcPath(w, n))
<1>1. CASE calcPath(w, n) = w
  BY <1>1, SameTreeRefl
<1>2. CASE calcPath(w, n) = [w EXCEPT !.err = "Path too long"]
  BY <1>2 DEF SameTree, Good, Heap, GoodErr, Error, NoError, InternalError
<1> QED BY <1>1, <1>2 DEF calcPath, Check, Then

\* A world with another disk.
LEMMA DiskSame ==
  ASSUME NEW w, Good(w), NEW d
  PROVE  SameTree(w, [w EXCEPT !.disk = d])
BY DEF SameTree, Good, Heap

\* A world in which more nodes are created.
LEMMA MarkedSame ==
  ASSUME NEW w, Good(w), NEW C, NEW d
  PROVE  SameTree(w, Marked(w, C, d))
<1> DEFINE nodes == [m \in DOMAIN w.node |-> [w.node[m] EXCEPT !.created = w.node[m].created \/ m \in C]]
<1>1. nodes \in [DOMAIN w.node -> NodeType]
  <2> SUFFICES ASSUME NEW m \in DOMAIN w.node
               PROVE  [w.node[m] EXCEPT !.created = w.node[m].created \/ m \in C] \in NodeType
    OBVIOUS
  <2>1. w.node[m] \in NodeType
    BY DEF Good, Heap
  <2>2. (w.node[m].created \/ m \in C) \in BOOLEAN
    OBVIOUS
  <2> QED BY <2>1, <2>2 DEF NodeType
<1>2. \A m \in DOMAIN w.node : /\ nodes[m].fh = w.node[m].fh
                               /\ nodes[m].name = w.node[m].name
                               /\ nodes[m].parent = w.node[m].parent
                               /\ nodes[m].dir = w.node[m].dir
                               /\ nodes[m].kids = w.node[m].kids
  BY DEF Good, Heap, NodeType
<1>3. Marked(w, C, d) = [w EXCEPT !.disk = d, !.node = nodes]
  BY DEF Marked
<1> HIDE DEF nodes
<1> QED BY <1>1, <1>2, <1>3 DEF SameTree, Good

\* A world in which more nodes are no longer created.
LEMMA UnmarkedSame ==
  ASSUME NEW w, Good(w), NEW C, NEW d
  PROVE  SameTree(w, Unmarked(w, C, d))
<1> DEFINE nodes == [m \in DOMAIN w.node |-> [w.node[m] EXCEPT !.created = w.node[m].created /\ m \notin C]]
<1>1. nodes \in [DOMAIN w.node -> NodeType]
  <2> SUFFICES ASSUME NEW m \in DOMAIN w.node
               PROVE  [w.node[m] EXCEPT !.created = w.node[m].created /\ m \notin C] \in NodeType
    OBVIOUS
  <2>1. w.node[m] \in NodeType
    BY DEF Good, Heap
  <2>2. (w.node[m].created /\ m \notin C) \in BOOLEAN
    OBVIOUS
  <2> QED BY <2>1, <2>2 DEF NodeType
<1>2. \A m \in DOMAIN w.node : /\ nodes[m].fh = w.node[m].fh
                               /\ nodes[m].name = w.node[m].name
                               /\ nodes[m].parent = w.node[m].parent
                               /\ nodes[m].dir = w.node[m].dir
                               /\ nodes[m].kids = w.node[m].kids
  BY DEF Good, Heap, NodeType
<1>3. Unmarked(w, C, d) = [w EXCEPT !.disk = d, !.node = nodes]
  BY DEF Unmarked
<1> HIDE DEF nodes
<1> QED BY <1>1, <1>2, <1>3 DEF SameTree, Good

\* makePathHelper marks nodes as created and makes directories.
LEMMA MakeChainSame ==
  ASSUME NEW w, Good(w), NEW n \in DOMAIN w.node
  PROVE  SameTree(w, MakeChain(w, n))
<1> DEFINE v == MakeChain(w, n)
<1> SUFFICES SameTree(w, v)
  OBVIOUS
<1>1. PICK C, d : v = Marked(w, C, d)
  BY DEF MakeChain, MakeAlong
<1> HIDE DEF v
<1> QED BY <1>1, MarkedSame

\* MakePath keeps the tree.
LEMMA MakePathSame ==
  ASSUME NEW w, Good(w), NEW n \in DOMAIN w.node
  PROVE  SameTree(w, makePath(w, n))
<1>1. CASE makePath(w, n) = calcPath(w, n)
  BY <1>1, CalcPathSame
<1>2. CASE makePath(w, n) = w
  BY <1>2, SameTreeRefl
<1>3. CASE makePath(w, n) = MakeChain(w, n)
  BY <1>3, MakeChainSame
<1>4. CASE makePath(w, n) = [w EXCEPT !.err = "Stack overflow"]
  BY <1>4 DEF SameTree, Good, Heap, GoodErr, Error, NoError, InternalError
<1> QED BY <1>1, <1>2, <1>3, <1>4 DEF makePath, Check, Then

\* So does making the path of a node's parent.
LEMMA MakeParentSame ==
  ASSUME NEW w, Good(w), NEW n \in DOMAIN w.node
  PROVE  SameTree(w, MakeParent(w, n))
<1>1. w.node[n].parent # NoNode => w.node[n].parent \in DOMAIN w.node
  BY DEF Good, Heap, ParentKnowsChild
<1>2. CASE MakeParent(w, n) = w
  BY <1>2, SameTreeRefl
<1>3. CASE w.node[n].parent # NoNode /\ MakeParent(w, n) = makePath(w, w.node[n].parent)
  BY <1>1, <1>3, MakePathSame
<1> QED BY <1>2, <1>3 DEF MakeParent, Then

\* ClearEmptyDir keeps the tree.
LEMMA ClearEmptyDirSame ==
  ASSUME NEW w, Good(w), NEW n \in DOMAIN w.node
  PROVE  SameTree(w, clearEmptyDir(w, n))
<1> DEFINE v == clearEmptyDir(w, n)
<1> SUFFICES SameTree(w, v)
  OBVIOUS
<1>1. \/ v = w
      \/ v = [w EXCEPT !.err = "Path too long"]
      \/ \E C, d : v = Unmarked(w, C, d)
  BY DEF clearEmptyDir, ClearAlong, Check, Then
<1> HIDE DEF v
<1>2. CASE v = w
  BY <1>2, SameTreeRefl
<1>3. CASE v = [w EXCEPT !.err = "Path too long"]
  BY <1>3 DEF SameTree, Good, Heap, GoodErr, Error, NoError, InternalError
<1>4. ASSUME NEW C, NEW d,
             v = Unmarked(w, C, d)
      PROVE  SameTree(w, v)
  BY <1>4, UnmarkedSame
<1> QED BY <1>1, <1>2, <1>3, <1>4

\* So does remove(2) of a node's path.
LEMMA UnlinkSame ==
  ASSUME NEW w, Good(w), NEW n \in DOMAIN w.node
  PROVE  SameTree(w, Unlink(w, n))
<1>1. CASE Unlink(w, n) = w
  BY <1>1, SameTreeRefl
<1>2. CASE Unlink(w, n) = calcPath(w, n)
  BY <1>2, CalcPathSame
<1>3. CASE \E d : Unlink(w, n) = [w EXCEPT !.disk = d]
  BY <1>3, DiskSame
<1> QED BY <1>1, <1>2, <1>3 DEF Unlink, Then

\* With or without the reset of created.
LEMMA RemoveOnDiskSame ==
  ASSUME NEW w, Good(w), NEW n \in DOMAIN w.node
  PROVE  SameTree(w, RemoveOnDisk(w, n))
<1> DEFINE v == Unlink(w, n)
<1>1. SameTree(w, v) /\ Good(v) /\ DOMAIN v.node = DOMAIN w.node
  BY UnlinkSame, SameTreeGood
<1> HIDE DEF v
<1>2. SameTree(v, [v EXCEPT !.node[n].created = FALSE])
  BY <1>1, ClearCreatedSame
<1>3. RemoveOnDisk(w, n) = v \/ RemoveOnDisk(w, n) = [v EXCEPT !.node[n].created = FALSE]
  BY DEF v, RemoveOnDisk, Then
<1> QED BY <1>1, <1>2, <1>3, SameTreeTrans

\* Open(2) keeps the tree.
LEMMA OpenNodeSame ==
  ASSUME NEW w, Good(w), NEW n \in DOMAIN w.node, NEW trunc
  PROVE  SameTree(w, OpenNode(w, n, trunc))
BY DEF OpenNode, SameTree, Good, Heap, NodeType

\* So does writeToSize.
LEMMA WriteToSizeSame ==
  ASSUME NEW w, Good(w), NEW n \in DOMAIN w.node, NEW size \in Nat
  PROVE  SameTree(w, writeToSize(w, n, size))
<1> DEFINE a == IF w.node[n].created THEN calcPath(w, n) ELSE w
           b == MakeParent(a, n)
           c == SetSize(b, n, size)
           v == calcPath(c, n)
           trunc == size < w.node[n].size
           u == OpenNode(v, n, trunc)
<1>1. SameTree(w, a) /\ Good(a) /\ DOMAIN a.node = DOMAIN w.node
  BY CalcPathSame, SameTreeRefl, SameTreeGood
<1>2. SameTree(w, b) /\ Good(b) /\ DOMAIN b.node = DOMAIN w.node
  <2> HIDE DEF a
  <2> QED BY <1>1, MakeParentSame, SameTreeTrans, SameTreeGood
<1>3. SameTree(w, c) /\ Good(c) /\ DOMAIN c.node = DOMAIN w.node
  <2> HIDE DEF b
  <2> QED BY <1>2, SetSizeSame, SameTreeTrans, SameTreeGood
<1>4. SameTree(w, v) /\ Good(v) /\ DOMAIN v.node = DOMAIN w.node
  <2> HIDE DEF c
  <2> QED BY <1>3, CalcPathSame, SameTreeTrans, SameTreeGood
<1>5. SameTree(w, u) /\ Good(u) /\ DOMAIN u.node = DOMAIN w.node
  <2> HIDE DEF v
  <2> QED BY <1>4, OpenNodeSame, SameTreeTrans, SameTreeGood
<1>6. \A d : SameTree(w, [u EXCEPT !.disk = d]) /\ SameTree(w, [w EXCEPT !.disk = d])
  <2> HIDE DEF u
  <2> QED BY <1>5, DiskSame, SameTreeTrans
<1>7. \/ writeToSize(w, n, size) \in {w, v, u}
      \/ \E d : writeToSize(w, n, size) \in {[u EXCEPT !.disk = d], [w EXCEPT !.disk = d]}
  BY DEF writeToSize, OpenToSize, SetLength, Then
<1> HIDE DEF v, u
<1> QED BY <1>4, <1>5, <1>6, <1>7, SameTreeRefl

-----------------------------------------------------------------------------
(* Operations on the tree.                                                 *)

\* An exception that Engine can cause leaves a good world.
LEMMA ThrowGood ==
  ASSUME NEW w, Good(w), NEW e \in Error \ InternalError
  PROVE  /\ Good([w EXCEPT !.err = e])
         /\ [w EXCEPT !.err = e].node = w.node
         /\ [w EXCEPT !.err = e].err # NoError
BY DEF Good, GoodErr, Error, NoError, InternalError

\* removeChild takes a child from its parent, or throws; it always finds the child.
LEMMA RemoveChildGood ==
  ASSUME NEW w, Good(w), NEW p \in DOMAIN w.node, NEW c \in DOMAIN w.node,
         w.node[c].parent = p,
         NEW v, v = removeChild(w, p, c)
  PROVE  Loosened(w, v, c)
<1>1. CASE w.err # NoError
  <2>1. v = w
    BY <1>1 DEF removeChild, Check, Then
  <2> QED BY <1>1, <2>1 DEF Loosened
<1>2. CASE w.err = NoError /\ ~(p # c /\ w.node[p].fh # w.node[c].fh)
  <2>1. v = [w EXCEPT !.err = "Wrong parameter"]
    BY <1>2 DEF removeChild, Check, Then
  <2>2. Good(v) /\ v.node = w.node /\ v.err # NoError
    <3> DEFINE e == "Wrong parameter"
    <3>1. e \in Error \ InternalError /\ v = [w EXCEPT !.err = e]
      BY <2>1 DEF Error, InternalError
    <3> HIDE DEF e
    <3> QED BY <3>1, ThrowGood
  <2> QED BY <2>2 DEF Loosened
<1>3. CASE w.err = NoError /\ p # c /\ w.node[p].fh # w.node[c].fh
  <2> DEFINE new == [w.node EXCEPT ![p].kids[w.node[c].name] = NoNode, ![c].parent = NoNode]
  <2>1. w.node[p].kids[w.node[c].name] = c
    BY TreeAssumption DEF Good, Heap, ParentKnowsChild
  <2>2. v = [w EXCEPT !.node[p].kids[w.node[c].name] = NoNode, !.node[c].parent = NoNode]
    BY <1>3, <2>1 DEF removeChild, Check, Then
  <2>3. v.node = new /\ DOMAIN v = DOMAIN w /\ v.err = w.err
    BY <2>2 DEF Good
  <2>4. Heap(new) /\ DOMAIN new = DOMAIN w.node
    <3>1. Heap(w.node)
      BY DEF Good
    <3> QED BY <1>3, <2>1, <3>1, HeapDetach
  <2>5. /\ new[c].parent = NoNode /\ new[c].kids = w.node[c].kids
        /\ \A m \in DOMAIN w.node : m # c => new[m].parent = w.node[m].parent
        /\ \A m \in DOMAIN w.node : new[m].name = w.node[m].name
        /\ \A m \in DOMAIN w.node, y \in Name : new[m].kids[y] \in {w.node[m].kids[y], NoNode}
    <3>1. /\ w.node[c] \in NodeType /\ w.node[p] \in NodeType
          /\ new[c] = [w.node[c] EXCEPT !.parent = NoNode]
          /\ new[p] = [w.node[p] EXCEPT !.kids = [w.node[p].kids EXCEPT ![w.node[c].name] = NoNode]]
          /\ \A m \in DOMAIN w.node \ {p, c} : new[m] = w.node[m]
      BY <1>3 DEF Good, Heap, NodeType
    <3> HIDE DEF new
    <3> QED BY <3>1 DEF NodeType
  <2> HIDE DEF new
  <2> QED BY <2>3, <2>4, <2>5 DEF Good, Loosened
<1> QED BY <1>1, <1>2, <1>3

\* So does the code that takes a node from a parent it may not have.
LEMMA DetachedGood ==
  ASSUME NEW w, Good(w), NEW c \in DOMAIN w.node,
         NEW v, v = Detached(w, c)
  PROVE  Loosened(w, v, c)
<1>1. CASE w.node[c].parent = NoNode
  BY <1>1 DEF Detached, Loosened
<1>2. CASE w.node[c].parent # NoNode
  <2>1. w.node[c].parent \in DOMAIN w.node
    BY <1>2 DEF Good, Heap, ParentKnowsChild
  <2>2. v = removeChild(w, w.node[c].parent, c)
    BY <1>2 DEF Detached
  <2> QED BY <2>1, <2>2, RemoveChildGood
<1> QED BY <1>1, <1>2

\* setName of a node without parent does not throw.
LEMMA SetNameGood ==
  ASSUME NEW w, Good(w), NEW n \in DOMAIN w.node, NEW x \in Name,
         w.err = NoError => w.node[n].parent = NoNode,
         NEW v, v = setName(w, n, x)
  PROVE  /\ Good(v) /\ DOMAIN v.node = DOMAIN w.node
         /\ \A m \in DOMAIN w.node : v.node[m].parent = w.node[m].parent
<1>1. CASE w.err # NoError
  <2>1. v = w
    BY <1>1 DEF setName, Check, Then
  <2> QED BY <2>1
<1>2. CASE w.err = NoError
  <2> DEFINE new == [w.node EXCEPT ![n].name = x]
  <2>1. v = [w EXCEPT !.node[n].name = x]
    BY <1>2 DEF setName, Check, Then
  <2>2. v.node = new /\ DOMAIN v = DOMAIN w /\ v.err = w.err
    BY <2>1 DEF Good
  <2>3. Heap(new) /\ DOMAIN new = DOMAIN w.node
    <3>1. Heap(w.node)
      BY DEF Good
    <3> QED BY <1>2, <3>1, HeapRename
  <2>4. \A m \in DOMAIN w.node : new[m].parent = w.node[m].parent
    BY DEF Good, Heap, NodeType
  <2> HIDE DEF new
  <2> QED BY <2>2, <2>3, <2>4 DEF Good
<1> QED BY <1>1, <1>2

\* v with c placed under p.
Attached(v, p, c) == [v EXCEPT !.node[p].kids[v.node[c].name] = c, !.node[c].parent = p]

\* Linking a node without parent to a free place.
LEMMA AttachGood ==
  ASSUME NEW v, Good(v), NEW p \in DOMAIN v.node, NEW c \in DOMAIN v.node, p # c,
         v.node[c].parent = NoNode, v.node[p].kids[v.node[c].name] = NoNode,
         NEW u, u = Attached(v, p, c)
  PROVE  Good(u) /\ DOMAIN u.node = DOMAIN v.node
<1> DEFINE new == [v.node EXCEPT ![p].kids[v.node[c].name] = c, ![c].parent = p]
<1>1. u.node = new /\ DOMAIN u = DOMAIN v /\ u.err = v.err
  BY DEF Good, Attached
<1>2. Heap(new) /\ DOMAIN new = DOMAIN v.node
  <2>1. Heap(v.node)
    BY DEF Good
  <2> QED BY <2>1, HeapAttach
<1> HIDE DEF new
<1> QED BY <1>1, <1>2 DEF Good

\* addChild never finds its child lost by a former parent.
LEMMA AddChildGood ==
  ASSUME NEW w, Good(w), NEW p \in DOMAIN w.node, NEW c \in DOMAIN w.node,
         NEW u, u = addChild(w, p, c)
  PROVE  Good(u) /\ DOMAIN u.node = DOMAIN w.node
<1> DEFINE x == w.node[c].name
           v == Detached(w, c)
<1>1. Loosened(w, v, c)
  BY DetachedGood
<1>2. \/ u = w \/ u = v
      \/ \E e \in {"Wrong parameter", "Same name present"} : u = [w EXCEPT !.err = e]
      \/ /\ v.err = NoError /\ p # c /\ w.node[p].kids[x] = NoNode
         /\ u = [v EXCEPT !.node[p].kids[x] = c, !.node[c].parent = p]
  BY DEF addChild, Check, Then
<1> HIDE DEF v
<1>3. Good(v) /\ DOMAIN v.node = DOMAIN w.node
  BY <1>1 DEF Loosened
<1>4. CASE u = w \/ u = v
  BY <1>3, <1>4
<1>5. CASE \E e \in {"Wrong parameter", "Same name present"} : u = [w EXCEPT !.err = e]
  <2>1. PICK e \in {"Wrong parameter", "Same name present"} : u = [w EXCEPT !.err = e]
    BY <1>5
  <2>2. e \in Error \ InternalError
    BY DEF Error, InternalError
  <2> QED BY <2>1, <2>2, ThrowGood
<1>6. CASE /\ v.err = NoError /\ p # c /\ w.node[p].kids[x] = NoNode
           /\ u = [v EXCEPT !.node[p].kids[x] = c, !.node[c].parent = p]
  <2>1. v.node[p].kids[x] = NoNode /\ v.node[c].name = x /\ v.node[c].parent = NoNode
    BY <1>1, <1>6, SMTT(20) DEF Loosened, Good, Heap, NodeType
  <2>2. u = Attached(v, p, c)
    BY <1>6, <2>1 DEF Attached
  <2>3. p \in DOMAIN v.node /\ c \in DOMAIN v.node /\ p # c
    BY <1>3, <1>6
  <2>4. v.node[p].kids[v.node[c].name] = NoNode
    BY <2>1
  <2> QED BY <1>3, <2>1, <2>2, <2>3, <2>4, AttachGood
<1> QED BY <1>2, <1>4, <1>5, <1>6

\* A node without children.
LEMMA Childless ==
  ASSUME NEW w, NEW c, isDeletable(w, c)
  PROVE  \A x \in Name : w.node[c].kids[x] = NoNode
BY DEF isDeletable, Kids

\* deleteChild of a node without children takes it from its parent, or throws;
\* afterwards nothing of the tree points to the node.
LEMMA DeleteChildGood ==
  ASSUME NEW w, Good(w), NEW p \in DOMAIN w.node, NEW c \in DOMAIN w.node,
         w.node[c].parent = p, isDeletable(w, c),
         NEW v, v = deleteChild(w, p, c)
  PROVE  /\ Loosened(w, v, c)
         /\ \A x \in Name : v.node[c].kids[x] = NoNode
<1>1. \A x \in Name : w.node[c].kids[x] = NoNode
  BY Childless
<1>2. CASE w.err # NoError
  <2>1. v = w
    BY <1>2 DEF deleteChild, Check, Then
  <2> QED BY <1>1, <1>2, <2>1 DEF Loosened
<1>3. CASE w.err = NoError
  <2>1. v = removeChild(w, p, c)
    BY <1>3 DEF deleteChild, Check, Then
  <2>2. Loosened(w, v, c)
    BY <2>1, RemoveChildGood
  <2> QED BY <1>1, <2>2 DEF Loosened
<1> QED BY <1>2, <1>3

-----------------------------------------------------------------------------
(* Operations on the map.                                                  *)

\* What keeps the tree extends it.
LEMMA SameTreeExtended ==
  ASSUME NEW w, Good(w), NEW v, SameTree(w, v)
  PROVE  Extended(w, v)
BY SameTreeGood DEF Extended, SameTree

\* Extended is transitive.
LEMMA ExtendedTrans ==
  ASSUME NEW w, NEW v, NEW u, Extended(w, v), Extended(v, u)
  PROVE  Extended(w, u)
BY DEF Extended

\* A new node, which is linked to nothing, leaves a well-formed heap.
LEMMA HeapAlloc ==
  ASSUME NEW old, Heap(old), NEW n \in Node \ DOMAIN old, NEW rec \in NodeType,
         rec.parent = NoNode, \A x \in Name : rec.kids[x] = NoNode,
         NEW new, DOMAIN new = DOMAIN old \cup {n}, new[n] = rec,
         new \in [DOMAIN new -> NodeType],
         \A m \in DOMAIN old : new[m] = old[m]
  PROVE  Heap(new)
BY TreeAssumption DEF Heap, NodeType, ParentKnowsChild, ChildKnowsParent

\* createNode adds a node that is linked to nothing, or is out of memory.
LEMMA CreateNodeExtended ==
  ASSUME NEW w, Good(w), NEW h \in Handle, NEW x \in Name, NEW time \in Int,
         NEW v, v = createNode(w, h, x, time)
  PROVE  /\ Extended(w, v)
         /\ v.err = NoError => NewNode(w) \in DOMAIN v.node
<1>1. CASE w.err # NoError
  <2>1. v = w
    BY <1>1 DEF createNode, Check, Then
  <2> QED BY <1>1, <2>1 DEF Extended
<1>2. CASE w.err = NoError /\ Node \ DOMAIN w.node = {}
  <2>1. v = [w EXCEPT !.err = "Out of memory"]
    BY <1>2 DEF createNode, Check, Then
  <2>2. "Out of memory" \in Error \ InternalError
    BY DEF Error, InternalError
  <2>3. Good(v) /\ v.node = w.node /\ v.err # NoError
    BY <2>1, <2>2, ThrowGood
  <2> QED BY <2>3 DEF Extended
<1>3. CASE w.err = NoError /\ Node \ DOMAIN w.node # {}
  <2> DEFINE n   == NewNode(w)
             rec == [fh |-> h, name |-> x, parent |-> NoNode, kids |-> [y \in Name |-> NoNode],
                     created |-> FALSE, dir |-> FALSE, size |-> 0, access |-> time]
             new == [m \in DOMAIN w.node \cup {n} |-> IF m \in DOMAIN w.node THEN w.node[m] ELSE rec]
  <2>1. n \in Node \ DOMAIN w.node
    BY <1>3 DEF NewNode
  <2>2. rec \in NodeType /\ rec.parent = NoNode /\ \A y \in Name : rec.kids[y] = NoNode
    BY DEF NodeType
  <2>3. v.node = new /\ DOMAIN v = DOMAIN w /\ v.err = w.err
    BY <1>3 DEF createNode, Check, Then, Good
  <2>4. /\ DOMAIN new = DOMAIN w.node \cup {n}
        /\ \A m \in DOMAIN w.node : new[m] = w.node[m]
    OBVIOUS
  <2>5. new[n] = rec
    BY <2>1
  <2>6. \A m \in DOMAIN w.node : w.node[m] \in NodeType
    BY DEF Good, Heap
  <2>7. new \in [DOMAIN new -> NodeType]
    <3> HIDE DEF rec, n
    <3> QED BY <2>2, <2>6
  <2>8. Heap(new)
    <3>1. Heap(w.node)
      BY DEF Good
    <3> HIDE DEF rec, n, new
    <3> QED BY <2>1, <2>2, <2>4, <2>5, <2>7, <3>1, HeapAlloc
  <2> HIDE DEF rec, n, new
  <2>9. Good(v) /\ n \in DOMAIN v.node
    BY <2>3, <2>4, <2>8 DEF Good
  <2> QED BY <2>3, <2>4, <2>9 DEF Extended, n
<1> QED BY <1>1, <1>2, <1>3

\* switchNodeHandle changes the handle only.
LEMMA SwitchNodeHandleGood ==
  ASSUME NEW w, Good(w), NEW n \in DOMAIN w.node, NEW h \in Handle,
         NEW v, v = switchNodeHandle(w, n, h)
  PROVE  Good(v) /\ DOMAIN v.node = DOMAIN w.node
<1>1. CASE w.err # NoError
  BY <1>1 DEF switchNodeHandle, Then
<1>2. CASE w.err = NoError
  <2> DEFINE new == [w.node EXCEPT ![n].fh = h]
  <2>1. v.node = new /\ DOMAIN v = DOMAIN w /\ v.err = w.err
    BY <1>2 DEF switchNodeHandle, Then, Good
  <2>2. DOMAIN new = DOMAIN w.node /\ new \in [DOMAIN w.node -> NodeType]
    BY DEF Good, Heap, NodeType
  <2>3. \A m \in DOMAIN w.node : /\ new[m].name = w.node[m].name
                                 /\ new[m].parent = w.node[m].parent
                                 /\ new[m].kids = w.node[m].kids
    BY DEF Good, Heap, NodeType
  <2> HIDE DEF new
  <2>4. ParentKnowsChild(new) /\ ChildKnowsParent(new)
    BY <2>2, <2>3 DEF Good, Heap, ParentKnowsChild, ChildKnowsParent, NodeType
  <2> QED BY <2>1, <2>2, <2>4 DEF Good, Heap
<1> QED BY <1>1, <1>2

\* Nothing points to n and n points to nothing, unless an exception unwinds.
Isolated(w, n) ==
  w.err = NoError => /\ w.node[n].parent = NoNode
                     /\ \A x \in Name : w.node[n].kids[x] = NoNode

\* removeNode of a node that is linked to nothing.
LEMMA RemoveNodeGood ==
  ASSUME NEW w, Good(w), NEW n \in DOMAIN w.node,
         Isolated(w, n), NEW v, v = removeNode(w, n)
  PROVE  /\ Good(v) /\ v.err = w.err
         /\ DOMAIN w.node \ {n} \subseteq DOMAIN v.node
         /\ \A m \in DOMAIN w.node \ {n} : v.node[m] = w.node[m]
<1>1. CASE w.err # NoError
  <2>1. v = w
    BY <1>1 DEF removeNode, Then
  <2> QED BY <2>1
<1>2. CASE w.err = NoError
  <2> DEFINE new == [m \in DOMAIN w.node \ {n} |-> w.node[m]]
  <2>1. v.node = new /\ DOMAIN v = DOMAIN w /\ v.err = w.err
    BY <1>2 DEF removeNode, Then, Restrict, Good
  <2>2. Heap(new)
    <3>1. Heap(w.node)
      BY DEF Good
    <3> QED BY <1>2, <3>1, HeapFree DEF Isolated
  <2>3. DOMAIN new = DOMAIN w.node \ {n} /\ \A m \in DOMAIN w.node \ {n} : new[m] = w.node[m]
    OBVIOUS
  <2> HIDE DEF new
  <2> QED BY <2>1, <2>2, <2>3 DEF Good
<1> QED BY <1>1, <1>2

\* getOrCreateDir finds or adds a node, or throws.
LEMMA GetOrCreateDirExtended ==
  ASSUME NEW w, Good(w), NEW h \in Handle, NEW found \in DOMAIN w.node \cup {NoNode},
         NEW time \in Int, NEW v, v = getOrCreateDir(w, h, found, time)
  PROVE  /\ Extended(w, v)
         /\ v.err = NoError => OrNew(w, found) \in DOMAIN v.node
<1>1. CASE found = NoNode
  <2> DEFINE u == createNode(w, h, handleName[h], time)
  <2>1. handleName[h] \in Name
    BY TreeAssumption
  <2>2. Extended(w, u) /\ (u.err = NoError => NewNode(w) \in DOMAIN u.node)
    BY <2>1, CreateNodeExtended
  <2>3. v = SetDir(u, NewNode(w), TRUE)
    BY <1>1 DEF getOrCreateDir
  <2> HIDE DEF u
  <2>4. CASE u.err # NoError
    BY <2>2, <2>3, <2>4 DEF SetDir, Then
  <2>5. CASE u.err = NoError
    <3>1. Good(u) /\ NewNode(w) \in DOMAIN u.node
      BY <2>2, <2>5 DEF Extended
    <3>2. Extended(u, v) /\ DOMAIN v.node = DOMAIN u.node
      <4> DEFINE b == TRUE
      <4>1. b \in BOOLEAN /\ v = SetDir(u, NewNode(w), b)
        BY <2>3
      <4> HIDE DEF b
      <4> QED BY <3>1, <4>1, SetDirGood
    <3> QED BY <1>1, <2>2, <3>1, <3>2, ExtendedTrans DEF OrNew
  <2> QED BY <2>4, <2>5
<1>2. CASE found # NoNode
  <2>1. found \in DOMAIN w.node /\ OrNew(w, found) = found
    BY <1>2 DEF OrNew
  <2>2. v = w \/ v = [w EXCEPT !.err = "Not a directory"]
    BY <1>2 DEF getOrCreateDir, Check, Then
  <2>3. CASE v = w
    BY <2>1, <2>3 DEF Extended
  <2>4. CASE v = [w EXCEPT !.err = "Not a directory"]
    <3>1. "Not a directory" \in Error \ InternalError
      BY DEF Error, InternalError
    <3>2. Good(v) /\ v.node = w.node
      BY <2>4, <3>1, ThrowGood
    <3> QED BY <2>1, <3>2 DEF Extended
  <2> QED BY <2>2, <2>3, <2>4
<1> QED BY <1>1, <1>2

\* So does getOrCreateNode.
LEMMA GetOrCreateNodeExtended ==
  ASSUME NEW w, Good(w), NEW h \in Handle, NEW found \in DOMAIN w.node \cup {NoNode},
         NEW time \in Int, NEW v, v = getOrCreateNode(w, h, found, time)
  PROVE  /\ Extended(w, v)
         /\ v.err = NoError => OrNew(w, found) \in DOMAIN v.node
<1>1. CASE found = NoNode
  <2>1. handleName[h] \in Name
    BY TreeAssumption
  <2>2. v = createNode(w, h, handleName[h], time)
    BY <1>1 DEF getOrCreateNode
  <2> QED BY <1>1, <2>1, <2>2, CreateNodeExtended DEF OrNew
<1>2. CASE found # NoNode
  <2>1. v = w
    BY <1>2 DEF getOrCreateNode
  <2> QED BY <1>2, <2>1 DEF Extended, OrNew
<1> QED BY <1>1, <1>2
=============================================================================
