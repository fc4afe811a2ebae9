--------------------------- MODULE PlacementProofs ---------------------------
(***************************************************************************)
(* What a handler that throws nothing does to the tree: for every node its *)
(* handle, name, parent and type.  (The maps of children follow from these *)
(* in a good world.)  Every handler is a sequence of six kinds of change:  *)
(* a node is added, moved, freed, gets a type or a handle, or nothing that *)
(* counts happens.                                                         *)
(***************************************************************************)
EXTENDS EngineProofs, FiniteSetTheorems, SequenceTheorems, WellFoundedInduction

\* What the tree says of m stays.
Stays(w, v, m) ==
  /\ v.node[m].fh = w.node[m].fh /\ v.node[m].name = w.node[m].name
  /\ v.node[m].parent = w.node[m].parent /\ v.node[m].dir = w.node[m].dir

\* v has the nodes of w, and only what it says of c differs.
OnlyOf(c, w, v) ==
  /\ DOMAIN v.node = DOMAIN w.node
  /\ \A m \in DOMAIN w.node \ {c} : Stays(w, v, m)

\* Nothing changes.
Quiet(w, v) ==
  /\ DOMAIN v.node = DOMAIN w.node
  /\ \A m \in DOMAIN w.node : Stays(w, v, m)

\* A new node n.
Added(w, v, n, h, x, p, isDir) ==
  /\ n \in Node \ DOMAIN w.node /\ DOMAIN v.node = DOMAIN w.node \cup {n}
  /\ \A m \in DOMAIN w.node : Stays(w, v, m)
  /\ v.node[n].fh = h /\ v.node[n].name = x /\ v.node[n].parent = p /\ v.node[n].dir = isDir

\* e is the child x of p now; p may be NoNode.
Moved(w, v, e, p, x) ==
  /\ OnlyOf(e, w, v) /\ e # p
  /\ v.node[e].fh = w.node[e].fh /\ v.node[e].dir = w.node[e].dir
  /\ v.node[e].parent = p /\ v.node[e].name = x

\* c is gone.
Freed(w, v, c) ==
  /\ DOMAIN v.node = DOMAIN w.node \ {c}
  /\ \A m \in DOMAIN w.node \ {c} : Stays(w, v, m)

\* n is a directory if isDir holds.
Retyped(w, v, n, isDir) ==
  /\ OnlyOf(n, w, v)
  /\ v.node[n].fh = w.node[n].fh /\ v.node[n].name = w.node[n].name
  /\ v.node[n].parent = w.node[n].parent /\ v.node[n].dir = isDir

\* n stands for h.
Rehandled(w, v, n, h) ==
  /\ OnlyOf(n, w, v)
  /\ v.node[n].fh = h /\ v.node[n].name = w.node[n].name
  /\ v.node[n].parent = w.node[n].parent /\ v.node[n].dir = w.node[n].dir

-----------------------------------------------------------------------------
(* Operations of Node and FileHandleMap.                                   *)

\* What keeps the tree is quiet.
LEMMA SameTreeQuiet ==
  ASSUME NEW w, Good(w), NEW v, SameTree(w, v)
  PROVE  /\ Quiet(w, v) /\ Good(v) /\ DOMAIN v.node = DOMAIN w.node
         /\ v.err = NoError => w.err = NoError
BY SameTreeGood DEF SameTree, Quiet, Stays

\* Quiet is transitive.
LEMMA QuietTrans ==
  ASSUME NEW w, NEW v, NEW u, Quiet(w, v), Quiet(v, u)
  PROVE  Quiet(w, u)
BY DEF Quiet, Stays

\* removeChild leaves the child without parent, under its name.
LEMMA RemoveChildEffect ==
  ASSUME NEW w, Good(w), NEW p \in DOMAIN w.node, NEW c \in DOMAIN w.node,
         NEW v, v = removeChild(w, p, c), v.err = NoError
  PROVE  w.err = NoError /\ Moved(w, v, c, NoNode, w.node[c].name)
<1>1. w.err = NoError
  BY DEF removeChild, Check, Then
<1>2. p # c /\ v = [w EXCEPT !.node[p].kids[w.node[c].name] = NoNode, !.node[c].parent = NoNode]
  BY <1>1 DEF removeChild, Check, Then, NoError, Good
<1>3. v.node = [w.node EXCEPT ![p].kids[w.node[c].name] = NoNode, ![c].parent = NoNode]
  BY <1>2 DEF Good
<1>4. c # NoNode
  BY TreeAssumption DEF Good, Heap
<1>5. \A m \in DOMAIN w.node : w.node[m] \in NodeType
  BY DEF Good, Heap
<1> QED BY <1>1, <1>2, <1>3, <1>4, <1>5, SMTT(20) DEF NodeType, Moved, OnlyOf, Stays

\* So does the code that takes a node from a parent it may not have.
LEMMA DetachedEffect ==
  ASSUME NEW w, Good(w), NEW c \in DOMAIN w.node,
         NEW v, v = Detached(w, c), v.err = NoError
  PROVE  w.err = NoError /\ Moved(w, v, c, NoNode, w.node[c].name)
<1>1. CASE w.node[c].parent = NoNode
  BY <1>1, TreeAssumption DEF Detached, Moved, OnlyOf, Stays, Good, Heap
<1>2. CASE w.node[c].parent # NoNode
  <2>1. w.node[c].parent \in DOMAIN w.node /\ v = removeChild(w, w.node[c].parent, c)
    BY <1>2 DEF Good, Heap, ParentKnowsChild, Detached
  <2> QED BY <2>1, RemoveChildEffect
<1> QED BY <1>1, <1>2

\* setName names a node that has no parent.
LEMMA SetNameEffect ==
  ASSUME NEW w, Good(w), NEW n \in DOMAIN w.node, w.node[n].parent = NoNode, NEW x \in Name,
         NEW v, v = setName(w, n, x), v.err = NoError
  PROVE  w.err = NoError /\ Moved(w, v, n, NoNode, x)
<1>1. w.err = NoError /\ v = [w EXCEPT !.node[n].name = x]
  BY DEF setName, Check, Then
<1>2. n # NoNode
  BY TreeAssumption DEF Good, Heap
<1> QED BY <1>1, <1>2 DEF Good, Heap, NodeType, Moved, OnlyOf, Stays

\* addChild places a node that has no parent.
LEMMA AddChildEffect ==
  ASSUME NEW w, Good(w), NEW p \in DOMAIN w.node, NEW c \in DOMAIN w.node,
         w.node[c].parent = NoNode,
         NEW v, v = addChild(w, p, c), v.err = NoError
  PROVE  w.err = NoError /\ Moved(w, v, c, p, w.node[c].name)
<1>1. w.err = NoError
  BY DEF addChild, Check, Then
<1>2. w.node[p].kids[w.node[c].name] # c
  BY TreeAssumption DEF Good, Heap, NodeType, ChildKnowsParent
<1>3. Detached(w, c) = w
  BY DEF Detached
<1>4. p # c /\ v = [w EXCEPT !.node[p].kids[w.node[c].name] = c, !.node[c].parent = p]
  BY <1>1, <1>2, <1>3 DEF addChild, Check, Then, NoError, Good
<1> QED BY <1>1, <1>4, SMTT(20) DEF Good, Heap, NodeType, Moved, OnlyOf, Stays

\* Moving a node twice.
LEMMA MovedTrans ==
  ASSUME NEW w, NEW v, NEW u, NEW e, NEW p, NEW q, NEW x, NEW y,
         Moved(w, v, e, p, x), Moved(v, u, e, q, y)
  PROVE  Moved(w, u, e, q, y)
BY DEF Moved, OnlyOf, Stays

\* Taking an element from its parent, naming it and adding it to a parent.
LEMMA ReplacedEffect ==
  ASSUME NEW w, Good(w), NEW e \in DOMAIN w.node, NEW p \in DOMAIN w.node, NEW x \in Name,
         NEW v, v = addChild(setName(Detached(w, e), e, x), p, e), v.err = NoError
  PROVE  w.err = NoError /\ Moved(w, v, e, p, x)
<1> DEFINE a == Detached(w, e)
           b == setName(a, e, x)
<1>1. Loosened(w, a, e)
  BY DetachedGood
<1>2. Good(a) /\ DOMAIN a.node = DOMAIN w.node /\ (a.err = NoError => a.node[e].parent = NoNode)
  BY <1>1 DEF Loosened
<1>3. a.err = NoError => w.err = NoError /\ Moved(w, a, e, NoNode, w.node[e].name)
  BY DetachedEffect
<1> HIDE DEF a
<1>4. Good(b) /\ DOMAIN b.node = DOMAIN w.node
  BY <1>2, SetNameGood
<1>5. b.err = NoError => a.err = NoError
  BY DEF setName, Check, Then
<1>6. b.err = NoError => Moved(a, b, e, NoNode, x)
  BY <1>2, <1>5, SetNameEffect
<1>7. v = addChild(b, p, e)
  BY DEF b, a
<1> HIDE DEF b
<1>8. b.err = NoError
  BY <1>7 DEF addChild, Check, Then
<1>9. b.node[e].parent = NoNode /\ b.node[e].name = x
  BY <1>6, <1>8 DEF Moved
<1>10. Moved(b, v, e, p, x)
  BY <1>4, <1>7, <1>9, AddChildEffect
<1> QED BY <1>3, <1>5, <1>6, <1>8, <1>10, MovedTrans

\* createNode adds a root.
LEMMA CreateNodeEffect ==
  ASSUME NEW w, Good(w), NEW h, NEW x, NEW time,
         NEW v, v = createNode(w, h, x, time), v.err = NoError
  PROVE  w.err = NoError /\ Added(w, v, NewNode(w), h, x, NoNode, FALSE)
<1>1. w.err = NoError
  BY DEF createNode, Check, Then
<1>2. Node \ DOMAIN w.node # {}
  BY <1>1 DEF createNode, Check, Then, NoError, Good
<1>3. NewNode(w) \in Node \ DOMAIN w.node
  BY <1>2 DEF NewNode
<1> DEFINE rec == [fh |-> h, name |-> x, parent |-> NoNode, kids |-> [y \in Name |-> NoNode],
                   created |-> FALSE, dir |-> FALSE, size |-> 0, access |-> time]
           new == [m \in DOMAIN w.node \cup {NewNode(w)} |->
                     IF m \in DOMAIN w.node THEN w.node[m] ELSE rec]
<1>4. v.node = new
  BY <1>1, <1>2 DEF createNode, Check, Then, Good
<1>5. /\ DOMAIN new = DOMAIN w.node \cup {NewNode(w)} /\ new[NewNode(w)] = rec
      /\ \A m \in DOMAIN w.node : new[m] = w.node[m]
  BY <1>3
<1>6. /\ rec.fh = h /\ rec.name = x /\ rec.parent = NoNode /\ rec.dir = FALSE
  OBVIOUS
<1> HIDE DEF new, rec
<1> QED BY <1>1, <1>3, <1>4, <1>5, <1>6 DEF Added, Stays

\* setType.
LEMMA SetDirEffect ==
  ASSUME NEW w, Good(w), NEW n \in DOMAIN w.node, NEW b,
         NEW v, v = SetDir(w, n, b), v.err = NoError
  PROVE  w.err = NoError /\ Retyped(w, v, n, b)
<1>1. w.err = NoError
  BY DEF SetDir, Then
<1>2. v = [w EXCEPT !.node[n].dir = b]
  BY <1>1 DEF SetDir, Then
<1>3. v.node = [w.node EXCEPT ![n].dir = b]
  BY <1>2 DEF Good
<1>4. \A m \in DOMAIN w.node : w.node[m] \in NodeType
  BY DEF Good, Heap
<1> QED BY <1>1, <1>3, <1>4 DEF NodeType, Retyped, OnlyOf, Stays

\* A new node with a type.
LEMMA AddedRetyped ==
  ASSUME NEW w, NEW v, NEW u, NEW n, NEW h, NEW x, NEW p, NEW b, NEW c,
         Added(w, v, n, h, x, p, b), Retyped(v, u, n, c)
  PROVE  Added(w, u, n, h, x, p, c)
BY DEF Added, Retyped, OnlyOf, Stays

\* A new node that is placed.
LEMMA AddedMoved ==
  ASSUME NEW w, NEW v, NEW u, NEW n, NEW h, NEW x, NEW p, NEW b, NEW q, NEW y,
         Added(w, v, n, h, x, p, b), Moved(v, u, n, q, y)
  PROVE  Added(w, u, n, h, y, q, b)
BY DEF Added, Moved, OnlyOf, Stays

\* What happens quietly before a node is added, or after.
LEMMA QuietAdded ==
  ASSUME NEW w, NEW v, NEW u, NEW t, NEW n, NEW h, NEW x, NEW p, NEW b,
         Quiet(w, v), Added(v, u, n, h, x, p, b), Quiet(u, t)
  PROVE  Added(w, t, n, h, x, p, b)
BY DEF Added, Quiet, Stays

\* The same for the other changes.
LEMMA QuietMoved ==
  ASSUME NEW w, NEW v, NEW u, NEW t, NEW e, NEW x, NEW p,
         Quiet(w, v), Moved(v, u, e, p, x), Quiet(u, t), e \in DOMAIN w.node
  PROVE  Moved(w, t, e, p, x)
BY DEF Moved, OnlyOf, Quiet, Stays

\* The same for a type.
LEMMA QuietRetyped ==
  ASSUME NEW w, NEW v, NEW u, NEW t, NEW n, NEW b,
         Quiet(w, v), Retyped(v, u, n, b), Quiet(u, t), n \in DOMAIN w.node
  PROVE  Retyped(w, t, n, b)
BY DEF Retyped, OnlyOf, Quiet, Stays

\* The same for a node that is freed.
LEMMA QuietFreed ==
  ASSUME NEW w, NEW v, NEW u, NEW t, NEW c,
         Quiet(w, v), Freed(v, u, c), Quiet(u, t)
  PROVE  Freed(w, t, c)
BY DEF Freed, Quiet, Stays

\* Nothing is quiet.
LEMMA QuietRefl ==
  ASSUME NEW w
  PROVE  Quiet(w, w)
BY DEF Quiet, Stays

-----------------------------------------------------------------------------
(* Helpers of the handlers.                                                *)

\* SetLastAccess is quiet.
LEMMA TouchEffect ==
  ASSUME NEW w, Good(w), NEW n \in DOMAIN w.node, NEW time \in Int,
         NEW v, v = Touch(w, n, time)
  PROVE  Quiet(w, v) /\ v.err = w.err
<1>1. SameTree(w, v)
  BY TouchSame
<1>2. v.err = w.err
  BY DEF Touch, Then, Good
<1> QED BY <1>1, <1>2, SameTreeQuiet

\* The directory of a request: found is its node, or it gets one.
Visited(w, v, h, found) ==
  /\ found # NoNode => Quiet(w, v) /\ w.node[found].dir
  /\ found = NoNode => Added(w, v, NewNode(w), h, handleName[h], NoNode, TRUE)

\* getOrCreateDir, and with it VisitDir.
LEMMA VisitDirEffect ==
  ASSUME NEW w, Good(w), NEW h \in Handle, NEW found \in DOMAIN w.node \cup {NoNode},
         NEW time \in Int, NEW v, v = VisitDir(w, h, found, time), v.err = NoError
  PROVE  w.err = NoError /\ Visited(w, v, h, found)
<1> DEFINE u == getOrCreateDir(w, h, found, time)
           n == OrNew(w, found)
<1>1. Extended(w, u) /\ (u.err = NoError => n \in DOMAIN u.node)
  BY GetOrCreateDirExtended
<1>2. v = Touch(u, n, time)
  BY DEF VisitDir
<1>3. u.err = NoError /\ Good(u)
  BY <1>1, <1>2 DEF Touch, Then, Extended
<1>4. Quiet(u, v)
  <2> HIDE DEF u, n
  <2> QED BY <1>1, <1>2, <1>3, TouchEffect
<1>5. w.err = NoError /\ Visited(w, u, h, found)
  <2>1. CASE found = NoNode
    <3> DEFINE a == createNode(w, h, handleName[h], time)
    <3>1. u = SetDir(a, NewNode(w), TRUE)
      BY <2>1 DEF getOrCreateDir
    <3>2. a.err = NoError
      BY <1>3, <3>1 DEF SetDir, Then
    <3>3. Good(a) /\ NewNode(w) \in DOMAIN a.node
      <4>1. handleName[h] \in Name
        BY TreeAssumption
      <4> QED BY <3>2, <4>1, CreateNodeExtended DEF Extended
    <3>4. w.err = NoError /\ Added(w, a, NewNode(w), h, handleName[h], NoNode, FALSE)
      BY <3>2, CreateNodeEffect
    <3>5. Retyped(a, u, NewNode(w), TRUE)
      <4> HIDE DEF a, u
      <4> QED BY <1>3, <3>1, <3>3, SetDirEffect
    <3> QED BY <2>1, <3>4, <3>5, AddedRetyped DEF Visited
  <2>2. CASE found # NoNode
    <3>1. w.err = NoError /\ u = w /\ w.node[found].dir
      BY <1>3, <2>2 DEF getOrCreateDir, Check, Then, NoError, Good
    <3> QED BY <2>2, <3>1, QuietRefl DEF Visited
  <2> QED BY <2>1, <2>2
<1> HIDE DEF u
<1>6. DOMAIN w.node \subseteq DOMAIN u.node
  BY <1>1 DEF Extended
<1> QED BY <1>4, <1>5, QuietTrans, QuietAdded, QuietRefl DEF Visited

\* A new node in a directory.
LEMMA AddNewEffect ==
  ASSUME NEW w, Good(w), NEW h \in Handle, NEW p \in DOMAIN w.node, NEW x \in Name,
         NEW time \in Int, NEW isDir \in BOOLEAN,
         NEW v, v = AddNew(w, p, h, x, time, isDir), v.err = NoError
  PROVE  w.err = NoError /\ Added(w, v, NewNode(w), h, x, p, isDir)
<1> DEFINE n == NewNode(w)
           a == createNode(w, h, x, time)
           b == SetDir(a, n, isDir)
<1>1. Extended(w, a) /\ (a.err = NoError => n \in DOMAIN a.node)
  BY CreateNodeExtended
<1>2. a.err = NoError /\ v = addChild(b, p, n)
  BY DEF AddNew, Then
<1>3. w.err = NoError /\ Added(w, a, n, h, x, NoNode, FALSE)
  BY <1>2, CreateNodeEffect
<1> HIDE DEF a
<1>4. Good(a) /\ n \in DOMAIN a.node /\ p \in DOMAIN a.node
  BY <1>1, <1>2 DEF Extended
<1>5. Good(b) /\ DOMAIN b.node = DOMAIN a.node
  BY <1>4, SetDirKept DEF Kept, Alive
<1>6. b.err = NoError => Retyped(a, b, n, isDir)
  BY <1>4, SetDirEffect
<1> HIDE DEF b, n
<1>7. b.err = NoError
  BY <1>2 DEF addChild, Check, Then
<1>8. Added(w, b, n, h, x, NoNode, isDir)
  BY <1>3, <1>6, <1>7, AddedRetyped
<1>9. b.node[n].parent = NoNode /\ b.node[n].name = x
  BY <1>8 DEF Added
<1>10. Moved(b, v, n, p, x)
  BY <1>2, <1>4, <1>5, <1>9, AddChildEffect
<1> QED BY <1>3, <1>8, <1>10, AddedMoved DEF n

\* The former parent's directory is cleared.
LEMMA ClearParentEffect ==
  ASSUME NEW w, Good(w), NEW p \in DOMAIN w.node \cup {NoNode},
         NEW v, v = ClearParent(w, p)
  PROVE  Quiet(w, v) /\ (v.err = NoError => w.err = NoError)
<1>1. CASE p = NoNode
  BY <1>1, QuietRefl DEF ClearParent
<1>2. CASE p # NoNode
  <2>1. SameTree(w, v)
    BY <1>2, ClearEmptyDirSame DEF ClearParent
  <2> QED BY <2>1, SameTreeQuiet
<1> QED BY <1>1, <1>2

\* createMoveElement moves an element.
LEMMA CreateMoveElementEffect ==
  ASSUME NEW w, Good(w), NEW e \in DOMAIN w.node, NEW p \in DOMAIN w.node, NEW x \in Name,
         NEW v, v = createMoveElement(w, e, p, x), v.err = NoError
  PROVE  w.err = NoError /\ Moved(w, v, e, p, x)
<1> DEFINE a == RenameOnDisk(w, e, p, x)
           b == addChild(setName(Detached(a, e), e, x), p, e)
<1>1. /\ Quiet(w, a) /\ Good(a) /\ DOMAIN a.node = DOMAIN w.node
      /\ a.err = NoError => w.err = NoError
  BY RenameOnDiskSame, SameTreeQuiet
<1> HIDE DEF a
<1>2. Good(b) /\ DOMAIN b.node = DOMAIN w.node
  BY <1>1, ReplacedKept DEF Kept
<1>3. b.err = NoError => a.err = NoError /\ Moved(a, b, e, p, x)
  BY <1>1, ReplacedEffect
<1>4. v = ClearParent(b, w.node[e].parent)
  BY DEF createMoveElement, a
<1>5. w.node[e].parent \in DOMAIN w.node \cup {NoNode}
  BY DEF Good, Heap, ParentKnowsChild
<1> HIDE DEF b
<1>6. Quiet(b, v) /\ b.err = NoError
  BY <1>2, <1>4, <1>5, ClearParentEffect
<1> QED BY <1>1, <1>3, <1>6, QuietMoved

\* createChangeFType decides the type.
LEMMA CreateChangeFTypeEffect ==
  ASSUME NEW w, Good(w), NEW e \in DOMAIN w.node, NEW ftype,
         NEW v, v = createChangeFType(w, e, ftype), v.err = NoError
  PROVE  w.err = NoError /\ Retyped(w, v, e, ftype = "DIR")
<1> DEFINE a == IF w.node[e].created THEN RemoveOnDisk(w, e) ELSE w
           b == ftype = "DIR"
<1>1. w.err = NoError
  BY DEF createChangeFType, Then
<1>2. CASE w.node[e].dir = b
  BY <1>1, <1>2 DEF createChangeFType, Then, Retyped, OnlyOf, Stays
<1>3. CASE w.node[e].dir # b
  <2>1. v = SetDir(a, e, b)
    BY <1>1, <1>3 DEF createChangeFType, Then
  <2>2. Quiet(w, a) /\ Good(a) /\ DOMAIN a.node = DOMAIN w.node
    BY RemoveOnDiskSame, SameTreeQuiet, QuietRefl
  <2> HIDE DEF a, b
  <2>3. Retyped(a, v, e, b)
    BY <2>1, <2>2, SetDirEffect
  <2>4. Retyped(w, v, e, b)
    BY <2>2, <2>3, QuietRetyped, QuietRefl
  <2> QED BY <1>1, <2>4 DEF b
<1> QED BY <1>2, <1>3

-----------------------------------------------------------------------------
(* LOOKUP, CREATE and MKDIR.                                               *)

\* The element c that has the name gives way to the directory e, or gets the
\* handle of the response.
Settled(w, v, p, c, e, req, res) ==
  \/ w.node[c].fh = res.fh /\ Quiet(w, v)
  \/ /\ Displaced(w, c, e, res)
     /\ \E u : Moved(w, u, c, p, handleName[w.node[c].fh]) /\ Moved(u, v, e, p, req.name)
  \/ /\ w.node[c].fh # res.fh /\ ~Displaced(w, c, e, res)
     /\ Rehandled(w, v, c, res.fh)

\* The name is an entry for the handle: of a new node, of the node that has the
\* handle, or of the node that had the name.
Entered(w, v, p, e, req, res) ==
  LET c     == w.node[p].kids[req.name]
      isDir == res.ftype = "DIR"
      n     == IF Displaced(w, c, e, res) THEN e ELSE c
  IN  \/ /\ c = NoNode /\ e = NoNode
         /\ Added(w, v, NewNode(w), res.fh, req.name, p, isDir)
      \/ /\ c = NoNode /\ e # NoNode /\ ~isDir
         /\ Added(w, v, NewNode(w), w.node[e].fh, req.name, p, FALSE)
      \/ /\ c = NoNode /\ e # NoNode
         /\ \E u : Moved(w, u, e, p, req.name) /\ Retyped(u, v, e, isDir)
      \/ /\ c # NoNode
         /\ \E u : Settled(w, u, p, c, e, req, res) /\ Retyped(u, v, n, isDir)

\* The name is taken.
LEMMA SettleElementEffect ==
  ASSUME NEW w, Good(w), NEW p \in DOMAIN w.node, NEW c \in DOMAIN w.node,
         NEW e \in DOMAIN w.node \cup {NoNode}, NEW req, NEW res,
         req.name \in Name, res.fh \in Handle,
         NEW v, v = SettleElement(w, p, c, e, req, res), v.err = NoError
  PROVE  w.err = NoError /\ Settled(w, v, p, c, e, req, res)
<1>1. CASE w.node[c].fh = res.fh
  BY <1>1, QuietRefl DEF SettleElement, Settled
<1>2. CASE w.node[c].fh # res.fh /\ Displaced(w, c, e, res)
  <2> DEFINE x == handleName[w.node[c].fh]
             a == createMoveElement(w, c, p, x)
  <2>1. x \in Name
    BY TreeAssumption DEF Good, Heap, NodeType
  <2>2. e \in DOMAIN w.node
    BY <1>2 DEF Displaced
  <2>3. v = createMoveElement(a, e, p, req.name)
    BY <1>2 DEF SettleElement
  <2>4. Good(a) /\ DOMAIN a.node = DOMAIN w.node
    <3> HIDE DEF x
    <3> QED BY <2>1, CreateMoveElementKept DEF Kept
  <2>5. a.err = NoError => w.err = NoError /\ Moved(w, a, c, p, x)
    <3> HIDE DEF x
    <3> QED BY <2>1, CreateMoveElementEffect
  <2>6. a.err = NoError /\ Moved(a, v, e, p, req.name)
    <3> HIDE DEF a
    <3> QED BY <2>2, <2>3, <2>4, CreateMoveElementEffect
  <2> HIDE DEF a
  <2> QED BY <1>2, <2>5, <2>6 DEF Settled
<1>3. CASE w.node[c].fh # res.fh /\ ~Displaced(w, c, e, res)
  <2>1. v = Then(w, [w EXCEPT !.node[c].fh = res.fh])
    BY <1>3 DEF SettleElement, switchNodeHandle
  <2>2. w.err = NoError /\ v = [w EXCEPT !.node[c].fh = res.fh]
    BY <2>1 DEF Then
  <2>3. v.node = [w.node EXCEPT ![c].fh = res.fh] /\ w.node[c] \in NodeType
    BY <2>2 DEF Good, Heap
  <2>4. Rehandled(w, v, c, res.fh)
    BY <2>3 DEF NodeType, Rehandled, OnlyOf, Stays
  <2> QED BY <1>3, <2>2, <2>4 DEF Settled
<1> QED BY <1>1, <1>2, <1>3

\* createLookup, once the directory is found.
LEMMA LookupInEffect ==
  ASSUME NEW w, Good(w), NEW p \in DOMAIN w.node, NEW e \in DOMAIN w.node \cup {NoNode},
         NEW req, NEW res, EntryArgs(req, res),
         NEW v, v = LookupIn(w, p, e, req, res), v.err = NoError
  PROVE  w.err = NoError /\ Entered(w, v, p, e, req, res)
<1> DEFINE c     == w.node[p].kids[req.name]
           n     == IF c = NoNode \/ Displaced(w, c, e, res) THEN e ELSE c
           isDir == res.ftype = "DIR"
           f     == FALSE
           a     == IF c # NoNode THEN SettleElement(w, p, c, e, req, res)
                    ELSE createMoveElement(w, e, p, req.name)
           new   == AddNew(w, p, w.node[e].fh, req.name, res.time, f)
           b     == createChangeFType(a, n, res.ftype)
<1>1. /\ req.name \in Name /\ res.fh \in Handle /\ res.time \in Int
      /\ isDir \in BOOLEAN /\ f \in BOOLEAN
      /\ c # NoNode => c \in DOMAIN w.node
  BY ChildAllocated DEF EntryArgs, NamesEntry
<1>2. CASE c = NoNode /\ e = NoNode /\ v = AddNew(w, p, res.fh, req.name, res.time, isDir)
  <2>1. w.err = NoError /\ Added(w, v, NewNode(w), res.fh, req.name, p, isDir)
    <3> HIDE DEF isDir
    <3> QED BY <1>1, <1>2, AddNewEffect
  <2> QED BY <1>2, <2>1 DEF Entered
<1>3. CASE c = NoNode /\ e # NoNode /\ ~isDir /\ v = Touch(new, e, res.time)
  <2>1. e \in DOMAIN w.node /\ w.node[e].fh \in Handle
    BY <1>3 DEF Good, Heap, NodeType
  <2>2. Good(new) /\ DOMAIN w.node \subseteq DOMAIN new.node
    <3> HIDE DEF f
    <3> QED BY <1>1, <2>1, AddNewGood
  <2>3. new.err = NoError =>
          w.err = NoError /\ Added(w, new, NewNode(w), w.node[e].fh, req.name, p, f)
    <3> HIDE DEF f
    <3> QED BY <1>1, <2>1, AddNewEffect
  <2> HIDE DEF new, c, isDir
  <2>4. Quiet(new, v) /\ new.err = NoError
    BY <1>1, <1>3, <2>1, <2>2, TouchEffect
  <2>5. w.err = NoError /\ Added(w, v, NewNode(w), w.node[e].fh, req.name, p, f)
    BY <2>3, <2>4, QuietAdded, QuietRefl
  <2> QED BY <1>3, <2>5 DEF Entered, c, isDir
<1>4. CASE (c # NoNode \/ e # NoNode) /\ v = Touch(b, n, res.time)
  <2>1. n \in DOMAIN w.node
    BY <1>1, <1>4 DEF Displaced
  <2>2. /\ Good(a) /\ DOMAIN a.node = DOMAIN w.node
        /\ a.err = NoError =>
             /\ w.err = NoError
             /\ c # NoNode => Settled(w, a, p, c, e, req, res)
             /\ c = NoNode => Moved(w, a, e, p, req.name)
    <3>1. CASE c # NoNode
      <4>1. a = SettleElement(w, p, c, e, req, res) /\ c \in DOMAIN w.node
        BY <1>1, <3>1
      <4> HIDE DEF c, a
      <4>2. Kept(w, a)
        BY <1>1, <4>1, SettleElementKept
      <4>3. a.err = NoError => w.err = NoError /\ Settled(w, a, p, c, e, req, res)
        BY <1>1, <4>1, SettleElementEffect
      <4> QED BY <3>1, <4>2, <4>3 DEF Kept
    <3>2. CASE c = NoNode
      <4>1. a = createMoveElement(w, e, p, req.name) /\ e \in DOMAIN w.node
        BY <1>4, <3>2
      <4> HIDE DEF a, c
      <4> QED BY <1>1, <3>2, <4>1, CreateMoveElementKept, CreateMoveElementEffect DEF Kept
    <3> QED BY <3>1, <3>2
  <2> HIDE DEF a
  <2>3. Good(b) /\ DOMAIN b.node = DOMAIN w.node
    <3> HIDE DEF n
    <3> QED BY <2>1, <2>2, CreateChangeFTypeKept DEF Kept, Alive
  <2>4. b.err = NoError => a.err = NoError /\ Retyped(a, b, n, isDir)
    <3> HIDE DEF n
    <3> QED BY <2>1, <2>2, CreateChangeFTypeEffect
  <2> HIDE DEF b
  <2>5. Quiet(b, v) /\ b.err = NoError
    <3> HIDE DEF n
    <3> QED BY <1>1, <1>4, <2>1, <2>3, TouchEffect
  <2>6. Retyped(a, v, n, isDir)
    <3> HIDE DEF n, isDir
    <3> QED BY <2>1, <2>2, <2>4, <2>5, QuietRetyped, QuietRefl
  <2>7. CASE c = NoNode
    BY <1>4, <2>2, <2>4, <2>5, <2>6, <2>7 DEF Entered
  <2>8. CASE c # NoNode
    BY <2>2, <2>4, <2>5, <2>6, <2>8 DEF Entered
  <2> QED BY <2>7, <2>8
<1> HIDE DEF c, n, isDir, a, b, new
<1> QED BY <1>2, <1>3, <1>4 DEF LookupIn, c, n, isDir, a, b, new

\* What is done to write a file to its new size is quiet.
LEMMA WriteToSizeEffect ==
  ASSUME NEW w, Good(w), NEW n \in DOMAIN w.node, NEW s \in Nat,
         NEW v, v = writeToSize(w, n, s)
  PROVE  /\ Quiet(w, v) /\ Good(v) /\ DOMAIN v.node = DOMAIN w.node
         /\ v.err = NoError => w.err = NoError
BY WriteToSizeSame, SameTreeQuiet

\* So is SetSize.
LEMMA SetSizeEffect ==
  ASSUME NEW w, Good(w), NEW n \in DOMAIN w.node, NEW s \in Nat,
         NEW v, v = SetSize(w, n, s)
  PROVE  /\ Quiet(w, v) /\ Good(v) /\ DOMAIN v.node = DOMAIN w.node
         /\ v.err = NoError => w.err = NoError
BY SetSizeSame, SameTreeQuiet

\* createFile where the name is taken.
LEMMA CreateOverEffect ==
  ASSUME NEW w, Good(w), NEW p \in DOMAIN w.node, NEW c \in DOMAIN w.node,
         NEW e \in DOMAIN w.node \cup {NoNode},
         NEW req, NEW res, EntryArgs(req, res), c = w.node[p].kids[req.name], c # NoNode,
         NEW v, v = CreateOver(w, p, c, e, req, res), v.err = NoError
  PROVE  w.err = NoError /\ Entered(w, v, p, e, req, res)
<1> DEFINE n  == IF Displaced(w, c, e, res) THEN e ELSE c
           a  == SettleElement(w, p, c, e, req, res)
           b  == IF res.op = "CREATE" THEN SetSize(a, n, 0) ELSE a
           wr == writeToSize(b, n, res.size)
           t  == IF res.ftype = "DIR" THEN b ELSE wr
           u  == createChangeFType(t, n, res.ftype)
           isDir == res.ftype = "DIR"
<1>1. /\ req.name \in Name /\ res.fh \in Handle /\ res.time \in Int /\ res.size \in Nat
  BY DEF EntryArgs, NamesEntry
<1>2. n \in DOMAIN w.node
  BY DEF Displaced
<1>3. v = Touch(u, n, res.time)
  BY DEF CreateOver, Rewrite
<1> HIDE DEF n
<1>4. Good(a) /\ DOMAIN a.node = DOMAIN w.node
  <2>1. Kept(w, a)
    BY <1>1, SettleElementKept
  <2> QED BY <2>1 DEF Kept
<1>5. a.err = NoError => w.err = NoError /\ Settled(w, a, p, c, e, req, res)
  BY <1>1, SettleElementEffect
<1> HIDE DEF a
<1>6. Good(b) /\ DOMAIN b.node = DOMAIN w.node /\ Quiet(a, b) /\ (b.err = NoError => a.err = NoError)
  BY <1>2, <1>4, SetSizeEffect, QuietRefl
<1> HIDE DEF b
<1>7. Good(t) /\ DOMAIN t.node = DOMAIN w.node /\ Quiet(b, t) /\ (t.err = NoError => b.err = NoError)
  <2>1. /\ Good(wr) /\ DOMAIN wr.node = DOMAIN w.node
        /\ Quiet(b, wr) /\ (wr.err = NoError => b.err = NoError)
    BY <1>1, <1>2, <1>6, WriteToSizeEffect
  <2> HIDE DEF wr
  <2> QED BY <1>6, <2>1, QuietRefl
<1> HIDE DEF t
<1>8. Good(u) /\ DOMAIN u.node = DOMAIN w.node
  BY <1>2, <1>7, CreateChangeFTypeKept DEF Kept, Alive
<1>9. u.err = NoError => t.err = NoError /\ Retyped(t, u, n, isDir)
  BY <1>2, <1>7, CreateChangeFTypeEffect
<1> HIDE DEF u, isDir
<1>10. Quiet(u, v) /\ u.err = NoError
  BY <1>1, <1>2, <1>3, <1>8, TouchEffect
<1>11. Retyped(a, v, n, isDir)
  BY <1>2, <1>4, <1>6, <1>7, <1>9, <1>10, QuietTrans, QuietRetyped
<1> QED BY <1>5, <1>6, <1>7, <1>9, <1>10, <1>11 DEF Entered, n, isDir

\* createFile where the name is free and the file is known.
LEMMA CreateAgainEffect ==
  ASSUME NEW w, Good(w), NEW p \in DOMAIN w.node, NEW e \in DOMAIN w.node,
         NEW req, NEW res, EntryArgs(req, res),
         NEW v, v = CreateAgain(w, p, e, req, res), v.err = NoError
  PROVE  /\ w.err = NoError
         /\ \E u : Moved(w, u, e, p, req.name) /\ Retyped(u, v, e, res.ftype = "DIR")
<1> DEFINE a  == IF w.node[e].created THEN RemoveOnDisk(w, e) ELSE w
           b  == addChild(setName(Detached(a, e), e, req.name), p, e)
           c  == createChangeFType(b, e, res.ftype)
           t  == SetSize(c, e, 0)
           u  == writeToSize(t, e, res.size)
           q  == w.node[e].parent
           z  == ClearParent(u, q)
           isDir == res.ftype = "DIR"
<1>1. /\ req.name \in Name /\ res.fh \in Handle /\ res.time \in Int /\ res.size \in Nat
  BY DEF EntryArgs, NamesEntry
<1>2. v = Touch(z, e, res.time)
  BY DEF CreateAgain
<1>3. /\ Good(a) /\ DOMAIN a.node = DOMAIN w.node /\ Quiet(w, a)
      /\ a.err = NoError => w.err = NoError
  BY RemoveOnDiskSame, SameTreeQuiet, QuietRefl
<1> HIDE DEF a
<1>4. Good(b) /\ DOMAIN b.node = DOMAIN w.node
  BY <1>1, <1>3, ReplacedKept DEF Kept
<1>5. b.err = NoError => a.err = NoError /\ Moved(a, b, e, p, req.name)
  BY <1>1, <1>3, ReplacedEffect
<1> HIDE DEF b
<1>6. Good(c) /\ DOMAIN c.node = DOMAIN w.node
  BY <1>4, CreateChangeFTypeKept DEF Kept, Alive
<1>7. c.err = NoError => b.err = NoError /\ Retyped(b, c, e, isDir)
  BY <1>4, CreateChangeFTypeEffect
<1> HIDE DEF c, isDir
<1>8. Good(t) /\ DOMAIN t.node = DOMAIN w.node /\ Quiet(c, t) /\ (t.err = NoError => c.err = NoError)
  BY <1>6, SetSizeEffect
<1> HIDE DEF t
<1>9. Good(u) /\ DOMAIN u.node = DOMAIN w.node /\ Quiet(t, u) /\ (u.err = NoError => t.err = NoError)
  BY <1>1, <1>8, WriteToSizeEffect
<1> HIDE DEF u
<1>10. q \in DOMAIN w.node \cup {NoNode}
  BY DEF Good, Heap, ParentKnowsChild
<1> HIDE DEF q
<1>11. Good(z) /\ DOMAIN z.node = DOMAIN w.node
  BY <1>9, <1>10, ClearParentKept DEF Kept
<1>12. Quiet(u, z) /\ (z.err = NoError => u.err = NoError)
  BY <1>9, <1>10, ClearParentEffect
<1> HIDE DEF z
<1>13. Quiet(z, v) /\ z.err = NoError
  BY <1>1, <1>2, <1>11, TouchEffect
<1>14. Quiet(c, v)
  BY <1>8, <1>9, <1>12, <1>13, QuietTrans
<1>15. Retyped(b, v, e, isDir) /\ Moved(w, b, e, p, req.name)
  BY <1>3, <1>4, <1>5, <1>7, <1>8, <1>9, <1>12, <1>13, <1>14, QuietRetyped, QuietMoved, QuietRefl
<1> QED BY <1>3, <1>5, <1>7, <1>8, <1>9, <1>12, <1>13, <1>15 DEF isDir

\* createFile, once the directory is found.
LEMMA CreateInEffect ==
  ASSUME NEW w, Good(w), NEW p \in DOMAIN w.node, NEW e \in DOMAIN w.node \cup {NoNode},
         NEW req, NEW res, EntryArgs(req, res),
         NEW v, v = CreateIn(w, p, e, req, res), v.err = NoError
  PROVE  w.err = NoError /\ Entered(w, v, p, e, req, res)
<1> DEFINE c   == w.node[p].kids[req.name]
           f   == FALSE
           new == AddNew(w, p, res.fh, req.name, res.time, f)
           n   == NewNode(w)
           u   == writeToSize(new, n, res.size)
<1>1. /\ req.name \in Name /\ res.fh \in Handle /\ res.time \in Int /\ res.size \in Nat
      /\ f \in BOOLEAN /\ (c # NoNode => c \in DOMAIN w.node)
  BY ChildAllocated DEF EntryArgs, NamesEntry
<1>2. CASE c # NoNode /\ v = CreateOver(w, p, c, e, req, res)
  BY <1>1, <1>2, CreateOverEffect
<1>3. CASE v = LookupIn(w, p, e, req, res)
  BY <1>3, LookupInEffect
<1>4. CASE c = NoNode /\ e # NoNode /\ v = CreateAgain(w, p, e, req, res)
  <2>1. e \in DOMAIN w.node
    BY <1>4
  <2>2. /\ w.err = NoError
        /\ \E t : Moved(w, t, e, p, req.name) /\ Retyped(t, v, e, res.ftype = "DIR")
    BY <1>4, <2>1, CreateAgainEffect
  <2> QED BY <1>4, <2>2 DEF Entered
<1>5. CASE c = NoNode /\ e = NoNode /\ res.ftype # "DIR" /\ v = Then(new, u)
  <2>1. Good(new) /\ (new.err = NoError => n \in DOMAIN new.node)
    <3> HIDE DEF f
    <3> QED BY <1>1, AddNewGood
  <2>2. new.err = NoError => w.err = NoError /\ Added(w, new, n, res.fh, req.name, p, f)
    <3> HIDE DEF f
    <3> QED BY <1>1, AddNewEffect
  <2> HIDE DEF new
  <2>3. new.err = NoError /\ v = u
    BY <1>5 DEF Then
  <2>4. Quiet(new, v)
    <3> HIDE DEF n
    <3> QED BY <1>1, <2>1, <2>3, WriteToSizeEffect
  <2>5. Added(w, v, n, res.fh, req.name, p, f)
    BY <2>2, <2>3, <2>4, QuietAdded, QuietRefl
  <2>6. (res.ftype = "DIR") = f
    BY <1>5
  <2> HIDE DEF f
  <2> QED BY <1>5, <2>2, <2>3, <2>5, <2>6 DEF Entered
<1> HIDE DEF new, u
<1> QED BY <1>2, <1>3, <1>4, <1>5 DEF CreateIn, new, u

\* LOOKUP, CREATE and MKDIR: the directory is visited, and the name is entered.
EntryMade(w, v, req, res, d, e) ==
  IF NamesEntry(req, res)
  THEN \E u : /\ Good(u) /\ Visited(w, u, req.fh, d) /\ OrNew(w, d) \in DOMAIN u.node
              /\ Entered(u, v, OrNew(w, d), e, req, res)
  ELSE v = w

\* LOOKUP.
LEMMA CreateLookupEffect ==
  ASSUME NEW w, Good(w), NEW req, NEW res, res.time \in Int, res.size \in Nat,
         NEW d \in DOMAIN w.node \cup {NoNode}, NEW e \in DOMAIN w.node \cup {NoNode},
         NEW v, v = createLookup(w, req, res, d, e), v.err = NoError
  PROVE  w.err = NoError /\ EntryMade(w, v, req, res, d, e)
<1> DEFINE a == VisitDir(w, req.fh, d, res.time)
           p == OrNew(w, d)
<1>1. CASE ~NamesEntry(req, res)
  BY <1>1 DEF createLookup, EntryMade
<1>2. CASE NamesEntry(req, res)
  <2>1. EntryArgs(req, res) /\ req.fh \in Handle
    BY <1>2 DEF EntryArgs, NamesEntry
  <2>2. Extended(w, a) /\ (a.err = NoError => p \in DOMAIN a.node)
    BY <2>1, VisitDirExtended
  <2>3. a.err = NoError => w.err = NoError /\ Visited(w, a, req.fh, d)
    BY <2>1, VisitDirEffect
  <2>4. a.err = NoError /\ v = LookupIn(a, p, e, req, res)
    BY <1>2 DEF createLookup, Then
  <2> HIDE DEF a, p
  <2>5. Good(a) /\ p \in DOMAIN a.node /\ e \in DOMAIN a.node \cup {NoNode}
    BY <2>2, <2>4 DEF Extended
  <2>6. Entered(a, v, p, e, req, res)
    BY <2>1, <2>4, <2>5, LookupInEffect
  <2> QED BY <1>2, <2>3, <2>4, <2>5, <2>6 DEF EntryMade, p
<1> QED BY <1>1, <1>2

\* CREATE and MKDIR.
LEMMA CreateFileEffect ==
  ASSUME NEW w, Good(w), NEW req, NEW res, res.time \in Int, res.size \in Nat,
         NEW d \in DOMAIN w.node \cup {NoNode}, NEW e \in DOMAIN w.node \cup {NoNode},
         NEW v, v = createFile(w, req, res, d, e), v.err = NoError
  PROVE  w.err = NoError /\ EntryMade(w, v, req, res, d, e)
<1> DEFINE a == VisitDir(w, req.fh, d, res.time)
           p == OrNew(w, d)
<1>1. CASE ~NamesEntry(req, res)
  BY <1>1 DEF createFile, EntryMade
<1>2. CASE NamesEntry(req, res)
  <2>1. EntryArgs(req, res) /\ req.fh \in Handle
    BY <1>2 DEF EntryArgs, NamesEntry
  <2>2. Extended(w, a) /\ (a.err = NoError => p \in DOMAIN a.node)
    BY <2>1, VisitDirExtended
  <2>3. a.err = NoError => w.err = NoError /\ Visited(w, a, req.fh, d)
    BY <2>1, VisitDirEffect
  <2>4. a.err = NoError /\ v = CreateIn(a, p, e, req, res)
    BY <1>2 DEF createFile, Then
  <2> HIDE DEF a, p
  <2>5. Good(a) /\ p \in DOMAIN a.node /\ e \in DOMAIN a.node \cup {NoNode}
    BY <2>2, <2>4 DEF Extended
  <2>6. Entered(a, v, p, e, req, res)
    BY <2>1, <2>4, <2>5, CreateInEffect
  <2> QED BY <1>2, <2>3, <2>4, <2>5, <2>6 DEF EntryMade, p
<1> QED BY <1>1, <1>2

-----------------------------------------------------------------------------
(* WRITE, ACCESS, GETATTR and SETATTR.                                     *)

\* The node of a request that need not be of a directory.
Known(w, v, h, found) ==
  /\ found # NoNode => Quiet(w, v)
  /\ found = NoNode => Added(w, v, NewNode(w), h, handleName[h], NoNode, FALSE)

\* getOrCreateNode.
LEMMA GetOrCreateNodeEffect ==
  ASSUME NEW w, Good(w), NEW h \in Handle, NEW found \in DOMAIN w.node \cup {NoNode},
         NEW time \in Int, NEW v, v = getOrCreateNode(w, h, found, time), v.err = NoError
  PROVE  w.err = NoError /\ Known(w, v, h, found)
<1>1. CASE found # NoNode
  BY <1>1, QuietRefl DEF getOrCreateNode, Known
<1>2. CASE found = NoNode
  <2>1. v = createNode(w, h, handleName[h], time)
    BY <1>2 DEF getOrCreateNode
  <2>2. w.err = NoError /\ Added(w, v, NewNode(w), h, handleName[h], NoNode, FALSE)
    BY <2>1, CreateNodeEffect
  <2> QED BY <1>2, <2>2 DEF Known
<1> QED BY <1>1, <1>2

\* The open(2) and the write(2) or truncate(2) of a WRITE are quiet.
LEMMA WriteToEffect ==
  ASSUME NEW w, Good(w), NEW n \in DOMAIN w.node, NEW req,
         req.offset \in Nat, req.count \in Nat,
         NEW v, v = WriteTo(w, n, req)
  PROVE  Quiet(w, v)
<1> DEFINE end   == (req.offset + req.count) % SizeSpace
           a     == IF end > w.node[n].size THEN SetSize(w, n, end) ELSE w
           trunc == w.node[n].size = 0
           u     == OpenNode(a, n, trunc)
<1>1. end \in Nat
  BY EngineAssumption
<1> HIDE DEF end
<1>2. Good(a) /\ DOMAIN a.node = DOMAIN w.node /\ Quiet(w, a)
  BY <1>1, SetSizeEffect, QuietRefl
<1> HIDE DEF a
<1>3. Good(u) /\ Quiet(w, u)
  BY <1>2, OpenNodeSame, SameTreeQuiet, QuietTrans
<1> HIDE DEF u
<1>4. \A disk1 : Quiet(w, [u EXCEPT !.disk = disk1])
  BY <1>3, DiskSame, SameTreeQuiet, QuietTrans
<1>5. v = a \/ v = u \/ \E disk1 : v = [u EXCEPT !.disk = disk1]
  BY DEF WriteTo, Truncate, Fill, end, a, u
<1> QED BY <1>2, <1>3, <1>4, <1>5

\* WRITE.
LEMMA WriteFileEffect ==
  ASSUME NEW w, Good(w), NEW req, NEW res, res.time \in Int,
         req.offset \in Nat, req.count \in Nat,
         NEW d \in DOMAIN w.node \cup {NoNode},
         NEW v, v = writeFile(w, req, res, d), v.err = NoError
  PROVE  /\ w.err = NoError
         /\ IF req.fh \in Handle /\ res.ftype = "REG" THEN Known(w, v, req.fh, d) ELSE v = w
<1> DEFINE n == OrNew(w, d)
           a == getOrCreateNode(w, req.fh, d, res.time)
           b == Touch(a, n, res.time)
           c == MakeParent(b, n)
           u == Then(b, c)
           e == calcPath(u, n)
           t == Then(u, e)
           f == WriteTo(t, n, req)
<1>1. CASE ~(req.fh \in Handle /\ res.ftype = "REG")
  BY <1>1 DEF writeFile
<1>2. CASE req.fh \in Handle /\ res.ftype = "REG"
  <2>1. v = Then(t, f)
    BY <1>2 DEF writeFile
  <2>2. t.err = NoError /\ v = f
    BY <2>1 DEF Then
  <2>3. u.err = NoError /\ t = e
    BY <2>2 DEF Then
  <2>4. b.err = NoError /\ u = c
    BY <2>3 DEF Then
  <2>5. a.err = NoError
    BY <2>4 DEF Touch, Then
  <2>6. Extended(w, a) /\ (a.err = NoError => n \in DOMAIN a.node)
    BY <1>2, GetOrCreateNodeExtended
  <2>7. w.err = NoError /\ Known(w, a, req.fh, d)
    BY <1>2, <2>5, GetOrCreateNodeEffect
  <2> HIDE DEF a, n
  <2>8. Good(a) /\ n \in DOMAIN a.node /\ DOMAIN w.node \subseteq DOMAIN a.node
    BY <2>5, <2>6 DEF Extended
  <2>9. Good(b) /\ DOMAIN b.node = DOMAIN a.node /\ Quiet(a, b)
    BY <2>8, TouchSame, SameTreeQuiet
  <2> HIDE DEF b
  <2>10. Good(u) /\ DOMAIN u.node = DOMAIN a.node /\ Quiet(b, u)
    <3>1. Good(c) /\ DOMAIN c.node = DOMAIN b.node /\ Quiet(b, c)
      BY <2>8, <2>9, MakeParentSame, SameTreeQuiet
    <3> HIDE DEF c
    <3> QED BY <2>4, <2>9, <3>1
  <2> HIDE DEF u
  <2>11. Good(t) /\ DOMAIN t.node = DOMAIN a.node /\ Quiet(u, t)
    <3>1. Good(e) /\ DOMAIN e.node = DOMAIN u.node /\ Quiet(u, e)
      BY <2>8, <2>10, CalcPathSame, SameTreeQuiet
    <3> HIDE DEF e
    <3> QED BY <2>3, <2>10, <3>1
  <2> HIDE DEF t
  <2>12. Quiet(t, v)
    BY <2>2, <2>8, <2>11, WriteToEffect
  <2>13. Quiet(a, v)
    BY <2>9, <2>10, <2>11, <2>12, QuietTrans
  <2>14. Known(w, v, req.fh, d)
    BY <2>7, <2>13, QuietTrans, QuietAdded, QuietRefl DEF Known
  <2> QED BY <1>2, <2>7, <2>14
<1> QED BY <1>1, <1>2

\* ACCESS, GETATTR and SETATTR.
LEMMA GetAttrEffect ==
  ASSUME NEW w, Good(w), NEW req, NEW res, res.time \in Int,
         NEW d \in DOMAIN w.node \cup {NoNode},
         NEW v, v = getAttr(w, req, res, d), v.err = NoError
  PROVE  w.err = NoError /\ Quiet(w, v)
<1> DEFINE a == Touch(w, d, res.time)
           b == calcPath(a, d)
<1>1. CASE v = w
  BY <1>1, QuietRefl
<1>2. CASE d # NoNode /\ (v = a \/ v = b)
  <2>1. d \in DOMAIN w.node
    BY <1>2
  <2>2. Good(a) /\ DOMAIN a.node = DOMAIN w.node /\ Quiet(w, a) /\ (a.err = NoError => w.err = NoError)
    BY <2>1, TouchSame, SameTreeQuiet
  <2> HIDE DEF a
  <2>3. Quiet(a, b) /\ (b.err = NoError => a.err = NoError)
    BY <2>1, <2>2, CalcPathSame, SameTreeQuiet
  <2> HIDE DEF b
  <2> QED BY <1>2, <2>2, <2>3, QuietTrans
<1> QED BY <1>1, <1>2 DEF getAttr

-----------------------------------------------------------------------------
(* REMOVE and RMDIR.                                                       *)

\* A node that is taken from its parent and freed.
LEMMA MovedFreed ==
  ASSUME NEW w, NEW v, NEW u, NEW c, NEW x, Moved(w, v, c, NoNode, x), Freed(v, u, c)
  PROVE  Freed(w, u, c)
BY DEF Moved, OnlyOf, Freed, Stays

\* removeNode.
LEMMA RemoveNodeEffect ==
  ASSUME NEW w, Good(w), NEW n \in DOMAIN w.node,
         NEW v, v = removeNode(w, n), v.err = NoError
  PROVE  w.err = NoError /\ Freed(w, v, n)
<1>1. w.err = NoError
  BY DEF removeNode, Then
<1>2. v = [w EXCEPT !.node = Restrict(@, DOMAIN @ \ {n})]
  BY <1>1 DEF removeNode, Then
<1>3. v.node = [m \in DOMAIN w.node \ {n} |-> w.node[m]]
  BY <1>2 DEF Good, Restrict
<1> QED BY <1>1, <1>3 DEF Freed, Stays

\* A child without children, removed from the disk and from its parent.
LEMMA TakenOutEffect ==
  ASSUME NEW w, Good(w), NEW p \in DOMAIN w.node, NEW c \in DOMAIN w.node,
         w.node[c].parent = p, isDeletable(w, c),
         NEW u, u = deleteChild(IF w.node[c].created THEN Unlink(w, c) ELSE w, p, c),
         u.err = NoError
  PROVE  w.err = NoError /\ Moved(w, u, c, NoNode, w.node[c].name)
<1> DEFINE v == IF w.node[c].created THEN Unlink(w, c) ELSE w
<1>1. SameTree(w, v)
  BY UnlinkSame, SameTreeRefl
<1>2. u = deleteChild(v, p, c)
  OBVIOUS
<1> HIDE DEF v
<1>3. Good(v) /\ DOMAIN v.node = DOMAIN w.node /\ Quiet(w, v) /\ (v.err = NoError => w.err = NoError)
  BY <1>1, SameTreeQuiet
<1>4. u = removeChild(v, p, c) /\ v.err = NoError
  <2>1. isDeletable(v, c)
    BY <1>1 DEF SameTree, isDeletable, Kids
  <2> QED BY <1>2, <2>1 DEF deleteChild, Check, Then
<1>5. Moved(v, u, c, NoNode, v.node[c].name)
  BY <1>3, <1>4, RemoveChildEffect
<1>6. v.node[c].name = w.node[c].name
  BY <1>3 DEF Quiet, Stays
<1> QED BY <1>3, <1>4, <1>5, <1>6, QuietMoved, QuietRefl

\* removeFile of a child without children.
LEMMA RemoveChildOfEffect ==
  ASSUME NEW w, Good(w), NEW d \in DOMAIN w.node, NEW c \in DOMAIN w.node,
         w.node[c].parent = d, isDeletable(w, c), NEW time \in Int,
         NEW v, v = RemoveChildOf(w, d, c, time), v.err = NoError
  PROVE  w.err = NoError /\ Freed(w, v, c)
<1> DEFINE u == deleteChild(IF w.node[c].created THEN Unlink(w, c) ELSE w, d, c)
           a == clearEmptyDir(u, d)
           b == Then(u, a)
           t == Touch(b, d, time)
<1>1. Good(u) /\ DOMAIN u.node = DOMAIN w.node
  BY TakenOutGood DEF Kept
<1>2. u.err = NoError => w.err = NoError /\ Moved(w, u, c, NoNode, w.node[c].name)
  BY TakenOutEffect
<1>3. v = removeNode(t, c)
  BY DEF RemoveChildOf
<1> HIDE DEF u
<1>4. Good(a) /\ DOMAIN a.node = DOMAIN w.node /\ Quiet(u, a) /\ (a.err = NoError => u.err = NoError)
  BY <1>1, ClearEmptyDirSame, SameTreeQuiet
<1> HIDE DEF a
<1>5. Good(b) /\ DOMAIN b.node = DOMAIN w.node /\ Quiet(u, b) /\ (b.err = NoError => u.err = NoError)
  BY <1>1, <1>4, QuietRefl DEF Then
<1> HIDE DEF b
<1>6. Good(t) /\ DOMAIN t.node = DOMAIN w.node /\ Quiet(b, t) /\ (t.err = NoError => b.err = NoError)
  BY <1>5, TouchSame, SameTreeQuiet
<1> HIDE DEF t
<1>7. t.err = NoError /\ Freed(t, v, c)
  BY <1>3, <1>6, RemoveNodeEffect
<1>8. Moved(w, t, c, NoNode, w.node[c].name)
  BY <1>2, <1>5, <1>6, <1>7, QuietTrans, QuietMoved, QuietRefl
<1> QED BY <1>2, <1>5, <1>6, <1>7, <1>8, MovedFreed

\* REMOVE and RMDIR: the element is freed if it is there and has no children.
Dropped(w, v, req, d) ==
  LET c == w.node[d].kids[req.name]
  IN  IF /\ req.fh \in Handle /\ req.name \in Name
         /\ d # NoNode
         /\ c # NoNode /\ isDeletable(w, c)
      THEN Freed(w, v, c) ELSE v = w

\* REMOVE and RMDIR.
LEMMA RemoveFileEffect ==
  ASSUME NEW w, Good(w), NEW req, NEW res, res.time \in Int,
         NEW d \in DOMAIN w.node \cup {NoNode},
         NEW v, v = removeFile(w, req, res, d), v.err = NoError
  PROVE  w.err = NoError /\ Dropped(w, v, req, d)
<1> DEFINE c == w.node[d].kids[req.name]
           G == /\ req.fh \in Handle /\ req.name \in Name
                /\ d # NoNode
                /\ c # NoNode /\ isDeletable(w, c)
<1>1. CASE ~G
  BY <1>1 DEF removeFile, Dropped
<1>2. CASE G
  <2>1. d \in DOMAIN w.node /\ c \in DOMAIN w.node /\ w.node[c].parent = d /\ isDeletable(w, c)
    BY <1>2, ChildAllocated
  <2>2. v = RemoveChildOf(w, d, c, res.time)
    BY <1>2 DEF removeFile
  <2>3. w.err = NoError /\ Freed(w, v, c)
    <3> HIDE DEF c
    <3> QED BY <2>1, <2>2, RemoveChildOfEffect
  <2> QED BY <1>2, <2>3 DEF Dropped
<1> QED BY <1>1, <1>2

-----------------------------------------------------------------------------
(* RENAME.                                                                 *)

\* The overwritten target is freed.
LEMMA TargetFreedEffect ==
  ASSUME NEW w, Good(w), NEW q \in DOMAIN w.node, NEW b \in DOMAIN w.node,
         w.node[b].parent = q, isDeletable(w, b),
         NEW t, t = removeNode(deleteChild(w, q, b), b), t.err = NoError
  PROVE  w.err = NoError /\ Freed(w, t, b)
<1> DEFINE u == deleteChild(w, q, b)
<1>1. Loosened(w, u, b)
  BY DeleteChildGood
<1>2. t = removeNode(u, b)
  OBVIOUS
<1>3. u = removeChild(w, q, b) \/ (w.err # NoError /\ u.err # NoError)
  BY DEF deleteChild, Check, Then
<1> HIDE DEF u
<1>4. Good(u) /\ DOMAIN u.node = DOMAIN w.node
  BY <1>1 DEF Loosened
<1>5. u.err = NoError /\ Freed(u, t, b)
  BY <1>2, <1>4, RemoveNodeEffect
<1>6. w.err = NoError /\ Moved(w, u, b, NoNode, w.node[b].name)
  BY <1>3, <1>5, RemoveChildEffect
<1> QED BY <1>5, <1>6, MovedFreed

\* The source is taken from its parent, named and added to the target's parent.
LEMMA SourceMovedEffect ==
  ASSUME NEW t, Good(t), NEW a \in DOMAIN t.node, NEW p \in DOMAIN t.node,
         NEW q \in DOMAIN t.node, t.node[a].parent = p, NEW x \in Name,
         NEW s, s = addChild(setName(removeChild(t, p, a), a, x), q, a), s.err = NoError
  PROVE  t.err = NoError /\ Moved(t, s, a, q, x)
<1>1. p # NoNode
  BY TreeAssumption DEF Good, Heap
<1>2. Detached(t, a) = removeChild(t, p, a)
  BY <1>1 DEF Detached
<1>3. s = addChild(setName(Detached(t, a), a, x), q, a)
  BY <1>2
<1> QED BY <1>3, ReplacedEffect

\* The target b goes, if there is one, and a takes its place.
TakesPlace(w, v, a, q, b, x) ==
  \E t : /\ Good(t) /\ IF b = NoNode THEN Quiet(w, t) ELSE Freed(w, t, b)
         /\ a \in DOMAIN t.node /\ q \in DOMAIN t.node
         /\ Moved(t, v, a, q, x)

\* The move of a rename, on the disk and in the tree.
LEMMA MoveOverEffect ==
  ASSUME NEW w, Good(w), NEW p \in DOMAIN w.node, NEW a \in DOMAIN w.node,
         w.node[a].parent = p, NEW q \in DOMAIN w.node, NEW b \in DOMAIN w.node \cup {NoNode},
         b # NoNode => w.node[b].parent = q /\ isDeletable(w, b), a # b, NEW x \in Name,
         NEW z, z = MoveOver(w, p, a, q, b, x), z.err = NoError
  PROVE  w.err = NoError /\ TakesPlace(w, z, a, q, b, x)
<1> DEFINE v  == RenameOnDisk(w, a, q, x)
           sc == SetCreated(v, a)
           u  == IF v.node[b].created THEN sc ELSE v
           dl == removeNode(deleteChild(u, q, b), b)
           t  == IF b = NoNode THEN v ELSE dl
           s  == addChild(setName(removeChild(t, p, a), a, x), q, a)
           cl == clearEmptyDir(s, p)
<1>1. z = cl
  BY DEF MoveOver, Overwritten
<1>2. /\ SameTree(w, v) /\ Good(v) /\ DOMAIN v.node = DOMAIN w.node /\ Quiet(w, v)
      /\ v.err = NoError => w.err = NoError
  BY RenameOnDiskSame, SameTreeQuiet
<1> HIDE DEF v
<1>3. /\ SameTree(v, sc) /\ Good(sc) /\ DOMAIN sc.node = DOMAIN w.node /\ Quiet(v, sc)
      /\ sc.err = NoError => v.err = NoError
  BY <1>2, SetCreatedSame, SameTreeQuiet
<1> HIDE DEF sc
<1>4. /\ SameTree(w, u) /\ Good(u) /\ DOMAIN u.node = DOMAIN w.node /\ Quiet(w, u)
      /\ u.err = NoError => w.err = NoError
  BY <1>2, <1>3, SameTreeTrans, QuietTrans
<1> HIDE DEF u
<1>5. /\ Good(t) /\ {a, p, q} \subseteq DOMAIN t.node /\ t.node[a].parent = p
      /\ t.err = NoError =>
           /\ w.err = NoError
           /\ IF b = NoNode THEN Quiet(w, t) ELSE Freed(w, t, b)
  <2>1. CASE b = NoNode
    BY <1>2, <2>1 DEF SameTree
  <2>2. CASE b # NoNode
    <3>0. b \in DOMAIN w.node /\ w.node[b].parent = q /\ isDeletable(w, b)
      BY <2>2
    <3>1. /\ b \in DOMAIN u.node /\ u.node[b].parent = q /\ u.node[a].parent = p
          /\ isDeletable(u, b)
      <4>1. SameTree(w, u) /\ a \in DOMAIN w.node
        BY <1>4
      <4> HIDE DEF t
      <4> QED BY <3>0, <4>1, SameTreeNode
    <3>2. t = removeNode(deleteChild(u, q, b), b)
      BY <2>2
    <3> HIDE DEF t
    <3>3. Good(t) /\ {a, p, q} \subseteq DOMAIN t.node /\ t.node[a].parent = p
      BY <1>4, <3>1, <3>2, TargetFreed
    <3>4. t.err = NoError => u.err = NoError /\ Freed(u, t, b)
      BY <1>4, <3>1, <3>2, TargetFreedEffect
    <3> QED BY <1>4, <2>2, <3>3, <3>4, QuietFreed, QuietRefl
  <2> QED BY <2>1, <2>2
<1> HIDE DEF t
<1>6. Good(s) /\ DOMAIN s.node = DOMAIN t.node
  BY <1>5, MovedGood DEF Kept
<1>7. s.err = NoError => t.err = NoError /\ Moved(t, s, a, q, x)
  BY <1>5, SourceMovedEffect
<1> HIDE DEF s
<1>8. Quiet(s, z) /\ s.err = NoError
  BY <1>1, <1>5, <1>6, ClearEmptyDirSame, SameTreeQuiet
<1>9. Moved(t, z, a, q, x)
  BY <1>5, <1>7, <1>8, QuietMoved, QuietRefl
<1> QED BY <1>5, <1>7, <1>8, <1>9 DEF TakesPlace

\* renameFile, once both directories are found: the target must be deletable.
RenamedIn(w, v, a, q, x) ==
  LET b == w.node[q].kids[x]
  IN  IF (b = NoNode \/ isDeletable(w, b)) /\ a # b THEN TakesPlace(w, v, a, q, b, x)
      ELSE v = w

\* RENAME.
MovedOver(w, v, req, d, f) ==
  LET a == w.node[d].kids[req.name]
      q == OrNew(w, f)
  IN  IF /\ req.fh \in Handle /\ req.fh2 \in Handle
         /\ req.name \in Name /\ req.name2 \in Name
         /\ ~(req.fh = req.fh2 /\ req.name = req.name2)
         /\ d # NoNode
         /\ a # NoNode
      THEN \E u : /\ Good(u) /\ Visited(w, u, req.fh2, f) /\ q \in DOMAIN u.node
                  /\ RenamedIn(u, v, a, q, req.name2)
      ELSE v = w

\* RENAME.
LEMMA RenameFileEffect ==
  ASSUME NEW w, Good(w), NEW req, NEW res, res.time \in Int,
         NEW d \in DOMAIN w.node \cup {NoNode}, NEW f \in DOMAIN w.node \cup {NoNode},
         NEW z, z = renameFile(w, req, res, d, f), z.err = NoError
  PROVE  w.err = NoError /\ MovedOver(w, z, req, d, f)
<1> DEFINE a  == w.node[d].kids[req.name]
           q  == OrNew(w, f)
           t1 == Touch(w, d, res.time)
           t2 == Touch(t1, a, res.time)
           v  == VisitDir(t2, req.fh2, f, res.time)
           r  == RenameIn(v, d, a, q, req)
           G  == /\ req.fh \in Handle /\ req.fh2 \in Handle
                 /\ req.name \in Name /\ req.name2 \in Name
                 /\ ~(req.fh = req.fh2 /\ req.name = req.name2)
                 /\ d # NoNode
                 /\ a # NoNode
<1>1. CASE ~G
  <2>1. z = w
    BY <1>1 DEF renameFile
  <2> QED BY <1>1, <2>1 DEF MovedOver
<1>2. CASE G
  <2>1. z = Then(v, r)
    BY <1>2 DEF renameFile
  <2>2. v.err = NoError /\ z = r
    BY <2>1 DEF Then
  <2>3. /\ req.fh2 \in Handle /\ req.name2 \in Name /\ d \in DOMAIN w.node
        /\ a \in DOMAIN w.node /\ w.node[a].parent = d
    BY <1>2, ChildAllocated
  <2>4. \E u : /\ Good(u) /\ Visited(w, u, req.fh2, f) /\ q \in DOMAIN u.node
               /\ RenamedIn(u, z, a, q, req.name2)
    <3> HIDE DEF a, G
    <3>1. /\ Good(t1) /\ DOMAIN t1.node = DOMAIN w.node /\ Quiet(w, t1)
          /\ t1.err = NoError => w.err = NoError
      BY <2>3, TouchSame, SameTreeQuiet
    <3> HIDE DEF t1
    <3>2. /\ Good(t2) /\ DOMAIN t2.node = DOMAIN w.node /\ Quiet(t1, t2)
          /\ t2.err = NoError => t1.err = NoError
      BY <2>3, <3>1, TouchSame, SameTreeQuiet
    <3> HIDE DEF t2
    <3>3. /\ NewNode(t2) = NewNode(w) /\ OrNew(t2, f) = OrNew(w, f)
          /\ f \in DOMAIN t2.node \cup {NoNode}
      BY <3>2 DEF NewNode, OrNew
    <3>4. Extended(t2, v) /\ (v.err = NoError => q \in DOMAIN v.node)
      BY <2>3, <3>2, <3>3, VisitDirExtended
    <3>5. Visited(t2, v, req.fh2, f)
      BY <2>2, <2>3, <3>2, <3>3, VisitDirEffect
    <3>6. Quiet(w, t2)
      BY <3>1, <3>2, QuietTrans
    <3>7. Visited(w, v, req.fh2, f)
      BY <3>3, <3>5, <3>6, QuietTrans, QuietAdded, QuietRefl DEF Visited, Quiet, Stays
    <3>8. /\ Good(v) /\ q \in DOMAIN v.node /\ d \in DOMAIN v.node /\ a \in DOMAIN v.node
          /\ v.node[a].parent = d
      BY <2>2, <2>3, <3>2, <3>4, <3>6 DEF Extended, Quiet, Stays
    <3> HIDE DEF v, q
    <3>9. RenamedIn(v, z, a, q, req.name2)
      <4> DEFINE b == v.node[q].kids[req.name2]
      <4>1. CASE (b = NoNode \/ isDeletable(v, b)) /\ a # b
        <5>1. b \in DOMAIN v.node \cup {NoNode} /\ (b # NoNode => v.node[b].parent = q /\ isDeletable(v, b))
          BY <2>3, <3>8, <4>1, ChildAllocated, SMTT(20)
        <5>2. z = MoveOver(v, d, a, q, b, req.name2)
          BY <2>2, <4>1 DEF RenameIn
        <5>3. TakesPlace(v, z, a, q, b, req.name2)
          <6> HIDE DEF b
          <6> QED BY <2>3, <3>8, <4>1, <5>1, <5>2, MoveOverEffect
        <5> QED BY <4>1, <5>3 DEF RenamedIn
      <4>2. CASE ~((b = NoNode \/ isDeletable(v, b)) /\ a # b)
        BY <2>2, <4>2 DEF RenameIn, RenamedIn
      <4> QED BY <4>1, <4>2
    <3> QED BY <3>7, <3>8, <3>9
  <2>5. w.err = NoError
    BY <2>2 DEF VisitDir, getOrCreateDir, createNode, SetDir, Touch, Check, Then
  <2> QED BY <1>2, <2>4, <2>5 DEF MovedOver
<1> QED BY <1>1, <1>2

-----------------------------------------------------------------------------
(* LINK and SYMLINK.                                                       *)

\* The child that has the name x goes, if there is one, and a new node for
\* handle h, which is not a directory, takes its place.
NodeMade(w, v, p, h, x) ==
  LET c == w.node[p].kids[x]
  IN  \E t : /\ Good(t) /\ IF c = NoNode THEN Quiet(w, t) ELSE Freed(w, t, c)
             /\ p \in DOMAIN t.node
             /\ Added(t, v, NewNode(t), h, x, p, FALSE)

\* Or else the child stays.
LinkMade(w, v, p, h, x) ==
  \/ w.node[p].kids[x] # NoNode /\ Quiet(w, v)
  \/ NodeMade(w, v, p, h, x)

\* That the disk may hold a node already is quiet.
LEMMA PlacedEffect ==
  ASSUME NEW u, Good(u), NEW n \in DOMAIN u.node,
         NEW v, v = SetCreated(u, n) \/ \E d : v = [SetCreated(u, n) EXCEPT !.disk = d]
  PROVE  Quiet(u, v)
<1> DEFINE a == SetCreated(u, n)
<1>1. Good(a) /\ Quiet(u, a)
  BY SetCreatedSame, SameTreeQuiet
<1> HIDE DEF a
<1>2. \A d : Quiet(a, [a EXCEPT !.disk = d])
  BY <1>1, DiskSame, SameTreeQuiet
<1> QED BY <1>1, <1>2, QuietTrans DEF a

\* createLink, once the name is free.
LEMMA LinkInEffect ==
  ASSUME NEW w, Good(w), NEW p \in DOMAIN w.node, NEW s \in DOMAIN w.node,
         NEW x \in Name, NEW time \in Int, NEW z, z = LinkIn(w, p, s, x, time),
         z.err = NoError
  PROVE  w.err = NoError /\ Added(w, z, NewNode(w), w.node[s].fh, x, p, FALSE)
<1> DEFINE a == calcPath(w, s)
           b == makePath(a, p)
           v == IF w.node[s].created THEN b ELSE w
           n == NewNode(w)
           h == w.node[s].fh
           f == FALSE
           u == AddNew(v, p, h, x, time, f)
<1>1. Good(a) /\ DOMAIN a.node = DOMAIN w.node /\ Quiet(w, a) /\ (a.err = NoError => w.err = NoError)
  BY CalcPathSame, SameTreeQuiet
<1>2. Good(b) /\ DOMAIN b.node = DOMAIN w.node /\ Quiet(a, b) /\ (b.err = NoError => a.err = NoError)
  <2> HIDE DEF a
  <2> QED BY <1>1, MakePathSame, SameTreeQuiet
<1>3. Good(v) /\ DOMAIN v.node = DOMAIN w.node /\ Quiet(w, v) /\ (v.err = NoError => w.err = NoError)
  <2> HIDE DEF a, b
  <2> QED BY <1>1, <1>2, QuietTrans, QuietRefl
<1>4. h \in Handle /\ f \in BOOLEAN
  BY DEF Good, Heap, NodeType
<1>5. n = NewNode(v)
  BY <1>3 DEF NewNode
<1>6. /\ Good(u) /\ Alive(u, n)
      /\ u.err = NoError => v.err = NoError /\ Added(v, u, n, h, x, p, f)
  <2> HIDE DEF v, h, f, n
  <2> QED BY <1>3, <1>4, <1>5, AddNewGood, AddNewEffect DEF Alive
<1>7. \/ z = u
      \/ /\ u.err = NoError
         /\ z = SetCreated(u, n) \/ \E d : z = [SetCreated(u, n) EXCEPT !.disk = d]
  BY DEF LinkIn, LinkOnDisk, a, b, v, n, h, f, u
<1> HIDE DEF v, u, n, h
<1>8. u.err = NoError /\ Quiet(u, z)
  BY <1>6, <1>7, PlacedEffect, QuietRefl DEF Alive
<1>9. Added(w, z, n, h, x, p, f)
  BY <1>3, <1>6, <1>8, QuietAdded
<1> QED BY <1>3, <1>6, <1>8, <1>9 DEF n, h

\* The element a link replaces is freed.
LEMMA ReplaceChildEffect ==
  ASSUME NEW w, Good(w), NEW p \in DOMAIN w.node, NEW c \in DOMAIN w.node,
         w.node[c].parent = p, isDeletable(w, c),
         NEW v, v = ReplaceChild(w, p, c), v.err = NoError
  PROVE  w.err = NoError /\ Freed(w, v, c)
<1> DEFINE u == deleteChild(IF w.node[c].created THEN Unlink(w, c) ELSE w, p, c)
<1>1. Good(u) /\ DOMAIN u.node = DOMAIN w.node
  BY TakenOutGood DEF Kept
<1>2. u.err = NoError => w.err = NoError /\ Moved(w, u, c, NoNode, w.node[c].name)
  BY TakenOutEffect
<1>3. v = removeNode(u, c)
  BY DEF ReplaceChild
<1> HIDE DEF u
<1>4. u.err = NoError /\ Freed(u, v, c)
  BY <1>1, <1>3, RemoveNodeEffect
<1> QED BY <1>2, <1>4, MovedFreed

\* LINK: the directory is visited, and the entry for the file made.
LinkEntered(w, v, req, s, f) ==
  IF /\ req.fh \in Handle /\ req.fh2 \in Handle /\ req.name \in Name
     /\ s # NoNode
  THEN \E u : /\ Good(u) /\ Visited(w, u, req.fh2, f) /\ OrNew(w, f) \in DOMAIN u.node
              /\ LinkMade(u, v, OrNew(w, f), w.node[s].fh, req.name)
  ELSE v = w

\* LINK.
LEMMA CreateLinkEffect ==
  ASSUME NEW w, Good(w), NEW req, NEW res, res.time \in Int,
         NEW s \in DOMAIN w.node \cup {NoNode}, NEW f \in DOMAIN w.node \cup {NoNode},
         NEW z, z = createLink(w, req, res, s, f), z.err = NoError
  PROVE  w.err = NoError /\ LinkEntered(w, z, req, s, f)
<1> DEFINE a == Touch(w, s, res.time)
           v == VisitDir(a, req.fh2, f, res.time)
           p == OrNew(w, f)
           c == v.node[p].kids[req.name]
           u == calcPath(v, c)
           t == ReplaceChild(v, p, c)
           y == LinkIn(t, p, s, req.name, res.time)
           h == w.node[s].fh
           G == /\ req.fh \in Handle /\ req.fh2 \in Handle /\ req.name \in Name
                /\ s # NoNode
<1>1. CASE ~G
  <2>1. z = w
    BY <1>1 DEF createLink
  <2> QED BY <1>1, <2>1 DEF LinkEntered
<1>2. CASE G
  <2>1. /\ v.err = NoError
        /\ \/ c # NoNode /\ z = v
           \/ c = NoNode /\ z = LinkIn(v, p, s, req.name, res.time)
           \/ c # NoNode /\ u.err # NoError /\ z = u
           \/ c # NoNode /\ c # s /\ isDeletable(v, c) /\ z = Then(t, y)
    <3> HIDE DEF a, v, p, c, u, t, y
    <3> QED BY <1>2 DEF createLink, Then, a, v, p, c, u, t, y
  <2>2. req.fh2 \in Handle /\ req.name \in Name /\ s \in DOMAIN w.node
    BY <1>2
  <2>3. /\ Good(a) /\ DOMAIN a.node = DOMAIN w.node /\ Quiet(w, a)
        /\ a.err = NoError => w.err = NoError
    BY <2>2, TouchSame, SameTreeQuiet
  <2> HIDE DEF a, G
  <2>4. NewNode(a) = NewNode(w) /\ p = OrNew(a, f) /\ f \in DOMAIN a.node \cup {NoNode}
    BY <2>3 DEF NewNode, OrNew
  <2>5. Extended(a, v) /\ (v.err = NoError => p \in DOMAIN v.node)
    BY <2>2, <2>3, <2>4, VisitDirExtended
  <2>6. a.err = NoError /\ Visited(a, v, req.fh2, f)
    BY <2>1, <2>2, <2>3, <2>4, VisitDirEffect
  <2> HIDE DEF p
  <2>7. Visited(w, v, req.fh2, f)
    <3> HIDE DEF v, c, u, t, y, h
    <3> QED BY <2>3, <2>4, <2>6, QuietTrans, QuietAdded, QuietRefl DEF Visited, Quiet, Stays
  <2>8. /\ Good(v) /\ p \in DOMAIN v.node /\ s \in DOMAIN v.node
        /\ v.node[s].fh = h
    BY <2>1, <2>2, <2>3, <2>5 DEF Extended, Quiet, Stays
  <2> HIDE DEF v, h
  <2>9. LinkMade(v, z, p, h, req.name)
    <3>1. CASE c # NoNode /\ z = v
      BY <3>1, QuietRefl DEF LinkMade
    <3>2. CASE c = NoNode /\ z = LinkIn(v, p, s, req.name, res.time)
      <4>1. Added(v, z, NewNode(v), h, req.name, p, FALSE)
        BY <2>2, <2>8, <3>2, LinkInEffect
      <4> QED BY <2>8, <3>2, <4>1, QuietRefl DEF LinkMade, NodeMade
    <3>3. CASE c # NoNode /\ c # s /\ isDeletable(v, c) /\ z = Then(t, y)
      <4>1. c \in DOMAIN v.node /\ v.node[c].parent = p
        <5>1. c # NoNode
          BY <3>3
        <5> QED BY <2>2, <2>8, <5>1, ChildAllocated
      <4>2. t.err = NoError /\ z = y
        BY <3>3 DEF Then
      <4> HIDE DEF c
      <4>3. Good(t) /\ p \in DOMAIN t.node /\ s \in DOMAIN t.node
        BY <2>8, <3>3, <4>1, ReplaceChildGood
      <4>4. Freed(v, t, c)
        BY <2>8, <3>3, <4>1, <4>2, ReplaceChildEffect
      <4> HIDE DEF t
      <4>5. t.node[s].fh = h
        BY <2>8, <3>3, <4>4 DEF Freed, Stays
      <4>6. Added(t, z, NewNode(t), h, req.name, p, FALSE)
        BY <2>2, <4>2, <4>3, <4>5, LinkInEffect
      <4> QED BY <3>3, <4>3, <4>4, <4>6 DEF LinkMade, NodeMade, c
    <3> QED BY <2>1, <3>1, <3>2, <3>3
  <2> QED BY <1>2, <2>3, <2>6, <2>7, <2>8, <2>9 DEF LinkEntered, G, p, h
<1> QED BY <1>1, <1>2

\* createSymlink, once the name is free.
LEMMA SymlinkInEffect ==
  ASSUME NEW w, Good(w), NEW p \in DOMAIN w.node, NEW h \in Handle,
         NEW x \in Name, NEW time \in Int, NEW z, z = SymlinkIn(w, p, h, x, time),
         z.err = NoError
  PROVE  w.err = NoError /\ Added(w, z, NewNode(w), h, x, p, FALSE)
<1> DEFINE n == NewNode(w)
           f == FALSE
           v == AddNew(w, p, h, x, time, f)
           u == calcPath(v, p)
<1>1. /\ Good(v) /\ Alive(v, n) /\ p \in DOMAIN v.node
      /\ v.err = NoError => w.err = NoError /\ Added(w, v, n, h, x, p, f)
  <2>1. f \in BOOLEAN
    OBVIOUS
  <2> HIDE DEF f
  <2> QED BY <2>1, AddNewGood, AddNewEffect DEF Alive
<1>2. \/ z = v
      \/ v.err = NoError /\ u.err # NoError /\ z = u
      \/ /\ v.err = NoError
         /\ z = SetCreated(v, n) \/ \E d : z = [SetCreated(v, n) EXCEPT !.disk = d]
  BY DEF SymlinkIn, SymlinkOnDisk, Then, n, f, v, u
<1> HIDE DEF v, u, n, f
<1>3. v.err = NoError /\ Quiet(v, z)
  BY <1>1, <1>2, PlacedEffect, QuietRefl DEF Alive
<1>4. Added(w, z, n, h, x, p, f)
  BY <1>1, <1>3, QuietAdded, QuietRefl
<1> QED BY <1>1, <1>3, <1>4 DEF n, f

\* SYMLINK: the directory is visited, and the entry for the link made.
SymlinkEntered(w, v, req, res, d) ==
  IF /\ req.fh \in Handle /\ res.fh \in Handle
     /\ req.name \in Name /\ req.name2 \in Name
  THEN \E u : /\ Good(u) /\ Visited(w, u, req.fh, d) /\ OrNew(w, d) \in DOMAIN u.node
              /\ LinkMade(u, v, OrNew(w, d), res.fh, req.name)
  ELSE v = w

\* SYMLINK.
LEMMA CreateSymlinkEffect ==
  ASSUME NEW w, Good(w), NEW req, NEW res, res.time \in Int,
         NEW d \in DOMAIN w.node \cup {NoNode},
         NEW z, z = createSymlink(w, req, res, d), z.err = NoError
  PROVE  w.err = NoError /\ SymlinkEntered(w, z, req, res, d)
<1> DEFINE v == VisitDir(w, req.fh, d, res.time)
           p == OrNew(w, d)
           c == v.node[p].kids[req.name]
           u == calcPath(v, c)
           t == ReplaceChild(v, p, c)
           y == SymlinkIn(t, p, res.fh, req.name, res.time)
           G == /\ req.fh \in Handle /\ res.fh \in Handle
                /\ req.name \in Name /\ req.name2 \in Name
<1>1. CASE ~G
  <2>1. z = w
    BY <1>1 DEF createSymlink
  <2> QED BY <1>1, <2>1 DEF SymlinkEntered
<1>2. CASE G
  <2>1. /\ v.err = NoError
        /\ \/ c # NoNode /\ z = v
           \/ c = NoNode /\ z = SymlinkIn(v, p, res.fh, req.name, res.time)
           \/ c # NoNode /\ u.err # NoError /\ z = u
           \/ c # NoNode /\ isDeletable(v, c) /\ z = Then(t, y)
    <3> HIDE DEF v, p, c, u, t, y
    <3> QED BY <1>2 DEF createSymlink, Then, v, p, c, u, t, y
  <2>2. req.fh \in Handle /\ res.fh \in Handle /\ req.name \in Name
    BY <1>2
  <2> HIDE DEF G
  <2>3. Extended(w, v) /\ (v.err = NoError => p \in DOMAIN v.node)
    BY <2>2, VisitDirExtended
  <2>4. w.err = NoError /\ Visited(w, v, req.fh, d)
    BY <2>1, <2>2, VisitDirEffect
  <2>5. Good(v) /\ p \in DOMAIN v.node
    BY <2>1, <2>3 DEF Extended
  <2> HIDE DEF v, p
  <2>6. LinkMade(v, z, p, res.fh, req.name)
    <3>1. CASE c # NoNode /\ z = v
      BY <3>1, QuietRefl DEF LinkMade
    <3>2. CASE c = NoNode /\ z = SymlinkIn(v, p, res.fh, req.name, res.time)
      <4>1. Added(v, z, NewNode(v), res.fh, req.name, p, FALSE)
        BY <2>2, <2>5, <3>2, SymlinkInEffect
      <4> QED BY <2>5, <3>2, <4>1, QuietRefl DEF LinkMade, NodeMade
    <3>3. CASE c # NoNode /\ isDeletable(v, c) /\ z = Then(t, y)
      <4>0. c # NoNode
        BY <3>3
      <4>1. c \in DOMAIN v.node /\ v.node[c].parent = p
        <5> HIDE DEF u, t, y
        <5> QED BY <2>2, <2>5, <4>0, ChildAllocated
      <4>2. t.err = NoError /\ z = y
        BY <3>3 DEF Then
      <4> HIDE DEF c
      <4>3. Good(t) /\ p \in DOMAIN t.node
        BY <2>5, <3>3, <4>1, ReplaceChildGood
      <4>4. Freed(v, t, c)
        BY <2>5, <3>3, <4>1, <4>2, ReplaceChildEffect
      <4> HIDE DEF t
      <4>5. Added(t, z, NewNode(t), res.fh, req.name, p, FALSE)
        BY <2>2, <4>2, <4>3, SymlinkInEffect
      <4> QED BY <3>3, <4>3, <4>4, <4>5 DEF LinkMade, NodeMade, c
    <3> QED BY <2>1, <3>1, <3>2, <3>3
  <2> QED BY <1>2, <2>4, <2>5, <2>6 DEF SymlinkEntered, G, p
<1> QED BY <1>1, <1>2

-----------------------------------------------------------------------------
(* Garbage collection.                                                     *)

\* Some nodes are gone, with the nodes below them.
Pruned(w, v) ==
  /\ DOMAIN v.node \subseteq DOMAIN w.node
  /\ \A m \in DOMAIN v.node : Stays(w, v, m)

\* Engine::gc.
LEMMA GcEffect ==
  ASSUME NEW w, Good(w), NEW time, NEW v \in gc(w, time), v.err = NoError
  PROVE  w.err = NoError /\ Pruned(w, v)
<1> DEFINE G       == Garbage(w, time)
           kept(n) == [x \in Name |-> IF w.node[n].kids[x] \in G THEN NoNode ELSE w.node[n].kids[x]]
           new     == [n \in DOMAIN w.node \ G |-> [w.node[n] EXCEPT !.kids = kept(n)]]
<1>1. v = Collected(w, time)
  <2>1. [w EXCEPT !.err = "Wrong parameter"].err # NoError
    BY DEF NoError, Good
  <2>2. [w EXCEPT !.err = "Stack overflow"].err # NoError
    BY DEF NoError, Good
  <2> QED BY <2>1, <2>2 DEF gc
<1>2. v.node = new /\ v.err = w.err
  BY <1>1 DEF Collected, Good
<1>3. \A n \in DOMAIN w.node : w.node[n] \in NodeType
  BY DEF Good, Heap
<1>4. \A n \in DOMAIN w.node \ G : /\ new[n].fh = w.node[n].fh /\ new[n].name = w.node[n].name
                                  /\ new[n].parent = w.node[n].parent /\ new[n].dir = w.node[n].dir
  <2> SUFFICES ASSUME NEW n \in DOMAIN w.node \ G, NEW k
               PROVE  LET r == [w.node[n] EXCEPT !.kids = k]
                      IN  /\ r.fh = w.node[n].fh /\ r.name = w.node[n].name
                          /\ r.parent = w.node[n].parent /\ r.dir = w.node[n].dir
    OBVIOUS
  <2> QED BY <1>3 DEF NodeType
<1>5. DOMAIN new = DOMAIN w.node \ G
  OBVIOUS
<1> HIDE DEF new, G
<1> QED BY <1>2, <1>4, <1>5 DEF Pruned, Stays

-----------------------------------------------------------------------------
(* One frame.                                                              *)

\* What a frame that throws nothing does to the tree.
Effect(w, v, x) ==
  \/ /\ x.res.op \in {"LOOKUP", "CREATE", "MKDIR"}
     /\ \E d \in getNode(w, x.req.fh), e \in getNode(w, x.res.fh) :
          EntryMade(w, v, x.req, x.res, d, e)
  \/ /\ x.res.op \in {"REMOVE", "RMDIR"}
     /\ \E d \in getNode(w, x.req.fh) : Dropped(w, v, x.req, d)
  \/ /\ x.res.op = "WRITE"
     /\ \E d \in getNode(w, x.req.fh) :
          IF x.req.fh \in Handle /\ x.res.ftype = "REG" THEN Known(w, v, x.req.fh, d)
          ELSE v = w
  \/ /\ x.res.op = "RENAME"
     /\ \E d \in getNode(w, x.req.fh), f \in getNode(w, x.req.fh2) :
          MovedOver(w, v, x.req, d, f)
  \/ /\ x.res.op = "LINK"
     /\ \E s \in getNode(w, x.req.fh), f \in getNode(w, x.req.fh2) :
          LinkEntered(w, v, x.req, s, f)
  \/ /\ x.res.op = "SYMLINK"
     /\ \E d \in getNode(w, x.req.fh) : SymlinkEntered(w, v, x.req, x.res, d)
  \/ /\ x.res.op \in {"ACCESS", "GETATTR", "SETATTR"}
     /\ Quiet(w, v)

\* Every frame.
LEMMA ProcessEffect ==
  ASSUME IInv, NEW x \in Exchange, NEW io, Process(x, io), err' = NoError
  PROVE  \E v : Commit(v) /\ Effect(World(io), v, x)
<1> DEFINE w == World(io)
<1>1. /\ x.res.time \in Int /\ x.res.size \in Nat
      /\ x.req.offset \in Nat /\ x.req.count \in Nat
  BY EngineAssumption
<1>2. Good(w) /\ DOMAIN w.node = DOMAIN node
  BY WorldGood
<1>3. \A h : Found(h) = getNode(w, h)
  BY DEF Found, getNode, World
<1> HIDE DEF w
<1>4. \A h : \A n \in getNode(w, h) : n \in DOMAIN w.node \cup {NoNode}
  BY <1>2, <1>3, FoundNode
<1>5. \A v : Commit(v) => v.err = NoError
  BY DEF Commit
<1>6. CASE ReplayLookup(x, io)
  <2>1. PICK d \in Found(x.req.fh), e \in Found(x.res.fh) : Commit(createLookup(w, x.req, x.res, d, e))
    BY <1>6 DEF ReplayLookup, w
  <2>2. EntryMade(w, createLookup(w, x.req, x.res, d, e), x.req, x.res, d, e)
    BY <1>1, <1>2, <1>3, <1>4, <1>5, <2>1, CreateLookupEffect
  <2>3. x.res.op = "LOOKUP"
    BY <1>6 DEF ReplayLookup
  <2> QED BY <1>3, <2>1, <2>2, <2>3 DEF Effect, w
<1>7. CASE ReplayCreate(x, io)
  <2>1. PICK d \in Found(x.req.fh), e \in Found(x.res.fh) : Commit(createFile(w, x.req, x.res, d, e))
    BY <1>7 DEF ReplayCreate, w
  <2>2. EntryMade(w, createFile(w, x.req, x.res, d, e), x.req, x.res, d, e)
    BY <1>1, <1>2, <1>3, <1>4, <1>5, <2>1, CreateFileEffect
  <2>3. x.res.op \in {"CREATE", "MKDIR"}
    BY <1>7 DEF ReplayCreate
  <2> QED BY <1>3, <2>1, <2>2, <2>3 DEF Effect, w
<1>8. CASE ReplayRemove(x, io)
  <2>1. PICK d \in Found(x.req.fh) : Commit(removeFile(w, x.req, x.res, d))
    BY <1>8 DEF ReplayRemove, w
  <2>2. Dropped(w, removeFile(w, x.req, x.res, d), x.req, d)
    BY <1>1, <1>2, <1>3, <1>4, <1>5, <2>1, RemoveFileEffect
  <2>3. x.res.op \in {"REMOVE", "RMDIR"}
    BY <1>8 DEF ReplayRemove
  <2> QED BY <1>3, <2>1, <2>2, <2>3 DEF Effect, w
<1>9. CASE ReplayWrite(x, io)
  <2>1. PICK d \in Found(x.req.fh) : Commit(writeFile(w, x.req, x.res, d))
    BY <1>9 DEF ReplayWrite, w
  <2> DEFINE v == writeFile(w, x.req, x.res, d)
  <2>2. IF x.req.fh \in Handle /\ x.res.ftype = "REG" THEN Known(w, v, x.req.fh, d) ELSE v = w
    BY <1>1, <1>2, <1>3, <1>4, <1>5, <2>1, WriteFileEffect
  <2>3. x.res.op = "WRITE"
    BY <1>9 DEF ReplayWrite
  <2> HIDE DEF v
  <2> QED BY <1>3, <2>1, <2>2, <2>3 DEF Effect, w, v
<1>10. CASE ReplayRename(x, io)
  <2>1. PICK d \in Found(x.req.fh), f \in Found(x.req.fh2) : Commit(renameFile(w, x.req, x.res, d, f))
    BY <1>10 DEF ReplayRename, w
  <2>2. MovedOver(w, renameFile(w, x.req, x.res, d, f), x.req, d, f)
    BY <1>1, <1>2, <1>3, <1>4, <1>5, <2>1, RenameFileEffect
  <2>3. x.res.op = "RENAME"
    BY <1>10 DEF ReplayRename
  <2> QED BY <1>3, <2>1, <2>2, <2>3 DEF Effect, w
<1>11. CASE ReplayLink(x, io)
  <2>1. PICK s \in Found(x.req.fh), f \in Found(x.req.fh2) : Commit(createLink(w, x.req, x.res, s, f))
    BY <1>11 DEF ReplayLink, w
  <2>2. LinkEntered(w, createLink(w, x.req, x.res, s, f), x.req, s, f)
    BY <1>1, <1>2, <1>3, <1>4, <1>5, <2>1, CreateLinkEffect
  <2>3. x.res.op = "LINK"
    BY <1>11 DEF ReplayLink
  <2> QED BY <1>3, <2>1, <2>2, <2>3 DEF Effect, w
<1>12. CASE ReplaySymlink(x, io)
  <2>1. PICK d \in Found(x.req.fh) : Commit(createSymlink(w, x.req, x.res, d))
    BY <1>12 DEF ReplaySymlink, w
  <2>2. SymlinkEntered(w, createSymlink(w, x.req, x.res, d), x.req, x.res, d)
    BY <1>1, <1>2, <1>3, <1>4, <1>5, <2>1, CreateSymlinkEffect
  <2>3. x.res.op = "SYMLINK"
    BY <1>12 DEF ReplaySymlink
  <2> QED BY <1>3, <2>1, <2>2, <2>3 DEF Effect, w
<1>13. CASE ReplayGetAttr(x, io) \/ ReplaySetAttr(x, io)
  <2>1. PICK d \in Found(x.req.fh) : Commit(getAttr(w, x.req, x.res, d))
    BY <1>13 DEF ReplayGetAttr, ReplaySetAttr, setAttr, w
  <2>2. Quiet(w, getAttr(w, x.req, x.res, d))
    BY <1>1, <1>2, <1>3, <1>4, <1>5, <2>1, GetAttrEffect
  <2>3. x.res.op \in {"ACCESS", "GETATTR", "SETATTR"}
    BY <1>13 DEF ReplayGetAttr, ReplaySetAttr
  <2> QED BY <2>1, <2>2, <2>3 DEF Effect, w
<1> QED BY <1>6, <1>7, <1>8, <1>9, <1>10, <1>11, <1>12, <1>13 DEF Process

-----------------------------------------------------------------------------
(* Roots.                                                                  *)

\* No node is its own parent, roots are named after their handles, and no two
\* roots have one handle.
Apart(nodes) ==
  /\ \A n \in DOMAIN nodes : nodes[n].parent # n
  /\ \A n \in DOMAIN nodes : nodes[n].parent = NoNode => nodes[n].name = handleName[nodes[n].fh]
  /\ \A m, n \in DOMAIN nodes :
       nodes[m].parent = NoNode /\ nodes[n].parent = NoNode /\ nodes[m].fh = nodes[n].fh => m = n

\* Roots stay apart when fewer nodes are left,
LEMMA PrunedApart ==
  ASSUME NEW w, NEW v, Apart(w.node), Pruned(w, v)
  PROVE  Apart(v.node)
BY DEF Apart, Pruned, Stays

\* or as many,
LEMMA QuietApart ==
  ASSUME NEW w, NEW v, Apart(w.node), Quiet(w, v)
  PROVE  Apart(v.node)
BY DEF Apart, Quiet, Stays

\* or one less,
LEMMA FreedApart ==
  ASSUME NEW w, NEW v, NEW c, Apart(w.node), Freed(w, v, c)
  PROVE  Apart(v.node)
BY DEF Apart, Freed, Stays

\* when a child is added,
LEMMA AddedApart ==
  ASSUME NEW w, NEW v, NEW n, NEW h, NEW x, NEW p \in DOMAIN w.node, NEW b, p # NoNode,
         Apart(w.node), Added(w, v, n, h, x, p, b)
  PROVE  Apart(v.node)
BY DEF Apart, Added, Stays

\* when a root is added for a handle that no node has,
LEMMA RootAddedApart ==
  ASSUME NEW w, NEW v, NEW n, NEW h, NEW b, Apart(w.node),
         Added(w, v, n, h, handleName[h], NoNode, b),
         \A m \in DOMAIN w.node : w.node[m].fh # h
  PROVE  Apart(v.node)
BY TreeAssumption DEF Apart, Added, Stays

\* when a node becomes a child,
LEMMA MovedApart ==
  ASSUME NEW w, NEW v, NEW e, NEW p, NEW x, p # NoNode, Apart(w.node), Moved(w, v, e, p, x)
  PROVE  Apart(v.node)
BY DEF Apart, Moved, OnlyOf, Stays

\* when a node gets a type,
LEMMA RetypedApart ==
  ASSUME NEW w, NEW v, NEW n, NEW b, Apart(w.node), Retyped(w, v, n, b)
  PROVE  Apart(v.node)
BY DEF Apart, Retyped, OnlyOf, Stays

\* and when a child gets a handle.
LEMMA RehandledApart ==
  ASSUME NEW w, NEW v, NEW n, NEW h, n \in DOMAIN w.node => w.node[n].parent # NoNode,
         Apart(w.node), Rehandled(w, v, n, h)
  PROVE  Apart(v.node)
BY DEF Apart, Rehandled, OnlyOf, Stays

\* A node that getNode does not find does not exist.
LEMMA NotFound ==
  ASSUME NEW w, NEW h, NEW n \in getNode(w, h), NoNode \notin DOMAIN w.node
  PROVE  /\ n = NoNode => \A m \in DOMAIN w.node : w.node[m].fh # h
         /\ n # NoNode => n \in DOMAIN w.node /\ w.node[n].fh = h
BY DEF getNode

\* A visit keeps roots apart.
LEMMA VisitedApart ==
  ASSUME NEW w, Good(w), NEW v, NEW h, NEW d \in getNode(w, h), Apart(w.node), Visited(w, v, h, d)
  PROVE  Apart(v.node)
<1>1. NoNode \notin DOMAIN w.node
  BY TreeAssumption DEF Good, Heap
<1>2. CASE d = NoNode
  <2> DEFINE b == TRUE
  <2>1. Added(w, v, NewNode(w), h, handleName[h], NoNode, b)
    BY <1>2 DEF Visited
  <2>2. \A m \in DOMAIN w.node : w.node[m].fh # h
    BY <1>1, <1>2, NotFound
  <2> HIDE DEF b
  <2> QED BY <2>1, <2>2, RootAddedApart
<1>3. CASE d # NoNode
  BY <1>3, QuietApart DEF Visited
<1> QED BY <1>2, <1>3

\* So does an entry,
LEMMA EnteredApart ==
  ASSUME NEW w, Good(w), NEW v, NEW p \in DOMAIN w.node, NEW e, NEW req, NEW res,
         req.name \in Name, Apart(w.node), Entered(w, v, p, e, req, res)
  PROVE  Apart(v.node)
<1> DEFINE c == w.node[p].kids[req.name]
           n == IF Displaced(w, c, e, res) THEN e ELSE c
<1>1. p # NoNode
  BY TreeAssumption DEF Good, Heap
<1>2. CASE \E m, h, b : Added(w, v, m, h, req.name, p, b)
  BY <1>1, <1>2, AddedApart
<1>3. CASE \E u, b : Moved(w, u, e, p, req.name) /\ Retyped(u, v, e, b)
  BY <1>1, <1>3, MovedApart, RetypedApart
<1>4. CASE c # NoNode /\ \E u, b : Settled(w, u, p, c, e, req, res) /\ Retyped(u, v, n, b)
  <2>1. PICK u, b : Settled(w, u, p, c, e, req, res) /\ Retyped(u, v, n, b)
    BY <1>4
  <2>0. c # NoNode
    BY <1>4
  <2>2. c \in DOMAIN w.node /\ w.node[c].parent # NoNode
    BY <1>1, <2>0, ChildAllocated
  <2> HIDE DEF c, n
  <2>3. Apart(u.node)
    BY <1>1, <2>1, <2>2, QuietApart, MovedApart, RehandledApart DEF Settled
  <2> QED BY <2>1, <2>3, RetypedApart
<1> HIDE DEF c
<1> QED BY <1>2, <1>3, <1>4 DEF Entered, c

\* and a link.
LEMMA LinkMadeApart ==
  ASSUME NEW w, Good(w), NEW v, NEW p, NEW h, NEW x,
         Apart(w.node), LinkMade(w, v, p, h, x)
  PROVE  Apart(v.node)
<1> DEFINE c == w.node[p].kids[x]
<1>1. CASE Quiet(w, v)
  BY <1>1, QuietApart
<1>2. CASE NodeMade(w, v, p, h, x)
  <2>1. PICK t : /\ Good(t) /\ IF c = NoNode THEN Quiet(w, t) ELSE Freed(w, t, c)
                 /\ p \in DOMAIN t.node
                 /\ Added(t, v, NewNode(t), h, x, p, FALSE)
    BY <1>2 DEF NodeMade
  <2> HIDE DEF c
  <2>2. Apart(t.node) /\ p # NoNode
    BY <2>1, QuietApart, FreedApart, TreeAssumption DEF Good, Heap
  <2> QED BY <2>1, <2>2, AddedApart
<1> QED BY <1>1, <1>2 DEF LinkMade

\* So does every frame.
LEMMA EffectApart ==
  ASSUME NEW w, Good(w), NEW v, NEW x, Apart(w.node), Effect(w, v, x)
  PROVE  Apart(v.node)
<1>0. NoNode \notin DOMAIN w.node
  BY TreeAssumption DEF Good, Heap
<1>1. CASE v = w \/ Quiet(w, v)
  BY <1>1, QuietApart
<1>2. ASSUME NEW d \in getNode(w, x.req.fh), NEW e, EntryMade(w, v, x.req, x.res, d, e)
      PROVE  Apart(v.node)
  <2>1. CASE NamesEntry(x.req, x.res)
    <3>1. PICK u : /\ Good(u) /\ Visited(w, u, x.req.fh, d) /\ OrNew(w, d) \in DOMAIN u.node
                   /\ Entered(u, v, OrNew(w, d), e, x.req, x.res)
      BY <1>2, <2>1 DEF EntryMade
    <3>2. Apart(u.node)
      BY <3>1, VisitedApart
    <3>3. x.req.name \in Name
      BY <2>1 DEF NamesEntry
    <3> QED BY <3>1, <3>2, <3>3, EnteredApart
  <2> QED BY <1>1, <1>2, <2>1 DEF EntryMade
<1>3. ASSUME NEW d, Dropped(w, v, x.req, d)
      PROVE  Apart(v.node)
  BY <1>1, <1>3, FreedApart DEF Dropped
<1>4. ASSUME NEW d \in getNode(w, x.req.fh), Known(w, v, x.req.fh, d)
      PROVE  Apart(v.node)
  <2>1. CASE d = NoNode
    <3> DEFINE b == FALSE
               h == x.req.fh
    <3>1. Added(w, v, NewNode(w), h, handleName[h], NoNode, b)
      BY <1>4, <2>1 DEF Known
    <3>2. \A m \in DOMAIN w.node : w.node[m].fh # h
      BY <1>0, <2>1, NotFound
    <3> HIDE DEF b, h
    <3> QED BY <3>1, <3>2, RootAddedApart
  <2>2. CASE d # NoNode
    BY <1>4, <2>2, QuietApart DEF Known
  <2> QED BY <2>1, <2>2
<1>5. ASSUME NEW d, NEW f \in getNode(w, x.req.fh2), MovedOver(w, v, x.req, d, f)
      PROVE  Apart(v.node)
  <2> DEFINE a == w.node[d].kids[x.req.name]
             q == OrNew(w, f)
  <2>1. CASE v = w
    BY <1>1, <2>1
  <2>2. CASE \E u : /\ Good(u) /\ Visited(w, u, x.req.fh2, f) /\ q \in DOMAIN u.node
                    /\ RenamedIn(u, v, a, q, x.req.name2)
    <3>1. PICK u : /\ Good(u) /\ Visited(w, u, x.req.fh2, f) /\ q \in DOMAIN u.node
                   /\ RenamedIn(u, v, a, q, x.req.name2)
      BY <2>2
    <3> DEFINE b == u.node[q].kids[x.req.name2]
    <3>2. Apart(u.node)
      BY <3>1, VisitedApart
    <3> HIDE DEF a, q
    <3>3. q # NoNode
      BY <3>1, TreeAssumption DEF Good, Heap
    <3>4. CASE TakesPlace(u, v, a, q, b, x.req.name2)
      <4>1. PICK t : /\ IF b = NoNode THEN Quiet(u, t) ELSE Freed(u, t, b)
                     /\ Moved(t, v, a, q, x.req.name2)
        BY <3>4 DEF TakesPlace
      <4> HIDE DEF b
      <4> QED BY <3>2, <3>3, <4>1, QuietApart, FreedApart, MovedApart
    <3> QED BY <3>1, <3>2, <3>4 DEF RenamedIn
  <2> HIDE DEF a, q
  <2> QED BY <1>5, <2>1, <2>2 DEF MovedOver, a, q
<1>6. ASSUME NEW h, NEW d \in getNode(w, h), NEW u, NEW g, NEW y, Good(u), Visited(w, u, h, d),
             LinkMade(u, v, OrNew(w, d), g, y)
      PROVE  Apart(v.node)
  BY <1>6, VisitedApart, LinkMadeApart
<1>7. ASSUME NEW s, NEW f \in getNode(w, x.req.fh2), LinkEntered(w, v, x.req, s, f)
      PROVE  Apart(v.node)
  BY <1>1, <1>6, <1>7 DEF LinkEntered
<1>8. ASSUME NEW d \in getNode(w, x.req.fh), SymlinkEntered(w, v, x.req, x.res, d)
      PROVE  Apart(v.node)
  BY <1>1, <1>6, <1>8 DEF SymlinkEntered
<1> QED BY <1>1, <1>2, <1>3, <1>4, <1>5, <1>7, <1>8 DEF Effect

\* Roots are apart until an exception unwinds.
RootsApart == err = NoError => Apart(node)

\* No node is its own parent, and roots are told apart by their handles.
THEOREM RootsStayApart == Spec => []RootsApart
<1>1. Init => RootsApart
  BY DEF Init, RootsApart, Apart
<1>2. IInv /\ RootsApart /\ [Next]_vars => RootsApart'
  <2> SUFFICES ASSUME IInv, RootsApart, [Next]_vars, err' = NoError
               PROVE  Apart(node')
    BY DEF RootsApart
  <2>1. CASE UNCHANGED vars
    BY <2>1 DEF vars, RootsApart
  <2>2. ASSUME Next
        PROVE  Apart(node)
    BY <2>2 DEF Next, RootsApart
  <2>3. ASSUME NEW x \in Exchange, NEW io \in Faults, Process(x, io), Apart(node)
        PROVE  Apart(node')
    <3>1. PICK v : Commit(v) /\ Effect(World(io), v, x)
      BY <2>3, ProcessEffect
    <3>2. Good(World(io)) /\ World(io).node = node
      BY WorldGood
    <3> QED BY <2>3, <3>1, <3>2, EffectApart DEF Commit
  <2>4. ASSUME NEW time \in GcTimes, Collect(time), Apart(node)
        PROVE  Apart(node')
    <3>1. PICK v \in gc(World({}), time) : Commit(v)
      BY <2>4 DEF Collect
    <3>2. Good(World({})) /\ World({}).node = node
      BY WorldGood
    <3>3. Pruned(World({}), v)
      BY <3>1, <3>2, GcEffect DEF Commit
    <3> QED BY <2>4, <3>1, <3>2, <3>3, PrunedApart DEF Commit
  <2> QED BY <2>1, <2>2, <2>3, <2>4 DEF Next
<1> QED BY <1>1, <1>2, Inductive, PTL DEF Spec

-----------------------------------------------------------------------------
(* The tree agrees with the answer that was replayed.                      *)

\* In v, c is the child x of p, an entry for handle h.
Stands(v, p, x, g, c, h, isDir) ==
  /\ p \in DOMAIN v.node /\ v.node[p].fh = g
  /\ c \in DOMAIN v.node /\ v.node[c].parent = p /\ v.node[c].name = x
  /\ v.node[c].fh = h /\ v.node[c].dir = isDir

\* Such a child is found under its name.
LEMMA StandsResolves ==
  ASSUME NEW v, Good(v), NEW p, NEW x, NEW g, NEW c, NEW h, NEW isDir,
         Stands(v, p, x, g, c, h, isDir)
  PROVE  Resolves(v, g, x, h, isDir)
<1>1. NoNode \notin DOMAIN v.node
  BY TreeAssumption DEF Good, Heap
<1>2. v.node[p].kids[x] = c
  BY <1>1 DEF Stands, Good, Heap, ParentKnowsChild
<1> QED BY <1>1, <1>2 DEF Stands, Resolves

\* The entry stands for the handle and the type of the response, whoever had the
\* name before and wherever the handle was.
LEMMA EnteredStands ==
  ASSUME NEW w, Good(w), Apart(w.node), NEW p \in DOMAIN w.node,
         NEW e \in DOMAIN w.node \cup {NoNode}, NEW req, NEW res, req.name \in Name,
         e # NoNode => w.node[e].fh = res.fh,
         NEW v, Entered(w, v, p, e, req, res)
  PROVE  \E n : Stands(v, p, req.name, w.node[p].fh, n, res.fh, res.ftype = "DIR")
<1> DEFINE c     == w.node[p].kids[req.name]
           isDir == res.ftype = "DIR"
           n     == IF Displaced(w, c, e, res) THEN e ELSE c
           g     == w.node[p].fh
<1>1. CASE /\ c = NoNode /\ e = NoNode
           /\ Added(w, v, NewNode(w), res.fh, req.name, p, isDir)
  <2>1. Stands(v, p, req.name, g, NewNode(w), res.fh, isDir)
    <3> HIDE DEF isDir
    <3> QED BY <1>1 DEF Added, Stands, Stays
  <2> QED BY <2>1
<1>2. CASE /\ c = NoNode /\ e # NoNode /\ ~isDir
           /\ Added(w, v, NewNode(w), w.node[e].fh, req.name, p, FALSE)
  <2> DEFINE f == FALSE
  <2>1. Added(w, v, NewNode(w), res.fh, req.name, p, f) /\ f = isDir
    BY <1>2
  <2> HIDE DEF f
  <2>2. Stands(v, p, req.name, g, NewNode(w), res.fh, f)
    BY <2>1 DEF Added, Stands, Stays
  <2> QED BY <2>1, <2>2
<1>3. CASE c = NoNode /\ e # NoNode /\ \E u : Moved(w, u, e, p, req.name) /\ Retyped(u, v, e, isDir)
  <2>1. PICK u : Moved(w, u, e, p, req.name) /\ Retyped(u, v, e, isDir)
    BY <1>3
  <2>2. e \in DOMAIN w.node /\ w.node[e].fh = res.fh
    BY <1>3
  <2>3. Stands(v, p, req.name, g, e, res.fh, isDir)
    <3> HIDE DEF isDir
    <3> QED BY <2>1, <2>2 DEF Moved, Retyped, OnlyOf, Stands, Stays
  <2> QED BY <2>3
<1>4. CASE c # NoNode /\ \E u : Settled(w, u, p, c, e, req, res) /\ Retyped(u, v, n, isDir)
  <2>1. PICK u : Settled(w, u, p, c, e, req, res) /\ Retyped(u, v, n, isDir)
    BY <1>4
  <2>0. c # NoNode
    BY <1>4
  <2>2. c \in DOMAIN w.node /\ w.node[c].parent = p /\ w.node[c].name = req.name
    BY <2>0, ChildAllocated
  <2>6. c # p
    <3> HIDE DEF c
    <3> QED BY <2>2 DEF Apart
  <2> HIDE DEF c, isDir
  <2>3. CASE w.node[c].fh = res.fh /\ Quiet(w, u)
    <3>1. n = c
      BY <2>3 DEF Displaced
    <3>2. Stands(v, p, req.name, g, c, res.fh, isDir)
      BY <2>1, <2>2, <2>3, <2>6, <3>1 DEF Quiet, Retyped, OnlyOf, Stands, Stays
    <3> QED BY <3>2 DEF isDir
  <2>4. CASE /\ Displaced(w, c, e, res)
             /\ \E t : Moved(w, t, c, p, handleName[w.node[c].fh]) /\ Moved(t, u, e, p, req.name)
    <3>1. PICK t : Moved(w, t, c, p, handleName[w.node[c].fh]) /\ Moved(t, u, e, p, req.name)
      BY <2>4
    <3>2. n = e /\ e \in DOMAIN w.node /\ w.node[e].fh = res.fh /\ e # c
      BY <2>4 DEF Displaced
    <3>3. Stands(v, p, req.name, g, e, res.fh, isDir)
      BY <2>1, <2>2, <2>6, <3>1, <3>2 DEF Moved, Retyped, OnlyOf, Stands, Stays
    <3> QED BY <3>3 DEF isDir
  <2>5. CASE ~Displaced(w, c, e, res) /\ Rehandled(w, u, c, res.fh)
    <3>1. Stands(v, p, req.name, g, c, res.fh, isDir)
      BY <2>1, <2>2, <2>5, <2>6 DEF Rehandled, Retyped, OnlyOf, Stands, Stays
    <3> QED BY <3>1 DEF isDir
  <2> QED BY <2>1, <2>3, <2>4, <2>5 DEF Settled
<1> HIDE DEF c, isDir, n
<1> QED BY <1>1, <1>2, <1>3, <1>4 DEF Entered, c, isDir, n

\* The directory of a request has the request's handle once it is visited.
LEMMA VisitedHandle ==
  ASSUME NEW w, Good(w), NEW u, NEW h, NEW d \in getNode(w, h), Visited(w, u, h, d)
  PROVE  /\ u.node[OrNew(w, d)].fh = h
         /\ DOMAIN w.node \subseteq DOMAIN u.node
         /\ \A m \in DOMAIN w.node : Stays(w, u, m)
<1>1. NoNode \notin DOMAIN w.node
  BY TreeAssumption DEF Good, Heap
<1>2. CASE d = NoNode
  BY <1>2 DEF Visited, Added, OrNew
<1>3. CASE d # NoNode
  BY <1>1, <1>3, NotFound DEF Visited, Quiet, OrNew, Stays
<1> QED BY <1>2, <1>3

\* An answer that was replayed is in the tree.
LEMMA EntryMadeResolves ==
  ASSUME NEW w, Good(w), Apart(w.node), NEW v, Good(v), NEW req, NEW res, NamesEntry(req, res),
         NEW d \in getNode(w, req.fh), NEW e \in getNode(w, res.fh),
         EntryMade(w, v, req, res, d, e)
  PROVE  Resolves(v, req.fh, req.name, res.fh, res.ftype = "DIR")
<1> DEFINE p == OrNew(w, d)
           isDir == res.ftype = "DIR"
<1>1. PICK u : /\ Good(u) /\ Visited(w, u, req.fh, d) /\ p \in DOMAIN u.node
               /\ Entered(u, v, p, e, req, res)
  BY DEF EntryMade
<1>2. NoNode \notin DOMAIN w.node
  BY TreeAssumption DEF Good, Heap
<1>3. u.node[p].fh = req.fh /\ Apart(u.node)
  BY <1>1, VisitedHandle, VisitedApart
<1>4. e \in DOMAIN u.node \cup {NoNode} /\ (e # NoNode => u.node[e].fh = res.fh)
  BY <1>1, <1>2, NotFound, VisitedHandle DEF Stays
<1>5. req.name \in Name
  BY DEF NamesEntry
<1> HIDE DEF p
<1>6. PICK n : Stands(v, p, req.name, req.fh, n, res.fh, isDir)
  BY <1>1, <1>3, <1>4, <1>5, EnteredStands
<1> HIDE DEF isDir
<1>7. Resolves(v, req.fh, req.name, res.fh, isDir)
  BY <1>6, StandsResolves
<1> QED BY <1>7 DEF isDir

\* Whatever was replayed before, the tree agrees with the answer to a LOOKUP, CREATE
\* or MKDIR that was just replayed.
THEOREM TreeRecovers == Spec => []EntryResolves
<1>1. IInv /\ RootsApart => EntryResolves
  <2> SUFFICES ASSUME IInv, Apart(node),
                      NEW f \in Exchange, NEW io \in Faults, NamesEntry(f.req, f.res),
                      NEW d \in Found(f.req.fh), NEW e \in Found(f.res.fh)
               PROVE  LET Agrees(w) ==
                            w.err = NoError =>
                              Resolves(w, f.req.fh, f.req.name, f.res.fh, f.res.ftype = "DIR")
                      IN  /\ Agrees(createLookup(World(io), f.req, f.res, d, e))
                          /\ Agrees(createFile(World(io), f.req, f.res, d, e))
    BY DEF RootsApart, EntryResolves
  <2> DEFINE w == World(io)
             a == createLookup(w, f.req, f.res, d, e)
             b == createFile(w, f.req, f.res, d, e)
  <2>1. Good(w) /\ Apart(w.node)
    BY WorldGood
  <2>2. d \in getNode(w, f.req.fh) /\ e \in getNode(w, f.res.fh)
    BY DEF Found, getNode, World
  <2>3. d \in DOMAIN w.node \cup {NoNode} /\ e \in DOMAIN w.node \cup {NoNode}
    BY <2>2 DEF getNode
  <2>4. f.res.time \in Int /\ f.res.size \in Nat
    BY EngineAssumption
  <2> HIDE DEF w
  <2>5. Good(a) /\ Good(b)
    BY <2>1, <2>3, <2>4, CreateLookupGood, CreateFileGood
  <2>6. /\ a.err = NoError => EntryMade(w, a, f.req, f.res, d, e)
        /\ b.err = NoError => EntryMade(w, b, f.req, f.res, d, e)
    BY <2>1, <2>3, <2>4, CreateLookupEffect, CreateFileEffect
  <2> HIDE DEF a, b
  <2>7. a.err = NoError => Resolves(a, f.req.fh, f.req.name, f.res.fh, f.res.ftype = "DIR")
    BY <2>1, <2>2, <2>5, <2>6, EntryMadeResolves
  <2>8. b.err = NoError => Resolves(b, f.req.fh, f.req.name, f.res.fh, f.res.ftype = "DIR")
    BY <2>1, <2>2, <2>5, <2>6, EntryMadeResolves
  <2> QED BY <2>7, <2>8 DEF a, b, w
<1> QED BY <1>1, Inductive, RootsStayApart, PTL

-----------------------------------------------------------------------------
(* Chains of parents.                                                      *)

\* A set of numbers that is not empty has a least element.
LEMMA Least ==
  ASSUME NEW T, T \subseteq Nat, T # {}
  PROVE  \E n \in T : \A m \in T : ~(m < n)
<1> DEFINE R == OpToRel(<, Nat)
<1>1. IsWellFoundedOn(R, Nat)
  BY Zenon, NatLessThanWellFounded
<1>2. PICK n \in T : \A m \in T : <<m, n>> \notin R
  <2> HIDE DEF R
  <2> QED BY <1>1, WFMin
<1>3. \A m \in T : ~(m < n)
  BY <1>2 DEF OpToRel
<1> QED BY <1>3

\* up[k] is what k - 1 steps upwards from n make of the chain.
Climb(w, n, N, up) == up = [k \in 1 .. N |-> IF k = 1 THEN <<n>> ELSE Up(w, up[k - 1])]

\* There is such a function.
LEMMA ClimbExists ==
  ASSUME NEW w, NEW n, NEW N \in Nat
  PROVE  \E up : Climb(w, n, N, up)
<1> DEFINE T == {j \in Nat : ~ \E up : Climb(w, n, j, up)}
<1> SUFFICES ASSUME N \in T
             PROVE  FALSE
  OBVIOUS
<1>1. PICK m \in T : \A j \in T : ~(j < m)
  <2>1. T \subseteq Nat /\ T # {}
    OBVIOUS
  <2> HIDE DEF T
  <2> QED BY <2>1, Least
<1>2. m \in Nat /\ ~ \E up : Climb(w, n, m, up)
  BY <1>1
<1>3. CASE m = 0
  <2> DEFINE f == [k \in 1 .. 0 |-> k]
             g == [k \in 1 .. 0 |-> IF k = 1 THEN <<n>> ELSE Up(w, f[k - 1])]
  <2>1. f = g
    OBVIOUS
  <2>2. Climb(w, n, 0, f)
    <3> HIDE DEF f
    <3> QED BY <2>1 DEF Climb
  <2> QED BY <1>2, <1>3, <2>2
<1>4. CASE m # 0
  <2>1. m - 1 \in Nat /\ m - 1 < m
    BY <1>2, <1>4
  <2>2. PICK g : Climb(w, n, m - 1, g)
    BY <1>1, <2>1
  <2> DEFINE h == [k \in 1 .. m |-> IF k = 1 THEN <<n>> ELSE Up(w, g[k - 1])]
  <2>3. \A k \in 1 .. m - 1 : g[k] = IF k = 1 THEN <<n>> ELSE Up(w, g[k - 1])
    BY <2>2 DEF Climb
  <2>4. \A k \in 1 .. m : k # 1 => k - 1 \in 1 .. m - 1
    BY <1>2
  <2>5. \A k \in 1 .. m : k # 1 => h[k - 1] = g[k - 1]
    BY <1>2, <2>3, <2>4
  <2>6. h = [k \in 1 .. m |-> IF k = 1 THEN <<n>> ELSE Up(w, h[k - 1])]
    BY <2>5
  <2>7. Climb(w, n, m, h)
    <3> HIDE DEF h
    <3> QED BY <2>6 DEF Climb
  <2> QED BY <1>2, <2>7
<1> QED BY <1>3, <1>4

\* A sequence of one element.
LEMMA Singleton ==
  ASSUME NEW S, NEW x \in S
  PROVE  <<x>> \in Seq(S) /\ Len(<<x>>) = 1 /\ <<x>>[1] = x
<1>1. Append(<<>>, x) = <<x>> /\ <<>> \in Seq(S) /\ Len(<<>>) = 0
  OBVIOUS
<1> QED BY <1>1, AppendProperties

\* s leads from parent to child to n.
IsChain(w, s, n) ==
  /\ s \in Seq(DOMAIN w.node) /\ Len(s) \in Nat \ {0} /\ s[Len(s)] = n
  /\ \A i \in 1 .. Len(s) - 1 : w.node[s[i + 1]].parent = s[i]

\* One step upwards.
LEMMA UpIsChain ==
  ASSUME NEW w, Good(w), NEW n, NEW s, IsChain(w, s, n)
  PROVE  IsChain(w, Up(w, s), n)
<1> DEFINE p == w.node[s[1]].parent
           t == <<p>> \o s
<1>1. CASE p = NoNode
  BY <1>1 DEF Up
<1>2. CASE p # NoNode
  <2>1. s \in Seq(DOMAIN w.node) /\ Len(s) \in Nat /\ 1 \in 1 .. Len(s) /\ Len(s) \in 1 .. Len(s)
    BY DEF IsChain
  <2>2. s[1] \in DOMAIN w.node
    BY <2>1
  <2>3. p \in DOMAIN w.node
    BY <1>2, <2>2 DEF Good, Heap, ParentKnowsChild
  <2> HIDE DEF p
  <2>4. <<p>> \in Seq(DOMAIN w.node) /\ Len(<<p>>) = 1 /\ <<p>>[1] = p
    BY <2>3, Singleton
  <2>5. /\ t \in Seq(DOMAIN w.node) /\ Len(t) = 1 + Len(s)
        /\ \A i \in 1 .. 1 + Len(s) : t[i] = IF i <= 1 THEN p ELSE s[i - 1]
    BY <2>1, <2>4, ConcatProperties
  <2> HIDE DEF t
  <2>6. t[1] = p /\ \A i \in 1 .. Len(s) : t[i + 1] = s[i]
    BY <2>1, <2>5
  <2>7. ASSUME NEW i \in 1 .. Len(t) - 1
        PROVE  w.node[t[i + 1]].parent = t[i]
    <3>1. CASE i = 1
      BY <2>1, <2>6, <3>1 DEF p
    <3>2. CASE i # 1
      <4>1. i \in 1 .. Len(s) /\ i - 1 \in 1 .. Len(s) - 1 /\ (i - 1) + 1 = i
        BY <2>1, <2>5, <3>2
      <4>2. t[i + 1] = s[i] /\ t[i] = s[i - 1]
        BY <2>6, <4>1
      <4> QED BY <4>1, <4>2 DEF IsChain
    <3> QED BY <3>1, <3>2
  <2>8. Len(t) \in Nat \ {0} /\ t[Len(t)] = n
    BY <2>1, <2>5, <2>6 DEF IsChain
  <2>9. Up(w, s) = t
    BY <1>2 DEF Up, p, t
  <2> QED BY <2>5, <2>7, <2>8, <2>9 DEF IsChain
<1> QED BY <1>1, <1>2

\* Chain leads to its node.
LEMMA ChainIsChain ==
  ASSUME NEW w, Good(w), NEW n \in DOMAIN w.node
  PROVE  IsChain(w, Chain(w, n), n)
<1> DEFINE N == Cardinality(DOMAIN w.node)
           up == CHOOSE g : Climb(w, n, N, g)
<1>1. N \in Nat \ {0}
  <2>1. IsFiniteSet(DOMAIN w.node)
    BY TreeAssumption, FS_Subset DEF Good, Heap
  <2> QED BY <2>1, FS_CardinalityType, FS_EmptySet
<1>2. Chain(w, n) = up[N]
  BY DEF Chain, Climb
<1> HIDE DEF N
<1>3. Climb(w, n, N, up)
  BY <1>1, ClimbExists
<1> HIDE DEF up
<1>4. up[1] = <<n>> /\ \A k \in 2 .. N : up[k] = Up(w, up[k - 1])
  BY <1>1, <1>3 DEF Climb
<1> DEFINE T == {k \in 1 .. N : ~IsChain(w, up[k], n)}
<1>5. T = {}
  <2> SUFFICES ASSUME T # {}
               PROVE  FALSE
    OBVIOUS
  <2>1. PICK m \in T : \A j \in T : ~(j < m)
    <3>1. T \subseteq Nat
      BY <1>1
    <3> HIDE DEF T
    <3> QED BY <3>1, Least
  <2>2. m \in 1 .. N /\ ~IsChain(w, up[m], n)
    BY <2>1
  <2>3. CASE m = 1
    <3> DEFINE s == <<n>>
    <3>1. s \in Seq(DOMAIN w.node) /\ Len(s) = 1 /\ s[1] = n
      BY Singleton
    <3>2. up[1] = s
      BY <1>4
    <3> HIDE DEF s
    <3>3. IsChain(w, s, n)
      BY <3>1 DEF IsChain
    <3> QED BY <2>2, <2>3, <3>2, <3>3
  <2>4. CASE m # 1
    <3>1. m \in 2 .. N /\ m - 1 \in 1 .. N /\ m - 1 < m
      BY <1>1, <2>2, <2>4
    <3>2. IsChain(w, up[m - 1], n)
      BY <2>1, <3>1
    <3> QED BY <1>4, <2>2, <3>1, <3>2, UpIsChain
  <2> QED BY <2>3, <2>4
<1> QED BY <1>1, <1>2, <1>5

\* An interval from 1 has one upper end.
LEMMA SameInterval ==
  ASSUME NEW a \in Nat \ {0}, NEW b \in Nat \ {0}, 1 .. a = 1 .. b
  PROVE  a = b
<1>1. a \in 1 .. a /\ b \in 1 .. b
  OBVIOUS
<1>2. a \in 1 .. b /\ b \in 1 .. a
  BY <1>1
<1> QED BY <1>2

\* Two rooted chains with the same names are the same.
LEMMA ChainsApart ==
  ASSUME NEW w, Good(w), Apart(w.node), NEW m, NEW n, NEW s, NEW t,
         IsChain(w, s, m), IsChain(w, t, n),
         w.node[s[1]].parent = NoNode, w.node[t[1]].parent = NoNode,
         PathAlong(w, s) = PathAlong(w, t)
  PROVE  m = n
<1>1. /\ Len(s) \in Nat \ {0} /\ s \in [1 .. Len(s) -> DOMAIN w.node]
      /\ Len(t) \in Nat \ {0} /\ t \in [1 .. Len(t) -> DOMAIN w.node]
  BY DEF IsChain
<1>2. DOMAIN PathAlong(w, s) = 1 .. Len(s) /\ DOMAIN PathAlong(w, t) = 1 .. Len(t)
  BY <1>1 DEF PathAlong
<1>3. Len(s) = Len(t)
  <2>1. 1 .. Len(s) = 1 .. Len(t)
    BY <1>2
  <2> QED BY <1>1, <2>1, SameInterval
<1>4. \A i \in 1 .. Len(s) : w.node[s[i]].name = w.node[t[i]].name
  BY <1>1, <1>3 DEF PathAlong
<1> DEFINE T == {i \in 1 .. Len(s) : s[i] # t[i]}
<1>5. T = {}
  <2> SUFFICES ASSUME T # {}
               PROVE  FALSE
    OBVIOUS
  <2>1. PICK i \in T : \A j \in T : ~(j < i)
    <3>1. T \subseteq Nat
      BY <1>1
    <3> HIDE DEF T
    <3> QED BY <3>1, Least
  <2>2. i \in 1 .. Len(s) /\ s[i] # t[i] /\ s[i] \in DOMAIN w.node /\ t[i] \in DOMAIN w.node
    BY <1>1, <1>3, <2>1
  <2>3. CASE i = 1
    <3>1. w.node[s[1]].fh \in Handle /\ w.node[t[1]].fh \in Handle
      BY <2>2, <2>3 DEF Good, Heap, NodeType
    <3>2. handleName[w.node[s[1]].fh] = handleName[w.node[t[1]].fh]
      BY <1>4, <2>2, <2>3 DEF Apart
    <3>3. w.node[s[1]].fh = w.node[t[1]].fh
      BY <3>1, <3>2, TreeAssumption
    <3> QED BY <2>2, <2>3, <3>3 DEF Apart
  <2>4. CASE i # 1
    <3>1. i - 1 \in 1 .. Len(s) - 1 /\ i - 1 \in 1 .. Len(s) /\ i - 1 < i /\ (i - 1) + 1 = i
      BY <1>1, <2>2, <2>4
    <3>2. s[i - 1] = t[i - 1] /\ s[i - 1] \in DOMAIN w.node
      BY <1>1, <2>1, <3>1
    <3>3. w.node[s[i]].parent = s[i - 1] /\ w.node[t[i]].parent = s[i - 1]
      BY <1>3, <3>1, <3>2 DEF IsChain
    <3>4. s[i - 1] # NoNode
      BY <3>2, TreeAssumption DEF Good, Heap
    <3>5. /\ w.node[s[i - 1]].kids[w.node[s[i]].name] = s[i]
          /\ w.node[s[i - 1]].kids[w.node[t[i]].name] = t[i]
      BY <2>2, <3>3, <3>4 DEF Good, Heap, ParentKnowsChild
    <3> QED BY <1>4, <2>2, <3>5
  <2> QED BY <2>3, <2>4
<1> QED BY <1>1, <1>3, <1>5 DEF IsChain

\* No two nodes stand for one path: nothing is created, renamed or removed on the
\* disk on behalf of another file.
THEOREM PathsStayDistinct == Spec => []PathsDistinct
<1>1. IInv /\ RootsApart => PathsDistinct
  <2> DEFINE w == World({})
  <2> SUFFICES ASSUME IInv, RootsApart, err = NoError,
                      NEW m \in DOMAIN node, NEW n \in DOMAIN node,
                      Rooted(w, m), Rooted(w, n), PathOf(w, m) = PathOf(w, n)
               PROVE  m = n
    BY DEF PathsDistinct
  <2>1. Good(w) /\ Apart(w.node) /\ DOMAIN w.node = DOMAIN node
    BY WorldGood DEF RootsApart
  <2> HIDE DEF w
  <2>2. IsChain(w, Chain(w, m), m) /\ IsChain(w, Chain(w, n), n)
    BY <2>1, ChainIsChain
  <2> QED BY <2>1, <2>2, ChainsApart DEF Rooted, PathOf
<1> QED BY <1>1, Inductive, RootsStayApart, PTL
=============================================================================
