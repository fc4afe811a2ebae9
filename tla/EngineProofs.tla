---------------------------- MODULE EngineProofs ----------------------------
(***************************************************************************)
(* Whatever the trace holds and whatever system calls fail, the tree of    *)
(* nodes stays consistent, and Engine never uses Node in one of the ways   *)
(* that make Node throw whatever is in the trace.                          *)
(*                                                                         *)
(* Every handler takes a good world to a good world; the induction over    *)
(* the steps of the specification is at the end.                           *)
(***************************************************************************)
EXTENDS Engine, NodeTreeProofs

(* Helpers of the handlers.                                                *)

\* v is good and has the nodes of w.
Kept(w, v) == Good(v) /\ DOMAIN v.node = DOMAIN w.node

\* n is allocated unless an exception unwinds.
Alive(w, n) == w.err = NoError => n \in DOMAIN w.node

\* Attribute changes, where the node is allocated unless an exception unwinds.
LEMMA TouchKept ==
  ASSUME NEW w, Good(w), NEW n, Alive(w, n), NEW time \in Int,
         NEW v, v = Touch(w, n, time)
  PROVE  Extended(w, v) /\ Kept(w, v) /\ v.err = w.err
<1>1. CASE w.err # NoError
  BY <1>1 DEF Touch, Then, Extended, Kept
<1>2. CASE w.err = NoError
  <2>1. SameTree(w, v)
    BY <1>2, TouchSame DEF Alive
  <2>2. v.err = w.err
    BY <1>2 DEF Touch, Then, Good
  <2> QED BY <2>1, <2>2, SameTreeExtended, SameTreeGood DEF Kept
<1> QED BY <1>1, <1>2

\* The same for setType.
LEMMA SetDirKept ==
  ASSUME NEW w, Good(w), NEW n, Alive(w, n), NEW b \in BOOLEAN,
         NEW v, v = SetDir(w, n, b)
  PROVE  Kept(w, v) /\ v.err = w.err
<1>1. CASE w.err # NoError
  BY <1>1 DEF SetDir, Then, Kept
<1>2. CASE w.err = NoError
  <2>1. Extended(w, v) /\ DOMAIN v.node = DOMAIN w.node /\ v.err = w.err
    BY <1>2, SetDirGood DEF Alive
  <2> QED BY <2>1 DEF Kept, Extended
<1> QED BY <1>1, <1>2

\* The directory of a request is found or added, or an exception is thrown.
LEMMA VisitDirExtended ==
  ASSUME NEW w, Good(w), NEW h \in Handle, NEW found \in DOMAIN w.node \cup {NoNode},
         NEW time \in Int, NEW v, v = VisitDir(w, h, found, time)
  PROVE  /\ Extended(w, v)
         /\ v.err = NoError => OrNew(w, found) \in DOMAIN v.node
<1> DEFINE u == getOrCreateDir(w, h, found, time)
<1>1. Extended(w, u) /\ (u.err = NoError => OrNew(w, found) \in DOMAIN u.node)
  BY GetOrCreateDirExtended
<1> DEFINE n == OrNew(w, found)
<1>2. v = Touch(u, n, time) /\ Good(u) /\ Alive(u, n)
  BY <1>1 DEF VisitDir, Extended, Alive
<1>3. Extended(u, v) /\ Kept(u, v) /\ v.err = u.err
  <2> HIDE DEF u, n
  <2> QED BY <1>2, TouchKept
<1> HIDE DEF u
<1> QED BY <1>1, <1>3, ExtendedTrans DEF Kept

\* The rename(2) of an element keeps the tree.
LEMMA RenameOnDiskSame ==
  ASSUME NEW w, Good(w), NEW e \in DOMAIN w.node, NEW p \in DOMAIN w.node, NEW x \in Name,
         NEW v, v = RenameOnDisk(w, e, p, x)
  PROVE  SameTree(w, v)
<1> DEFINE a == calcPath(w, e)
           b == makePath(a, p)
<1>1. SameTree(w, a) /\ Good(a) /\ DOMAIN a.node = DOMAIN w.node
  BY CalcPathSame, SameTreeGood
<1>2. SameTree(w, b) /\ Good(b) /\ DOMAIN b.node = DOMAIN w.node
  <2> HIDE DEF a
  <2> QED BY <1>1, MakePathSame, SameTreeTrans, SameTreeGood
<1>3. v = w \/ v = b \/ \E d : v = [b EXCEPT !.disk = d]
  BY DEF RenameOnDisk, RenamePath, Then
<1> HIDE DEF b
<1>4. \A d : SameTree(w, [b EXCEPT !.disk = d])
  BY <1>2, DiskSame, SameTreeTrans
<1> QED BY <1>2, <1>3, <1>4, SameTreeRefl

\* The former parent's directory is cleared, if there was one.
LEMMA ClearParentKept ==
  ASSUME NEW w, Good(w), NEW p \in DOMAIN w.node \cup {NoNode},
         NEW v, v = ClearParent(w, p)
  PROVE  Kept(w, v)
<1>1. CASE p = NoNode
  BY <1>1 DEF ClearParent, Kept
<1>2. CASE p # NoNode
  <2>1. SameTree(w, v)
    BY <1>2, ClearEmptyDirSame DEF ClearParent
  <2> QED BY <2>1, SameTreeGood DEF Kept
<1> QED BY <1>1, <1>2

\* Taking an element from its parent, naming it and adding it to a parent.
LEMMA ReplacedKept ==
  ASSUME NEW w, Good(w), NEW e \in DOMAIN w.node, NEW p \in DOMAIN w.node, NEW x \in Name,
         NEW v, v = addChild(setName(Detached(w, e), e, x), p, e)
  PROVE  Kept(w, v)
<1> DEFINE a == Detached(w, e)
           b == setName(a, e, x)
<1>1. Loosened(w, a, e)
  BY DetachedGood
<1>2. Good(a) /\ DOMAIN a.node = DOMAIN w.node /\ (a.err = NoError => a.node[e].parent = NoNode)
  BY <1>1 DEF Loosened
<1>3. Good(b) /\ DOMAIN b.node = DOMAIN w.node
  <2> HIDE DEF a
  <2> QED BY <1>2, SetNameGood
<1>4. v = addChild(b, p, e)
  OBVIOUS
<1> HIDE DEF b
<1> QED BY <1>3, <1>4, AddChildGood DEF Kept

\* createMoveElement renames and moves an element, on the disk and in the tree.
LEMMA CreateMoveElementKept ==
  ASSUME NEW w, Good(w), NEW e \in DOMAIN w.node, NEW p \in DOMAIN w.node, NEW x \in Name,
         NEW v, v = createMoveElement(w, e, p, x)
  PROVE  Kept(w, v)
<1> DEFINE a == RenameOnDisk(w, e, p, x)
           b == addChild(setName(Detached(a, e), e, x), p, e)
<1>1. Good(a) /\ DOMAIN a.node = DOMAIN w.node
  BY RenameOnDiskSame, SameTreeGood
<1>2. Good(b) /\ DOMAIN b.node = DOMAIN w.node
  <2> HIDE DEF a
  <2> QED BY <1>1, ReplacedKept DEF Kept
<1>3. v = ClearParent(b, w.node[e].parent)
  BY DEF createMoveElement
<1>4. w.node[e].parent \in DOMAIN w.node \cup {NoNode}
  BY DEF Good, Heap, ParentKnowsChild
<1> HIDE DEF b
<1> QED BY <1>2, <1>3, <1>4, ClearParentKept DEF Kept

\* createChangeFType removes a created element and changes its type.
LEMMA CreateChangeFTypeKept ==
  ASSUME NEW w, Good(w), NEW e, Alive(w, e), NEW ftype,
         NEW v, v = createChangeFType(w, e, ftype)
  PROVE  Kept(w, v)
<1>1. CASE v = w
  BY <1>1 DEF Kept
<1>2. CASE w.err = NoError /\ v = SetDir(IF w.node[e].created THEN RemoveOnDisk(w, e) ELSE w,
                                        e, ftype = "DIR")
  <2> DEFINE a == IF w.node[e].created THEN RemoveOnDisk(w, e) ELSE w
  <2>1. Good(a) /\ DOMAIN a.node = DOMAIN w.node
    BY <1>2, RemoveOnDiskSame, SameTreeGood DEF Alive
  <2> DEFINE b == ftype = "DIR"
  <2>2. v = SetDir(a, e, b) /\ b \in BOOLEAN
    BY <1>2
  <2> HIDE DEF a, b
  <2> QED BY <1>2, <2>1, <2>2, SetDirKept DEF Kept, Alive
<1> QED BY <1>1, <1>2 DEF createChangeFType, Then

\* The element that has the name gives way or takes the handle.
LEMMA SettleElementKept ==
  ASSUME NEW w, Good(w), NEW p \in DOMAIN w.node, NEW c \in DOMAIN w.node,
         NEW e \in DOMAIN w.node \cup {NoNode}, NEW req, NEW res,
         req.name \in Name, res.fh \in Handle,
         NEW v, v = SettleElement(w, p, c, e, req, res)
  PROVE  Kept(w, v)
<1>1. CASE w.node[c].fh = res.fh
  BY <1>1 DEF SettleElement, Kept
<1>2. CASE w.node[c].fh # res.fh /\ Displaced(w, c, e, res)
  <2> DEFINE x == handleName[w.node[c].fh]
             a == createMoveElement(w, c, p, x)
             b == createMoveElement(a, e, p, req.name)
  <2>1. x \in Name
    BY TreeAssumption DEF Good, Heap, NodeType
  <2>2. Good(a) /\ DOMAIN a.node = DOMAIN w.node
    <3> HIDE DEF x
    <3> QED BY <2>1, CreateMoveElementKept DEF Kept
  <2>3. e \in DOMAIN w.node
    BY <1>2 DEF Displaced
  <2>4. Good(b) /\ DOMAIN b.node = DOMAIN w.node
    <3> HIDE DEF a
    <3> QED BY <2>2, <2>3, CreateMoveElementKept DEF Kept
  <2>5. v = b
    BY <1>2 DEF SettleElement
  <2> QED BY <2>4, <2>5 DEF Kept
<1>3. CASE v = switchNodeHandle(w, c, res.fh)
  BY <1>3, SwitchNodeHandleGood DEF Kept
<1> QED BY <1>1, <1>2, <1>3 DEF SettleElement

\* A new node is attached to its parent, or an exception is thrown.
LEMMA AddNewGood ==
  ASSUME NEW w, Good(w), NEW h \in Handle, NEW p \in DOMAIN w.node, NEW x \in Name,
         NEW time \in Int, NEW isDir \in BOOLEAN,
         NEW v, v = AddNew(w, p, h, x, time, isDir)
  PROVE  /\ Good(v) /\ DOMAIN w.node \subseteq DOMAIN v.node
         /\ v.err = NoError => NewNode(w) \in DOMAIN v.node
<1> DEFINE n == NewNode(w)
           a == createNode(w, h, x, time)
           b == SetDir(a, n, isDir)
<1>1. Extended(w, a) /\ (a.err = NoError => n \in DOMAIN a.node)
  BY CreateNodeExtended
<1>2. CASE a.err # NoError
  <2>1. v = a
    BY <1>2 DEF AddNew, Then
  <2> QED BY <1>1, <1>2, <2>1 DEF Extended
<1>3. CASE a.err = NoError
  <2>1. Good(a) /\ n \in DOMAIN a.node /\ p \in DOMAIN a.node
    BY <1>1, <1>3 DEF Extended
  <2>2. Good(b) /\ DOMAIN b.node = DOMAIN a.node
    <3> HIDE DEF a
    <3> QED BY <2>1, SetDirKept DEF Kept, Alive
  <2>3. v = addChild(b, p, n)
    BY <1>3 DEF AddNew, Then
  <2>4. Good(v) /\ DOMAIN v.node = DOMAIN a.node
    <3> HIDE DEF a, b, n
    <3> QED BY <2>1, <2>2, <2>3, AddChildGood
  <2> QED BY <1>1, <2>1, <2>4 DEF Extended
<1> QED BY <1>2, <1>3

-----------------------------------------------------------------------------
(* LOOKUP, CREATE and MKDIR.                                               *)

\* A request and a response that name an entry of a directory.
EntryArgs(req, res) ==
  NamesEntry(req, res) /\ res.time \in Int /\ res.size \in Nat

\* A child is allocated, and knows its parent.
LEMMA ChildAllocated ==
  ASSUME NEW w, Good(w), NEW p \in DOMAIN w.node, NEW x \in Name,
         w.node[p].kids[x] # NoNode
  PROVE  /\ w.node[p].kids[x] \in DOMAIN w.node
         /\ w.node[w.node[p].kids[x]].parent = p
         /\ w.node[w.node[p].kids[x]].name = x
BY DEF Good, Heap, ChildKnowsParent

\* createLookup, once the directory is found.
LEMMA LookupInGood ==
  ASSUME NEW w, Good(w), NEW p \in DOMAIN w.node, NEW e \in DOMAIN w.node \cup {NoNode},
         NEW req, NEW res, EntryArgs(req, res),
         NEW v, v = LookupIn(w, p, e, req, res)
  PROVE  Good(v)
<1> DEFINE c     == w.node[p].kids[req.name]
           n     == IF c = NoNode \/ Displaced(w, c, e, res) THEN e ELSE c
           isDir == res.ftype = "DIR"
           a     == IF c # NoNode THEN SettleElement(w, p, c, e, req, res)
                    ELSE createMoveElement(w, e, p, req.name)
           new   == AddNew(w, p, w.node[e].fh, req.name, res.time, FALSE)
           b     == createChangeFType(a, n, res.ftype)
<1>1. /\ req.name \in Name /\ res.fh \in Handle /\ res.time \in Int /\ isDir \in BOOLEAN
      /\ c # NoNode => c \in DOMAIN w.node
  BY ChildAllocated DEF EntryArgs, NamesEntry
<1>2. CASE v = AddNew(w, p, res.fh, req.name, res.time, isDir)
  <2> HIDE DEF isDir
  <2> QED BY <1>1, <1>2, AddNewGood
<1>3. CASE e # NoNode /\ v = Touch(new, e, res.time)
  <2>1. e \in DOMAIN w.node /\ w.node[e].fh \in Handle
    BY <1>3 DEF Good, Heap, NodeType
  <2>2. Good(new) /\ DOMAIN w.node \subseteq DOMAIN new.node
    <3> DEFINE h == w.node[e].fh
               f == FALSE
    <3>1. h \in Handle /\ f \in BOOLEAN /\ new = AddNew(w, p, h, req.name, res.time, f)
      BY <2>1
    <3> HIDE DEF h, f, new
    <3> QED BY <1>1, <3>1, AddNewGood
  <2> HIDE DEF new
  <2> QED BY <1>1, <1>3, <2>1, <2>2, TouchKept DEF Alive, Kept
<1>4. CASE (c # NoNode \/ e # NoNode) /\ v = Touch(b, n, res.time)
  <2>1. n \in DOMAIN w.node
    BY <1>1, <1>4 DEF Displaced
  <2>2. Good(a) /\ DOMAIN a.node = DOMAIN w.node
    <3>1. CASE c # NoNode
      <4>1. a = SettleElement(w, p, c, e, req, res) /\ c \in DOMAIN w.node
        BY <1>1, <3>1
      <4> HIDE DEF c, a, b, n, new
      <4> QED BY <1>1, <4>1, SettleElementKept, SMTT(20) DEF Kept
    <3>2. CASE c = NoNode
      <4>1. a = createMoveElement(w, e, p, req.name) /\ e \in DOMAIN w.node
        BY <1>4, <3>2
      <4> HIDE DEF a
      <4> QED BY <1>1, <4>1, CreateMoveElementKept DEF Kept
    <3> QED BY <3>1, <3>2
  <2>3. Good(b) /\ DOMAIN b.node = DOMAIN w.node
    <3> HIDE DEF a, n
    <3> QED BY <2>1, <2>2, CreateChangeFTypeKept DEF Kept, Alive
  <2> HIDE DEF b, n
  <2> QED BY <1>1, <1>4, <2>1, <2>3, TouchKept DEF Alive, Kept
<1> HIDE DEF c, n, isDir, a, b, new
<1> QED BY <1>2, <1>3, <1>4 DEF LookupIn, c, n, isDir, a, b, new

\* LOOKUP.
LEMMA CreateLookupGood ==
  ASSUME NEW w, Good(w), NEW req, NEW res, res.time \in Int, res.size \in Nat,
         NEW d \in DOMAIN w.node \cup {NoNode}, NEW e \in DOMAIN w.node \cup {NoNode},
         NEW v, v = createLookup(w, req, res, d, e)
  PROVE  Good(v)
<1> DEFINE a == VisitDir(w, req.fh, d, res.time)
           p == OrNew(w, d)
<1>1. CASE v = w
  BY <1>1
<1>2. CASE NamesEntry(req, res) /\ v = Then(a, LookupIn(a, p, e, req, res))
  <2>1. EntryArgs(req, res) /\ req.fh \in Handle
    BY <1>2 DEF EntryArgs, NamesEntry
  <2>2. Extended(w, a) /\ (a.err = NoError => p \in DOMAIN a.node)
    BY <2>1, VisitDirExtended
  <2> HIDE DEF a, p
  <2>3. CASE a.err # NoError
    BY <1>2, <2>2, <2>3 DEF Then, Extended
  <2>4. CASE a.err = NoError
    <3>1. Good(a) /\ p \in DOMAIN a.node /\ e \in DOMAIN a.node \cup {NoNode}
      BY <2>2, <2>4 DEF Extended
    <3>2. v = LookupIn(a, p, e, req, res)
      BY <1>2, <2>4 DEF Then
    <3> QED BY <2>1, <3>1, <3>2, LookupInGood
  <2> QED BY <2>3, <2>4
<1> QED BY <1>1, <1>2 DEF createLookup

\* setSize and writeToSize of an allocated node.
LEMMA SetSizeKept ==
  ASSUME NEW w, Good(w), NEW n \in DOMAIN w.node, NEW s \in Nat,
         NEW v, v = SetSize(w, n, s)
  PROVE  Kept(w, v)
BY SetSizeSame, SameTreeGood DEF Kept

\* writeToSize keeps the nodes.
LEMMA WriteToSizeKept ==
  ASSUME NEW w, Good(w), NEW n \in DOMAIN w.node, NEW s \in Nat,
         NEW v, v = writeToSize(w, n, s)
  PROVE  Kept(w, v)
BY WriteToSizeSame, SameTreeGood DEF Kept

\* createFile where the name is taken.
LEMMA CreateOverGood ==
  ASSUME NEW w, Good(w), NEW p \in DOMAIN w.node, NEW c \in DOMAIN w.node,
         NEW e \in DOMAIN w.node \cup {NoNode},
         NEW req, NEW res, EntryArgs(req, res),
         NEW v, v = CreateOver(w, p, c, e, req, res)
  PROVE  Good(v)
<1> DEFINE n  == IF Displaced(w, c, e, res) THEN e ELSE c
           a  == SettleElement(w, p, c, e, req, res)
           b  == IF res.op = "CREATE" THEN SetSize(a, n, 0) ELSE a
           wr == writeToSize(b, n, res.size)
           t  == IF res.ftype = "DIR" THEN b ELSE wr
           u  == createChangeFType(t, n, res.ftype)
<1>1. /\ req.name \in Name /\ res.fh \in Handle /\ res.time \in Int /\ res.size \in Nat
  BY DEF EntryArgs, NamesEntry
<1>2. n \in DOMAIN w.node
  BY DEF Displaced
<1> HIDE DEF n
<1>3. Good(a) /\ DOMAIN a.node = DOMAIN w.node
  BY <1>1, SettleElementKept DEF Kept
<1> HIDE DEF a
<1>4. Good(b) /\ DOMAIN b.node = DOMAIN w.node
  BY <1>2, <1>3, SetSizeKept DEF Kept
<1> HIDE DEF b
<1>5. Good(t) /\ DOMAIN t.node = DOMAIN w.node
  <2>1. Good(wr) /\ DOMAIN wr.node = DOMAIN w.node
    BY <1>1, <1>2, <1>4, WriteToSizeKept DEF Kept
  <2> QED BY <1>4, <2>1
<1> HIDE DEF t
<1>6. Good(u) /\ DOMAIN u.node = DOMAIN w.node
  BY <1>2, <1>5, CreateChangeFTypeKept DEF Kept, Alive
<1>7. v = Touch(u, n, res.time)
  BY DEF CreateOver, Rewrite, n, a, b, t, u
<1> HIDE DEF u
<1> QED BY <1>1, <1>2, <1>6, <1>7, TouchKept DEF Kept, Alive

\* createFile where the name is free and the file is known.
LEMMA CreateAgainGood ==
  ASSUME NEW w, Good(w), NEW p \in DOMAIN w.node, NEW e \in DOMAIN w.node,
         NEW req, NEW res, EntryArgs(req, res),
         NEW v, v = CreateAgain(w, p, e, req, res)
  PROVE  Good(v)
<1> DEFINE a  == IF w.node[e].created THEN RemoveOnDisk(w, e) ELSE w
           b  == addChild(setName(Detached(a, e), e, req.name), p, e)
           c  == createChangeFType(b, e, res.ftype)
           t  == SetSize(c, e, 0)
           u  == writeToSize(t, e, res.size)
           q  == w.node[e].parent
           z  == ClearParent(u, q)
<1>1. /\ req.name \in Name /\ res.fh \in Handle /\ res.time \in Int /\ res.size \in Nat
  BY DEF EntryArgs, NamesEntry
<1>2. Good(a) /\ DOMAIN a.node = DOMAIN w.node
  BY RemoveOnDiskSame, SameTreeGood
<1> HIDE DEF a
<1>3. Good(b) /\ DOMAIN b.node = DOMAIN w.node
  BY <1>1, <1>2, ReplacedKept DEF Kept
<1> HIDE DEF b
<1>4. Good(c) /\ DOMAIN c.node = DOMAIN w.node
  BY <1>3, CreateChangeFTypeKept DEF Kept, Alive
<1> HIDE DEF c
<1>5. Good(t) /\ DOMAIN t.node = DOMAIN w.node
  BY <1>4, SetSizeKept DEF Kept
<1> HIDE DEF t
<1>6. Good(u) /\ DOMAIN u.node = DOMAIN w.node
  BY <1>1, <1>5, WriteToSizeKept DEF Kept
<1> HIDE DEF u
<1>7. Good(z) /\ DOMAIN z.node = DOMAIN w.node
  <2>1. q \in DOMAIN w.node \cup {NoNode}
    BY DEF Good, Heap, ParentKnowsChild
  <2> HIDE DEF q
  <2> QED BY <1>6, <2>1, ClearParentKept DEF Kept
<1>8. v = Touch(z, e, res.time)
  BY DEF CreateAgain, a, b, c, t, u
<1> HIDE DEF z
<1> QED BY <1>1, <1>7, <1>8, TouchKept DEF Kept, Alive

\* createFile, once the directory is found.
LEMMA CreateInGood ==
  ASSUME NEW w, Good(w), NEW p \in DOMAIN w.node, NEW e \in DOMAIN w.node \cup {NoNode},
         NEW req, NEW res, EntryArgs(req, res),
         NEW v, v = CreateIn(w, p, e, req, res)
  PROVE  Good(v)
<1> DEFINE c   == w.node[p].kids[req.name]
           new == AddNew(w, p, res.fh, req.name, res.time, FALSE)
           n   == NewNode(w)
           u   == writeToSize(new, n, res.size)
<1>1. /\ req.name \in Name /\ res.fh \in Handle /\ res.time \in Int /\ res.size \in Nat
      /\ c # NoNode => c \in DOMAIN w.node
  BY ChildAllocated DEF EntryArgs, NamesEntry
<1>2. CASE c # NoNode /\ v = CreateOver(w, p, c, e, req, res)
  <2> HIDE DEF c
  <2> QED BY <1>1, <1>2, CreateOverGood
<1>3. CASE v = LookupIn(w, p, e, req, res)
  BY <1>3, LookupInGood
<1>4. CASE e # NoNode /\ v = CreateAgain(w, p, e, req, res)
  <2>1. e \in DOMAIN w.node
    BY <1>4
  <2> QED BY <1>4, <2>1, CreateAgainGood
<1>5. CASE v = Then(new, u)
  <2>1. Good(new) /\ (new.err = NoError => n \in DOMAIN new.node)
    <3> DEFINE f == FALSE
    <3>1. f \in BOOLEAN /\ new = AddNew(w, p, res.fh, req.name, res.time, f)
      OBVIOUS
    <3> HIDE DEF f, new
    <3> QED BY <1>1, <3>1, AddNewGood
  <2> HIDE DEF new, n
  <2>2. CASE new.err # NoError
    BY <1>5, <2>1, <2>2 DEF Then
  <2>3. CASE new.err = NoError
    <3>1. Good(u)
      BY <1>1, <2>1, <2>3, WriteToSizeKept DEF Kept
    <3> QED BY <1>5, <2>3, <3>1 DEF Then
  <2> QED BY <2>2, <2>3
<1> HIDE DEF c, new, u, n
<1> QED BY <1>2, <1>3, <1>4, <1>5 DEF CreateIn, c, new, u, n

\* CREATE and MKDIR.
LEMMA CreateFileGood ==
  ASSUME NEW w, Good(w), NEW req, NEW res, res.time \in Int, res.size \in Nat,
         NEW d \in DOMAIN w.node \cup {NoNode}, NEW e \in DOMAIN w.node \cup {NoNode},
         NEW v, v = createFile(w, req, res, d, e)
  PROVE  Good(v)
<1> DEFINE a == VisitDir(w, req.fh, d, res.time)
           p == OrNew(w, d)
<1>1. CASE v = w
  BY <1>1
<1>2. CASE NamesEntry(req, res) /\ v = Then(a, CreateIn(a, p, e, req, res))
  <2>1. EntryArgs(req, res) /\ req.fh \in Handle
    BY <1>2 DEF EntryArgs, NamesEntry
  <2>2. Extended(w, a) /\ (a.err = NoError => p \in DOMAIN a.node)
    BY <2>1, VisitDirExtended
  <2> HIDE DEF a, p
  <2>3. CASE a.err # NoError
    BY <1>2, <2>2, <2>3 DEF Then, Extended
  <2>4. CASE a.err = NoError
    <3>1. Good(a) /\ p \in DOMAIN a.node /\ e \in DOMAIN a.node \cup {NoNode}
      BY <2>2, <2>4 DEF Extended
    <3>2. v = CreateIn(a, p, e, req, res)
      BY <1>2, <2>4 DEF Then
    <3> QED BY <2>1, <3>1, <3>2, CreateInGood
  <2> QED BY <2>3, <2>4
<1> QED BY <1>1, <1>2 DEF createFile

-----------------------------------------------------------------------------
(* WRITE, ACCESS, GETATTR and SETATTR.                                     *)

\* The open(2) and the write(2) or truncate(2) of a WRITE keep the tree.
LEMMA WriteToGood ==
  ASSUME NEW w, Good(w), NEW n \in DOMAIN w.node, NEW req,
         req.offset \in Nat, req.count \in Nat, NEW v, v = WriteTo(w, n, req)
  PROVE  Good(v)
<1> DEFINE end   == (req.offset + req.count) % SizeSpace
           a     == IF end > w.node[n].size THEN SetSize(w, n, end) ELSE w
           trunc == w.node[n].size = 0
           u     == OpenNode(a, n, trunc)
<1>1. end \in Nat
  BY EngineAssumption
<1> HIDE DEF end
<1>2. Good(a) /\ DOMAIN a.node = DOMAIN w.node
  BY <1>1, SetSizeKept DEF Kept
<1> HIDE DEF a
<1>3. Good(u) /\ \A disk1 : Good([u EXCEPT !.disk = disk1])
  <2>1. Good(u)
    BY <1>2, OpenNodeSame, SameTreeGood
  <2> HIDE DEF u
  <2> QED BY <2>1, DiskSame, SameTreeGood
<1>4. v = a \/ v = u \/ \E disk1 : v = [u EXCEPT !.disk = disk1]
  BY DEF WriteTo, Truncate, Fill, end, a, u
<1> HIDE DEF u
<1> QED BY <1>2, <1>3, <1>4

\* WRITE.
LEMMA WriteFileGood ==
  ASSUME NEW w, Good(w), NEW req, NEW res, res.time \in Int,
         req.offset \in Nat, req.count \in Nat,
         NEW d \in DOMAIN w.node \cup {NoNode}, NEW v, v = writeFile(w, req, res, d)
  PROVE  Good(v)
<1> DEFINE n == OrNew(w, d)
           a == getOrCreateNode(w, req.fh, d, res.time)
           b == Touch(a, n, res.time)
           c == MakeParent(b, n)
           u == Then(b, c)
           e == calcPath(u, n)
           t == Then(u, e)
           f == WriteTo(t, n, req)
<1>1. CASE v = w
  BY <1>1
<1>2. CASE req.fh \in Handle /\ v = Then(t, f)
  <2>1. Good(a) /\ Alive(a, n)
    <3>1. req.fh \in Handle
      BY <1>2
    <3>2. Extended(w, a) /\ (a.err = NoError => n \in DOMAIN a.node)
      BY <3>1, GetOrCreateNodeExtended
    <3> HIDE DEF n, a
    <3> QED BY <3>2 DEF Extended, Alive
  <2> HIDE DEF n, a
  <2>2. Good(b) /\ Alive(b, n)
    <3>1. Kept(a, b) /\ b.err = a.err
      BY <2>1, TouchKept
    <3> HIDE DEF b
    <3> QED BY <2>1, <3>1 DEF Kept, Alive
  <2> HIDE DEF b
  <2>3. Good(u) /\ Alive(u, n)
    <3>1. CASE b.err # NoError
      BY <2>2, <3>1 DEF Then, Alive
    <3>2. CASE b.err = NoError
      <4>1. n \in DOMAIN b.node /\ u = c
        BY <2>2, <3>2 DEF Then, Alive
      <4>2. Good(c) /\ DOMAIN c.node = DOMAIN b.node
        BY <2>2, <4>1, MakeParentSame, SameTreeGood
      <4> QED BY <4>1, <4>2 DEF Alive
    <3> QED BY <3>1, <3>2
  <2> HIDE DEF u
  <2>4. Good(t) /\ Alive(t, n)
    <3>1. CASE u.err # NoError
      BY <2>3, <3>1 DEF Then, Alive
    <3>2. CASE u.err = NoError
      <4>1. n \in DOMAIN u.node /\ t = e
        BY <2>3, <3>2 DEF Then, Alive
      <4>2. Good(e) /\ DOMAIN e.node = DOMAIN u.node
        BY <2>3, <4>1, CalcPathSame, SameTreeGood
      <4> QED BY <4>1, <4>2 DEF Alive
    <3> QED BY <3>1, <3>2
  <2> HIDE DEF t
  <2>5. CASE t.err # NoError
    BY <1>2, <2>4, <2>5 DEF Then
  <2>6. CASE t.err = NoError
    <3>1. n \in DOMAIN t.node /\ v = f
      BY <1>2, <2>4, <2>6 DEF Then, Alive
    <3> QED BY <2>4, <3>1, WriteToGood
  <2> QED BY <2>5, <2>6
<1> QED BY <1>1, <1>2 DEF writeFile

\* ACCESS, GETATTR and SETATTR.
LEMMA GetAttrGood ==
  ASSUME NEW w, Good(w), NEW req, NEW res, res.time \in Int,
         NEW d \in DOMAIN w.node \cup {NoNode}, NEW v, v = getAttr(w, req, res, d)
  PROVE  Good(v)
<1> DEFINE a == Touch(w, d, res.time)
           b == calcPath(a, d)
<1>1. CASE v = w
  BY <1>1
<1>2. CASE d # NoNode /\ (v = a \/ v = b)
  <2>1. d \in DOMAIN w.node
    BY <1>2
  <2>2. Good(a) /\ DOMAIN a.node = DOMAIN w.node
    BY <2>1, TouchKept DEF Kept, Alive
  <2>3. Good(b)
    <3> HIDE DEF a
    <3> QED BY <2>1, <2>2, CalcPathSame, SameTreeGood
  <2> QED BY <1>2, <2>2, <2>3
<1> QED BY <1>1, <1>2 DEF getAttr

-----------------------------------------------------------------------------
(* REMOVE, RMDIR.                                                          *)

\* A child without children, removed from the disk and from its parent.
LEMMA TakenOutGood ==
  ASSUME NEW w, Good(w), NEW p \in DOMAIN w.node, NEW c \in DOMAIN w.node,
         w.node[c].parent = p, isDeletable(w, c),
         NEW u, u = deleteChild(IF w.node[c].created THEN Unlink(w, c) ELSE w, p, c)
  PROVE  Kept(w, u) /\ Isolated(u, c)
<1> DEFINE v == IF w.node[c].created THEN Unlink(w, c) ELSE w
<1>1. SameTree(w, v)
  BY UnlinkSame, SameTreeRefl
<1>2. u = deleteChild(v, p, c)
  OBVIOUS
<1> HIDE DEF v
<1>3. Good(v) /\ DOMAIN v.node = DOMAIN w.node
  BY <1>1, SameTreeGood
<1>4. v.node[c].parent = p /\ isDeletable(v, c)
  BY <1>1 DEF SameTree, isDeletable, Kids
<1>5. Loosened(v, u, c) /\ \A x \in Name : u.node[c].kids[x] = NoNode
  BY <1>2, <1>3, <1>4, DeleteChildGood
<1> QED BY <1>3, <1>5 DEF Loosened, Kept, Isolated

\* removeFile of a child without children.
LEMMA RemoveChildOfGood ==
  ASSUME NEW w, Good(w), NEW d \in DOMAIN w.node, NEW c \in DOMAIN w.node,
         w.node[c].parent = d, isDeletable(w, c), NEW time \in Int,
         NEW v, v = RemoveChildOf(w, d, c, time)
  PROVE  Good(v)
<1> DEFINE u == deleteChild(IF w.node[c].created THEN Unlink(w, c) ELSE w, d, c)
           a == clearEmptyDir(u, d)
           b == Then(u, a)
           t == Touch(b, d, time)
<1>1. Good(u) /\ DOMAIN u.node = DOMAIN w.node /\ Isolated(u, c)
  BY TakenOutGood DEF Kept
<1> HIDE DEF u
<1>2. Good(b) /\ DOMAIN b.node = DOMAIN w.node /\ Isolated(b, c)
  <2>1. SameTree(u, a) /\ Good(a) /\ DOMAIN a.node = DOMAIN u.node
    BY <1>1, ClearEmptyDirSame, SameTreeGood
  <2>2. (u.err # NoError /\ b = u) \/ (u.err = NoError /\ b = a)
    BY DEF Then
  <2> HIDE DEF a, b
  <2> QED BY <1>1, <2>1, <2>2 DEF SameTree, Isolated
<1> HIDE DEF b
<1>3. Extended(b, t) /\ Kept(b, t) /\ t.err = b.err
  <2>1. Alive(b, d)
    BY <1>2 DEF Alive
  <2> QED BY <1>2, <2>1, TouchKept
<1> HIDE DEF t
<1>4. Good(t) /\ c \in DOMAIN t.node /\ Isolated(t, c)
  BY <1>2, <1>3 DEF Kept, Extended, Isolated
<1>5. v = removeNode(t, c)
  BY DEF RemoveChildOf, t, b, u
<1> QED BY <1>4, <1>5, RemoveNodeGood

\* REMOVE and RMDIR.
LEMMA RemoveFileGood ==
  ASSUME NEW w, Good(w), NEW req, NEW res, res.time \in Int,
         NEW d \in DOMAIN w.node \cup {NoNode}, NEW v, v = removeFile(w, req, res, d)
  PROVE  Good(v)
<1> DEFINE c == w.node[d].kids[req.name]
<1>1. CASE v = w
  BY <1>1
<1>2. CASE /\ req.name \in Name /\ d # NoNode /\ c # NoNode /\ isDeletable(w, c)
           /\ v = RemoveChildOf(w, d, c, res.time)
  <2>1. d \in DOMAIN w.node /\ req.name \in Name /\ c # NoNode
    BY <1>2
  <2>2. c \in DOMAIN w.node /\ w.node[c].parent = d
    BY <2>1, ChildAllocated
  <2> HIDE DEF c
  <2> QED BY <1>2, <2>1, <2>2, RemoveChildOfGood
<1> QED BY <1>1, <1>2 DEF removeFile

-----------------------------------------------------------------------------
(* LINK and SYMLINK.                                                       *)

\* A new node that the disk may hold already.
LEMMA PlacedGood ==
  ASSUME NEW u, Good(u), NEW n, Alive(u, n), u.err = NoError,
         NEW v, v = SetCreated(u, n) \/ \E d : v = [SetCreated(u, n) EXCEPT !.disk = d]
  PROVE  Good(v)
<1> DEFINE a == SetCreated(u, n)
<1>1. Good(a)
  BY SetCreatedSame, SameTreeGood DEF Alive
<1> HIDE DEF a
<1>2. \A d : Good([a EXCEPT !.disk = d])
  BY <1>1, DiskSame, SameTreeGood
<1> QED BY <1>1, <1>2 DEF a

\* createLink, once the name is free.
LEMMA LinkInGood ==
  ASSUME NEW w, Good(w), NEW p \in DOMAIN w.node, NEW s \in DOMAIN w.node,
         NEW x \in Name, NEW time \in Int, NEW z, z = LinkIn(w, p, s, x, time)
  PROVE  Good(z)
<1> DEFINE a == calcPath(w, s)
           b == makePath(a, p)
           v == IF w.node[s].created THEN b ELSE w
           n == NewNode(w)
           h == w.node[s].fh
           f == FALSE
           u == AddNew(v, p, h, x, time, f)
<1>1. Good(a) /\ DOMAIN a.node = DOMAIN w.node
  BY CalcPathSame, SameTreeGood
<1>2. Good(b) /\ DOMAIN b.node = DOMAIN w.node
  <2> HIDE DEF a
  <2> QED BY <1>1, MakePathSame, SameTreeGood
<1>3. Good(v) /\ DOMAIN v.node = DOMAIN w.node
  BY <1>2
<1>4. h \in Handle /\ f \in BOOLEAN
  BY DEF Good, Heap, NodeType
<1>5. Good(u) /\ Alive(u, n)
  <2>1. n = NewNode(v)
    BY <1>3 DEF NewNode
  <2> HIDE DEF v, h, f, n
  <2> QED BY <1>3, <1>4, <2>1, AddNewGood DEF Alive
<1>6. \/ z = u
      \/ /\ u.err = NoError
         /\ z = SetCreated(u, n) \/ \E d : z = [SetCreated(u, n) EXCEPT !.disk = d]
  BY DEF LinkIn, LinkOnDisk, a, b, v, n, h, f, u
<1> HIDE DEF v, u, n
<1> QED BY <1>3, <1>5, <1>6, PlacedGood

\* The element a link replaces is freed, and nothing else.
LEMMA ReplaceChildGood ==
  ASSUME NEW w, Good(w), NEW p \in DOMAIN w.node, NEW c \in DOMAIN w.node,
         w.node[c].parent = p, isDeletable(w, c), NEW v, v = ReplaceChild(w, p, c)
  PROVE  Good(v) /\ p # c /\ DOMAIN w.node \ {c} \subseteq DOMAIN v.node
<1> DEFINE u == deleteChild(IF w.node[c].created THEN Unlink(w, c) ELSE w, p, c)
<1>1. Good(u) /\ DOMAIN u.node = DOMAIN w.node /\ Isolated(u, c)
  BY TakenOutGood DEF Kept
<1>2. v = removeNode(u, c)
  BY DEF ReplaceChild
<1> HIDE DEF u
<1>3. Good(v) /\ DOMAIN w.node \ {c} \subseteq DOMAIN v.node
  BY <1>1, <1>2, RemoveNodeGood
<1>4. p # c
  <2>1. \A x \in Name : w.node[c].kids[x] = NoNode
    BY Childless
  <2>2. w.node[p].kids[w.node[c].name] = c /\ w.node[c].name \in Name /\ c # NoNode
    BY TreeAssumption DEF Good, Heap, NodeType, ParentKnowsChild
  <2> QED BY <2>1, <2>2
<1> QED BY <1>3, <1>4

\* LINK.
LEMMA CreateLinkGood ==
  ASSUME NEW w, Good(w), NEW req, NEW res, res.time \in Int,
         NEW s \in DOMAIN w.node \cup {NoNode}, NEW f \in DOMAIN w.node \cup {NoNode},
         NEW z, z = createLink(w, req, res, s, f)
  PROVE  Good(z)
<1> DEFINE a == Touch(w, s, res.time)
           v == VisitDir(a, req.fh2, f, res.time)
           p == OrNew(w, f)
           c == v.node[p].kids[req.name]
           u == calcPath(v, c)
           t == ReplaceChild(v, p, c)
           y == LinkIn(t, p, s, req.name, res.time)
<1>1. CASE z = w
  BY <1>1
<1>2. CASE /\ req.fh2 \in Handle /\ req.name \in Name /\ s # NoNode
           /\ \/ v.err # NoError /\ z = v
              \/ /\ v.err = NoError
                 /\ \/ z = v
                    \/ c = NoNode /\ z = LinkIn(v, p, s, req.name, res.time)
                    \/ c # NoNode /\ z = u
                    \/ c # NoNode /\ c # s /\ isDeletable(v, c) /\ z = Then(t, y)
  <2>1. req.fh2 \in Handle /\ req.name \in Name /\ s \in DOMAIN w.node
    BY <1>2
  <2>2. Extended(w, a) /\ Kept(w, a) /\ a.err = w.err
    <3>1. Alive(w, s)
      BY <2>1 DEF Alive
    <3> QED BY <3>1, TouchKept
  <2>3. NewNode(a) = NewNode(w) /\ p = OrNew(a, f) /\ f \in DOMAIN a.node \cup {NoNode} /\ Good(a)
    BY <2>2 DEF Kept, NewNode, OrNew
  <2> HIDE DEF a, p
  <2>4. Extended(a, v) /\ (v.err = NoError => p \in DOMAIN v.node)
    BY <2>1, <2>3, VisitDirExtended
  <2>5. Good(v) /\ s \in DOMAIN v.node /\ Alive(v, p)
    BY <2>1, <2>2, <2>4 DEF Extended, Kept, Alive
  <2> HIDE DEF v
  <2>6. CASE z = v
    BY <2>5, <2>6
  <2>7. CASE v.err = NoError /\ z = LinkIn(v, p, s, req.name, res.time)
    BY <2>1, <2>5, <2>7, LinkInGood DEF Alive
  <2>8. ASSUME v.err = NoError, c # NoNode
        PROVE  p \in DOMAIN v.node /\ c \in DOMAIN v.node /\ v.node[c].parent = p
    BY <2>1, <2>5, <2>8, ChildAllocated DEF Alive
  <2> HIDE DEF c
  <2>9. CASE v.err = NoError /\ c # NoNode /\ z = u
    BY <2>5, <2>8, <2>9, CalcPathSame, SameTreeGood
  <2>10. CASE v.err = NoError /\ c # NoNode /\ c # s /\ isDeletable(v, c) /\ z = Then(t, y)
    <3>1. Good(t) /\ p \in DOMAIN t.node /\ s \in DOMAIN t.node
      BY <2>5, <2>8, <2>10, ReplaceChildGood
    <3> HIDE DEF t
    <3>2. Good(y)
      BY <2>1, <3>1, LinkInGood
    <3> QED BY <2>10, <3>1, <3>2 DEF Then
  <2> QED BY <1>2, <2>6, <2>7, <2>9, <2>10
<1> HIDE DEF a, v, p, c, u, t, y
<1> QED BY <1>1, <1>2 DEF createLink, Then, a, v, p, c, u, t, y

\* createSymlink, once the name is free.
LEMMA SymlinkInGood ==
  ASSUME NEW w, Good(w), NEW p \in DOMAIN w.node, NEW h \in Handle,
         NEW x \in Name, NEW time \in Int, NEW z, z = SymlinkIn(w, p, h, x, time)
  PROVE  Good(z)
<1> DEFINE n == NewNode(w)
           f == FALSE
           v == AddNew(w, p, h, x, time, f)
           u == calcPath(v, p)
<1>1. Good(v) /\ Alive(v, n) /\ p \in DOMAIN v.node
  <2>1. f \in BOOLEAN
    OBVIOUS
  <2> HIDE DEF f
  <2> QED BY <2>1, AddNewGood DEF Alive
<1>2. Good(u)
  <2> HIDE DEF v
  <2> QED BY <1>1, CalcPathSame, SameTreeGood
<1>3. \/ z = v \/ z = u
      \/ /\ v.err = NoError
         /\ z = SetCreated(v, n) \/ \E d : z = [SetCreated(v, n) EXCEPT !.disk = d]
  BY DEF SymlinkIn, SymlinkOnDisk, Then, n, f, v, u
<1> HIDE DEF v, u, n
<1> QED BY <1>1, <1>2, <1>3, PlacedGood

\* SYMLINK.
LEMMA CreateSymlinkGood ==
  ASSUME NEW w, Good(w), NEW req, NEW res, res.time \in Int,
         NEW d \in DOMAIN w.node \cup {NoNode}, NEW z, z = createSymlink(w, req, res, d)
  PROVE  Good(z)
<1> DEFINE v == VisitDir(w, req.fh, d, res.time)
           p == OrNew(w, d)
           c == v.node[p].kids[req.name]
           u == calcPath(v, c)
           t == ReplaceChild(v, p, c)
           y == SymlinkIn(t, p, res.fh, req.name, res.time)
<1>1. CASE z = w
  BY <1>1
<1>2. CASE /\ req.fh \in Handle /\ res.fh \in Handle /\ req.name \in Name
           /\ \/ v.err # NoError /\ z = v
              \/ /\ v.err = NoError
                 /\ \/ z = v
                    \/ c = NoNode /\ z = SymlinkIn(v, p, res.fh, req.name, res.time)
                    \/ c # NoNode /\ z = u
                    \/ c # NoNode /\ isDeletable(v, c) /\ z = Then(t, y)
  <2>1. req.fh \in Handle /\ res.fh \in Handle /\ req.name \in Name
    BY <1>2
  <2> HIDE DEF p
  <2>2. Extended(w, v) /\ (v.err = NoError => p \in DOMAIN v.node)
    BY <2>1, VisitDirExtended DEF p
  <2>3. Good(v) /\ Alive(v, p)
    BY <2>2 DEF Extended, Alive
  <2> HIDE DEF v
  <2>4. CASE z = v
    BY <2>3, <2>4
  <2>5. CASE v.err = NoError /\ z = SymlinkIn(v, p, res.fh, req.name, res.time)
    BY <2>1, <2>3, <2>5, SymlinkInGood DEF Alive
  <2>6. ASSUME v.err = NoError, c # NoNode
        PROVE  p \in DOMAIN v.node /\ c \in DOMAIN v.node /\ v.node[c].parent = p
    BY <2>1, <2>3, <2>6, ChildAllocated DEF Alive
  <2> HIDE DEF c
  <2>7. CASE v.err = NoError /\ c # NoNode /\ z = u
    BY <2>3, <2>6, <2>7, CalcPathSame, SameTreeGood
  <2>8. CASE v.err = NoError /\ c # NoNode /\ isDeletable(v, c) /\ z = Then(t, y)
    <3>1. Good(t) /\ p \in DOMAIN t.node
      BY <2>6, <2>3, <2>8, ReplaceChildGood
    <3> HIDE DEF t
    <3>2. Good(y)
      BY <2>1, <3>1, SymlinkInGood
    <3> QED BY <2>8, <3>1, <3>2 DEF Then
  <2> QED BY <1>2, <2>4, <2>5, <2>7, <2>8
<1> HIDE DEF v, p, c, u, t, y
<1> QED BY <1>1, <1>2 DEF createSymlink, Then, v, p, c, u, t, y

-----------------------------------------------------------------------------
(* RENAME.                                                                 *)

\* A node with a child is not deletable.
LEMMA ParentNotDeletable ==
  ASSUME NEW w, Good(w), NEW a \in DOMAIN w.node, NEW p, w.node[a].parent = p, p # NoNode
  PROVE  p \in DOMAIN w.node /\ ~isDeletable(w, p)
<1>1. p \in DOMAIN w.node /\ w.node[p].kids[w.node[a].name] = a /\ w.node[a].name \in Name /\ a # NoNode
  BY TreeAssumption DEF Good, Heap, NodeType, ParentKnowsChild
<1> QED BY <1>1, Childless

\* The overwritten target is freed; the source stays where it was.
LEMMA TargetFreed ==
  ASSUME NEW w, Good(w), NEW a \in DOMAIN w.node, NEW b \in DOMAIN w.node, a # b,
         NEW p \in DOMAIN w.node, w.node[a].parent = p,
         NEW q \in DOMAIN w.node, w.node[b].parent = q, isDeletable(w, b),
         NEW t, t = removeNode(deleteChild(w, q, b), b)
  PROVE  Good(t) /\ {a, p, q} \subseteq DOMAIN t.node /\ t.node[a].parent = p
<1> DEFINE u == deleteChild(w, q, b)
<1>1. Loosened(w, u, b) /\ \A x \in Name : u.node[b].kids[x] = NoNode
  BY DeleteChildGood
<1>2. t = removeNode(u, b)
  OBVIOUS
<1> HIDE DEF u
<1>3. Good(u) /\ DOMAIN u.node = DOMAIN w.node /\ Isolated(u, b) /\ u.node[a].parent = p
  BY <1>1 DEF Loosened, Isolated
<1>4. /\ Good(t) /\ DOMAIN u.node \ {b} \subseteq DOMAIN t.node
      /\ \A m \in DOMAIN u.node \ {b} : t.node[m] = u.node[m]
  BY <1>2, <1>3, RemoveNodeGood
<1>5. p # b /\ q # b
  <2>1. p # NoNode /\ q # NoNode
    BY TreeAssumption DEF Good, Heap
  <2> QED BY <2>1, ParentNotDeletable
<1> QED BY <1>3, <1>4, <1>5

\* The source is taken from its parent, named and added to the target's parent.
LEMMA MovedGood ==
  ASSUME NEW t, Good(t), NEW a \in DOMAIN t.node, NEW p \in DOMAIN t.node,
         NEW q \in DOMAIN t.node, t.node[a].parent = p, NEW x \in Name,
         NEW s, s = addChild(setName(removeChild(t, p, a), a, x), q, a)
  PROVE  Kept(t, s)
<1> DEFINE r == removeChild(t, p, a)
           n == setName(r, a, x)
<1>1. Loosened(t, r, a)
  BY RemoveChildGood
<1>2. Good(r) /\ DOMAIN r.node = DOMAIN t.node /\ (r.err = NoError => r.node[a].parent = NoNode)
  BY <1>1 DEF Loosened
<1>3. Good(n) /\ DOMAIN n.node = DOMAIN t.node
  <2> HIDE DEF r
  <2> QED BY <1>2, SetNameGood
<1>4. s = addChild(n, q, a)
  OBVIOUS
<1> HIDE DEF n
<1> QED BY <1>3, <1>4, AddChildGood DEF Kept

\* The move of a rename, on the disk and in the tree.
LEMMA MoveOverGood ==
  ASSUME NEW w, Good(w), NEW p \in DOMAIN w.node, NEW a \in DOMAIN w.node,
         w.node[a].parent = p, NEW q \in DOMAIN w.node, NEW b \in DOMAIN w.node \cup {NoNode},
         b # NoNode => w.node[b].parent = q /\ isDeletable(w, b), a # b, NEW x \in Name,
         NEW z, z = MoveOver(w, p, a, q, b, x)
  PROVE  Good(z)
<1> DEFINE v  == RenameOnDisk(w, a, q, x)
           u  == IF v.node[b].created THEN SetCreated(v, a) ELSE v
           dl == removeNode(deleteChild(u, q, b), b)
           t  == IF b = NoNode THEN v ELSE dl
           s  == addChild(setName(removeChild(t, p, a), a, x), q, a)
           cl == clearEmptyDir(s, p)
<1>1. SameTree(w, v) /\ Good(v) /\ DOMAIN v.node = DOMAIN w.node
  BY RenameOnDiskSame, SameTreeGood
<1>2. SameTree(w, u) /\ Good(u) /\ DOMAIN u.node = DOMAIN w.node
  <2> HIDE DEF v
  <2>1. SameTree(v, SetCreated(v, a))
    BY <1>1, SetCreatedSame
  <2>2. SameTree(v, u)
    BY <1>1, <2>1, SameTreeRefl
  <2> HIDE DEF u
  <2> QED BY <1>1, <2>2, SameTreeTrans, SameTreeGood
<1> HIDE DEF u, v
<1>3. Good(t) /\ {a, p, q} \subseteq DOMAIN t.node /\ t.node[a].parent = p
  <2>1. CASE b = NoNode
    BY <1>1, <2>1 DEF SameTree
  <2>2. CASE b # NoNode
    <3>0. b \in DOMAIN w.node /\ w.node[b].parent = q /\ isDeletable(w, b)
      BY <2>2
    <3>1. /\ b \in DOMAIN u.node /\ u.node[b].parent = q /\ u.node[a].parent = p
          /\ isDeletable(u, b)
      <4>1. SameTree(w, u) /\ a \in DOMAIN w.node
        BY <1>2
      <4> HIDE DEF t
      <4> QED BY <3>0, <4>1, SameTreeNode
    <3>2. t = removeNode(deleteChild(u, q, b), b)
      BY <2>2
    <3> HIDE DEF t
    <3> QED BY <1>2, <3>1, <3>2, TargetFreed
  <2> QED BY <2>1, <2>2
<1> HIDE DEF t
<1>4. Good(s) /\ p \in DOMAIN s.node
  BY <1>3, MovedGood DEF Kept
<1> HIDE DEF s
<1>5. Good(cl)
  BY <1>4, ClearEmptyDirSame, SameTreeGood
<1>6. z = cl
  BY DEF MoveOver, Overwritten, s, t, u, v
<1> QED BY <1>5, <1>6

\* renameFile, once both directories are found.
LEMMA RenameInGood ==
  ASSUME NEW w, Good(w), NEW p \in DOMAIN w.node, NEW a \in DOMAIN w.node,
         w.node[a].parent = p, NEW q \in DOMAIN w.node, NEW req, req.name2 \in Name,
         NEW z, z = RenameIn(w, p, a, q, req)
  PROVE  Good(z)
<1> DEFINE b == w.node[q].kids[req.name2]
<1>1. CASE z = w
  BY <1>1
<1>2. CASE (b = NoNode \/ isDeletable(w, b)) /\ a # b /\ z = MoveOver(w, p, a, q, b, req.name2)
  <2>1. b \in DOMAIN w.node \cup {NoNode} /\ (b # NoNode => w.node[b].parent = q /\ isDeletable(w, b))
    <3>1. CASE b = NoNode
      BY <3>1
    <3>2. CASE b # NoNode
      <4>1. b \in DOMAIN w.node /\ w.node[b].parent = q
        BY <3>2, ChildAllocated
      <4> QED BY <1>2, <3>2, <4>1
    <3> QED BY <3>1, <3>2
  <2> HIDE DEF b
  <2> QED BY <1>2, <2>1, MoveOverGood
<1> QED BY <1>1, <1>2 DEF RenameIn

\* RENAME.
LEMMA RenameFileGood ==
  ASSUME NEW w, Good(w), NEW req, NEW res, res.time \in Int,
         NEW d \in DOMAIN w.node \cup {NoNode}, NEW f \in DOMAIN w.node \cup {NoNode},
         NEW z, z = renameFile(w, req, res, d, f)
  PROVE  Good(z)
<1> DEFINE a  == w.node[d].kids[req.name]
           q  == OrNew(w, f)
           t1 == Touch(w, d, res.time)
           t2 == Touch(t1, a, res.time)
           v  == VisitDir(t2, req.fh2, f, res.time)
           r  == RenameIn(v, d, a, q, req)
<1>1. CASE z = w
  BY <1>1
<1>2. CASE /\ req.fh2 \in Handle /\ req.name \in Name /\ req.name2 \in Name
           /\ d # NoNode /\ a # NoNode /\ z = Then(v, r)
  <2>1. /\ req.fh2 \in Handle /\ req.name2 \in Name /\ d \in DOMAIN w.node
        /\ a \in DOMAIN w.node /\ w.node[a].parent = d
    <3> HIDE DEF v, r
    <3> QED BY <1>2, ChildAllocated
  <2> HIDE DEF a
  <2>2. Extended(w, t1) /\ Kept(w, t1)
    BY <2>1, TouchKept DEF Alive
  <2>3. Good(t1) /\ a \in DOMAIN t1.node
    BY <2>1, <2>2 DEF Kept
  <2> HIDE DEF t1
  <2>4. Extended(t1, t2) /\ Kept(t1, t2)
    BY <2>3, TouchKept DEF Alive
  <2>5. Extended(w, t2) /\ Kept(w, t2)
    BY <2>2, <2>4, ExtendedTrans DEF Kept
  <2> HIDE DEF t2, q
  <2>6. q = OrNew(t2, f) /\ f \in DOMAIN t2.node \cup {NoNode} /\ Good(t2)
    BY <2>5 DEF Kept, NewNode, OrNew, q
  <2>7. Extended(t2, v) /\ (v.err = NoError => q \in DOMAIN v.node)
    BY <2>1, <2>6, VisitDirExtended
  <2>8. Extended(w, v)
    BY <2>5, <2>7, ExtendedTrans
  <2> HIDE DEF v
  <2>9. Good(v) /\ d \in DOMAIN v.node /\ a \in DOMAIN v.node /\ v.node[a].parent = d
    BY <2>1, <2>8 DEF Extended
  <2>10. CASE v.err # NoError
    BY <1>2, <2>9, <2>10 DEF Then
  <2>11. CASE v.err = NoError
    <3>1. z = r /\ q \in DOMAIN v.node
      BY <1>2, <2>7, <2>11 DEF Then
    <3> QED BY <2>1, <2>9, <3>1, RenameInGood
  <2> QED BY <2>10, <2>11
<1> HIDE DEF a, q, t1, t2, v, r
<1> QED BY <1>1, <1>2 DEF renameFile, a, q, t1, t2, v, r

-----------------------------------------------------------------------------
(* Garbage collection.                                                     *)

\* The children of garbage are garbage.
LEMMA GarbageClosed ==
  ASSUME NEW w, NEW time, NEW n \in Garbage(w, time)
  PROVE  n \in DOMAIN w.node /\ Kids(w, n) \subseteq Garbage(w, time)
BY DEF Garbage

\* A collection leaves no pointer to a node it frees.
LEMMA CollectedGood ==
  ASSUME NEW w, Good(w), NEW time
  PROVE  Good(Collected(w, time))
<1> DEFINE old == w.node
           G   == Garbage(w, time)
           kept(n) == [x \in Name |-> IF old[n].kids[x] \in G THEN NoNode ELSE old[n].kids[x]]
           new == [n \in DOMAIN old \ G |-> [old[n] EXCEPT !.kids = kept(n)]]
           v   == Collected(w, time)
<1> SUFFICES Good(v)
  OBVIOUS
<1>1. v.node = new /\ DOMAIN v = DOMAIN w /\ v.err = w.err
  BY DEF Collected, Good
<1>2. \A n \in DOMAIN old : \A x \in Name :
        n \in G /\ old[n].kids[x] # NoNode => old[n].kids[x] \in G
  BY GarbageClosed DEF Kids
<1>3. Heap(old)
  BY DEF Good
<1> HIDE DEF G
<1>4. \A n \in DOMAIN old \ G : /\ new[n] \in NodeType
                                /\ new[n].name = old[n].name /\ new[n].parent = old[n].parent
                                /\ \A x \in Name : new[n].kids[x] = IF old[n].kids[x] \in G THEN NoNode ELSE old[n].kids[x]
  <2> SUFFICES ASSUME NEW n \in DOMAIN old \ G
               PROVE  LET r == [old[n] EXCEPT !.kids = kept(n)]
                      IN  /\ r \in NodeType
                          /\ r.name = old[n].name /\ r.parent = old[n].parent
                          /\ \A x \in Name : r.kids[x] = IF old[n].kids[x] \in G THEN NoNode ELSE old[n].kids[x]
    OBVIOUS
  <2>1. old[n] \in NodeType
    BY <1>3 DEF Heap
  <2>2. kept(n) \in [Name -> Node \cup {NoNode}]
    BY <2>1 DEF NodeType
  <2>3. \A x \in Name : kept(n)[x] = IF old[n].kids[x] \in G THEN NoNode ELSE old[n].kids[x]
    OBVIOUS
  <2> HIDE DEF kept
  <2> QED BY <2>1, <2>2, <2>3 DEF NodeType
<1>5. DOMAIN new = DOMAIN old \ G /\ new \in [DOMAIN new -> NodeType]
  <2>1. DOMAIN new = DOMAIN old \ G
    OBVIOUS
  <2>2. new = [n \in DOMAIN new |-> new[n]]
    OBVIOUS
  <2> HIDE DEF new
  <2> QED BY <1>4, <2>1, <2>2
<1> HIDE DEF new
<1>6. ParentKnowsChild(new)
  BY <1>2, <1>3, <1>4, <1>5, TreeAssumption DEF Heap, NodeType, ParentKnowsChild
<1>7. ChildKnowsParent(new)
  BY <1>2, <1>3, <1>4, <1>5, TreeAssumption DEF Heap, NodeType, ChildKnowsParent
<1>8. Heap(new)
  <2>1. DOMAIN new \subseteq Node
    BY <1>3, <1>5 DEF Heap
  <2> QED BY <1>5, <1>6, <1>7, <2>1 DEF Heap
<1> HIDE DEF v
<1> QED BY <1>1, <1>8 DEF Good

\* Engine::gc.
LEMMA GcGood ==
  ASSUME NEW w, Good(w), NEW time, NEW v \in gc(w, time)
  PROVE  Good(v)
<1>1. \/ v = Collected(w, time)
      \/ v = [w EXCEPT !.err = "Wrong parameter"]
      \/ v = [w EXCEPT !.err = "Stack overflow"]
  BY DEF gc
<1>2. {"Wrong parameter", "Stack overflow"} \subseteq Error \ InternalError
  BY DEF Error, InternalError
<1> QED BY <1>1, <1>2, CollectedGood, ThrowGood

-----------------------------------------------------------------------------
(* The specification.                                                      *)

\* The inductive invariant: the world the replay left is good.
IInv == Good(World({}))

\* What io holds does not matter.
LEMMA WorldGood ==
  ASSUME IInv, NEW io
  PROVE  Good(World(io)) /\ World(io).node = node /\ World(io).err = err
BY DEF IInv, World, Good

\* A commit of a good world keeps the invariant.
LEMMA CommitGood ==
  ASSUME NEW w, Good(w), Commit(w)
  PROVE  IInv'
BY DEF Good, Commit, IInv, World

\* getNode finds an allocated node, or none.
LEMMA FoundNode ==
  ASSUME NEW h, NEW n \in Found(h)
  PROVE  n \in DOMAIN node \cup {NoNode}
BY DEF Found, getNode, World

\* Every frame keeps the invariant.
LEMMA ProcessGood ==
  ASSUME IInv, NEW x \in Exchange, NEW io, Process(x, io)
  PROVE  IInv'
<1> DEFINE w == World(io)
<1>1. /\ x.res.time \in Int /\ x.res.size \in Nat
      /\ x.req.offset \in Nat /\ x.req.count \in Nat
  BY EngineAssumption
<1>2. Good(w) /\ DOMAIN w.node = DOMAIN node
  BY WorldGood
<1> HIDE DEF w
<1>3. \A h : \A n \in Found(h) : n \in DOMAIN w.node \cup {NoNode}
  BY <1>2, FoundNode
<1>4. CASE ReplayLookup(x, io)
  <2>1. PICK d \in Found(x.req.fh), e \in Found(x.res.fh) : Commit(createLookup(w, x.req, x.res, d, e))
    BY <1>4 DEF ReplayLookup, w
  <2> QED BY <1>1, <1>2, <1>3, <2>1, CreateLookupGood, CommitGood
<1>5. CASE ReplayCreate(x, io)
  <2>1. PICK d \in Found(x.req.fh), e \in Found(x.res.fh) : Commit(createFile(w, x.req, x.res, d, e))
    BY <1>5 DEF ReplayCreate, w
  <2> QED BY <1>1, <1>2, <1>3, <2>1, CreateFileGood, CommitGood
<1>6. CASE ReplayRemove(x, io)
  <2>1. PICK d \in Found(x.req.fh) : Commit(removeFile(w, x.req, x.res, d))
    BY <1>6 DEF ReplayRemove, w
  <2> QED BY <1>1, <1>2, <1>3, <2>1, RemoveFileGood, CommitGood
<1>7. CASE ReplayWrite(x, io)
  <2>1. PICK d \in Found(x.req.fh) : Commit(writeFile(w, x.req, x.res, d))
    BY <1>7 DEF ReplayWrite, w
  <2> QED BY <1>1, <1>2, <1>3, <2>1, WriteFileGood, CommitGood
<1>8. CASE ReplayRename(x, io)
  <2>1. PICK d \in Found(x.req.fh), f \in Found(x.req.fh2) : Commit(renameFile(w, x.req, x.res, d, f))
    BY <1>8 DEF ReplayRename, w
  <2> QED BY <1>1, <1>2, <1>3, <2>1, RenameFileGood, CommitGood
<1>9. CASE ReplayLink(x, io)
  <2>1. PICK s \in Found(x.req.fh), f \in Found(x.req.fh2) : Commit(createLink(w, x.req, x.res, s, f))
    BY <1>9 DEF ReplayLink, w
  <2> QED BY <1>1, <1>2, <1>3, <2>1, CreateLinkGood, CommitGood
<1>10. CASE ReplaySymlink(x, io)
  <2>1. PICK d \in Found(x.req.fh) : Commit(createSymlink(w, x.req, x.res, d))
    BY <1>10 DEF ReplaySymlink, w
  <2> QED BY <1>1, <1>2, <1>3, <2>1, CreateSymlinkGood, CommitGood
<1>11. CASE ReplayGetAttr(x, io)
  <2>1. PICK d \in Found(x.req.fh) : Commit(getAttr(w, x.req, x.res, d))
    BY <1>11 DEF ReplayGetAttr, w
  <2> QED BY <1>1, <1>2, <1>3, <2>1, GetAttrGood, CommitGood
<1>12. CASE ReplaySetAttr(x, io)
  <2>1. PICK d \in Found(x.req.fh) : Commit(getAttr(w, x.req, x.res, d))
    BY <1>12 DEF ReplaySetAttr, setAttr, w
  <2> QED BY <1>1, <1>2, <1>3, <2>1, GetAttrGood, CommitGood
<1> QED BY <1>4, <1>5, <1>6, <1>7, <1>8, <1>9, <1>10, <1>11, <1>12 DEF Process

\* The inductive invariant holds in every reachable state.
THEOREM Inductive == Spec => []IInv
<1>1. Init => IInv
  BY DEF Init, IInv, World, Good, GoodErr, Heap, NoError, Error, InternalError,
         ParentKnowsChild, ChildKnowsParent
<1>2. IInv /\ [Next]_vars => IInv'
  <2> SUFFICES ASSUME IInv, [Next]_vars
               PROVE  IInv'
    OBVIOUS
  <2>1. CASE UNCHANGED vars
    BY <2>1 DEF vars, IInv, World
  <2>2. ASSUME NEW x \in Exchange, NEW io \in Faults, Process(x, io)
        PROVE  IInv'
    BY <2>2, ProcessGood
  <2>3. ASSUME NEW time \in GcTimes, Collect(time)
        PROVE  IInv'
    <3>1. PICK w \in gc(World({}), time) : Commit(w)
      BY <2>3 DEF Collect
    <3>2. Good(World({}))
      BY DEF IInv
    <3> QED BY <3>1, <3>2, GcGood, CommitGood
  <2> QED BY <2>1, <2>2, <2>3 DEF Next
<1> QED BY <1>1, <1>2, PTL DEF Spec

\* Every node stays well typed, and the exception, if any, is one the code throws.
THEOREM TypeCorrect == Spec => []TypeOK
<1>1. IInv => TypeOK
  BY DEF IInv, Good, GoodErr, Heap, World, TypeOK
<1> QED BY <1>1, Inductive, PTL

\* Parents and children always agree, and no pointer of the tree dangles.
THEOREM TreeStaysConsistent == Spec => []TreeConsistent
<1>1. IInv => TreeConsistent
  BY DEF IInv, Good, Heap, World, TreeConsistent
<1> QED BY <1>1, Inductive, PTL

\* Engine never deletes a node that has children, renames one that has a parent,
\* or removes one from a parent that does not have it.
THEOREM EngineUsesNodeWell == Spec => []NoInternalError
<1>1. IInv => NoInternalError
  BY DEF IInv, Good, GoodErr, World, NoInternalError
<1> QED BY <1>1, Inductive, PTL
=============================================================================
