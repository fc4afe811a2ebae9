---------------------------- MODULE ServedProofs -----------------------------
(***************************************************************************)
(* What the tree knows of the server whose trace is replayed: the types of *)
(* its files and the identity of its directories, whatever the capture     *)
(* lost, and its entries, when it lost nothing; and that nothing is thrown *)
(* then.                                                                   *)
(***************************************************************************)
EXTENDS ServedEngine, PlacementProofs

\* Fed with the trace of a server, the engine is Engine, so that what Engine's
\* theorems state holds there too.
THEOREM ServedImplements == LossySpec => Spec
<1>1. ServedInit => Init
  BY DEF ServedInit
<1>2. [LossyNext]_served => [Next]_vars
  BY DEF LossyNext, Frame, TwinRename, ColdRename, LostFrame, Collection, Replayed, Next,
         served, vars
<1> QED BY <1>1, <1>2, PTL DEF LossySpec, Spec

-----------------------------------------------------------------------------
(* The server.                                                             *)

\* Entries are in directories and stand for files the server had.
ServerOK ==
  /\ DOMAIN kind \subseteq Handle
  /\ DOMAIN entry \subseteq {h \in DOMAIN kind : kind[h] = "DIR"} \X Name
  /\ \A k \in DOMAIN entry : entry[k] \in DOMAIN kind

IsKind(K, h, t) == h \in DOMAIN K /\ K[h] = t

\* What an exchange says of the types of files is true in K.
Truthful(K, x) ==
  /\ x.res.op \in {"LOOKUP", "CREATE", "MKDIR"} =>
       IsKind(K, x.req.fh, "DIR") /\ IsKind(K, x.res.fh, x.res.ftype)
  /\ x.res.op = "SYMLINK" => IsKind(K, x.req.fh, "DIR") /\ IsKind(K, x.res.fh, "LNK")
  /\ x.res.op \in {"WRITE", "LINK"} => IsKind(K, x.req.fh, "REG")
  /\ x.res.op \in {"LINK", "RENAME"} => IsKind(K, x.req.fh2, "DIR")
  /\ x.res.op = "REMOVE" => IsKind(K, x.req.fh, "DIR")

\* Files keep their types.
Keeps(K, L) == DOMAIN K \subseteq DOMAIN L /\ \A h \in DOMAIN K : L[h] = K[h]

ServerStep(x) == ServerOK' /\ Keeps(kind, kind') /\ Truthful(kind', x)

\* Every exchange of the server.
LEMMA ServeLookupOK ==
  ASSUME ServerOK, NEW x, Server!ServeLookup(x)
  PROVE  ServerStep(x)
<1>1. /\ x.res.op = "LOOKUP" /\ IsKind(kind, x.req.fh, "DIR")
      /\ IsKind(kind, x.res.fh, x.res.ftype) /\ kind' = kind /\ entry' = entry
  BY DEF Server!ServeLookup, Server!Dir, ServerOK, IsKind
<1> QED BY <1>1 DEF ServerStep, ServerOK, Truthful, Keeps

LEMMA ServeReopenOK ==
  ASSUME ServerOK, NEW x, Server!ServeReopen(x)
  PROVE  ServerStep(x)
<1>1. /\ x.res.op = "CREATE" /\ IsKind(kind, x.req.fh, "DIR")
      /\ IsKind(kind, x.res.fh, x.res.ftype) /\ kind' = kind /\ entry' = entry
  BY DEF Server!ServeReopen, Server!Reopens, Server!Taken, Server!Dir, ServerOK, IsKind
<1> QED BY <1>1 DEF ServerStep, ServerOK, Truthful, Keeps

LEMMA ServeMakeOK ==
  ASSUME ServerOK, NEW x, Server!ServeMake(x)
  PROVE  ServerStep(x)
<1> DEFINE p == x.req.fh
           n == x.req.name
           h == x.res.fh
           t == x.res.ftype
<1>1. /\ \/ x.res.op \in {"CREATE", "MKDIR"}
         \/ x.res.op = "SYMLINK" /\ t = "LNK"
      /\ IsKind(kind, p, "DIR") /\ n \in Name /\ h \in Handle \ DOMAIN kind
      /\ kind' = [g \in DOMAIN kind \cup {h} |-> IF g = h THEN t ELSE kind[g]]
      /\ entry' = [k \in DOMAIN entry \cup {<<p, n>>} |-> IF k = <<p, n>> THEN h ELSE entry[k]]
  BY DEF Server!ServeMake, Server!Dir, Server!Put, Server!Grow, IsKind
<1> HIDE DEF p, n, h, t
<1>2. /\ Keeps(kind, kind') /\ IsKind(kind', p, "DIR") /\ IsKind(kind', h, t)
      /\ DOMAIN kind' = DOMAIN kind \cup {h}
  BY <1>1 DEF Keeps, IsKind
<1>3. ServerOK'
  <2>1. DOMAIN entry' = DOMAIN entry \cup {<<p, n>>}
    BY <1>1
  <2>2. \A k \in DOMAIN entry' : entry'[k] \in DOMAIN kind'
    BY <1>1, <1>2, <2>1 DEF ServerOK
  <2>3. <<p, n>> \in {g \in DOMAIN kind' : kind'[g] = "DIR"} \X Name
    BY <1>1, <1>2 DEF IsKind
  <2>4. {g \in DOMAIN kind : kind[g] = "DIR"} \subseteq {g \in DOMAIN kind' : kind'[g] = "DIR"}
    BY <1>2 DEF Keeps
  <2>5. DOMAIN entry' \subseteq {g \in DOMAIN kind' : kind'[g] = "DIR"} \X Name
    BY <2>1, <2>3, <2>4 DEF ServerOK
  <2> QED BY <1>1, <1>2, <2>2, <2>5 DEF ServerOK
<1> QED BY <1>1, <1>2, <1>3 DEF ServerStep, Truthful, p, h, t

LEMMA ServeRemoveOK ==
  ASSUME ServerOK, NEW x, Server!ServeRemove(x)
  PROVE  ServerStep(x)
<1> DEFINE j == <<x.req.fh, x.req.name>>
<1>1. /\ x.res.op = "REMOVE" /\ IsKind(kind, x.req.fh, "DIR") /\ kind' = kind
      /\ entry' = [k \in DOMAIN entry \ {j} |-> entry[k]]
  BY DEF Server!ServeRemove, Server!Dir, Server!Drop, IsKind
<1> HIDE DEF j
<1> QED BY <1>1 DEF ServerStep, ServerOK, Truthful, Keeps

LEMMA ServeRenameOK ==
  ASSUME ServerOK, NEW x, Server!ServeRename(x)
  PROVE  ServerStep(x)
<1> DEFINE from == <<x.req.fh, x.req.name>>
           to   == <<x.req.fh2, x.req.name2>>
<1>1. /\ x.res.op = "RENAME" /\ IsKind(kind, x.req.fh, "DIR") /\ IsKind(kind, x.req.fh2, "DIR")
      /\ kind' = kind /\ from \in DOMAIN entry /\ x.req.name2 \in Name
      /\ entry' = IF to \in DOMAIN entry /\ entry[to] = entry[from] THEN entry
                  ELSE [k \in (DOMAIN entry \ {from}) \cup {to} |->
                          IF k = to THEN entry[from] ELSE entry[k]]
  BY DEF Server!ServeRename, Server!Dir, IsKind
<1>2. to \in {h \in DOMAIN kind : kind[h] = "DIR"} \X Name
  BY <1>1 DEF IsKind
<1> HIDE DEF from, to
<1> QED BY <1>1, <1>2 DEF ServerStep, ServerOK, Truthful, Keeps

LEMMA ServeLinkOK ==
  ASSUME ServerOK, NEW x, Server!ServeLink(x)
  PROVE  ServerStep(x)
<1> DEFINE j == <<x.req.fh2, x.req.name>>
           h == x.req.fh
<1>1. /\ x.res.op = "LINK" /\ IsKind(kind, h, "REG") /\ IsKind(kind, x.req.fh2, "DIR")
      /\ kind' = kind /\ x.req.name \in Name
      /\ entry' = [k \in DOMAIN entry \cup {j} |-> IF k = j THEN h ELSE entry[k]]
  BY DEF Server!ServeLink, Server!Dir, Server!Put, IsKind
<1>2. j \in {g \in DOMAIN kind : kind[g] = "DIR"} \X Name /\ h \in DOMAIN kind
  BY <1>1 DEF IsKind
<1> HIDE DEF j
<1> QED BY <1>1, <1>2 DEF ServerStep, ServerOK, Truthful, Keeps

LEMMA ServeFileOK ==
  ASSUME ServerOK, NEW x, Server!ServeFile(x)
  PROVE  ServerStep(x)
<1>1. /\ x.res.op \in {"WRITE", "GETATTR"} /\ IsKind(kind, x.req.fh, "REG")
      /\ kind' = kind /\ entry' = entry
  BY DEF Server!ServeFile, IsKind
<1> QED BY <1>1 DEF ServerStep, ServerOK, Truthful, Keeps

LEMMA ServeOK ==
  ASSUME ServerOK, NEW x, Server!Serve(x)
  PROVE  ServerStep(x)
BY ServeLookupOK, ServeReopenOK, ServeMakeOK, ServeRemoveOK, ServeRenameOK, ServeLinkOK,
   ServeFileOK DEF Server!Serve

-----------------------------------------------------------------------------
(* Types, and the nodes of directories.                                    *)

\* A node of S is a directory exactly when its file is.
KindsOf(w, K, S) ==
  \A n \in S : w.node[n].fh \in DOMAIN K /\ w.node[n].dir = (K[w.node[n].fh] = "DIR")

\* A directory has one node at most.
OneEach(w, K) ==
  \A m, n \in DOMAIN w.node : w.node[m].fh = w.node[n].fh /\ K[w.node[m].fh] = "DIR" => m = n

Typed(w, K) == KindsOf(w, K, DOMAIN w.node) /\ OneEach(w, K)

\* No node has handle h.
Unknown(w, h) == \A m \in DOMAIN w.node : w.node[m].fh # h

\* This is so when the server grows,
LEMMA KeepsTyped ==
  ASSUME NEW w, NEW K, NEW L, Keeps(K, L), Typed(w, K)
  PROVE  Typed(w, L)
BY DEF Keeps, Typed, KindsOf, OneEach

\* when fewer nodes are left,
LEMMA PrunedTyped ==
  ASSUME NEW w, NEW v, NEW K, Typed(w, K), Pruned(w, v)
  PROVE  Typed(v, K)
BY DEF Typed, KindsOf, OneEach, Pruned, Stays

LEMMA FreedTyped ==
  ASSUME NEW w, NEW v, NEW c, NEW K, Typed(w, K), Freed(w, v, c)
  PROVE  Typed(v, K)
BY DEF Typed, KindsOf, OneEach, Freed, Stays

\* or as many,
LEMMA QuietTyped ==
  ASSUME NEW w, NEW v, NEW K, Typed(w, K), Quiet(w, v)
  PROVE  Typed(v, K)
BY DEF Typed, KindsOf, OneEach, Quiet, Stays

\* when a node moves,
LEMMA MovedTyped ==
  ASSUME NEW w, NEW v, NEW e, NEW p, NEW x, NEW K, Typed(w, K), Moved(w, v, e, p, x)
  PROVE  Typed(v, K)
BY DEF Typed, KindsOf, OneEach, Moved, OnlyOf, Stays

\* and when one is added, if it gets its file's type, and the file had none or is no
\* directory.
LEMMA AddedTyped ==
  ASSUME NEW w, NEW v, NEW n, NEW h, NEW x, NEW p, NEW b, NEW K, Typed(w, K),
         Added(w, v, n, h, x, p, b), h \in DOMAIN K, b = (K[h] = "DIR"),
         K[h] = "DIR" => Unknown(w, h)
  PROVE  Typed(v, K)
<1>1. KindsOf(v, K, DOMAIN v.node)
  BY DEF Typed, KindsOf, Added, Stays
<1>2. OneEach(v, K)
  BY DEF Typed, OneEach, Unknown, Added, Stays
<1> QED BY <1>1, <1>2 DEF Typed

\* A node that gets its file's type may not have had it before.
LEMMA RetypedTyped ==
  ASSUME NEW w, NEW v, NEW n, NEW b, NEW K,
         KindsOf(w, K, DOMAIN w.node \ {n}), OneEach(w, K),
         Retyped(w, v, n, b), w.node[n].fh \in DOMAIN K, b = (K[w.node[n].fh] = "DIR")
  PROVE  Typed(v, K)
<1>1. KindsOf(v, K, DOMAIN v.node)
  BY DEF KindsOf, Retyped, OnlyOf, Stays
<1>2. OneEach(v, K)
  BY DEF OneEach, Retyped, OnlyOf, Stays
<1> QED BY <1>1, <1>2 DEF Typed

LEMMA StillTyped ==
  ASSUME NEW w, NEW v, NEW n, NEW b, NEW K, Typed(w, K), Retyped(w, v, n, b),
         w.node[n].fh \in DOMAIN K, b = (K[w.node[n].fh] = "DIR")
  PROVE  Typed(v, K)
<1>1. KindsOf(w, K, DOMAIN w.node \ {n}) /\ OneEach(w, K)
  BY DEF Typed, KindsOf
<1> QED BY <1>1, RetypedTyped

\* A node may get the handle of a file that has no node or is no directory.
LEMMA RehandledTyped ==
  ASSUME NEW w, NEW v, NEW n, NEW h, NEW K, Typed(w, K), Rehandled(w, v, n, h),
         K[h] = "DIR" => Unknown(w, h)
  PROVE  KindsOf(v, K, DOMAIN v.node \ {n}) /\ OneEach(v, K)
<1>1. KindsOf(v, K, DOMAIN v.node \ {n})
  BY DEF Typed, KindsOf, Rehandled, OnlyOf, Stays
<1>2. OneEach(v, K)
  BY DEF Typed, OneEach, Unknown, Rehandled, OnlyOf, Stays
<1> QED BY <1>1, <1>2

\* A visit gives a directory a node.
LEMMA VisitedTyped ==
  ASSUME NEW w, Good(w), NEW v, NEW h, NEW d \in getNode(w, h), Visited(w, v, h, d),
         NEW K, Typed(w, K), IsKind(K, h, "DIR")
  PROVE  Typed(v, K)
<1>1. NoNode \notin DOMAIN w.node
  BY TreeAssumption DEF Good, Heap
<1>2. CASE d = NoNode
  <2> DEFINE b == TRUE
  <2>1. Added(w, v, NewNode(w), h, handleName[h], NoNode, b)
    BY <1>2 DEF Visited
  <2>2. Unknown(w, h) /\ b = (K[h] = "DIR") /\ h \in DOMAIN K
    BY <1>1, <1>2, NotFound DEF Unknown, IsKind
  <2> HIDE DEF b
  <2> QED BY <2>1, <2>2, AddedTyped
<1>3. CASE d # NoNode
  BY <1>3, QuietTyped DEF Visited
<1> QED BY <1>2, <1>3

\* What getNode found for another handle it still finds.
Meant(w, e, h) == IF e = NoNode THEN Unknown(w, h) ELSE e \in DOMAIN w.node /\ w.node[e].fh = h

LEMMA VisitedMeant ==
  ASSUME NEW w, Good(w), NEW u, NEW g, NEW d \in getNode(w, g), Visited(w, u, g, d),
         NEW h, h # g, NEW e \in getNode(w, h)
  PROVE  Meant(u, e, h)
<1>1. NoNode \notin DOMAIN w.node
  BY TreeAssumption DEF Good, Heap
<1>2. Meant(w, e, h)
  BY <1>1, NotFound DEF Meant, Unknown
<1>3. CASE d = NoNode
  BY <1>2, <1>3 DEF Visited, Added, Stays, Meant, Unknown
<1>4. CASE d # NoNode
  BY <1>2, <1>4 DEF Visited, Quiet, Stays, Meant, Unknown
<1> QED BY <1>3, <1>4

\* The entry gets the type of the response.
LEMMA EnteredTyped ==
  ASSUME NEW w, Good(w), NEW v, NEW p \in DOMAIN w.node, NEW e, NEW req, NEW res,
         req.name \in Name, Meant(w, e, res.fh), Entered(w, v, p, e, req, res),
         NEW K, Typed(w, K), IsKind(K, res.fh, res.ftype)
  PROVE  Typed(v, K)
<1> DEFINE c     == w.node[p].kids[req.name]
           isDir == res.ftype = "DIR"
           n     == IF Displaced(w, c, e, res) THEN e ELSE c
           h     == res.fh
<1>0. h \in DOMAIN K /\ isDir = (K[h] = "DIR")
  BY DEF IsKind
<1>1. CASE /\ c = NoNode /\ e = NoNode
           /\ Added(w, v, NewNode(w), h, req.name, p, isDir)
  <2>1. Unknown(w, h)
    BY <1>1 DEF Meant
  <2> HIDE DEF isDir, h
  <2> QED BY <1>0, <1>1, <2>1, AddedTyped
<1>2. CASE /\ c = NoNode /\ e # NoNode /\ ~isDir
           /\ Added(w, v, NewNode(w), w.node[e].fh, req.name, p, FALSE)
  <2> DEFINE f == FALSE
  <2>1. Added(w, v, NewNode(w), h, req.name, p, f) /\ f = (K[h] = "DIR") /\ K[h] # "DIR"
    BY <1>0, <1>2 DEF Meant
  <2> HIDE DEF f, h
  <2> QED BY <1>0, <2>1, AddedTyped
<1>3. ASSUME NEW u, e # NoNode, Moved(w, u, e, p, req.name), Retyped(u, v, e, isDir)
      PROVE  Typed(v, K)
  <2>1. Typed(u, K)
    BY <1>3, MovedTyped
  <2>2. u.node[e].fh = h
    BY <1>3 DEF Meant, Moved
  <2> HIDE DEF isDir, h
  <2> QED BY <1>0, <1>3, <2>1, <2>2, StillTyped
<1>4. ASSUME NEW u, c # NoNode, Settled(w, u, p, c, e, req, res), Retyped(u, v, n, isDir)
      PROVE  Typed(v, K)
  <2>1. CASE w.node[c].fh = h /\ Quiet(w, u)
    <3>1. c \in DOMAIN w.node
      BY <1>4, ChildAllocated
    <3>2. n = c /\ u.node[c].fh = h
      BY <2>1, <3>1 DEF Displaced, Quiet, Stays
    <3>3. Typed(u, K)
      BY <2>1, QuietTyped
    <3> HIDE DEF isDir, h, c, n
    <3> QED BY <1>0, <1>4, <3>2, <3>3, StillTyped
  <2>2. CASE /\ Displaced(w, c, e, res)
             /\ \E t : Moved(w, t, c, p, handleName[w.node[c].fh]) /\ Moved(t, u, e, p, req.name)
    <3>1. PICK t : Moved(w, t, c, p, handleName[w.node[c].fh]) /\ Moved(t, u, e, p, req.name)
      BY <2>2
    <3>2. n = e /\ e \in DOMAIN w.node /\ w.node[e].fh = h /\ w.node[c].fh # h
      BY <2>2 DEF Displaced, Meant
    <3>3. e # c
      BY <3>2
    <3> HIDE DEF c, n
    <3>4. Typed(u, K)
      BY <3>1, MovedTyped
    <3>5. u.node[e].fh = h
      BY <3>1, <3>2, <3>3 DEF Moved, OnlyOf, Stays
    <3> HIDE DEF isDir, h
    <3> QED BY <1>0, <1>4, <3>2, <3>4, <3>5, StillTyped
  <2>3. CASE /\ w.node[c].fh # h /\ ~Displaced(w, c, e, res)
             /\ Rehandled(w, u, c, h)
    <3>1. K[h] = "DIR" => Unknown(w, h)
      BY <1>0, <2>3 DEF Displaced, Meant
    <3>2. n = c /\ u.node[c].fh = h
      BY <2>3 DEF Rehandled
    <3> HIDE DEF isDir, h, c, n
    <3>3. KindsOf(u, K, DOMAIN u.node \ {c}) /\ OneEach(u, K)
      BY <2>3, <3>1, RehandledTyped
    <3> QED BY <1>0, <1>4, <3>2, <3>3, RetypedTyped
  <2> HIDE DEF c
  <2> QED BY <1>4, <2>1, <2>2, <2>3 DEF Settled
<1> HIDE DEF c, isDir, n
<1> QED BY <1>1, <1>2, <1>3, <1>4 DEF Entered, c, isDir, n

\* What is linked is no directory.
LEMMA LinkMadeTyped ==
  ASSUME NEW w, NEW v, NEW p, NEW h, NEW x, LinkMade(w, v, p, h, x),
         NEW K, Typed(w, K), h \in DOMAIN K, K[h] # "DIR"
  PROVE  Typed(v, K)
<1> DEFINE c == w.node[p].kids[x]
<1>1. CASE Quiet(w, v)
  BY <1>1, QuietTyped
<1>2. CASE NodeMade(w, v, p, h, x)
  <2> DEFINE f == FALSE
  <2>1. PICK t : /\ IF c = NoNode THEN Quiet(w, t) ELSE Freed(w, t, c)
                 /\ Added(t, v, NewNode(t), h, x, p, f)
    BY <1>2 DEF NodeMade
  <2>2. f = (K[h] = "DIR")
    OBVIOUS
  <2> HIDE DEF c, f
  <2>3. Typed(t, K)
    BY <2>1, QuietTyped, FreedTyped
  <2> QED BY <2>1, <2>2, <2>3, AddedTyped
<1> QED BY <1>1, <1>2 DEF LinkMade

\* Every frame whose answer is true.
LEMMA EffectTyped ==
  ASSUME NEW w, Good(w), NEW v, NEW x, Effect(w, v, x),
         NEW K, Typed(w, K), Truthful(K, x)
  PROVE  Typed(v, K)
<1>0. NoNode \notin DOMAIN w.node
  BY TreeAssumption DEF Good, Heap
<1>1. CASE v = w \/ Quiet(w, v)
  BY <1>1, QuietTyped
<1>2. ASSUME NEW d \in getNode(w, x.req.fh), NEW e \in getNode(w, x.res.fh),
             EntryMade(w, v, x.req, x.res, d, e), x.res.op \in {"LOOKUP", "CREATE", "MKDIR"}
      PROVE  Typed(v, K)
  <2>1. CASE NamesEntry(x.req, x.res)
    <3> DEFINE p == OrNew(w, d)
    <3>1. PICK u : /\ Good(u) /\ Visited(w, u, x.req.fh, d) /\ p \in DOMAIN u.node
                   /\ Entered(u, v, p, e, x.req, x.res)
      BY <1>2, <2>1 DEF EntryMade
    <3>2. IsKind(K, x.req.fh, "DIR") /\ IsKind(K, x.res.fh, x.res.ftype)
      BY <1>2 DEF Truthful
    <3>3. x.req.name \in Name /\ x.res.fh # x.req.fh
      BY <2>1 DEF NamesEntry
    <3> HIDE DEF p
    <3>4. Typed(u, K) /\ Meant(u, e, x.res.fh)
      BY <3>1, <3>2, <3>3, VisitedTyped, VisitedMeant
    <3> QED BY <3>1, <3>2, <3>3, <3>4, EnteredTyped
  <2> QED BY <1>1, <1>2, <2>1 DEF EntryMade
<1>3. ASSUME NEW d, Dropped(w, v, x.req, d)
      PROVE  Typed(v, K)
  BY <1>1, <1>3, FreedTyped DEF Dropped
<1>4. ASSUME NEW d \in getNode(w, x.req.fh), Known(w, v, x.req.fh, d), x.res.op = "WRITE"
      PROVE  Typed(v, K)
  <2>1. CASE d = NoNode
    <3> DEFINE b == FALSE
               h == x.req.fh
    <3>1. Added(w, v, NewNode(w), h, handleName[h], NoNode, b)
      BY <1>4, <2>1 DEF Known
    <3>2. Unknown(w, h)
      BY <1>0, <2>1, NotFound DEF Unknown
    <3>3. h \in DOMAIN K /\ b = (K[h] = "DIR")
      BY <1>4 DEF Truthful, IsKind
    <3> HIDE DEF b, h
    <3> QED BY <3>1, <3>2, <3>3, AddedTyped
  <2>2. CASE d # NoNode
    BY <1>4, <2>2, QuietTyped DEF Known
  <2> QED BY <2>1, <2>2
<1>5. ASSUME NEW d, NEW f \in getNode(w, x.req.fh2), MovedOver(w, v, x.req, d, f),
             x.res.op = "RENAME"
      PROVE  Typed(v, K)
  <2> DEFINE a == w.node[d].kids[x.req.name]
             q == OrNew(w, f)
  <2>1. CASE v = w
    BY <1>1, <2>1
  <2>2. CASE \E u : Visited(w, u, x.req.fh2, f) /\ RenamedIn(u, v, a, q, x.req.name2)
    <3>1. PICK u : Visited(w, u, x.req.fh2, f) /\ RenamedIn(u, v, a, q, x.req.name2)
      BY <2>2
    <3> DEFINE b == u.node[q].kids[x.req.name2]
    <3>2. Typed(u, K)
      BY <1>5, <3>1, VisitedTyped DEF Truthful
    <3> HIDE DEF a, q
    <3>3. CASE TakesPlace(u, v, a, q, b, x.req.name2)
      <4>1. PICK t : /\ IF b = NoNode THEN Quiet(u, t) ELSE Freed(u, t, b)
                     /\ Moved(t, v, a, q, x.req.name2)
        BY <3>3 DEF TakesPlace
      <4> HIDE DEF b
      <4> QED BY <3>2, <4>1, QuietTyped, FreedTyped, MovedTyped
    <3> QED BY <3>1, <3>2, <3>3 DEF RenamedIn
  <2> HIDE DEF a, q
  <2> QED BY <1>5, <2>1, <2>2 DEF MovedOver, a, q
<1>6. ASSUME NEW g, NEW d \in getNode(w, g), NEW u, NEW h, NEW y, Good(u), Visited(w, u, g, d),
             LinkMade(u, v, OrNew(w, d), h, y), IsKind(K, g, "DIR"), h \in DOMAIN K, K[h] # "DIR"
      PROVE  Typed(v, K)
  BY <1>6, VisitedTyped, LinkMadeTyped
<1>7. ASSUME NEW s \in getNode(w, x.req.fh), NEW f \in getNode(w, x.req.fh2),
             LinkEntered(w, v, x.req, s, f), x.res.op = "LINK"
      PROVE  Typed(v, K)
  <2>1. IsKind(K, x.req.fh, "REG") /\ IsKind(K, x.req.fh2, "DIR")
    BY <1>7 DEF Truthful
  <2>2. s # NoNode => w.node[s].fh = x.req.fh
    BY <1>0, NotFound
  <2> QED BY <1>1, <1>6, <1>7, <2>1, <2>2 DEF LinkEntered, IsKind
<1>8. ASSUME NEW d \in getNode(w, x.req.fh), SymlinkEntered(w, v, x.req, x.res, d),
             x.res.op = "SYMLINK"
      PROVE  Typed(v, K)
  <2>1. IsKind(K, x.req.fh, "DIR") /\ IsKind(K, x.res.fh, "LNK")
    BY <1>8 DEF Truthful
  <2> QED BY <1>1, <1>6, <1>8, <2>1 DEF SymlinkEntered, IsKind
<1> QED BY <1>1, <1>2, <1>3, <1>4, <1>5, <1>7, <1>8 DEF Effect

\* The inductive invariant of a replay whose trace may have lost frames: what the
\* server did has no influence on it but through the frames that were captured.
LossyInv == IInv /\ ServerOK /\ (err = NoError => Typed(World({}), kind))

\* A frame that is served and replayed, whatever is renamed.
LEMMA ReplayedTyped ==
  ASSUME LossyInv, err = NoError, NEW x \in Exchange, NEW io \in Faults,
         Server!Serve(x), Process(x, io), IInv'
  PROVE  LossyInv'
<1>1. ServerOK' /\ Keeps(kind, kind') /\ Truthful(kind', x)
  BY ServeOK DEF ServerStep, LossyInv
<1>2. ASSUME err' = NoError
      PROVE  Typed(World({})', kind')
  <2>1. PICK v : Commit(v) /\ Effect(World(io), v, x)
    BY <1>2, ProcessEffect DEF LossyInv
  <2>2. Good(World(io)) /\ World(io).node = node /\ World({}).node = node
    BY WorldGood DEF LossyInv
  <2>3. Typed(World(io), kind)
    BY <2>2 DEF LossyInv, Typed, KindsOf, OneEach
  <2>4. Typed(v, kind')
    BY <1>1, <2>1, <2>2, <2>3, KeepsTyped, EffectTyped
  <2>5. World({})'.node = v.node
    BY <2>1 DEF Commit, World
  <2> QED BY <2>4, <2>5 DEF Typed, KindsOf, OneEach
<1> QED BY <1>1, <1>2 DEF LossyInv

\* A frame that was lost.
LEMMA LostTyped ==
  ASSUME LossyInv, NEW x, Server!Serve(x), UNCHANGED vars
  PROVE  LossyInv'
<1>1. ServerOK' /\ Keeps(kind, kind')
  BY ServeOK DEF ServerStep, LossyInv
<1>2. World({})' = World({}) /\ err' = err
  BY DEF World, vars
<1>3. IInv'
  BY <1>2 DEF IInv, LossyInv
<1>4. err = NoError => Typed(World({}), kind')
  BY <1>1, KeepsTyped DEF LossyInv
<1> QED BY <1>1, <1>2, <1>3, <1>4 DEF LossyInv

\* A collection.
LEMMA CollectTyped ==
  ASSUME LossyInv, NEW time \in GcTimes, Collect(time), UNCHANGED server, IInv'
  PROVE  LossyInv'
<1>1. kind' = kind /\ entry' = entry
  BY DEF server
<1>2. ServerOK'
  BY <1>1 DEF ServerOK, LossyInv
<1>3. ASSUME err' = NoError
      PROVE  Typed(World({})', kind)
  <2>1. PICK v \in gc(World({}), time) : Commit(v)
    BY DEF Collect
  <2>2. Good(World({})) /\ World({}).err = err
    BY WorldGood DEF LossyInv
  <2>3. err = NoError /\ Pruned(World({}), v)
    BY <1>3, <2>1, <2>2, GcEffect DEF Commit
  <2>4. Typed(v, kind)
    BY <2>3, PrunedTyped DEF LossyInv
  <2>5. World({})'.node = v.node
    BY <2>1 DEF Commit, World
  <2> QED BY <2>4, <2>5 DEF Typed, KindsOf, OneEach
<1> QED BY <1>1, <1>2, <1>3 DEF LossyInv

THEOREM LossyInductive == LossySpec => []LossyInv
<1>1. ServedInit /\ IInv => LossyInv
  <2> SUFFICES ASSUME ServedInit, IInv
               PROVE  LossyInv
    OBVIOUS
  <2>1. kind = [h \in {root} |-> "DIR"] /\ entry = <<>> /\ node = <<>>
    BY DEF ServedInit, Server!Init, Init
  <2>2. ServerOK
    BY <2>1, RootAssumption DEF ServerOK
  <2>3. Typed(World({}), kind)
    BY <2>1 DEF Typed, KindsOf, OneEach, World
  <2> QED BY <2>2, <2>3 DEF LossyInv
<1>2. LossyInv /\ [LossyNext]_served /\ IInv' => LossyInv'
  <2> SUFFICES ASSUME LossyInv, [LossyNext]_served, IInv'
               PROVE  LossyInv'
    OBVIOUS
  <2>1. CASE UNCHANGED served
    <3>1. World({})' = World({}) /\ err' = err /\ kind' = kind /\ entry' = entry
      BY <2>1 DEF served, server, World
    <3>2. ServerOK'
      BY <3>1 DEF LossyInv, ServerOK
    <3> QED BY <3>1, <3>2 DEF LossyInv
  <2>2. CASE err = NoError /\ (Frame \/ TwinRename \/ ColdRename)
    BY <2>2, ReplayedTyped DEF Frame, TwinRename, ColdRename, Replayed
  <2>3. CASE LostFrame
    BY <2>3, LostTyped DEF LostFrame, vars
  <2>4. CASE Collection
    BY <2>4, CollectTyped DEF Collection
  <2> QED BY <2>1, <2>2, <2>3, <2>4 DEF LossyNext
<1> QED BY <1>1, <1>2, ServedImplements, Inductive, PTL DEF LossySpec

\* Whatever the capture lost, a node is a directory exactly when the server's file with
\* its handle is: the types that LOOKUP, CREATE and MKDIR bring are put right also
\* where a name has gone to another file.
THEOREM KindsStayKnown == LossySpec => []KindsKnown
<1>1. LossyInv => KindsKnown
  BY DEF LossyInv, Typed, KindsOf, KindsKnown, World
<1> QED BY <1>1, LossyInductive, PTL

\* Whatever the capture lost, no two nodes stand for one directory.
THEOREM DirectoriesStayUnique == LossySpec => []DirectoriesUnique
<1>1. LossyInv => DirectoriesUnique
  <2> SUFFICES ASSUME LossyInv, err = NoError, NEW m \in DOMAIN node, NEW n \in DOMAIN node,
                      node[m].fh = node[n].fh, node[m].dir
               PROVE  m = n
    BY DEF DirectoriesUnique
  <2>1. kind[node[m].fh] = "DIR"
    BY DEF LossyInv, Typed, KindsOf, World
  <2> QED BY <2>1 DEF LossyInv, Typed, OneEach, World
<1> QED BY <1>1, LossyInductive, PTL

-----------------------------------------------------------------------------
(* Entries.                                                                *)

Has(E, g, x, h) == <<g, x>> \in DOMAIN E /\ E[<<g, x>>] = h

\* Every child of a node is an entry of E for its handle.
Mirrors(w, E) ==
  \A n \in DOMAIN w.node :
    LET p == w.node[n].parent
    IN  p # NoNode => p \in DOMAIN w.node /\ Has(E, w.node[p].fh, w.node[n].name, w.node[n].fh)

Parents(w) ==
  \A n \in DOMAIN w.node : w.node[n].parent # NoNode => w.node[n].parent \in DOMAIN w.node

\* This is so when the server makes an entry,
LEMMA KeepsMirrors ==
  ASSUME NEW w, NEW E, NEW F, Keeps(E, F), Mirrors(w, E)
  PROVE  Mirrors(w, F)
BY DEF Keeps, Mirrors, Has

\* when fewer nodes are left,
LEMMA PrunedMirrors ==
  ASSUME NEW w, NEW v, NEW E, Mirrors(w, E), Pruned(w, v), Parents(v)
  PROVE  Mirrors(v, E)
BY DEF Mirrors, Parents, Pruned, Stays

LEMMA FreedMirrors ==
  ASSUME NEW w, NEW v, NEW c, NEW E, Mirrors(w, E), Freed(w, v, c), Parents(v)
  PROVE  Mirrors(v, E)
BY DEF Mirrors, Parents, Freed, Stays

\* or as many,
LEMMA QuietMirrors ==
  ASSUME NEW w, NEW v, NEW E, Mirrors(w, E), Quiet(w, v)
  PROVE  Mirrors(v, E)
BY DEF Mirrors, Quiet, Stays

LEMMA RetypedMirrors ==
  ASSUME NEW w, NEW v, NEW n, NEW b, NEW E, Mirrors(w, E), Retyped(w, v, n, b)
  PROVE  Mirrors(v, E)
BY DEF Mirrors, Retyped, OnlyOf, Stays

\* and when a node takes the place of an entry.
LEMMA MovedMirrors ==
  ASSUME NEW w, NEW v, NEW e \in DOMAIN w.node, NEW p \in DOMAIN w.node, NEW x, NEW E,
         Mirrors(w, E), Moved(w, v, e, p, x), Has(E, w.node[p].fh, x, w.node[e].fh)
  PROVE  Mirrors(v, E)
BY DEF Mirrors, Moved, OnlyOf, Stays

LEMMA AddedMirrors ==
  ASSUME NEW w, NEW v, NEW n, NEW h, NEW p, NEW x, NEW b, NEW E,
         p # NoNode => p \in DOMAIN w.node /\ Has(E, w.node[p].fh, x, h),
         Mirrors(w, E), Added(w, v, n, h, x, p, b)
  PROVE  Mirrors(v, E)
<1>1. n \notin DOMAIN w.node /\ DOMAIN v.node = DOMAIN w.node \cup {n}
  BY DEF Added
<1> SUFFICES ASSUME NEW m \in DOMAIN v.node, v.node[m].parent # NoNode
             PROVE  LET q == v.node[m].parent
                    IN  q \in DOMAIN v.node /\ Has(E, v.node[q].fh, v.node[m].name, v.node[m].fh)
  BY DEF Mirrors
<1>2. CASE m = n
  BY <1>1, <1>2 DEF Added, Stays
<1>3. CASE m # n
  BY <1>1, <1>3 DEF Added, Stays, Mirrors
<1> QED BY <1>2, <1>3

\* A visit attaches nothing.
LEMMA VisitedMirrors ==
  ASSUME NEW w, NEW v, NEW h, NEW d, Visited(w, v, h, d), NEW E, Mirrors(w, E)
  PROVE  Mirrors(v, E)
<1>1. CASE d = NoNode
  <2> DEFINE b == TRUE
             p == NoNode
  <2>1. Added(w, v, NewNode(w), h, handleName[h], p, b) /\ p = NoNode
    BY <1>1 DEF Visited
  <2> HIDE DEF b, p
  <2> QED BY <2>1, AddedMirrors
<1>2. CASE d # NoNode
  BY <1>2, QuietMirrors DEF Visited
<1> QED BY <1>1, <1>2

\* The entry of a response is attached; what had the name already was that file.
LEMMA EnteredMirrors ==
  ASSUME NEW w, Good(w), NEW v, NEW p \in DOMAIN w.node, NEW e, NEW req, NEW res,
         req.name \in Name, Meant(w, e, res.fh), Entered(w, v, p, e, req, res),
         NEW E, Mirrors(w, E), Has(E, w.node[p].fh, req.name, res.fh)
  PROVE  Mirrors(v, E)
<1> DEFINE c     == w.node[p].kids[req.name]
           isDir == res.ftype = "DIR"
           n     == IF Displaced(w, c, e, res) THEN e ELSE c
<1>0. p # NoNode
  BY TreeAssumption DEF Good, Heap
<1>1. CASE Added(w, v, NewNode(w), res.fh, req.name, p, isDir)
  <2> HIDE DEF isDir
  <2> QED BY <1>1, AddedMirrors
<1>2. CASE e # NoNode /\ Added(w, v, NewNode(w), w.node[e].fh, req.name, p, FALSE)
  <2> DEFINE f == FALSE
  <2>1. Added(w, v, NewNode(w), res.fh, req.name, p, f)
    BY <1>2 DEF Meant
  <2> HIDE DEF f
  <2> QED BY <2>1, AddedMirrors
<1>3. ASSUME NEW u, e # NoNode, Moved(w, u, e, p, req.name), Retyped(u, v, e, isDir)
      PROVE  Mirrors(v, E)
  <2>1. e \in DOMAIN w.node /\ w.node[e].fh = res.fh
    BY <1>3 DEF Meant
  <2>2. Mirrors(u, E)
    BY <1>3, <2>1, MovedMirrors
  <2> HIDE DEF isDir
  <2> QED BY <1>3, <2>2, RetypedMirrors
<1>4. ASSUME NEW u, c # NoNode, Settled(w, u, p, c, e, req, res), Retyped(u, v, n, isDir)
      PROVE  Mirrors(v, E)
  <2>0. c # NoNode
    BY <1>4
  <2>1. c \in DOMAIN w.node /\ w.node[c].parent = p /\ w.node[c].name = req.name
    BY <2>0, ChildAllocated
  <2> HIDE DEF c, n
  <2>2. w.node[c].fh = res.fh
    BY <1>0, <2>1 DEF Mirrors, Has
  <2>3. Mirrors(u, E)
    BY <1>4, <2>2, QuietMirrors DEF Settled, Displaced
  <2> HIDE DEF isDir
  <2> QED BY <1>4, <2>3, RetypedMirrors
<1> HIDE DEF c, isDir, n
<1> QED BY <1>1, <1>2, <1>3, <1>4 DEF Entered, c, isDir, n

LEMMA LinkMadeMirrors ==
  ASSUME NEW w, NEW v, NEW p \in DOMAIN w.node, NEW h, NEW x, LinkMade(w, v, p, h, x),
         NEW E, Mirrors(w, E), Has(E, w.node[p].fh, x, h)
  PROVE  Mirrors(v, E)
<1> DEFINE c == w.node[p].kids[x]
<1>1. CASE Quiet(w, v)
  BY <1>1, QuietMirrors
<1>2. CASE NodeMade(w, v, p, h, x)
  <2> DEFINE f == FALSE
  <2>1. PICK t : /\ Good(t) /\ IF c = NoNode THEN Quiet(w, t) ELSE Freed(w, t, c)
                 /\ p \in DOMAIN t.node
                 /\ Added(t, v, NewNode(t), h, x, p, f)
    BY <1>2 DEF NodeMade
  <2> HIDE DEF c, f
  <2>2. Parents(t)
    BY <2>1 DEF Good, Heap, ParentKnowsChild, Parents
  <2>3. Mirrors(t, E) /\ t.node[p].fh = w.node[p].fh
    BY <2>1, <2>2, QuietMirrors, FreedMirrors DEF Quiet, Freed, Stays
  <2> QED BY <2>1, <2>3, AddedMirrors
<1> QED BY <1>1, <1>2 DEF LinkMade

\* What an exchange says of the entries is true in E.
Told(E, x) ==
  /\ x.res.op \in {"LOOKUP", "CREATE", "MKDIR", "SYMLINK"} =>
       Has(E, x.req.fh, x.req.name, x.res.fh)
  /\ x.res.op = "LINK" => Has(E, x.req.fh2, x.req.name, x.req.fh)

\* Every frame that takes no entry away.
LEMMA EffectMirrors ==
  ASSUME NEW w, Good(w), NEW v, NEW x, Effect(w, v, x),
         x.res.op \notin {"REMOVE", "RMDIR", "RENAME"},
         NEW E, Mirrors(w, E), Told(E, x)
  PROVE  Mirrors(v, E)
<1>0. NoNode \notin DOMAIN w.node
  BY TreeAssumption DEF Good, Heap
<1>1. CASE v = w \/ Quiet(w, v)
  BY <1>1, QuietMirrors
<1>2. ASSUME NEW d \in getNode(w, x.req.fh), NEW e \in getNode(w, x.res.fh),
             EntryMade(w, v, x.req, x.res, d, e), x.res.op \in {"LOOKUP", "CREATE", "MKDIR"}
      PROVE  Mirrors(v, E)
  <2>1. CASE NamesEntry(x.req, x.res)
    <3> DEFINE p == OrNew(w, d)
    <3>1. PICK u : /\ Good(u) /\ Visited(w, u, x.req.fh, d) /\ p \in DOMAIN u.node
                   /\ Entered(u, v, p, e, x.req, x.res)
      BY <1>2, <2>1 DEF EntryMade
    <3>2. x.req.name \in Name /\ x.res.fh # x.req.fh
      BY <2>1 DEF NamesEntry
    <3>3. Has(E, x.req.fh, x.req.name, x.res.fh)
      BY <1>2 DEF Told
    <3>4. u.node[p].fh = x.req.fh
      BY <3>1, VisitedHandle
    <3> HIDE DEF p
    <3>5. Mirrors(u, E) /\ Meant(u, e, x.res.fh)
      BY <3>1, <3>2, VisitedMirrors, VisitedMeant
    <3> QED BY <3>1, <3>2, <3>3, <3>4, <3>5, EnteredMirrors
  <2> QED BY <1>1, <1>2, <2>1 DEF EntryMade
<1>3. ASSUME NEW d, Known(w, v, x.req.fh, d)
      PROVE  Mirrors(v, E)
  <2>1. CASE d = NoNode
    <3> DEFINE b == FALSE
               p == NoNode
    <3>1. Added(w, v, NewNode(w), x.req.fh, handleName[x.req.fh], p, b) /\ p = NoNode
      BY <1>3, <2>1 DEF Known
    <3> HIDE DEF b, p
    <3> QED BY <3>1, AddedMirrors
  <2>2. CASE d # NoNode
    BY <1>3, <2>2, QuietMirrors DEF Known
  <2> QED BY <2>1, <2>2
<1>4. ASSUME NEW g, NEW d \in getNode(w, g), NEW u, NEW h, NEW y, Good(u), Visited(w, u, g, d),
             OrNew(w, d) \in DOMAIN u.node, LinkMade(u, v, OrNew(w, d), h, y), Has(E, g, y, h)
      PROVE  Mirrors(v, E)
  <2> DEFINE p == OrNew(w, d)
  <2>1. u.node[p].fh = g
    BY <1>4, VisitedHandle
  <2> HIDE DEF p
  <2> QED BY <1>4, <2>1, VisitedMirrors, LinkMadeMirrors DEF p
<1>5. ASSUME NEW s \in getNode(w, x.req.fh), NEW f \in getNode(w, x.req.fh2),
             LinkEntered(w, v, x.req, s, f), x.res.op = "LINK"
      PROVE  Mirrors(v, E)
  <2>1. Has(E, x.req.fh2, x.req.name, x.req.fh)
    BY <1>5 DEF Told
  <2>2. s # NoNode => w.node[s].fh = x.req.fh
    BY <1>0, NotFound
  <2> QED BY <1>1, <1>4, <1>5, <2>1, <2>2 DEF LinkEntered
<1>6. ASSUME NEW d \in getNode(w, x.req.fh), SymlinkEntered(w, v, x.req, x.res, d),
             x.res.op = "SYMLINK"
      PROVE  Mirrors(v, E)
  <2>1. Has(E, x.req.fh, x.req.name, x.res.fh)
    BY <1>6 DEF Told
  <2> QED BY <1>1, <1>4, <1>6, <2>1 DEF SymlinkEntered
<1> QED BY <1>1, <1>2, <1>3, <1>5, <1>6 DEF Effect

\* A node with children stands for a directory that is not empty.
LEMMA KidsEntries ==
  ASSUME NEW w, Good(w), NEW n \in DOMAIN w.node, ~isDeletable(w, n),
         NEW E, Mirrors(w, E)
  PROVE  \E x \in Name : <<w.node[n].fh, x>> \in DOMAIN E
<1>1. PICK x \in Name : w.node[n].kids[x] # NoNode
  BY DEF isDeletable, Kids
<1> DEFINE k == w.node[n].kids[x]
<1>2. k \in DOMAIN w.node /\ w.node[k].parent = n /\ w.node[k].name = x
  BY <1>1, ChildAllocated
<1>3. n # NoNode
  BY TreeAssumption DEF Good, Heap
<1> HIDE DEF k
<1>4. Has(E, w.node[n].fh, x, w.node[k].fh)
  BY <1>2, <1>3 DEF Mirrors
<1> QED BY <1>4 DEF Has

\* REMOVE: the node of the entry goes.  It has no children, as the server's file has no
\* entries.
LEMMA RemoveMirrors ==
  ASSUME ServerOK, NEW w, Good(w), Typed(w, kind), Mirrors(w, entry),
         NEW x, Server!ServeRemove(x),
         NEW d \in getNode(w, x.req.fh), NEW v, Dropped(w, v, x.req, d), Parents(v)
  PROVE  Mirrors(v, entry')
<1> DEFINE g == x.req.fh
           y == x.req.name
           j == <<g, y>>
           c == w.node[d].kids[y]
<1>1. /\ j \in DOMAIN entry /\ entry' = [k \in DOMAIN entry \ {j} |-> entry[k]]
      /\ IsKind(kind, g, "DIR")
      /\ kind[entry[j]] = "DIR" => \A k \in DOMAIN entry : k[1] # entry[j]
  BY DEF Server!ServeRemove, Server!Dir, Server!Drop, Server!Empty, IsKind
<1>2. g \in Handle /\ y \in Name
  BY <1>1 DEF ServerOK
<1>3. /\ \/ v = w
         \/ Freed(w, v, c)
      /\ d # NoNode /\ c # NoNode /\ isDeletable(w, c) => Freed(w, v, c)
  BY <1>2 DEF Dropped
<1>4. Mirrors(v, entry)
  <2> HIDE DEF c
  <2> QED BY <1>3, FreedMirrors
<1>5. ASSUME NEW m \in DOMAIN v.node, NEW p, p = v.node[m].parent, p # NoNode,
             <<v.node[p].fh, v.node[m].name>> = j
      PROVE  FALSE
  <2>1. p \in DOMAIN v.node
    BY <1>5 DEF Parents
  <2>2. /\ m \in DOMAIN w.node /\ p \in DOMAIN w.node
        /\ w.node[m].parent = p /\ w.node[p].fh = g /\ w.node[m].name = y
    <3> HIDE DEF c
    <3> QED BY <1>3, <1>5, <2>1 DEF Freed, Stays, j
  <2>3. NoNode \notin DOMAIN w.node
    BY TreeAssumption DEF Good, Heap
  <2>4. d = p
    <3>1. d # NoNode /\ d \in DOMAIN w.node /\ w.node[d].fh = g
      BY <2>2, <2>3, NotFound
    <3> QED BY <1>1, <2>2, <3>1 DEF Typed, OneEach, IsKind
  <2>5. c = m
    BY <2>2, <2>4, <1>5 DEF Good, Heap, ParentKnowsChild
  <2> HIDE DEF c
  <2>6. CASE isDeletable(w, m)
    BY <1>3, <1>5, <2>2, <2>3, <2>4, <2>5, <2>6 DEF Freed
  <2>7. CASE ~isDeletable(w, m)
    <3>1. entry[j] = w.node[m].fh
      BY <1>5, <2>2 DEF Mirrors, Has, j
    <3>2. PICK z \in Name : <<w.node[m].fh, z>> \in DOMAIN entry
      BY <2>2, <2>7, KidsEntries
    <3>3. kind[w.node[m].fh] = "DIR" /\ <<w.node[m].fh, z>>[1] = w.node[m].fh
      BY <3>2 DEF ServerOK
    <3> HIDE DEF j
    <3> QED BY <1>1, <3>1, <3>2, <3>3
  <2> QED BY <2>6, <2>7
<1>6. \A k \in DOMAIN entry : k # j => k \in DOMAIN entry' /\ entry'[k] = entry[k]
  <2> HIDE DEF j
  <2> QED BY <1>1
<1> HIDE DEF j
<1> QED BY <1>4, <1>5, <1>6 DEF Mirrors, Has

\* The source of a RENAME.
LEMMA SourceMirrors ==
  ASSUME NEW w, Good(w), NEW E, Mirrors(w, E), NEW g, NEW x \in Name, NEW d \in DOMAIN w.node,
         w.node[d].fh = g, NEW a, a = w.node[d].kids[x], a # NoNode
  PROVE  /\ a \in DOMAIN w.node /\ w.node[a].parent = d /\ w.node[a].name = x
         /\ Has(E, g, x, w.node[a].fh)
<1>1. a \in DOMAIN w.node /\ w.node[a].parent = d /\ w.node[a].name = x
  BY ChildAllocated
<1>2. d # NoNode
  BY TreeAssumption DEF Good, Heap
<1> QED BY <1>1, <1>2 DEF Mirrors

\* RENAME between two names of one file: the tree loses the old name only.
LEMMA TwinMirrors ==
  ASSUME NEW w, Good(w), NEW E, Mirrors(w, E), NEW req,
         NEW d \in getNode(w, req.fh), NEW f \in getNode(w, req.fh2),
         NEW v, MovedOver(w, v, req, d, f), NEW h,
         Has(E, req.fh, req.name, h), Has(E, req.fh2, req.name2, h)
  PROVE  Mirrors(v, E)
<1> DEFINE a == w.node[d].kids[req.name]
           q == OrNew(w, f)
           y == req.name2
<1>0. NoNode \notin DOMAIN w.node
  BY TreeAssumption DEF Good, Heap
<1>1. ASSUME d # NoNode, a # NoNode, req.name \in Name,
             NEW u, Good(u), Visited(w, u, req.fh2, f), q \in DOMAIN u.node, RenamedIn(u, v, a, q, y)
      PROVE  Mirrors(v, E)
  <2>1. d \in DOMAIN w.node /\ w.node[d].fh = req.fh
    BY <1>0, <1>1, NotFound
  <2>2. a \in DOMAIN w.node /\ Has(E, req.fh, req.name, w.node[a].fh)
    <3>1. req.name \in Name /\ a # NoNode /\ a = w.node[d].kids[req.name]
      BY <1>1
    <3> HIDE DEF a, q, y
    <3>2. a \in DOMAIN w.node /\ w.node[a].parent = d /\ w.node[a].name = req.name
      BY <2>1, <3>1, SMTT(20) DEF Good, Heap, ChildKnowsParent
    <3>3. Has(E, req.fh, req.name, w.node[a].fh)
      BY <1>0, <2>1, <3>2 DEF Mirrors
    <3> QED BY <3>2, <3>3
  <2>3. /\ u.node[q].fh = req.fh2 /\ a \in DOMAIN u.node /\ u.node[a].fh = h
    <3>1. /\ u.node[q].fh = req.fh2
          /\ \A m \in DOMAIN w.node : m \in DOMAIN u.node /\ Stays(w, u, m)
      <4> HIDE DEF a
      <4> QED BY <1>1, VisitedHandle
    <3> HIDE DEF q
    <3>2. w.node[a].fh = h
      BY <1>1, <2>2 DEF Has
    <3> HIDE DEF a
    <3> QED BY <2>2, <3>1, <3>2 DEF Stays
  <2> HIDE DEF a, q
  <2>4. Mirrors(u, E)
    BY <1>1, VisitedMirrors
  <2> DEFINE b == u.node[q].kids[y]
  <2>5. CASE v = u
    BY <2>4, <2>5
  <2>6. CASE TakesPlace(u, v, a, q, b, y)
    <3>1. PICK t : /\ Good(t) /\ IF b = NoNode THEN Quiet(u, t) ELSE Freed(u, t, b)
                   /\ a \in DOMAIN t.node /\ q \in DOMAIN t.node
                   /\ Moved(t, v, a, q, y)
      BY <2>6 DEF TakesPlace
    <3> HIDE DEF b
    <3>2. Parents(t)
      BY <3>1 DEF Good, Heap, ParentKnowsChild, Parents
    <3>3. Mirrors(t, E)
      BY <2>4, <3>1, <3>2, QuietMirrors, FreedMirrors
    <3>4. t.node[a].fh = h /\ t.node[q].fh = req.fh2
      BY <2>3, <3>1 DEF Quiet, Freed, Stays
    <3> QED BY <3>1, <3>3, <3>4, MovedMirrors
  <2> QED BY <1>1, <2>5, <2>6 DEF RenamedIn
<1> HIDE DEF a, q
<1> QED BY <1>1 DEF MovedOver, a, q

\* RENAME: the node of the old name takes the new one, and the node that had it goes.
LEMMA RenameMirrors ==
  ASSUME ServerOK, NEW w, Good(w), Typed(w, kind), Mirrors(w, entry),
         NEW x, Server!ServeRename(x),
         NEW d \in getNode(w, x.req.fh), NEW f \in getNode(w, x.req.fh2),
         NEW v, MovedOver(w, v, x.req, d, f), Parents(v),
         \E p \in DOMAIN w.node : w.node[p].fh = x.req.fh /\ w.node[p].kids[x.req.name] # NoNode,
         ~Has(entry, x.req.fh2, x.req.name2, entry[<<x.req.fh, x.req.name>>])
  PROVE  Mirrors(v, entry')
<1> DEFINE g    == x.req.fh
           h    == x.req.fh2
           n    == x.req.name
           y    == x.req.name2
           from == <<g, n>>
           to   == <<h, y>>
           a    == w.node[d].kids[n]
           q    == OrNew(w, f)
<1>0. NoNode \notin DOMAIN w.node
  BY TreeAssumption DEF Good, Heap
<1>1. /\ from \in DOMAIN entry /\ IsKind(kind, g, "DIR") /\ IsKind(kind, h, "DIR")
      /\ to \in DOMAIN entry => \A k \in DOMAIN entry : k[1] # entry[to]
      /\ n \in Name /\ y \in Name /\ g \in Handle /\ h \in Handle
  BY DEF Server!ServeRename, Server!Dir, Server!Empty, IsKind, ServerOK
<1>2. entry' = [k \in (DOMAIN entry \ {from}) \cup {to} |->
                  IF k = to THEN entry[from] ELSE entry[k]]
  BY DEF Server!ServeRename, Has
<1>3. from # to
  BY <1>1 DEF Has
<1>4. d \in DOMAIN w.node /\ w.node[d].fh = g /\ a # NoNode
  <2>1. PICK p \in DOMAIN w.node : w.node[p].fh = g /\ w.node[p].kids[n] # NoNode
    OBVIOUS
  <2>2. d \in DOMAIN w.node /\ w.node[d].fh = g
    BY <1>0, <2>1, NotFound
  <2>3. d = p
    BY <1>1, <2>1, <2>2 DEF Typed, OneEach, IsKind
  <2> QED BY <2>1, <2>2, <2>3
<1>5. /\ a \in DOMAIN w.node /\ w.node[a].parent = d /\ w.node[a].name = n
      /\ Has(entry, g, n, w.node[a].fh)
  <2>1. a = w.node[d].kids[n]
    OBVIOUS
  <2> HIDE DEF a, g, h, n, y
  <2>2. a \in DOMAIN w.node /\ w.node[a].parent = d /\ w.node[a].name = n
    BY <1>1, <1>4, <2>1 DEF Good, Heap, ChildKnowsParent
  <2>3. Has(entry, g, n, w.node[a].fh)
    BY <1>0, <1>4, <2>2 DEF Mirrors
  <2> QED BY <2>2, <2>3
<1>6. PICK u : /\ Good(u) /\ Visited(w, u, h, f) /\ q \in DOMAIN u.node
               /\ RenamedIn(u, v, a, q, y)
  BY <1>0, <1>1, <1>3, <1>4 DEF MovedOver
<1> HIDE DEF a, q
<1>7. /\ u.node[q].fh = h /\ a \in DOMAIN u.node /\ u.node[a].parent = d /\ u.node[a].name = n
      /\ entry[from] = u.node[a].fh /\ d \in DOMAIN u.node /\ u.node[d].fh = g
  BY <1>4, <1>5, <1>6, VisitedHandle DEF Has, Stays, q
<1>8. Mirrors(u, entry) /\ OneEach(u, kind)
  BY <1>1, <1>6, VisitedMirrors, VisitedTyped DEF Typed
<1>9. NoNode \notin DOMAIN u.node
  BY <1>6, TreeAssumption DEF Good, Heap
<1> DEFINE b == u.node[q].kids[y]
<1>10. b # NoNode => /\ b \in DOMAIN u.node /\ u.node[b].parent = q /\ u.node[b].name = y
                     /\ Has(entry, h, y, u.node[b].fh)
  BY <1>1, <1>6, <1>7, <1>8, SourceMirrors
<1> HIDE DEF b
<1>11. b = NoNode \/ isDeletable(u, b)
  <2> SUFFICES ASSUME b # NoNode, ~isDeletable(u, b)
               PROVE  FALSE
    OBVIOUS
  <2>1. PICK z \in Name : <<u.node[b].fh, z>> \in DOMAIN entry
    BY <1>6, <1>8, <1>10, KidsEntries
  <2>2. <<u.node[b].fh, z>>[1] = u.node[b].fh
    OBVIOUS
  <2> QED BY <1>1, <1>10, <2>1, <2>2 DEF Has
<1>12. a # b
  BY <1>3, <1>7, <1>9, <1>10
<1>13. PICK t : /\ IF b = NoNode THEN Quiet(u, t) ELSE Freed(u, t, b)
                /\ a \in DOMAIN t.node /\ q \in DOMAIN t.node /\ Moved(t, v, a, q, y)
  BY <1>6, <1>11, <1>12 DEF RenamedIn, TakesPlace, b
<1>14. /\ DOMAIN v.node = DOMAIN u.node \ {b}
       /\ \A m \in DOMAIN v.node : v.node[m].fh = u.node[m].fh
       /\ \A m \in DOMAIN v.node \ {a} : Stays(u, v, m)
       /\ v.node[a].parent = q /\ v.node[a].name = y
  BY <1>9, <1>13 DEF Quiet, Freed, Moved, OnlyOf, Stays
<1>15. /\ \A k \in DOMAIN entry : k # from /\ k # to => k \in DOMAIN entry' /\ entry'[k] = entry[k]
       /\ to \in DOMAIN entry' /\ entry'[to] = entry[from]
  <2> HIDE DEF from, to
  <2> QED BY <1>1, <1>2
<1> SUFFICES ASSUME NEW m \in DOMAIN v.node, NEW p, p = v.node[m].parent, p # NoNode
             PROVE  p \in DOMAIN v.node /\ Has(entry', v.node[p].fh, v.node[m].name, v.node[m].fh)
  BY DEF Mirrors
<1>16. p \in DOMAIN v.node
  BY DEF Parents
<1>17. CASE m = a
  <2>1. v.node[p].fh = h /\ v.node[m].name = y /\ v.node[m].fh = entry[from]
    BY <1>7, <1>14, <1>16, <1>17
  <2> QED BY <1>15, <1>16, <2>1 DEF Has
<1>18. CASE m # a
  <2>1. /\ m \in DOMAIN u.node /\ p \in DOMAIN u.node /\ u.node[m].parent = p
        /\ v.node[p].fh = u.node[p].fh /\ v.node[m].name = u.node[m].name
        /\ v.node[m].fh = u.node[m].fh /\ m # b
    BY <1>14, <1>16, <1>18 DEF Stays
  <2>2. Has(entry, u.node[p].fh, u.node[m].name, u.node[m].fh)
    BY <1>8, <2>1 DEF Mirrors
  <2>3. u.node[p].kids[u.node[m].name] = m
    BY <1>6, <2>1 DEF Good, Heap, ParentKnowsChild
  <2> DEFINE k == <<u.node[p].fh, u.node[m].name>>
  <2>4. k # from
    <3> SUFFICES ASSUME u.node[p].fh = g, u.node[m].name = n
                 PROVE  FALSE
      OBVIOUS
    <3>1. p = d
      BY <1>1, <1>7, <1>8, <2>1 DEF OneEach, IsKind
    <3>2. u.node[d].kids[n] = a
      BY <1>6, <1>7, <1>9 DEF Good, Heap, ParentKnowsChild
    <3> QED BY <1>18, <2>3, <3>1, <3>2
  <2>5. k # to
    <3> SUFFICES ASSUME u.node[p].fh = h, u.node[m].name = y
                 PROVE  FALSE
      OBVIOUS
    <3>1. p = q
      BY <1>1, <1>6, <1>7, <1>8, <2>1 DEF OneEach, IsKind
    <3> QED BY <2>1, <2>3, <3>1 DEF b
  <2>6. k \in DOMAIN entry /\ entry[k] = u.node[m].fh
    BY <2>2 DEF Has
  <2>7. k \in DOMAIN entry' /\ entry'[k] = u.node[m].fh
    <3> HIDE DEF k, from, to
    <3> QED BY <1>15, <2>4, <2>5, <2>6
  <2> QED BY <1>16, <2>1, <2>7 DEF Has
<1> QED BY <1>17, <1>18

\* What the server answers, but to REMOVE and RENAME, is an entry from then on, and takes
\* none away.
LEMMA ServeTold ==
  ASSUME ServerOK, NEW x, Server!Serve(x)
  PROVE  \/ x.res.op = "REMOVE" /\ Server!ServeRemove(x)
         \/ x.res.op = "RENAME" /\ Server!ServeRename(x)
         \/ /\ x.res.op \notin {"REMOVE", "RMDIR", "RENAME"}
            /\ Keeps(entry, entry') /\ Told(entry', x)
<1>1. CASE Server!ServeLookup(x)
  BY <1>1 DEF Server!ServeLookup, Keeps, Told, Has
<1>2. CASE Server!ServeReopen(x)
  BY <1>2 DEF Server!ServeReopen, Server!Reopens, Server!Taken, Keeps, Told, Has
<1>3. CASE Server!ServeMake(x)
  <2> DEFINE j == <<x.req.fh, x.req.name>>
             h == x.res.fh
  <2>1. /\ x.res.op \in {"CREATE", "MKDIR", "SYMLINK"} /\ j \notin DOMAIN entry
        /\ entry' = [k \in DOMAIN entry \cup {j} |-> IF k = j THEN h ELSE entry[k]]
    BY <1>3 DEF Server!ServeMake, Server!Put, Server!Taken
  <2>2. Keeps(entry, entry') /\ j \in DOMAIN entry' /\ entry'[j] = h
    <3> HIDE DEF j, h
    <3> QED BY <2>1 DEF Keeps
  <2> QED BY <2>1, <2>2 DEF Told, Has
<1>4. CASE Server!ServeRemove(x)
  BY <1>4 DEF Server!ServeRemove
<1>5. CASE Server!ServeRename(x)
  BY <1>5 DEF Server!ServeRename
<1>6. CASE Server!ServeLink(x)
  <2> DEFINE j == <<x.req.fh2, x.req.name>>
             h == x.req.fh
  <2>1. /\ x.res.op = "LINK" /\ j \notin DOMAIN entry
        /\ entry' = [k \in DOMAIN entry \cup {j} |-> IF k = j THEN h ELSE entry[k]]
    BY <1>6 DEF Server!ServeLink, Server!Put, Server!Taken
  <2>2. Keeps(entry, entry') /\ j \in DOMAIN entry' /\ entry'[j] = h
    <3> HIDE DEF j, h
    <3> QED BY <2>1 DEF Keeps
  <2> QED BY <2>1, <2>2 DEF Told, Has
<1>7. CASE Server!ServeFile(x)
  BY <1>7 DEF Server!ServeFile, Keeps, Told
<1> QED BY <1>1, <1>2, <1>3, <1>4, <1>5, <1>6, <1>7 DEF Server!Serve

\* The inductive invariant of a replay that has missed nothing.
ServedInv == LossyInv /\ (err = NoError => Mirrors(World({}), entry))

\* A frame that is served and replayed, unless it renames what the tree does not know.
LEMMA ReplayedMirrors ==
  ASSUME ServedInv, err = NoError, NEW x \in Exchange, NEW io \in Faults,
         Server!Serve(x), Process(x, io), Twins(x) \/ ~Cold(x), IInv', err' = NoError
  PROVE  Mirrors(World({})', entry')
<1> DEFINE w == World(io)
<1>1. PICK v : Commit(v) /\ Effect(w, v, x)
  BY ProcessEffect DEF ServedInv, LossyInv
<1>2. Good(w) /\ w.node = node /\ World({}).node = node
  BY WorldGood DEF ServedInv, LossyInv
<1>3. ServerOK /\ Typed(w, kind) /\ Mirrors(w, entry)
  BY <1>2 DEF ServedInv, LossyInv, Typed, KindsOf, OneEach, Mirrors
<1>4. World({})'.node = v.node
  BY <1>1 DEF Commit, World
<1>5. Parents(v)
  BY <1>4 DEF IInv, Good, Heap, ParentKnowsChild, Parents
<1> HIDE DEF w
<1>6. CASE x.res.op = "REMOVE" /\ Server!ServeRemove(x)
  <2>1. PICK d \in getNode(w, x.req.fh) : Dropped(w, v, x.req, d)
    BY <1>1, <1>6 DEF Effect
  <2>2. Mirrors(v, entry')
    BY <1>2, <1>3, <1>5, <1>6, <2>1, RemoveMirrors
  <2> QED BY <1>4, <2>2 DEF Mirrors
<1>7. CASE x.res.op = "RENAME" /\ Server!ServeRename(x)
  <2> DEFINE from == <<x.req.fh, x.req.name>>
  <2>1. PICK d \in getNode(w, x.req.fh), f \in getNode(w, x.req.fh2) : MovedOver(w, v, x.req, d, f)
    BY <1>1, <1>7 DEF Effect
  <2>2. from \in DOMAIN entry
    BY <1>7 DEF Server!ServeRename
  <2>3. CASE Twins(x)
    <3>1. /\ Has(entry, x.req.fh, x.req.name, entry[from])
          /\ Has(entry, x.req.fh2, x.req.name2, entry[from])
      BY <2>2, <2>3 DEF Twins, Has, Server!Taken
    <3>2. entry' = entry
      BY <1>7, <2>3 DEF Twins, Server!Taken, Server!ServeRename
    <3> HIDE DEF from
    <3>3. Mirrors(v, entry')
      BY <1>2, <1>3, <2>1, <3>1, <3>2, TwinMirrors
    <3> QED BY <1>4, <3>3 DEF Mirrors
  <2>4. CASE ~Twins(x)
    <3>1. ~Has(entry, x.req.fh2, x.req.name2, entry[from])
      BY <1>7, <2>4 DEF Twins, Has, Server!Taken
    <3>2. \E p \in DOMAIN w.node : w.node[p].fh = x.req.fh /\ w.node[p].kids[x.req.name] # NoNode
      BY <1>2, <1>7, <2>4 DEF Cold, Knows
    <3>3. Mirrors(v, entry')
      BY <1>2, <1>3, <1>5, <1>7, <2>1, <3>1, <3>2, RenameMirrors
    <3> QED BY <1>4, <3>3 DEF Mirrors
  <2> QED BY <2>3, <2>4
<1>8. CASE x.res.op \notin {"REMOVE", "RMDIR", "RENAME"} /\ Keeps(entry, entry') /\ Told(entry', x)
  <2>1. Mirrors(v, entry')
    BY <1>1, <1>2, <1>3, <1>8, KeepsMirrors, EffectMirrors
  <2> QED BY <1>4, <2>1 DEF Mirrors
<1> QED BY <1>3, <1>6, <1>7, <1>8, ServeTold

\* A collection.
LEMMA CollectMirrors ==
  ASSUME ServedInv, NEW time \in GcTimes, Collect(time), UNCHANGED server, IInv', err' = NoError
  PROVE  Mirrors(World({})', entry')
<1>1. PICK v \in gc(World({}), time) : Commit(v)
  BY DEF Collect
<1>2. Good(World({})) /\ World({}).err = err
  BY WorldGood DEF ServedInv, LossyInv
<1>3. err = NoError /\ Pruned(World({}), v)
  BY <1>1, <1>2, GcEffect DEF Commit
<1>4. World({})'.node = v.node
  BY <1>1 DEF Commit, World
<1>5. Parents(v)
  BY <1>4 DEF IInv, Good, Heap, ParentKnowsChild, Parents
<1>6. Mirrors(v, entry) /\ entry' = entry
  BY <1>3, <1>5, PrunedMirrors DEF ServedInv, server
<1> QED BY <1>4, <1>6 DEF Mirrors

\* A complete trace is one of those that may have lost frames, and one without a RENAME
\* between two names of one file is a complete one.
LEMMA ServedIsLossy == ServedSpec => LossySpec
<1>1. [ServedNext]_served => [LossyNext]_served
  BY DEF ServedNext, LossyNext
<1> QED BY <1>1, PTL DEF ServedSpec, LossySpec

LEMMA FollowedIsServed == FollowedSpec => ServedSpec
<1>1. [FollowedNext]_served => [ServedNext]_served
  BY DEF FollowedNext, ServedNext
<1> QED BY <1>1, PTL DEF FollowedSpec, ServedSpec

\* A replay that has missed nothing keeps it.
LEMMA ServedInductive == ServedSpec => []ServedInv
<1>1. ServedInit /\ LossyInv => ServedInv
  BY DEF ServedInit, Init, ServedInv, Mirrors, World
<1>2. ServedInv /\ [ServedNext]_served /\ LossyInv' => ServedInv'
  <2> SUFFICES ASSUME ServedInv, [ServedNext]_served, LossyInv', err' = NoError
               PROVE  Mirrors(World({})', entry')
    BY DEF ServedInv
  <2>0. IInv'
    BY DEF LossyInv
  <2>1. CASE UNCHANGED served
    <3>1. World({})' = World({}) /\ err' = err /\ entry' = entry
      BY <2>1 DEF served, server, World
    <3> QED BY <3>1 DEF ServedInv
  <2>2. CASE err = NoError /\ (Frame \/ TwinRename)
    BY <2>0, <2>2, ReplayedMirrors DEF Frame, TwinRename, Replayed
  <2>3. CASE Collection
    BY <2>0, <2>3, CollectMirrors DEF Collection
  <2> QED BY <2>1, <2>2, <2>3 DEF ServedNext
<1> QED BY <1>1, <1>2, ServedIsLossy, LossyInductive, PTL DEF ServedSpec

\* In a complete trace, if the replay knows what is renamed, the tree agrees with the
\* server in every entry it holds, whatever system calls fail on the disk.
THEOREM TreeMirrorsServer == ServedSpec => []Mirror
<1>1. ServedInv => Mirror
  BY DEF ServedInv, Mirrors, Has, Mirror, World, Server!Taken
<1> QED BY <1>1, ServedInductive, PTL

\* So it does when no RENAME is between two names of one file.
THEOREM TreeMirrorsFollowed == FollowedSpec => []Mirror
BY FollowedIsServed, TreeMirrorsServer, PTL

-----------------------------------------------------------------------------
(* Trees without cycles.                                                   *)

\* In every set of nodes there is one whose parent is none of them, nor another
\* node of a file one of them stands for.
Layered(nodes) ==
  \A S \in SUBSET DOMAIN nodes :
    S # {} => \E n \in S : \/ nodes[n].parent = NoNode
                           \/ \A m \in S : nodes[m].fh # nodes[nodes[n].parent].fh

\* A parent stands for another file.
LEMMA ParentOther ==
  ASSUME NEW w, Good(w), Layered(w.node), NEW n \in DOMAIN w.node, w.node[n].parent # NoNode
  PROVE  w.node[n].parent \in DOMAIN w.node /\ w.node[w.node[n].parent].fh # w.node[n].fh
<1>1. {n} \in SUBSET DOMAIN w.node /\ {n} # {}
  OBVIOUS
<1>2. w.node[w.node[n].parent].fh # w.node[n].fh
  BY <1>1 DEF Layered
<1> QED BY <1>2 DEF Good, Heap, ParentKnowsChild

\* No set of nodes holds the parents of all its nodes.
LEMMA NoCycle ==
  ASSUME NEW w, Good(w), Layered(w.node), NEW S \in SUBSET DOMAIN w.node, S # {},
         \A n \in S : w.node[n].parent \in S
  PROVE  FALSE
BY TreeAssumption DEF Layered, Good, Heap

\* The steps upwards have led to a node without parent, or each to one more node.
Climbed(w, s, k) == w.node[s[1]].parent = NoNode \/ Len(s) = k

LEMMA UpClimbs ==
  ASSUME NEW w, Good(w), NEW n, NEW s, IsChain(w, s, n), NEW k \in Nat, Climbed(w, s, k)
  PROVE  Climbed(w, Up(w, s), k + 1)
<1> DEFINE p == w.node[s[1]].parent
<1>1. CASE p = NoNode
  BY <1>1 DEF Up, Climbed
<1>2. CASE p # NoNode
  <2>1. s \in Seq(DOMAIN w.node) /\ Len(s) \in Nat /\ 1 \in 1 .. Len(s)
    BY DEF IsChain
  <2>2. p \in DOMAIN w.node
    BY <1>2, <2>1 DEF Good, Heap, ParentKnowsChild
  <2> HIDE DEF p
  <2>3. <<p>> \in Seq(DOMAIN w.node) /\ Len(<<p>>) = 1
    BY <2>2, Singleton
  <2>4. Len(<<p>> \o s) = 1 + Len(s)
    BY <2>1, <2>3, ConcatProperties
  <2>5. Len(s) = k
    BY <1>2 DEF Climbed, p
  <2>6. Up(w, s) = <<p>> \o s
    BY <1>2 DEF Up, p
  <2> QED BY <2>4, <2>5, <2>6 DEF Climbed
<1> QED BY <1>1, <1>2

LEMMA ChainClimbs ==
  ASSUME NEW w, Good(w), NEW n \in DOMAIN w.node
  PROVE  Climbed(w, Chain(w, n), Cardinality(DOMAIN w.node))
<1> DEFINE N == Cardinality(DOMAIN w.node)
           up == CHOOSE g : Climb(w, n, N, g)
<1>1. N \in Nat \ {0}
  <2>1. IsFiniteSet(DOMAIN w.node)
    BY TreeAssumption, FS_Subset DEF Good, Heap
  <2> QED BY <2>1, FS_CardinalityType, FS_EmptySet
<1>2. Chain(w, n) = up[N]
  BY DEF Chain, Climb
<1> HIDE DEF N
<1>3. Climb(w, n, N, up)
  BY <1>1, ClimbExists
<1> HIDE DEF up
<1>4. up[1] = <<n>> /\ \A k \in 2 .. N : up[k] = Up(w, up[k - 1])
  BY <1>1, <1>3 DEF Climb
<1> DEFINE Fine(k) == IsChain(w, up[k], n) /\ Climbed(w, up[k], k)
           T == {k \in 1 .. N : ~Fine(k)}
<1>5. T = {}
  <2> SUFFICES ASSUME T # {}
               PROVE  FALSE
    OBVIOUS
  <2>1. PICK m \in T : \A j \in T : ~(j < m)
    <3>1. T \subseteq Nat
      BY <1>1
    <3> HIDE DEF T
    <3> QED BY <3>1, Least
  <2>2. m \in 1 .. N /\ ~Fine(m)
    BY <2>1
  <2>3. CASE m = 1
    <3> DEFINE s == <<n>>
    <3>1. s \in Seq(DOMAIN w.node) /\ Len(s) = 1 /\ s[1] = n
      BY Singleton
    <3>2. up[1] = s
      BY <1>4
    <3> HIDE DEF s
    <3>3. IsChain(w, s, n) /\ Climbed(w, s, 1)
      BY <3>1 DEF IsChain, Climbed
    <3> QED BY <2>2, <2>3, <3>2, <3>3
  <2>4. CASE m # 1
    <3>1. m \in 2 .. N /\ m - 1 \in 1 .. N /\ m - 1 < m /\ m - 1 \in Nat /\ (m - 1) + 1 = m
      BY <1>1, <2>2, <2>4
    <3>2. Fine(m - 1)
      BY <2>1, <3>1
    <3>3. IsChain(w, up[m], n)
      BY <1>4, <3>1, <3>2, UpIsChain
    <3>4. Climbed(w, Up(w, up[m - 1]), (m - 1) + 1)
      BY <3>1, <3>2, UpClimbs
    <3> QED BY <1>4, <2>2, <3>1, <3>3, <3>4
  <2> QED BY <2>3, <2>4
<1>6. Fine(N)
  BY <1>1, <1>5
<1> QED BY <1>2, <1>6 DEF N

\* Every node has a path.
LEMMA AllRooted ==
  ASSUME NEW w, Good(w), Layered(w.node), NEW n \in DOMAIN w.node
  PROVE  Rooted(w, n)
<1> DEFINE s == Chain(w, n)
           N == Cardinality(DOMAIN w.node)
<1> SUFFICES ASSUME w.node[s[1]].parent # NoNode
             PROVE  FALSE
  BY DEF Rooted
<1>1. IsChain(w, s, n)
  BY ChainIsChain
<1>2. Len(s) = N
  BY ChainClimbs DEF Climbed
<1> HIDE DEF s
<1>3. /\ s \in [1 .. N -> DOMAIN w.node] /\ N \in Nat \ {0}
      /\ \A i \in 1 .. N - 1 : w.node[s[i + 1]].parent = s[i]
  <2>1. s \in Seq(DOMAIN w.node) /\ Len(s) \in Nat \ {0}
    BY <1>1 DEF IsChain
  <2>2. s \in [1 .. Len(s) -> DOMAIN w.node]
    BY <2>1
  <2> HIDE DEF N
  <2> QED BY <1>1, <1>2, <2>1, <2>2 DEF IsChain
<1>4. IsFiniteSet(DOMAIN w.node)
  BY TreeAssumption, FS_Subset DEF Good, Heap
<1>5. Cardinality(1 .. N) = N
  <2> HIDE DEF N
  <2> QED BY <1>3, FS_Interval
<1>6. ASSUME NEW i \in 1 .. N, NEW j \in 1 .. N, s[i] = s[j], i < j
      PROVE  FALSE
  <2> HIDE DEF N
  <2> DEFINE S == {s[k] : k \in i + 1 .. j}
  <2>1. s[j] \in S /\ S \subseteq DOMAIN w.node
    BY <1>3, <1>6
  <2>2. ASSUME NEW k \in i + 1 .. j
        PROVE  w.node[s[k]].parent \in S
    <3>1. k - 1 \in 1 .. N - 1 /\ (k - 1) + 1 = k
      BY <1>3
    <3>2. w.node[s[k]].parent = s[k - 1]
      BY <1>3, <3>1
    <3>3. CASE k - 1 = i
      BY <1>6, <2>1, <3>2, <3>3
    <3>4. CASE k - 1 # i
      <4>1. k - 1 \in i + 1 .. j
        BY <1>3, <3>4
      <4> QED BY <3>2, <4>1
    <3> QED BY <3>3, <3>4
  <2>3. \A m \in S : w.node[m].parent \in S
    BY <2>2
  <2> HIDE DEF S
  <2> QED BY <2>1, <2>3, NoCycle
<1>7. s \in Injection(1 .. N, DOMAIN w.node)
  <2> HIDE DEF N
  <2>1. \A i, j \in 1 .. N : s[i] = s[j] => i = j
    <3> TAKE i, j \in 1 .. N
    <3>1. i < j \/ i = j \/ j < i
      BY <1>3
    <3> QED BY <1>6, <3>1
  <2> QED BY <1>3, <2>1 DEF Injection, IsInjective
<1>8. s \in Surjection(1 .. N, DOMAIN w.node)
  BY <1>4, <1>5, <1>7, FS_Injection
<1> HIDE DEF N
<1>9. \A m \in DOMAIN w.node : \E i \in 1 .. N : s[i] = m
  BY <1>8 DEF Surjection
<1>10. ASSUME NEW m \in DOMAIN w.node
       PROVE  w.node[m].parent \in DOMAIN w.node
  <2>1. PICK i \in 1 .. N : s[i] = m
    BY <1>9
  <2>2. CASE i = 1
    <3>1. w.node[m].parent # NoNode
      BY <2>1, <2>2 DEF s
    <3> QED BY <3>1 DEF Good, Heap, ParentKnowsChild
  <2>3. CASE i # 1
    <3>1. i - 1 \in 1 .. N - 1 /\ i - 1 \in 1 .. N /\ (i - 1) + 1 = i
      BY <1>3, <2>3
    <3> QED BY <1>3, <2>1, <3>1
  <2> QED BY <2>2, <2>3
<1> QED BY <1>10, NoCycle

-----------------------------------------------------------------------------
(* What throws nothing in a tree without cycles.                           *)

\* Nothing was thrown but by the lack of memory, and there is no cycle.
Calm(w) ==
  /\ Good(w) /\ w.err \in {NoError, "Out of memory"}
  /\ w.err = NoError => Layered(w.node)

\* The tree is as it was, and nothing was thrown on the way.
Smooth(w, v) == SameTree(w, v) /\ v.err = w.err

LEMMA SmoothCalm ==
  ASSUME NEW w, Calm(w), NEW v, Smooth(w, v)
  PROVE  Calm(v) /\ DOMAIN v.node = DOMAIN w.node
<1>1. Good(v) /\ DOMAIN v.node = DOMAIN w.node
  BY SameTreeGood DEF Smooth, Calm
<1>2. ASSUME Layered(w.node)
      PROVE  Layered(v.node)
  <2> SUFFICES ASSUME NEW S \in SUBSET DOMAIN w.node, S # {}
               PROVE  \E n \in S : \/ v.node[n].parent = NoNode
                                   \/ \A m \in S : v.node[m].fh # v.node[v.node[n].parent].fh
    BY <1>1 DEF Layered
  <2>1. PICK n \in S : \/ w.node[n].parent = NoNode
                       \/ \A m \in S : w.node[m].fh # w.node[w.node[n].parent].fh
    BY <1>2 DEF Layered
  <2>2. \A m \in DOMAIN w.node : v.node[m].parent = w.node[m].parent /\ v.node[m].fh = w.node[m].fh
    BY DEF Smooth, SameTree
  <2>3. w.node[n].parent # NoNode => w.node[n].parent \in DOMAIN w.node
    BY DEF Calm, Good, Heap, ParentKnowsChild
  <2> QED BY <2>1, <2>2, <2>3
<1> QED BY <1>1, <1>2 DEF Calm, Smooth

LEMMA SmoothTrans ==
  ASSUME NEW w, NEW v, NEW u, Calm(w), Smooth(w, v), Smooth(v, u)
  PROVE  Smooth(w, u)
BY SmoothCalm, SameTreeTrans DEF Smooth

LEMMA SmoothRefl ==
  ASSUME NEW w, Calm(w)
  PROVE  Smooth(w, w)
BY SameTreeRefl DEF Smooth, Calm

LEMMA CalcPathSmooth ==
  ASSUME NEW w, Calm(w), NEW n \in DOMAIN w.node
  PROVE  calcPath(w, n) = w
<1>1. w.err = NoError => Rooted(w, n)
  BY AllRooted DEF Calm
<1> QED BY <1>1 DEF calcPath, Check, Then

LEMMA MakePathSmooth ==
  ASSUME NEW w, Calm(w), NEW n \in DOMAIN w.node
  PROVE  Smooth(w, makePath(w, n))
<1>1. calcPath(w, n) = w
  BY CalcPathSmooth
<1>2. w.err = NoError => Rooted(w, n)
  BY AllRooted DEF Calm
<1>3. MakeChain(w, n).err = w.err
  BY DEF MakeChain, MakeAlong, Marked, Calm, Good
<1>4. makePath(w, n) = w \/ makePath(w, n) = MakeChain(w, n)
  BY <1>1, <1>2 DEF makePath, Check, Then
<1>5. SameTree(w, makePath(w, n))
  BY MakePathSame DEF Calm
<1> QED BY <1>3, <1>4, <1>5 DEF Smooth

LEMMA MakeParentSmooth ==
  ASSUME NEW w, Calm(w), NEW n \in DOMAIN w.node
  PROVE  Smooth(w, MakeParent(w, n))
<1> DEFINE p == w.node[n].parent
<1>1. p # NoNode => p \in DOMAIN w.node
  BY DEF Calm, Good, Heap, ParentKnowsChild
<1>2. MakeParent(w, n) = w \/ (p # NoNode /\ MakeParent(w, n) = makePath(w, p))
  BY DEF MakeParent, Then
<1> HIDE DEF p
<1> QED BY <1>1, <1>2, MakePathSmooth, SmoothRefl

LEMMA ClearEmptyDirSmooth ==
  ASSUME NEW w, Calm(w), NEW n \in DOMAIN w.node
  PROVE  Smooth(w, clearEmptyDir(w, n))
<1> DEFINE s == Chain(w, n)
<1>1. s[Len(s)] = n
  BY ChainIsChain DEF IsChain, Calm
<1>2. w.err = NoError => Rooted(w, s[Len(s)])
  BY <1>1, AllRooted DEF Calm
<1>3. clearEmptyDir(w, n).err = w.err
  <2>1. \A N, d : Unmarked(w, N, d).err = w.err
    BY DEF Unmarked, Calm, Good
  <2>2. clearEmptyDir(w, n) = w \/ \E N, d : clearEmptyDir(w, n) = Unmarked(w, N, d)
    <3> HIDE DEF s
    <3> QED BY <1>2 DEF clearEmptyDir, ClearAlong, Check, Then, s
  <2> QED BY <2>1, <2>2
<1> QED BY <1>3, ClearEmptyDirSame DEF Smooth, Calm

LEMMA ClearParentSmooth ==
  ASSUME NEW w, Calm(w), NEW p \in DOMAIN w.node \cup {NoNode}
  PROVE  Smooth(w, ClearParent(w, p))
BY ClearEmptyDirSmooth, SmoothRefl DEF ClearParent

LEMMA UnlinkSmooth ==
  ASSUME NEW w, Calm(w), NEW n \in DOMAIN w.node
  PROVE  Smooth(w, Unlink(w, n))
<1>1. calcPath(w, n) = w
  BY CalcPathSmooth
<1>2. Unlink(w, n).err = w.err
  BY <1>1 DEF Unlink, Then, Calm, Good
<1> QED BY <1>2, UnlinkSame DEF Smooth, Calm

LEMMA RemoveOnDiskSmooth ==
  ASSUME NEW w, Calm(w), NEW n \in DOMAIN w.node
  PROVE  Smooth(w, RemoveOnDisk(w, n))
<1> DEFINE u == Unlink(w, n)
<1>1. Smooth(w, u)
  BY UnlinkSmooth
<1>2. DOMAIN u = {"node", "disk", "err", "io"}
  BY <1>1 DEF Smooth, SameTree
<1>3. [u EXCEPT !.node[n].created = FALSE].err = u.err
  BY <1>2
<1>4. RemoveOnDisk(w, n).err = u.err
  BY <1>3 DEF RemoveOnDisk, Then
<1> QED BY <1>1, <1>4, RemoveOnDiskSame DEF Smooth, Calm

LEMMA SetSizeSmooth ==
  ASSUME NEW w, Calm(w), NEW n \in DOMAIN w.node, NEW size \in Nat
  PROVE  Smooth(w, SetSize(w, n, size))
<1>1. SetSize(w, n, size).err = w.err
  BY DEF SetSize, Then, Calm, Good
<1> QED BY <1>1, SetSizeSame DEF Smooth, Calm

LEMMA TouchSmooth ==
  ASSUME NEW w, Calm(w), NEW n \in DOMAIN w.node, NEW time \in Int
  PROVE  Smooth(w, Touch(w, n, time))
<1>1. Touch(w, n, time).err = w.err
  BY DEF Touch, Then, Calm, Good
<1> QED BY <1>1, TouchSame DEF Smooth, Calm

LEMMA SetCreatedSmooth ==
  ASSUME NEW w, Calm(w), NEW n \in DOMAIN w.node
  PROVE  Smooth(w, SetCreated(w, n))
<1>1. SetCreated(w, n).err = w.err
  BY DEF SetCreated, Then, Calm, Good
<1> QED BY <1>1, SetCreatedSame DEF Smooth, Calm

LEMMA DiskSmooth ==
  ASSUME NEW w, Calm(w), NEW d
  PROVE  Smooth(w, [w EXCEPT !.disk = d])
<1>1. [w EXCEPT !.disk = d].err = w.err
  BY DEF Calm, Good
<1> QED BY <1>1, DiskSame DEF Smooth, Calm

LEMMA OpenNodeSmooth ==
  ASSUME NEW w, Calm(w), NEW n \in DOMAIN w.node, NEW trunc
  PROVE  Smooth(w, OpenNode(w, n, trunc))
<1>1. OpenNode(w, n, trunc).err = w.err
  BY DEF OpenNode, Calm, Good
<1> QED BY <1>1, OpenNodeSame DEF Smooth, Calm

LEMMA OpenToSizeSmooth ==
  ASSUME NEW w, Calm(w), NEW n \in DOMAIN w.node, NEW size, NEW trunc
  PROVE  Smooth(w, OpenToSize(w, n, size, trunc))
<1> DEFINE u == OpenNode(w, n, trunc)
<1>1. Smooth(w, u)
  BY OpenNodeSmooth
<1>2. Calm(u)
  BY <1>1, SmoothCalm
<1>3. Smooth(w, w)
  BY SmoothRefl
<1> HIDE DEF u
<1>4. Smooth(u, SetLength(u, PathOf(w, n), size))
  BY <1>2, DiskSmooth DEF SetLength
<1>5. Smooth(w, SetLength(u, PathOf(w, n), size))
  BY <1>1, <1>4, SmoothTrans
<1> QED BY <1>1, <1>3, <1>5 DEF OpenToSize, Then, u

LEMMA WriteToSizeSmooth ==
  ASSUME NEW w, Calm(w), NEW n \in DOMAIN w.node, NEW size \in Nat
  PROVE  Smooth(w, writeToSize(w, n, size))
<1> DEFINE curr == w.node[n].size
           u == MakeParent(w, n)
           t == SetSize(u, n, size)
           z == OpenToSize(t, n, size, size < curr)
<1>1. calcPath(w, n) = w
  BY CalcPathSmooth
<1>2. Smooth(w, u)
  BY MakeParentSmooth
<1>3. Calm(u) /\ n \in DOMAIN u.node
  BY <1>2, SmoothCalm
<1> HIDE DEF u
<1>4. Smooth(u, t)
  BY <1>3, SetSizeSmooth
<1>5. Calm(t) /\ n \in DOMAIN t.node
  BY <1>3, <1>4, SmoothCalm
<1> HIDE DEF t
<1>6. calcPath(t, n) = t
  BY <1>5, CalcPathSmooth
<1>7. Smooth(t, z)
  BY <1>5, OpenToSizeSmooth
<1>8. Smooth(w, z)
  BY <1>2, <1>3, <1>4, <1>7, SmoothTrans
<1>9. Smooth(w, SetLength(w, PathOf(w, n), size))
  BY DiskSmooth DEF SetLength
<1> HIDE DEF z
<1>10. \/ writeToSize(w, n, size) = w
       \/ writeToSize(w, n, size) = SetLength(w, PathOf(w, n), size)
       \/ writeToSize(w, n, size) = z
  BY <1>1, <1>6 DEF writeToSize, u, t, z
<1> QED BY <1>8, <1>9, <1>10, SmoothRefl

-----------------------------------------------------------------------------
(* Links that come and go.                                                 *)

\* The link from n to its parent is one of w.
OldLink(w, v, n) ==
  LET p == v.node[n].parent
  IN  /\ n \in DOMAIN w.node /\ w.node[n].parent = p /\ w.node[n].fh = v.node[n].fh
      /\ p \in DOMAIN w.node /\ w.node[p].fh = v.node[p].fh

\* v has no other links than w.
Shrunk(w, v) == \A n \in DOMAIN v.node : v.node[n].parent # NoNode => OldLink(w, v, n)

\* e has parent p in v, and there are no other new links.
Joined(w, v, e, p) ==
  /\ e \in DOMAIN v.node /\ p \in DOMAIN v.node /\ v.node[e].parent = p
  /\ \A n \in DOMAIN v.node \ {e} : v.node[n].parent # NoNode => OldLink(w, v, n)

\* No node of g is below one of h.
NotBelow(w, g, h) ==
  \E T : /\ h \in T /\ g \notin T
         /\ \A n \in DOMAIN w.node :
              w.node[n].parent # NoNode /\ w.node[w.node[n].parent].fh \in T => w.node[n].fh \in T

LEMMA ShrunkLayered ==
  ASSUME NEW w, NEW v, Layered(w.node), Shrunk(w, v)
  PROVE  Layered(v.node)
<1> SUFFICES ASSUME NEW S \in SUBSET DOMAIN v.node, S # {},
                    \A n \in S : /\ v.node[n].parent # NoNode
                                 /\ \E m \in S : v.node[m].fh = v.node[v.node[n].parent].fh
             PROVE  FALSE
  BY DEF Layered
<1>1. \A n \in S : OldLink(w, v, n)
  BY DEF Shrunk
<1>2. S \in SUBSET DOMAIN w.node
  BY <1>1 DEF OldLink
<1>3. PICK n \in S : \/ w.node[n].parent = NoNode
                     \/ \A m \in S : w.node[m].fh # w.node[w.node[n].parent].fh
  BY <1>2 DEF Layered
<1> QED BY <1>1, <1>3 DEF OldLink

LEMMA ShrunkNotBelow ==
  ASSUME NEW w, NEW v, NEW g, NEW h, NotBelow(w, g, h), Shrunk(w, v)
  PROVE  NotBelow(v, g, h)
BY DEF NotBelow, Shrunk, OldLink

\* A node may be linked to one that is not below it.
LEMMA JoinedLayered ==
  ASSUME NEW w, NEW v, NEW e, NEW p, Layered(w.node), Joined(w, v, e, p),
         NotBelow(w, v.node[p].fh, v.node[e].fh)
  PROVE  Layered(v.node)
<1> SUFFICES ASSUME NEW S \in SUBSET DOMAIN v.node, S # {},
                    \A n \in S : /\ v.node[n].parent # NoNode
                                 /\ \E m \in S : v.node[m].fh = v.node[v.node[n].parent].fh
             PROVE  FALSE
  BY DEF Layered
<1>1. \A n \in S \ {e} : OldLink(w, v, n)
  BY DEF Joined
<1>2. CASE e \notin S
  <2>1. S \in SUBSET DOMAIN w.node
    BY <1>1, <1>2 DEF OldLink
  <2>2. PICK n \in S : \/ w.node[n].parent = NoNode
                       \/ \A m \in S : w.node[m].fh # w.node[w.node[n].parent].fh
    BY <2>1 DEF Layered
  <2> QED BY <1>1, <1>2, <2>2 DEF OldLink
<1>3. CASE e \in S
  <2>1. PICK T : /\ v.node[e].fh \in T /\ v.node[p].fh \notin T
                 /\ \A n \in DOMAIN w.node :
                      w.node[n].parent # NoNode /\ w.node[w.node[n].parent].fh \in T =>
                        w.node[n].fh \in T
    BY DEF NotBelow
  <2> DEFINE R == {n \in S : v.node[n].fh \notin T}
  <2>2. R # {} /\ \A n \in R : n \in S \ {e}
    BY <1>3, <2>1 DEF Joined
  <2>3. R \in SUBSET DOMAIN w.node
    BY <1>1, <2>2 DEF OldLink
  <2>4. \A n \in R : v.node[n].fh \notin T
    OBVIOUS
  <2>5. \A m \in S : v.node[m].fh \notin T => m \in R
    OBVIOUS
  <2> HIDE DEF R
  <2>6. PICK n \in R : \/ w.node[n].parent = NoNode
                       \/ \A m \in R : w.node[m].fh # w.node[w.node[n].parent].fh
    BY <2>2, <2>3 DEF Layered
  <2>7. /\ n \in S /\ v.node[n].fh \notin T /\ OldLink(w, v, n)
        /\ v.node[n].parent # NoNode
    BY <1>1, <2>2, <2>4
  <2>8. v.node[v.node[n].parent].fh \notin T
    BY <2>1, <2>7 DEF OldLink
  <2>9. PICK m \in R : v.node[m].fh = v.node[v.node[n].parent].fh
    BY <2>5, <2>7, <2>8
  <2>10. w.node[m].fh = v.node[m].fh
    BY <1>1, <2>2 DEF OldLink
  <2> QED BY <2>6, <2>7, <2>9, <2>10 DEF OldLink
<1> QED BY <1>2, <1>3

\* What makes no link,
LEMMA QuietShrunk ==
  ASSUME NEW w, NEW v, Parents(w), Quiet(w, v)
  PROVE  Shrunk(w, v)
BY DEF Parents, Quiet, Stays, Shrunk, OldLink

LEMMA PrunedShrunk ==
  ASSUME NEW w, NEW v, Parents(v), Pruned(w, v)
  PROVE  Shrunk(w, v)
BY DEF Parents, Pruned, Stays, Shrunk, OldLink

LEMMA FreedShrunk ==
  ASSUME NEW w, NEW v, NEW c, Parents(v), Freed(w, v, c)
  PROVE  Shrunk(w, v)
BY DEF Parents, Freed, Stays, Shrunk, OldLink

LEMMA RetypedShrunk ==
  ASSUME NEW w, NEW v, NEW n, NEW b, Parents(w), Retyped(w, v, n, b)
  PROVE  Shrunk(w, v)
BY DEF Parents, Retyped, OnlyOf, Stays, Shrunk, OldLink

LEMMA DetachedShrunk ==
  ASSUME NEW w, NEW v, NEW e, NEW x, Parents(w), Moved(w, v, e, NoNode, x)
  PROVE  Shrunk(w, v)
BY DEF Parents, Moved, OnlyOf, Stays, Shrunk, OldLink

LEMMA RootShrunk ==
  ASSUME NEW w, NEW v, NEW n, NEW h, NEW x, NEW p, p = NoNode, NEW b, Parents(w),
         Added(w, v, n, h, x, p, b)
  PROVE  Shrunk(w, v)
BY DEF Parents, Added, Stays, Shrunk, OldLink

\* and what makes one.
LEMMA MovedJoined ==
  ASSUME NEW w, NEW v, NEW e \in DOMAIN w.node, NEW p \in DOMAIN w.node, NEW x, Parents(w),
         Moved(w, v, e, p, x)
  PROVE  Joined(w, v, e, p)
BY DEF Parents, Moved, OnlyOf, Stays, Joined, OldLink

LEMMA AddedJoined ==
  ASSUME NEW w, NEW v, NEW n, NEW h, NEW x, NEW p \in DOMAIN w.node, NEW b, Parents(w),
         Added(w, v, n, h, x, p, b)
  PROVE  Joined(w, v, n, p)
BY DEF Parents, Added, Stays, Joined, OldLink

LEMMA GoodParents ==
  ASSUME NEW w, Good(w)
  PROVE  Parents(w) /\ NoNode \notin DOMAIN w.node
BY TreeAssumption DEF Good, Heap, ParentKnowsChild, Parents

LEMMA SmoothShrunk ==
  ASSUME NEW w, Calm(w), NEW v, Smooth(w, v)
  PROVE  Shrunk(w, v)
<1>1. Good(w)
  BY DEF Calm
<1>2. Parents(w)
  BY <1>1, GoodParents
<1>3. Quiet(w, v)
  BY <1>1, SameTreeQuiet DEF Smooth
<1> QED BY <1>2, <1>3, QuietShrunk

LEMMA ShrunkCalm ==
  ASSUME NEW w, Calm(w), NEW v, Good(v), v.err \in {NoError, "Out of memory"},
         v.err = NoError => w.err = NoError /\ Shrunk(w, v)
  PROVE  Calm(v)
BY ShrunkLayered DEF Calm

LEMMA JoinedCalm ==
  ASSUME NEW w, Calm(w), NEW v, Good(v), v.err \in {NoError, "Out of memory"}, NEW e, NEW p,
         v.err = NoError => /\ w.err = NoError /\ Joined(w, v, e, p)
                            /\ NotBelow(w, v.node[p].fh, v.node[e].fh)
  PROVE  Calm(v)
BY JoinedLayered DEF Calm

-----------------------------------------------------------------------------
(* Operations of Node and FileHandleMap that throw nothing.                *)

LEMMA DetachedCalm ==
  ASSUME NEW w, Calm(w), NEW e \in DOMAIN w.node, NEW v, v = Detached(w, e)
  PROVE  Calm(v) /\ v.err = w.err /\ DOMAIN v.node = DOMAIN w.node
<1> DEFINE p == w.node[e].parent
<1>1. Good(w) /\ Parents(w)
  BY GoodParents DEF Calm
<1>2. Loosened(w, v, e)
  BY <1>1, DetachedGood
<1>3. v.err = w.err
  <2>1. CASE p = NoNode \/ w.err # NoError
    BY <2>1 DEF Detached, removeChild, Check, Then
  <2>2. CASE p # NoNode /\ w.err = NoError
    <3>1. p \in DOMAIN w.node /\ w.node[p].fh # w.node[e].fh /\ w.node[p].kids[w.node[e].name] = e
      BY <1>1, <2>2, ParentOther DEF Calm, Good, Heap, ParentKnowsChild
    <3>2. v = [w EXCEPT !.node[p].kids[w.node[e].name] = NoNode, !.node[e].parent = NoNode]
      BY <2>2, <3>1 DEF Detached, removeChild, Check, Then
    <3> HIDE DEF p
    <3> QED BY <1>1, <3>2 DEF Good
  <2> QED BY <2>1, <2>2
<1>4. v.err = NoError => w.err = NoError /\ Shrunk(w, v)
  BY <1>1, DetachedEffect, DetachedShrunk
<1> QED BY <1>2, <1>3, <1>4, ShrunkCalm DEF Loosened, Calm

\* addChild of a node without parent, under a name that is free.
LEMMA AddChildThrows ==
  ASSUME NEW w, Good(w), NEW p \in DOMAIN w.node, NEW c \in DOMAIN w.node,
         w.node[c].parent = NoNode, w.node[p].fh # w.node[c].fh,
         w.node[p].kids[w.node[c].name] = NoNode
  PROVE  addChild(w, p, c).err = w.err
<1>1. Detached(w, c) = w
  BY DEF Detached
<1>2. c # NoNode
  BY GoodParents
<1>3. [w EXCEPT !.node[p].kids[w.node[c].name] = c, !.node[c].parent = p].err = w.err
  BY DEF Good
<1> QED BY <1>1, <1>2, <1>3 DEF addChild, Check, Then

\* A name that was free stays so when a node is taken from its parent.
LEMMA StaysFree ==
  ASSUME NEW w, Good(w), NEW v, Good(v), NEW e \in DOMAIN w.node, NEW y,
         Moved(w, v, e, NoNode, y), NEW p \in DOMAIN w.node, NEW x \in Name,
         w.node[p].kids[x] = NoNode
  PROVE  v.node[p].kids[x] = NoNode
<1> DEFINE m == v.node[p].kids[x]
<1> SUFFICES ASSUME m # NoNode
             PROVE  FALSE
  OBVIOUS
<1>1. p \in DOMAIN v.node /\ DOMAIN v.node = DOMAIN w.node
  BY DEF Moved, OnlyOf
<1>2. m \in DOMAIN v.node /\ v.node[m].parent = p /\ v.node[m].name = x
  BY <1>1, ChildAllocated
<1>3. p # NoNode
  BY GoodParents
<1> HIDE DEF m
<1>4. w.node[m].parent = p /\ w.node[m].name = x
  BY <1>1, <1>2, <1>3 DEF Moved, OnlyOf, Stays
<1>5. w.node[p].kids[x] = m
  BY <1>1, <1>2, <1>3, <1>4 DEF Good, Heap, ParentKnowsChild
<1> QED BY <1>1, <1>2, <1>5, GoodParents

\* A node is taken from its parent, renamed and given to a node that is not below it.
LEMMA ReplacedCalm ==
  ASSUME NEW w, Calm(w), NEW e \in DOMAIN w.node, NEW p \in DOMAIN w.node, NEW x \in Name,
         w.node[p].kids[x] = NoNode, NotBelow(w, w.node[p].fh, w.node[e].fh),
         NEW v, v = addChild(setName(Detached(w, e), e, x), p, e)
  PROVE  Calm(v) /\ v.err = w.err /\ DOMAIN v.node = DOMAIN w.node
<1> DEFINE d == Detached(w, e)
           s == setName(d, e, x)
<1>1. Good(w) /\ Parents(w) /\ NoNode \notin DOMAIN w.node
  BY GoodParents DEF Calm
<1>2. Calm(d) /\ d.err = w.err /\ DOMAIN d.node = DOMAIN w.node
  BY DetachedCalm
<1>3. Loosened(w, d, e)
  BY <1>1, DetachedGood
<1>4. d.err = NoError => Moved(w, d, e, NoNode, w.node[e].name)
  BY <1>1, DetachedEffect
<1>5. v = addChild(s, p, e)
  OBVIOUS
<1> HIDE DEF d
<1>6. Good(s) /\ DOMAIN s.node = DOMAIN w.node
  <2>1. Good(d) /\ e \in DOMAIN d.node /\ (d.err = NoError => d.node[e].parent = NoNode)
    BY <1>2, <1>3 DEF Loosened
  <2> QED BY <1>2, <2>1, SetNameGood
<1>7. s.err = w.err
  <2>1. d.err # NoError => s = d
    BY DEF setName, Check, Then
  <2>2. d.err = NoError => s = [d EXCEPT !.node[e].name = x]
    BY <1>3 DEF setName, Check, Then, Loosened
  <2>3. [d EXCEPT !.node[e].name = x].err = d.err
    BY <1>2 DEF Calm, Good
  <2> QED BY <1>2, <2>1, <2>2, <2>3
<1>8. s.err = NoError => Moved(w, s, e, NoNode, x)
  <2> SUFFICES ASSUME s.err = NoError
               PROVE  Moved(w, s, e, NoNode, x)
    OBVIOUS
  <2>1. d.node[e].parent = NoNode /\ Good(d)
    BY <1>2, <1>3, <1>7 DEF Loosened, Calm
  <2>2. Moved(d, s, e, NoNode, x)
    BY <1>2, <2>1, SetNameEffect
  <2> QED BY <1>2, <1>4, <1>7, <2>2, MovedTrans
<1>9. v.err = w.err
  <2>1. CASE s.err # NoError
    BY <1>5, <1>7, <2>1 DEF addChild, Check, Then
  <2>2. CASE s.err = NoError
    <3>1. Moved(w, s, e, NoNode, x)
      BY <1>8, <2>2
    <3>2. w.node[p].fh # w.node[e].fh
      BY DEF NotBelow
    <3>3. s.node[e].parent = NoNode /\ s.node[e].name = x /\ s.node[p].fh # s.node[e].fh
      BY <3>1, <3>2 DEF Moved, OnlyOf, Stays
    <3>4. s.node[p].kids[x] = NoNode
      BY <1>1, <1>6, <3>1, StaysFree
    <3> HIDE DEF s
    <3> QED BY <1>5, <1>6, <1>7, <3>3, <3>4, AddChildThrows
  <2> QED BY <2>1, <2>2
<1>10. Good(v) /\ DOMAIN v.node = DOMAIN w.node
  BY <1>1, ReplacedKept DEF Kept
<1>11. ASSUME v.err = NoError
       PROVE  /\ w.err = NoError /\ Joined(w, v, e, p)
              /\ NotBelow(w, v.node[p].fh, v.node[e].fh)
  <2>1. w.err = NoError /\ Moved(w, v, e, p, x)
    BY <1>1, <1>11, ReplacedEffect
  <2>2. v.node[p].fh = w.node[p].fh /\ v.node[e].fh = w.node[e].fh
    BY <2>1 DEF Moved, OnlyOf, Stays
  <2> QED BY <1>1, <2>1, <2>2, MovedJoined
<1> QED BY <1>9, <1>10, <1>11, JoinedCalm DEF Calm

LEMMA RenameOnDiskSmooth ==
  ASSUME NEW w, Calm(w), NEW e \in DOMAIN w.node, NEW p \in DOMAIN w.node, NEW x \in Name
  PROVE  Smooth(w, RenameOnDisk(w, e, p, x))
<1> DEFINE u == makePath(w, p)
           from == PathOf(w, e)
           to == Append(PathOf(w, p), x)
           v == RenamePath(u, from, to)
<1>1. calcPath(w, e) = w
  BY CalcPathSmooth
<1>2. Smooth(w, u)
  BY MakePathSmooth
<1>3. Calm(u)
  BY <1>2, SmoothCalm
<1> HIDE DEF u, from, to
<1>4. v = u \/ \E d : v = [u EXCEPT !.disk = d]
  BY DEF RenamePath, Then
<1>5. Smooth(u, v)
  BY <1>3, <1>4, SmoothRefl, DiskSmooth
<1>6. Smooth(w, v)
  BY <1>2, <1>5, SmoothTrans
<1>7. RenameOnDisk(w, e, p, x) = w \/ RenameOnDisk(w, e, p, x) = v
  BY <1>1 DEF RenameOnDisk, u, from, to
<1> QED BY <1>6, <1>7, SmoothRefl

\* What is below what, and what is free, is not changed on the disk.
LEMMA SmoothKeeps ==
  ASSUME NEW w, Calm(w), NEW v, Smooth(w, v)
  PROVE  /\ \A n \in DOMAIN w.node : /\ v.node[n].fh = w.node[n].fh
                                     /\ v.node[n].name = w.node[n].name
                                     /\ v.node[n].parent = w.node[n].parent
                                     /\ v.node[n].dir = w.node[n].dir
                                     /\ v.node[n].kids = w.node[n].kids
         /\ \A g, h : NotBelow(w, g, h) => NotBelow(v, g, h)
BY SmoothShrunk, ShrunkNotBelow DEF Smooth, SameTree

LEMMA CreateMoveElementCalm ==
  ASSUME NEW w, Calm(w), NEW e \in DOMAIN w.node, NEW p \in DOMAIN w.node, NEW x \in Name,
         w.node[p].kids[x] = NoNode, NotBelow(w, w.node[p].fh, w.node[e].fh),
         NEW v, v = createMoveElement(w, e, p, x)
  PROVE  Calm(v) /\ v.err = w.err /\ DOMAIN v.node = DOMAIN w.node
<1> DEFINE u == RenameOnDisk(w, e, p, x)
           s == addChild(setName(Detached(u, e), e, x), p, e)
           q == w.node[e].parent
<1>1. Smooth(w, u)
  BY RenameOnDiskSmooth
<1>2. Calm(u) /\ DOMAIN u.node = DOMAIN w.node /\ u.err = w.err
  BY <1>1, SmoothCalm DEF Smooth
<1>3. u.node[p].kids[x] = NoNode /\ NotBelow(u, u.node[p].fh, u.node[e].fh)
  BY <1>1, SmoothKeeps
<1>4. v = ClearParent(s, q)
  BY DEF createMoveElement
<1> HIDE DEF u
<1>5. Calm(s) /\ s.err = w.err /\ DOMAIN s.node = DOMAIN w.node
  BY <1>2, <1>3, ReplacedCalm
<1>6. q \in DOMAIN s.node \cup {NoNode}
  BY <1>5, GoodParents DEF Parents, Calm
<1> HIDE DEF s, q
<1>7. Smooth(s, v)
  BY <1>4, <1>5, <1>6, ClearParentSmooth
<1> QED BY <1>5, <1>7, SmoothCalm DEF Smooth

LEMMA CreateNodeCalm ==
  ASSUME NEW w, Calm(w), NEW h \in Handle, NEW x \in Name, NEW time \in Int,
         NEW v, v = createNode(w, h, x, time)
  PROVE  Calm(v) /\ Extended(w, v) /\ (v.err = NoError => NewNode(w) \in DOMAIN v.node)
<1>1. Good(w) /\ Parents(w)
  BY GoodParents DEF Calm
<1>2. Extended(w, v) /\ (v.err = NoError => NewNode(w) \in DOMAIN v.node)
  BY <1>1, CreateNodeExtended
<1>3. v.err \in {NoError, "Out of memory"}
  BY DEF createNode, Check, Then, Calm, Good
<1>4. ASSUME v.err = NoError
      PROVE  w.err = NoError /\ Shrunk(w, v)
  <2> DEFINE b == FALSE
             q == NoNode
  <2>1. w.err = NoError /\ Added(w, v, NewNode(w), h, x, q, b) /\ q = NoNode
    BY <1>1, <1>4, CreateNodeEffect
  <2> HIDE DEF b, q
  <2> QED BY <1>1, <2>1, RootShrunk
<1> QED BY <1>2, <1>3, <1>4, ShrunkCalm DEF Extended

LEMMA SetDirCalm ==
  ASSUME NEW w, Calm(w), NEW n \in DOMAIN w.node, NEW b \in BOOLEAN,
         NEW v, v = SetDir(w, n, b)
  PROVE  Calm(v) /\ Extended(w, v) /\ DOMAIN v.node = DOMAIN w.node /\ v.err = w.err
<1>1. Good(w) /\ Parents(w)
  BY GoodParents DEF Calm
<1>2. Extended(w, v) /\ DOMAIN v.node = DOMAIN w.node /\ v.err = w.err
  BY <1>1, SetDirGood
<1>3. v.err = NoError => Shrunk(w, v)
  BY <1>1, SetDirEffect, RetypedShrunk
<1> QED BY <1>2, <1>3, ShrunkCalm DEF Extended, Calm

\* A new node under a name that is free, in a directory that is not below its file.
LEMMA AddNewCalm ==
  ASSUME NEW w, Calm(w), NEW h \in Handle, NEW p \in DOMAIN w.node, NEW x \in Name,
         NEW time \in Int, NEW isDir \in BOOLEAN,
         w.node[p].kids[x] = NoNode, NotBelow(w, w.node[p].fh, h),
         NEW v, v = AddNew(w, p, h, x, time, isDir)
  PROVE  Calm(v)
<1> DEFINE n == NewNode(w)
           u == createNode(w, h, x, time)
           s == SetDir(u, n, isDir)
<1>1. Good(w) /\ Parents(w)
  BY GoodParents DEF Calm
<1>2. Calm(u) /\ Extended(w, u) /\ (u.err = NoError => n \in DOMAIN u.node)
  BY CreateNodeCalm
<1>3. v = Then(u, addChild(s, p, n))
  BY DEF AddNew
<1>4. u.err = NoError => w.err = NoError /\ Added(w, u, n, h, x, NoNode, FALSE)
  BY <1>1, CreateNodeEffect
<1>5. Good(v)
  BY <1>1, AddNewGood
<1>6. v.err \in {NoError, "Out of memory"}
  <2>1. CASE u.err # NoError
    BY <1>2, <1>3, <2>1 DEF Then, Calm
  <2>2. CASE u.err = NoError
    <3>1. n \in DOMAIN u.node
      BY <1>2, <2>2
    <3>2. /\ u.node[n].fh = h /\ u.node[n].name = x /\ u.node[n].parent = NoNode
          /\ u.node[p].fh = w.node[p].fh /\ p \in DOMAIN u.node /\ u.node[p].kids[x] = NoNode
      BY <1>2, <1>4, <2>2 DEF Added, Stays, Extended
    <3> HIDE DEF n, u
    <3>3. Extended(u, s) /\ s.err = NoError
      BY <1>2, <2>2, <3>1, SetDirCalm
    <3>4. /\ s.node[n].fh = h /\ s.node[n].name = x /\ s.node[n].parent = NoNode
          /\ n \in DOMAIN s.node /\ p \in DOMAIN s.node
          /\ s.node[p].fh = w.node[p].fh /\ s.node[p].kids[x] = NoNode /\ Good(s)
      BY <3>1, <3>2, <3>3 DEF Extended
    <3>5. w.node[p].fh # h
      BY DEF NotBelow
    <3> HIDE DEF s
    <3>6. addChild(s, p, n).err = s.err
      BY <3>4, <3>5, AddChildThrows
    <3> QED BY <1>3, <2>2, <3>3, <3>6 DEF Then
  <2> QED BY <2>1, <2>2
<1>7. ASSUME v.err = NoError
      PROVE  w.err = NoError /\ Joined(w, v, n, p) /\ NotBelow(w, v.node[p].fh, v.node[n].fh)
  <2>1. w.err = NoError /\ Added(w, v, n, h, x, p, isDir)
    BY <1>1, <1>7, AddNewEffect
  <2> HIDE DEF n
  <2>2. v.node[p].fh = w.node[p].fh /\ v.node[n].fh = h
    BY <2>1 DEF Added, Stays
  <2> QED BY <1>1, <2>1, <2>2, AddedJoined
<1> HIDE DEF n
<1> QED BY <1>5, <1>6, <1>7, JoinedCalm

\* The directory of a request, when it is one.
LEMMA VisitDirCalm ==
  ASSUME NEW w, Calm(w), NEW h \in Handle, NEW found \in DOMAIN w.node \cup {NoNode},
         found # NoNode => w.node[found].dir, NEW time \in Int,
         NEW v, v = VisitDir(w, h, found, time)
  PROVE  Calm(v) /\ (v.err = NoError => OrNew(w, found) \in DOMAIN v.node)
<1> DEFINE g == getOrCreateDir(w, h, found, time)
           n == OrNew(w, found)
<1>1. Good(w)
  BY DEF Calm
<1>2. v = Touch(g, n, time)
  BY DEF VisitDir
<1>3. Calm(g) /\ (g.err = NoError => n \in DOMAIN g.node)
  <2>1. CASE found = NoNode
    <3> DEFINE u == createNode(w, h, handleName[h], time)
               b == TRUE
    <3>1. handleName[h] \in Name
      BY TreeAssumption
    <3>2. Calm(u) /\ (u.err = NoError => n \in DOMAIN u.node)
      BY <2>1, <3>1, CreateNodeCalm DEF OrNew
    <3>3. g = SetDir(u, n, b) /\ b \in BOOLEAN
      BY <2>1 DEF getOrCreateDir, OrNew
    <3> HIDE DEF u, n, b
    <3>4. CASE u.err = NoError
      BY <3>2, <3>3, <3>4, SetDirCalm
    <3>5. CASE u.err # NoError
      BY <3>2, <3>3, <3>5 DEF SetDir, Then
    <3> QED BY <3>4, <3>5
  <2>2. CASE found # NoNode
    BY <2>2 DEF getOrCreateDir, OrNew, Check, Then
  <2> QED BY <2>1, <2>2
<1> HIDE DEF g, n
<1>4. CASE g.err = NoError
  <2>1. Smooth(g, v) /\ Calm(g) /\ n \in DOMAIN g.node
    BY <1>2, <1>3, <1>4, TouchSmooth
  <2>2. Calm(v) /\ n \in DOMAIN v.node
    BY <2>1, SmoothCalm
  <2> QED BY <2>2 DEF n
<1>5. CASE g.err # NoError
  BY <1>2, <1>3, <1>5 DEF Touch, Then
<1> QED BY <1>4, <1>5

-----------------------------------------------------------------------------
(* Handlers that throw nothing, on conditions the server meets.            *)

\* What a response says of an entry is what the tree has, if it has it.
Answered(w, p, e, req, res) ==
  LET c == w.node[p].kids[req.name]
  IN  /\ NotBelow(w, w.node[p].fh, res.fh)
      /\ c # NoNode => w.node[c].fh = res.fh
      /\ e # NoNode => w.node[e].fh = res.fh
      /\ \A n \in DOMAIN w.node : w.node[n].fh = res.fh => w.node[n].dir = (res.ftype = "DIR")

\* Touch, where the node is allocated unless an exception unwinds.
LEMMA TouchCalm ==
  ASSUME NEW w, Calm(w), NEW n, Alive(w, n), NEW time \in Int, NEW v, v = Touch(w, n, time)
  PROVE  Calm(v)
<1>1. CASE w.err = NoError
  BY <1>1, TouchSmooth, SmoothCalm DEF Alive
<1>2. CASE w.err # NoError
  BY <1>2 DEF Touch, Then
<1> QED BY <1>1, <1>2

\* A node that has the type already.
LEMMA SameFType ==
  ASSUME NEW w, NEW n, NEW ftype, w.err = NoError => w.node[n].dir = (ftype = "DIR")
  PROVE  createChangeFType(w, n, ftype) = w
BY DEF createChangeFType, Then

LEMMA LookupInCalm ==
  ASSUME NEW w, Calm(w), NEW p \in DOMAIN w.node, NEW e \in DOMAIN w.node \cup {NoNode},
         NEW req, NEW res, EntryArgs(req, res), Answered(w, p, e, req, res),
         NEW v, v = LookupIn(w, p, e, req, res)
  PROVE  Calm(v)
<1> DEFINE c == w.node[p].kids[req.name]
           isDir == res.ftype = "DIR"
           link == c = NoNode /\ e # NoNode /\ ~isDir /\ w.node[e].parent # NoNode
<1>1. Good(w) /\ NoNode \notin DOMAIN w.node
  BY GoodParents DEF Calm
<1>2. req.name \in Name /\ res.fh \in Handle /\ res.time \in Int
  BY DEF EntryArgs, NamesEntry
<1>3. CASE c = NoNode /\ e = NoNode
  <2>1. v = AddNew(w, p, res.fh, req.name, res.time, isDir) /\ isDir \in BOOLEAN
    BY <1>3 DEF LookupIn
  <2> HIDE DEF isDir
  <2> QED BY <1>2, <1>3, <2>1, AddNewCalm DEF Answered
<1>4. CASE link
  <2> DEFINE b == FALSE
             u == AddNew(w, p, w.node[e].fh, req.name, res.time, b)
  <2>1. v = Touch(u, e, res.time) /\ b \in BOOLEAN /\ e \in DOMAIN w.node
    BY <1>4 DEF LookupIn
  <2>2. w.node[e].fh = res.fh /\ w.node[p].kids[req.name] = NoNode
    BY <1>4 DEF Answered
  <2> HIDE DEF b
  <2>3. Calm(u) /\ e \in DOMAIN u.node
    BY <1>1, <1>2, <2>1, <2>2, AddNewCalm, AddNewGood DEF Answered
  <2> HIDE DEF u
  <2> QED BY <1>2, <2>1, <2>3, TouchCalm DEF Alive
<1>5. CASE c = NoNode /\ e # NoNode /\ ~link
  <2> DEFINE u == createMoveElement(w, e, p, req.name)
  <2>1. v = Touch(createChangeFType(u, e, res.ftype), e, res.time) /\ e \in DOMAIN w.node
    BY <1>5 DEF LookupIn
  <2>2. w.node[e].fh = res.fh /\ w.node[e].dir = isDir
    BY <1>5, <2>1 DEF Answered
  <2>3. Calm(u) /\ DOMAIN u.node = DOMAIN w.node
    BY <1>2, <1>5, <2>1, <2>2, CreateMoveElementCalm DEF Answered
  <2>4. u.err = NoError => u.node[e].dir = isDir
    BY <1>1, <1>2, <2>1, <2>2, CreateMoveElementEffect DEF Moved
  <2> HIDE DEF u
  <2>5. createChangeFType(u, e, res.ftype) = u
    BY <2>4, SameFType
  <2> QED BY <1>2, <2>1, <2>3, <2>5, TouchCalm DEF Alive
<1>6. CASE c # NoNode
  <2>1. c \in DOMAIN w.node /\ w.node[c].fh = res.fh /\ w.node[c].dir = isDir
    BY <1>1, <1>2, <1>6, ChildAllocated DEF Answered
  <2>2. v = Touch(createChangeFType(w, c, res.ftype), c, res.time)
    BY <1>6, <2>1 DEF LookupIn, SettleElement, Displaced
  <2> HIDE DEF c
  <2>3. createChangeFType(w, c, res.ftype) = w
    BY <2>1, SameFType
  <2> QED BY <1>2, <2>1, <2>2, <2>3, TouchCalm DEF Alive
<1> QED BY <1>3, <1>4, <1>5, <1>6

LEMMA RewriteSmooth ==
  ASSUME NEW w, Calm(w), NEW n \in DOMAIN w.node, NEW res, res.size \in Nat
  PROVE  Smooth(w, Rewrite(w, n, res))
<1> DEFINE u == SetSize(w, n, 0)
           v == IF res.op = "CREATE" THEN u ELSE w
           t == writeToSize(v, n, res.size)
<1>1. Smooth(w, v)
  BY SetSizeSmooth, SmoothRefl
<1>2. Calm(v) /\ n \in DOMAIN v.node
  BY <1>1, SmoothCalm
<1>3. Rewrite(w, n, res) = v \/ Rewrite(w, n, res) = t
  BY DEF Rewrite
<1> HIDE DEF v
<1>4. Smooth(v, t)
  BY <1>2, WriteToSizeSmooth
<1>5. Smooth(w, t)
  BY <1>1, <1>4, SmoothTrans
<1> QED BY <1>1, <1>3, <1>5

LEMMA CreateOverCalm ==
  ASSUME NEW w, Calm(w), NEW p \in DOMAIN w.node, NEW c \in DOMAIN w.node,
         NEW e, NEW req, NEW res, EntryArgs(req, res), w.node[c].fh = res.fh,
         w.node[c].dir = (res.ftype = "DIR"),
         NEW v, v = CreateOver(w, p, c, e, req, res)
  PROVE  Calm(v)
<1> DEFINE u == Rewrite(w, c, res)
<1>1. v = Touch(createChangeFType(u, c, res.ftype), c, res.time)
  BY DEF CreateOver, SettleElement, Displaced
<1>2. Smooth(w, u)
  BY RewriteSmooth DEF EntryArgs
<1> HIDE DEF u
<1>3. Calm(u) /\ DOMAIN u.node = DOMAIN w.node
  BY <1>2, SmoothCalm
<1>4. u.node[c].dir = (res.ftype = "DIR")
  BY <1>2, SmoothKeeps
<1>5. createChangeFType(u, c, res.ftype) = u
  BY <1>4, SameFType
<1>6. res.time \in Int
  BY DEF EntryArgs
<1> QED BY <1>1, <1>3, <1>5, <1>6, TouchCalm DEF Alive

LEMMA CreateAgainCalm ==
  ASSUME NEW w, Calm(w), NEW p \in DOMAIN w.node, NEW e \in DOMAIN w.node,
         NEW req, NEW res, EntryArgs(req, res), Answered(w, p, e, req, res),
         w.node[p].kids[req.name] = NoNode,
         NEW v, v = CreateAgain(w, p, e, req, res)
  PROVE  Calm(v)
<1> DEFINE r == RemoveOnDisk(w, e)
           a == IF w.node[e].created THEN r ELSE w
           u == addChild(setName(Detached(a, e), e, req.name), p, e)
           f == createChangeFType(u, e, res.ftype)
           s == SetSize(f, e, 0)
           t == writeToSize(s, e, res.size)
           q == w.node[e].parent
           b == ClearParent(t, q)
<1>0. /\ req.name \in Name /\ res.time \in Int /\ res.size \in Nat /\ 0 \in Nat
      /\ w.node[e].fh = res.fh /\ w.node[e].dir = (res.ftype = "DIR")
  <2>1. e # NoNode
    BY GoodParents DEF Calm
  <2> QED BY <2>1 DEF EntryArgs, NamesEntry, Answered
<1>1. v = Touch(b, e, res.time)
  BY DEF CreateAgain
<1>2. Smooth(w, a)
  BY RemoveOnDiskSmooth, SmoothRefl
<1> HIDE DEF a
<1>3. Calm(a) /\ DOMAIN a.node = DOMAIN w.node
  BY <1>2, SmoothCalm
<1>4. /\ a.node[p].kids[req.name] = NoNode /\ NotBelow(a, a.node[p].fh, a.node[e].fh)
      /\ a.node[e].dir = (res.ftype = "DIR")
  BY <1>0, <1>2, SmoothKeeps DEF Answered
<1>5. Calm(u) /\ DOMAIN u.node = DOMAIN w.node
  BY <1>0, <1>3, <1>4, ReplacedCalm
<1>6. u.err = NoError => u.node[e].dir = (res.ftype = "DIR")
  <2>1. Good(a)
    BY <1>3 DEF Calm
  <2> QED BY <1>0, <1>3, <1>4, <2>1, ReplacedEffect DEF Moved
<1> HIDE DEF u
<1>7. f = u
  BY <1>6, SameFType
<1> HIDE DEF f
<1>8. Calm(s) /\ DOMAIN s.node = DOMAIN w.node
  BY <1>0, <1>5, <1>7, SetSizeSmooth, SmoothCalm
<1> HIDE DEF s
<1>9. Calm(t) /\ DOMAIN t.node = DOMAIN w.node
  BY <1>0, <1>8, WriteToSizeSmooth, SmoothCalm
<1>10. q \in DOMAIN w.node \cup {NoNode}
  BY GoodParents DEF Parents, Calm
<1> HIDE DEF t, q
<1>11. Calm(b) /\ DOMAIN b.node = DOMAIN w.node
  BY <1>9, <1>10, ClearParentSmooth, SmoothCalm
<1> HIDE DEF b
<1> QED BY <1>0, <1>1, <1>11, TouchCalm DEF Alive

LEMMA CreateInCalm ==
  ASSUME NEW w, Calm(w), NEW p \in DOMAIN w.node, NEW e \in DOMAIN w.node \cup {NoNode},
         NEW req, NEW res, EntryArgs(req, res), Answered(w, p, e, req, res),
         NEW v, v = CreateIn(w, p, e, req, res)
  PROVE  Calm(v)
<1> DEFINE c == w.node[p].kids[req.name]
           b == FALSE
           u == AddNew(w, p, res.fh, req.name, res.time, b)
<1>1. Good(w) /\ NoNode \notin DOMAIN w.node
  BY GoodParents DEF Calm
<1>2. req.name \in Name /\ res.fh \in Handle /\ res.time \in Int /\ res.size \in Nat
  BY DEF EntryArgs, NamesEntry
<1>3. CASE c # NoNode
  <2>1. c \in DOMAIN w.node /\ w.node[c].fh = res.fh /\ w.node[c].dir = (res.ftype = "DIR")
    BY <1>1, <1>2, <1>3, ChildAllocated DEF Answered
  <2>2. v = CreateOver(w, p, c, e, req, res)
    BY <1>3 DEF CreateIn
  <2> HIDE DEF c
  <2> QED BY <2>1, <2>2, CreateOverCalm
<1>4. CASE c = NoNode /\ res.ftype = "DIR"
  BY <1>4, LookupInCalm DEF CreateIn
<1>5. CASE c = NoNode /\ res.ftype # "DIR" /\ e # NoNode
  <2>1. v = CreateAgain(w, p, e, req, res) /\ e \in DOMAIN w.node
    BY <1>5 DEF CreateIn
  <2>2. w.node[p].kids[req.name] = NoNode
    BY <1>5
  <2> QED BY <2>1, <2>2, CreateAgainCalm
<1>6. CASE c = NoNode /\ res.ftype # "DIR" /\ e = NoNode
  <2> DEFINE n == NewNode(w)
             t == writeToSize(u, n, res.size)
  <2>1. v = Then(u, t) /\ b \in BOOLEAN
    BY <1>6 DEF CreateIn
  <2>2. w.node[p].kids[req.name] = NoNode /\ NotBelow(w, w.node[p].fh, res.fh)
    BY <1>6 DEF Answered
  <2> HIDE DEF b
  <2>3. Calm(u) /\ (u.err = NoError => n \in DOMAIN u.node)
    BY <1>1, <1>2, <2>1, <2>2, AddNewCalm, AddNewGood
  <2> HIDE DEF u, n
  <2>4. n \in DOMAIN u.node => Calm(t)
    BY <1>2, <2>3, WriteToSizeSmooth, SmoothCalm
  <2> QED BY <2>1, <2>3, <2>4 DEF Then
<1> QED BY <1>3, <1>4, <1>5, <1>6

-----------------------------------------------------------------------------
(* The directories of the server.                                          *)

\* g is neither h nor below it: a set that is closed in E holds h and not g.
Outside(E, g, h) ==
  \E T : /\ h \in T /\ g \notin T
         /\ \A k \in DOMAIN E : k[1] \in T => E[k] \in T

\* No directory is below a file it holds.
Acyclic(E) == \A k \in DOMAIN E : Outside(E, k[1], E[k])

\* A new entry for a file that holds none itself.
LEMMA PutAcyclic ==
  ASSUME NEW E, Acyclic(E), NEW j, NEW h, j[1] # h, \A k \in DOMAIN E : k[1] # h,
         NEW F, F = [k \in DOMAIN E \cup {j} |-> IF k = j THEN h ELSE E[k]]
  PROVE  Acyclic(F)
<1>1. ASSUME NEW k \in DOMAIN E, k # j
      PROVE  Outside(F, k[1], F[k])
  <2>1. PICK T : /\ E[k] \in T /\ k[1] \notin T
                 /\ \A i \in DOMAIN E : i[1] \in T => E[i] \in T
    BY <1>1 DEF Acyclic, Outside
  <2> DEFINE U == T \cup {h}
  <2>2. F[k] \in U /\ k[1] \notin U
    BY <1>1, <2>1
  <2>3. \A i \in DOMAIN F : i[1] \in U => F[i] \in U
    BY <2>1
  <2> HIDE DEF U
  <2> QED BY <2>2, <2>3 DEF Outside
<1>2. Outside(F, j[1], F[j])
  <2> DEFINE U == {h}
  <2>1. F[j] \in U /\ j[1] \notin U /\ \A i \in DOMAIN F : i[1] \in U => F[i] \in U
    OBVIOUS
  <2> HIDE DEF U
  <2> QED BY <2>1 DEF Outside
<1> QED BY <1>1, <1>2 DEF Acyclic

LEMMA DropAcyclic ==
  ASSUME NEW E, Acyclic(E), NEW j, NEW F, F = [k \in DOMAIN E \ {j} |-> E[k]]
  PROVE  Acyclic(F)
<1> SUFFICES ASSUME NEW k \in DOMAIN F
             PROVE  Outside(F, k[1], F[k])
  BY DEF Acyclic
<1>1. PICK T : /\ E[k] \in T /\ k[1] \notin T
               /\ \A i \in DOMAIN E : i[1] \in T => E[i] \in T
  BY DEF Acyclic, Outside
<1> QED BY <1>1 DEF Outside

\* An entry gets another place, whose directory is not below it.
LEMMA ReplaceAcyclic ==
  ASSUME NEW E, Acyclic(E), NEW i \in DOMAIN E, NEW j, Outside(E, j[1], E[i]),
         NEW F, F = [k \in (DOMAIN E \ {i}) \cup {j} |-> IF k = j THEN E[i] ELSE E[k]]
  PROVE  Acyclic(F)
<1>1. PICK S : /\ E[i] \in S /\ j[1] \notin S
               /\ \A m \in DOMAIN E : m[1] \in S => E[m] \in S
  BY DEF Outside
<1>2. Outside(F, j[1], F[j])
  <2>1. F[j] \in S /\ \A m \in DOMAIN F : m[1] \in S => F[m] \in S
    BY <1>1
  <2> QED BY <1>1, <2>1 DEF Outside
<1>3. ASSUME NEW k \in DOMAIN E, k # j, k # i
      PROVE  Outside(F, k[1], F[k])
  <2>1. PICK T : /\ E[k] \in T /\ k[1] \notin T
                 /\ \A m \in DOMAIN E : m[1] \in T => E[m] \in T
    BY <1>3 DEF Acyclic, Outside
  <2> DEFINE U == IF k[1] \in S THEN T \cap S ELSE T \cup S
  <2>2. F[k] \in U /\ k[1] \notin U
    BY <1>1, <1>3, <2>1
  <2>3. \A m \in DOMAIN F : m[1] \in U => F[m] \in U
    <3>1. CASE k[1] \in S
      BY <1>1, <2>1, <3>1
    <3>2. CASE k[1] \notin S
      BY <1>1, <2>1, <3>2
    <3> QED BY <3>1, <3>2
  <2> HIDE DEF U
  <2> QED BY <2>2, <2>3 DEF Outside
<1> QED BY <1>2, <1>3 DEF Acyclic

\* What is not under h on the server is outside of h.
LEMMA NotUnder ==
  ASSUME NEW g, NEW h, ~Server!Under(g, h)
  PROVE  Outside(entry, g, h)
BY DEF Server!Under, Outside

LEMMA ServeAcyclic ==
  ASSUME ServerOK, Acyclic(entry), NEW x, Server!Serve(x)
  PROVE  Acyclic(entry')
<1>1. CASE entry' = entry
  BY <1>1
<1>2. CASE Server!ServeMake(x)
  <2> DEFINE j == <<x.req.fh, x.req.name>>
             h == x.res.fh
  <2>1. /\ j[1] \in DOMAIN kind /\ h \notin DOMAIN kind
        /\ entry' = [k \in DOMAIN entry \cup {j} |-> IF k = j THEN h ELSE entry[k]]
    BY <1>2 DEF Server!ServeMake, Server!Put, Server!Dir
  <2> HIDE DEF j, h
  <2>2. j[1] # h /\ \A k \in DOMAIN entry : k[1] # h
    BY <2>1 DEF ServerOK
  <2> QED BY <2>1, <2>2, PutAcyclic
<1>3. CASE Server!ServeLink(x)
  <2> DEFINE j == <<x.req.fh2, x.req.name>>
             h == x.req.fh
  <2>1. /\ kind[j[1]] = "DIR" /\ kind[h] = "REG"
        /\ entry' = [k \in DOMAIN entry \cup {j} |-> IF k = j THEN h ELSE entry[k]]
    BY <1>3 DEF Server!ServeLink, Server!Put, Server!Dir
  <2> HIDE DEF j, h
  <2>2. j[1] # h /\ \A k \in DOMAIN entry : k[1] # h
    BY <2>1 DEF ServerOK
  <2> QED BY <2>1, <2>2, PutAcyclic
<1>4. CASE Server!ServeRemove(x)
  <2> DEFINE j == <<x.req.fh, x.req.name>>
  <2>1. entry' = [k \in DOMAIN entry \ {j} |-> entry[k]]
    BY <1>4 DEF Server!ServeRemove, Server!Drop
  <2> HIDE DEF j
  <2> QED BY <2>1, DropAcyclic
<1>5. CASE Server!ServeRename(x)
  <2> DEFINE i == <<x.req.fh, x.req.name>>
             j == <<x.req.fh2, x.req.name2>>
  <2>1. /\ i \in DOMAIN entry /\ ~Server!Under(j[1], entry[i])
        /\ \/ entry' = entry
           \/ entry' = [k \in (DOMAIN entry \ {i}) \cup {j} |->
                          IF k = j THEN entry[i] ELSE entry[k]]
    BY <1>5 DEF Server!ServeRename
  <2> HIDE DEF i, j
  <2>2. Outside(entry, j[1], entry[i])
    BY <2>1, NotUnder
  <2> QED BY <1>1, <2>1, <2>2, ReplaceAcyclic
<1> QED BY <1>1, <1>2, <1>3, <1>4, <1>5
        DEF Server!Serve, Server!ServeLookup, Server!ServeReopen, Server!ServeFile

\* What is outside of a file on the server is not below it in the tree.
LEMMA MirrorsNotBelow ==
  ASSUME NEW w, NEW E, Mirrors(w, E), NEW g, NEW h, Outside(E, g, h)
  PROVE  NotBelow(w, g, h)
<1>1. PICK T : /\ h \in T /\ g \notin T
               /\ \A k \in DOMAIN E : k[1] \in T => E[k] \in T
  BY DEF Outside
<1> SUFFICES ASSUME NEW n \in DOMAIN w.node, w.node[n].parent # NoNode,
                    w.node[w.node[n].parent].fh \in T
             PROVE  w.node[n].fh \in T
  BY <1>1 DEF NotBelow
<1> DEFINE k == <<w.node[w.node[n].parent].fh, w.node[n].name>>
<1>2. k \in DOMAIN E /\ E[k] = w.node[n].fh
  BY DEF Mirrors, Has
<1>3. k[1] = w.node[w.node[n].parent].fh
  OBVIOUS
<1> HIDE DEF k
<1> QED BY <1>1, <1>2, <1>3

\* A name of a node that is one of the directory's entries in E stands for the same file.
LEMMA KnownEntry ==
  ASSUME NEW w, Good(w), NEW E, Mirrors(w, E), NEW p \in DOMAIN w.node, NEW x \in Name,
         NEW c, c = w.node[p].kids[x], c # NoNode
  PROVE  c \in DOMAIN w.node /\ Has(E, w.node[p].fh, x, w.node[c].fh)
<1>1. c \in DOMAIN w.node /\ w.node[c].parent = p /\ w.node[c].name = x
  BY DEF Good, Heap, ChildKnowsParent
<1>2. p # NoNode
  BY GoodParents
<1> QED BY <1>1, <1>2 DEF Mirrors
-----------------------------------------------------------------------------
(* LOOKUP, CREATE and MKDIR.                                               *)

\* The conditions the server meets when it answers LOOKUP, CREATE or MKDIR.
EntryServed(w, req, res, K, E) ==
  /\ Typed(w, K) /\ IsKind(K, req.fh, "DIR") /\ IsKind(K, res.fh, res.ftype)
  /\ Mirrors(w, E) /\ Acyclic(E) /\ Has(E, req.fh, req.name, res.fh)

\* An answer that is true on the server holds of the tree when its directory is visited.
LEMMA VisitedAnswered ==
  ASSUME NEW w, Good(w), NEW u, Good(u), NEW req, NEW res, NamesEntry(req, res),
         NEW d \in getNode(w, req.fh), NEW e \in getNode(w, res.fh), Visited(w, u, req.fh, d),
         NEW p, p = OrNew(w, d), p \in DOMAIN u.node,
         NEW K, NEW E, EntryServed(w, req, res, K, E)
  PROVE  Answered(u, p, e, req, res) /\ e \in DOMAIN u.node \cup {NoNode}
<1> DEFINE g == req.fh
           h == res.fh
           x == req.name
           k == <<g, x>>
<1>0. /\ Typed(w, K) /\ IsKind(K, req.fh, "DIR") /\ IsKind(K, res.fh, res.ftype)
      /\ Mirrors(w, E) /\ Acyclic(E) /\ Has(E, req.fh, req.name, res.fh)
  BY DEF EntryServed
<1>1. Typed(u, K) /\ Mirrors(u, E)
  BY <1>0, VisitedTyped, VisitedMirrors
<1>2. u.node[p].fh = g
  BY VisitedHandle
<1>3. Meant(u, e, h)
  BY VisitedMeant DEF NamesEntry
<1>4. NotBelow(u, g, h)
  <2>1. k \in DOMAIN E /\ E[k] = h /\ k[1] = g
    BY <1>0 DEF Has
  <2> HIDE DEF k, g, h
  <2>2. Outside(E, g, h)
    BY <1>0, <2>1 DEF Acyclic
  <2> QED BY <1>1, <2>2, MirrorsNotBelow
<1> DEFINE c == u.node[p].kids[x]
<1>5. c # NoNode => u.node[c].fh = h
  <2>1. x \in Name
    BY DEF NamesEntry
  <2>2. Has(E, g, x, h)
    BY <1>0
  <2>3. c = u.node[p].kids[x]
    OBVIOUS
  <2> HIDE DEF c, x, g, h
  <2>4. c # NoNode => Has(E, g, x, u.node[c].fh)
    BY <1>1, <1>2, <2>1, <2>3, KnownEntry
  <2> QED BY <2>2, <2>4 DEF Has
<1>6. \A n \in DOMAIN u.node : u.node[n].fh = h => u.node[n].dir = (res.ftype = "DIR")
  BY <1>0, <1>1 DEF Typed, KindsOf, IsKind
<1>7. e # NoNode => e \in DOMAIN u.node /\ u.node[e].fh = h
  BY <1>3 DEF Meant
<1> QED BY <1>2, <1>4, <1>5, <1>6, <1>7 DEF Answered

\* The node of a directory of the server is a directory.
LEMMA FoundDir ==
  ASSUME NEW w, Good(w), NEW K, Typed(w, K), NEW h, IsKind(K, h, "DIR"),
         NEW d \in getNode(w, h)
  PROVE  d \in DOMAIN w.node \cup {NoNode} /\ (d # NoNode => w.node[d].dir)
<1>1. NoNode \notin DOMAIN w.node
  BY GoodParents
<1>2. d # NoNode => d \in DOMAIN w.node /\ w.node[d].fh = h
  BY <1>1, NotFound
<1> QED BY <1>2 DEF Typed, KindsOf, IsKind

\* The directory is visited.
LEMMA VisitServed ==
  ASSUME NEW w, Calm(w), NEW req, NEW res, EntryArgs(req, res),
         NEW d \in getNode(w, req.fh), NEW e \in getNode(w, res.fh),
         NEW K, NEW E, EntryServed(w, req, res, K, E),
         NEW v, v = VisitDir(w, req.fh, d, res.time), NEW p, p = OrNew(w, d)
  PROVE  /\ Calm(v)
         /\ v.err = NoError => /\ Answered(v, p, e, req, res) /\ p \in DOMAIN v.node
                               /\ e \in DOMAIN v.node \cup {NoNode}
<1>1. Good(w) /\ req.fh \in Handle /\ res.time \in Int /\ NamesEntry(req, res)
  BY DEF Calm, EntryArgs, NamesEntry
<1>2. d \in DOMAIN w.node \cup {NoNode} /\ (d # NoNode => w.node[d].dir)
  BY <1>1, FoundDir DEF EntryServed
<1>3. Calm(v) /\ (v.err = NoError => p \in DOMAIN v.node)
  BY <1>1, <1>2, VisitDirCalm
<1>4. ASSUME v.err = NoError
      PROVE  Answered(v, p, e, req, res) /\ e \in DOMAIN v.node \cup {NoNode}
  <2>1. Visited(w, v, req.fh, d)
    BY <1>1, <1>2, <1>4, VisitDirEffect
  <2>2. Good(v) /\ p \in DOMAIN v.node
    BY <1>3, <1>4 DEF Calm
  <2> QED BY <1>1, <2>1, <2>2, VisitedAnswered
<1> QED BY <1>3, <1>4

LEMMA CreateLookupCalm ==
  ASSUME NEW w, Calm(w), NEW req, NEW res, res.time \in Int, res.size \in Nat,
         NEW d \in getNode(w, req.fh), NEW e \in getNode(w, res.fh),
         NEW K, NEW E, EntryServed(w, req, res, K, E),
         NEW z, z = createLookup(w, req, res, d, e)
  PROVE  Calm(z)
<1> DEFINE v == VisitDir(w, req.fh, d, res.time)
           p == OrNew(w, d)
           t == LookupIn(v, p, e, req, res)
<1>1. CASE ~NamesEntry(req, res)
  BY <1>1 DEF createLookup
<1>2. CASE NamesEntry(req, res)
  <2>1. EntryArgs(req, res)
    BY <1>2 DEF EntryArgs
  <2>2. z = Then(v, t)
    BY <1>2 DEF createLookup
  <2>3. /\ Calm(v)
        /\ v.err = NoError => /\ Answered(v, p, e, req, res) /\ p \in DOMAIN v.node
                              /\ e \in DOMAIN v.node \cup {NoNode}
    BY <2>1, VisitServed
  <2> HIDE DEF v, p
  <2>4. v.err = NoError => Calm(t)
    BY <2>1, <2>3, LookupInCalm
  <2> QED BY <2>2, <2>3, <2>4 DEF Then
<1> QED BY <1>1, <1>2

LEMMA CreateFileCalm ==
  ASSUME NEW w, Calm(w), NEW req, NEW res, res.time \in Int, res.size \in Nat,
         NEW d \in getNode(w, req.fh), NEW e \in getNode(w, res.fh),
         NEW K, NEW E, EntryServed(w, req, res, K, E),
         NEW z, z = createFile(w, req, res, d, e)
  PROVE  Calm(z)
<1> DEFINE v == VisitDir(w, req.fh, d, res.time)
           p == OrNew(w, d)
           t == CreateIn(v, p, e, req, res)
<1>1. CASE ~NamesEntry(req, res)
  BY <1>1 DEF createFile
<1>2. CASE NamesEntry(req, res)
  <2>1. EntryArgs(req, res)
    BY <1>2 DEF EntryArgs
  <2>2. z = Then(v, t)
    BY <1>2 DEF createFile
  <2>3. /\ Calm(v)
        /\ v.err = NoError => /\ Answered(v, p, e, req, res) /\ p \in DOMAIN v.node
                              /\ e \in DOMAIN v.node \cup {NoNode}
    BY <2>1, VisitServed
  <2> HIDE DEF v, p
  <2>4. v.err = NoError => Calm(t)
    BY <2>1, <2>3, CreateInCalm
  <2> QED BY <2>2, <2>3, <2>4 DEF Then
<1> QED BY <1>1, <1>2

-----------------------------------------------------------------------------
(* REMOVE, WRITE and the rest.                                             *)

\* A child without children is taken from its parent.
LEMMA DeleteChildCalm ==
  ASSUME NEW w, Calm(w), NEW p \in DOMAIN w.node, NEW c \in DOMAIN w.node,
         w.node[c].parent = p, isDeletable(w, c), NEW v, v = deleteChild(w, p, c)
  PROVE  Calm(v) /\ v.err = w.err /\ DOMAIN v.node = DOMAIN w.node
<1>1. p # NoNode
  BY GoodParents DEF Calm
<1>2. v = Detached(w, c)
  BY <1>1 DEF deleteChild, Detached, removeChild, Check, Then
<1> QED BY <1>2, DetachedCalm

LEMMA RemoveChildOfCalm ==
  ASSUME NEW w, Calm(w), NEW d \in DOMAIN w.node, NEW c \in DOMAIN w.node,
         w.node[c].parent = d, isDeletable(w, c), NEW time \in Int,
         NEW v, v = RemoveChildOf(w, d, c, time)
  PROVE  Calm(v)
<1> DEFINE r == Unlink(w, c)
           a == IF w.node[c].created THEN r ELSE w
           u == deleteChild(a, d, c)
           e == clearEmptyDir(u, d)
           b == Then(u, e)
           t == Touch(b, d, time)
<1>1. Good(w) /\ Good(v)
  BY RemoveChildOfGood DEF Calm
<1>2. v = removeNode(t, c)
  BY DEF RemoveChildOf
<1>3. Smooth(w, a)
  BY UnlinkSmooth, SmoothRefl
<1> HIDE DEF a
<1>4. Calm(a) /\ DOMAIN a.node = DOMAIN w.node /\ a.node[c].parent = d /\ isDeletable(a, c)
  <2>1. a.node[c].parent = w.node[c].parent /\ a.node[c].kids = w.node[c].kids
    BY <1>3, SmoothKeeps
  <2>2. isDeletable(a, c)
    BY <2>1 DEF isDeletable, Kids
  <2> QED BY <1>3, <2>1, <2>2, SmoothCalm
<1>5. Calm(u) /\ DOMAIN u.node = DOMAIN w.node
  BY <1>4, DeleteChildCalm
<1> HIDE DEF u
<1>6. Calm(e) /\ DOMAIN e.node = DOMAIN w.node
  BY <1>5, ClearEmptyDirSmooth, SmoothCalm
<1> HIDE DEF e
<1>7. Calm(b) /\ DOMAIN b.node = DOMAIN w.node
  BY <1>5, <1>6 DEF Then
<1> HIDE DEF b
<1>8. Calm(t)
  BY <1>7, TouchCalm DEF Alive
<1> HIDE DEF t
<1>9. v.err = t.err
  BY <1>2, <1>8 DEF removeNode, Then, Calm, Good
<1>10. Parents(v)
  BY <1>1, GoodParents
<1>11. v.err = NoError => w.err = NoError /\ Shrunk(w, v)
  BY <1>1, <1>10, RemoveChildOfEffect, FreedShrunk
<1> QED BY <1>1, <1>8, <1>9, <1>11, ShrunkCalm DEF Calm

LEMMA RemoveFileCalm ==
  ASSUME NEW w, Calm(w), NEW req, NEW res, res.time \in Int,
         NEW d \in DOMAIN w.node \cup {NoNode}, NEW v, v = removeFile(w, req, res, d)
  PROVE  Calm(v)
<1> DEFINE c == w.node[d].kids[req.name]
<1>1. CASE v = w
  BY <1>1
<1>2. CASE /\ req.name \in Name /\ d # NoNode /\ c # NoNode /\ isDeletable(w, c)
           /\ v = RemoveChildOf(w, d, c, res.time)
  <2>1. d \in DOMAIN w.node /\ req.name \in Name /\ c # NoNode /\ Good(w)
    BY <1>2 DEF Calm
  <2>2. c \in DOMAIN w.node /\ w.node[c].parent = d
    BY <2>1, ChildAllocated
  <2> HIDE DEF c
  <2> QED BY <1>2, <2>1, <2>2, RemoveChildOfCalm
<1> QED BY <1>1, <1>2 DEF removeFile

LEMMA WriteToSmooth ==
  ASSUME NEW w, Calm(w), NEW n \in DOMAIN w.node, NEW req,
         req.offset \in Nat, req.count \in Nat, NEW v, v = WriteTo(w, n, req)
  PROVE  Smooth(w, v)
<1> DEFINE end   == (req.offset + req.count) % SizeSpace
           a     == IF end > w.node[n].size THEN SetSize(w, n, end) ELSE w
           trunc == w.node[n].size = 0
           u     == OpenNode(a, n, trunc)
<1>1. end \in Nat
  BY EngineAssumption
<1> HIDE DEF end
<1>2. Smooth(w, a)
  BY <1>1, SetSizeSmooth, SmoothRefl
<1> HIDE DEF a
<1>3. Calm(a) /\ DOMAIN a.node = DOMAIN w.node
  BY <1>2, SmoothCalm
<1>4. Smooth(a, u)
  BY <1>3, OpenNodeSmooth
<1>5. v = a \/ v = u \/ \E disk1 : v = [u EXCEPT !.disk = disk1]
  BY DEF WriteTo, Truncate, Fill, end, a, u
<1> HIDE DEF u
<1>6. Calm(u) /\ Smooth(w, u)
  BY <1>2, <1>3, <1>4, SmoothCalm, SmoothTrans
<1> QED BY <1>2, <1>5, <1>6, DiskSmooth, SmoothTrans

LEMMA WriteFileCalm ==
  ASSUME NEW w, Calm(w), NEW req, NEW res, res.time \in Int,
         req.offset \in Nat, req.count \in Nat,
         NEW d \in DOMAIN w.node \cup {NoNode}, NEW v, v = writeFile(w, req, res, d)
  PROVE  Calm(v)
<1> DEFINE n == OrNew(w, d)
           a == getOrCreateNode(w, req.fh, d, res.time)
           b == Touch(a, n, res.time)
           c == MakeParent(b, n)
           u == Then(b, c)
           e == calcPath(u, n)
           t == Then(u, e)
           f == WriteTo(t, n, req)
<1>1. CASE v = w
  BY <1>1
<1>2. CASE req.fh \in Handle /\ v = Then(t, f)
  <2>1. Calm(a) /\ Alive(a, n)
    <3>1. req.fh \in Handle
      BY <1>2
    <3>2. CASE d # NoNode
      BY <3>2 DEF getOrCreateNode, OrNew, Alive
    <3>3. CASE d = NoNode
      <4>1. handleName[req.fh] \in Name
        BY <3>1, TreeAssumption
      <4>2. a = createNode(w, req.fh, handleName[req.fh], res.time) /\ n = NewNode(w)
        BY <3>3 DEF getOrCreateNode, OrNew
      <4> HIDE DEF a, n
      <4> QED BY <3>1, <4>1, <4>2, CreateNodeCalm DEF Alive
    <3> QED BY <3>2, <3>3
  <2> HIDE DEF n, a
  <2>2. Calm(b) /\ Alive(b, n)
    <3>1. Calm(b)
      BY <2>1, TouchCalm
    <3>2. Good(a)
      BY <2>1 DEF Calm
    <3>3. Kept(a, b) /\ b.err = a.err
      BY <2>1, <3>2, TouchKept
    <3> HIDE DEF b
    <3> QED BY <2>1, <3>1, <3>3 DEF Kept, Alive
  <2> HIDE DEF b
  <2>3. Calm(u) /\ Alive(u, n)
    <3>1. CASE b.err # NoError
      BY <2>2, <3>1 DEF Then, Alive
    <3>2. CASE b.err = NoError
      <4>1. n \in DOMAIN b.node /\ u = c
        BY <2>2, <3>2 DEF Then, Alive
      <4>2. Calm(c) /\ DOMAIN c.node = DOMAIN b.node
        BY <2>2, <4>1, MakeParentSmooth, SmoothCalm
      <4> QED BY <4>1, <4>2 DEF Alive
    <3> QED BY <3>1, <3>2
  <2> HIDE DEF u
  <2>4. t = u
    BY <2>3, CalcPathSmooth DEF Then, Alive
  <2> HIDE DEF t
  <2>5. CASE t.err # NoError
    BY <1>2, <2>3, <2>4, <2>5 DEF Then
  <2>6. CASE t.err = NoError
    <3>1. n \in DOMAIN t.node /\ v = f
      BY <1>2, <2>3, <2>4, <2>6 DEF Then, Alive
    <3> QED BY <2>3, <2>4, <3>1, WriteToSmooth, SmoothCalm
  <2> QED BY <2>5, <2>6
<1> QED BY <1>1, <1>2 DEF writeFile

LEMMA GetAttrCalm ==
  ASSUME NEW w, Calm(w), NEW req, NEW res, res.time \in Int,
         NEW d \in DOMAIN w.node \cup {NoNode}, NEW v, v = getAttr(w, req, res, d)
  PROVE  Calm(v)
<1> DEFINE a == Touch(w, d, res.time)
           b == calcPath(a, d)
<1>1. CASE v = w
  BY <1>1
<1>2. CASE d # NoNode /\ (v = a \/ v = b)
  <2>1. d \in DOMAIN w.node
    BY <1>2
  <2>2. Calm(a) /\ DOMAIN a.node = DOMAIN w.node
    BY <2>1, TouchSmooth, SmoothCalm
  <2>3. b = a
    <3> HIDE DEF a
    <3> QED BY <2>1, <2>2, CalcPathSmooth
  <2> QED BY <1>2, <2>2, <2>3
<1> QED BY <1>1, <1>2 DEF getAttr

-----------------------------------------------------------------------------
(* RENAME.                                                                 *)

\* A name is free when its node was freed.
LEMMA FreedName ==
  ASSUME NEW w, Good(w), NEW t, Good(t), NEW q \in DOMAIN w.node, q \in DOMAIN t.node,
         NEW x \in Name, NEW b, b = w.node[q].kids[x], Freed(w, t, b)
  PROVE  t.node[q].kids[x] = NoNode
<1> DEFINE m == t.node[q].kids[x]
<1> SUFFICES ASSUME m # NoNode
             PROVE  FALSE
  OBVIOUS
<1>1. m \in DOMAIN t.node /\ t.node[m].parent = q /\ t.node[m].name = x
  BY ChildAllocated
<1>2. q # NoNode
  BY GoodParents
<1> HIDE DEF m
<1>3. m \in DOMAIN w.node /\ m # b /\ w.node[m].parent = q /\ w.node[m].name = x
  BY <1>1 DEF Freed, Stays
<1> QED BY <1>2, <1>3 DEF Good, Heap, ParentKnowsChild

\* The overwritten target is freed.
LEMMA TargetFreedCalm ==
  ASSUME NEW w, Calm(w), NEW q \in DOMAIN w.node, NEW b \in DOMAIN w.node,
         w.node[b].parent = q, isDeletable(w, b),
         NEW t, t = removeNode(deleteChild(w, q, b), b), Good(t)
  PROVE  Calm(t) /\ (t.err = NoError => w.err = NoError /\ Freed(w, t, b) /\ Shrunk(w, t))
<1> DEFINE u == deleteChild(w, q, b)
<1>1. Good(w) /\ Parents(t)
  BY GoodParents DEF Calm
<1>2. Calm(u)
  BY DeleteChildCalm
<1>3. t = removeNode(u, b)
  OBVIOUS
<1>4. t.err = NoError => w.err = NoError /\ Freed(w, t, b)
  BY <1>1, TargetFreedEffect
<1> HIDE DEF u
<1>5. t.err = u.err
  BY <1>2, <1>3 DEF removeNode, Then, Calm, Good
<1>6. t.err = NoError => Shrunk(w, t)
  BY <1>1, <1>4, FreedShrunk
<1> QED BY <1>2, <1>4, <1>5, <1>6, ShrunkCalm DEF Calm

\* The source is taken from its parent, named and added to the target's parent.
LEMMA SourceMovedCalm ==
  ASSUME NEW t, Calm(t), NEW a \in DOMAIN t.node, NEW p \in DOMAIN t.node,
         NEW q \in DOMAIN t.node, t.node[a].parent = p, NEW x \in Name,
         t.err = NoError => /\ t.node[q].kids[x] = NoNode
                            /\ NotBelow(t, t.node[q].fh, t.node[a].fh),
         NEW s, s = addChild(setName(removeChild(t, p, a), a, x), q, a)
  PROVE  Calm(s) /\ DOMAIN s.node = DOMAIN t.node
<1>1. p # NoNode
  BY GoodParents DEF Calm
<1>2. CASE t.err = NoError
  <2>1. s = addChild(setName(Detached(t, a), a, x), q, a)
    BY <1>1 DEF Detached
  <2> QED BY <1>2, <2>1, ReplacedCalm
<1>3. CASE t.err # NoError
  BY <1>3 DEF addChild, setName, removeChild, Check, Then
<1> QED BY <1>2, <1>3

\* Node a of p may be moved to name x of q, where b is.
Overwrites(u, p, a, q, b, x) ==
  /\ Calm(u) /\ a # b /\ x \in Name
  /\ a \in DOMAIN u.node /\ b \in DOMAIN u.node /\ p \in DOMAIN u.node /\ q \in DOMAIN u.node
  /\ u.node[a].parent = p /\ u.node[b].parent = q /\ u.node[q].kids[x] = b
  /\ isDeletable(u, b) /\ NotBelow(u, u.node[q].fh, u.node[a].fh)

\* Nothing is there any more.
Vacated(t, p, a, q, x) ==
  /\ Calm(t) /\ {a, p, q} \subseteq DOMAIN t.node /\ t.node[a].parent = p
  /\ t.err = NoError => /\ t.node[q].kids[x] = NoNode
                        /\ NotBelow(t, t.node[q].fh, t.node[a].fh)

\* Without its target, the move finds the name free.
LEMMA TargetGone ==
  ASSUME NEW u, NEW p, NEW a, NEW q, NEW b, NEW x, Overwrites(u, p, a, q, b, x)
  PROVE  Vacated(removeNode(deleteChild(u, q, b), b), p, a, q, x)
<1> DEFINE t == removeNode(deleteChild(u, q, b), b)
<1>0. t = removeNode(deleteChild(u, q, b), b)
  OBVIOUS
<1> HIDE DEF t
<1>1. /\ Calm(u) /\ Good(u)
      /\ a \in DOMAIN u.node /\ b \in DOMAIN u.node /\ p \in DOMAIN u.node /\ q \in DOMAIN u.node
  BY DEF Overwrites, Calm
<1>2. /\ u.node[a].parent = p /\ u.node[b].parent = q /\ u.node[q].kids[x] = b
      /\ isDeletable(u, b) /\ a # b /\ x \in Name
  BY DEF Overwrites
<1>3. Good(t) /\ {a, p, q} \subseteq DOMAIN t.node /\ t.node[a].parent = p
  BY <1>0, <1>1, <1>2, TargetFreed
<1>4. Calm(t) /\ (t.err = NoError => Freed(u, t, b) /\ Shrunk(u, t))
  BY <1>0, <1>1, <1>2, <1>3, TargetFreedCalm
<1>5. ASSUME t.err = NoError
      PROVE  t.node[q].kids[x] = NoNode /\ NotBelow(t, t.node[q].fh, t.node[a].fh)
  <2>1. t.node[q].kids[x] = NoNode
    BY <1>1, <1>2, <1>3, <1>4, <1>5, FreedName
  <2>2. t.node[q].fh = u.node[q].fh /\ t.node[a].fh = u.node[a].fh
    BY <1>1, <1>3, <1>4, <1>5 DEF Freed, Stays
  <2>3. NotBelow(t, u.node[q].fh, u.node[a].fh)
    BY <1>4, <1>5, ShrunkNotBelow DEF Overwrites
  <2> QED BY <2>1, <2>2, <2>3
<1>6. Vacated(t, p, a, q, x)
  BY <1>3, <1>4, <1>5 DEF Vacated
<1> QED BY <1>0, <1>6

LEMMA MoveOverCalm ==
  ASSUME NEW w, Calm(w), NEW p \in DOMAIN w.node, NEW a \in DOMAIN w.node,
         w.node[a].parent = p, NEW q \in DOMAIN w.node, NEW x \in Name,
         NEW b \in DOMAIN w.node \cup {NoNode}, b = w.node[q].kids[x],
         b # NoNode => w.node[b].parent = q /\ isDeletable(w, b), a # b,
         NotBelow(w, w.node[q].fh, w.node[a].fh),
         NEW z, z = MoveOver(w, p, a, q, b, x)
  PROVE  Calm(z)
<1> DEFINE v  == RenameOnDisk(w, a, q, x)
           sc == SetCreated(v, a)
           u  == IF v.node[b].created THEN sc ELSE v
           dl == removeNode(deleteChild(u, q, b), b)
           t  == IF b = NoNode THEN v ELSE dl
           s  == addChild(setName(removeChild(t, p, a), a, x), q, a)
           cl == clearEmptyDir(s, p)
<1>1. z = cl
  BY DEF MoveOver, Overwritten
<1>2. Smooth(w, v) /\ Calm(v) /\ DOMAIN v.node = DOMAIN w.node
  BY RenameOnDiskSmooth, SmoothCalm
<1> HIDE DEF v
<1>3. Smooth(v, sc)
  BY <1>2, SetCreatedSmooth
<1> HIDE DEF sc
<1>4. Smooth(w, u)
  BY <1>2, <1>3, SmoothTrans
<1> HIDE DEF u
<1>5. Calm(u) /\ DOMAIN u.node = DOMAIN w.node
  BY <1>4, SmoothCalm
<1>6. ASSUME NEW y, Smooth(w, y)
      PROVE  /\ y.node[a].parent = p /\ y.node[q].kids[x] = b
             /\ NotBelow(y, y.node[q].fh, y.node[a].fh)
             /\ b # NoNode => y.node[b].parent = q /\ isDeletable(y, b)
  <2>1. \A n \in DOMAIN w.node : /\ y.node[n].fh = w.node[n].fh
                                  /\ y.node[n].parent = w.node[n].parent
                                  /\ y.node[n].kids = w.node[n].kids
    BY <1>6 DEF Smooth, SameTree
  <2>2. \A g, h : NotBelow(w, g, h) => NotBelow(y, g, h)
    BY <1>6, SmoothKeeps
  <2>3. NotBelow(y, y.node[q].fh, y.node[a].fh)
    BY <2>1, <2>2
  <2>4. ASSUME b # NoNode
        PROVE  isDeletable(y, b)
    <3>1. b \in DOMAIN w.node /\ isDeletable(w, b)
      BY <2>4
    <3>2. y.node[b].kids = w.node[b].kids
      BY <2>1, <3>1
    <3> QED BY <3>1, <3>2 DEF isDeletable, Kids
  <2>5. y.node[a].parent = p /\ y.node[q].kids[x] = b
    BY <2>1
  <2>6. b # NoNode => y.node[b].parent = q
    BY <2>1
  <2> QED BY <2>3, <2>4, <2>5, <2>6
<1>7. Vacated(t, p, a, q, x)
  <2>1. CASE b = NoNode
    <3>1. t = v
      BY <2>1
    <3>2. Calm(v) /\ {a, p, q} \subseteq DOMAIN v.node
      BY <1>2
    <3>3. v.node[a].parent = p /\ v.node[q].kids[x] = NoNode
      BY <1>2, <1>6, <2>1
    <3>4. NotBelow(v, v.node[q].fh, v.node[a].fh)
      BY <1>2, <1>6
    <3> QED BY <3>1, <3>2, <3>3, <3>4 DEF Vacated
  <2>2. CASE b # NoNode
    <3>1. b \in DOMAIN u.node /\ u.node[b].parent = q /\ isDeletable(u, b) /\ Good(u)
      <4>1. b \in DOMAIN u.node /\ Good(u)
        BY <1>5, <2>2 DEF Calm
      <4>2. u.node[b].parent = q /\ isDeletable(u, b)
        BY <1>4, <1>6, <2>2
      <4> QED BY <4>1, <4>2
    <3>2. u.node[a].parent = p /\ u.node[q].kids[x] = b
      BY <1>4, <1>6
    <3>3. NotBelow(u, u.node[q].fh, u.node[a].fh)
      BY <1>4, <1>6
    <3>4. Overwrites(u, p, a, q, b, x)
      <4>1. Calm(u) /\ a \in DOMAIN u.node /\ p \in DOMAIN u.node /\ q \in DOMAIN u.node
        BY <1>5
      <4>2. a # b
        BY <2>2
      <4> QED BY <3>1, <3>2, <3>3, <4>1, <4>2, Zenon DEF Overwrites
    <3>5. Vacated(dl, p, a, q, x)
      <4> QED BY <3>4, TargetGone, Zenon
    <3>6. t = dl
      BY <2>2
    <3> HIDE DEF t, dl
    <3> QED BY <3>5, <3>6
  <2> QED BY <2>1, <2>2
<1> HIDE DEF t
<1>8. Calm(s) /\ p \in DOMAIN s.node
  BY <1>7, SourceMovedCalm DEF Vacated
<1> HIDE DEF s
<1> QED BY <1>1, <1>8, ClearEmptyDirSmooth, SmoothCalm

\* renameFile, once both directories are found.
LEMMA RenameInCalm ==
  ASSUME NEW w, Calm(w), NEW p \in DOMAIN w.node, NEW a \in DOMAIN w.node,
         w.node[a].parent = p, NEW q \in DOMAIN w.node, NEW req, req.name2 \in Name,
         NotBelow(w, w.node[q].fh, w.node[a].fh),
         NEW z, z = RenameIn(w, p, a, q, req)
  PROVE  Calm(z)
<1> DEFINE b == w.node[q].kids[req.name2]
<1>1. CASE z = w
  BY <1>1
<1>2. CASE (b = NoNode \/ isDeletable(w, b)) /\ a # b /\ z = MoveOver(w, p, a, q, b, req.name2)
  <2>1. b # NoNode => b \in DOMAIN w.node /\ w.node[b].parent = q /\ isDeletable(w, b)
    <3>1. b # NoNode => b \in DOMAIN w.node /\ w.node[b].parent = q
      BY DEF Calm, Good, Heap, ChildKnowsParent
    <3> HIDE DEF b
    <3> QED BY <1>2, <3>1
  <2>2. b = w.node[q].kids[req.name2]
    OBVIOUS
  <2> HIDE DEF b
  <2> QED BY <1>2, <2>1, <2>2, MoveOverCalm
<1> QED BY <1>1, <1>2 DEF RenameIn

\* getNode finds the same nodes.
LEMMA SmoothFound ==
  ASSUME NEW w, Calm(w), NEW v, Smooth(w, v), NEW h
  PROVE  getNode(v, h) = getNode(w, h)
<1>1. /\ DOMAIN v.node = DOMAIN w.node
      /\ \A n \in DOMAIN w.node : v.node[n].fh = w.node[n].fh
  BY SmoothCalm, SmoothKeeps
<1> QED BY <1>1 DEF getNode

LEMMA SmoothQuiet ==
  ASSUME NEW w, Calm(w), NEW v, Smooth(w, v)
  PROVE  Quiet(w, v)
BY SameTreeQuiet DEF Smooth, Calm

LEMMA RenameFileCalm ==
  ASSUME NEW w, Calm(w), NEW req, NEW res, res.time \in Int,
         NEW d \in getNode(w, req.fh), NEW f \in getNode(w, req.fh2),
         NEW K, Typed(w, K), IsKind(K, req.fh2, "DIR"),
         NEW E, Mirrors(w, E), Outside(E, req.fh2, E[<<req.fh, req.name>>]),
         NEW z, z = renameFile(w, req, res, d, f)
  PROVE  Calm(z)
<1> DEFINE a  == w.node[d].kids[req.name]
           q  == OrNew(w, f)
           t1 == Touch(w, d, res.time)
           t2 == Touch(t1, a, res.time)
           v  == VisitDir(t2, req.fh2, f, res.time)
           r  == RenameIn(v, d, a, q, req)
<1>1. CASE z = w
  BY <1>1
<1>2. CASE /\ req.fh2 \in Handle /\ req.name \in Name /\ req.name2 \in Name
           /\ d # NoNode /\ a # NoNode /\ z = Then(v, r)
  <2>1. /\ req.fh2 \in Handle /\ req.name \in Name /\ req.name2 \in Name /\ Good(w)
        /\ d \in DOMAIN w.node /\ w.node[d].fh = req.fh /\ a # NoNode /\ NoNode \notin DOMAIN w.node
    <3>1. Good(w) /\ NoNode \notin DOMAIN w.node
      BY GoodParents DEF Calm
    <3>2. d # NoNode
      BY <1>2
    <3>3. d \in DOMAIN w.node /\ w.node[d].fh = req.fh
      BY <3>1, <3>2, NotFound
    <3> HIDE DEF v, r
    <3> QED BY <1>2, <3>1, <3>3
  <2>2. /\ a \in DOMAIN w.node /\ w.node[a].parent = d
        /\ Outside(E, req.fh2, w.node[a].fh)
    <3>1. Has(E, req.fh, req.name, w.node[a].fh) /\ a \in DOMAIN w.node
      BY <2>1, KnownEntry
    <3>2. w.node[a].parent = d
      BY <2>1, ChildAllocated
    <3> HIDE DEF a
    <3> QED BY <3>1, <3>2 DEF Has
  <2> HIDE DEF a
  <2>3. Smooth(w, t1) /\ Calm(t1) /\ DOMAIN t1.node = DOMAIN w.node
    BY <2>1, TouchSmooth, SmoothCalm
  <2> HIDE DEF t1
  <2>4. Smooth(t1, t2)
    BY <2>2, <2>3, TouchSmooth
  <2>5. Smooth(w, t2)
    BY <2>3, <2>4, SmoothTrans
  <2>6. Calm(t2) /\ DOMAIN t2.node = DOMAIN w.node
    BY <2>5, SmoothCalm
  <2> HIDE DEF t2, q
  <2>7. Quiet(w, t2) /\ Good(t2) /\ f \in getNode(t2, req.fh2)
    BY <2>5, <2>6, SmoothQuiet, SmoothFound DEF Calm
  <2>8. Typed(t2, K) /\ Mirrors(t2, E)
    BY <2>7, QuietTyped, QuietMirrors
  <2>9. f \in DOMAIN t2.node \cup {NoNode} /\ (f # NoNode => t2.node[f].dir)
    BY <2>7, <2>8, FoundDir
  <2>10. q = OrNew(t2, f)
    BY <2>6 DEF OrNew, NewNode, q
  <2>11. Calm(v) /\ (v.err = NoError => q \in DOMAIN v.node)
    BY <2>1, <2>6, <2>9, <2>10, VisitDirCalm
  <2>12. v.err = NoError => Visited(t2, v, req.fh2, f)
    BY <2>1, <2>7, <2>9, VisitDirEffect
  <2> HIDE DEF v
  <2>13. CASE v.err # NoError
    BY <1>2, <2>11, <2>13 DEF Then
  <2>14. CASE v.err = NoError
    <3>1. z = r /\ q \in DOMAIN v.node /\ Visited(t2, v, req.fh2, f)
      BY <1>2, <2>11, <2>12, <2>14 DEF Then
    <3>2. v.node[q].fh = req.fh2 /\ d \in DOMAIN v.node /\ a \in DOMAIN v.node
          /\ Stays(t2, v, a)
      BY <2>1, <2>2, <2>6, <2>7, <2>10, <3>1, VisitedHandle
    <3>3. v.node[a].parent = d /\ v.node[a].fh = w.node[a].fh
      BY <2>2, <2>7, <3>2 DEF Stays, Quiet
    <3>4. Mirrors(v, E)
      BY <2>8, <3>1, VisitedMirrors
    <3>5. NotBelow(v, v.node[q].fh, v.node[a].fh)
      BY <2>2, <3>2, <3>3, <3>4, MirrorsNotBelow
    <3> QED BY <2>1, <2>11, <3>1, <3>2, <3>3, <3>5, RenameInCalm
  <2> QED BY <2>13, <2>14
<1> HIDE DEF a, q, t1, t2, v, r
<1> QED BY <1>1, <1>2 DEF renameFile, a, q, t1, t2, v, r

-----------------------------------------------------------------------------
(* LINK and SYMLINK.                                                       *)

\* A new node that the disk may hold already.
LEMMA PlacedCalm ==
  ASSUME NEW u, Calm(u), NEW n, Alive(u, n), u.err = NoError,
         NEW v, v = SetCreated(u, n) \/ \E d : v = [SetCreated(u, n) EXCEPT !.disk = d]
  PROVE  Calm(v)
<1> DEFINE a == SetCreated(u, n)
<1>1. Calm(a)
  BY SetCreatedSmooth, SmoothCalm DEF Alive
<1> HIDE DEF a
<1>2. \A d : Calm([a EXCEPT !.disk = d])
  BY <1>1, DiskSmooth, SmoothCalm
<1> QED BY <1>1, <1>2 DEF a

LEMMA LinkInCalm ==
  ASSUME NEW w, Calm(w), NEW p \in DOMAIN w.node, NEW s \in DOMAIN w.node,
         NEW x \in Name, NEW time \in Int,
         w.node[p].kids[x] = NoNode, NotBelow(w, w.node[p].fh, w.node[s].fh),
         NEW z, z = LinkIn(w, p, s, x, time)
  PROVE  Calm(z)
<1> DEFINE b == makePath(w, p)
           v == IF w.node[s].created THEN b ELSE w
           n == NewNode(w)
           h == w.node[s].fh
           f == FALSE
           u == AddNew(v, p, h, x, time, f)
<1>1. calcPath(w, s) = w
  BY CalcPathSmooth
<1>2. Smooth(w, v)
  BY MakePathSmooth, SmoothRefl
<1>3. \/ z = u
      \/ /\ u.err = NoError
         /\ z = SetCreated(u, n) \/ \E d : z = [SetCreated(u, n) EXCEPT !.disk = d]
  BY <1>1 DEF LinkIn, LinkOnDisk
<1> HIDE DEF v
<1>4. Calm(v) /\ Good(v) /\ DOMAIN v.node = DOMAIN w.node
  BY <1>2, SmoothCalm DEF Calm
<1>5. v.node[p].kids[x] = NoNode /\ NotBelow(v, v.node[p].fh, h)
  BY <1>2, SmoothKeeps
<1>6. h \in Handle /\ f \in BOOLEAN
  BY DEF Calm, Good, Heap, NodeType
<1>7. n = NewNode(v)
  BY <1>4 DEF NewNode
<1> HIDE DEF h, f, n
<1>8. Calm(u)
  BY <1>4, <1>5, <1>6, AddNewCalm
<1>9. Alive(u, n)
  BY <1>4, <1>6, <1>7, AddNewGood DEF Alive
<1> HIDE DEF u
<1> QED BY <1>3, <1>8, <1>9, PlacedCalm

LEMMA SymlinkInCalm ==
  ASSUME NEW w, Calm(w), NEW p \in DOMAIN w.node, NEW h \in Handle,
         NEW x \in Name, NEW time \in Int,
         w.node[p].kids[x] = NoNode, NotBelow(w, w.node[p].fh, h),
         NEW z, z = SymlinkIn(w, p, h, x, time)
  PROVE  Calm(z)
<1> DEFINE n == NewNode(w)
           f == FALSE
           v == AddNew(w, p, h, x, time, f)
           u == calcPath(v, p)
<1>1. f \in BOOLEAN /\ Good(w)
  BY DEF Calm
<1>2. \/ z = v \/ z = u
      \/ /\ v.err = NoError
         /\ z = SetCreated(v, n) \/ \E d : z = [SetCreated(v, n) EXCEPT !.disk = d]
  BY DEF SymlinkIn, SymlinkOnDisk, Then
<1> HIDE DEF f
<1>3. Calm(v)
  BY <1>1, AddNewCalm
<1>4. Alive(v, n) /\ p \in DOMAIN v.node
  BY <1>1, AddNewGood DEF Alive
<1> HIDE DEF v, n
<1>5. u = v
  BY <1>3, <1>4, CalcPathSmooth
<1> HIDE DEF u
<1> QED BY <1>2, <1>3, <1>4, <1>5, PlacedCalm

\* A name the server did not have is free.
LEMMA FreeEntry ==
  ASSUME NEW w, Good(w), NEW E, Mirrors(w, E), NEW p \in DOMAIN w.node, NEW x \in Name,
         NEW g, w.node[p].fh = g, <<g, x>> \notin DOMAIN E
  PROVE  w.node[p].kids[x] = NoNode
<1> DEFINE c == w.node[p].kids[x]
<1>1. c # NoNode => Has(E, g, x, w.node[c].fh)
  BY KnownEntry
<1> QED BY <1>1 DEF Has

\* The server has the new entry in F; it did not have it in E.
NewEntry(E, F, g, x, h) ==
  /\ Acyclic(F) /\ Has(F, g, x, h)
  /\ <<g, x>> \notin DOMAIN E /\ Keeps(E, F)

LEMMA NewEntryFree ==
  ASSUME NEW w, Good(w), NEW p \in DOMAIN w.node, NEW x \in Name,
         NEW g, w.node[p].fh = g, NEW h,
         NEW E, Mirrors(w, E), NEW F, NewEntry(E, F, g, x, h)
  PROVE  w.node[p].kids[x] = NoNode /\ NotBelow(w, g, h)
<1>1. w.node[p].kids[x] = NoNode
  BY FreeEntry DEF NewEntry
<1>2. Mirrors(w, F)
  BY KeepsMirrors DEF NewEntry
<1>3. Outside(F, g, h)
  <2> DEFINE k == <<g, x>>
  <2>1. k \in DOMAIN F /\ F[k] = h /\ k[1] = g /\ Acyclic(F)
    BY DEF NewEntry, Has
  <2> HIDE DEF k
  <2> QED BY <2>1 DEF Acyclic
<1> QED BY <1>1, <1>2, <1>3, MirrorsNotBelow

LEMMA CreateSymlinkCalm ==
  ASSUME NEW w, Calm(w), NEW req, NEW res, res.time \in Int,
         NEW d \in getNode(w, req.fh),
         NEW K, Typed(w, K), IsKind(K, req.fh, "DIR"),
         NEW E, Mirrors(w, E), NEW F, NewEntry(E, F, req.fh, req.name, res.fh),
         NEW z, z = createSymlink(w, req, res, d)
  PROVE  Calm(z)
<1> DEFINE v == VisitDir(w, req.fh, d, res.time)
           p == OrNew(w, d)
           y == SymlinkIn(v, p, res.fh, req.name, res.time)
<1>1. d \in DOMAIN w.node \cup {NoNode} /\ (d # NoNode => w.node[d].dir) /\ Good(w)
  BY FoundDir DEF Calm
<1>2. CASE z = w
  BY <1>2
<1>3. CASE /\ req.fh \in Handle /\ res.fh \in Handle /\ req.name \in Name
           /\ z = v \/ v.err = NoError
           /\ v.node[p].kids[req.name] = NoNode /\ v.err = NoError => z = v \/ z = y
  <2>1. Calm(v) /\ (v.err = NoError => p \in DOMAIN v.node)
    BY <1>1, <1>3, VisitDirCalm
  <2>2. v.err = NoError => Visited(w, v, req.fh, d)
    BY <1>1, <1>3, VisitDirEffect
  <2> HIDE DEF v
  <2>3. ASSUME v.err = NoError
        PROVE  Calm(z)
    <3>1. v.node[p].fh = req.fh
      BY <1>1, <2>2, <2>3, VisitedHandle
    <3>2. Mirrors(v, E) /\ Good(v) /\ p \in DOMAIN v.node
      BY <2>1, <2>2, <2>3, VisitedMirrors DEF Calm
    <3> HIDE DEF p
    <3>3. v.node[p].kids[req.name] = NoNode /\ NotBelow(v, req.fh, res.fh)
      BY <1>3, <3>1, <3>2, NewEntryFree
    <3>4. Calm(y)
      BY <1>3, <2>1, <3>1, <3>2, <3>3, SymlinkInCalm
    <3> QED BY <1>3, <2>1, <2>3, <3>3, <3>4
  <2> QED BY <1>3, <2>1, <2>3
<1> HIDE DEF v, p, y
<1> QED BY <1>2, <1>3 DEF createSymlink, Then, v, p, y

LEMMA CreateLinkCalm ==
  ASSUME NEW w, Calm(w), NEW req, NEW res, res.time \in Int,
         NEW s \in getNode(w, req.fh), NEW f \in getNode(w, req.fh2),
         NEW K, Typed(w, K), IsKind(K, req.fh2, "DIR"),
         NEW E, Mirrors(w, E), NEW F, NewEntry(E, F, req.fh2, req.name, req.fh),
         NEW z, z = createLink(w, req, res, s, f)
  PROVE  Calm(z)
<1> DEFINE a == Touch(w, s, res.time)
           v == VisitDir(a, req.fh2, f, res.time)
           p == OrNew(w, f)
           y == LinkIn(v, p, s, req.name, res.time)
<1>0. Good(w) /\ NoNode \notin DOMAIN w.node
  BY GoodParents DEF Calm
<1>1. CASE z = w
  BY <1>1
<1>2. CASE /\ req.fh2 \in Handle /\ req.name \in Name /\ s # NoNode
           /\ z = v \/ v.err = NoError
           /\ v.node[p].kids[req.name] = NoNode /\ v.err = NoError => z = v \/ z = y
  <2>1. s \in DOMAIN w.node /\ w.node[s].fh = req.fh
    BY <1>0, <1>2, NotFound
  <2>2. Smooth(w, a)
    BY <2>1, TouchSmooth
  <2> HIDE DEF a
  <2>3. Calm(a) /\ DOMAIN a.node = DOMAIN w.node /\ Quiet(w, a)
    BY <2>2, SmoothCalm, SmoothQuiet
  <2>4. Good(a) /\ f \in getNode(a, req.fh2)
    BY <2>2, <2>3, SmoothFound DEF Calm
  <2>5. Typed(a, K) /\ Mirrors(a, E)
    BY <2>3, QuietTyped, QuietMirrors
  <2>6. f \in DOMAIN a.node \cup {NoNode} /\ (f # NoNode => a.node[f].dir)
    BY <2>4, <2>5, FoundDir
  <2>7. p = OrNew(a, f)
    BY <2>3 DEF OrNew, NewNode
  <2> HIDE DEF p
  <2>8. req.fh2 \in Handle /\ req.name \in Name
    BY <1>2
  <2>9. Calm(v) /\ (v.err = NoError => p \in DOMAIN v.node)
    BY <2>3, <2>6, <2>7, <2>8, VisitDirCalm
  <2>10. v.err = NoError => Visited(a, v, req.fh2, f)
    BY <2>4, <2>6, <2>8, VisitDirEffect
  <2> HIDE DEF v
  <2>11. ASSUME v.err = NoError
         PROVE  Calm(z)
    <3>1. /\ v.node[p].fh = req.fh2 /\ s \in DOMAIN v.node
          /\ Stays(a, v, s)
      BY <2>1, <2>3, <2>4, <2>7, <2>10, <2>11, VisitedHandle
    <3>2. v.node[s].fh = req.fh
      BY <2>1, <2>3, <3>1 DEF Stays, Quiet
    <3>3. Mirrors(v, E) /\ Good(v) /\ p \in DOMAIN v.node
      BY <2>5, <2>9, <2>10, <2>11, VisitedMirrors DEF Calm
    <3>4. v.node[p].kids[req.name] = NoNode /\ NotBelow(v, req.fh2, req.fh)
      BY <2>8, <3>1, <3>3, NewEntryFree
    <3>5. Calm(y)
      BY <2>8, <2>9, <3>1, <3>2, <3>3, <3>4, LinkInCalm
    <3> QED BY <1>2, <2>9, <2>11, <3>4, <3>5
  <2> QED BY <1>2, <2>9, <2>11
<1> HIDE DEF a, v, p, y
<1> QED BY <1>1, <1>2 DEF createLink, Then, a, v, p, y

-----------------------------------------------------------------------------
(* Garbage collection.                                                     *)

LEMMA NoWhirls ==
  ASSUME NEW w, Good(w), Layered(w.node), NEW n \in DOMAIN w.node
  PROVE  ~OnCycle(w, n)
<1> DEFINE p == w.node[n].parent
           s == Chain(w, p)
           L == Len(s)
<1> SUFFICES ASSUME p # NoNode, n \in ToSet(s)
             PROVE  FALSE
  BY DEF OnCycle
<1>1. p \in DOMAIN w.node
  BY DEF Good, Heap, ParentKnowsChild
<1>2. IsChain(w, s, p)
  <2> HIDE DEF p
  <2> QED BY <1>1, ChainIsChain
<1>3. PICK i \in DOMAIN s : s[i] = n
  BY DEF ToSet
<1> HIDE DEF s, p
<1>4. /\ L \in Nat \ {0} /\ s[L] = p /\ i \in 1 .. L
      /\ \A k \in 1 .. L : s[k] \in DOMAIN w.node
      /\ \A k \in 1 .. L - 1 : w.node[s[k + 1]].parent = s[k]
  BY <1>2 DEF IsChain
<1> HIDE DEF L
<1> DEFINE S == {s[k] : k \in i .. L}
<1>5. S \subseteq DOMAIN w.node /\ p \in S
  BY <1>4
<1>6. ASSUME NEW k \in i .. L
      PROVE  w.node[s[k]].parent \in S
  <2>1. CASE k = i
    BY <1>3, <1>5, <2>1 DEF p
  <2>2. CASE k # i
    <3>1. k - 1 \in i .. L /\ k - 1 \in 1 .. L - 1 /\ (k - 1) + 1 = k
      BY <1>4, <2>2
    <3>2. w.node[s[k]].parent = s[k - 1]
      BY <1>4, <3>1
    <3> QED BY <3>1, <3>2
  <2> QED BY <2>1, <2>2
<1>7. \A m \in S : w.node[m].parent \in S
  BY <1>6
<1> HIDE DEF S
<1> QED BY <1>5, <1>7, NoCycle

\* gc throws nothing, and its walk comes to an end.
LEMMA GcCollects ==
  ASSUME NEW w, Good(w), Layered(w.node), NEW time, NEW v \in gc(w, time)
  PROVE  v = Collected(w, time)
<1>1. Misfits(w, time) = {}
  <2>1. \A n \in DOMAIN w.node :
          w.node[n].parent # NoNode => w.node[w.node[n].parent].fh # w.node[n].fh
    BY ParentOther
  <2> QED BY <2>1, GarbageClosed DEF Misfits
<1>2. Whirls(w, time) = {}
  BY NoWhirls DEF Whirls
<1> QED BY <1>1, <1>2 DEF gc

LEMMA GcCalm ==
  ASSUME NEW w, Calm(w), w.err = NoError, NEW time, NEW v \in gc(w, time)
  PROVE  Calm(v) /\ v.err = NoError
<1>1. Good(w) /\ Layered(w.node)
  BY DEF Calm
<1>2. v = Collected(w, time)
  BY <1>1, GcCollects
<1>3. v.err = NoError
  BY <1>1, <1>2 DEF Collected, Good
<1>4. Good(v)
  BY <1>1, GcGood
<1>5. Pruned(w, v)
  BY <1>1, <1>3, GcEffect
<1>6. Shrunk(w, v)
  BY <1>4, <1>5, GoodParents, PrunedShrunk
<1> QED BY <1>3, <1>4, <1>6, ShrunkCalm

-----------------------------------------------------------------------------
(* A trace that has lost nothing.                                          *)

\* What the server adds to its directories when it answers a LINK or a SYMLINK.
LEMMA ServeNewEntry ==
  ASSUME ServerOK, Acyclic(entry), NEW x, Server!Serve(x), x.res.op \in {"LINK", "SYMLINK"}
  PROVE  /\ x.res.op = "LINK" =>
              NewEntry(entry, entry', x.req.fh2, x.req.name, x.req.fh)
         /\ x.res.op = "SYMLINK" =>
              NewEntry(entry, entry', x.req.fh, x.req.name, x.res.fh)
<1>1. Acyclic(entry')
  BY ServeAcyclic
<1>2. Keeps(entry, entry') /\ Told(entry', x)
  BY ServeTold
<1>3. x.res.op = "LINK" => <<x.req.fh2, x.req.name>> \notin DOMAIN entry
  BY DEF Server!Serve, Server!ServeLookup, Server!ServeReopen, Server!Reopens, Server!ServeMake,
         Server!ServeRemove, Server!ServeRename, Server!ServeLink, Server!ServeFile, Server!Taken
<1>4. x.res.op = "SYMLINK" => <<x.req.fh, x.req.name>> \notin DOMAIN entry
  BY DEF Server!Serve, Server!ServeLookup, Server!ServeReopen, Server!Reopens, Server!ServeMake,
         Server!ServeRemove, Server!ServeRename, Server!ServeLink, Server!ServeFile, Server!Taken
<1> QED BY <1>1, <1>2, <1>3, <1>4 DEF NewEntry, Told

\* Every frame leaves a world in which nothing was thrown.
LEMMA ServedCalm ==
  ASSUME ServerOK, Acyclic(entry), NEW x \in Exchange, Server!Serve(x),
         NEW io, NEW w, w = World(io), Calm(w), Typed(w, kind), Mirrors(w, entry), Process(x, io)
  PROVE  \E v : Commit(v) /\ Calm(v)
<1>1. /\ x.res.time \in Int /\ x.res.size \in Nat
      /\ x.req.offset \in Nat /\ x.req.count \in Nat
  BY EngineAssumption
<1>2. Keeps(kind, kind') /\ Truthful(kind', x)
  BY ServeOK DEF ServerStep
<1>3. Typed(w, kind') /\ Acyclic(entry')
  BY <1>2, KeepsTyped, ServeAcyclic
<1>4. \A h : \A n \in getNode(w, h) : n \in DOMAIN w.node \cup {NoNode}
  BY DEF getNode
<1>5. CASE ReplayLookup(x, io) \/ ReplayCreate(x, io)
  <2>1. x.res.op \in {"LOOKUP", "CREATE", "MKDIR"}
    BY <1>5 DEF ReplayLookup, ReplayCreate
  <2>2. Keeps(entry, entry') /\ Told(entry', x)
    BY <2>1, ServeTold
  <2>3. EntryServed(w, x.req, x.res, kind', entry')
    BY <1>2, <1>3, <2>1, <2>2, KeepsMirrors DEF EntryServed, Truthful, Told
  <2>4. PICK d \in getNode(w, x.req.fh), e \in getNode(w, x.res.fh) :
          \/ Commit(createLookup(w, x.req, x.res, d, e))
          \/ Commit(createFile(w, x.req, x.res, d, e))
    BY <1>5 DEF ReplayLookup, ReplayCreate, Found, World, getNode
  <2>5. Calm(createLookup(w, x.req, x.res, d, e)) /\ Calm(createFile(w, x.req, x.res, d, e))
    BY <1>1, <2>3, CreateLookupCalm, CreateFileCalm
  <2> QED BY <2>4, <2>5
<1>6. CASE ReplayRemove(x, io)
  <2>1. PICK d \in getNode(w, x.req.fh) : Commit(removeFile(w, x.req, x.res, d))
    BY <1>6 DEF ReplayRemove, Found, World, getNode
  <2>2. Calm(removeFile(w, x.req, x.res, d))
    BY <1>1, <1>4, RemoveFileCalm
  <2> QED BY <2>1, <2>2
<1>7. CASE ReplayWrite(x, io)
  <2>1. PICK d \in getNode(w, x.req.fh) : Commit(writeFile(w, x.req, x.res, d))
    BY <1>7 DEF ReplayWrite, Found, World, getNode
  <2>2. Calm(writeFile(w, x.req, x.res, d))
    BY <1>1, <1>4, WriteFileCalm
  <2> QED BY <2>1, <2>2
<1>8. CASE ReplayRename(x, io)
  <2>1. PICK d \in getNode(w, x.req.fh), f \in getNode(w, x.req.fh2) :
          Commit(renameFile(w, x.req, x.res, d, f))
    BY <1>8 DEF ReplayRename, Found, World, getNode
  <2>2. x.res.op = "RENAME"
    BY <1>8 DEF ReplayRename
  <2>3. Server!ServeRename(x)
    BY <2>2, ServeTold
  <2>4. IsKind(kind', x.req.fh2, "DIR")
    BY <1>2, <2>2 DEF Truthful
  <2>5. Outside(entry, x.req.fh2, entry[<<x.req.fh, x.req.name>>])
    BY <2>3, NotUnder DEF Server!ServeRename
  <2>6. Calm(renameFile(w, x.req, x.res, d, f))
    BY <1>1, <1>3, <2>4, <2>5, RenameFileCalm
  <2> QED BY <2>1, <2>6
<1>9. CASE ReplayLink(x, io)
  <2>1. PICK s \in getNode(w, x.req.fh), f \in getNode(w, x.req.fh2) :
          Commit(createLink(w, x.req, x.res, s, f))
    BY <1>9 DEF ReplayLink, Found, World, getNode
  <2>2. x.res.op = "LINK"
    BY <1>9 DEF ReplayLink
  <2>3. NewEntry(entry, entry', x.req.fh2, x.req.name, x.req.fh)
    BY <2>2, ServeNewEntry
  <2>4. IsKind(kind', x.req.fh2, "DIR")
    BY <1>2, <2>2 DEF Truthful
  <2>5. Calm(createLink(w, x.req, x.res, s, f))
    BY <1>1, <1>3, <2>3, <2>4, CreateLinkCalm
  <2> QED BY <2>1, <2>5
<1>10. CASE ReplaySymlink(x, io)
  <2>1. PICK d \in getNode(w, x.req.fh) : Commit(createSymlink(w, x.req, x.res, d))
    BY <1>10 DEF ReplaySymlink, Found, World, getNode
  <2>2. x.res.op = "SYMLINK"
    BY <1>10 DEF ReplaySymlink
  <2>3. NewEntry(entry, entry', x.req.fh, x.req.name, x.res.fh)
    BY <2>2, ServeNewEntry
  <2>4. IsKind(kind', x.req.fh, "DIR")
    BY <1>2, <2>2 DEF Truthful
  <2>5. Calm(createSymlink(w, x.req, x.res, d))
    BY <1>1, <1>3, <2>3, <2>4, CreateSymlinkCalm
  <2> QED BY <2>1, <2>5
<1>11. CASE ReplayGetAttr(x, io) \/ ReplaySetAttr(x, io)
  <2>1. PICK d \in getNode(w, x.req.fh) : Commit(getAttr(w, x.req, x.res, d))
    BY <1>11 DEF ReplayGetAttr, ReplaySetAttr, setAttr, Found, World, getNode
  <2>2. Calm(getAttr(w, x.req, x.res, d))
    BY <1>1, <1>4, GetAttrCalm
  <2> QED BY <2>1, <2>2
<1> QED BY <1>5, <1>6, <1>7, <1>8, <1>9, <1>10, <1>11 DEF Process

\* What calls fail is no part of it.
LEMMA CalmWorld ==
  ASSUME NEW io, NEW jo, Calm(World(io))
  PROVE  Calm(World(jo))
BY DEF Calm, Good, World

LEMMA CalmCommit ==
  ASSUME NEW v, Commit(v), Calm(v)
  PROVE  Calm(World({}))'
<1>1. World({})'.node = v.node /\ World({})'.err = v.err
      /\ DOMAIN World({})' = {"node", "disk", "err", "io"}
  BY DEF Commit, World
<1> HIDE DEF World
<1> QED BY <1>1 DEF Calm, Good

\* The inductive invariant.
CalmInv == ServedInv /\ Acyclic(entry) /\ Calm(World({}))

LEMMA ReplayedCalm ==
  ASSUME CalmInv, NEW x \in Exchange, NEW io \in Faults, Server!Serve(x), Process(x, io),
         err = NoError
  PROVE  Acyclic(entry)' /\ Calm(World({}))'
<1> DEFINE w == World(io)
<1>1. ServerOK /\ Acyclic(entry) /\ Calm(w)
  BY CalmWorld DEF CalmInv, ServedInv, LossyInv
<1>2. w.node = node /\ World({}).node = node
  BY DEF World
<1> HIDE DEF w
<1>3. Typed(w, kind) /\ Mirrors(w, entry)
  BY <1>2 DEF CalmInv, ServedInv, LossyInv, Typed, KindsOf, OneEach, Mirrors
<1>4. \E v : Commit(v) /\ Calm(v)
  BY <1>1, <1>3, ServedCalm DEF w
<1> QED BY <1>1, <1>4, ServeAcyclic, CalmCommit

LEMMA CollectCalm ==
  ASSUME CalmInv, NEW time, Collect(time), UNCHANGED server, err = NoError
  PROVE  Acyclic(entry)' /\ Calm(World({}))'
<1>1. World({}).err = NoError /\ Calm(World({})) /\ Acyclic(entry)'
  BY DEF World, CalmInv, server
<1>2. PICK v \in gc(World({}), time) : Commit(v)
  BY DEF Collect
<1>3. Calm(v)
  BY <1>1, GcCalm
<1> QED BY <1>1, <1>2, <1>3, CalmCommit

LEMMA CalmInductive == ServedSpec => []CalmInv
<1>1. ServedInit /\ ServedInv => CalmInv
  <2> SUFFICES ASSUME ServedInit, ServedInv
               PROVE  Acyclic(entry) /\ Calm(World({}))
    BY DEF CalmInv
  <2>1. DOMAIN entry = {} /\ DOMAIN World({}).node = {} /\ World({}).err = NoError
    BY DEF ServedInit, Server!Init, Init, World
  <2>2. Good(World({}))
    BY DEF ServedInv, LossyInv, IInv
  <2> QED BY <2>1, <2>2 DEF Acyclic, Calm, Layered
<1>2. CalmInv /\ [ServedNext]_served /\ ServedInv' => CalmInv'
  <2> SUFFICES ASSUME CalmInv, [ServedNext]_served, ServedInv'
               PROVE  Acyclic(entry)' /\ Calm(World({}))'
    BY DEF CalmInv
  <2>1. CASE UNCHANGED served
    <3>1. World({})' = World({}) /\ entry' = entry
      BY <2>1 DEF served, server, World
    <3> QED BY <3>1 DEF CalmInv
  <2>2. CASE err = NoError /\ (Frame \/ TwinRename)
    BY <2>2, ReplayedCalm DEF Frame, TwinRename, Replayed
  <2>3. CASE err = NoError /\ Collection
    BY <2>3, CollectCalm DEF Collection
  <2> QED BY <2>1, <2>2, <2>3 DEF ServedNext
<1> QED BY <1>1, <1>2, ServedInductive, PTL DEF ServedSpec

\* A trace that has lost nothing ends the replay with no exception, unless memory runs
\* out, if the replay knows what is renamed: no name is ever missing or taken, no
\* directory is put below itself, and no file has to be taken for another, whatever
\* system calls fail on the disk.
THEOREM NothingThrown == ServedSpec => []NoException
<1>1. CalmInv => NoException
  BY DEF CalmInv, Calm, World, NoException
<1> QED BY <1>1, CalmInductive, PTL
=============================================================================
