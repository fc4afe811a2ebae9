----------------------------- MODULE DiskProofs ------------------------------
(***************************************************************************)
(* The tree and the disk: what the tree calls created is on the disk, at   *)
(* the path of its node, and nothing else is.                              *)
(***************************************************************************)
EXTENDS ServedProofs

-----------------------------------------------------------------------------
(* Paths.  PathOf is computed along a chain; what the proofs need is that  *)
(* it is the one placement that extends the parent's path by the name.     *)

\* The start of a sequence.
LEMMA Start ==
  ASSUME NEW S, NEW s \in Seq(S), NEW k \in 1 .. Len(s)
  PROVE  /\ SubSeq(s, 1, k) \in Seq(S) /\ Len(SubSeq(s, 1, k)) = k
         /\ \A i \in 1 .. k : SubSeq(s, 1, k)[i] = s[i]
OBVIOUS

\* A rooted chain.
Anchored(w, s, n) == IsChain(w, s, n) /\ w.node[s[1]].parent = NoNode

\* The chain of a node is one.
LEMMA ChainAnchored ==
  ASSUME NEW w, Good(w), Layered(w.node), NEW n \in DOMAIN w.node
  PROVE  Anchored(w, Chain(w, n), n)
BY ChainIsChain, AllRooted DEF Anchored, Rooted

\* The start of a chain is one.
LEMMA StartAnchored ==
  ASSUME NEW w, NEW s, NEW n, Anchored(w, s, n), NEW k \in 1 .. Len(s)
  PROVE  Anchored(w, SubSeq(s, 1, k), s[k])
<1> DEFINE t == SubSeq(s, 1, k)
<1>1. /\ s \in Seq(DOMAIN w.node) /\ Len(s) \in Nat
      /\ \A i \in 1 .. Len(s) - 1 : w.node[s[i + 1]].parent = s[i]
  BY DEF Anchored, IsChain
<1>2. t \in Seq(DOMAIN w.node) /\ Len(t) = k /\ \A i \in 1 .. k : t[i] = s[i]
  BY <1>1, Start
<1> HIDE DEF t
<1>3. t[1] = s[1] /\ t[k] = s[k]
  BY <1>1, <1>2
<1>4. ASSUME NEW i \in 1 .. k - 1
      PROVE  w.node[t[i + 1]].parent = t[i]
  BY <1>1, <1>2
<1>5. Len(t) \in Nat \ {0} /\ t[Len(t)] = s[k] /\ w.node[t[1]].parent = NoNode
  BY <1>1, <1>2, <1>3 DEF Anchored
<1> QED BY <1>2, <1>4, <1>5 DEF Anchored, IsChain, t

\* A chain has more than one node where the last one has a parent, which is the last
\* but one then.
LEMMA LastLink ==
  ASSUME NEW w, Good(w), NEW n, NEW s, Anchored(w, s, n)
  PROVE  /\ n \in DOMAIN w.node
         /\ w.node[n].parent = NoNode => Len(s) = 1
         /\ w.node[n].parent # NoNode => /\ Len(s) - 1 \in 1 .. Len(s)
                                         /\ s[Len(s) - 1] = w.node[n].parent
<1>1. s \in Seq(DOMAIN w.node) /\ Len(s) \in Nat \ {0} /\ s[Len(s)] = n
  BY DEF Anchored, IsChain
<1>2. n \in DOMAIN w.node
  BY <1>1
<1>3. CASE Len(s) = 1
  BY <1>1, <1>2, <1>3 DEF Anchored
<1>4. CASE Len(s) # 1
  <2>1. Len(s) - 1 \in 1 .. Len(s) - 1 /\ Len(s) - 1 \in 1 .. Len(s) /\ (Len(s) - 1) + 1 = Len(s)
    <3>1. Len(s) \in Nat \ {0, 1}
      BY <1>1, <1>4
    <3> QED BY <3>1
  <2>2. w.node[n].parent = s[Len(s) - 1] /\ s[Len(s) - 1] \in DOMAIN w.node
    BY <1>1, <2>1 DEF Anchored, IsChain
  <2>3. NoNode \notin DOMAIN w.node
    BY TreeAssumption DEF Good, Heap
  <2> QED BY <1>2, <2>1, <2>2, <2>3
<1> QED BY <1>3, <1>4

\* Two sequences with the same start and the same end.
LEMMA SameEnds ==
  ASSUME NEW S, NEW s \in Seq(S), NEW t \in Seq(S), Len(s) - 1 \in 1 .. Len(s),
         Len(t) - 1 \in 1 .. Len(t), s[Len(s)] = t[Len(t)],
         SubSeq(s, 1, Len(s) - 1) = SubSeq(t, 1, Len(t) - 1)
  PROVE  s = t
<1>1. Len(s) = Len(t)
  <2>1. Len(SubSeq(s, 1, Len(s) - 1)) = Len(s) - 1 /\ Len(SubSeq(t, 1, Len(t) - 1)) = Len(t) - 1
    BY Start
  <2>2. Len(s) - 1 = Len(t) - 1
    BY <2>1
  <2>3. Len(s) \in Nat /\ Len(t) \in Nat
    OBVIOUS
  <2> QED BY <2>2, <2>3
<1>2. \A i \in 1 .. Len(s) - 1 : s[i] = t[i]
  <2>1. /\ \A i \in 1 .. Len(s) - 1 : SubSeq(s, 1, Len(s) - 1)[i] = s[i]
        /\ \A i \in 1 .. Len(t) - 1 : SubSeq(t, 1, Len(t) - 1)[i] = t[i]
    BY Start
  <2> QED BY <1>1, <2>1
<1>3. \A i \in 1 .. Len(s) : s[i] = t[i]
  BY <1>1, <1>2
<1> QED BY <1>1, <1>3, SeqEqual

\* A node has one rooted chain.
LEMMA OneChain ==
  ASSUME NEW w, Good(w), Layered(w.node), NEW n, NEW s, NEW t,
         Anchored(w, s, n), Anchored(w, t, n)
  PROVE  s = t
<1> DEFINE Split(m) == \E a, b : Anchored(w, a, m) /\ Anchored(w, b, m) /\ a # b
           S == {m \in DOMAIN w.node : Split(m)}
<1>1. ASSUME NEW m \in S
      PROVE  w.node[m].parent \in S
  <2>1. PICK a, b : Anchored(w, a, m) /\ Anchored(w, b, m) /\ a # b
    OBVIOUS
  <2> DEFINE p == w.node[m].parent
  <2>2. /\ a \in Seq(DOMAIN w.node) /\ Len(a) \in Nat /\ a[Len(a)] = m
        /\ b \in Seq(DOMAIN w.node) /\ Len(b) \in Nat /\ b[Len(b)] = m
    BY <2>1 DEF Anchored, IsChain
  <2>3. p # NoNode
    <3> SUFFICES ASSUME p = NoNode
                 PROVE  FALSE
      OBVIOUS
    <3>1. Len(a) = 1 /\ Len(b) = 1
      BY <2>1, LastLink
    <3> QED BY <2>1, <2>2, <3>1, SeqEqual
  <2>4. /\ Len(a) - 1 \in 1 .. Len(a) /\ a[Len(a) - 1] = p
        /\ Len(b) - 1 \in 1 .. Len(b) /\ b[Len(b) - 1] = p
    BY <2>1, <2>3, LastLink
  <2>5. /\ Anchored(w, SubSeq(a, 1, Len(a) - 1), p)
        /\ Anchored(w, SubSeq(b, 1, Len(b) - 1), p)
    BY <2>1, <2>4, StartAnchored
  <2>6. SubSeq(a, 1, Len(a) - 1) # SubSeq(b, 1, Len(b) - 1)
    BY <2>1, <2>2, <2>4, SameEnds
  <2>7. p \in DOMAIN w.node
    BY <2>2, <2>4
  <2> QED BY <2>5, <2>6, <2>7
<1>2. S = {}
  <2>1. S \subseteq DOMAIN w.node
    OBVIOUS
  <2> HIDE DEF S
  <2> QED BY <1>1, <2>1, NoCycle
<1>3. n \in DOMAIN w.node
  BY LastLink
<1> QED BY <1>2, <1>3

\* The path along a chain.
LEMMA PathAlongChain ==
  ASSUME NEW w, Good(w), NEW s, NEW n, Anchored(w, s, n)
  PROVE  /\ PathAlong(w, s) \in Seq(Name) /\ Len(PathAlong(w, s)) = Len(s)
         /\ \A i \in 1 .. Len(s) : PathAlong(w, s)[i] = w.node[s[i]].name
<1>1. s \in Seq(DOMAIN w.node) /\ Len(s) \in Nat /\ DOMAIN s = 1 .. Len(s)
  BY DEF Anchored, IsChain
<1>2. \A i \in 1 .. Len(s) : w.node[s[i]].name \in Name
  BY <1>1 DEF Good, Heap, NodeType
<1>3. PathAlong(w, s) = [i \in 1 .. Len(s) |-> w.node[s[i]].name]
  BY <1>1 DEF PathAlong
<1> QED BY <1>1, <1>2, <1>3

\* A sequence that has one more element than another.
LEMMA OneMore ==
  ASSUME NEW S, NEW s \in Seq(S), NEW t \in Seq(S), Len(t) = Len(s) + 1,
         \A i \in 1 .. Len(s) : t[i] = s[i]
  PROVE  t = Append(s, t[Len(t)])
<1>1. Len(t) \in 1 .. Len(t) /\ t[Len(t)] \in S
  OBVIOUS
<1>2. /\ Append(s, t[Len(t)]) \in Seq(S) /\ Len(Append(s, t[Len(t)])) = Len(s) + 1
      /\ \A i \in 1 .. Len(s) : Append(s, t[Len(t)])[i] = s[i]
      /\ Append(s, t[Len(t)])[Len(s) + 1] = t[Len(t)]
  BY <1>1, AppendProperties
<1>3. \A i \in 1 .. Len(t) : t[i] = Append(s, t[Len(t)])[i]
  BY <1>2
<1> QED BY <1>2, <1>3, SeqEqual

\* A path is a sequence of names; it starts with the paths of the nodes above its node.
LEMMA PathType ==
  ASSUME NEW w, Good(w), Layered(w.node), NEW n \in DOMAIN w.node
  PROVE  /\ PathOf(w, n) \in Seq(Name) /\ Len(PathOf(w, n)) \in Nat \ {0}
         /\ Len(Chain(w, n)) = Len(PathOf(w, n))
<1>1. Anchored(w, Chain(w, n), n)
  BY ChainAnchored
<1> QED BY <1>1, PathAlongChain DEF PathOf, Anchored, IsChain

\* The start of a path is the path of a node above.
LEMMA PathStart ==
  ASSUME NEW w, Good(w), Layered(w.node), NEW n \in DOMAIN w.node,
         NEW k \in 1 .. Len(PathOf(w, n))
  PROVE  /\ Chain(w, n)[k] \in DOMAIN w.node
         /\ PathOf(w, Chain(w, n)[k]) = SubSeq(PathOf(w, n), 1, k)
<1> DEFINE s == Chain(w, n)
           m == s[k]
<1>1. Anchored(w, s, n)
  BY ChainAnchored
<1> HIDE DEF s
<1>2. PathOf(w, n) = PathAlong(w, s) /\ k \in 1 .. Len(s) /\ Len(s) \in Nat
  BY PathType DEF PathOf, s
<1>3. Anchored(w, SubSeq(s, 1, k), m)
  BY <1>1, <1>2, StartAnchored
<1>4. m \in DOMAIN w.node
  BY <1>3, LastLink
<1>5. Chain(w, m) = SubSeq(s, 1, k)
  BY <1>3, <1>4, ChainAnchored, OneChain
<1>6. /\ PathAlong(w, s) \in Seq(Name) /\ Len(PathAlong(w, s)) = Len(s)
      /\ \A i \in 1 .. Len(s) : PathAlong(w, s)[i] = w.node[s[i]].name
  BY <1>1, PathAlongChain
<1> DEFINE t == SubSeq(s, 1, k)
<1>7. Len(t) = k /\ \A i \in 1 .. k : t[i] = s[i]
  <2>1. s \in Seq(DOMAIN w.node)
    BY <1>1 DEF Anchored, IsChain
  <2> QED BY <1>2, <2>1, Start
<1> HIDE DEF t, m
<1>8. /\ PathAlong(w, t) \in Seq(Name) /\ Len(PathAlong(w, t)) = k
      /\ \A i \in 1 .. k : PathAlong(w, t)[i] = w.node[t[i]].name
  <2>1. Anchored(w, t, m)
    BY <1>3 DEF t
  <2> QED BY <1>7, <2>1, PathAlongChain
<1> DEFINE q == PathAlong(w, s)
           r == SubSeq(q, 1, k)
<1>9. r \in Seq(Name) /\ Len(r) = k /\ \A i \in 1 .. k : r[i] = q[i]
  BY <1>2, <1>6, Start
<1>10. \A i \in 1 .. k : PathAlong(w, t)[i] = r[i]
  <2> HIDE DEF r
  <2> QED BY <1>2, <1>6, <1>7, <1>8, <1>9
<1>11. PathAlong(w, t) = r
  <2> HIDE DEF r
  <2> QED BY <1>8, <1>9, <1>10, SeqEqual
<1> QED BY <1>2, <1>4, <1>5, <1>11 DEF PathOf, s, m, t

\* The path of a node is its parent's, and its name.
LEMMA PathStep ==
  ASSUME NEW w, Good(w), Layered(w.node), NEW n \in DOMAIN w.node
  PROVE  /\ w.node[n].name \in Name
         /\ w.node[n].parent = NoNode => PathOf(w, n) = <<w.node[n].name>>
         /\ w.node[n].parent # NoNode =>
              /\ w.node[n].parent \in DOMAIN w.node
              /\ PathOf(w, n) = Append(PathOf(w, w.node[n].parent), w.node[n].name)
<1> DEFINE s == Chain(w, n)
           L == Len(s)
           p == w.node[n].parent
           x == w.node[n].name
<1>1. Anchored(w, s, n) /\ s[L] = n /\ L \in Nat \ {0}
  BY ChainAnchored DEF Anchored, IsChain
<1>2. /\ PathOf(w, n) \in Seq(Name) /\ Len(PathOf(w, n)) = L
      /\ \A i \in 1 .. L : PathOf(w, n)[i] = w.node[s[i]].name
  BY <1>1, PathAlongChain DEF PathOf
<1>3. x \in Name /\ PathOf(w, n)[L] = x
  BY <1>1, <1>2 DEF Good, Heap, NodeType
<1> HIDE DEF s, L
<1>4. CASE p = NoNode
  <2>1. L = 1
    BY <1>1, <1>4, LastLink DEF L
  <2>2. <<x>> \in Seq(Name) /\ Len(<<x>>) = 1 /\ <<x>>[1] = x
    BY <1>3, Singleton
  <2>3. PathOf(w, n) = <<x>>
    <3> DEFINE y == <<x>>
    <3> HIDE DEF y
    <3>1. y \in Seq(Name) /\ Len(y) = 1 /\ y[1] = x
      BY <2>2 DEF y
    <3>2. \A i \in 1 .. 1 : PathOf(w, n)[i] = y[i]
      BY <1>3, <2>1, <3>1
    <3>3. PathOf(w, n) = y
      BY <1>2, <2>1, <3>1, <3>2, SeqEqual
    <3> QED BY <3>3 DEF y
  <2> QED BY <1>3, <1>4, <2>3
<1>5. CASE p # NoNode
  <2>1. L - 1 \in 1 .. L /\ s[L - 1] = p
    BY <1>1, <1>5, LastLink DEF L
  <2>2. p \in DOMAIN w.node /\ PathOf(w, p) = SubSeq(PathOf(w, n), 1, L - 1)
    BY <1>2, <2>1, PathStart DEF s
  <2>3. /\ PathOf(w, p) \in Seq(Name) /\ Len(PathOf(w, p)) = L - 1
        /\ \A i \in 1 .. L - 1 : PathOf(w, p)[i] = PathOf(w, n)[i]
    BY <1>2, <2>1, <2>2, Start
  <2>4. PathOf(w, n) = Append(PathOf(w, p), PathOf(w, n)[Len(PathOf(w, n))])
    <3>1. Len(PathOf(w, n)) = Len(PathOf(w, p)) + 1
      BY <1>1, <1>2, <2>3
    <3>2. \A i \in 1 .. Len(PathOf(w, p)) : PathOf(w, n)[i] = PathOf(w, p)[i]
      BY <2>3
    <3> QED BY <1>2, <2>3, <3>1, <3>2, OneMore
  <2> QED BY <1>2, <1>3, <1>5, <2>2, <2>4
<1> QED BY <1>4, <1>5

\* No two nodes have one path.
LEMMA PathSame ==
  ASSUME NEW w, Good(w), Layered(w.node), Apart(w.node),
         NEW m \in DOMAIN w.node, NEW n \in DOMAIN w.node, PathOf(w, m) = PathOf(w, n)
  PROVE  m = n
<1>1. Anchored(w, Chain(w, m), m) /\ Anchored(w, Chain(w, n), n)
  BY ChainAnchored
<1> QED BY <1>1, ChainsApart DEF Anchored, PathOf

\* f places the nodes of N.
Places(w, N, f) ==
  \A n \in N : LET p == w.node[n].parent
               IN  /\ p = NoNode => f[n] = <<w.node[n].name>>
                   /\ p # NoNode => p \in N /\ f[n] = Append(f[p], w.node[n].name)

\* There is one way to place them.
LEMMA PlacesUnique ==
  ASSUME NEW w, Good(w), Layered(w.node), NEW N, N \subseteq DOMAIN w.node, NEW f,
         Places(w, N, f)
  PROVE  \A n \in N : PathOf(w, n) = f[n]
<1> DEFINE S == {m \in N : PathOf(w, m) # f[m]}
<1>1. ASSUME NEW m \in S
      PROVE  w.node[m].parent \in S
  <2>1. m \in DOMAIN w.node /\ m \in N /\ PathOf(w, m) # f[m]
    OBVIOUS
  <2>2. w.node[m].parent # NoNode
    BY <2>1, PathStep DEF Places
  <2>3. /\ w.node[m].parent \in N
        /\ f[m] = Append(f[w.node[m].parent], w.node[m].name)
        /\ PathOf(w, m) = Append(PathOf(w, w.node[m].parent), w.node[m].name)
    BY <2>1, <2>2, PathStep DEF Places
  <2> QED BY <2>1, <2>3
<1>2. S = {}
  <2>1. S \in SUBSET DOMAIN w.node
    OBVIOUS
  <2> HIDE DEF S
  <2> QED BY <1>1, <2>1, NoCycle
<1> QED BY <1>2

\* What v says of the names and the parents of the nodes of N is what w said.
SameLinks(w, v, N) ==
  /\ N \subseteq DOMAIN w.node /\ N \subseteq DOMAIN v.node
  /\ \A m \in N : /\ v.node[m].name = w.node[m].name
                 /\ v.node[m].parent = w.node[m].parent
                 /\ w.node[m].parent \in N \cup {NoNode}

\* Then they have the paths they had.
LEMMA SamePaths ==
  ASSUME NEW w, Good(w), Layered(w.node), NEW v, Good(v), Layered(v.node), NEW N,
         SameLinks(w, v, N)
  PROVE  \A n \in N : PathOf(v, n) = PathOf(w, n)
<1>1. PICK f : f = [m \in N |-> PathOf(w, m)]
  OBVIOUS
<1>2. ASSUME NEW m \in N
      PROVE  /\ v.node[m].parent = NoNode => f[m] = <<v.node[m].name>>
             /\ v.node[m].parent # NoNode =>
                  v.node[m].parent \in N /\ f[m] = Append(f[v.node[m].parent], v.node[m].name)
  <2>1. m \in DOMAIN w.node
    BY DEF SameLinks
  <2> QED BY <1>1, <2>1, PathStep DEF SameLinks
<1>3. Places(v, N, f)
  BY <1>2 DEF Places
<1>4. N \subseteq DOMAIN v.node
  BY DEF SameLinks
<1>5. \A m \in N : PathOf(v, m) = f[m]
  BY <1>3, <1>4, PlacesUnique
<1> QED BY <1>1, <1>5

-----------------------------------------------------------------------------
(* Prefixes, and what rename(2) does to the paths below a directory.       *)

\* A prefix, element by element.
LEMMA PrefixPoints ==
  ASSUME NEW S, NEW s \in Seq(S), NEW t \in Seq(S)
  PROVE  IsPrefix(s, t) <=> Len(s) <= Len(t) /\ \A i \in 1 .. Len(s) : s[i] = t[i]
<1>1. CASE s = <<>>
  <2>1. SubSeq(s, 1, 0) = <<>> /\ SubSeq(t, 1, 0) = <<>> /\ Len(s) = 0
    BY <1>1
  <2> QED BY <2>1 DEF IsPrefix
<1>2. CASE s # <<>>
  <2>1. Len(s) \in 1 .. Len(s) /\ SubSeq(s, 1, Len(s)) = s
    BY <1>2
  <2>2. CASE Len(s) <= Len(t)
    <3>1. Len(s) \in 1 .. Len(t)
      BY <2>1, <2>2
    <3>2. /\ SubSeq(t, 1, Len(s)) \in Seq(S) /\ Len(SubSeq(t, 1, Len(s))) = Len(s)
          /\ \A i \in 1 .. Len(s) : SubSeq(t, 1, Len(s))[i] = t[i]
      BY <3>1, Start
    <3>3. ASSUME \A i \in 1 .. Len(s) : s[i] = t[i]
          PROVE  s = SubSeq(t, 1, Len(s))
      BY <3>2, <3>3, SeqEqual
    <3> QED BY <2>1, <2>2, <3>2, <3>3 DEF IsPrefix
  <2> QED BY <2>2 DEF IsPrefix
<1> QED BY <1>1, <1>2

\* A sequence of names that is a prefix of a longer one is that, or a prefix of what
\* comes before the last.
LEMMA PrefixAppend ==
  ASSUME NEW S, NEW s \in Seq(S), NEW t \in Seq(S), NEW x \in S
  PROVE  IsPrefix(s, Append(t, x)) <=> s = Append(t, x) \/ IsPrefix(s, t)
<1> DEFINE u == Append(t, x)
<1>1. /\ u \in Seq(S) /\ Len(u) = Len(t) + 1
      /\ \A i \in 1 .. Len(t) : u[i] = t[i]
  BY AppendProperties
<1> HIDE DEF u
<1>2. IsPrefix(s, u) <=> Len(s) <= Len(u) /\ \A i \in 1 .. Len(s) : s[i] = u[i]
  BY <1>1, PrefixPoints
<1>3. IsPrefix(s, t) <=> Len(s) <= Len(t) /\ \A i \in 1 .. Len(s) : s[i] = t[i]
  BY PrefixPoints
<1>4. Len(s) \in Nat /\ Len(t) \in Nat
  OBVIOUS
<1>5. CASE Len(s) <= Len(t)
  <2>1. \A i \in 1 .. Len(s) : u[i] = t[i]
    BY <1>1, <1>4, <1>5
  <2>2. s # u
    BY <1>1, <1>4, <1>5
  <2> QED BY <1>1, <1>2, <1>3, <1>4, <1>5, <2>1, <2>2 DEF u
<1>6. CASE Len(s) = Len(t) + 1
  <2>1. ~IsPrefix(s, t)
    BY <1>3, <1>4, <1>6
  <2>2. IsPrefix(s, u) => s = u
    BY <1>1, <1>2, <1>6, SeqEqual
  <2>3. s = u => IsPrefix(s, u)
    BY <1>1, <1>2, <1>4
  <2> QED BY <2>1, <2>2, <2>3 DEF u
<1>7. CASE Len(s) > Len(t) + 1
  <2>1. ~IsPrefix(s, t) /\ ~IsPrefix(s, u) /\ s # u
    BY <1>1, <1>2, <1>3, <1>4, <1>7
  <2> QED BY <2>1 DEF u
<1> QED BY <1>4, <1>5, <1>6, <1>7

\* r, with t for its start s.
Rebase(s, t, r) == t \o SubSeq(r, Len(s) + 1, Len(r))

\* b is that, element by element.
Rebased(s, t, r, b) ==
  /\ Len(b) = Len(t) + (Len(r) - Len(s))
  /\ \A i \in 1 .. Len(t) : b[i] = t[i]
  /\ \A i \in 1 .. Len(r) - Len(s) : b[Len(t) + i] = r[Len(s) + i]

\* Rebase is.
LEMMA RebasePoints ==
  ASSUME NEW S, NEW s \in Seq(S), NEW t \in Seq(S), NEW r \in Seq(S), Len(s) <= Len(r)
  PROVE  Rebase(s, t, r) \in Seq(S) /\ Rebased(s, t, r, Rebase(s, t, r))
<1> DEFINE m == Len(s) + 1
           n == Len(r)
           u == SubSeq(r, m, n)
           k == Len(r) - Len(s)
<1>1. /\ Len(s) \in Nat /\ Len(t) \in Nat /\ Len(r) \in Nat /\ k \in Nat
      /\ m \in Int /\ n \in Int /\ n - m + 1 = k
  OBVIOUS
<1>2. \A i \in m .. n : r[i] \in S
  BY <1>1
<1>3. \A i \in 1 .. k : m + i - 1 = Len(s) + i
  BY <1>1
<1>4. m <= n \/ k = 0
  BY <1>1
<1> HIDE DEF m, n
<1>5. /\ u \in Seq(S) /\ Len(u) = IF m <= n THEN n - m + 1 ELSE 0
      /\ \A i \in 1 .. n - m + 1 : u[i] = r[m + i - 1]
  BY <1>1, <1>2, SubSeqProperties
<1> HIDE DEF u, k
<1>6. u \in Seq(S) /\ Len(u) = k
  BY <1>1, <1>4, <1>5
<1>7. \A i \in 1 .. k : u[i] = r[Len(s) + i]
  BY <1>1, <1>3, <1>5
<1>8. /\ t \o u \in Seq(S) /\ Len(t \o u) = Len(t) + Len(u)
      /\ \A i \in 1 .. Len(t) + Len(u) : (t \o u)[i] = IF i <= Len(t) THEN t[i] ELSE u[i - Len(t)]
  BY <1>6, ConcatProperties
<1>9. Rebase(s, t, r) = t \o u
  BY DEF Rebase, u, m, n
<1>10. \A i \in 1 .. Len(t) : (t \o u)[i] = t[i]
  BY <1>1, <1>6, <1>8
<1>11. ASSUME NEW i \in 1 .. k
       PROVE  (t \o u)[Len(t) + i] = r[Len(s) + i]
  <2>1. Len(t) + i \in 1 .. Len(t) + Len(u) /\ ~(Len(t) + i <= Len(t)) /\ (Len(t) + i) - Len(t) = i
    BY <1>1, <1>6
  <2>2. (t \o u)[Len(t) + i] = u[(Len(t) + i) - Len(t)]
    BY <1>8, <2>1
  <2> QED BY <1>7, <2>1, <2>2
<1> QED BY <1>6, <1>8, <1>9, <1>10, <1>11 DEF Rebased, k

\* It is the only one.
LEMMA RebasedUnique ==
  ASSUME NEW S, NEW s \in Seq(S), NEW t \in Seq(S), NEW r \in Seq(S), Len(s) <= Len(r),
         NEW a \in Seq(S), Rebased(s, t, r, a)
  PROVE  Rebase(s, t, r) = a
<1> DEFINE b == Rebase(s, t, r)
<1>1. b \in Seq(S) /\ Rebased(s, t, r, b)
  BY RebasePoints
<1> HIDE DEF b
<1>2. Len(s) \in Nat /\ Len(t) \in Nat /\ Len(r) \in Nat /\ Len(a) = Len(b)
  BY <1>1 DEF Rebased
<1>3. ASSUME NEW i \in 1 .. Len(a)
      PROVE  a[i] = b[i]
  <2>1. CASE i <= Len(t)
    BY <1>1, <1>2, <2>1 DEF Rebased
  <2>2. CASE i > Len(t)
    <3> DEFINE j == i - Len(t)
    <3>1. j \in 1 .. Len(r) - Len(s) /\ Len(t) + j = i
      BY <1>2, <2>2 DEF Rebased
    <3> HIDE DEF j
    <3> QED BY <1>1, <3>1 DEF Rebased
  <2> QED BY <1>2, <2>1, <2>2
<1>4. a = b
  BY <1>1, <1>2, <1>3, SeqEqual
<1> QED BY <1>4 DEF b

\* The directory itself gets the new path,
LEMMA RebaseSelf ==
  ASSUME NEW S, NEW s \in Seq(S), NEW t \in Seq(S)
  PROVE  Rebase(s, t, s) = t
<1>1. Len(s) \in Nat /\ Len(t) \in Nat
  OBVIOUS
<1>2. Rebased(s, t, s, t)
  BY <1>1 DEF Rebased
<1> QED BY <1>1, <1>2, RebasedUnique

\* and what is in it the path of its directory, and its name.
LEMMA RebaseAppend ==
  ASSUME NEW S, NEW s \in Seq(S), NEW t \in Seq(S), NEW r \in Seq(S), IsPrefix(s, r),
         NEW x \in S
  PROVE  Rebase(s, t, Append(r, x)) = Append(Rebase(s, t, r), x)
<1> DEFINE u == Append(r, x)
           b == Rebase(s, t, r)
           c == Append(b, x)
           k == Len(r) - Len(s)
<1>1. Len(s) <= Len(r) /\ Len(s) \in Nat /\ Len(t) \in Nat /\ Len(r) \in Nat /\ k \in Nat
  BY DEF IsPrefix
<1>2. /\ u \in Seq(S) /\ Len(u) = Len(r) + 1
      /\ \A i \in 1 .. Len(r) : u[i] = r[i]
      /\ u[Len(r) + 1] = x
  BY AppendProperties
<1>3. b \in Seq(S) /\ Rebased(s, t, r, b)
  BY <1>1, RebasePoints
<1> HIDE DEF b, u
<1>4. b \in Seq(S)
  BY <1>3
<1>5. /\ c \in Seq(S) /\ Len(c) = Len(b) + 1
      /\ \A i \in 1 .. Len(b) : c[i] = b[i]
      /\ c[Len(b) + 1] = x
  BY <1>4, AppendProperties
<1> HIDE DEF c
<1>6. Len(b) = Len(t) + k /\ Len(c) = Len(t) + (Len(u) - Len(s))
  BY <1>1, <1>2, <1>3, <1>5 DEF Rebased
<1>7. \A i \in 1 .. Len(t) : c[i] = t[i]
  BY <1>1, <1>3, <1>5, <1>6 DEF Rebased
<1>8. ASSUME NEW i \in 1 .. Len(u) - Len(s)
      PROVE  c[Len(t) + i] = u[Len(s) + i]
  <2>1. CASE i \in 1 .. k
    <3>1. Len(t) + i \in 1 .. Len(b) /\ Len(s) + i \in 1 .. Len(r)
      BY <1>1, <1>6, <2>1
    <3>2. b[Len(t) + i] = r[Len(s) + i]
      BY <1>3, <2>1 DEF Rebased
    <3> QED BY <1>2, <1>5, <3>1, <3>2
  <2>2. CASE i = k + 1
    <3>1. Len(t) + i = Len(b) + 1 /\ Len(s) + i = Len(r) + 1
      BY <1>1, <1>6, <2>2
    <3> QED BY <1>2, <1>5, <3>1
  <2>3. i \in 1 .. k \/ i = k + 1
    BY <1>1, <1>2
  <2> QED BY <2>1, <2>2, <2>3
<1>9. Rebased(s, t, u, c)
  BY <1>6, <1>7, <1>8 DEF Rebased
<1>10. Len(s) <= Len(u) /\ u \in Seq(S) /\ c \in Seq(S)
  BY <1>1, <1>2, <1>5
<1>11. Rebase(s, t, u) = c
  BY <1>9, <1>10, RebasedUnique
<1> QED BY <1>11 DEF b, c, u

\* rename(2) can be undone.
LEMMA RebaseBack ==
  ASSUME NEW S, NEW s \in Seq(S), NEW t \in Seq(S), NEW r \in Seq(S), IsPrefix(s, r)
  PROVE  /\ IsPrefix(t, Rebase(s, t, r))
         /\ Rebase(t, s, Rebase(s, t, r)) = r
<1> DEFINE b == Rebase(s, t, r)
<1>1. Len(s) <= Len(r) /\ Len(s) \in Nat /\ Len(t) \in Nat /\ Len(r) \in Nat
  BY DEF IsPrefix
<1>2. \A i \in 1 .. Len(s) : r[i] = s[i]
  BY PrefixPoints
<1>3. b \in Seq(S) /\ Rebased(s, t, r, b)
  BY <1>1, RebasePoints
<1> HIDE DEF b
<1>4. Len(t) <= Len(b) /\ \A i \in 1 .. Len(t) : t[i] = b[i]
  BY <1>1, <1>3 DEF Rebased
<1>5. b \in Seq(S)
  BY <1>3
<1>6. IsPrefix(t, b)
  BY <1>4, <1>5, PrefixPoints
<1>7. Len(r) = Len(s) + (Len(b) - Len(t)) /\ Len(b) - Len(t) = Len(r) - Len(s)
  BY <1>1, <1>3 DEF Rebased
<1>8. Rebased(t, s, b, r)
  BY <1>2, <1>3, <1>7 DEF Rebased
<1>9. Rebase(t, s, b) = r
  BY <1>4, <1>5, <1>8, RebasedUnique
<1> QED BY <1>6, <1>9 DEF b

-----------------------------------------------------------------------------
(* The disk of a tree.                                                     *)

\* Above a node of N are directories of N, created if it is.
Ordered(w, N) ==
  \A n \in N : LET p == w.node[n].parent
               IN  p # NoNode => /\ p \in N /\ w.node[p].dir
                                 /\ w.node[n].created => w.node[p].created

\* A node of N is created exactly when its path is on the disk, as a directory when it
\* is one.
Matched(w, N) ==
  \A n \in N : LET q == PathOf(w, n)
               IN  /\ w.node[n].created <=> Exists(w.disk, q)
                   /\ w.node[n].created => (w.disk.entry[q].kind = "dir" <=> w.node[n].dir)

\* What is on the disk is a node's of N.
Owned(w, N) == \A q \in DOMAIN w.disk.entry : \E n \in N : PathOf(w, n) = q

Distinct(w, N) == \A m, n \in N : PathOf(w, m) = PathOf(w, n) => m = n

\* The nodes of N are what the disk holds.
Fits(w, N) ==
  /\ N \subseteq DOMAIN w.node /\ DOMAIN w.disk = {"entry", "size"}
  /\ Ordered(w, N) /\ Matched(w, N) /\ Owned(w, N) /\ Distinct(w, N)

\* Nothing was thrown.
Clear(w) == Calm(w) /\ w.err = NoError

\* Whether a directory can be made, or an entry renamed or removed, depends on the
\* arguments of the call only.
Obedient(io) == "mkdir" \notin io /\ "remove" \notin io /\ "rename" \notin io

\* The tree and the disk agree.
Sound(w) ==
  Clear(w) /\ Apart(w.node) /\ Obedient(w.io) /\ Fits(w, DOMAIN w.node)

\* Paths are the same where the tree is.
LEMMA SmoothPaths ==
  ASSUME NEW w, Clear(w), NEW v, Smooth(w, v)
  PROVE  /\ Clear(v) /\ DOMAIN v.node = DOMAIN w.node
         /\ \A n \in DOMAIN w.node : /\ PathOf(v, n) = PathOf(w, n)
                                     /\ v.node[n].parent = w.node[n].parent
                                     /\ v.node[n].dir = w.node[n].dir
<1>1. Clear(v) /\ DOMAIN v.node = DOMAIN w.node
  BY SmoothCalm DEF Clear, Smooth
<1>2. \A n \in DOMAIN w.node : /\ v.node[n].parent = w.node[n].parent
                               /\ v.node[n].name = w.node[n].name
                               /\ v.node[n].dir = w.node[n].dir
  BY DEF Smooth, SameTree
<1>3. Parents(w)
  BY GoodParents DEF Clear, Calm
<1>4. SameLinks(w, v, DOMAIN w.node)
  BY <1>1, <1>2, <1>3 DEF SameLinks, Parents
<1>5. \A n \in DOMAIN w.node : PathOf(v, n) = PathOf(w, n)
  BY <1>1, <1>4, SamePaths DEF Clear, Calm
<1> QED BY <1>1, <1>2, <1>5

\* In v the nodes of X are created too, on the disk as well.
Grown(w, v, N, X) ==
  /\ X \subseteq N /\ DOMAIN v.disk = {"entry", "size"}
  /\ \A n \in N : v.node[n].created <=> w.node[n].created \/ n \in X
  /\ DOMAIN v.disk.entry = DOMAIN w.disk.entry \cup {PathOf(w, n) : n \in X}
  /\ \A q \in DOMAIN w.disk.entry : v.disk.entry[q].kind = "dir" <=> w.disk.entry[q].kind = "dir"
  /\ \A n \in X : v.disk.entry[PathOf(w, n)].kind = "dir" <=> w.node[n].dir
  /\ \A n \in X : LET p == w.node[n].parent
                  IN  p # NoNode => w.node[p].created \/ p \in X

\* The agreement survives what is created,
LEMMA GrownFits ==
  ASSUME NEW w, Clear(w), NEW v, Smooth(w, v), NEW N, Fits(w, N), NEW X, Grown(w, v, N, X)
  PROVE  Fits(v, N)
<1>1. /\ DOMAIN v.node = DOMAIN w.node
      /\ \A n \in DOMAIN w.node : /\ PathOf(v, n) = PathOf(w, n)
                                  /\ v.node[n].parent = w.node[n].parent
                                  /\ v.node[n].dir = w.node[n].dir
  BY SmoothPaths
<1>2. N \subseteq DOMAIN w.node /\ X \subseteq N
  BY DEF Fits, Grown
<1>3. Ordered(v, N)
  BY <1>1, <1>2 DEF Fits, Ordered, Grown
<1>4. Matched(v, N)
  <2> SUFFICES ASSUME NEW n \in N, NEW q, q = PathOf(w, n)
               PROVE  /\ v.node[n].created <=> Exists(v.disk, q)
                      /\ v.node[n].created => (v.disk.entry[q].kind = "dir" <=> v.node[n].dir)
    BY <1>1, <1>2 DEF Matched
  <2>1. /\ w.node[n].created <=> Exists(w.disk, q)
        /\ w.node[n].created => (w.disk.entry[q].kind = "dir" <=> w.node[n].dir)
    BY DEF Fits, Matched
  <2>2. Exists(v.disk, q) <=> Exists(w.disk, q) \/ n \in X
    BY <1>2 DEF Exists, Grown, Fits, Distinct
  <2> QED BY <1>1, <1>2, <2>1, <2>2 DEF Grown, Exists
<1>5. Owned(v, N)
  BY <1>1, <1>2 DEF Fits, Owned, Grown
<1>6. Distinct(v, N)
  BY <1>1, <1>2 DEF Fits, Distinct
<1> QED BY <1>1, <1>2, <1>3, <1>4, <1>5, <1>6 DEF Fits, Grown

\* In v the nodes of Y are no longer created, and gone from the disk.
Cut(w, v, N, Y) ==
  /\ Y \subseteq N /\ DOMAIN v.disk = {"entry", "size"}
  /\ \A n \in N : v.node[n].created <=> w.node[n].created /\ n \notin Y
  /\ DOMAIN v.disk.entry = DOMAIN w.disk.entry \ {PathOf(w, n) : n \in Y}
  /\ \A q \in DOMAIN v.disk.entry : v.disk.entry[q] = w.disk.entry[q]
  /\ \A n \in N : w.node[n].created /\ w.node[n].parent \in Y => n \in Y

\* and what is removed.
LEMMA CutFits ==
  ASSUME NEW w, Clear(w), NEW v, Smooth(w, v), NEW N, Fits(w, N), NEW Y, Cut(w, v, N, Y)
  PROVE  Fits(v, N)
<1>1. /\ DOMAIN v.node = DOMAIN w.node
      /\ \A n \in DOMAIN w.node : /\ PathOf(v, n) = PathOf(w, n)
                                  /\ v.node[n].parent = w.node[n].parent
                                  /\ v.node[n].dir = w.node[n].dir
  BY SmoothPaths
<1>2. N \subseteq DOMAIN w.node /\ Y \subseteq N
  BY DEF Fits, Cut
<1>3. Ordered(v, N)
  BY <1>1, <1>2 DEF Fits, Ordered, Cut
<1>4. Matched(v, N)
  <2> SUFFICES ASSUME NEW n \in N, NEW q, q = PathOf(w, n)
               PROVE  /\ v.node[n].created <=> Exists(v.disk, q)
                      /\ v.node[n].created => (v.disk.entry[q].kind = "dir" <=> v.node[n].dir)
    BY <1>1, <1>2 DEF Matched
  <2>1. /\ w.node[n].created <=> Exists(w.disk, q)
        /\ w.node[n].created => (w.disk.entry[q].kind = "dir" <=> w.node[n].dir)
    BY DEF Fits, Matched
  <2>2. Exists(v.disk, q) <=> Exists(w.disk, q) /\ n \notin Y
    BY <1>2 DEF Exists, Cut, Fits, Distinct
  <2> QED BY <1>1, <1>2, <2>1, <2>2 DEF Cut, Exists
<1>5. Owned(v, N)
  BY <1>1, <1>2 DEF Fits, Owned, Cut
<1>6. Distinct(v, N)
  BY <1>1, <1>2 DEF Fits, Distinct
<1> QED BY <1>1, <1>2, <1>3, <1>4, <1>5, <1>6 DEF Fits, Cut

\* The disk that the calls leave.
LEMMA RemovedDisk ==
  ASSUME NEW d, NEW P, NEW e, e = Removed(d, P)
  PROVE  /\ DOMAIN e = {"entry", "size"} /\ DOMAIN e.entry = DOMAIN d.entry \ P
         /\ \A q \in DOMAIN e.entry : e.entry[q] = d.entry[q]
BY DEF Removed, WithEntries, Restrict

\* mkdir(2) makes directories,
LEMMA MkdirsDisk ==
  ASSUME NEW d, DOMAIN d = {"entry", "size"}, NEW P, NEW e, e = Mkdirs(d, P)
  PROVE  /\ DOMAIN e = {"entry", "size"} /\ DOMAIN e.entry = DOMAIN d.entry \cup P
         /\ \A q \in P : e.entry[q].kind = "dir"
         /\ \A q \in DOMAIN d.entry \ P : e.entry[q] = d.entry[q]
BY DEF Mkdirs

\* ftruncate(2) changes a length,
LEMMA ResizedDisk ==
  ASSUME NEW d, DOMAIN d = {"entry", "size"}, NEW p, NEW n
  PROVE  DOMAIN Resized(d, p, n) = {"entry", "size"} /\ Resized(d, p, n).entry = d.entry
BY DEF Resized

\* and open(2) makes a file if there is none.
LEMMA OpenedDisk ==
  ASSUME NEW d, DOMAIN d = {"entry", "size"}, NEW p, NEW trunc, NEW e, e = Opened(d, p, trunc)
  PROVE  /\ DOMAIN e = {"entry", "size"} /\ DOMAIN e.entry = DOMAIN d.entry \cup {p}
         /\ \A q \in DOMAIN d.entry : e.entry[q] = d.entry[q]
         /\ p \notin DOMAIN d.entry => e.entry[p].kind = "file"
<1>1. CASE ~Exists(d, p)
  <2>1. PICK new, s : e = [entry |-> With(d.entry, p, [kind |-> "file", ino |-> new]), size |-> s]
    BY <1>1 DEF Opened
  <2> QED BY <1>1, <2>1 DEF Exists, With
<1>2. CASE Exists(d, p)
  BY <1>2, ResizedDisk DEF Opened, Exists
<1> QED BY <1>1, <1>2

\* What is created, and where, is as it was.
LEMMA IdleFits ==
  ASSUME NEW w, Clear(w), NEW v, Smooth(w, v), NEW N, Fits(w, N),
         DOMAIN v.disk = {"entry", "size"}, v.disk.entry = w.disk.entry,
         \A n \in N : v.node[n].created <=> w.node[n].created
  PROVE  Fits(v, N)
<1>1. Grown(w, v, N, {})
  BY DEF Grown
<1> QED BY <1>1, GrownFits

\* The chain of a node of N.
LEMMA ChainIn ==
  ASSUME NEW w, Clear(w), NEW N, Fits(w, N), NEW n \in N, NEW s, s = Chain(w, n)
  PROVE  /\ Len(s) \in Nat \ {0} /\ Len(PathOf(w, n)) = Len(s) /\ DOMAIN s = 1 .. Len(s)
         /\ s[Len(s)] = n
         /\ \A k \in 1 .. Len(s) : /\ s[k] \in N
                                   /\ PathOf(w, s[k]) = SubSeq(PathOf(w, n), 1, k)
                                   /\ k # Len(s) => w.node[s[k]].dir
                                   /\ w.node[n].created => w.node[s[k]].created
         /\ \A k \in 1 .. Len(s) - 1 : w.node[s[k + 1]].parent = s[k]
<1>1. Good(w) /\ Layered(w.node) /\ n \in DOMAIN w.node
  BY DEF Clear, Calm, Fits
<1>2. Anchored(w, s, n)
  BY <1>1, ChainAnchored
<1>3. Len(s) \in Nat \ {0} /\ Len(PathOf(w, n)) = Len(s) /\ s[Len(s)] = n /\ DOMAIN s = 1 .. Len(s)
  BY <1>1, <1>2, PathType DEF Anchored, IsChain
<1>4. \A k \in 1 .. Len(s) - 1 : w.node[s[k + 1]].parent = s[k]
  BY <1>2 DEF Anchored, IsChain
<1>5. \A k \in 1 .. Len(s) : PathOf(w, s[k]) = SubSeq(PathOf(w, n), 1, k) /\ s[k] \in DOMAIN w.node
  BY <1>1, <1>3, PathStart
<1> DEFINE In(k) == /\ s[k] \in N /\ (k # Len(s) => w.node[s[k]].dir)
                    /\ w.node[n].created => w.node[s[k]].created
           T == {i \in 0 .. Len(s) - 1 : ~In(Len(s) - i)}
<1>6. T = {}
  <2> SUFFICES ASSUME T # {}
               PROVE  FALSE
    OBVIOUS
  <2>1. PICK i \in T : \A j \in T : ~(j < i)
    <3>1. T \subseteq Nat
      OBVIOUS
    <3> HIDE DEF T
    <3> QED BY <3>1, Least
  <2>2. i \in 0 .. Len(s) - 1 /\ ~In(Len(s) - i)
    BY <2>1
  <2>3. i # 0
    BY <1>3, <2>2
  <2> DEFINE k == Len(s) - i
  <2>4. /\ i - 1 \in 0 .. Len(s) - 1 /\ i - 1 < i /\ Len(s) - (i - 1) = k + 1
        /\ k \in 1 .. Len(s) - 1 /\ k \in 1 .. Len(s)
    BY <1>3, <2>2, <2>3
  <2>5. In(k + 1)
    BY <2>1, <2>4
  <2>6. w.node[s[k + 1]].parent = s[k] /\ s[k] \in DOMAIN w.node
    BY <1>4, <1>5, <2>4
  <2>7. s[k] # NoNode
    BY <1>1, <2>6, GoodParents
  <2> HIDE DEF k
  <2>8. In(k)
    BY <2>5, <2>6, <2>7 DEF Fits, Ordered
  <2> QED BY <2>2, <2>8 DEF k
<1>7. ASSUME NEW k \in 1 .. Len(s)
      PROVE  In(k)
  <2>1. Len(s) - k \in 0 .. Len(s) - 1 /\ Len(s) - (Len(s) - k) = k
    BY <1>3
  <2>2. In(Len(s) - (Len(s) - k))
    BY <1>6, <2>1
  <2> QED BY <2>1, <2>2
<1> QED BY <1>3, <1>4, <1>5, <1>7

\* Clearing a directory.
LEMMA ClearFits ==
  ASSUME NEW w, Clear(w), NEW N, Fits(w, N), NEW d \in N,
         NEW v, v = clearEmptyDir(w, d)
  PROVE  /\ Smooth(w, v) /\ Fits(v, N) /\ v.io = w.io
<1> DEFINE s == Chain(w, d)
           path == PathOf(w, d)
           L == Len(s)
           Path(k) == SubSeq(path, 1, k)
           Idle(k) == /\ w.node[s[k]].created
                      /\ \A c \in Kids(w, s[k]) : w.node[c].created => k < L /\ c = s[k + 1]
           Empty(k) == /\ "remove" \notin w.io /\ Exists(w.disk, Path(k))
                       /\ \A q \in Below(w.disk, Path(k)) : k < L /\ IsPrefix(Path(k + 1), q)
           K == {k \in DOMAIN s : \A j \in k .. L : Idle(j) /\ Empty(j)}
           Y == {s[k] : k \in K}
           R == {Path(k) : k \in K}
<1>1. d \in DOMAIN w.node /\ Good(w) /\ Layered(w.node) /\ DOMAIN w = {"node", "disk", "err", "io"}
  BY DEF Fits, Clear, Calm, Good
<1>2. Smooth(w, v)
  BY <1>1, ClearEmptyDirSmooth DEF Clear
<1>3. /\ L \in Nat \ {0} /\ DOMAIN s = 1 .. L /\ s[L] = d
      /\ \A k \in 1 .. L : s[k] \in N /\ PathOf(w, s[k]) = Path(k)
      /\ \A k \in 1 .. L - 1 : w.node[s[k + 1]].parent = s[k]
  BY ChainIn
<1>4. v = Unmarked(w, Y, Removed(w.disk, R))
  <2>1. Rooted(w, d)
    BY <1>1, AllRooted
  <2>2. v = Check(w, Idle(L) => Rooted(w, s[L]), "Path too long", Unmarked(w, Y, Removed(w.disk, R)))
    BY DEF clearEmptyDir, ClearAlong
  <2> HIDE DEF Idle, Y, R
  <2> QED BY <1>3, <2>1, <2>2 DEF Check, Then, Clear
<1>5. K \subseteq 1 .. L /\ \A k \in K : Idle(k) /\ (k < L => k + 1 \in K)
  <2>1. K \subseteq 1 .. L
    BY <1>3
  <2>2. ASSUME NEW k \in K
        PROVE  Idle(k)
    BY <1>3, <2>1
  <2>3. ASSUME NEW k \in K, k < L
        PROVE  k + 1 \in K
    <3>1. k \in 1 .. L /\ \A j \in k .. L : Idle(j) /\ Empty(j)
      BY <1>3
    <3>2. k + 1 \in 1 .. L /\ \A j \in k + 1 .. L : j \in k .. L
      BY <1>3, <2>3, <3>1
    <3> HIDE DEF Idle, Empty
    <3> QED BY <1>3, <3>1, <3>2
  <2> QED BY <2>1, <2>2, <2>3
<1> HIDE DEF K
<1>6. ASSUME NEW n \in N, w.node[n].created, w.node[n].parent \in Y
      PROVE  n \in Y
  <2>1. PICK k \in K : w.node[n].parent = s[k]
    BY <1>6
  <2>2. k \in 1 .. L /\ Idle(k) /\ (k < L => k + 1 \in K)
    BY <1>5
  <2>3. s[k] \in DOMAIN w.node /\ n \in DOMAIN w.node
    BY <1>3, <2>2 DEF Fits
  <2>4. n \in Kids(w, s[k])
    <3>1. s[k] # NoNode /\ n # NoNode
      BY <1>1, <2>3, GoodParents
    <3>2. w.node[s[k]].kids[w.node[n].name] = n /\ w.node[n].name \in Name
      BY <1>1, <2>1, <2>3, <3>1 DEF Good, Heap, ParentKnowsChild, NodeType
    <3> QED BY <3>1, <3>2 DEF Kids
  <2>5. k < L /\ n = s[k + 1]
    BY <1>6, <2>2, <2>4
  <2> QED BY <2>2, <2>5
<1>7. /\ v.disk = Removed(w.disk, R) /\ v.io = w.io
      /\ \A n \in DOMAIN w.node : v.node[n].created <=> w.node[n].created /\ n \notin Y
  <2> HIDE DEF Y, R
  <2>1. v.disk = Removed(w.disk, R) /\ v.io = w.io
    BY <1>1, <1>4 DEF Unmarked
  <2>2. \A n \in DOMAIN w.node : v.node[n] = [w.node[n] EXCEPT !.created = w.node[n].created /\ n \notin Y]
    BY <1>1, <1>4 DEF Unmarked
  <2>3. \A n \in DOMAIN w.node : w.node[n] \in NodeType
    BY <1>1 DEF Good, Heap
  <2> QED BY <2>1, <2>2, <2>3 DEF NodeType
<1>8. R = {PathOf(w, n) : n \in Y}
  <2> DEFINE Q == {PathOf(w, n) : n \in Y}
  <2>1. ASSUME NEW k \in K
        PROVE  Path(k) = PathOf(w, s[k])
    BY <1>3, <1>5
  <2> HIDE DEF Path, s
  <2>2. \A q \in R : q \in Q
    BY <2>1
  <2>3. \A q \in Q : q \in R
    BY <2>1
  <2> QED BY <2>2, <2>3
<1>9. Y \subseteq N
  BY <1>3, <1>5
<1>10. N \subseteq DOMAIN w.node
  BY DEF Fits
<1> HIDE DEF Y, R
<1>11. Cut(w, v, N, Y)
  <2>1. /\ DOMAIN v.disk = {"entry", "size"} /\ DOMAIN v.disk.entry = DOMAIN w.disk.entry \ R
        /\ \A q \in DOMAIN v.disk.entry : v.disk.entry[q] = w.disk.entry[q]
    BY <1>7, RemovedDisk
  <2> QED BY <1>6, <1>7, <1>8, <1>9, <1>10, <2>1 DEF Cut
<1> QED BY <1>2, <1>7, <1>11, CutFits

\* A directory left empty is removed, and the ones above it.
LEMMA ClearSound ==
  ASSUME NEW w, Sound(w), NEW d \in DOMAIN w.node
  PROVE  Sound(clearEmptyDir(w, d)) /\ Smooth(w, clearEmptyDir(w, d))
<1> DEFINE v == clearEmptyDir(w, d)
<1>1. Smooth(w, v) /\ Fits(v, DOMAIN w.node) /\ v.io = w.io
  BY ClearFits DEF Sound
<1>2. Clear(v) /\ DOMAIN v.node = DOMAIN w.node /\ Quiet(w, v)
  BY <1>1, SmoothPaths, SmoothQuiet DEF Sound, Clear
<1> QED BY <1>1, <1>2, QuietApart DEF Sound

\* What keeps the tree, and the agreement with the disk, is sound.
LEMMA SmoothSound ==
  ASSUME NEW w, Sound(w), NEW v, Smooth(w, v), v.io = w.io, Fits(v, DOMAIN w.node)
  PROVE  Sound(v) /\ DOMAIN v.node = DOMAIN w.node
<1>1. Clear(v) /\ DOMAIN v.node = DOMAIN w.node
  BY SmoothPaths DEF Sound
<1>2. Apart(v.node)
  BY SmoothQuiet, QuietApart DEF Sound, Clear
<1> QED BY <1>1, <1>2 DEF Sound

\* Attributes change, or the contents of files.
LEMMA IdleSound ==
  ASSUME NEW w, Sound(w), NEW v, Smooth(w, v), v.io = w.io,
         DOMAIN v.disk = {"entry", "size"}, v.disk.entry = w.disk.entry,
         \A n \in DOMAIN w.node : v.node[n].created <=> w.node[n].created
  PROVE  Sound(v) /\ DOMAIN v.node = DOMAIN w.node
<1>1. Fits(v, DOMAIN w.node)
  BY IdleFits DEF Sound
<1> QED BY <1>1, SmoothSound

\* More is created.
LEMMA GrownSound ==
  ASSUME NEW w, Sound(w), NEW v, Smooth(w, v), v.io = w.io, NEW X, Grown(w, v, DOMAIN w.node, X)
  PROVE  Sound(v) /\ DOMAIN v.node = DOMAIN w.node
<1>1. Fits(v, DOMAIN w.node)
  BY GrownFits DEF Sound
<1> QED BY <1>1, SmoothSound

\* A sound world, node by node.
LEMMA SoundNodes ==
  ASSUME NEW w, Sound(w), NEW n \in DOMAIN w.node
  PROVE  /\ w.node[n].created <=> PathOf(w, n) \in DOMAIN w.disk.entry
         /\ w.node[n].created => (w.disk.entry[PathOf(w, n)].kind = "dir" <=> w.node[n].dir)
         /\ w.node[n].parent # NoNode =>
              /\ w.node[n].parent \in DOMAIN w.node /\ w.node[w.node[n].parent].dir
              /\ w.node[n].created => w.node[w.node[n].parent].created
BY DEF Sound, Fits, Matched, Ordered, Exists

\* The path of a directory is made.
LEMMA MakeSound ==
  ASSUME NEW w, Sound(w), NEW n \in DOMAIN w.node, w.node[n].dir, NEW v, v = makePath(w, n)
  PROVE  /\ Sound(v) /\ Smooth(w, v) /\ v.node[n].created /\ v.io = w.io
         /\ DOMAIN v.node = DOMAIN w.node
         /\ \A m \in DOMAIN w.node : w.node[m].created => v.node[m].created
<1>1. Clear(w) /\ Calm(w) /\ Fits(w, DOMAIN w.node) /\ Good(w) /\ Layered(w.node) /\ "mkdir" \notin w.io
  BY DEF Sound, Clear, Calm, Obedient
<1>2. Smooth(w, v) /\ Rooted(w, n)
  BY <1>1, MakePathSmooth, AllRooted
<1>3. CASE w.node[n].created
  BY <1>1, <1>2, <1>3, CalcPathSmooth DEF makePath
<1>4. CASE ~w.node[n].created
  <2> DEFINE s == Chain(w, n)
             path == PathOf(w, n)
             Path(k) == SubSeq(path, 1, k)
             Made(k) == ~Exists(w.disk, Path(k)) /\ ~w.node[s[k]].created /\ "mkdir" \notin w.io
             Reached(k) == \A j \in 1 .. k : IsDir(w.disk, Path(j)) \/ Made(j)
             X == {s[k] : k \in {j \in DOMAIN s : Exists(w.disk, Path(j)) \/ Reached(j)}}
             R == {Path(k) : k \in {j \in DOMAIN s : Made(j) /\ Reached(j)}}
  <2>1. /\ Len(s) \in Nat \ {0} /\ DOMAIN s = 1 .. Len(s) /\ s[Len(s)] = n
        /\ \A k \in 1 .. Len(s) : s[k] \in DOMAIN w.node /\ PathOf(w, s[k]) = Path(k) /\ w.node[s[k]].dir
        /\ \A k \in 1 .. Len(s) - 1 : w.node[s[k + 1]].parent = s[k]
    BY <1>1, ChainIn
  <2>2. w.node[s[1]].parent = NoNode
    BY <1>1, ChainAnchored DEF Anchored
  <2>3. v = Marked(w, X, Mkdirs(w.disk, R))
    <3>1. v = MakeChain(w, n)
      BY <1>1, <1>2, <1>4 DEF makePath, Check, Then, Clear
    <3> QED BY <3>1 DEF MakeChain, MakeAlong
  <2>4. ASSUME NEW k \in 1 .. Len(s)
        PROVE  /\ Made(k) <=> Path(k) \notin DOMAIN w.disk.entry
               /\ IsDir(w.disk, Path(k)) \/ Made(k)
               /\ Path(k) \in DOMAIN w.disk.entry => w.disk.entry[Path(k)].kind = "dir"
    <3>1. s[k] \in DOMAIN w.node /\ PathOf(w, s[k]) = Path(k) /\ w.node[s[k]].dir
      BY <2>1
    <3> HIDE DEF Path, s
    <3>2. /\ w.node[s[k]].created <=> Path(k) \in DOMAIN w.disk.entry
          /\ w.node[s[k]].created => w.disk.entry[Path(k)].kind = "dir"
      BY <3>1, SoundNodes
    <3> QED BY <1>1, <3>2 DEF IsDir, Exists
  <2> HIDE DEF Made, Path
  <2>5. ASSUME NEW k \in 1 .. Len(s)
        PROVE  Reached(k)
    <3>1. \A j \in 1 .. k : j \in 1 .. Len(s)
      BY <2>1
    <3> QED BY <2>4, <3>1
  <2> HIDE DEF Reached
  <2>6. X = {s[k] : k \in 1 .. Len(s)}
    BY <2>1, <2>5
  <2>7. \A q : q \in R <=> \E k \in 1 .. Len(s) : Path(k) \notin DOMAIN w.disk.entry /\ q = Path(k)
    BY <2>1, <2>4, <2>5
  <2> HIDE DEF X, R
  <2>8. \A m \in X : m \in DOMAIN w.node /\ w.node[m].dir /\
                     (PathOf(w, m) \notin DOMAIN w.disk.entry => PathOf(w, m) \in R)
    BY <2>1, <2>6, <2>7
  <2>9. \A q \in R : q \notin DOMAIN w.disk.entry /\ \E m \in X : q = PathOf(w, m)
    BY <2>1, <2>6, <2>7
  <2>10. \A m \in X : w.node[m].parent # NoNode => w.node[m].parent \in X
    <3> SUFFICES ASSUME NEW k \in 1 .. Len(s), w.node[s[k]].parent # NoNode
                 PROVE  w.node[s[k]].parent \in X
      BY <2>6
    <3>1. k # 1
      BY <2>2
    <3>2. k - 1 \in 1 .. Len(s) - 1 /\ (k - 1) + 1 = k /\ k - 1 \in 1 .. Len(s)
      BY <2>1, <3>1
    <3>3. w.node[s[(k - 1) + 1]].parent = s[k - 1]
      BY <2>1, <3>2
    <3>4. s[k - 1] \in X
      BY <2>6, <3>2
    <3> QED BY <3>2, <3>3, <3>4
  <2>11. n \in X
    BY <2>1, <2>6
  <2>12. /\ v.io = w.io /\ v.disk = Mkdirs(w.disk, R)
         /\ \A m \in DOMAIN w.node : v.node[m].created <=> w.node[m].created \/ m \in X
    <3>1. v.io = w.io /\ v.disk = Mkdirs(w.disk, R)
      BY <1>1, <2>3 DEF Marked, Good
    <3>2. \A m \in DOMAIN w.node : v.node[m] = [w.node[m] EXCEPT !.created = w.node[m].created \/ m \in X]
      BY <1>1, <2>3 DEF Marked, Good
    <3>3. \A m \in DOMAIN w.node : w.node[m] \in NodeType
      BY <1>1 DEF Good, Heap
    <3>4. ASSUME NEW m \in DOMAIN w.node
          PROVE  v.node[m].created <=> w.node[m].created \/ m \in X
      BY <3>2, <3>3 DEF NodeType
    <3> QED BY <3>1, <3>4
  <2>13. Grown(w, v, DOMAIN w.node, X)
    <3>1. /\ DOMAIN v.disk = {"entry", "size"} /\ DOMAIN v.disk.entry = DOMAIN w.disk.entry \cup R
          /\ \A q \in R : v.disk.entry[q].kind = "dir"
          /\ \A q \in DOMAIN w.disk.entry \ R : v.disk.entry[q] = w.disk.entry[q]
      <4>1. DOMAIN w.disk = {"entry", "size"}
        BY <1>1 DEF Fits
      <4>2. v.disk = Mkdirs(w.disk, R)
        BY <2>12
      <4> QED BY <4>1, <4>2, MkdirsDisk
    <3>2. DOMAIN v.disk.entry = DOMAIN w.disk.entry \cup {PathOf(w, m) : m \in X}
      BY <2>8, <2>9, <3>1
    <3>3. \A q \in DOMAIN w.disk.entry : v.disk.entry[q] = w.disk.entry[q]
      BY <2>9, <3>1
    <3>4. \A m \in X : v.disk.entry[PathOf(w, m)].kind = "dir" <=> w.node[m].dir
      <4> SUFFICES ASSUME NEW m \in X
                   PROVE  v.disk.entry[PathOf(w, m)].kind = "dir"
        BY <2>8
      <4>1. CASE PathOf(w, m) \in R
        BY <3>1, <4>1
      <4>2. CASE PathOf(w, m) \in DOMAIN w.disk.entry
        <5>1. m \in DOMAIN w.node /\ w.node[m].dir
          BY <2>8
        <5> QED BY <3>3, <4>2, <5>1, SoundNodes
      <4> QED BY <2>8, <4>1, <4>2
    <3> QED BY <2>8, <2>10, <2>12, <3>1, <3>2, <3>3, <3>4 DEF Grown
  <2> QED BY <1>2, <2>11, <2>12, <2>13, GrownSound
<1> QED BY <1>3, <1>4

\* So is that of a node's parent, before a file is opened in it.
Housed(w, n) == w.node[n].parent # NoNode => w.node[w.node[n].parent].created

\* MakeParent makes it one.
LEMMA MakeParentSound ==
  ASSUME NEW w, Sound(w), NEW n \in DOMAIN w.node, NEW v, v = MakeParent(w, n)
  PROVE  Sound(v) /\ Smooth(w, v) /\ DOMAIN v.node = DOMAIN w.node /\ Housed(v, n)
<1> DEFINE p == w.node[n].parent
<1>1. w.err = NoError /\ Calm(w)
  BY DEF Sound, Clear
<1>2. v = IF p # NoNode /\ ~w.node[p].created THEN makePath(w, p) ELSE w
  BY <1>1 DEF MakeParent, Then
<1>3. p # NoNode => p \in DOMAIN w.node /\ w.node[p].dir
  BY SoundNodes
<1>4. CASE p # NoNode /\ ~w.node[p].created
  <2> HIDE DEF p
  <2>1. Sound(v) /\ Smooth(w, v) /\ v.node[p].created /\ DOMAIN v.node = DOMAIN w.node
    BY <1>2, <1>3, <1>4, MakeSound
  <2>2. v.node[n].parent = p
    BY <1>1, <2>1, SmoothKeeps DEF p
  <2> QED BY <2>1, <2>2 DEF Housed
<1>5. CASE ~(p # NoNode /\ ~w.node[p].created)
  BY <1>1, <1>2, <1>5, SmoothRefl DEF Housed
<1> QED BY <1>4, <1>5

\* What is kept goes on being the house of n.
LEMMA StillHoused ==
  ASSUME NEW w, Sound(w), NEW n \in DOMAIN w.node, Housed(w, n), NEW v, Smooth(w, v),
         \A m \in DOMAIN w.node : v.node[m].created <=> w.node[m].created
  PROVE  Housed(v, n)
<1>1. v.node[n].parent = w.node[n].parent
  BY SmoothKeeps DEF Sound, Clear
<1>2. w.node[n].parent # NoNode => w.node[n].parent \in DOMAIN w.node
  BY SoundNodes
<1> QED BY <1>1, <1>2 DEF Housed

\* open(2) of a file.
LEMMA OpenSound ==
  ASSUME NEW w, Sound(w), NEW n \in DOMAIN w.node, ~w.node[n].dir, Housed(w, n), NEW trunc,
         NEW v, v = OpenNode(w, n, trunc)
  PROVE  Sound(v) /\ Smooth(w, v) /\ DOMAIN v.node = DOMAIN w.node
<1> DEFINE path == PathOf(w, n)
<1>1. Smooth(w, v) /\ Good(w) /\ DOMAIN w.disk = {"entry", "size"}
  BY OpenNodeSmooth DEF Sound, Clear, Calm, Fits
<1>2. v.io = w.io /\ v.disk = Opened(w.disk, path, trunc)
  BY <1>1 DEF OpenNode, Good
<1>3. \A m \in DOMAIN w.node : v.node[m].created <=> w.node[m].created \/ m \in {n}
  BY <1>1 DEF OpenNode, Good, Heap, NodeType
<1>4. /\ DOMAIN v.disk = {"entry", "size"} /\ DOMAIN v.disk.entry = DOMAIN w.disk.entry \cup {path}
      /\ \A q \in DOMAIN w.disk.entry : v.disk.entry[q] = w.disk.entry[q]
      /\ path \notin DOMAIN w.disk.entry => v.disk.entry[path].kind = "file"
  BY <1>1, <1>2, OpenedDisk
<1>5. v.disk.entry[path].kind # "dir"
  <2>1. path \in DOMAIN w.disk.entry => w.disk.entry[path].kind # "dir"
    BY SoundNodes
  <2> QED BY <1>4, <2>1
<1>6. {PathOf(w, m) : m \in {n}} = {path}
  OBVIOUS
<1> HIDE DEF path
<1>7. v.disk.entry[PathOf(w, n)].kind # "dir"
  BY <1>5 DEF path
<1>8. Grown(w, v, DOMAIN w.node, {n})
  BY <1>1, <1>3, <1>4, <1>6, <1>7 DEF Grown, Housed
<1> QED BY <1>1, <1>2, <1>8, GrownSound

\* ftruncate(2) and write(2).
LEMMA ResizeSound ==
  ASSUME NEW w, Sound(w), NEW p, NEW s, NEW v, v = [w EXCEPT !.disk = Resized(w.disk, p, s)]
  PROVE  Sound(v) /\ Smooth(w, v) /\ DOMAIN v.node = DOMAIN w.node
<1>1. Smooth(w, v) /\ Good(w) /\ DOMAIN w.disk = {"entry", "size"}
  BY DiskSmooth DEF Sound, Clear, Calm, Fits
<1>2. v.io = w.io /\ v.node = w.node /\ v.disk = Resized(w.disk, p, s)
  BY <1>1 DEF Good
<1>3. DOMAIN v.disk = {"entry", "size"} /\ v.disk.entry = w.disk.entry
  BY <1>1, <1>2, ResizedDisk
<1> QED BY <1>1, <1>2, <1>3, IdleSound

\* Attributes.
LEMMA SetSizeSound ==
  ASSUME NEW w, Sound(w), NEW n \in DOMAIN w.node, NEW s \in Nat, NEW v, v = SetSize(w, n, s)
  PROVE  /\ Sound(v) /\ Smooth(w, v) /\ DOMAIN v.node = DOMAIN w.node
         /\ Housed(w, n) => Housed(v, n)
<1>1. Smooth(w, v) /\ Good(w) /\ w.err = NoError /\ DOMAIN w.disk = {"entry", "size"}
  BY SetSizeSmooth DEF Sound, Clear, Calm, Fits
<1>2. v = [w EXCEPT !.node[n].size = s]
  BY <1>1 DEF SetSize, Then
<1>3. v.io = w.io /\ v.disk = w.disk
  BY <1>1, <1>2 DEF Good
<1>4. \A m \in DOMAIN w.node : v.node[m].created <=> w.node[m].created
  BY <1>1, <1>2 DEF Good, Heap, NodeType
<1> QED BY <1>1, <1>3, <1>4, IdleSound, StillHoused

\* The time of the last access is no part of it.
LEMMA TouchSound ==
  ASSUME NEW w, Sound(w), NEW n \in DOMAIN w.node, NEW time \in Int, NEW v, v = Touch(w, n, time)
  PROVE  Sound(v) /\ Smooth(w, v) /\ DOMAIN v.node = DOMAIN w.node
<1>1. Smooth(w, v) /\ Good(w) /\ w.err = NoError /\ DOMAIN w.disk = {"entry", "size"}
  BY TouchSmooth DEF Sound, Clear, Calm, Fits
<1>2. v = [w EXCEPT !.node[n].access = time]
  BY <1>1 DEF Touch, Then
<1>3. v.io = w.io /\ v.disk = w.disk
  BY <1>1, <1>2 DEF Good
<1>4. \A m \in DOMAIN w.node : v.node[m].created <=> w.node[m].created
  BY <1>1, <1>2 DEF Good, Heap, NodeType
<1> QED BY <1>1, <1>3, <1>4, IdleSound

\* One after the other.
LEMMA SmoothStep ==
  ASSUME NEW w, Sound(w), NEW v, NEW u, Smooth(w, v), Smooth(v, u)
  PROVE  Smooth(w, u)
BY SmoothTrans DEF Sound, Clear

\* What a sound world is known to be.
LEMMA SoundRefl ==
  ASSUME NEW w, Sound(w)
  PROVE  /\ Smooth(w, w) /\ Calm(w) /\ Good(w) /\ w.err = NoError
         /\ \A n \in DOMAIN w.node : calcPath(w, n) = w
BY SmoothRefl, CalcPathSmooth DEF Sound, Clear, Calm

\* open(2), and the size the tree has for the file.
LEMMA OpenToSizeSound ==
  ASSUME NEW w, Sound(w), NEW n \in DOMAIN w.node, ~w.node[n].dir, Housed(w, n), NEW size, NEW trunc,
         NEW v, v = OpenToSize(w, n, size, trunc)
  PROVE  Sound(v) /\ Smooth(w, v) /\ DOMAIN v.node = DOMAIN w.node
<1> DEFINE u == OpenNode(w, n, trunc)
<1>1. Smooth(w, w) /\ w.err = NoError
  BY SoundRefl
<1>2. v \in {w, u, SetLength(u, PathOf(w, n), size)}
  BY <1>1 DEF OpenToSize, Then
<1>3. Sound(u) /\ Smooth(w, u) /\ DOMAIN u.node = DOMAIN w.node
  BY OpenSound
<1> HIDE DEF u
<1>4. CASE v = SetLength(u, PathOf(w, n), size)
  <2>1. Sound(v) /\ Smooth(u, v) /\ DOMAIN v.node = DOMAIN u.node
    BY <1>3, <1>4, ResizeSound DEF SetLength
  <2> QED BY <1>3, <2>1, SmoothStep
<1> QED BY <1>1, <1>2, <1>3, <1>4

\* A file is written to a new size.
LEMMA WriteToSizeSound ==
  ASSUME NEW w, Sound(w), NEW n \in DOMAIN w.node, ~w.node[n].dir, NEW size \in Nat,
         NEW v, v = writeToSize(w, n, size)
  PROVE  Sound(v) /\ Smooth(w, v) /\ DOMAIN v.node = DOMAIN w.node
<1> DEFINE p == MakeParent(w, n)
           s == SetSize(p, n, size)
           o == OpenToSize(s, n, size, size < w.node[n].size)
           r == SetLength(w, PathOf(w, n), size)
<1>1. Smooth(w, w) /\ Calm(w) /\ w.err = NoError /\ calcPath(w, n) = w
  BY SoundRefl
<1>2. Sound(p) /\ Smooth(w, p) /\ DOMAIN p.node = DOMAIN w.node /\ Housed(p, n)
  BY MakeParentSound
<1>3. Sound(s) /\ Smooth(p, s) /\ DOMAIN s.node = DOMAIN w.node /\ Housed(s, n)
  <2> HIDE DEF p
  <2> QED BY <1>2, SetSizeSound
<1>4. calcPath(s, n) = s
  BY <1>3, SoundRefl
<1>5. ~s.node[n].dir
  <2>1. Smooth(w, s)
    BY <1>2, <1>3, SmoothStep
  <2> QED BY <1>1, <2>1, SmoothKeeps
<1>6. v \in {w, r, o}
  <2> HIDE DEF s, o, r
  <2> QED BY <1>1, <1>4 DEF writeToSize, s, o, r
<1>7. Sound(o) /\ Smooth(s, o) /\ DOMAIN o.node = DOMAIN s.node
  <2> HIDE DEF s
  <2> QED BY <1>3, <1>5, OpenToSizeSound
<1>8. Sound(r) /\ Smooth(w, r) /\ DOMAIN r.node = DOMAIN w.node
  BY ResizeSound DEF SetLength
<1> HIDE DEF p, s, o, r
<1>9. Smooth(w, o)
  BY <1>2, <1>3, <1>7, SmoothStep
<1> QED BY <1>1, <1>3, <1>6, <1>7, <1>8, <1>9

\* A WRITE opens the file, and writes or truncates it.
LEMMA WriteToSound ==
  ASSUME NEW w, Sound(w), NEW n \in DOMAIN w.node, ~w.node[n].dir, Housed(w, n), NEW req,
         req.offset \in Nat, req.count \in Nat, NEW v, v = WriteTo(w, n, req)
  PROVE  Sound(v)
<1> DEFINE end == (req.offset + req.count) % SizeSpace
           s == IF end > w.node[n].size THEN SetSize(w, n, end) ELSE w
           u == OpenNode(s, n, w.node[n].size = 0)
<1>1. Smooth(w, w) /\ Calm(w)
  BY SoundRefl
<1>2. end \in Nat
  BY EngineAssumption
<1> HIDE DEF end
<1>3. Sound(s) /\ Smooth(w, s) /\ DOMAIN s.node = DOMAIN w.node /\ Housed(s, n)
  BY <1>1, <1>2, SetSizeSound
<1>4. ~s.node[n].dir
  BY <1>1, <1>3, SmoothKeeps
<1> HIDE DEF s
<1>5. Sound(u)
  BY <1>3, <1>4, OpenSound
<1> HIDE DEF u
<1>6. \/ v \in {s, u}
      \/ \E a, b : v = [u EXCEPT !.disk = Resized(u.disk, a, b)]
  BY DEF WriteTo, Truncate, Fill, s, u, end
<1> QED BY <1>3, <1>5, <1>6, ResizeSound

\* A path above that of a node is a node's, a directory that is not empty.
LEMMA PrefixNode ==
  ASSUME NEW w, Sound(w), NEW m \in DOMAIN w.node, NEW q \in Seq(Name), Len(q) # 0,
         IsPrefix(q, PathOf(w, m))
  PROVE  \E c \in DOMAIN w.node : /\ PathOf(w, c) = q
                                  /\ w.node[m].created => w.node[c].created
                                  /\ m # c => ~isDeletable(w, c) /\ w.node[c].dir
<1> DEFINE s == Chain(w, m)
           k == Len(q)
           c == s[k]
<1>1. Clear(w) /\ Fits(w, DOMAIN w.node) /\ Good(w) /\ Layered(w.node)
  BY DEF Sound, Clear, Calm
<1>2. PathOf(w, m) \in Seq(Name) /\ Len(PathOf(w, m)) = Len(s) /\ Len(s) \in Nat
  BY <1>1, PathType
<1>3. k <= Len(s) /\ \A i \in 1 .. k : q[i] = PathOf(w, m)[i]
  BY <1>2, PrefixPoints
<1>4. k \in 1 .. Len(s) /\ k \in 1 .. Len(PathOf(w, m))
  <2>1. k \in Nat
    OBVIOUS
  <2> QED BY <1>2, <1>3, <2>1
<1>5. SubSeq(PathOf(w, m), 1, k) = q
  <2>1. /\ SubSeq(PathOf(w, m), 1, k) \in Seq(Name) /\ Len(SubSeq(PathOf(w, m), 1, k)) = k
        /\ \A i \in 1 .. k : SubSeq(PathOf(w, m), 1, k)[i] = PathOf(w, m)[i]
    BY <1>2, <1>4, Start
  <2> QED BY <1>3, <2>1, SeqEqual
<1>6. /\ s[Len(s)] = m /\ c \in DOMAIN w.node /\ PathOf(w, c) = SubSeq(PathOf(w, m), 1, k)
      /\ k # Len(s) => w.node[c].dir
      /\ w.node[m].created => w.node[c].created
      /\ k \in 1 .. Len(s) - 1 => w.node[s[k + 1]].parent = c
  BY <1>1, <1>4, ChainIn
<1>7. CASE k = Len(s)
  BY <1>5, <1>6, <1>7
<1>8. CASE k # Len(s)
  <2>1. k \in 1 .. Len(s) - 1 /\ k + 1 \in 1 .. Len(s)
    BY <1>2, <1>4, <1>8
  <2>2. s[k + 1] \in DOMAIN w.node /\ w.node[s[k + 1]].parent = c /\ c # NoNode
    BY <1>1, <1>6, <2>1, ChainIn, GoodParents
  <2>3. ~isDeletable(w, c)
    BY <1>1, <2>2, ParentNotDeletable
  <2> QED BY <1>5, <1>6, <1>8, <2>3
<1> QED BY <1>7, <1>8

\* The node at the path of a directory's entry is the directory's child.
LEMMA PlaceNode ==
  ASSUME NEW w, Sound(w), NEW p \in DOMAIN w.node, NEW x \in Name, NEW c \in DOMAIN w.node,
         PathOf(w, c) = Append(PathOf(w, p), x)
  PROVE  w.node[c].parent = p /\ w.node[c].name = x /\ w.node[p].kids[x] = c
<1> DEFINE r == w.node[c].parent
           y == w.node[c].name
<1>1. Good(w) /\ Layered(w.node) /\ Apart(w.node)
  BY DEF Sound, Clear, Calm
<1>2. PathOf(w, p) \in Seq(Name) /\ Len(PathOf(w, p)) \in Nat \ {0}
  BY <1>1, PathType
<1>3. y \in Name
  BY <1>1, PathStep
<1>4. r # NoNode
  <2>1. Len(Append(PathOf(w, p), x)) = Len(PathOf(w, p)) + 1
    BY <1>2, AppendProperties
  <2>2. Len(PathOf(w, c)) # 1
    BY <1>2, <2>1
  <2>3. Len(<<y>>) = 1
    BY <1>3, Singleton
  <2> QED BY <1>1, <2>2, <2>3, PathStep
<1>5. r \in DOMAIN w.node /\ PathOf(w, c) = Append(PathOf(w, r), y)
  BY <1>1, <1>4, PathStep
<1>6. PathOf(w, r) \in Seq(Name)
  BY <1>1, <1>5, PathType
<1>7. PathOf(w, r) = PathOf(w, p) /\ y = x
  <2> DEFINE a == PathOf(w, r)
             b == PathOf(w, p)
  <2>1. Append(a, y) = Append(b, x) /\ a \in Seq(Name) /\ b \in Seq(Name)
    BY <1>2, <1>5, <1>6
  <2> HIDE DEF a, b, y
  <2>2. Len(a) + 1 = Len(b) + 1 /\ Append(a, y)[Len(a) + 1] = y /\ Append(b, x)[Len(b) + 1] = x
    BY <1>3, <2>1, AppendProperties
  <2>3. Len(a) = Len(b) /\ y = x
    BY <2>1, <2>2
  <2>4. \A i \in 1 .. Len(a) : a[i] = b[i]
    <3>1. \A i \in 1 .. Len(a) : Append(a, y)[i] = a[i] /\ Append(b, x)[i] = b[i]
      BY <1>3, <2>1, <2>3, AppendProperties
    <3> QED BY <2>1, <3>1
  <2>5. a = b
    BY <2>1, <2>3, <2>4, SeqEqual
  <2> QED BY <2>3, <2>5 DEF a, b
<1>8. r = p
  BY <1>1, <1>5, <1>7, PathSame
<1> QED BY <1>1, <1>4, <1>7, <1>8 DEF Good, Heap, ParentKnowsChild

\* Nothing is below a node without children.
LEMMA LeafAlone ==
  ASSUME NEW w, Sound(w), NEW c \in DOMAIN w.node, isDeletable(w, c), NEW m \in DOMAIN w.node,
         IsPrefix(PathOf(w, c), PathOf(w, m))
  PROVE  m = c
<1>1. Good(w) /\ Layered(w.node) /\ Apart(w.node)
  BY DEF Sound, Clear, Calm
<1>2. PathOf(w, c) \in Seq(Name) /\ Len(PathOf(w, c)) # 0
  BY <1>1, PathType
<1>3. PICK d \in DOMAIN w.node : PathOf(w, d) = PathOf(w, c) /\ (m # d => ~isDeletable(w, d))
  BY <1>2, PrefixNode
<1>4. d = c
  BY <1>1, <1>3, PathSame
<1> QED BY <1>3, <1>4

\* Nor is anything on the disk.
LEMMA LeafBelow ==
  ASSUME NEW w, Sound(w), NEW c \in DOMAIN w.node, isDeletable(w, c)
  PROVE  Below(w.disk, PathOf(w, c)) = {}
<1> SUFFICES ASSUME NEW q \in DOMAIN w.disk.entry, IsPrefix(PathOf(w, c), q), q # PathOf(w, c)
             PROVE  FALSE
  BY DEF Below, IsStrictPrefix
<1>1. PICK m \in DOMAIN w.node : PathOf(w, m) = q
  BY DEF Sound, Fits, Owned
<1>2. m = c
  BY <1>1, LeafAlone
<1> QED BY <1>1, <1>2

\* remove(2) of a node without children succeeds.
LEMMA UnlinkDisk ==
  ASSUME NEW w, Sound(w), NEW c \in DOMAIN w.node, isDeletable(w, c), w.node[c].created
  PROVE  /\ CanUnlink(w, c)
         /\ Unlink(w, c) = [w EXCEPT !.disk = Removed(w.disk, {PathOf(w, c)})]
         /\ RemoveOnDisk(w, c) = [w EXCEPT !.disk = Removed(w.disk, {PathOf(w, c)}),
                                           !.node[c].created = FALSE]
<1>1. w.err = NoError /\ calcPath(w, c) = w /\ Good(w)
  BY SoundRefl
<1>2. CanUnlink(w, c)
  BY LeafBelow, SoundNodes DEF CanUnlink, CanRemove, Exists, Sound, Obedient
<1>3. Unlink(w, c) = [w EXCEPT !.disk = Removed(w.disk, {PathOf(w, c)})]
  BY <1>1, <1>2 DEF Unlink, Then
<1>4. RemoveOnDisk(w, c) = [w EXCEPT !.disk = Removed(w.disk, {PathOf(w, c)}),
                                     !.node[c].created = FALSE]
  BY <1>1, <1>2, <1>3 DEF RemoveOnDisk, Then, Good
<1> QED BY <1>2, <1>3, <1>4

\* The node that is removed is no longer created.
LEMMA RemoveOnDiskSound ==
  ASSUME NEW w, Sound(w), NEW c \in DOMAIN w.node, isDeletable(w, c), NEW v,
         v = IF w.node[c].created THEN RemoveOnDisk(w, c) ELSE w
  PROVE  /\ Sound(v) /\ Smooth(w, v) /\ DOMAIN v.node = DOMAIN w.node /\ v.io = w.io
         /\ ~v.node[c].created
         /\ \A n \in DOMAIN w.node \ {c} : v.node[n].created <=> w.node[n].created
<1>1. Clear(w) /\ Calm(w) /\ Fits(w, DOMAIN w.node) /\ Good(w)
  BY DEF Sound, Clear, Calm
<1>2. CASE ~w.node[c].created
  BY <1>2, SoundRefl
<1>3. CASE w.node[c].created
  <2> DEFINE R == {PathOf(w, c)}
  <2>1. v = [w EXCEPT !.disk = Removed(w.disk, R), !.node[c].created = FALSE]
    BY <1>3, UnlinkDisk
  <2>2. Smooth(w, v)
    BY <1>1, <1>3, RemoveOnDiskSmooth
  <2> HIDE DEF R
  <2>3. /\ v.io = w.io /\ v.disk = Removed(w.disk, R)
        /\ \A n \in DOMAIN w.node : v.node[n].created <=> w.node[n].created /\ n \notin {c}
    <3>1. v.io = w.io /\ v.disk = Removed(w.disk, R)
      BY <1>1, <2>1 DEF Good
    <3>2. v.node = [w.node EXCEPT ![c] = [w.node[c] EXCEPT !.created = FALSE]]
      BY <1>1, <2>1 DEF Good
    <3>3. \A n \in DOMAIN w.node : w.node[n] \in NodeType
      BY <1>1 DEF Good, Heap
    <3> QED BY <3>1, <3>2, <3>3 DEF NodeType
  <2>4. /\ DOMAIN v.disk = {"entry", "size"} /\ DOMAIN v.disk.entry = DOMAIN w.disk.entry \ R
        /\ \A q \in DOMAIN v.disk.entry : v.disk.entry[q] = w.disk.entry[q]
    BY <2>3, RemovedDisk
  <2>5. R = {PathOf(w, n) : n \in {c}}
    BY DEF R
  <2>6. ASSUME NEW n \in DOMAIN w.node, w.node[n].parent \in {c}
        PROVE  FALSE
    BY <1>1, <2>6, ParentNotDeletable, GoodParents
  <2>7. Cut(w, v, DOMAIN w.node, {c})
    BY <2>3, <2>4, <2>5, <2>6 DEF Cut
  <2>8. Fits(v, DOMAIN w.node)
    BY <1>1, <2>2, <2>7, CutFits
  <2> QED BY <2>2, <2>3, <2>8, SmoothSound
<1> QED BY <1>2, <1>3

-----------------------------------------------------------------------------
(* Nodes come and go.                                                      *)

\* What v says of the nodes of N is what w said.
SameNodes(w, v, N) ==
  /\ SameLinks(w, v, N)
  /\ \A n \in N : v.node[n].dir = w.node[n].dir /\ (v.node[n].created <=> w.node[n].created)

SameDisk(w, v) == v.disk = w.disk /\ v.io = w.io

\* Nodes that are not created may go.
LEMMA TrimFits ==
  ASSUME NEW w, Clear(w), NEW N, Fits(w, N), NEW v, Clear(v), NEW M, M \subseteq N,
         SameNodes(w, v, M), v.disk = w.disk, \A n \in N : n \notin M => ~w.node[n].created
  PROVE  Fits(v, M)
<1>1. Good(w) /\ Layered(w.node) /\ Good(v) /\ Layered(v.node)
  BY DEF Clear, Calm
<1>2. \A n \in M : PathOf(v, n) = PathOf(w, n)
  BY <1>1, SamePaths DEF SameNodes
<1>3. Ordered(v, M)
  <2> SUFFICES ASSUME NEW n \in M, w.node[n].parent # NoNode
               PROVE  LET p == w.node[n].parent
                      IN  p \in M /\ v.node[p].dir /\ (v.node[n].created => v.node[p].created)
    BY DEF SameNodes, SameLinks, Ordered
  <2> DEFINE p == w.node[n].parent
  <2>1. p \in M /\ w.node[p].dir /\ (w.node[n].created => w.node[p].created)
    BY DEF Fits, Ordered, SameNodes, SameLinks
  <2> QED BY <2>1 DEF SameNodes
<1>4. Matched(v, M)
  BY <1>2 DEF Fits, Matched, SameNodes, Exists
<1>5. Owned(v, M)
  <2> SUFFICES ASSUME NEW q \in DOMAIN w.disk.entry
               PROVE  \E n \in M : PathOf(v, n) = q
    BY DEF Owned
  <2>1. PICK n \in N : PathOf(w, n) = q
    BY DEF Fits, Owned
  <2>2. w.node[n].created
    BY <2>1 DEF Fits, Matched, Exists
  <2> QED BY <1>2, <2>1, <2>2
<1>6. Distinct(v, M)
  BY <1>2 DEF Fits, Distinct
<1> QED BY <1>3, <1>4, <1>5, <1>6 DEF Fits, SameNodes, SameLinks

\* A new node, which is not created.
LEMMA AddSound ==
  ASSUME NEW w, Sound(w), NEW v, Calm(v), v.err = NoError, Apart(v.node),
         NEW n, NEW h, NEW x, NEW p, NEW b, Added(w, v, n, h, x, p, b),
         p # NoNode => p \in DOMAIN w.node /\ w.node[p].dir,
         SameDisk(w, v), ~v.node[n].created,
         \A m \in DOMAIN w.node : v.node[m].created <=> w.node[m].created
  PROVE  /\ Sound(v) /\ n \in DOMAIN v.node /\ DOMAIN w.node \subseteq DOMAIN v.node
         /\ \A m \in DOMAIN w.node : PathOf(v, m) = PathOf(w, m)
<1> DEFINE N == DOMAIN w.node
<1>1. /\ Good(w) /\ Layered(w.node) /\ Good(v) /\ Layered(v.node) /\ Clear(v)
      /\ Fits(w, N) /\ Parents(w) /\ NoNode \notin DOMAIN w.node
  BY GoodParents DEF Sound, Clear, Calm
<1>2. /\ DOMAIN v.node = N \cup {n} /\ n \notin N /\ v.node[n].parent = p
      /\ \A m \in N : Stays(w, v, m)
  BY DEF Added
<1>3. SameLinks(w, v, N)
  BY <1>1, <1>2 DEF SameLinks, Stays, Parents
<1>4. \A m \in N : PathOf(v, m) = PathOf(w, m)
  BY <1>1, <1>3, SamePaths
<1>5. \A k, m \in DOMAIN v.node : PathOf(v, k) = PathOf(v, m) => k = m
  BY <1>1, PathSame
<1>6. PathOf(v, n) \notin DOMAIN w.disk.entry
  <2> SUFFICES ASSUME PathOf(v, n) \in DOMAIN w.disk.entry
               PROVE  FALSE
    OBVIOUS
  <2>1. PICK m \in N : PathOf(w, m) = PathOf(v, n)
    BY <1>1 DEF Fits, Owned
  <2> QED BY <1>2, <1>4, <1>5, <2>1
<1>7. Ordered(v, DOMAIN v.node)
  <2> SUFFICES ASSUME NEW m \in DOMAIN v.node, v.node[m].parent # NoNode
               PROVE  LET q == v.node[m].parent
                      IN  /\ q \in DOMAIN v.node /\ v.node[q].dir
                          /\ v.node[m].created => v.node[q].created
    BY DEF Ordered
  <2>1. CASE m = n
    BY <1>2, <2>1 DEF Stays
  <2>2. CASE m \in N
    <3>1. w.node[m].parent = v.node[m].parent
      BY <1>2, <2>2 DEF Stays
    <3> DEFINE q == v.node[m].parent
    <3>2. q \in N /\ w.node[q].dir /\ (w.node[m].created => w.node[q].created)
      BY <2>2, <3>1, SoundNodes
    <3> HIDE DEF q
    <3>3. v.node[q].dir /\ (v.node[m].created => v.node[q].created)
      BY <1>2, <2>2, <3>2 DEF Stays
    <3> QED BY <1>2, <3>2, <3>3 DEF q
  <2> QED BY <1>2, <2>1, <2>2
<1>8. Matched(v, DOMAIN v.node)
  <2> SUFFICES ASSUME NEW m \in DOMAIN v.node
               PROVE  /\ v.node[m].created <=> PathOf(v, m) \in DOMAIN w.disk.entry
                      /\ v.node[m].created => (w.disk.entry[PathOf(v, m)].kind = "dir" <=> v.node[m].dir)
    BY DEF Matched, Exists, SameDisk
  <2>1. CASE m = n
    BY <1>6, <2>1
  <2>2. CASE m \in N
    BY <1>2, <1>4, <2>2, SoundNodes DEF Stays
  <2> QED BY <1>2, <2>1, <2>2
<1>9. Owned(v, DOMAIN v.node)
  BY <1>1, <1>2, <1>4 DEF Fits, Owned, SameDisk
<1>10. Distinct(v, DOMAIN v.node)
  BY <1>5 DEF Distinct
<1>11. Fits(v, DOMAIN v.node)
  BY <1>1, <1>7, <1>8, <1>9, <1>10 DEF Fits, SameDisk
<1>12. Obedient(v.io)
  BY DEF Sound, SameDisk
<1> QED BY <1>1, <1>2, <1>4, <1>11, <1>12 DEF Sound

-----------------------------------------------------------------------------
(* A node takes a place in the tree, and on the disk.                      *)

\* Node e may become the child x of p, instead of b if there is one.
Vacant(u, e, p, x, b) ==
  /\ e \in DOMAIN u.node /\ p \in DOMAIN u.node /\ x \in Name /\ u.node[p].dir
  /\ b = u.node[p].kids[x] /\ b # e
  /\ b # NoNode => isDeletable(u, b) /\ u.node[b].dir = u.node[e].dir
  /\ NotBelow(u, u.node[p].fh, u.node[e].fh)

\* The path it gets.
Place(u, p, x) == Append(PathOf(u, p), x)

\* What is not below a file in the tree has no path below its path.
LEMMA NotBelowPath ==
  ASSUME NEW u, Sound(u), NEW e \in DOMAIN u.node, NEW p \in DOMAIN u.node,
         NotBelow(u, u.node[p].fh, u.node[e].fh)
  PROVE  ~IsPrefix(PathOf(u, e), PathOf(u, p))
<1>1. Good(u) /\ Layered(u.node) /\ Apart(u.node)
  BY DEF Sound, Clear, Calm
<1>2. PICK T : /\ u.node[e].fh \in T /\ u.node[p].fh \notin T
               /\ \A n \in DOMAIN u.node :
                    u.node[n].parent # NoNode /\ u.node[u.node[n].parent].fh \in T => u.node[n].fh \in T
  BY DEF NotBelow
<1> DEFINE S == {n \in DOMAIN u.node : u.node[n].fh \notin T /\ IsPrefix(PathOf(u, e), PathOf(u, n))}
<1>3. ASSUME NEW n \in S
      PROVE  u.node[n].parent \in S
  <2> DEFINE r == u.node[n].parent
             y == u.node[n].name
             s == PathOf(u, e)
             t == PathOf(u, n)
  <2>1. n # e /\ t # s /\ IsPrefix(s, t)
    BY <1>1, <1>2, <1>3, PathSame
  <2>2. s \in Seq(Name) /\ Len(s) \in Nat \ {0} /\ t \in Seq(Name) /\ y \in Name
    BY <1>1, <1>3, PathType, PathStep
  <2>3. r # NoNode
    <3> SUFFICES ASSUME r = NoNode
                 PROVE  FALSE
      OBVIOUS
    <3>1. t = <<y>>
      BY <1>1, <1>3, PathStep
    <3>2. Len(t) = 1
      BY <2>2, <3>1, Singleton
    <3> HIDE DEF s, t
    <3>3. Len(s) <= Len(t) /\ \A i \in 1 .. Len(s) : s[i] = t[i]
      BY <2>1, <2>2, PrefixPoints
    <3>4. Len(s) = Len(t)
      BY <2>2, <3>2, <3>3
    <3> QED BY <2>1, <2>2, <3>3, <3>4, SeqEqual
  <2>4. r \in DOMAIN u.node /\ t = Append(PathOf(u, r), y) /\ PathOf(u, r) \in Seq(Name)
    BY <1>1, <1>3, <2>3, PathStep, PathType
  <2>5. IsPrefix(s, PathOf(u, r))
    <3> HIDE DEF s, t, y
    <3> QED BY <2>1, <2>2, <2>4, PrefixAppend
  <2>6. u.node[r].fh \notin T
    BY <1>2, <1>3, <2>3
  <2> QED BY <2>4, <2>5, <2>6
<1>4. p \notin S
  <2> HIDE DEF S
  <2>1. S \in SUBSET DOMAIN u.node
    BY DEF S
  <2> QED BY <1>1, <1>3, <2>1, NoCycle
<1> QED BY <1>2, <1>4

\* Nothing but b is at the place, or below it.
LEMMA VacantPlace ==
  ASSUME NEW u, Sound(u), NEW e, NEW p, NEW x, NEW b, Vacant(u, e, p, x, b),
         NEW to, to = Place(u, p, x), NEW from, from = PathOf(u, e)
  PROVE  /\ from \in Seq(Name) /\ Len(from) # 0 /\ to \in Seq(Name) /\ Len(to) # 0
         /\ ~IsPrefix(from, to) /\ ~IsPrefix(from, PathOf(u, p)) /\ from # to
         /\ \A m \in DOMAIN u.node : IsPrefix(to, PathOf(u, m)) => m = b
         /\ b # NoNode => b \in DOMAIN u.node /\ PathOf(u, b) = to /\ u.node[b].parent = p
<1>1. Good(u) /\ Layered(u.node) /\ Apart(u.node)
  BY DEF Sound, Clear, Calm
<1>2. /\ e \in DOMAIN u.node /\ p \in DOMAIN u.node /\ x \in Name
      /\ b = u.node[p].kids[x] /\ b # e
      /\ b # NoNode => isDeletable(u, b)
  BY DEF Vacant
<1>3. PathOf(u, p) \in Seq(Name) /\ from \in Seq(Name) /\ Len(from) \in Nat \ {0} /\ Len(PathOf(u, p)) \in Nat
  BY <1>1, <1>2, PathType
<1>4. to \in Seq(Name) /\ Len(to) = Len(PathOf(u, p)) + 1
  BY <1>2, <1>3, AppendProperties DEF Place
<1>5. ~IsPrefix(from, PathOf(u, p))
  BY <1>2, NotBelowPath DEF Vacant
<1>6. \A c \in DOMAIN u.node : PathOf(u, c) = to => c = b
  BY <1>2, PlaceNode DEF Place
<1>7. from # to
  BY <1>2, <1>6
<1>8. ~IsPrefix(from, to)
  BY <1>2, <1>3, <1>5, <1>7, PrefixAppend DEF Place
<1>9. ASSUME NEW m \in DOMAIN u.node, IsPrefix(to, PathOf(u, m))
      PROVE  m = b
  <2>1. Len(to) # 0
    BY <1>3, <1>4
  <2>2. PICK c \in DOMAIN u.node : PathOf(u, c) = to /\ (m # c => ~isDeletable(u, c))
    BY <1>4, <1>9, <2>1, PrefixNode
  <2>3. c = b /\ c # NoNode
    BY <1>1, <1>6, <2>2, GoodParents
  <2> QED BY <1>2, <2>2, <2>3
<1>10. ASSUME b # NoNode
       PROVE  b \in DOMAIN u.node /\ PathOf(u, b) = to /\ u.node[b].parent = p
  <2>1. b \in DOMAIN u.node /\ u.node[b].parent = p /\ u.node[b].name = x /\ p # NoNode
    BY <1>1, <1>2, <1>10, ChildAllocated, GoodParents
  <2> QED BY <1>1, <2>1, PathStep DEF Place
<1> QED BY <1>3, <1>4, <1>5, <1>7, <1>8, <1>9, <1>10

\* In v, e has taken the place.
Placed(u, v, e, p, x, b) ==
  /\ DOMAIN v.node = DOMAIN u.node \ {b}
  /\ \A m \in DOMAIN v.node : /\ m # e => Stays(u, v, m)
                              /\ m # e => (v.node[m].created <=> u.node[m].created)
                              /\ v.node[m].dir = u.node[m].dir
  /\ v.node[e].parent = p /\ v.node[e].name = x
  /\ v.node[e].created <=> u.node[e].created \/ (b # NoNode /\ u.node[b].created)

\* Where the nodes are then.
NewPath(u, from, to, n) ==
  IF IsPrefix(from, PathOf(u, n)) THEN Rebase(from, to, PathOf(u, n)) ELSE PathOf(u, n)

\* They are what rename(2) makes of the old ones.
LEMMA PlacedPaths ==
  ASSUME NEW u, Sound(u), NEW e, NEW p, NEW x, NEW b, Vacant(u, e, p, x, b),
         NEW v, Calm(v), v.err = NoError, Placed(u, v, e, p, x, b),
         NEW to, to = Place(u, p, x), NEW from, from = PathOf(u, e)
  PROVE  \A n \in DOMAIN v.node : PathOf(v, n) = NewPath(u, from, to, n)
<1>1. /\ Good(u) /\ Layered(u.node) /\ Good(v) /\ Layered(v.node) /\ Apart(u.node)
      /\ NoNode \notin DOMAIN u.node
  BY GoodParents DEF Sound, Clear, Calm
<1>2. /\ from \in Seq(Name) /\ Len(from) # 0 /\ to \in Seq(Name)
      /\ ~IsPrefix(from, PathOf(u, p))
      /\ b # NoNode => b \in DOMAIN u.node /\ u.node[b].parent = p
  BY VacantPlace
<1>3. e \in DOMAIN u.node /\ p \in DOMAIN u.node /\ (b # NoNode => isDeletable(u, b)) /\ x \in Name /\ b # e
  BY DEF Vacant
<1> DEFINE N == DOMAIN v.node
<1>4. PICK f : f = [n \in N |-> NewPath(u, from, to, n)]
  OBVIOUS
<1>5. Places(v, N, f)
  <2> SUFFICES ASSUME NEW n \in N
               PROVE  LET r == v.node[n].parent
                      IN  /\ r = NoNode => f[n] = <<v.node[n].name>>
                          /\ r # NoNode => r \in N /\ f[n] = Append(f[r], v.node[n].name)
    BY DEF Places
  <2> DEFINE r == v.node[n].parent
             y == v.node[n].name
  <2>1. n \in DOMAIN u.node /\ (r # NoNode => r \in N /\ r \in DOMAIN u.node)
    BY <1>1, GoodParents DEF Placed, Parents
  <2>2. CASE n = e
    <3>1. r = p /\ y = x /\ r # NoNode
      BY <1>1, <1>3, <2>2 DEF Placed
    <3>2. f[p] = PathOf(u, p)
      BY <1>2, <1>4, <2>1, <3>1 DEF NewPath
    <3>3. IsPrefix(from, from) /\ Rebase(from, to, from) = to
      <4>1. Len(from) <= Len(from)
        BY <1>2
      <4> QED BY <1>2, <4>1, PrefixPoints, RebaseSelf
    <3>4. f[n] = to
      BY <1>4, <2>2, <3>3 DEF NewPath
    <3> QED BY <2>1, <3>1, <3>2, <3>4 DEF Place
  <2>3. CASE n # e /\ r = NoNode
    <3>1. u.node[n].parent = NoNode /\ u.node[n].name = y
      BY <2>3 DEF Placed, Stays
    <3>2. PathOf(u, n) = <<y>> /\ y \in Name
      BY <1>1, <2>1, <3>1, PathStep
    <3>3. ~IsPrefix(from, PathOf(u, n))
      <4> SUFFICES ASSUME IsPrefix(from, PathOf(u, n))
                   PROVE  FALSE
        OBVIOUS
      <4> DEFINE t == PathOf(u, n)
      <4>1. t \in Seq(Name) /\ Len(t) = 1
        BY <3>2, Singleton
      <4> HIDE DEF t
      <4>2. Len(from) <= Len(t) /\ \A i \in 1 .. Len(from) : from[i] = t[i]
        BY <1>2, <4>1, PrefixPoints DEF t
      <4>3. Len(from) = Len(t)
        BY <1>2, <4>1, <4>2
      <4>4. from = t
        BY <1>2, <4>1, <4>2, <4>3, SeqEqual
      <4> QED BY <1>1, <1>3, <2>1, <2>3, <4>4, PathSame DEF t
    <3> QED BY <1>4, <2>3, <3>2, <3>3 DEF NewPath
  <2>4. CASE n # e /\ r # NoNode
    <3>1. u.node[n].parent = r /\ u.node[n].name = y
      BY <2>4 DEF Placed, Stays
    <3> DEFINE s == PathOf(u, r)
    <3>2. PathOf(u, n) = Append(s, y) /\ y \in Name /\ s \in Seq(Name)
      BY <1>1, <2>1, <2>4, <3>1, PathStep, PathType
    <3>3. PathOf(u, n) # from
      BY <1>1, <1>3, <2>1, <2>4, PathSame
    <3> HIDE DEF s, y
    <3>4. IsPrefix(from, Append(s, y)) <=> IsPrefix(from, s)
      BY <1>2, <3>2, <3>3, PrefixAppend
    <3>5. IsPrefix(from, s) => Rebase(from, to, Append(s, y)) = Append(Rebase(from, to, s), y)
      BY <1>2, <3>2, RebaseAppend
    <3>6. NewPath(u, from, to, n) = Append(NewPath(u, from, to, r), y)
      BY <3>2, <3>4, <3>5 DEF NewPath, s
    <3> QED BY <1>4, <2>1, <2>4, <3>6 DEF y
  <2> QED BY <2>2, <2>3, <2>4
<1> QED BY <1>1, <1>4, <1>5, PlacesUnique

\* What is at from or below it has moved to to, where nothing is left of what was there.
Shifted(d, e, from, to) ==
  LET moved == {q \in DOMAIN d.entry : IsPrefix(from, q)}
      kept  == {q \in DOMAIN d.entry : ~IsPrefix(from, q) /\ q # to}
  IN  /\ DOMAIN e = {"entry", "size"}
      /\ DOMAIN e.entry = kept \cup {Rebase(from, to, q) : q \in moved}
      /\ \A q \in kept : e.entry[q].kind = d.entry[q].kind
      /\ \A q \in moved : e.entry[Rebase(from, to, q)].kind = d.entry[q].kind

\* What the disk holds, when e is to move from `from' to `to'.
Clean(d, from, to) ==
  /\ from \in Seq(Name) /\ to \in Seq(Name) /\ from # to
  /\ ~IsPrefix(from, to) /\ ~IsPrefix(to, from)
  /\ \A q \in DOMAIN d.entry : q \in Seq(Name) /\ (IsPrefix(to, q) => q = to)

\* Nothing on the disk is in the way.
LEMMA CleanDisk ==
  ASSUME NEW u, Sound(u), NEW e, NEW p, NEW x, NEW b, Vacant(u, e, p, x, b)
  PROVE  /\ Clean(u.disk, PathOf(u, e), Place(u, p, x))
         /\ \A q \in DOMAIN u.disk.entry : \E m \in DOMAIN u.node : PathOf(u, m) = q
<1> DEFINE to == Place(u, p, x)
           from == PathOf(u, e)
<1>1. Good(u) /\ Layered(u.node) /\ Apart(u.node) /\ e \in DOMAIN u.node /\ b # e
  BY DEF Sound, Clear, Calm, Vacant
<1>2. /\ from \in Seq(Name) /\ to \in Seq(Name) /\ ~IsPrefix(from, to) /\ from # to
      /\ \A m \in DOMAIN u.node : IsPrefix(to, PathOf(u, m)) => m = b
      /\ b # NoNode => b \in DOMAIN u.node /\ PathOf(u, b) = to
  BY VacantPlace
<1>3. \A q \in DOMAIN u.disk.entry : \E m \in DOMAIN u.node : PathOf(u, m) = q
  BY DEF Sound, Fits, Owned
<1> HIDE DEF to
<1>4. ~IsPrefix(to, from)
  BY <1>1, <1>2
<1>5. ASSUME NEW q \in DOMAIN u.disk.entry
      PROVE  q \in Seq(Name) /\ (IsPrefix(to, q) => q = to)
  <2>1. PICK m \in DOMAIN u.node : PathOf(u, m) = q
    BY <1>3
  <2>2. m # NoNode /\ q \in Seq(Name)
    BY <1>1, <2>1, GoodParents, PathType
  <2> QED BY <1>2, <2>1, <2>2
<1> HIDE DEF from
<1>6. Clean(u.disk, from, to)
  BY <1>2, <1>4, <1>5 DEF Clean
<1> QED BY <1>3, <1>6 DEF from, to

\* A path that has moved.
LEMMA MovedPath ==
  ASSUME NEW d, NEW from, NEW to, Clean(d, from, to), NEW q \in Seq(Name), IsPrefix(from, q)
  PROVE  /\ IsPrefix(to, Rebase(from, to, q)) /\ Rebase(to, from, Rebase(from, to, q)) = q
         /\ ~(Rebase(from, to, q) \in DOMAIN d.entry /\ Rebase(from, to, q) # to)
<1>1. IsPrefix(to, Rebase(from, to, q)) /\ Rebase(to, from, Rebase(from, to, q)) = q
  BY RebaseBack DEF Clean
<1> QED BY <1>1 DEF Clean

\* rename(2) moves what there is, when it does not keep two links to one file.
LEMMA RenamedShifts ==
  ASSUME NEW d, NEW from, NEW to, Clean(d, from, to), from \in DOMAIN d.entry,
         ~SameInode(d, from, to), NEW e, e = Renamed(d, from, to)
  PROVE  Shifted(d, e, from, to) /\ from \notin DOMAIN e.entry
<1> DEFINE moved == {q \in DOMAIN d.entry : IsPrefix(from, q)}
           kept  == {q \in DOMAIN d.entry : ~IsPrefix(from, q) /\ q # to}
           new   == kept \cup {Rebase(from, to, q) : q \in moved}
           f     == [r \in new |-> IF r \in kept THEN d.entry[r] ELSE d.entry[Rebase(to, from, r)]]
<1>1. IsPrefix(from, from)
  <2>1. from \in Seq(Name) /\ Len(from) <= Len(from)
    BY DEF Clean
  <2> QED BY <2>1, PrefixPoints
<1>2. Below(d, from) \cup {from} = moved
  BY <1>1 DEF Below, IsStrictPrefix
<1>3. DOMAIN d.entry \ (moved \cup {to}) = kept
  OBVIOUS
<1>4. e = WithEntries(d, f)
  <2> HIDE DEF moved, kept
  <2> QED BY <1>2, <1>3 DEF Renamed, Rebase
<1>5. DOMAIN e = {"entry", "size"} /\ e.entry = f
  <2> HIDE DEF f
  <2> QED BY <1>4 DEF WithEntries
<1>6. ASSUME NEW q \in moved
      PROVE  /\ q \in Seq(Name) /\ Rebase(from, to, q) \notin kept
             /\ Rebase(to, from, Rebase(from, to, q)) = q /\ IsPrefix(to, Rebase(from, to, q))
  <2>1. q \in Seq(Name) /\ IsPrefix(from, q)
    BY DEF Clean
  <2> QED BY <2>1, MovedPath
<1>7. \A q \in kept : f[q] = d.entry[q]
  OBVIOUS
<1>8. \A q \in moved : f[Rebase(from, to, q)] = d.entry[q]
  <2> HIDE DEF moved, kept
  <2> QED BY <1>6
<1>9. from \notin new
  <2>1. from \notin kept
    BY <1>1
  <2>2. ~IsPrefix(to, from)
    BY DEF Clean
  <2> HIDE DEF moved, kept
  <2> QED BY <1>6, <2>1, <2>2
<1> QED BY <1>5, <1>7, <1>8, <1>9 DEF Shifted

\* It is allowed: the directory of the new name is there, and b may be replaced.
LEMMA RenameAllowed ==
  ASSUME NEW u, Sound(u), NEW e, NEW p, NEW x, NEW b, Vacant(u, e, p, x, b),
         u.node[e].created, u.node[p].created,
         NEW to, to = Place(u, p, x), NEW from, from = PathOf(u, e)
  PROVE  CanRename(u.disk, from, to) /\ from \in DOMAIN u.disk.entry
<1>1. Good(u) /\ Layered(u.node) /\ e \in DOMAIN u.node /\ p \in DOMAIN u.node /\ x \in Name
  BY DEF Sound, Clear, Calm, Vacant
<1>2. Clean(u.disk, from, to)
  BY CleanDisk
<1>3. /\ from \in DOMAIN u.disk.entry /\ PathOf(u, p) \in DOMAIN u.disk.entry
      /\ u.disk.entry[PathOf(u, p)].kind = "dir"
      /\ u.disk.entry[from].kind = "dir" <=> u.node[e].dir
  BY <1>1, SoundNodes DEF Vacant
<1>4. IsDir(u.disk, Front(to))
  <2> DEFINE s == PathOf(u, p)
  <2>1. s \in Seq(Name) /\ Len(s) \in Nat \ {0}
    BY <1>1, PathType
  <2> HIDE DEF s
  <2>2. /\ to = Append(s, x) /\ to \in Seq(Name) /\ Len(to) = Len(s) + 1
        /\ \A i \in 1 .. Len(s) : to[i] = s[i]
    BY <1>1, <2>1, AppendProperties DEF Place, s
  <2>3. Len(to) - 1 = Len(s) /\ Len(s) \in 1 .. Len(to)
    BY <2>1, <2>2
  <2>4. /\ SubSeq(to, 1, Len(s)) \in Seq(Name) /\ Len(SubSeq(to, 1, Len(s))) = Len(s)
        /\ \A i \in 1 .. Len(s) : SubSeq(to, 1, Len(s))[i] = to[i]
    BY <2>2, <2>3, Start
  <2>5. SubSeq(to, 1, Len(s)) = s
    BY <2>1, <2>2, <2>4, SeqEqual
  <2> QED BY <1>3, <2>3, <2>5 DEF Front, IsDir, Exists, s
<1>5. ASSUME to \in DOMAIN u.disk.entry
      PROVE  IsDir(u.disk, from) = IsDir(u.disk, to) /\ Below(u.disk, to) = {}
  <2>1. b # NoNode /\ b \in DOMAIN u.node /\ PathOf(u, b) = to
    <3>1. PICK m \in DOMAIN u.node : PathOf(u, m) = to
      BY <1>5, CleanDisk
    <3>2. m = b /\ m # NoNode
      BY <1>1, <3>1, PlaceNode, GoodParents DEF Place, Vacant
    <3> QED BY <3>1, <3>2
  <2>2. /\ u.disk.entry[to].kind = "dir" <=> u.node[b].dir
        /\ u.node[b].dir = u.node[e].dir
    BY <1>5, <2>1, SoundNodes DEF Vacant
  <2>3. from # <<>> /\ to # <<>>
    BY <1>2, VacantPlace
  <2>4. IsDir(u.disk, from) <=> IsDir(u.disk, to)
    BY <1>3, <1>5, <2>2, <2>3 DEF IsDir, Exists
  <2>5. Below(u.disk, to) = {}
    BY <1>2 DEF Below, IsStrictPrefix, Clean
  <2> QED BY <2>4, <2>5 DEF IsDir, Exists
<1>6. ~IsStrictPrefix(from, to)
  BY <1>2 DEF IsStrictPrefix, Clean
<1> QED BY <1>3, <1>4, <1>5, <1>6 DEF CanRename, Exists

\* The name that rename(2) keeps, as it is a link to the file that has the new name, is
\* removed.
LEMMA RenameShifts ==
  ASSUME NEW u, Sound(u), NEW e, NEW p, NEW x, NEW b, Vacant(u, e, p, x, b),
         u.node[e].created, u.node[p].created,
         NEW v, v = RenamePath(u, PathOf(u, e), Place(u, p, x))
  PROVE  /\ Shifted(u.disk, v.disk, PathOf(u, e), Place(u, p, x))
         /\ v.node = u.node /\ v.io = u.io /\ Smooth(u, v)
<1> DEFINE from == PathOf(u, e)
           to == Place(u, p, x)
           d == u.disk
           new == Renamed(d, from, to)
           gone == from # to /\ "remove" \notin u.io /\ CanRemove(new, from)
<1>1. u.err = NoError /\ "rename" \notin u.io /\ "remove" \notin u.io /\ Good(u) /\ Calm(u)
  BY DEF Sound, Clear, Calm, Obedient
<1>2. CanRename(d, from, to) /\ from \in DOMAIN d.entry
  BY RenameAllowed
<1>3. Clean(d, from, to) /\ e \in DOMAIN u.node
  BY CleanDisk DEF Vacant
<1> HIDE DEF d, from, to
<1>4. v = [u EXCEPT !.disk = IF gone THEN Removed(new, {from}) ELSE new]
  BY <1>1, <1>2 DEF RenamePath, Then, from, to, d
<1>5. v.disk = IF gone THEN Removed(new, {from}) ELSE new
  BY <1>1, <1>4 DEF Good
<1>6. v.node = u.node /\ v.io = u.io /\ Smooth(u, v)
  BY <1>1, <1>4, DiskSmooth DEF Good
<1>7. CASE ~SameInode(d, from, to)
  <2>1. Shifted(d, new, from, to) /\ from \notin DOMAIN new.entry
    BY <1>2, <1>3, <1>7, RenamedShifts
  <2>2. v.disk = new
    BY <1>5, <2>1 DEF CanRemove, Exists
  <2> QED BY <1>6, <2>1, <2>2 DEF d, from, to
<1>8. CASE SameInode(d, from, to)
  <2>1. new = d
    BY <1>8 DEF Renamed
  <2>2. /\ from # to /\ IsFile(d, from) /\ IsFile(d, to)
        /\ d.entry[from].kind = "file" /\ to \in DOMAIN d.entry /\ d.entry[to].kind = "file"
    BY <1>3, <1>8 DEF SameInode, Clean, IsFile, Exists
  <2>3. ~u.node[e].dir
    BY <1>3, <2>2, SoundNodes DEF from, d
  <2>4. ASSUME NEW q \in DOMAIN d.entry, IsPrefix(from, q)
        PROVE  q = from
    <3>1. PICK m \in DOMAIN u.node : PathOf(u, m) = q
      BY CleanDisk DEF d
    <3>2. from \in Seq(Name) /\ Len(from) # 0
      BY VacantPlace DEF from
    <3>3. PICK c \in DOMAIN u.node : PathOf(u, c) = from /\ (m # c => u.node[c].dir)
      BY <2>4, <3>1, <3>2, PrefixNode
    <3>4. c = e
      BY <1>3, <3>3, PathSame DEF Sound, Clear, Calm, from
    <3> QED BY <2>3, <3>1, <3>3, <3>4
  <2>5. IsPrefix(from, from) /\ Rebase(from, to, from) = to
    <3>1. from \in Seq(Name) /\ to \in Seq(Name) /\ Len(from) <= Len(from)
      BY <1>3 DEF Clean
    <3> QED BY <3>1, PrefixPoints, RebaseSelf
  <2>6. CanRemove(d, from)
    BY <1>2, <2>4 DEF CanRemove, Below, IsStrictPrefix, Exists
  <2>7. v.disk = Removed(d, {from})
    BY <1>1, <1>5, <2>1, <2>2, <2>6
  <2>8. /\ DOMAIN v.disk = {"entry", "size"} /\ DOMAIN v.disk.entry = DOMAIN d.entry \ {from}
        /\ \A q \in DOMAIN v.disk.entry : v.disk.entry[q] = d.entry[q]
    BY <2>7, RemovedDisk
  <2>9. {q \in DOMAIN d.entry : IsPrefix(from, q)} = {from}
    BY <1>2, <2>4, <2>5
  <2>10. DOMAIN d.entry \ {from} = {q \in DOMAIN d.entry : ~IsPrefix(from, q) /\ q # to} \cup {to}
    BY <2>2, <2>4, <2>5
  <2>11. Shifted(d, v.disk, from, to)
    <3>1. \A q \in {r \in DOMAIN d.entry : ~IsPrefix(from, r) /\ r # to} :
             v.disk.entry[q].kind = d.entry[q].kind
      BY <2>8, <2>10
    <3>2. v.disk.entry[to].kind = d.entry[from].kind
      BY <2>2, <2>8
    <3>3. {Rebase(from, to, q) : q \in {from}} = {to}
      BY <2>5
    <3> QED BY <2>5, <2>8, <2>9, <2>10, <3>1, <3>2, <3>3 DEF Shifted
  <2> QED BY <1>6, <2>11 DEF d, from, to
<1> QED BY <1>7, <1>8

\* What is below e, and what is at the place.
LEMMA NewPaths ==
  ASSUME NEW u, Sound(u), NEW e, NEW p, NEW x, NEW b, Vacant(u, e, p, x, b),
         NEW to, to = Place(u, p, x), NEW from, from = PathOf(u, e),
         NEW n \in DOMAIN u.node
  PROVE  /\ PathOf(u, n) \in Seq(Name)
         /\ IsPrefix(to, PathOf(u, n)) => n = b
         /\ IsPrefix(from, PathOf(u, n)) => /\ IsPrefix(to, NewPath(u, from, to, n))
                                            /\ u.node[n].created => u.node[e].created
         /\ n = e => IsPrefix(from, PathOf(u, n)) /\ NewPath(u, from, to, n) = to
<1>1. Good(u) /\ Layered(u.node) /\ Apart(u.node) /\ e \in DOMAIN u.node
  BY DEF Sound, Clear, Calm, Vacant
<1>2. from \in Seq(Name) /\ Len(from) # 0 /\ Len(from) \in Nat /\ to \in Seq(Name)
  BY VacantPlace
<1>3. PathOf(u, n) \in Seq(Name)
  BY <1>1, PathType
<1>4. IsPrefix(to, PathOf(u, n)) => n = b
  BY VacantPlace
<1>5. ASSUME IsPrefix(from, PathOf(u, n))
      PROVE  /\ IsPrefix(to, NewPath(u, from, to, n))
             /\ u.node[n].created => u.node[e].created
  <2>1. IsPrefix(to, NewPath(u, from, to, n))
    BY <1>2, <1>3, <1>5, RebaseBack DEF NewPath
  <2>2. PICK c \in DOMAIN u.node : PathOf(u, c) = from /\ (u.node[n].created => u.node[c].created)
    BY <1>2, <1>5, PrefixNode
  <2>3. c = e
    BY <1>1, <2>2, PathSame
  <2> QED BY <2>1, <2>2, <2>3
<1>6. IsPrefix(from, from) /\ Rebase(from, to, from) = to
  BY <1>2, PrefixPoints, RebaseSelf
<1> QED BY <1>3, <1>4, <1>5, <1>6 DEF NewPath

\* The directories above a node are created where the node is.
LEMMA PlacedOrdered ==
  ASSUME NEW u, Sound(u), NEW e, NEW p, NEW x, NEW b, Vacant(u, e, p, x, b),
         NEW v, Calm(v), Apart(v.node), Placed(u, v, e, p, x, b),
         u.node[e].created => u.node[p].created
  PROVE  Ordered(v, DOMAIN v.node)
<1>1. /\ Good(v) /\ Parents(v) /\ e \in DOMAIN u.node /\ b # e /\ u.node[p].dir
      /\ NoNode \notin DOMAIN u.node /\ p \in DOMAIN u.node
  BY GoodParents DEF Calm, Vacant, Sound, Clear
<1>2. /\ DOMAIN v.node = DOMAIN u.node \ {b}
      /\ \A m \in DOMAIN v.node : /\ m # e => Stays(u, v, m)
                                  /\ m # e => (v.node[m].created <=> u.node[m].created)
                                  /\ v.node[m].dir = u.node[m].dir
      /\ v.node[e].parent = p
      /\ v.node[e].created <=> u.node[e].created \/ (b # NoNode /\ u.node[b].created)
  BY DEF Placed
<1>3. b # NoNode => b \in DOMAIN u.node /\ u.node[b].parent = p
  BY VacantPlace
<1>4. b # NoNode /\ u.node[b].created => u.node[p].created
  BY <1>1, <1>3, SoundNodes
<1> SUFFICES ASSUME NEW n \in DOMAIN v.node, v.node[n].parent # NoNode
             PROVE  LET q == v.node[n].parent
                    IN  /\ q \in DOMAIN v.node /\ v.node[q].dir
                        /\ v.node[n].created => v.node[q].created
  BY DEF Ordered
<1> DEFINE q == v.node[n].parent
<1>5. q \in DOMAIN v.node /\ q \in DOMAIN u.node /\ n \in DOMAIN u.node
  BY <1>1, <1>2 DEF Parents
<1>6. CASE n = e
  <2>1. q = p /\ p # e
    BY <1>2, <1>5, <1>6 DEF Apart
  <2> QED BY <1>1, <1>2, <1>4, <1>5, <1>6, <2>1
<1>7. CASE n # e
  <2>1. u.node[n].parent = q
    BY <1>2, <1>7 DEF Stays
  <2>2. u.node[q].dir /\ (u.node[n].created => u.node[q].created)
    BY <1>5, <2>1, SoundNodes
  <2> HIDE DEF q
  <2>3. v.node[q].dir /\ (v.node[n].created => v.node[q].created)
    BY <1>2, <1>5, <1>7, <2>2
  <2> QED BY <1>5, <2>3 DEF q
<1> QED BY <1>6, <1>7

\* What Matched says of a node, and Owned of a path.
Match(w, n) ==
  /\ w.node[n].created <=> PathOf(w, n) \in DOMAIN w.disk.entry
  /\ w.node[n].created => (w.disk.entry[PathOf(w, n)].kind = "dir" <=> w.node[n].dir)

\* The disk follows a node that was created,
LEMMA ShiftedFits ==
  ASSUME NEW u, Sound(u), NEW e, NEW p, NEW x, NEW b, Vacant(u, e, p, x, b),
         NEW v, Calm(v), v.err = NoError, Placed(u, v, e, p, x, b), u.node[e].created,
         Shifted(u.disk, v.disk, PathOf(u, e), Place(u, p, x))
  PROVE  Matched(v, DOMAIN v.node) /\ Owned(v, DOMAIN v.node)
<1>1. PICK to : to = Place(u, p, x)
  OBVIOUS
<1>2. PICK from : from = PathOf(u, e)
  OBVIOUS
<1>3. \A n \in DOMAIN v.node : PathOf(v, n) = NewPath(u, from, to, n)
  BY <1>1, <1>2, PlacedPaths
<1>4. PICK d : d = u.disk
  OBVIOUS
<1>5. PICK g : g = v.disk.entry
  OBVIOUS
<1> DEFINE moved == {q \in DOMAIN d.entry : IsPrefix(from, q)}
           kept  == {q \in DOMAIN d.entry : ~IsPrefix(from, q) /\ q # to}
<1>6. /\ DOMAIN g = kept \cup {Rebase(from, to, q) : q \in moved}
      /\ \A q \in kept : g[q].kind = d.entry[q].kind
      /\ \A q \in moved : g[Rebase(from, to, q)].kind = d.entry[q].kind
  BY <1>1, <1>2, <1>4, <1>5 DEF Shifted
<1>7. Clean(d, from, to) /\ \A q \in DOMAIN d.entry : \E m \in DOMAIN u.node : PathOf(u, m) = q
  BY <1>1, <1>2, <1>4, CleanDisk
<1>8. ASSUME NEW q \in moved
      PROVE  IsPrefix(to, Rebase(from, to, q)) /\ Rebase(to, from, Rebase(from, to, q)) = q
  <2>1. q \in Seq(Name) /\ IsPrefix(from, q)
    BY <1>7 DEF Clean
  <2> QED BY <1>7, <2>1, MovedPath
<1>9. /\ DOMAIN v.node = DOMAIN u.node \ {b} /\ e \in DOMAIN u.node
      /\ \A m \in DOMAIN v.node : /\ m # e => (v.node[m].created <=> u.node[m].created)
                                  /\ v.node[m].dir = u.node[m].dir
      /\ v.node[e].created
  BY DEF Placed, Vacant
<1>10. b # NoNode => b \in DOMAIN u.node /\ PathOf(u, b) = to
  BY <1>1, <1>2, VacantPlace
<1>11. IsPrefix(to, to) /\ ~IsPrefix(from, to)
  <2>1. to \in Seq(Name) /\ Len(to) <= Len(to) /\ ~IsPrefix(from, to)
    BY <1>7 DEF Clean
  <2> QED BY <2>1, PrefixPoints
<1>12. ASSUME NEW n \in DOMAIN v.node
       PROVE  Match(v, n)
  <2>1. PICK r : r = PathOf(u, n)
    OBVIOUS
  <2>2. n \in DOMAIN u.node /\ n # b
    BY <1>9
  <2>3. r \in Seq(Name) /\ (IsPrefix(to, r) => n = b) /\ (n = e => IsPrefix(from, r))
    BY <1>1, <1>2, <2>1, <2>2, NewPaths
  <2>4. /\ u.node[n].created <=> r \in DOMAIN d.entry
        /\ u.node[n].created => (d.entry[r].kind = "dir" <=> u.node[n].dir)
    BY <1>4, <2>1, <2>2, SoundNodes
  <2>5. (v.node[n].created <=> u.node[n].created) /\ v.node[n].dir = u.node[n].dir
    BY <1>9
  <2>6. CASE IsPrefix(from, r)
    <3>1. PICK t : t = Rebase(from, to, r)
      OBVIOUS
    <3>2. PathOf(v, n) = t
      BY <1>3, <2>1, <2>6, <3>1 DEF NewPath
    <3>3. Rebase(to, from, t) = r /\ t \notin kept
      BY <1>7, <2>3, <2>6, <3>1, MovedPath
    <3>4. t \in DOMAIN g => r \in DOMAIN d.entry
      <4> SUFFICES ASSUME t \in DOMAIN g
                   PROVE  r \in DOMAIN d.entry
        OBVIOUS
      <4>1. PICK q \in moved : t = Rebase(from, to, q)
        BY <1>6, <3>3
      <4>2. q = r
        BY <1>8, <3>3, <4>1
      <4> QED BY <4>1, <4>2
    <3>5. r \in DOMAIN d.entry => t \in DOMAIN g /\ g[t].kind = d.entry[r].kind
      BY <1>6, <2>6, <3>1
    <3> HIDE DEF moved, kept
    <3> QED BY <1>5, <2>4, <2>5, <3>2, <3>4, <3>5 DEF Match
  <2>7. CASE ~IsPrefix(from, r)
    <3>1. PathOf(v, n) = r
      BY <1>3, <2>1, <2>7 DEF NewPath
    <3>2. ~IsPrefix(to, r) /\ r # to
      BY <1>11, <2>2, <2>3
    <3>3. r \in DOMAIN g <=> r \in kept
      <4> HIDE DEF moved, kept
      <4> QED BY <1>6, <1>8, <3>2
    <3>4. r \in kept <=> r \in DOMAIN d.entry
      BY <2>7, <3>2
    <3>5. r \in kept => g[r].kind = d.entry[r].kind
      BY <1>6
    <3> HIDE DEF moved, kept
    <3> QED BY <1>5, <2>4, <2>5, <3>1, <3>3, <3>4, <3>5 DEF Match
  <2> QED BY <2>6, <2>7
<1>13. ASSUME NEW q \in DOMAIN g
       PROVE  \E n \in DOMAIN v.node : PathOf(v, n) = q
  <2>1. CASE q \in kept
    <3>1. PICK m \in DOMAIN u.node : PathOf(u, m) = q
      BY <1>7, <2>1
    <3>2. NoNode \notin DOMAIN u.node
      BY GoodParents DEF Sound, Clear, Calm
    <3>3. m \in DOMAIN v.node
      BY <1>9, <1>10, <2>1, <3>1, <3>2
    <3> QED BY <1>3, <2>1, <3>1, <3>3 DEF NewPath
  <2>2. CASE q \notin kept
    <3>1. PICK r \in moved : q = Rebase(from, to, r)
      BY <1>6, <2>2
    <3>2. PICK m \in DOMAIN u.node : PathOf(u, m) = r
      BY <1>7, <3>1
    <3>3. NoNode \notin DOMAIN u.node
      BY GoodParents DEF Sound, Clear, Calm
    <3>4. m \in DOMAIN v.node
      BY <1>9, <1>10, <1>11, <3>1, <3>2, <3>3
    <3> QED BY <1>3, <3>1, <3>2, <3>4 DEF NewPath
  <2> QED BY <2>1, <2>2
<1> HIDE DEF moved, kept
<1>14. Matched(v, DOMAIN v.node)
  BY <1>12 DEF Matched, Match, Exists
<1>15. Owned(v, DOMAIN v.node)
  BY <1>5, <1>13 DEF Owned
<1> QED BY <1>14, <1>15

\* and stays with the place of one that was not.
LEMMA StayedFits ==
  ASSUME NEW u, Sound(u), NEW e, NEW p, NEW x, NEW b, Vacant(u, e, p, x, b),
         NEW v, Calm(v), v.err = NoError, Apart(v.node), Placed(u, v, e, p, x, b), ~u.node[e].created,
         v.disk = u.disk
  PROVE  Matched(v, DOMAIN v.node) /\ Owned(v, DOMAIN v.node)
<1>1. PICK to : to = Place(u, p, x)
  OBVIOUS
<1>2. PICK from : from = PathOf(u, e)
  OBVIOUS
<1>3. \A n \in DOMAIN v.node : PathOf(v, n) = NewPath(u, from, to, n)
  BY <1>1, <1>2, PlacedPaths
<1>4. PICK d : d = u.disk
  OBVIOUS
<1>5. /\ DOMAIN v.node = DOMAIN u.node \ {b} /\ e \in DOMAIN u.node /\ e # b
      /\ \A m \in DOMAIN v.node : /\ m # e => (v.node[m].created <=> u.node[m].created)
                                  /\ v.node[m].dir = u.node[m].dir
      /\ v.node[e].created <=> b # NoNode /\ u.node[b].created
      /\ b # NoNode => u.node[b].dir = u.node[e].dir
  BY DEF Placed, Vacant
<1>6. b # NoNode => b \in DOMAIN u.node /\ PathOf(u, b) = to
  BY <1>1, <1>2, VacantPlace
<1>7. \A q \in DOMAIN d.entry : \E m \in DOMAIN u.node : PathOf(u, m) = q
  BY <1>4, CleanDisk
<1>8. PathOf(v, e) = to /\ e \in DOMAIN v.node
  BY <1>1, <1>2, <1>3, <1>5, NewPaths
<1>9. \A k, m \in DOMAIN v.node : PathOf(v, k) = PathOf(v, m) => k = m
  BY PathSame DEF Calm
<1>10. NoNode \notin DOMAIN u.node
  BY GoodParents DEF Sound, Clear, Calm
<1>11. IsPrefix(to, to)
  <2>1. to \in Seq(Name) /\ Len(to) <= Len(to)
    BY <1>1, <1>2, VacantPlace
  <2> QED BY <2>1, PrefixPoints
<1>12. \A n \in DOMAIN u.node : /\ IsPrefix(to, PathOf(u, n)) => n = b
                                /\ IsPrefix(from, PathOf(u, n)) =>
                                     IsPrefix(to, NewPath(u, from, to, n)) /\ ~u.node[n].created
                                /\ n = e => IsPrefix(from, PathOf(u, n))
  BY <1>1, <1>2, NewPaths
<1>13. \A n \in DOMAIN u.node :
         /\ u.node[n].created <=> PathOf(u, n) \in DOMAIN d.entry
         /\ u.node[n].created => (d.entry[PathOf(u, n)].kind = "dir" <=> u.node[n].dir)
  BY <1>4, SoundNodes
<1>14. ASSUME NEW n \in DOMAIN v.node
       PROVE  Match(v, n)
  <2>1. n \in DOMAIN u.node /\ n # b
    BY <1>5
  <2>2. CASE n = e
    <3>1. CASE b # NoNode
      BY <1>4, <1>5, <1>6, <1>8, <1>13, <2>2, <3>1 DEF Match
    <3>2. CASE b = NoNode
      <4>1. to \notin DOMAIN d.entry
        BY <1>7, <1>10, <1>11, <1>12, <3>2
      <4> QED BY <1>4, <1>5, <1>8, <2>2, <3>2, <4>1 DEF Match
    <3> QED BY <3>1, <3>2
  <2>3. CASE n # e /\ IsPrefix(from, PathOf(u, n))
    <3>1. ~v.node[n].created
      BY <1>5, <1>12, <2>1, <2>3
    <3>2. IsPrefix(to, PathOf(v, n))
      BY <1>3, <1>12, <2>1, <2>3
    <3>3. PathOf(v, n) \notin DOMAIN d.entry
      <4> SUFFICES ASSUME PathOf(v, n) \in DOMAIN d.entry
                   PROVE  FALSE
        OBVIOUS
      <4>1. PICK m \in DOMAIN u.node : PathOf(u, m) = PathOf(v, n)
        BY <1>7
      <4>2. m = b /\ PathOf(v, n) = to
        BY <1>6, <1>10, <1>12, <3>2, <4>1
      <4> QED BY <1>8, <1>9, <2>3, <4>2
    <3> QED BY <1>4, <3>1, <3>3 DEF Match
  <2>4. CASE ~IsPrefix(from, PathOf(u, n))
    <3>1. PathOf(v, n) = PathOf(u, n) /\ n # e
      BY <1>3, <1>12, <2>1, <2>4 DEF NewPath
    <3> QED BY <1>4, <1>5, <1>13, <2>1, <3>1 DEF Match
  <2> QED BY <2>2, <2>3, <2>4
<1>15. ASSUME NEW q \in DOMAIN d.entry
       PROVE  \E n \in DOMAIN v.node : PathOf(v, n) = q
  <2>1. PICK m \in DOMAIN u.node : PathOf(u, m) = q
    BY <1>7
  <2>2. CASE m = b
    BY <1>6, <1>8, <1>10, <2>1, <2>2
  <2>3. CASE m # b
    <3>1. m \in DOMAIN v.node
      BY <1>5, <2>3
    <3>2. ~IsPrefix(from, PathOf(u, m))
      BY <1>12, <1>13, <2>1
    <3> QED BY <1>3, <2>1, <3>1, <3>2 DEF NewPath
  <2> QED BY <2>2, <2>3
<1>16. Matched(v, DOMAIN v.node)
  BY <1>14 DEF Matched, Match, Exists
<1>17. Owned(v, DOMAIN v.node)
  BY <1>4, <1>15 DEF Owned
<1> QED BY <1>16, <1>17

\* The disk has followed.
Followed(u, v, e, p, x) ==
  IF u.node[e].created
  THEN u.node[p].created /\ Shifted(u.disk, v.disk, PathOf(u, e), Place(u, p, x))
  ELSE v.disk = u.disk

\* A node that has moved is where the tree has it.
LEMMA PlacedSound ==
  ASSUME NEW u, Sound(u), NEW e, NEW p, NEW x, NEW b, Vacant(u, e, p, x, b),
         NEW v, Calm(v), v.err = NoError, Apart(v.node), v.io = u.io, Placed(u, v, e, p, x, b),
         Followed(u, v, e, p, x)
  PROVE  Sound(v)
<1>1. Ordered(v, DOMAIN v.node)
  BY PlacedOrdered DEF Followed
<1>2. Matched(v, DOMAIN v.node) /\ Owned(v, DOMAIN v.node)
  BY ShiftedFits, StayedFits DEF Followed
<1>3. Distinct(v, DOMAIN v.node)
  BY PathSame DEF Distinct, Calm
<1>4. DOMAIN v.disk = {"entry", "size"}
  BY DEF Followed, Shifted, Sound, Fits
<1>5. Fits(v, DOMAIN v.node)
  BY <1>1, <1>2, <1>3, <1>4 DEF Fits
<1> QED BY <1>5 DEF Sound, Clear

-----------------------------------------------------------------------------
(* The tree changes, and the disk does not.                                *)

\* Nothing happens on the disk; no node is created, or no longer created.
Dry(w, v) ==
  /\ SameDisk(w, v)
  /\ \A m \in DOMAIN w.node : m \in DOMAIN v.node => (v.node[m].created <=> w.node[m].created)

\* Two such steps.
LEMMA DryTrans ==
  ASSUME NEW w, NEW v, NEW u, Dry(w, v), Dry(v, u),
         \A m \in DOMAIN w.node : m \in DOMAIN u.node => m \in DOMAIN v.node
  PROVE  Dry(w, u)
BY DEF Dry, SameDisk

\* The operations on the tree are such.
LEMMA RemoveChildDry ==
  ASSUME NEW w, Good(w), NEW p \in DOMAIN w.node, NEW c \in DOMAIN w.node,
         NEW v, v = removeChild(w, p, c)
  PROVE  Dry(w, v) /\ DOMAIN v.node = DOMAIN w.node
<1> DEFINE x == w.node[c].name
           u == [w EXCEPT !.node[p].kids[x] = NoNode, !.node[c].parent = NoNode]
<1>1. v = w \/ v = u \/ \E e : v = [w EXCEPT !.err = e]
  BY DEF removeChild, Check, Then
<1>2. u.disk = w.disk /\ u.io = w.io
  BY DEF Good
<1>3. u.node = [w.node EXCEPT ![p].kids[x] = NoNode, ![c].parent = NoNode]
  BY DEF Good
<1>4. DOMAIN u.node = DOMAIN w.node /\ \A m \in DOMAIN w.node : u.node[m].created = w.node[m].created
  BY <1>3 DEF Good, Heap, NodeType
<1> HIDE DEF u
<1>5. ASSUME NEW e, v = [w EXCEPT !.err = e]
      PROVE  Dry(w, v) /\ DOMAIN v.node = DOMAIN w.node
  BY <1>5 DEF Good, Dry, SameDisk
<1> QED BY <1>1, <1>2, <1>4, <1>5 DEF Dry, SameDisk

\* A node leaves its parent,
LEMMA DetachedDry ==
  ASSUME NEW w, Good(w), NEW c \in DOMAIN w.node, NEW v, v = Detached(w, c)
  PROVE  Dry(w, v) /\ DOMAIN v.node = DOMAIN w.node
<1>1. CASE w.node[c].parent = NoNode
  BY <1>1 DEF Detached, Dry, SameDisk
<1>2. CASE w.node[c].parent # NoNode
  <2>1. w.node[c].parent \in DOMAIN w.node
    BY <1>2, GoodParents DEF Parents
  <2> QED BY <1>2, <2>1, RemoveChildDry DEF Detached
<1> QED BY <1>1, <1>2

\* gets another name,
LEMMA SetNameDry ==
  ASSUME NEW w, Good(w), NEW n \in DOMAIN w.node, NEW x, NEW v, v = setName(w, n, x)
  PROVE  Dry(w, v) /\ DOMAIN v.node = DOMAIN w.node
<1> DEFINE u == [w EXCEPT !.node[n].name = x]
<1>1. v = w \/ v = u \/ \E e : v = [w EXCEPT !.err = e]
  BY DEF setName, Check, Then
<1>2. u.disk = w.disk /\ u.io = w.io
  BY DEF Good
<1>3. u.node = [w.node EXCEPT ![n].name = x]
  BY DEF Good
<1>4. DOMAIN u.node = DOMAIN w.node /\ \A m \in DOMAIN w.node : u.node[m].created = w.node[m].created
  BY <1>3 DEF Good, Heap, NodeType
<1> HIDE DEF u
<1>5. ASSUME NEW e, v = [w EXCEPT !.err = e]
      PROVE  Dry(w, v) /\ DOMAIN v.node = DOMAIN w.node
  BY <1>5 DEF Good, Dry, SameDisk
<1> QED BY <1>1, <1>2, <1>4, <1>5 DEF Dry, SameDisk

\* enters a directory,
LEMMA AddChildDry ==
  ASSUME NEW w, Good(w), NEW p \in DOMAIN w.node, NEW c \in DOMAIN w.node,
         NEW v, v = addChild(w, p, c)
  PROVE  Dry(w, v) /\ DOMAIN v.node = DOMAIN w.node
<1> DEFINE x == w.node[c].name
           t == Detached(w, c)
           u == [t EXCEPT !.node[p].kids[x] = c, !.node[c].parent = p]
<1>1. v = w \/ v = t \/ v = u \/ \E e : v = [w EXCEPT !.err = e]
  BY DEF addChild, Check, Then
<1>2. Dry(w, t) /\ DOMAIN t.node = DOMAIN w.node /\ Good(t)
  BY DetachedDry, DetachedGood DEF Loosened
<1>3. u.disk = w.disk /\ u.io = w.io
  BY <1>2 DEF Good, Dry, SameDisk
<1> HIDE DEF t
<1>4. u.node = [t.node EXCEPT ![p].kids[x] = c, ![c].parent = p]
  BY <1>2 DEF Good
<1>5. DOMAIN u.node = DOMAIN t.node /\ \A m \in DOMAIN t.node : u.node[m].created = t.node[m].created
  BY <1>2, <1>4 DEF Good, Heap, NodeType
<1> HIDE DEF u
<1>6. ASSUME NEW e, v = [w EXCEPT !.err = e]
      PROVE  Dry(w, v) /\ DOMAIN v.node = DOMAIN w.node
  BY <1>6 DEF Good, Dry, SameDisk
<1>7. Dry(w, u) /\ DOMAIN u.node = DOMAIN w.node
  BY <1>2, <1>3, <1>5 DEF Dry, SameDisk
<1>8. Dry(w, w)
  BY DEF Dry, SameDisk
<1> QED BY <1>1, <1>2, <1>6, <1>7, <1>8

\* leaves it,
LEMMA DeleteChildDry ==
  ASSUME NEW w, Good(w), NEW p \in DOMAIN w.node, NEW c \in DOMAIN w.node,
         NEW v, v = deleteChild(w, p, c)
  PROVE  Dry(w, v) /\ DOMAIN v.node = DOMAIN w.node
<1>1. v = w \/ v = removeChild(w, p, c) \/ \E e : v = [w EXCEPT !.err = e]
  BY DEF deleteChild, Check, Then
<1>2. ASSUME NEW e, v = [w EXCEPT !.err = e]
      PROVE  Dry(w, v) /\ DOMAIN v.node = DOMAIN w.node
  BY <1>2 DEF Good, Dry, SameDisk
<1>3. Dry(w, w)
  BY DEF Dry, SameDisk
<1>4. ASSUME v = removeChild(w, p, c)
      PROVE  Dry(w, v) /\ DOMAIN v.node = DOMAIN w.node
  BY <1>4, RemoveChildDry
<1> QED BY <1>1, <1>2, <1>3, <1>4

\* goes,
LEMMA RemoveNodeDry ==
  ASSUME NEW w, Good(w), NEW n, NEW v, v = removeNode(w, n)
  PROVE  Dry(w, v) /\ DOMAIN v.node \subseteq DOMAIN w.node
<1>1. CASE w.err # NoError
  BY <1>1 DEF removeNode, Then, Dry, SameDisk
<1>2. CASE w.err = NoError
  <2>1. v = [w EXCEPT !.node = Restrict(w.node, DOMAIN w.node \ {n})]
    BY <1>2 DEF removeNode, Then
  <2>2. v.node = [m \in DOMAIN w.node \ {n} |-> w.node[m]] /\ v.disk = w.disk /\ v.io = w.io
    BY <2>1 DEF Good, Restrict
  <2> QED BY <2>2 DEF Dry, SameDisk
<1> QED BY <1>1, <1>2

\* becomes a directory or a file,
LEMMA SetDirDry ==
  ASSUME NEW w, Good(w), NEW n \in DOMAIN w.node, NEW b, NEW v, v = SetDir(w, n, b)
  PROVE  Dry(w, v) /\ DOMAIN v.node = DOMAIN w.node
<1>1. CASE w.err # NoError
  BY <1>1 DEF SetDir, Then, Dry, SameDisk
<1>2. CASE w.err = NoError
  <2>1. v = [w EXCEPT !.node[n].dir = b]
    BY <1>2 DEF SetDir, Then
  <2>2. v.node = [w.node EXCEPT ![n].dir = b] /\ v.disk = w.disk /\ v.io = w.io
    BY <2>1 DEF Good
  <2>3. DOMAIN v.node = DOMAIN w.node /\ \A m \in DOMAIN w.node : v.node[m].created = w.node[m].created
    BY <2>2 DEF Good, Heap, NodeType
  <2> QED BY <2>2, <2>3 DEF Dry, SameDisk
<1> QED BY <1>1, <1>2

\* or is new.
LEMMA CreateNodeDry ==
  ASSUME NEW w, Good(w), NEW h, NEW x, NEW time, NEW v, v = createNode(w, h, x, time)
  PROVE  /\ Dry(w, v) /\ DOMAIN w.node \subseteq DOMAIN v.node
         /\ v.err = NoError => ~v.node[NewNode(w)].created
<1> DEFINE n == NewNode(w)
           rec == [fh |-> h, name |-> x, parent |-> NoNode, kids |-> [y \in Name |-> NoNode],
                   created |-> FALSE, dir |-> FALSE, size |-> 0, access |-> time]
           nodes == [m \in DOMAIN w.node \cup {n} |-> IF m \in DOMAIN w.node THEN w.node[m] ELSE rec]
<1>1. CASE v.err # NoError
  <2>1. v = w \/ \E e : v = [w EXCEPT !.err = e]
    <3>1. v = w \/ v = [w EXCEPT !.node = nodes] \/ \E e : v = [w EXCEPT !.err = e]
      BY DEF createNode, Check, Then
    <3>2. v = [w EXCEPT !.node = nodes] => w.err # NoError
      <4> HIDE DEF nodes
      <4> QED BY <1>1 DEF Good
    <3> QED BY <3>1, <3>2 DEF createNode, Check, Then
  <2>2. ASSUME NEW e, v = [w EXCEPT !.err = e]
        PROVE  Dry(w, v) /\ DOMAIN v.node = DOMAIN w.node
    BY <2>2 DEF Good, Dry, SameDisk
  <2>3. Dry(w, w)
    BY DEF Dry, SameDisk
  <2> QED BY <1>1, <2>1, <2>2, <2>3
<1>2. CASE v.err = NoError
  <2>1. w.err = NoError /\ Added(w, v, n, h, x, NoNode, FALSE)
    BY <1>2, CreateNodeEffect
  <2>2. v = [w EXCEPT !.node = nodes]
    <3>1. v = [w EXCEPT !.node = nodes] \/ v = [w EXCEPT !.err = "Out of memory"]
      BY <2>1 DEF createNode, Check, Then
    <3> QED BY <1>2, <3>1 DEF Good, NoError
  <2>3. v.node = nodes /\ v.disk = w.disk /\ v.io = w.io
    <3> HIDE DEF nodes
    <3> QED BY <2>2 DEF Good
  <2>4. n \notin DOMAIN w.node
    BY <2>1 DEF Added
  <2>5. nodes[n] = rec
    BY <2>4
  <2> QED BY <2>3, <2>5 DEF Dry, SameDisk
<1> QED BY <1>1, <1>2

-----------------------------------------------------------------------------
(* What the handlers are made of.                                          *)

\* An element is taken from its parent, named and added to a parent.
LEMMA ReplacedDry ==
  ASSUME NEW w, Good(w), NEW e \in DOMAIN w.node, NEW p \in DOMAIN w.node, NEW x \in Name,
         NEW v, v = addChild(setName(Detached(w, e), e, x), p, e)
  PROVE  Dry(w, v) /\ DOMAIN v.node = DOMAIN w.node
<1> DEFINE t == Detached(w, e)
           s == setName(t, e, x)
<1>1. Good(t) /\ DOMAIN t.node = DOMAIN w.node /\ (t.err = NoError => t.node[e].parent = NoNode)
  BY DetachedGood DEF Loosened
<1>2. Dry(w, t)
  BY DetachedDry
<1> HIDE DEF t
<1>3. Good(s) /\ DOMAIN s.node = DOMAIN w.node
  BY <1>1, SetNameGood
<1>4. Dry(t, s)
  BY <1>1, SetNameDry
<1> HIDE DEF s
<1>5. Dry(s, v) /\ DOMAIN v.node = DOMAIN w.node
  BY <1>1, <1>3, AddChildDry DEF s, t
<1>6. Dry(w, s)
  BY <1>1, <1>2, <1>4, DryTrans
<1> QED BY <1>3, <1>5, <1>6, DryTrans

\* A new node in a directory.
LEMMA AddNewSound ==
  ASSUME NEW w, Sound(w), NEW h \in Handle, NEW p \in DOMAIN w.node, w.node[p].dir,
         NEW x \in Name, NEW time \in Int, NEW isDir \in BOOLEAN,
         w.node[p].kids[x] = NoNode, NotBelow(w, w.node[p].fh, h),
         NEW v, v = AddNew(w, p, h, x, time, isDir), v.err = NoError,
         NEW n, n = NewNode(w)
  PROVE  /\ Sound(v) /\ Added(w, v, n, h, x, p, isDir) /\ Dry(w, v) /\ ~v.node[n].created
         /\ n \in DOMAIN v.node /\ n \notin DOMAIN w.node /\ DOMAIN w.node \subseteq DOMAIN v.node
         /\ \A m \in DOMAIN w.node : PathOf(v, m) = PathOf(w, m)
<1> DEFINE t == createNode(w, h, x, time)
           s == SetDir(t, n, isDir)
<1>1. Calm(w) /\ Good(w) /\ Apart(w.node) /\ p # NoNode
  BY GoodParents DEF Sound, Clear, Calm
<1>2. Added(w, v, n, h, x, p, isDir) /\ Calm(v)
  BY <1>1, AddNewEffect, AddNewCalm
<1>3. Apart(v.node)
  BY <1>1, <1>2, AddedApart
<1>4. t.err = NoError
  <2> HIDE DEF t
  <2>1. v = Then(t, addChild(SetDir(t, n, isDir), p, n))
    BY DEF AddNew, t
  <2> QED BY <2>1 DEF Then
<1>5. Good(t) /\ n \in DOMAIN t.node /\ DOMAIN w.node \subseteq DOMAIN t.node /\ Dry(w, t) /\ ~t.node[n].created
  <2>1. Calm(t) /\ Extended(w, t) /\ n \in DOMAIN t.node
    BY <1>1, <1>4, CreateNodeCalm
  <2>2. Dry(w, t) /\ DOMAIN w.node \subseteq DOMAIN t.node /\ ~t.node[n].created
    BY <1>1, <1>4, CreateNodeDry
  <2> QED BY <2>1, <2>2 DEF Calm
<1>6. v = addChild(s, p, n)
  BY <1>4 DEF AddNew, Then
<1> HIDE DEF t
<1>7. Good(s) /\ Dry(t, s) /\ DOMAIN s.node = DOMAIN t.node
  BY <1>5, SetDirGood, SetDirDry DEF Extended
<1> HIDE DEF s
<1>8. Dry(s, v) /\ DOMAIN v.node = DOMAIN s.node
  BY <1>5, <1>6, <1>7, AddChildDry
<1>9. Dry(t, v)
  BY <1>7, <1>8, DryTrans
<1>10. Dry(w, v)
  BY <1>5, <1>7, <1>8, <1>9, DryTrans
<1>11. ~v.node[n].created
  BY <1>5, <1>7, <1>8, <1>9 DEF Dry
<1>12. /\ Sound(v) /\ n \in DOMAIN v.node /\ DOMAIN w.node \subseteq DOMAIN v.node
       /\ \A m \in DOMAIN w.node : PathOf(v, m) = PathOf(w, m)
  <2>1. SameDisk(w, v) /\ \A m \in DOMAIN w.node : v.node[m].created <=> w.node[m].created
    BY <1>5, <1>7, <1>8, <1>10 DEF Dry
  <2> QED BY <1>2, <1>3, <1>11, <2>1, AddSound
<1> QED BY <1>2, <1>10, <1>11, <1>12 DEF Added

\* The directory of a request.
LEMMA VisitDirSound ==
  ASSUME NEW w, Sound(w), NEW h \in Handle, NEW d \in getNode(w, h),
         d # NoNode => w.node[d].dir, NEW time \in Int,
         NEW v, v = VisitDir(w, h, d, time), v.err = NoError, NEW p, p = OrNew(w, d)
  PROVE  Sound(v) /\ p \in DOMAIN v.node /\ v.node[p].dir
<1>1. Calm(w) /\ Good(w) /\ Apart(w.node) /\ w.err = NoError /\ NoNode \notin DOMAIN w.node
  BY GoodParents DEF Sound, Clear, Calm
<1>2. d = NoNode => \A m \in DOMAIN w.node : w.node[m].fh # h
  BY <1>1, NotFound
<1>3. d # NoNode => d \in DOMAIN w.node
  BY <1>1, NotFound
<1>4. CASE d # NoNode
  <2>1. v = Touch(w, d, time) /\ p = d
    BY <1>1, <1>4 DEF VisitDir, getOrCreateDir, OrNew, Check, Then
  <2>2. Sound(v) /\ DOMAIN v.node = DOMAIN w.node /\ Smooth(w, v)
    BY <1>3, <1>4, <2>1, TouchSound
  <2> QED BY <1>1, <1>3, <1>4, <2>1, <2>2, SmoothKeeps
<1>5. CASE d = NoNode
  <2> DEFINE t == createNode(w, h, handleName[h], time)
             s == SetDir(t, p, TRUE)
  <2>1. p = NewNode(w) /\ v = Touch(s, p, time) /\ handleName[h] \in Name
    BY <1>5, TreeAssumption DEF VisitDir, getOrCreateDir, OrNew
  <2>2. Calm(t) /\ (t.err = NoError => p \in DOMAIN t.node)
    BY <1>1, <2>1, CreateNodeCalm
  <2>3. Dry(w, t) /\ DOMAIN w.node \subseteq DOMAIN t.node /\ (t.err = NoError => ~t.node[p].created)
    BY <1>1, <2>1, CreateNodeDry
  <2>4. t.err = NoError => Added(w, t, p, h, handleName[h], NoNode, FALSE)
    BY <1>1, <2>1, CreateNodeEffect
  <2> HIDE DEF t
  <2>5. t.err = NoError /\ s.err = NoError
    BY <2>1 DEF Touch, SetDir, Then
  <2>6. Calm(s) /\ DOMAIN s.node = DOMAIN t.node
    BY <2>2, <2>5, SetDirCalm
  <2>7. Retyped(t, s, p, TRUE)
    BY <2>2, <2>5, SetDirEffect DEF Calm
  <2>8. Dry(t, s)
    BY <2>2, <2>5, SetDirDry DEF Calm
  <2> HIDE DEF s
  <2>9. Added(w, s, p, h, handleName[h], NoNode, TRUE)
    BY <2>4, <2>5, <2>7, AddedRetyped
  <2>10. Apart(s.node)
    BY <1>1, <1>2, <1>5, <2>9, RootAddedApart
  <2>11. SameDisk(w, s) /\ ~s.node[p].created /\ \A m \in DOMAIN w.node : s.node[m].created <=> w.node[m].created
    BY <2>2, <2>3, <2>5, <2>6, <2>8 DEF Dry, SameDisk
  <2>12. Sound(s) /\ p \in DOMAIN s.node
    <3>1. PICK r : r = NoNode
      OBVIOUS
    <3>2. Added(w, s, p, h, handleName[h], r, TRUE)
      BY <2>9, <3>1
    <3> QED BY <2>5, <2>6, <2>10, <2>11, <3>1, <3>2, AddSound
  <2>13. Sound(v) /\ DOMAIN v.node = DOMAIN s.node /\ Smooth(s, v)
    BY <2>1, <2>12, TouchSound
  <2>14. s.node[p].dir
    BY <2>9 DEF Added
  <2> QED BY <2>6, <2>12, <2>13, <2>14, SmoothKeeps
<1> QED BY <1>4, <1>5

\* What is vacant stays so on the disk.
LEMMA StaysVacant ==
  ASSUME NEW w, Sound(w), NEW e, NEW p, NEW x, NEW b, Vacant(w, e, p, x, b),
         NEW v, Smooth(w, v)
  PROVE  Vacant(v, e, p, x, b)
<1>1. Calm(w) /\ Good(w) /\ SameTree(w, v)
  BY DEF Sound, Clear, Calm, Smooth
<1>2. /\ DOMAIN v.node = DOMAIN w.node
      /\ \A n \in DOMAIN w.node : /\ v.node[n].fh = w.node[n].fh
                                  /\ v.node[n].dir = w.node[n].dir
                                  /\ v.node[n].kids = w.node[n].kids
      /\ \A g, h : NotBelow(w, g, h) => NotBelow(v, g, h)
  BY <1>1, SmoothCalm, SmoothKeeps
<1>3. b # NoNode => b \in DOMAIN w.node
  BY <1>1, ChildAllocated DEF Vacant
<1>4. b # NoNode /\ isDeletable(w, b) => isDeletable(v, b)
  BY <1>1, <1>3, SameTreeNode
<1> QED BY <1>2, <1>3, <1>4 DEF Vacant

\* rename(2), after the path of the new parent is made, if the element is created.
LEMMA RenameOnDiskFollowed ==
  ASSUME NEW w, Sound(w), NEW e, NEW p, NEW x, NEW b, Vacant(w, e, p, x, b),
         NEW v, v = RenameOnDisk(w, e, p, x)
  PROVE  \E u : /\ Sound(u) /\ Vacant(u, e, p, x, b) /\ Followed(u, v, e, p, x)
                /\ v.node = u.node /\ v.io = u.io /\ Smooth(w, v) /\ Smooth(u, v)
<1>1. Calm(w) /\ e \in DOMAIN w.node /\ p \in DOMAIN w.node /\ w.node[p].dir
  BY DEF Sound, Clear, Vacant
<1>2. CASE ~w.node[e].created
  <2>1. v = w
    BY <1>2 DEF RenameOnDisk
  <2> QED BY <1>2, <2>1, SoundRefl DEF Followed
<1>3. CASE w.node[e].created
  <2>1. PICK u : u = makePath(w, p)
    OBVIOUS
  <2>2. /\ Sound(u) /\ Smooth(w, u) /\ u.node[p].created /\ DOMAIN u.node = DOMAIN w.node
        /\ u.node[e].created
    BY <1>1, <1>3, <2>1, MakeSound
  <2>3. PathOf(u, e) = PathOf(w, e) /\ PathOf(u, p) = PathOf(w, p)
    BY <1>1, <2>2, SmoothPaths DEF Sound
  <2>4. v = RenamePath(u, PathOf(u, e), Place(u, p, x))
    BY <1>1, <1>3, <2>1, <2>3, CalcPathSmooth DEF RenameOnDisk, Place
  <2>5. Vacant(u, e, p, x, b)
    BY <2>2, StaysVacant
  <2>6. /\ Shifted(u.disk, v.disk, PathOf(u, e), Place(u, p, x))
        /\ v.node = u.node /\ v.io = u.io /\ Smooth(u, v)
    BY <2>2, <2>4, <2>5, RenameShifts
  <2>7. Followed(u, v, e, p, x)
    BY <2>2, <2>6 DEF Followed
  <2>8. Smooth(w, v)
    BY <2>2, <2>6, SmoothStep
  <2> QED BY <2>2, <2>5, <2>6, <2>7, <2>8
<1> QED BY <1>2, <1>3

\* The directory an element has left.
LEMMA ClearParentSound ==
  ASSUME NEW w, Sound(w), NEW p \in DOMAIN w.node \cup {NoNode}, NEW v, v = ClearParent(w, p)
  PROVE  Sound(v) /\ Smooth(w, v) /\ DOMAIN v.node = DOMAIN w.node
<1>1. CASE p = NoNode
  BY <1>1, SoundRefl DEF ClearParent
<1>2. CASE p # NoNode
  <2>1. Sound(v) /\ Smooth(w, v)
    BY <1>2, ClearSound DEF ClearParent
  <2> QED BY <2>1, SmoothPaths DEF Sound
<1> QED BY <1>1, <1>2

\* An element moves to a free name.
LEMMA CreateMoveElementSound ==
  ASSUME NEW w, Sound(w), NEW e, NEW p, NEW x, Vacant(w, e, p, x, NoNode),
         NEW v, v = createMoveElement(w, e, p, x)
  PROVE  /\ Sound(v) /\ DOMAIN v.node = DOMAIN w.node
         /\ \A m \in DOMAIN w.node : v.node[m].dir = w.node[m].dir
<1>1. /\ Calm(w) /\ Good(w) /\ Parents(w) /\ w.err = NoError
      /\ e \in DOMAIN w.node /\ p \in DOMAIN w.node /\ x \in Name
      /\ w.node[p].kids[x] = NoNode /\ NoNode \notin DOMAIN w.node
  BY GoodParents DEF Sound, Clear, Calm, Vacant
<1>2. PICK r : r = RenameOnDisk(w, e, p, x)
  OBVIOUS
<1>3. PICK u : /\ Sound(u) /\ Vacant(u, e, p, x, NoNode) /\ Followed(u, r, e, p, x)
               /\ r.node = u.node /\ r.io = u.io /\ Smooth(w, r) /\ Smooth(u, r)
  BY <1>2, RenameOnDiskFollowed
<1>4. /\ Calm(r) /\ Good(r) /\ DOMAIN r.node = DOMAIN w.node /\ r.err = NoError
      /\ r.node[p].kids[x] = NoNode /\ NotBelow(r, r.node[p].fh, r.node[e].fh)
  <2>1. Calm(r) /\ DOMAIN r.node = DOMAIN w.node /\ r.err = NoError
    BY <1>1, <1>3, SmoothCalm DEF Smooth
  <2>2. Vacant(r, e, p, x, NoNode)
    BY <1>3, StaysVacant
  <2> QED BY <2>1, <2>2 DEF Vacant, Calm
<1>5. PICK t : t = addChild(setName(Detached(r, e), e, x), p, e)
  OBVIOUS
<1>6. Calm(t) /\ t.err = NoError /\ DOMAIN t.node = DOMAIN r.node
  BY <1>1, <1>4, <1>5, ReplacedCalm
<1>7. Moved(r, t, e, p, x)
  BY <1>1, <1>4, <1>5, <1>6, ReplacedEffect
<1>8. Dry(r, t)
  BY <1>1, <1>4, <1>5, ReplacedDry
<1>9. Apart(t.node)
  <2>1. Apart(r.node) /\ p # NoNode
    BY <1>1, <1>3 DEF Sound
  <2> QED BY <1>7, <2>1, MovedApart
<1>10. Placed(u, t, e, p, x, NoNode)
  <2>1. DOMAIN t.node = DOMAIN u.node \ {NoNode}
    BY <1>1, <1>3, <1>4, <1>6
  <2>2. \A m \in DOMAIN t.node : /\ m # e => Stays(u, t, m)
                                 /\ t.node[m].dir = u.node[m].dir
    BY <1>3, <1>6, <1>7 DEF Moved, OnlyOf, Stays
  <2>3. \A m \in DOMAIN t.node : t.node[m].created <=> u.node[m].created
    BY <1>3, <1>6, <1>8 DEF Dry
  <2> QED BY <1>1, <1>4, <1>6, <1>7, <2>1, <2>2, <2>3 DEF Placed, Moved
<1>11. Followed(u, t, e, p, x) /\ t.io = u.io
  BY <1>3, <1>8 DEF Followed, Dry, SameDisk
<1>12. Sound(t)
  BY <1>3, <1>6, <1>9, <1>10, <1>11, PlacedSound
<1>13. v = ClearParent(t, w.node[e].parent)
  BY <1>2, <1>5 DEF createMoveElement
<1>14. w.node[e].parent \in DOMAIN t.node \cup {NoNode}
  BY <1>1, <1>4, <1>6 DEF Parents
<1>15. Sound(v) /\ DOMAIN v.node = DOMAIN t.node /\ Smooth(t, v)
  BY <1>12, <1>13, <1>14, ClearParentSound
<1>16. \A m \in DOMAIN w.node : v.node[m].dir = t.node[m].dir
  BY <1>4, <1>6, <1>15, SmoothKeeps
<1>17. \A m \in DOMAIN w.node : t.node[m].dir = w.node[m].dir
  <2>1. \A m \in DOMAIN w.node : r.node[m].dir = w.node[m].dir
    BY <1>1, <1>3, SmoothKeeps
  <2>2. \A m \in DOMAIN w.node : t.node[m].dir = r.node[m].dir
    BY <1>4, <1>7 DEF Moved, OnlyOf, Stays
  <2> QED BY <2>1, <2>2
<1> QED BY <1>4, <1>6, <1>15, <1>16, <1>17

-----------------------------------------------------------------------------
(* LOOKUP, CREATE and MKDIR.                                               *)

\* createLookup, in a directory that was found.
LEMMA LookupInSound ==
  ASSUME NEW w, Sound(w), NEW p \in DOMAIN w.node, w.node[p].dir,
         NEW e \in DOMAIN w.node \cup {NoNode},
         NEW req, NEW res, EntryArgs(req, res), Answered(w, p, e, req, res),
         NEW v, v = LookupIn(w, p, e, req, res), v.err = NoError
  PROVE  Sound(v)
<1> DEFINE c == w.node[p].kids[req.name]
           isDir == res.ftype = "DIR"
           link == c = NoNode /\ e # NoNode /\ ~isDir /\ w.node[e].parent # NoNode
<1>1. Good(w) /\ NoNode \notin DOMAIN w.node
  BY GoodParents DEF Sound, Clear, Calm
<1>2. req.name \in Name /\ res.fh \in Handle /\ res.time \in Int
  BY DEF EntryArgs, NamesEntry
<1>3. CASE c = NoNode /\ e = NoNode
  <2>1. v = AddNew(w, p, res.fh, req.name, res.time, isDir) /\ isDir \in BOOLEAN
    BY <1>3 DEF LookupIn
  <2>2. NotBelow(w, w.node[p].fh, res.fh) /\ w.node[p].kids[req.name] = NoNode
    BY <1>3 DEF Answered
  <2>3. PICK n : n = NewNode(w)
    OBVIOUS
  <2> HIDE DEF isDir, c
  <2> QED BY <1>2, <2>1, <2>2, <2>3, AddNewSound
<1>4. CASE link
  <2> DEFINE b == FALSE
             u == AddNew(w, p, w.node[e].fh, req.name, res.time, b)
  <2>1. v = Touch(u, e, res.time) /\ b \in BOOLEAN /\ e \in DOMAIN w.node
    BY <1>4 DEF LookupIn
  <2>2. w.node[e].fh = res.fh /\ w.node[p].kids[req.name] = NoNode
    BY <1>4 DEF Answered
  <2>3. NotBelow(w, w.node[p].fh, w.node[e].fh) /\ w.node[e].fh \in Handle
    BY <1>2, <2>2 DEF Answered
  <2>4. u.err = NoError
    BY <2>1 DEF Touch, Then
  <2>5. PICK n : n = NewNode(w)
    OBVIOUS
  <2> HIDE DEF b
  <2>6. Sound(u) /\ DOMAIN w.node \subseteq DOMAIN u.node
    BY <1>2, <2>1, <2>2, <2>3, <2>4, <2>5, AddNewSound
  <2> HIDE DEF u
  <2> QED BY <1>2, <2>1, <2>6, TouchSound
<1>5. CASE c = NoNode /\ e # NoNode /\ ~link
  <2> DEFINE u == createMoveElement(w, e, p, req.name)
  <2>1. v = Touch(createChangeFType(u, e, res.ftype), e, res.time) /\ e \in DOMAIN w.node
    BY <1>5 DEF LookupIn
  <2>2. w.node[e].fh = res.fh /\ w.node[e].dir = isDir
    BY <1>5, <2>1 DEF Answered
  <2>3. PICK b : b = NoNode
    OBVIOUS
  <2>4. Vacant(w, e, p, req.name, b)
    <3>1. NotBelow(w, w.node[p].fh, w.node[e].fh)
      BY <2>2 DEF Answered
    <3> QED BY <1>1, <1>2, <1>5, <2>1, <2>3, <3>1 DEF Vacant
  <2>5. Sound(u) /\ DOMAIN u.node = DOMAIN w.node /\ u.node[e].dir = w.node[e].dir
    BY <2>1, <2>3, <2>4, CreateMoveElementSound
  <2> HIDE DEF u
  <2>6. createChangeFType(u, e, res.ftype) = u
    BY <2>2, <2>5, SameFType
  <2> QED BY <1>2, <2>1, <2>5, <2>6, TouchSound
<1>6. CASE c # NoNode
  <2>1. c \in DOMAIN w.node /\ w.node[c].fh = res.fh /\ w.node[c].dir = isDir
    BY <1>1, <1>2, <1>6, ChildAllocated DEF Answered
  <2>2. v = Touch(createChangeFType(w, c, res.ftype), c, res.time)
    BY <1>6, <2>1 DEF LookupIn, SettleElement, Displaced
  <2> HIDE DEF c
  <2>3. createChangeFType(w, c, res.ftype) = w
    BY <2>1, SameFType
  <2> QED BY <1>2, <2>1, <2>2, <2>3, TouchSound
<1> QED BY <1>3, <1>4, <1>5, <1>6

\* An entry that is there gets the size of the answer; a CREATE has reset it.
LEMMA RewriteSound ==
  ASSUME NEW w, Sound(w), NEW n \in DOMAIN w.node, NEW res, res.size \in Nat,
         w.node[n].dir = (res.ftype = "DIR"), NEW v, v = Rewrite(w, n, res)
  PROVE  Sound(v) /\ Smooth(w, v) /\ DOMAIN v.node = DOMAIN w.node
<1> DEFINE z == 0
           s == SetSize(w, n, z)
           u == IF res.op = "CREATE" THEN s ELSE w
           t == writeToSize(u, n, res.size)
<1>1. Sound(s) /\ Smooth(w, s) /\ DOMAIN s.node = DOMAIN w.node
  <2>1. z \in Nat
    OBVIOUS
  <2> HIDE DEF z
  <2> QED BY <2>1, SetSizeSound
<1>2. v = IF res.ftype = "DIR" THEN u ELSE t
  BY DEF Rewrite
<1> HIDE DEF s
<1>3. Sound(u) /\ Smooth(w, u) /\ DOMAIN u.node = DOMAIN w.node
  <2>1. Smooth(w, w)
    BY SoundRefl
  <2> QED BY <1>1, <2>1
<1> HIDE DEF u
<1>4. CASE res.ftype = "DIR"
  BY <1>2, <1>3, <1>4
<1>5. CASE res.ftype # "DIR"
  <2>1. ~u.node[n].dir
    <3>1. Calm(w)
      BY SoundRefl
    <3>2. u.node[n].dir = w.node[n].dir
      BY <1>3, <3>1, SmoothKeeps
    <3> QED BY <1>5, <3>2
  <2>2. Sound(t) /\ Smooth(u, t) /\ DOMAIN t.node = DOMAIN w.node
    BY <1>3, <2>1, WriteToSizeSound
  <2> HIDE DEF t
  <2>3. Smooth(w, t)
    BY <1>3, <2>2, SmoothStep
  <2> QED BY <1>2, <1>5, <2>2, <2>3
<1> QED BY <1>4, <1>5

\* A CREATE of what the directory has under that name.
LEMMA CreateOverSound ==
  ASSUME NEW w, Sound(w), NEW p \in DOMAIN w.node, NEW c \in DOMAIN w.node,
         NEW e, NEW req, NEW res, EntryArgs(req, res), w.node[c].fh = res.fh,
         w.node[c].dir = (res.ftype = "DIR"),
         NEW v, v = CreateOver(w, p, c, e, req, res)
  PROVE  Sound(v)
<1> DEFINE u == Rewrite(w, c, res)
<1>1. v = Touch(createChangeFType(u, c, res.ftype), c, res.time)
  BY DEF CreateOver, SettleElement, Displaced
<1>2. Sound(u) /\ Smooth(w, u) /\ DOMAIN u.node = DOMAIN w.node
  BY RewriteSound DEF EntryArgs
<1> HIDE DEF u
<1>3. u.node[c].dir = (res.ftype = "DIR")
  BY <1>2, SmoothKeeps, SoundRefl
<1>4. createChangeFType(u, c, res.ftype) = u
  BY <1>3, SameFType
<1>5. res.time \in Int
  BY DEF EntryArgs
<1> QED BY <1>1, <1>2, <1>4, <1>5, TouchSound

\* What is no directory has no children.
LEMMA FileDeletable ==
  ASSUME NEW w, Sound(w), NEW n \in DOMAIN w.node, ~w.node[n].dir
  PROVE  isDeletable(w, n)
<1>1. Good(w) /\ NoNode \notin DOMAIN w.node
  BY GoodParents DEF Sound, Clear, Calm
<1>2. ASSUME NEW x \in Name, w.node[n].kids[x] # NoNode PROVE FALSE
  <2>1. PICK k : k = w.node[n].kids[x]
    OBVIOUS
  <2>2. k \in DOMAIN w.node /\ w.node[k].parent = n
    BY <1>1, <1>2, <2>1, ChildAllocated
  <2> QED BY <1>1, <2>2, SoundNodes
<1>3. Kids(w, n) = {}
  BY <1>2 DEF Kids
<1> QED BY <1>3 DEF isDeletable

\* The name is free, and the file has another.
LEMMA ReplacedSound ==
  ASSUME NEW w, Sound(w), NEW e, NEW p, NEW x, NEW b, b = NoNode, Vacant(w, e, p, x, b),
         ~w.node[e].created, NEW v, v = addChild(setName(Detached(w, e), e, x), p, e)
  PROVE  /\ Sound(v) /\ DOMAIN v.node = DOMAIN w.node
         /\ \A m \in DOMAIN w.node : v.node[m].dir = w.node[m].dir
<1>1. Calm(w) /\ Good(w) /\ Apart(w.node) /\ NoNode \notin DOMAIN w.node
  BY GoodParents DEF Sound, Clear, Calm
<1>2. /\ e \in DOMAIN w.node /\ p \in DOMAIN w.node /\ x \in Name
      /\ w.node[p].kids[x] = NoNode /\ NotBelow(w, w.node[p].fh, w.node[e].fh)
  BY DEF Vacant
<1>3. Calm(v) /\ DOMAIN v.node = DOMAIN w.node /\ v.err = NoError
  BY <1>1, <1>2, ReplacedCalm DEF Sound, Clear
<1>4. Moved(w, v, e, p, x)
  BY <1>1, <1>2, <1>3, ReplacedEffect
<1>5. Dry(w, v)
  BY <1>1, <1>2, ReplacedDry
<1>6. p # NoNode
  BY <1>1, <1>2
<1>7. Apart(v.node)
  BY <1>1, <1>4, <1>6, MovedApart
<1>8. /\ \A m \in DOMAIN w.node : m # e => Stays(w, v, m)
      /\ v.node[e].dir = w.node[e].dir /\ v.node[e].parent = p /\ v.node[e].name = x
  BY <1>4 DEF Moved, OnlyOf
<1>9. \A m \in DOMAIN w.node : v.node[m].dir = w.node[m].dir
  BY <1>8 DEF Stays
<1>10. \A m \in DOMAIN w.node : v.node[m].created <=> w.node[m].created
  BY <1>3, <1>5 DEF Dry
<1>11. Placed(w, v, e, p, x, b)
  BY <1>1, <1>2, <1>3, <1>8, <1>9, <1>10 DEF Placed
<1>12. Followed(w, v, e, p, x) /\ v.io = w.io
  BY <1>5 DEF Followed, Dry, SameDisk
<1>13. Sound(v)
  BY <1>3, <1>7, <1>11, <1>12, PlacedSound
<1> QED BY <1>3, <1>9, <1>13

\* A CREATE of a file that has a node.
LEMMA CreateAgainSound ==
  ASSUME NEW w, Sound(w), NEW p \in DOMAIN w.node, w.node[p].dir, NEW e \in DOMAIN w.node,
         NEW req, NEW res, EntryArgs(req, res), Answered(w, p, e, req, res),
         w.node[p].kids[req.name] = NoNode, res.ftype # "DIR",
         NEW v, v = CreateAgain(w, p, e, req, res), v.err = NoError
  PROVE  Sound(v)
<1> DEFINE r == RemoveOnDisk(w, e)
           a == IF w.node[e].created THEN r ELSE w
           u == addChild(setName(Detached(a, e), e, req.name), p, e)
           f == createChangeFType(u, e, res.ftype)
           z == 0
           s == SetSize(f, e, z)
           t == writeToSize(s, e, res.size)
           q == w.node[e].parent
           b == ClearParent(t, q)
<1>0. /\ req.name \in Name /\ res.time \in Int /\ res.size \in Nat
      /\ w.node[e].fh = res.fh /\ ~w.node[e].dir /\ Good(w) /\ Calm(w)
      /\ NoNode \notin DOMAIN w.node
  <2>1. Good(w) /\ Calm(w) /\ NoNode \notin DOMAIN w.node
    BY GoodParents DEF Sound, Clear, Calm
  <2> QED BY <2>1 DEF EntryArgs, NamesEntry, Answered
<1>1. v = Touch(b, e, res.time)
  BY DEF CreateAgain
<1>2. Sound(a) /\ Smooth(w, a) /\ DOMAIN a.node = DOMAIN w.node /\ ~a.node[e].created
  <2>1. isDeletable(w, e)
    BY <1>0, FileDeletable
  <2> QED BY <2>1, RemoveOnDiskSound
<1>3. q \in DOMAIN w.node \cup {NoNode}
  BY <1>0, GoodParents DEF Parents
<1> HIDE DEF a, q
<1>4. PICK k : k = NoNode
  OBVIOUS
<1>5. Vacant(a, e, p, req.name, k) /\ ~a.node[e].dir
  <2>1. /\ a.node[p].kids[req.name] = NoNode /\ NotBelow(a, a.node[p].fh, a.node[e].fh)
        /\ ~a.node[e].dir /\ a.node[p].dir
    BY <1>0, <1>2, SmoothKeeps DEF Answered
  <2> QED BY <1>0, <1>2, <1>4, <2>1 DEF Vacant
<1>6. Sound(u) /\ DOMAIN u.node = DOMAIN w.node /\ ~u.node[e].dir
  BY <1>2, <1>4, <1>5, ReplacedSound
<1> HIDE DEF u
<1>7. f = u
  <2>1. u.node[e].dir = a.node[e].dir /\ a.node[e].dir = w.node[e].dir
    BY <1>0, <1>2, <1>4, <1>5, ReplacedSound, SmoothKeeps DEF u
  <2>2. w.node[e].dir = (res.ftype = "DIR")
    BY <1>0 DEF Answered
  <2> QED BY <2>1, <2>2, SameFType
<1> HIDE DEF f
<1>8. Sound(s) /\ Smooth(f, s) /\ DOMAIN s.node = DOMAIN w.node
  <2>1. z \in Nat
    OBVIOUS
  <2> HIDE DEF z
  <2> QED BY <1>6, <1>7, <2>1, SetSizeSound
<1>9. ~s.node[e].dir
  BY <1>6, <1>7, <1>8, SmoothKeeps, SoundRefl
<1> HIDE DEF s
<1>10. Sound(t) /\ DOMAIN t.node = DOMAIN w.node
  BY <1>0, <1>8, <1>9, WriteToSizeSound
<1> HIDE DEF t
<1>11. Sound(b) /\ DOMAIN b.node = DOMAIN w.node
  BY <1>3, <1>10, ClearParentSound
<1> HIDE DEF b
<1> QED BY <1>0, <1>1, <1>11, TouchSound

\* createFile, in a directory that was found.
LEMMA CreateInSound ==
  ASSUME NEW w, Sound(w), NEW p \in DOMAIN w.node, w.node[p].dir,
         NEW e \in DOMAIN w.node \cup {NoNode},
         NEW req, NEW res, EntryArgs(req, res), Answered(w, p, e, req, res),
         NEW v, v = CreateIn(w, p, e, req, res), v.err = NoError
  PROVE  Sound(v)
<1> DEFINE c == w.node[p].kids[req.name]
           b == FALSE
           u == AddNew(w, p, res.fh, req.name, res.time, b)
<1>1. Good(w) /\ NoNode \notin DOMAIN w.node
  BY GoodParents DEF Sound, Clear, Calm
<1>2. req.name \in Name /\ res.fh \in Handle /\ res.time \in Int /\ res.size \in Nat
  BY DEF EntryArgs, NamesEntry
<1>3. CASE c # NoNode
  <2>1. c \in DOMAIN w.node /\ w.node[c].fh = res.fh /\ w.node[c].dir = (res.ftype = "DIR")
    BY <1>1, <1>2, <1>3, ChildAllocated DEF Answered
  <2>2. v = CreateOver(w, p, c, e, req, res)
    BY <1>3 DEF CreateIn
  <2> HIDE DEF c
  <2> QED BY <2>1, <2>2, CreateOverSound
<1>4. CASE c = NoNode /\ res.ftype = "DIR"
  <2>1. v = LookupIn(w, p, e, req, res)
    BY <1>4 DEF CreateIn
  <2> QED BY <2>1, LookupInSound
<1>5. CASE c = NoNode /\ res.ftype # "DIR" /\ e # NoNode
  <2>1. v = CreateAgain(w, p, e, req, res) /\ e \in DOMAIN w.node
    BY <1>5 DEF CreateIn
  <2>2. w.node[p].kids[req.name] = NoNode
    BY <1>5
  <2> QED BY <1>5, <2>1, <2>2, CreateAgainSound
<1>6. CASE c = NoNode /\ res.ftype # "DIR" /\ e = NoNode
  <2> DEFINE n == NewNode(w)
             t == writeToSize(u, n, res.size)
  <2>1. v = Then(u, t) /\ b \in BOOLEAN /\ b = FALSE
    BY <1>6 DEF CreateIn
  <2>2. w.node[p].kids[req.name] = NoNode /\ NotBelow(w, w.node[p].fh, res.fh)
    BY <1>6 DEF Answered
  <2> HIDE DEF b, n
  <2>3. u.err = NoError
    BY <2>1 DEF Then
  <2>4. Sound(u) /\ n \in DOMAIN u.node /\ Added(w, u, n, res.fh, req.name, p, b)
    <3>1. n = NewNode(w)
      BY DEF n
    <3> QED BY <1>2, <2>1, <2>2, <2>3, <3>1, AddNewSound
  <2>5. ~u.node[n].dir
    BY <2>1, <2>4 DEF Added
  <2> HIDE DEF u
  <2>6. Sound(t)
    BY <1>2, <2>4, <2>5, WriteToSizeSound
  <2> QED BY <2>1, <2>3, <2>6 DEF Then
<1> QED BY <1>3, <1>4, <1>5, <1>6

\* The directory is visited.
LEMMA VisitServedSound ==
  ASSUME NEW w, Sound(w), NEW req, NEW res, EntryArgs(req, res),
         NEW d \in getNode(w, req.fh), NEW e \in getNode(w, res.fh),
         NEW K, NEW E, EntryServed(w, req, res, K, E),
         NEW v, v = VisitDir(w, req.fh, d, res.time), v.err = NoError, NEW p, p = OrNew(w, d)
  PROVE  /\ Sound(v) /\ Answered(v, p, e, req, res) /\ p \in DOMAIN v.node /\ v.node[p].dir
         /\ e \in DOMAIN v.node \cup {NoNode}
<1>1. Calm(w) /\ Good(w) /\ req.fh \in Handle /\ res.time \in Int
  BY SoundRefl DEF EntryArgs, NamesEntry
<1>2. d # NoNode => w.node[d].dir
  <2>1. Typed(w, K) /\ IsKind(K, req.fh, "DIR")
    BY DEF EntryServed
  <2> QED BY <1>1, <2>1, FoundDir
<1>3. Sound(v) /\ p \in DOMAIN v.node /\ v.node[p].dir
  BY <1>1, <1>2, VisitDirSound
<1>4. Answered(v, p, e, req, res) /\ e \in DOMAIN v.node \cup {NoNode}
  BY <1>1, VisitServed
<1> QED BY <1>3, <1>4

\* LOOKUP.
LEMMA CreateLookupSound ==
  ASSUME NEW w, Sound(w), NEW req, NEW res, res.time \in Int, res.size \in Nat,
         NEW d \in getNode(w, req.fh), NEW e \in getNode(w, res.fh),
         NEW K, NEW E, EntryServed(w, req, res, K, E),
         NEW z, z = createLookup(w, req, res, d, e), z.err = NoError
  PROVE  Sound(z)
<1> DEFINE v == VisitDir(w, req.fh, d, res.time)
           p == OrNew(w, d)
           u == LookupIn(v, p, e, req, res)
<1>1. CASE ~NamesEntry(req, res)
  BY <1>1 DEF createLookup
<1>2. CASE NamesEntry(req, res)
  <2>1. z = Then(v, u) /\ EntryArgs(req, res)
    BY <1>2 DEF createLookup, EntryArgs
  <2>2. v.err = NoError /\ z = u
    BY <2>1 DEF Then
  <2>3. /\ Sound(v) /\ Answered(v, p, e, req, res) /\ p \in DOMAIN v.node /\ v.node[p].dir
        /\ e \in DOMAIN v.node \cup {NoNode}
    BY <2>1, <2>2, VisitServedSound
  <2> HIDE DEF v, p
  <2> QED BY <2>1, <2>2, <2>3, LookupInSound
<1> QED BY <1>1, <1>2

\* CREATE and MKDIR.
LEMMA CreateFileSound ==
  ASSUME NEW w, Sound(w), NEW req, NEW res, res.time \in Int, res.size \in Nat,
         NEW d \in getNode(w, req.fh), NEW e \in getNode(w, res.fh),
         NEW K, NEW E, EntryServed(w, req, res, K, E),
         NEW z, z = createFile(w, req, res, d, e), z.err = NoError
  PROVE  Sound(z)
<1> DEFINE v == VisitDir(w, req.fh, d, res.time)
           p == OrNew(w, d)
           u == CreateIn(v, p, e, req, res)
<1>1. CASE ~NamesEntry(req, res)
  BY <1>1 DEF createFile
<1>2. CASE NamesEntry(req, res)
  <2>1. z = Then(v, u) /\ EntryArgs(req, res)
    BY <1>2 DEF createFile, EntryArgs
  <2>2. v.err = NoError /\ z = u
    BY <2>1 DEF Then
  <2>3. /\ Sound(v) /\ Answered(v, p, e, req, res) /\ p \in DOMAIN v.node /\ v.node[p].dir
        /\ e \in DOMAIN v.node \cup {NoNode}
    BY <2>1, <2>2, VisitServedSound
  <2> HIDE DEF v, p
  <2> QED BY <2>1, <2>2, <2>3, CreateInSound
<1> QED BY <1>1, <1>2

-----------------------------------------------------------------------------
(* REMOVE and RMDIR.                                                       *)

\* The entry is gone, and the node is no child any more.
LEMMA TakenOutFits ==
  ASSUME NEW w, Sound(w), NEW p \in DOMAIN w.node, NEW c \in DOMAIN w.node,
         w.node[c].parent = p, isDeletable(w, c),
         NEW u, u = deleteChild(IF w.node[c].created THEN Unlink(w, c) ELSE w, p, c)
  PROVE  /\ Clear(u) /\ DOMAIN u.node = DOMAIN w.node /\ u.io = w.io
         /\ Moved(w, u, c, NoNode, w.node[c].name)
         /\ Fits(u, DOMAIN w.node \ {c})
<1> DEFINE q == Unlink(w, c)
           a == IF w.node[c].created THEN q ELSE w
           o == RemoveOnDisk(w, c)
           r == IF w.node[c].created THEN o ELSE w
           N == DOMAIN w.node
           M == N \ {c}
<1>1. Good(w) /\ Calm(w) /\ w.err = NoError /\ Parents(w) /\ Layered(w.node)
  BY GoodParents DEF Sound, Clear, Calm
<1>2. /\ Sound(r) /\ Smooth(w, r) /\ DOMAIN r.node = N /\ r.io = w.io /\ ~r.node[c].created
      /\ \A n \in M : r.node[n].created <=> w.node[n].created
  BY RemoveOnDiskSound
<1>3. a.node = w.node /\ a.disk = r.disk /\ a.io = w.io /\ Smooth(w, a)
  <2>1. CASE w.node[c].created
    <3>1. /\ a = [w EXCEPT !.disk = Removed(w.disk, {PathOf(w, c)})]
          /\ r = [w EXCEPT !.disk = Removed(w.disk, {PathOf(w, c)}), !.node[c].created = FALSE]
      BY <2>1, UnlinkDisk
    <3>2. DOMAIN w = {"node", "disk", "err", "io"}
      BY <1>1 DEF Good
    <3>3. Smooth(w, a)
      BY <1>1, <2>1, UnlinkSmooth
    <3> HIDE DEF a, r
    <3>4. a.node = w.node /\ a.disk = r.disk /\ a.io = w.io
      BY <3>1, <3>2
    <3> QED BY <3>3, <3>4
  <2>2. CASE ~w.node[c].created
    BY <1>1, <2>2, SmoothRefl
  <2> QED BY <2>1, <2>2
<1>4. u = deleteChild(a, p, c)
  OBVIOUS
<1>5. \A n \in N : r.node[n].name = w.node[n].name /\ r.node[n].parent = w.node[n].parent
                   /\ r.node[n].dir = w.node[n].dir
  BY <1>1, <1>2, SmoothKeeps
<1> HIDE DEF a, r
<1>6. Calm(a) /\ DOMAIN a.node = N /\ a.err = NoError /\ isDeletable(a, c) /\ Good(a)
  <2>1. Calm(a) /\ a.err = NoError
    BY <1>1, <1>3, SmoothCalm DEF Smooth
  <2>2. isDeletable(a, c)
    BY <1>3 DEF isDeletable, Kids
  <2> QED BY <1>3, <2>1, <2>2 DEF Calm
<1>7. Clear(u) /\ DOMAIN u.node = N
  <2>1. a.node[c].parent = p
    BY <1>3
  <2> QED BY <1>3, <1>4, <1>6, <2>1, DeleteChildCalm DEF Clear
<1>8. Moved(w, u, c, NoNode, w.node[c].name)
  BY <1>1, <1>4, <1>7, TakenOutEffect DEF Clear, a
<1>9. Dry(a, u)
  BY <1>3, <1>4, <1>6, DeleteChildDry
<1>10. SameNodes(r, u, M)
  <2>1. ASSUME NEW m \in M PROVE w.node[m].parent \in M \cup {NoNode}
    <3>1. w.node[m].parent # c
      BY <1>1, ParentNotDeletable, GoodParents
    <3> QED BY <1>1, <3>1 DEF Parents
  <2>2. \A m \in M : Stays(w, u, m)
    BY <1>8 DEF Moved, OnlyOf
  <2>3. \A m \in M : u.node[m].created <=> w.node[m].created
    BY <1>3, <1>7, <1>9 DEF Dry
  <2>4. M \subseteq DOMAIN r.node /\ M \subseteq DOMAIN u.node
    BY <1>2, <1>7
  <2> HIDE DEF M
  <2>5. SameLinks(r, u, M)
    BY <1>5, <2>1, <2>2, <2>4 DEF SameLinks, Stays, M
  <2>6. \A m \in M : u.node[m].dir = r.node[m].dir /\ (u.node[m].created <=> r.node[m].created)
    BY <1>2, <1>5, <2>2, <2>3 DEF Stays, M
  <2> QED BY <2>5, <2>6 DEF SameNodes
<1>11. u.disk = r.disk /\ u.io = w.io
  BY <1>3, <1>9 DEF Dry, SameDisk
<1>12. Fits(u, M)
  <2>1. Clear(r) /\ Fits(r, N)
    BY <1>2 DEF Sound
  <2>2. M \subseteq N /\ \A n \in N : n \notin M => ~r.node[n].created
    BY <1>2
  <2> HIDE DEF M, N
  <2> QED BY <1>7, <1>10, <1>11, <2>1, <2>2, TrimFits
<1> QED BY <1>7, <1>8, <1>11, <1>12

\* Its directory is cleared, and the node is freed.
LEMMA RemoveChildOfSound ==
  ASSUME NEW w, Sound(w), NEW d \in DOMAIN w.node, NEW c \in DOMAIN w.node,
         w.node[c].parent = d, isDeletable(w, c), NEW time \in Int,
         NEW v, v = RemoveChildOf(w, d, c, time)
  PROVE  Sound(v)
<1> DEFINE u == deleteChild(IF w.node[c].created THEN Unlink(w, c) ELSE w, d, c)
           e == clearEmptyDir(u, d)
           b == Then(u, e)
           t == Touch(b, d, time)
           N == DOMAIN w.node
           M == N \ {c}
<1>1. Good(w) /\ Calm(w) /\ Apart(w.node)
  BY DEF Sound, Clear, Calm
<1>2. v = removeNode(t, c)
  BY DEF RemoveChildOf
<1>3. /\ Clear(u) /\ DOMAIN u.node = N /\ u.io = w.io /\ Fits(u, M)
      /\ Moved(w, u, c, NoNode, w.node[c].name)
  BY TakenOutFits
<1> HIDE DEF u
<1>4. d \in M
  BY <1>1 DEF Apart
<1>5. Smooth(u, e) /\ Fits(e, M) /\ e.io = u.io
  <2> HIDE DEF M
  <2> QED BY <1>3, <1>4, ClearFits
<1>6. Clear(e) /\ DOMAIN e.node = N
  BY <1>3, <1>5, SmoothPaths
<1> HIDE DEF e
<1>7. b = e
  BY <1>3 DEF Then, Clear
<1> HIDE DEF b
<1>8. Smooth(e, t) /\ t.io = e.io /\ t.disk = e.disk /\ DOMAIN t.node = N
      /\ \A n \in N : t.node[n].created <=> e.node[n].created
  <2>1. Smooth(e, t) /\ Good(e) /\ e.err = NoError
    BY <1>6, <1>7, TouchSmooth DEF Clear, Calm
  <2>2. t = [e EXCEPT !.node[d].access = time]
    BY <1>7, <2>1 DEF Touch, Then
  <2>3. t.io = e.io /\ t.disk = e.disk
    BY <2>1, <2>2 DEF Good
  <2>4. DOMAIN t.node = N /\ \A n \in N : t.node[n].created <=> e.node[n].created
    BY <1>6, <2>1, <2>2 DEF Good, Heap, NodeType
  <2> QED BY <2>1, <2>3, <2>4
<1> HIDE DEF t
<1>9. Clear(t)
  BY <1>6, <1>8, SmoothPaths
<1>10. Fits(t, M)
  <2>1. DOMAIN t.disk = {"entry", "size"} /\ t.disk.entry = e.disk.entry
    BY <1>5, <1>8 DEF Fits
  <2>2. \A n \in M : t.node[n].created <=> e.node[n].created
    BY <1>8
  <2> HIDE DEF M
  <2> QED BY <1>5, <1>6, <1>8, <2>1, <2>2, IdleFits
<1>11. Calm(v)
  BY <1>1, RemoveChildOfCalm
<1>12. v = [t EXCEPT !.node = Restrict(t.node, DOMAIN t.node \ {c})]
  BY <1>2, <1>9 DEF removeNode, Then, Clear
<1>13. v.err = NoError /\ v.io = w.io /\ v.disk = t.disk
  BY <1>3, <1>5, <1>8, <1>9, <1>12 DEF Clear, Calm, Good
<1>14. Freed(w, v, c)
  BY <1>1, <1>13, RemoveChildOfEffect
<1>15. Freed(t, v, c)
  <2>1. Good(t) /\ c \in DOMAIN t.node
    BY <1>8, <1>9 DEF Clear, Calm
  <2> QED BY <1>2, <1>13, <2>1, RemoveNodeEffect
<1>16. Apart(v.node)
  BY <1>1, <1>14, FreedApart
<1>17. SameNodes(t, v, M)
  <2>1. DOMAIN v.node = M
    BY <1>14 DEF Freed
  <2>2. \A m \in M : Stays(t, v, m)
    BY <1>8, <1>15 DEF Freed
  <2>3. \A m \in M : v.node[m] = t.node[m]
    BY <1>8, <1>9, <1>12 DEF Restrict, Clear, Calm, Good
  <2>4. \A m \in M : t.node[m].parent \in M \cup {NoNode}
    <3>1. Good(v)
      BY <1>11 DEF Calm
    <3>2. Parents(v)
      BY <3>1, GoodParents
    <3> QED BY <2>1, <2>3, <3>2 DEF Parents
  <2>5. M \subseteq DOMAIN t.node
    BY <1>8
  <2> HIDE DEF M
  <2> QED BY <2>1, <2>2, <2>3, <2>4, <2>5 DEF SameNodes, SameLinks
<1>18. Fits(v, M)
  <2>1. Clear(v)
    BY <1>11, <1>13 DEF Clear
  <2> HIDE DEF M
  <2>2. M \subseteq M /\ \A n \in M : n \notin M => ~t.node[n].created
    OBVIOUS
  <2> QED BY <1>9, <1>10, <1>13, <1>17, <2>1, <2>2, TrimFits
<1>19. DOMAIN v.node = M
  BY <1>14 DEF Freed
<1>20. Obedient(v.io)
  BY <1>13 DEF Sound
<1> QED BY <1>11, <1>13, <1>16, <1>18, <1>19, <1>20 DEF Sound, Clear

\* REMOVE and RMDIR.
LEMMA RemoveFileSound ==
  ASSUME NEW w, Sound(w), NEW req, NEW res, res.time \in Int,
         NEW d \in DOMAIN w.node \cup {NoNode}, NEW v, v = removeFile(w, req, res, d)
  PROVE  Sound(v)
<1> DEFINE c == w.node[d].kids[req.name]
<1>1. CASE v = w
  BY <1>1
<1>2. CASE /\ req.name \in Name /\ d # NoNode /\ c # NoNode /\ isDeletable(w, c)
           /\ v = RemoveChildOf(w, d, c, res.time)
  <2>1. d \in DOMAIN w.node /\ req.name \in Name /\ c # NoNode /\ Good(w)
    BY <1>2, SoundRefl
  <2>2. c \in DOMAIN w.node /\ w.node[c].parent = d
    BY <2>1, ChildAllocated
  <2> HIDE DEF c
  <2> QED BY <1>2, <2>1, <2>2, RemoveChildOfSound
<1> QED BY <1>1, <1>2 DEF removeFile

-----------------------------------------------------------------------------
(* GETATTR and WRITE.                                                      *)

\* GETATTR and SETATTR.
LEMMA GetAttrSound ==
  ASSUME NEW w, Sound(w), NEW req, NEW res, res.time \in Int,
         NEW d \in DOMAIN w.node \cup {NoNode}, NEW v, v = getAttr(w, req, res, d)
  PROVE  Sound(v)
<1> DEFINE a == Touch(w, d, res.time)
           b == calcPath(a, d)
<1>1. CASE v = w
  BY <1>1
<1>2. CASE d # NoNode /\ (v = a \/ v = b)
  <2>1. d \in DOMAIN w.node
    BY <1>2
  <2>2. Sound(a) /\ DOMAIN a.node = DOMAIN w.node
    BY <2>1, TouchSound
  <2>3. b = a
    <3> HIDE DEF a
    <3> QED BY <2>1, <2>2, SoundRefl
  <2> QED BY <1>2, <2>2, <2>3
<1> QED BY <1>1, <1>2 DEF getAttr

\* The file of a WRITE, which gets a node if its handle is new.
LEMMA FileNodeSound ==
  ASSUME NEW w, Sound(w), NEW h \in Handle, NEW d \in getNode(w, h), NEW time \in Int,
         d # NoNode => ~w.node[d].dir, NEW n, n = OrNew(w, d),
         NEW a, a = getOrCreateNode(w, h, d, time), a.err = NoError
  PROVE  Sound(a) /\ n \in DOMAIN a.node /\ ~a.node[n].dir
<1>1. Calm(w) /\ Good(w) /\ Apart(w.node) /\ w.err = NoError /\ NoNode \notin DOMAIN w.node
  BY GoodParents DEF Sound, Clear, Calm
<1>2. CASE d # NoNode
  <2>1. d \in DOMAIN w.node
    BY <1>1, <1>2, NotFound
  <2> QED BY <1>2, <2>1 DEF getOrCreateNode, OrNew
<1>3. CASE d = NoNode
  <2>1. a = createNode(w, h, handleName[h], time) /\ handleName[h] \in Name /\ n = NewNode(w)
    BY <1>3, TreeAssumption DEF getOrCreateNode, OrNew
  <2>2. Calm(a) /\ n \in DOMAIN a.node
    BY <1>1, <2>1, CreateNodeCalm
  <2>3. Dry(w, a) /\ DOMAIN w.node \subseteq DOMAIN a.node /\ ~a.node[n].created
    BY <1>1, <2>1, CreateNodeDry
  <2>4. PICK r, b : r = NoNode /\ b = FALSE
    OBVIOUS
  <2>5. Added(w, a, n, h, handleName[h], r, b)
    BY <1>1, <2>1, <2>4, CreateNodeEffect
  <2>6. Apart(a.node)
    <3>1. \A m \in DOMAIN w.node : w.node[m].fh # h
      BY <1>1, <1>3, NotFound
    <3> QED BY <1>1, <2>4, <2>5, <3>1, RootAddedApart
  <2>7. SameDisk(w, a) /\ \A m \in DOMAIN w.node : a.node[m].created <=> w.node[m].created
    BY <2>3 DEF Dry
  <2>8. Sound(a)
    BY <2>2, <2>3, <2>4, <2>5, <2>6, <2>7, AddSound
  <2> QED BY <2>2, <2>4, <2>5, <2>8 DEF Added
<1> QED BY <1>2, <1>3

\* WRITE.
LEMMA WriteFileSound ==
  ASSUME NEW w, Sound(w), NEW req, NEW res, res.time \in Int,
         req.offset \in Nat, req.count \in Nat,
         NEW d \in getNode(w, req.fh), d # NoNode => ~w.node[d].dir,
         NEW v, v = writeFile(w, req, res, d), v.err = NoError
  PROVE  Sound(v)
<1> DEFINE n == OrNew(w, d)
           a == getOrCreateNode(w, req.fh, d, res.time)
           b == Touch(a, n, res.time)
           c == MakeParent(b, n)
           u == Then(b, c)
           e == calcPath(u, n)
           t == Then(u, e)
           f == WriteTo(t, n, req)
<1>1. CASE v = w
  BY <1>1
<1>2. CASE req.fh \in Handle /\ v = Then(t, f)
  <2>1. a.err = NoError
    <3>1. SUFFICES ASSUME a.err # NoError PROVE FALSE
      OBVIOUS
    <3> HIDE DEF a, n
    <3>2. b = a
      BY <3>1 DEF Touch, Then
    <3>3. u = a
      BY <3>1, <3>2 DEF Then
    <3>4. t = a
      BY <3>1, <3>3 DEF Then
    <3> QED BY <1>2, <3>1, <3>4 DEF Then
  <2>2. Sound(a) /\ n \in DOMAIN a.node /\ ~a.node[n].dir
    BY <1>2, <2>1, FileNodeSound
  <2> HIDE DEF n, a
  <2>3. Sound(b) /\ DOMAIN b.node = DOMAIN a.node /\ Smooth(a, b)
    BY <2>2, TouchSound
  <2>4. ~b.node[n].dir
    BY <2>2, <2>3, SmoothKeeps, SoundRefl
  <2> HIDE DEF b
  <2>5. Sound(c) /\ Smooth(b, c) /\ DOMAIN c.node = DOMAIN b.node /\ Housed(c, n)
    BY <2>2, <2>3, MakeParentSound
  <2>6. ~c.node[n].dir
    BY <2>2, <2>3, <2>4, <2>5, SmoothKeeps, SoundRefl
  <2> HIDE DEF c
  <2>7. u = c
    BY <2>3, SoundRefl DEF Then
  <2> HIDE DEF u
  <2>8. e = u
    BY <2>2, <2>3, <2>5, <2>7, SoundRefl
  <2>9. t = c
    BY <2>7, <2>8 DEF Then
  <2> HIDE DEF t
  <2>10. v = f
    BY <1>2, <2>5, <2>9, SoundRefl DEF Then
  <2> QED BY <2>2, <2>3, <2>5, <2>6, <2>9, <2>10, WriteToSound
<1> QED BY <1>1, <1>2 DEF writeFile

-----------------------------------------------------------------------------
(* RENAME.                                                                 *)

\* b is gone, if there was one, and a is created where b was.
Yielded(r, t, a, b) ==
  /\ SameDisk(r, t) /\ DOMAIN t.node = DOMAIN r.node \ {b}
  /\ \A m \in DOMAIN t.node : /\ Stays(r, t, m)
                              /\ m # a => (t.node[m].created <=> r.node[m].created)
  /\ t.node[a].created <=> r.node[a].created \/ (b # NoNode /\ r.node[b].created)

\* The mark that it is comes first.
LEMMA CreatedInstead ==
  ASSUME NEW r, Clear(r), NEW a \in DOMAIN r.node, NEW c,
         NEW u, u = IF c THEN SetCreated(r, a) ELSE r
  PROVE  /\ Smooth(r, u) /\ SameDisk(r, u) /\ Clear(u) /\ DOMAIN u.node = DOMAIN r.node
         /\ \A m \in DOMAIN r.node : m # a => (u.node[m].created <=> r.node[m].created)
         /\ u.node[a].created <=> r.node[a].created \/ c
<1>1. Calm(r) /\ Good(r) /\ r.err = NoError
  BY DEF Clear, Calm
<1>2. CASE c
  <2>1. u = [r EXCEPT !.node[a].created = TRUE] /\ Smooth(r, u)
    BY <1>1, <1>2, SetCreatedSmooth DEF SetCreated, Then
  <2>2. SameDisk(r, u)
    BY <1>1, <2>1 DEF SameDisk, Good
  <2>3. /\ \A m \in DOMAIN r.node : m # a => (u.node[m].created <=> r.node[m].created)
        /\ u.node[a].created
    BY <1>1, <2>1 DEF Good, Heap, NodeType
  <2>4. Clear(u) /\ DOMAIN u.node = DOMAIN r.node
    BY <2>1, SmoothPaths
  <2> QED BY <1>2, <2>1, <2>2, <2>3, <2>4
<1>3. CASE ~c
  BY <1>1, <1>3, SmoothRefl DEF SameDisk
<1> QED BY <1>2, <1>3

\* Over another node.
LEMMA OverwrittenYields ==
  ASSUME NEW r, Clear(r), NEW p, NEW a, NEW q, NEW b, NEW x, Overwrites(r, p, a, q, b, x),
         NEW t, t = Overwritten(r, a, q, b)
  PROVE  Yielded(r, t, a, b) /\ Clear(t) /\ Vacated(t, p, a, q, x)
<1> DEFINE c == r.node[b].created
           u == IF c THEN SetCreated(r, a) ELSE r
           e == deleteChild(u, q, b)
<1>1. /\ Good(r) /\ Calm(r) /\ r.err = NoError /\ NoNode \notin DOMAIN r.node
      /\ {p, a, q, b} \subseteq DOMAIN r.node /\ a # b /\ r.node[b].parent = q
  BY GoodParents DEF Clear, Calm, Overwrites
<1>2. /\ Smooth(r, u) /\ SameDisk(r, u) /\ Clear(u) /\ DOMAIN u.node = DOMAIN r.node
      /\ \A m \in DOMAIN r.node : m # a => (u.node[m].created <=> r.node[m].created)
      /\ u.node[a].created <=> r.node[a].created \/ c
  BY <1>1, CreatedInstead
<1>3. t = removeNode(e, b)
  BY <1>1 DEF Overwritten
<1> HIDE DEF u
<1>4. Overwrites(u, p, a, q, b, x)
  <2>1. \A n \in DOMAIN r.node : /\ u.node[n].fh = r.node[n].fh
                                  /\ u.node[n].parent = r.node[n].parent
                                  /\ u.node[n].kids = r.node[n].kids
    BY <1>1, <1>2, SmoothKeeps
  <2>2. isDeletable(u, b)
    BY <1>1, <2>1 DEF isDeletable, Kids, Overwrites
  <2>3. NotBelow(u, u.node[q].fh, u.node[a].fh)
    BY <1>1, <1>2, <2>1, SmoothKeeps DEF Overwrites
  <2> QED BY <1>1, <1>2, <2>1, <2>2, <2>3 DEF Overwrites, Clear
<1>5. Vacated(t, p, a, q, x) /\ Calm(t)
  <2>1. Vacated(t, p, a, q, x)
    BY <1>3, <1>4, TargetGone
  <2> QED BY <2>1 DEF Vacated
<1>6. /\ Calm(u) /\ Good(u) /\ u.err = NoError /\ u.node[b].parent = q /\ isDeletable(u, b)
      /\ q \in DOMAIN u.node /\ b \in DOMAIN u.node
  BY <1>1, <1>2, <1>4 DEF Clear, Calm, Overwrites
<1>7. Calm(e) /\ e.err = NoError /\ DOMAIN e.node = DOMAIN u.node /\ Good(e)
  <2>1. Calm(e) /\ e.err = NoError /\ DOMAIN e.node = DOMAIN u.node
    BY <1>6, DeleteChildCalm
  <2> QED BY <2>1 DEF Calm
<1>8. Dry(u, e)
  BY <1>6, DeleteChildDry
<1>9. t.err = NoError
  <2> HIDE DEF e
  <2> QED BY <1>3, <1>7 DEF removeNode, Then, Good
<1>10. Freed(u, t, b)
  BY <1>3, <1>5, <1>6, <1>9, TargetFreedEffect DEF Calm
<1>11. Dry(e, t)
  <2> HIDE DEF e
  <2> QED BY <1>3, <1>7, RemoveNodeDry
<1> HIDE DEF e
<1>12. Dry(u, t)
  BY <1>7, <1>8, <1>11, DryTrans
<1>13. DOMAIN t.node = DOMAIN r.node \ {b}
  BY <1>2, <1>10 DEF Freed
<1>14. \A m \in DOMAIN t.node : Stays(r, t, m)
  BY <1>1, <1>2, <1>10, <1>13, SmoothKeeps DEF Freed, Stays
<1>15. \A m \in DOMAIN t.node : t.node[m].created <=> u.node[m].created
  BY <1>2, <1>12, <1>13 DEF Dry
<1>16. SameDisk(r, t)
  BY <1>2, <1>12 DEF Dry, SameDisk
<1>17. Yielded(r, t, a, b)
  BY <1>1, <1>2, <1>13, <1>14, <1>15, <1>16 DEF Yielded
<1> QED BY <1>5, <1>9, <1>17 DEF Clear

\* The place of a may be taken by what is below p.
LEMMA MoveOverSound ==
  ASSUME NEW w, Sound(w), NEW p, NEW a, NEW q, NEW x, NEW b, Vacant(w, a, q, x, b),
         w.node[a].parent = p, p # NoNode, NEW z, z = MoveOver(w, p, a, q, b, x)
  PROVE  Sound(z)
<1> DEFINE o == RenameOnDisk(w, a, q, x)
           c == Overwritten(o, a, q, b)
           s == addChild(setName(removeChild(c, p, a), a, x), q, a)
<1>1. Calm(w) /\ Good(w) /\ Parents(w)
  BY GoodParents DEF Sound, Clear, Calm
<1>2. PICK u : /\ Sound(u) /\ Vacant(u, a, q, x, b) /\ Followed(u, o, a, q, x)
               /\ o.node = u.node /\ o.io = u.io /\ Smooth(w, o) /\ Smooth(u, o)
  BY RenameOnDiskFollowed
<1>3. z = clearEmptyDir(s, p)
  BY DEF MoveOver
<1> HIDE DEF o
<1>4. Clear(o) /\ Good(o) /\ NoNode \notin DOMAIN o.node /\ DOMAIN o.node = DOMAIN w.node
  <2>1. Clear(o) /\ DOMAIN o.node = DOMAIN w.node
    BY <1>2, SmoothPaths DEF Sound
  <2> QED BY <2>1, GoodParents DEF Clear, Calm
<1>5. /\ a \in DOMAIN o.node /\ q \in DOMAIN o.node /\ x \in Name /\ b = o.node[q].kids[x] /\ b # a
      /\ b # NoNode => isDeletable(o, b) /\ o.node[b].dir = o.node[a].dir
      /\ NotBelow(o, o.node[q].fh, o.node[a].fh)
  <2>1. /\ a \in DOMAIN u.node /\ q \in DOMAIN u.node /\ x \in Name /\ b = u.node[q].kids[x] /\ b # a
        /\ b # NoNode => isDeletable(u, b) /\ u.node[b].dir = u.node[a].dir
        /\ NotBelow(u, u.node[q].fh, u.node[a].fh)
    BY <1>2 DEF Vacant
  <2>2. isDeletable(u, b) => isDeletable(o, b)
    BY <1>2 DEF isDeletable, Kids
  <2>3. \A g, h : NotBelow(u, g, h) => NotBelow(o, g, h)
    BY <1>2, SmoothKeeps, SoundRefl
  <2> QED BY <1>2, <2>1, <2>2, <2>3
<1>6. o.node[a].parent = p /\ p \in DOMAIN o.node
  <2>1. a \in DOMAIN w.node
    BY <1>4, <1>5
  <2> QED BY <1>1, <1>2, <1>4, <2>1, SmoothKeeps DEF Parents
<1>7. Yielded(o, c, a, b) /\ Clear(c) /\ Vacated(c, p, a, q, x)
  <2>1. CASE b = NoNode
    <3>1. c = o
      BY <2>1 DEF Overwritten
    <3>2. Yielded(o, o, a, b)
      BY <1>4, <2>1 DEF Yielded, SameDisk, Stays
    <3>3. Vacated(o, p, a, q, x)
      BY <1>4, <1>5, <1>6, <2>1 DEF Vacated, Clear
    <3> QED BY <1>4, <3>1, <3>2, <3>3
  <2>2. CASE b # NoNode
    <3>1. b \in DOMAIN o.node /\ o.node[b].parent = q
      <4>1. q \in DOMAIN o.node /\ x \in Name /\ b = o.node[q].kids[x] /\ Good(o)
        BY <1>4, <1>5
      <4> QED BY <2>2, <4>1, ChildAllocated
    <3>2. Overwrites(o, p, a, q, b, x)
      BY <1>4, <1>5, <1>6, <2>2, <3>1 DEF Overwrites, Clear
    <3> QED BY <1>4, <3>2, OverwrittenYields
  <2> QED BY <2>1, <2>2
<1> HIDE DEF c
<1>8. /\ Calm(c) /\ Good(c) /\ c.err = NoError /\ {a, p, q} \subseteq DOMAIN c.node /\ c.node[a].parent = p
      /\ c.node[q].kids[x] = NoNode /\ NotBelow(c, c.node[q].fh, c.node[a].fh)
  BY <1>7 DEF Vacated, Clear, Calm
<1>9. s = addChild(setName(Detached(c, a), a, x), q, a)
  BY <1>8 DEF Detached
<1> HIDE DEF s
<1>10. Calm(s) /\ s.err = NoError /\ DOMAIN s.node = DOMAIN c.node
  BY <1>5, <1>8, <1>9, ReplacedCalm
<1>11. Moved(c, s, a, q, x)
  BY <1>5, <1>8, <1>9, <1>10, ReplacedEffect
<1>12. Dry(c, s)
  BY <1>5, <1>8, <1>9, ReplacedDry
<1>13. /\ \A m \in DOMAIN s.node : m # a => Stays(c, s, m)
       /\ s.node[a].fh = c.node[a].fh /\ s.node[a].dir = c.node[a].dir
       /\ s.node[a].parent = q /\ s.node[a].name = x
  BY <1>10, <1>11 DEF Moved, OnlyOf
<1>14. \A m \in DOMAIN s.node : s.node[m].created <=> c.node[m].created
  BY <1>10, <1>12 DEF Dry
<1>15. DOMAIN s.node = DOMAIN u.node \ {b}
  BY <1>2, <1>7, <1>10 DEF Yielded
<1>16. \A m \in DOMAIN s.node : /\ m # a => Stays(u, s, m)
                                /\ m # a => (s.node[m].created <=> u.node[m].created)
                                /\ s.node[m].dir = u.node[m].dir
  BY <1>2, <1>7, <1>10, <1>13, <1>14 DEF Yielded, Stays
<1>17. s.node[a].created <=> u.node[a].created \/ (b # NoNode /\ u.node[b].created)
  BY <1>2, <1>7, <1>8, <1>10, <1>14 DEF Yielded
<1>18. Placed(u, s, a, q, x, b)
  BY <1>13, <1>15, <1>16, <1>17 DEF Placed
<1>19. Followed(u, s, a, q, x) /\ s.io = u.io
  <2>1. s.disk = o.disk /\ s.io = u.io
    BY <1>2, <1>7, <1>12 DEF Yielded, Dry, SameDisk
  <2> QED BY <1>2, <2>1 DEF Followed
<1>20. Apart(s.node)
  <2>1. Apart(u.node) /\ q # NoNode
    BY <1>2, <1>4, <1>5 DEF Sound
  <2>2. s.node[a].fh = u.node[a].fh
    BY <1>2, <1>7, <1>8, <1>13 DEF Yielded, Stays
  <2>3. a # q
    BY <1>11 DEF Moved
  <2> QED BY <1>13, <1>15, <1>16, <2>1, <2>2, <2>3 DEF Apart, Stays
<1>21. Sound(s)
  BY <1>2, <1>10, <1>18, <1>19, <1>20, PlacedSound
<1>22. p \in DOMAIN s.node
  BY <1>8, <1>10
<1> QED BY <1>3, <1>21, <1>22, ClearSound

\* renameFile, once both directories are found.
LEMMA RenameInSound ==
  ASSUME NEW w, Sound(w), NEW p, p # NoNode, NEW a \in DOMAIN w.node,
         w.node[a].parent = p, NEW q \in DOMAIN w.node, w.node[q].dir, NEW req, req.name2 \in Name,
         NotBelow(w, w.node[q].fh, w.node[a].fh),
         NEW c, c = w.node[q].kids[req.name2], c # NoNode => w.node[c].dir = w.node[a].dir,
         NEW z, z = RenameIn(w, p, a, q, req)
  PROVE  Sound(z)
<1>1. CASE z = w
  BY <1>1
<1>2. CASE (c = NoNode \/ isDeletable(w, c)) /\ a # c /\ z = MoveOver(w, p, a, q, c, req.name2)
  <2>1. Vacant(w, a, q, req.name2, c)
    BY <1>2 DEF Vacant
  <2> QED BY <1>2, <2>1, MoveOverSound
<1> QED BY <1>1, <1>2 DEF RenameIn

\* A target has the kind of the source.
SameKind(K, E, req) ==
  LET from == <<req.fh, req.name>>
      to   == <<req.fh2, req.name2>>
  IN  to \in DOMAIN E => (K[E[from]] = "DIR") = (K[E[to]] = "DIR")

\* RENAME.
LEMMA RenameFileSound ==
  ASSUME NEW w, Sound(w), NEW req, NEW res, res.time \in Int,
         NEW d \in getNode(w, req.fh), NEW f \in getNode(w, req.fh2),
         NEW K, Typed(w, K), IsKind(K, req.fh2, "DIR"),
         NEW E, Mirrors(w, E), Outside(E, req.fh2, E[<<req.fh, req.name>>]), SameKind(K, E, req),
         NEW z, z = renameFile(w, req, res, d, f), z.err = NoError
  PROVE  Sound(z)
<1> DEFINE a  == w.node[d].kids[req.name]
           q  == OrNew(w, f)
           t1 == Touch(w, d, res.time)
           t2 == Touch(t1, a, res.time)
           v  == VisitDir(t2, req.fh2, f, res.time)
           r  == RenameIn(v, d, a, q, req)
<1>1. CASE z = w
  BY <1>1
<1>2. CASE /\ req.fh2 \in Handle /\ req.name \in Name /\ req.name2 \in Name
           /\ d # NoNode /\ a # NoNode /\ z = Then(v, r)
  <2>1. /\ req.fh2 \in Handle /\ req.name \in Name /\ req.name2 \in Name /\ Good(w) /\ Calm(w)
        /\ d \in DOMAIN w.node /\ w.node[d].fh = req.fh /\ a # NoNode /\ NoNode \notin DOMAIN w.node
    <3>1. Good(w) /\ Calm(w) /\ NoNode \notin DOMAIN w.node
      BY SoundRefl, GoodParents
    <3>2. d # NoNode
      BY <1>2
    <3>3. d \in DOMAIN w.node /\ w.node[d].fh = req.fh
      BY <3>1, <3>2, NotFound
    <3> HIDE DEF v, r
    <3> QED BY <1>2, <3>1, <3>3
  <2>2. /\ a \in DOMAIN w.node /\ w.node[a].parent = d
        /\ Has(E, req.fh, req.name, w.node[a].fh)
    <3>1. Has(E, req.fh, req.name, w.node[a].fh) /\ a \in DOMAIN w.node
      BY <2>1, KnownEntry
    <3>2. w.node[a].parent = d
      BY <2>1, ChildAllocated
    <3> HIDE DEF a
    <3> QED BY <3>1, <3>2 DEF Has
  <2> HIDE DEF a
  <2>3. Sound(t1) /\ Smooth(w, t1) /\ DOMAIN t1.node = DOMAIN w.node
    BY <2>1, TouchSound
  <2> HIDE DEF t1
  <2>4. Sound(t2) /\ Smooth(t1, t2) /\ DOMAIN t2.node = DOMAIN w.node
    BY <2>2, <2>3, TouchSound
  <2>5. Smooth(w, t2) /\ Calm(t2)
    BY <2>1, <2>3, <2>4, SmoothTrans, SmoothCalm
  <2> HIDE DEF t2, q
  <2>7. Quiet(w, t2) /\ Good(t2) /\ f \in getNode(t2, req.fh2)
    <3>1. Quiet(w, t2)
      BY <2>1, <2>5, SmoothQuiet
    <3>2. getNode(t2, req.fh2) = getNode(w, req.fh2)
      BY <2>1, <2>5, SmoothFound
    <3> QED BY <2>5, <3>1, <3>2 DEF Calm
  <2>8. Typed(t2, K) /\ Mirrors(t2, E)
    BY <2>7, QuietTyped, QuietMirrors
  <2>9. f \in DOMAIN t2.node \cup {NoNode} /\ (f # NoNode => t2.node[f].dir)
    BY <2>7, <2>8, FoundDir
  <2>10. q = OrNew(t2, f)
    BY <2>4 DEF OrNew, NewNode, q
  <2>11. v.err = NoError /\ z = r
    BY <1>2 DEF Then
  <2>12. Sound(v) /\ q \in DOMAIN v.node /\ v.node[q].dir
    BY <2>1, <2>4, <2>7, <2>9, <2>10, <2>11, VisitDirSound
  <2>13. Visited(t2, v, req.fh2, f)
    BY <2>1, <2>7, <2>9, <2>11, VisitDirEffect
  <2> HIDE DEF v
  <2>14. v.node[q].fh = req.fh2 /\ a \in DOMAIN v.node /\ Stays(t2, v, a)
    BY <2>1, <2>2, <2>4, <2>7, <2>10, <2>12, <2>13, VisitedHandle
  <2>15. v.node[a].parent = d /\ v.node[a].fh = w.node[a].fh
    BY <2>2, <2>7, <2>14 DEF Stays, Quiet
  <2>16. Mirrors(v, E) /\ Typed(v, K)
    BY <2>7, <2>8, <2>13, VisitedMirrors, VisitedTyped
  <2>17. NotBelow(v, v.node[q].fh, v.node[a].fh)
    <3>1. Outside(E, req.fh2, w.node[a].fh)
      BY <2>2 DEF Has
    <3> QED BY <2>14, <2>15, <2>16, <3>1, MirrorsNotBelow
  <2>18. PICK c : c = v.node[q].kids[req.name2]
    OBVIOUS
  <2>19. ASSUME c # NoNode PROVE v.node[c].dir = v.node[a].dir
    <3>1. c \in DOMAIN v.node /\ Has(E, v.node[q].fh, req.name2, v.node[c].fh)
      BY <2>1, <2>12, <2>16, <2>18, <2>19, KnownEntry, SoundRefl
    <3>2. v.node[c].dir = (K[v.node[c].fh] = "DIR") /\ v.node[a].dir = (K[v.node[a].fh] = "DIR")
      BY <2>14, <2>16, <3>1 DEF Typed, KindsOf
    <3> QED BY <2>2, <2>14, <2>15, <3>1, <3>2 DEF SameKind, Has
  <2> QED BY <2>1, <2>11, <2>12, <2>14, <2>15, <2>17, <2>18, <2>19, RenameInSound
<1> HIDE DEF a, q, t1, t2, v, r
<1> QED BY <1>1, <1>2 DEF renameFile, a, q, t1, t2, v, r

-----------------------------------------------------------------------------
(* LINK and SYMLINK.                                                       *)

\* A node gets an entry, in a directory that is created.
LEMMA EntryMadeSound ==
  ASSUME NEW u, Sound(u), NEW n \in DOMAIN u.node, ~u.node[n].dir, Housed(u, n),
         NEW q, q = PathOf(u, n), q \notin DOMAIN u.disk.entry, NEW k, k.kind # "dir",
         NEW d, d = [u.disk EXCEPT !.entry = With(u.disk.entry, q, k)],
         NEW v, v = [SetCreated(u, n) EXCEPT !.disk = d]
  PROVE  Sound(v)
<1> DEFINE a == SetCreated(u, n)
           N == DOMAIN u.node
<1>1. Calm(u) /\ Good(u) /\ u.err = NoError /\ Fits(u, N)
  BY DEF Sound, Clear, Calm
<1>2. Smooth(u, a) /\ Calm(a)
  BY <1>1, SetCreatedSmooth, SmoothCalm
<1>3. a = [u EXCEPT !.node[n].created = TRUE]
  BY <1>1 DEF SetCreated, Then
<1> HIDE DEF a
<1>4. Smooth(u, v)
  <2>1. Smooth(a, v)
    BY <1>2, DiskSmooth DEF a
  <2> QED BY <1>1, <1>2, <2>1, SmoothTrans
<1>5. v.io = u.io /\ v.disk = d /\ v.node = a.node
  BY <1>1, <1>2, <1>3 DEF Calm, Good, a
<1>6. \A m \in N : v.node[m].created <=> u.node[m].created \/ m \in {n}
  BY <1>1, <1>3, <1>5 DEF Good, Heap, NodeType
<1>7. DOMAIN d = {"entry", "size"} /\ d.entry = With(u.disk.entry, q, k)
  BY <1>1 DEF Fits
<1>8. /\ DOMAIN d.entry = DOMAIN u.disk.entry \cup {q} /\ d.entry[q] = k
      /\ \A z \in DOMAIN u.disk.entry : d.entry[z] = u.disk.entry[z]
  BY <1>7 DEF With
<1>9. {PathOf(u, m) : m \in {n}} = {q}
  OBVIOUS
<1>10. Grown(u, v, N, {n})
  BY <1>5, <1>6, <1>7, <1>8, <1>9 DEF Grown, Housed
<1> QED BY <1>4, <1>5, <1>10, GrownSound

\* The entry of a new node.
LEMMA NewPlace ==
  ASSUME NEW w, Sound(w), NEW p \in DOMAIN w.node, NEW v, Sound(v),
         NEW n, NEW h, NEW x, NEW b, Added(w, v, n, h, x, p, b),
         \A m \in DOMAIN w.node : PathOf(v, m) = PathOf(w, m), ~v.node[n].created
  PROVE  PathOf(v, n) = Append(PathOf(w, p), x) /\ PathOf(v, n) \notin DOMAIN v.disk.entry
<1>1. Good(v) /\ Layered(v.node) /\ NoNode \notin DOMAIN w.node
  BY GoodParents DEF Sound, Clear, Calm
<1>2. n \in DOMAIN v.node /\ v.node[n].parent = p /\ v.node[n].name = x
  BY DEF Added
<1>3. PathOf(v, n) = Append(PathOf(v, p), x)
  BY <1>1, <1>2, PathStep
<1>4. PathOf(v, n) \notin DOMAIN v.disk.entry
  BY <1>2, SoundNodes
<1> QED BY <1>3, <1>4

\* SetCreated leaves the disk alone.
LEMMA CreatedDisk ==
  ASSUME NEW u, Sound(u), NEW n
  PROVE  SetCreated(u, n).disk = u.disk
BY SoundRefl DEF Good, SetCreated, Then

\* link(2), in a directory that was found.
LEMMA LinkInSound ==
  ASSUME NEW w, Sound(w), NEW p \in DOMAIN w.node, w.node[p].dir, NEW s \in DOMAIN w.node,
         NEW x \in Name, NEW time \in Int,
         w.node[p].kids[x] = NoNode, NotBelow(w, w.node[p].fh, w.node[s].fh),
         NEW z, z = LinkIn(w, p, s, x, time), z.err = NoError
  PROVE  Sound(z)
<1> DEFINE b == makePath(w, p)
           v == IF w.node[s].created THEN b ELSE w
           n == NewNode(w)
           h == w.node[s].fh
           f == FALSE
           u == AddNew(v, p, h, x, time, f)
           from == PathOf(w, s)
           to == Append(PathOf(w, p), x)
<1>1. calcPath(w, s) = w /\ Calm(w) /\ Good(w)
  BY SoundRefl
<1>2. /\ Sound(v) /\ Smooth(w, v) /\ DOMAIN v.node = DOMAIN w.node
      /\ w.node[s].created => v.node[p].created /\ v.node[s].created
  <2>1. Sound(b) /\ Smooth(w, b) /\ DOMAIN b.node = DOMAIN w.node /\ b.node[p].created
        /\ (w.node[s].created => b.node[s].created)
    BY MakeSound
  <2>2. Smooth(w, w)
    BY SoundRefl
  <2> HIDE DEF b
  <2> QED BY <2>1, <2>2
<1>3. z = LinkOnDisk(u, s, n, from, to)
  BY <1>1 DEF LinkIn
<1> HIDE DEF v
<1>4. v.node[p].kids[x] = NoNode /\ NotBelow(v, v.node[p].fh, h) /\ v.node[p].dir
  BY <1>1, <1>2, SmoothKeeps
<1>5. h \in Handle /\ f \in BOOLEAN /\ f = FALSE
  BY <1>1 DEF Good, Heap, NodeType
<1>6. n = NewNode(v)
  BY <1>2 DEF NewNode
<1> HIDE DEF h, f, n
<1>7. u.err = NoError
  BY <1>3 DEF LinkOnDisk
<1>8. /\ Sound(u) /\ Added(v, u, n, h, x, p, f) /\ Dry(v, u) /\ ~u.node[n].created
      /\ n \in DOMAIN u.node /\ n \notin DOMAIN v.node /\ DOMAIN v.node \subseteq DOMAIN u.node
      /\ \A m \in DOMAIN v.node : PathOf(u, m) = PathOf(v, m)
  BY <1>2, <1>4, <1>5, <1>6, <1>7, AddNewSound
<1> HIDE DEF u
<1>9. PathOf(u, n) = to /\ to \notin DOMAIN u.disk.entry
  <2>1. PathOf(v, p) = PathOf(w, p) /\ p \in DOMAIN v.node
    BY <1>1, <1>2, SmoothPaths DEF Sound
  <2>2. PathOf(u, n) = Append(PathOf(v, p), x) /\ PathOf(u, n) \notin DOMAIN u.disk.entry
    BY <1>2, <1>8, <2>1, NewPlace
  <2> QED BY <2>1, <2>2
<1>12. SetCreated(u, n).disk = u.disk
  BY <1>8, CreatedDisk
<1>10. CASE z = u
  BY <1>8, <1>10
<1>11. CASE /\ u.node[s].created /\ CanLink(u.disk, from, to)
            /\ z = [SetCreated(u, n) EXCEPT !.disk = Linked(u.disk, from, to)]
  <2> DEFINE k == u.disk.entry[from]
             d == Linked(u.disk, from, to)
  <2>1. k.kind # "dir"
    BY <1>11 DEF CanLink, IsDir, Exists
  <2>2. d = [u.disk EXCEPT !.entry = With(u.disk.entry, to, k)]
    BY DEF Linked
  <2> HIDE DEF k, d, from, to
  <2>3. ~u.node[n].dir /\ u.node[n].parent = p
    BY <1>5, <1>8 DEF Added
  <2>4. u.node[p].created
    <3>1. w.node[s].created
      <4>1. u.node[s].created <=> v.node[s].created
        BY <1>2, <1>8 DEF Dry
      <4>2. CASE ~w.node[s].created
        BY <1>11, <4>1, <4>2 DEF v
      <4> QED BY <4>2
    <3> QED BY <1>2, <1>8, <3>1 DEF Dry
  <2>5. Housed(u, n)
    BY <2>3, <2>4 DEF Housed
  <2>6. z = [SetCreated(u, n) EXCEPT !.disk = d]
    BY <1>11 DEF d
  <2> QED BY <1>8, <1>9, <2>1, <2>2, <2>3, <2>5, <2>6, EntryMadeSound
<1> QED BY <1>3, <1>7, <1>9, <1>10, <1>11, <1>12 DEF LinkOnDisk, Exists

\* symlink(2), in a directory that was found.
LEMMA SymlinkInSound ==
  ASSUME NEW w, Sound(w), NEW p \in DOMAIN w.node, w.node[p].dir, NEW h \in Handle,
         NEW x \in Name, NEW time \in Int,
         w.node[p].kids[x] = NoNode, NotBelow(w, w.node[p].fh, h),
         NEW z, z = SymlinkIn(w, p, h, x, time), z.err = NoError
  PROVE  Sound(z)
<1> DEFINE n == NewNode(w)
           f == FALSE
           u == AddNew(w, p, h, x, time, f)
           to == Append(PathOf(w, p), x)
<1>1. z = SymlinkOnDisk(u, p, n, to) /\ f \in BOOLEAN /\ f = FALSE /\ n = NewNode(w)
  BY DEF SymlinkIn
<1> HIDE DEF f, n
<1>2. u.err = NoError
  <2> HIDE DEF u
  <2> QED BY <1>1 DEF SymlinkOnDisk
<1>3. /\ Sound(u) /\ Added(w, u, n, h, x, p, f) /\ Dry(w, u) /\ ~u.node[n].created
      /\ n \in DOMAIN u.node /\ n \notin DOMAIN w.node /\ DOMAIN w.node \subseteq DOMAIN u.node
      /\ \A m \in DOMAIN w.node : PathOf(u, m) = PathOf(w, m)
  BY <1>1, <1>2, AddNewSound
<1> HIDE DEF u
<1>4. PathOf(u, n) = to /\ to \notin DOMAIN u.disk.entry
  <2>1. PathOf(u, n) = Append(PathOf(w, p), x) /\ PathOf(u, n) \notin DOMAIN u.disk.entry
    BY <1>3, NewPlace
  <2> QED BY <2>1
<1> HIDE DEF to
<1>5. calcPath(u, p) = u
  BY <1>3, SoundRefl
<1>8. SetCreated(u, n).disk = u.disk
  BY <1>3, CreatedDisk
<1>6. CASE z = u
  BY <1>3, <1>6
<1>7. CASE u.node[p].created /\ z = [SetCreated(u, n) EXCEPT !.disk = Symlinked(u.disk, to)]
  <2>1. PICK k, d : /\ k.kind # "dir" /\ d = Symlinked(u.disk, to)
                    /\ d = [u.disk EXCEPT !.entry = With(u.disk.entry, to, k)]
    <3> DEFINE k == [kind |-> "link", ino |-> 0]
    <3>1. k.kind # "dir" /\ Symlinked(u.disk, to) = [u.disk EXCEPT !.entry = With(u.disk.entry, to, k)]
      BY DEF Symlinked
    <3> HIDE DEF k
    <3> QED BY <3>1
  <2>2. ~u.node[n].dir /\ u.node[n].parent = p
    BY <1>1, <1>3 DEF Added
  <2>3. Housed(u, n)
    BY <1>7, <2>2 DEF Housed
  <2> QED BY <1>3, <1>4, <1>7, <2>1, <2>2, <2>3, EntryMadeSound
<1> QED BY <1>1, <1>2, <1>4, <1>5, <1>6, <1>7, <1>8 DEF SymlinkOnDisk, Then, Exists

\* SYMLINK.
LEMMA CreateSymlinkSound ==
  ASSUME NEW w, Sound(w), NEW req, NEW res, res.time \in Int,
         NEW d \in getNode(w, req.fh),
         NEW K, Typed(w, K), IsKind(K, req.fh, "DIR"),
         NEW E, Mirrors(w, E), NEW F, NewEntry(E, F, req.fh, req.name, res.fh),
         NEW z, z = createSymlink(w, req, res, d), z.err = NoError
  PROVE  Sound(z)
<1> DEFINE v == VisitDir(w, req.fh, d, res.time)
           p == OrNew(w, d)
           y == SymlinkIn(v, p, res.fh, req.name, res.time)
<1>1. d \in DOMAIN w.node \cup {NoNode} /\ (d # NoNode => w.node[d].dir) /\ Good(w)
  BY FoundDir, SoundRefl
<1>2. CASE z = w
  BY <1>2
<1>3. CASE /\ req.fh \in Handle /\ res.fh \in Handle /\ req.name \in Name
           /\ z = v \/ v.err = NoError
           /\ v.node[p].kids[req.name] = NoNode /\ v.err = NoError => z = v \/ z = y
  <2>1. v.err = NoError
    BY <1>3
  <2>2. Sound(v) /\ p \in DOMAIN v.node /\ v.node[p].dir
    BY <1>1, <1>3, <2>1, VisitDirSound
  <2>3. Visited(w, v, req.fh, d)
    BY <1>1, <1>3, <2>1, VisitDirEffect
  <2> HIDE DEF v
  <2>4. v.node[p].fh = req.fh
    BY <1>1, <2>2, <2>3, VisitedHandle
  <2>5. Mirrors(v, E) /\ Good(v)
    BY <2>2, <2>3, VisitedMirrors, SoundRefl
  <2> HIDE DEF p
  <2>6. v.node[p].kids[req.name] = NoNode /\ NotBelow(v, req.fh, res.fh)
    BY <1>3, <2>2, <2>4, <2>5, NewEntryFree
  <2>7. CASE z = y
    BY <1>3, <2>2, <2>4, <2>6, <2>7, SymlinkInSound
  <2> QED BY <1>3, <2>1, <2>2, <2>6, <2>7
<1> HIDE DEF v, p, y
<1> QED BY <1>2, <1>3 DEF createSymlink, Then, v, p, y

\* LINK.
LEMMA CreateLinkSound ==
  ASSUME NEW w, Sound(w), NEW req, NEW res, res.time \in Int,
         NEW s \in getNode(w, req.fh), NEW f \in getNode(w, req.fh2),
         NEW K, Typed(w, K), IsKind(K, req.fh2, "DIR"),
         NEW E, Mirrors(w, E), NEW F, NewEntry(E, F, req.fh2, req.name, req.fh),
         NEW z, z = createLink(w, req, res, s, f), z.err = NoError
  PROVE  Sound(z)
<1> DEFINE a == Touch(w, s, res.time)
           v == VisitDir(a, req.fh2, f, res.time)
           p == OrNew(w, f)
           y == LinkIn(v, p, s, req.name, res.time)
<1>0. Good(w) /\ Calm(w) /\ NoNode \notin DOMAIN w.node
  BY GoodParents, SoundRefl
<1>1. CASE z = w
  BY <1>1
<1>2. CASE /\ req.fh2 \in Handle /\ req.name \in Name /\ s # NoNode
           /\ z = v \/ v.err = NoError
           /\ v.node[p].kids[req.name] = NoNode /\ v.err = NoError => z = v \/ z = y
  <2>1. s \in DOMAIN w.node /\ w.node[s].fh = req.fh
    BY <1>0, <1>2, NotFound
  <2>2. Sound(a) /\ Smooth(w, a) /\ DOMAIN a.node = DOMAIN w.node
    BY <2>1, TouchSound
  <2>3. v.err = NoError
    BY <1>2
  <2> HIDE DEF a
  <2>4. Quiet(w, a)
    BY <1>0, <2>2, SmoothQuiet
  <2>5. Good(a) /\ f \in getNode(a, req.fh2)
    <3>1. getNode(a, req.fh2) = getNode(w, req.fh2)
      BY <1>0, <2>2, SmoothFound
    <3> QED BY <2>2, <3>1, SoundRefl
  <2>6. Typed(a, K) /\ Mirrors(a, E)
    BY <2>4, QuietTyped, QuietMirrors
  <2>7. f \in DOMAIN a.node \cup {NoNode} /\ (f # NoNode => a.node[f].dir)
    BY <2>5, <2>6, FoundDir
  <2>8. p = OrNew(a, f)
    BY <2>2 DEF OrNew, NewNode
  <2> HIDE DEF p
  <2>9. req.fh2 \in Handle /\ req.name \in Name
    BY <1>2
  <2>10. Sound(v) /\ p \in DOMAIN v.node /\ v.node[p].dir
    BY <2>2, <2>3, <2>5, <2>7, <2>8, <2>9, VisitDirSound
  <2>11. Visited(a, v, req.fh2, f)
    BY <2>3, <2>5, <2>7, <2>9, VisitDirEffect
  <2> HIDE DEF v
  <2>12. v.node[p].fh = req.fh2 /\ s \in DOMAIN v.node /\ Stays(a, v, s)
    BY <2>1, <2>2, <2>5, <2>8, <2>10, <2>11, VisitedHandle
  <2>13. v.node[s].fh = req.fh
    BY <2>1, <2>4, <2>12 DEF Stays, Quiet
  <2>14. Mirrors(v, E) /\ Good(v)
    BY <2>6, <2>10, <2>11, VisitedMirrors, SoundRefl
  <2>15. v.node[p].kids[req.name] = NoNode /\ NotBelow(v, req.fh2, req.fh)
    BY <2>9, <2>10, <2>12, <2>14, NewEntryFree
  <2>16. CASE z = y
    BY <2>9, <2>10, <2>12, <2>13, <2>15, <2>16, LinkInSound
  <2> QED BY <1>2, <2>3, <2>10, <2>15, <2>16
<1> HIDE DEF a, v, p, y
<1> QED BY <1>1, <1>2 DEF createLink, Then, a, v, p, y

-----------------------------------------------------------------------------
(* Garbage collection.                                                     *)

\* What is collected is not created.
LEMMA GarbageStale ==
  ASSUME NEW w, NEW time, NEW n \in Garbage(w, time)
  PROVE  ~w.node[n].created
BY DEF Garbage, Stale

\* What is left is as it was.
LEMMA CollectedKeeps ==
  ASSUME NEW w, Good(w), NEW time, NEW v, v = Collected(w, time)
  PROVE  /\ DOMAIN v.node = DOMAIN w.node \ Garbage(w, time)
         /\ v.disk = w.disk /\ v.io = w.io
         /\ \A n \in DOMAIN v.node : v.node[n].created = w.node[n].created
<1> DEFINE G       == Garbage(w, time)
           kept(n) == [x \in Name |-> IF w.node[n].kids[x] \in G THEN NoNode ELSE w.node[n].kids[x]]
           new     == [n \in DOMAIN w.node \ G |-> [w.node[n] EXCEPT !.kids = kept(n)]]
<1>1. v.node = new /\ v.disk = w.disk /\ v.io = w.io
  BY DEF Collected, Good
<1>2. \A n \in DOMAIN w.node : w.node[n] \in NodeType
  BY DEF Good, Heap
<1>3. \A n \in DOMAIN w.node \ G : new[n].created = w.node[n].created
  <2> SUFFICES ASSUME NEW n \in DOMAIN w.node \ G, NEW k
               PROVE  [w.node[n] EXCEPT !.kids = k].created = w.node[n].created
    OBVIOUS
  <2> QED BY <1>2 DEF NodeType
<1>4. DOMAIN new = DOMAIN w.node \ G
  OBVIOUS
<1> HIDE DEF new
<1> QED BY <1>1, <1>3, <1>4

\* A collection leaves the disk alone.
LEMMA GcSound ==
  ASSUME NEW w, Sound(w), NEW time, NEW v \in gc(w, time)
  PROVE  Sound(v)
<1>1. Calm(w) /\ Good(w) /\ w.err = NoError /\ Layered(w.node) /\ Clear(w)
  BY DEF Sound, Clear, Calm
<1>2. v = Collected(w, time)
  BY <1>1, GcCollects
<1>3. Calm(v) /\ v.err = NoError
  BY <1>1, GcCalm
<1>4. Pruned(w, v) /\ Good(v) /\ Clear(v)
  BY <1>1, <1>3, GcEffect DEF Calm, Clear
<1>5. /\ DOMAIN v.node = DOMAIN w.node \ Garbage(w, time)
      /\ v.disk = w.disk /\ v.io = w.io
      /\ \A n \in DOMAIN v.node : v.node[n].created = w.node[n].created
  BY <1>1, <1>2, CollectedKeeps
<1>6. DOMAIN v.node \subseteq DOMAIN w.node
  BY <1>5
<1>7. SameNodes(w, v, DOMAIN v.node)
  <2>1. \A n \in DOMAIN v.node : v.node[n].parent \in DOMAIN v.node \cup {NoNode}
    BY <1>4, GoodParents DEF Parents
  <2>2. \A n \in DOMAIN v.node : Stays(w, v, n)
    BY <1>4 DEF Pruned
  <2> QED BY <1>5, <1>6, <2>1, <2>2 DEF SameNodes, SameLinks, Stays
<1>8. \A n \in DOMAIN w.node : n \notin DOMAIN v.node => ~w.node[n].created
  BY <1>5, GarbageStale
<1>9. Fits(w, DOMAIN w.node)
  BY DEF Sound
<1>10. Fits(v, DOMAIN v.node)
  BY <1>1, <1>4, <1>5, <1>6, <1>7, <1>8, <1>9, TrimFits
<1>11. Apart(v.node) /\ Obedient(v.io)
  BY <1>4, <1>5, PrunedApart DEF Sound
<1> QED BY <1>4, <1>10, <1>11 DEF Sound

-----------------------------------------------------------------------------
(* The disk of a replay that follows a complete trace.                     *)

\* Every frame leaves a tree that agrees with the disk, if it throws nothing.
LEMMA ServedSound ==
  ASSUME ServerOK, Acyclic(entry), NEW x \in Exchange, Server!Serve(x),
         NEW io, NEW w, w = World(io), Sound(w), Typed(w, kind), Mirrors(w, entry), Process(x, io)
  PROVE  \E v : Commit(v) /\ (v.err = NoError => Sound(v))
<1>1. /\ x.res.time \in Int /\ x.res.size \in Nat
      /\ x.req.offset \in Nat /\ x.req.count \in Nat
  BY EngineAssumption
<1>2. Keeps(kind, kind') /\ Truthful(kind', x)
  BY ServeOK DEF ServerStep
<1>3. Typed(w, kind') /\ Acyclic(entry')
  BY <1>2, KeepsTyped, ServeAcyclic
<1>4. \A h : \A n \in getNode(w, h) : n \in DOMAIN w.node \cup {NoNode}
  BY DEF getNode
<1>5. CASE ReplayLookup(x, io) \/ ReplayCreate(x, io)
  <2>1. x.res.op \in {"LOOKUP", "CREATE", "MKDIR"}
    BY <1>5 DEF ReplayLookup, ReplayCreate
  <2>2. Keeps(entry, entry') /\ Told(entry', x)
    BY <2>1, ServeTold
  <2>3. EntryServed(w, x.req, x.res, kind', entry')
    BY <1>2, <1>3, <2>1, <2>2, KeepsMirrors DEF EntryServed, Truthful, Told
  <2>4. PICK d \in getNode(w, x.req.fh), e \in getNode(w, x.res.fh) :
          \/ Commit(createLookup(w, x.req, x.res, d, e))
          \/ Commit(createFile(w, x.req, x.res, d, e))
    BY <1>5 DEF ReplayLookup, ReplayCreate, Found, World, getNode
  <2>5. CASE Commit(createLookup(w, x.req, x.res, d, e))
    <3>1. PICK v : v = createLookup(w, x.req, x.res, d, e)
      OBVIOUS
    <3>2. v.err = NoError => Sound(v)
      BY <1>1, <2>3, <3>1, CreateLookupSound
    <3> QED BY <2>5, <3>1, <3>2
  <2>6. CASE Commit(createFile(w, x.req, x.res, d, e))
    <3>1. PICK v : v = createFile(w, x.req, x.res, d, e)
      OBVIOUS
    <3>2. v.err = NoError => Sound(v)
      BY <1>1, <2>3, <3>1, CreateFileSound
    <3> QED BY <2>6, <3>1, <3>2
  <2> QED BY <2>4, <2>5, <2>6
<1>6. CASE ReplayRemove(x, io)
  <2>1. PICK d \in getNode(w, x.req.fh) : Commit(removeFile(w, x.req, x.res, d))
    BY <1>6 DEF ReplayRemove, Found, World, getNode
  <2>2. Sound(removeFile(w, x.req, x.res, d))
    BY <1>1, <1>4, RemoveFileSound
  <2> QED BY <2>1, <2>2
<1>7. CASE ReplayWrite(x, io)
  <2>1. PICK d \in getNode(w, x.req.fh) : Commit(writeFile(w, x.req, x.res, d))
    BY <1>7 DEF ReplayWrite, Found, World, getNode
  <2>2. d # NoNode => ~w.node[d].dir
    <3>1. x.res.op = "WRITE"
      BY <1>7 DEF ReplayWrite
    <3>2. IsKind(kind', x.req.fh, "REG")
      BY <1>2, <3>1 DEF Truthful
    <3>3. d # NoNode => d \in DOMAIN w.node /\ w.node[d].fh = x.req.fh
      BY DEF getNode
    <3> QED BY <1>3, <3>2, <3>3 DEF Typed, KindsOf, IsKind
  <2>3. PICK v : v = writeFile(w, x.req, x.res, d)
    OBVIOUS
  <2>4. v.err = NoError => Sound(v)
    BY <1>1, <2>2, <2>3, WriteFileSound
  <2> QED BY <2>1, <2>3, <2>4
<1>8. CASE ReplayRename(x, io)
  <2>1. PICK d \in getNode(w, x.req.fh), f \in getNode(w, x.req.fh2) :
          Commit(renameFile(w, x.req, x.res, d, f))
    BY <1>8 DEF ReplayRename, Found, World, getNode
  <2>2. x.res.op = "RENAME"
    BY <1>8 DEF ReplayRename
  <2>3. Server!ServeRename(x)
    BY <2>2, ServeTold
  <2>4. IsKind(kind', x.req.fh2, "DIR")
    BY <1>2, <2>2 DEF Truthful
  <2>5. Outside(entry, x.req.fh2, entry[<<x.req.fh, x.req.name>>])
    BY <2>3, NotUnder DEF Server!ServeRename
  <2>6. SameKind(kind', entry, x.req)
    BY <2>3 DEF Server!ServeRename, SameKind
  <2>7. PICK v : v = renameFile(w, x.req, x.res, d, f)
    OBVIOUS
  <2>8. v.err = NoError => Sound(v)
    BY <1>1, <1>3, <2>4, <2>5, <2>6, <2>7, RenameFileSound
  <2> QED BY <2>1, <2>7, <2>8
<1>9. CASE ReplayLink(x, io)
  <2>1. PICK s \in getNode(w, x.req.fh), f \in getNode(w, x.req.fh2) :
          Commit(createLink(w, x.req, x.res, s, f))
    BY <1>9 DEF ReplayLink, Found, World, getNode
  <2>2. x.res.op = "LINK"
    BY <1>9 DEF ReplayLink
  <2>3. NewEntry(entry, entry', x.req.fh2, x.req.name, x.req.fh)
    BY <2>2, ServeNewEntry
  <2>4. IsKind(kind', x.req.fh2, "DIR")
    BY <1>2, <2>2 DEF Truthful
  <2>5. PICK v : v = createLink(w, x.req, x.res, s, f)
    OBVIOUS
  <2>6. v.err = NoError => Sound(v)
    BY <1>1, <1>3, <2>3, <2>4, <2>5, CreateLinkSound
  <2> QED BY <2>1, <2>5, <2>6
<1>10. CASE ReplaySymlink(x, io)
  <2>1. PICK d \in getNode(w, x.req.fh) : Commit(createSymlink(w, x.req, x.res, d))
    BY <1>10 DEF ReplaySymlink, Found, World, getNode
  <2>2. x.res.op = "SYMLINK"
    BY <1>10 DEF ReplaySymlink
  <2>3. NewEntry(entry, entry', x.req.fh, x.req.name, x.res.fh)
    BY <2>2, ServeNewEntry
  <2>4. IsKind(kind', x.req.fh, "DIR")
    BY <1>2, <2>2 DEF Truthful
  <2>5. PICK v : v = createSymlink(w, x.req, x.res, d)
    OBVIOUS
  <2>6. v.err = NoError => Sound(v)
    BY <1>1, <1>3, <2>3, <2>4, <2>5, CreateSymlinkSound
  <2> QED BY <2>1, <2>5, <2>6
<1>11. CASE ReplayGetAttr(x, io) \/ ReplaySetAttr(x, io)
  <2>1. PICK d \in getNode(w, x.req.fh) : Commit(getAttr(w, x.req, x.res, d))
    BY <1>11 DEF ReplayGetAttr, ReplaySetAttr, setAttr, Found, World, getNode
  <2>2. Sound(getAttr(w, x.req, x.res, d))
    BY <1>1, <1>4, GetAttrSound
  <2> QED BY <2>1, <2>2
<1> QED BY <1>5, <1>6, <1>7, <1>8, <1>9, <1>10, <1>11 DEF Process

\* What calls fail is no part of it.
LEMMA SoundAgain ==
  ASSUME NEW w, Sound(w), NEW v, DOMAIN v = DOMAIN w, v.node = w.node, v.disk = w.disk,
         v.err = w.err, Obedient(v.io)
  PROVE  Sound(v)
<1> DEFINE N == DOMAIN w.node
<1>1. Clear(w) /\ Good(w) /\ Fits(w, N) /\ Apart(w.node)
  BY DEF Sound, Clear, Calm
<1>2. Clear(v)
  BY <1>1 DEF Clear, Calm, Good
<1>3. SameNodes(w, v, N)
  BY <1>1, GoodParents DEF SameNodes, SameLinks, Parents
<1>4. N \subseteq N /\ \A n \in N : n \notin N => ~w.node[n].created
  OBVIOUS
<1> HIDE DEF N
<1>5. Fits(v, N)
  BY <1>1, <1>2, <1>3, <1>4, TrimFits
<1> QED BY <1>1, <1>2, <1>5 DEF Sound, N

\* A frame starts from what the last one has left,
LEMMA SoundWorld ==
  ASSUME NEW io, Sound(World({})), Obedient(io)
  PROVE  Sound(World(io))
<1>1. PICK w : w = World({})
  OBVIOUS
<1>2. PICK v : v = World(io)
  OBVIOUS
<1>3. DOMAIN v = DOMAIN w /\ v.node = w.node /\ v.disk = w.disk /\ v.err = w.err /\ v.io = io
  BY <1>1, <1>2 DEF World
<1> QED BY <1>1, <1>2, <1>3, SoundAgain

\* and leaves its own world to the next.
LEMMA SoundCommit ==
  ASSUME NEW v, Commit(v), Sound(v)
  PROVE  Sound(World({}))'
<1>1. /\ World({})'.node = v.node /\ World({})'.err = v.err /\ World({})'.disk = v.disk
      /\ DOMAIN World({})' = {"node", "disk", "err", "io"} /\ World({})'.io = {}
  BY DEF Commit, World
<1>2. DOMAIN v = {"node", "disk", "err", "io"}
  BY DEF Sound, Clear, Calm, Good
<1>3. PICK u : u = World({})'
  OBVIOUS
<1>4. Obedient(u.io)
  BY <1>1, <1>3 DEF Obedient
<1>5. Sound(u)
  BY <1>1, <1>2, <1>3, <1>4, SoundAgain
<1>6. Sound(World({})')
  BY <1>3, <1>5
<1> QED BY <1>6

\* The inductive invariant.
SoundInv == err = NoError => Sound(World({}))

\* A frame keeps the agreement,
LEMMA ReplayedSound ==
  ASSUME CalmInv, SoundInv, NEW x \in Exchange, NEW io, Obedient(io), Server!Serve(x),
         Process(x, io), err = NoError, err' = NoError
  PROVE  Sound(World({}))'
<1>1. ServerOK /\ Acyclic(entry) /\ Sound(World(io))
  BY SoundWorld DEF CalmInv, ServedInv, LossyInv, SoundInv
<1>2. PICK w : w = World(io)
  OBVIOUS
<1>3. w.node = node
  BY <1>2 DEF World
<1>4. Typed(w, kind) /\ Mirrors(w, entry)
  <2>1. World({}).node = node
    BY DEF World
  <2> QED BY <1>3, <2>1 DEF CalmInv, ServedInv, LossyInv, Typed, KindsOf, OneEach, Mirrors
<1>5. PICK v : Commit(v) /\ (v.err = NoError => Sound(v))
  BY <1>1, <1>2, <1>4, ServedSound
<1>6. v.err = NoError
  BY <1>5 DEF Commit
<1> QED BY <1>5, <1>6, SoundCommit

\* so does a collection,
LEMMA CollectSound ==
  ASSUME SoundInv, NEW time, Collect(time), err = NoError
  PROVE  Sound(World({}))'
<1>1. PICK v \in gc(World({}), time) : Commit(v)
  BY DEF Collect
<1>2. Sound(v)
  BY GcSound DEF SoundInv
<1> QED BY <1>1, <1>2, SoundCommit

\* and it holds when nothing is there.
LEMMA EmptySound ==
  ASSUME ServedInit, CalmInv
  PROVE  Sound(World({}))
<1>1. PICK w : w = World({})
  OBVIOUS
<1>2. /\ DOMAIN w.node = {} /\ w.err = NoError /\ w.io = {}
      /\ DOMAIN w.disk = {"entry", "size"} /\ DOMAIN w.disk.entry = {}
  BY <1>1 DEF ServedInit, Init, World, EmptyDisk
<1>3. Clear(w)
  BY <1>1, <1>2 DEF CalmInv, Clear
<1>4. Fits(w, DOMAIN w.node)
  BY <1>2 DEF Fits, Ordered, Matched, Owned, Distinct
<1> QED BY <1>1, <1>2, <1>3, <1>4 DEF Sound, Apart, Obedient

\* It is invariant where calls fail for their arguments only.
LEMMA SoundInductive ==
  ASSUME \A io \in Faults : Obedient(io)
  PROVE  ServedSpec => []SoundInv
<1>1. ServedInit /\ CalmInv => SoundInv
  BY EmptySound DEF SoundInv
<1>2. CalmInv /\ SoundInv /\ [ServedNext]_served => SoundInv'
  <2> SUFFICES ASSUME CalmInv, SoundInv, [ServedNext]_served, err' = NoError
               PROVE  Sound(World({}))'
    BY DEF SoundInv
  <2>1. CASE UNCHANGED served
    <3>1. World({})' = World({}) /\ err' = err
      BY <2>1 DEF served, server, World
    <3>2. Sound(World({}))
      BY <3>1 DEF SoundInv
    <3>3. Sound(World({})')
      BY <3>1, <3>2
    <3> QED BY <3>3
  <2>2. CASE err = NoError /\ (Frame \/ TwinRename)
    <3>1. PICK x \in Exchange, io \in Faults : Server!Serve(x) /\ Process(x, io)
      BY <2>2 DEF Frame, TwinRename, Replayed
    <3> QED BY <2>2, <3>1, ReplayedSound
  <2>3. CASE err = NoError /\ Collection
    BY <2>3, CollectSound DEF Collection
  <2> QED BY <2>1, <2>2, <2>3 DEF ServedNext
<1> QED BY <1>1, <1>2, CalmInductive, PTL DEF ServedSpec

\* What the tree says is created is on the disk, in every replay of a complete trace:
\* where makePath, open, link, symlink and rename have put it, whatever was moved,
\* replaced or removed since.
THEOREM CreatedIsOnDisk ==
  ASSUME \A io \in Faults : Obedient(io)
  PROVE  ServedSpec => []CreatedOnDisk
<1>1. SoundInv => CreatedOnDisk
  BY DEF SoundInv, Sound, Fits, Matched, CreatedOnDisk, World
<1> QED BY <1>1, SoundInductive, PTL

\* The directories above a created element are created: a directory is removed from the
\* disk only when nothing in it is left.
THEOREM AncestorsAreCreated ==
  ASSUME \A io \in Faults : Obedient(io)
  PROVE  ServedSpec => []AncestorsCreated
<1>1. SoundInv => AncestorsCreated
  BY DEF SoundInv, Sound, Fits, Ordered, AncestorsCreated, World
<1> QED BY <1>1, SoundInductive, PTL

\* Nothing is left behind on the disk: what is there belongs to a node.
THEOREM DiskIsTracked ==
  ASSUME \A io \in Faults : Obedient(io)
  PROVE  ServedSpec => []DiskTracked
<1>1. SoundInv => DiskTracked
  BY DEF SoundInv, Sound, Fits, Owned, DiskTracked, World
<1> QED BY <1>1, SoundInductive, PTL

\* The names of a path are those of the nodes above its node, and these are the server's.
LEMMA PathServed ==
  ASSUME CalmInv, SoundInv, err = NoError, NEW q \in DOMAIN disk.entry
  PROVE  \E s \in [1 .. Len(q) -> Handle] :
           Leads(s, q) /\ (disk.entry[q].kind = "dir" <=> kind[s[Len(q)]] = "DIR")
<1>1. PICK w : w = World({})
  OBVIOUS
<1>2. w.node = node /\ w.disk = disk
  BY <1>1 DEF World
<1>3. Sound(w) /\ Good(w) /\ Layered(w.node) /\ Apart(w.node) /\ Fits(w, DOMAIN w.node)
  BY <1>1 DEF SoundInv, Sound, Clear, Calm
<1>4. Typed(w, kind) /\ Mirrors(w, entry)
  <2>1. World({}).node = node
    BY DEF World
  <2> QED BY <1>2, <2>1 DEF CalmInv, ServedInv, LossyInv, Typed, KindsOf, OneEach, Mirrors
<1>5. PICK n \in DOMAIN w.node : PathOf(w, n) = q
  BY <1>2, <1>3 DEF Fits, Owned
<1>6. PICK c : c = Chain(w, n)
  OBVIOUS
<1>7. Anchored(w, c, n)
  BY <1>3, <1>6, ChainAnchored
<1>8. /\ Len(q) = Len(c)
      /\ \A i \in 1 .. Len(c) : q[i] = w.node[c[i]].name
  <2>1. PathAlong(w, c) = q
    BY <1>5, <1>6 DEF PathOf
  <2> QED BY <1>3, <1>7, <2>1, PathAlongChain
<1>9. /\ Len(c) \in Nat \ {0} /\ c[Len(c)] = n
      /\ \A i \in 1 .. Len(c) : c[i] \in DOMAIN w.node
      /\ \A i \in 1 .. Len(c) - 1 : w.node[c[i + 1]].parent = c[i]
      /\ w.node[c[1]].parent = NoNode
  BY <1>7 DEF Anchored, IsChain
<1>10. NoNode \notin DOMAIN w.node /\ \A m \in DOMAIN w.node : w.node[m].fh \in Handle
  BY <1>3, GoodParents DEF Good, Heap, NodeType
<1> DEFINE s == [i \in 1 .. Len(q) |-> w.node[c[i]].fh]
<1>11. s \in [1 .. Len(q) -> Handle]
  BY <1>8, <1>9, <1>10
<1>12. \A i \in 1 .. Len(q) : s[i] = w.node[c[i]].fh
  OBVIOUS
<1> HIDE DEF s
<1>13. handleName[s[1]] = q[1]
  BY <1>3, <1>8, <1>9, <1>12 DEF Apart
<1>14. ASSUME NEW i \in 1 .. Len(q) - 1
       PROVE  Server!Taken(s[i], q[i + 1]) /\ s[i + 1] = entry[<<s[i], q[i + 1]>>]
  <2>1. /\ i \in 1 .. Len(c) /\ i + 1 \in 1 .. Len(c) /\ i \in 1 .. Len(c) - 1
        /\ i \in 1 .. Len(q) /\ i + 1 \in 1 .. Len(q)
    BY <1>8, <1>9
  <2>2. /\ c[i] \in DOMAIN w.node /\ c[i + 1] \in DOMAIN w.node
        /\ w.node[c[i + 1]].parent = c[i] /\ c[i] # NoNode
    BY <1>9, <1>10, <2>1
  <2>3. Has(entry, w.node[c[i]].fh, w.node[c[i + 1]].name, w.node[c[i + 1]].fh)
    BY <1>4, <2>2 DEF Mirrors
  <2> QED BY <1>8, <1>12, <2>1, <2>3 DEF Has, Server!Taken
<1>15. s[Len(q)] = w.node[n].fh
  BY <1>8, <1>9, <1>12
<1>16. disk.entry[q].kind = "dir" <=> w.node[n].dir
  BY <1>2, <1>3, <1>5 DEF Fits, Matched, Exists
<1>17. w.node[n].dir = (kind[w.node[n].fh] = "DIR")
  BY <1>4 DEF Typed, KindsOf
<1> QED BY <1>11, <1>13, <1>14, <1>15, <1>16, <1>17 DEF Leads

\* What is on the disk is the server's: after any complete trace the replay has put there
\* a part of the server's tree, each file in the directory it is in on the server and a
\* directory only where the server has one.
THEOREM DiskIsServed ==
  ASSUME \A io \in Faults : Obedient(io)
  PROVE  ServedSpec => []DiskServed
<1>1. CalmInv /\ SoundInv => DiskServed
  BY PathServed DEF DiskServed
<1> QED BY <1>1, CalmInductive, SoundInductive, PTL
=============================================================================
