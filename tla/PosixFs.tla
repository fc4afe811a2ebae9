------------------------------- MODULE PosixFs -------------------------------
(***************************************************************************)
(* The file system under test, as the system calls of src/tree/node.cpp    *)
(* and src/replay/engine.cpp use it.  It is not part of the repository.    *)
(*                                                                         *)
(* A disk is a record: `entry' maps every path below the working directory *)
(* (a nonempty sequence of names) to what is found there, `size' gives the *)
(* length of every regular file by inode, so that hard links share it.     *)
(***************************************************************************)
EXTENDS Naturals, SequencesExt

EmptyDisk == [entry |-> <<>>, size |-> <<>>]

Exists(d, p) == p \in DOMAIN d.entry
IsDir(d, p)  == p = <<>> \/ (Exists(d, p) /\ d.entry[p].kind = "dir")
IsFile(d, p) == Exists(d, p) /\ d.entry[p].kind = "file"

\* What lies below a directory.
Below(d, p) == {q \in DOMAIN d.entry : IsStrictPrefix(p, q)}

\* f with y for x.
With(f, x, y) == [z \in DOMAIN f \cup {x} |-> IF z = x THEN y ELSE f[z]]

\* A disk with the given entries; an inode without a name is released.
WithEntries(d, entry) ==
  [entry |-> entry,
   size  |-> Restrict(d.size, {i \in DOMAIN d.size :
                                 \E p \in DOMAIN entry : entry[p].ino = i})]

CanCreate(d, p) == ~Exists(d, p) /\ IsDir(d, Front(p))

\* mkdir(2) of several directories, outermost first.
Mkdirs(d, P) ==
  [d EXCEPT !.entry = [p \in DOMAIN @ \cup P |->
                         IF p \in P THEN [kind |-> "dir", ino |-> 0] ELSE @[p]]]

\* remove(3): a file, or an empty directory.
CanRemove(d, p) == Exists(d, p) /\ Below(d, p) = {}
Removed(d, P)   == WithEntries(d, Restrict(d.entry, DOMAIN d.entry \ P))

\* rename(2) refuses to move a directory below itself, to replace a directory
\* that is not empty, and to replace a directory by a file or a file by a
\* directory.
CanRename(d, p, q) ==
  /\ Exists(d, p)
  /\ IsDir(d, Front(q))
  /\ ~IsStrictPrefix(p, q)
  /\ Exists(d, q) /\ p # q => IsDir(d, p) = IsDir(d, q) /\ Below(d, q) = {}

\* rename(2) leaves both names alone when they are links to one inode.
SameInode(d, p, q) ==
  p = q \/ (IsFile(d, p) /\ IsFile(d, q) /\ d.entry[p].ino = d.entry[q].ino)

Renamed(d, p, q) ==
  LET moved == Below(d, p) \cup {p}
      kept  == DOMAIN d.entry \ (moved \cup {q})
      To(r)   == q \o SubSeq(r, Len(p) + 1, Len(r))
      From(r) == p \o SubSeq(r, Len(q) + 1, Len(r))
  IN  IF SameInode(d, p, q) THEN d
      ELSE WithEntries(d, [r \in kept \cup {To(m) : m \in moved} |->
                             IF r \in kept THEN d.entry[r]
                                           ELSE d.entry[From(r)]])

\* link(2) and symlink(2).  The target of a symbolic link lies outside the
\* replayed tree.
CanLink(d, p, q)  == Exists(d, p) /\ ~IsDir(d, p) /\ CanCreate(d, q)
Linked(d, p, q)   == [d EXCEPT !.entry = With(@, q, d.entry[p])]
Symlinked(d, q)   == [d EXCEPT !.entry = With(@, q, [kind |-> "link", ino |-> 0])]

\* open(2) with O_RDWR | O_CREAT, and O_TRUNC when trunc holds.
CanOpen(d, p) == IsFile(d, p) \/ CanCreate(d, p)
Resized(d, p, n) == [d EXCEPT !.size[d.entry[p].ino] = n]
Opened(d, p, trunc) ==
  LET new == CHOOSE i \in 1 .. Cardinality(DOMAIN d.size) + 1 : i \notin DOMAIN d.size
  IN  IF ~Exists(d, p)
      THEN [entry |-> With(d.entry, p, [kind |-> "file", ino |-> new]),
            size  |-> With(d.size, new, 0)]
      ELSE IF trunc THEN Resized(d, p, 0) ELSE d
SizeOf(d, p) == d.size[d.entry[p].ino]
=============================================================================
