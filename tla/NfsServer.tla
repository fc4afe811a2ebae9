----------------------------- MODULE NfsServer ------------------------------
(***************************************************************************)
(* The NFS server whose traffic was traced.  It is not part of the         *)
(* repository: it says which exchanges a complete trace holds, and in      *)
(* which order.  A handle stands for one file for ever: NFS handles carry  *)
(* a generation number.                                                    *)
(***************************************************************************)
EXTENDS Naturals, FiniteSetsExt

CONSTANTS Handle, Name, root

VARIABLES
  kind,   \* the type of every file the server ever had, by handle
  entry,  \* the entries of its directories: <<directory, name>> -> handle
  length  \* the length of every file, by handle

Taken(p, x) == <<p, x>> \in DOMAIN entry
Live(h)     == h = root \/ \E k \in DOMAIN entry : entry[k] = h
Dir(p)      == p \in DOMAIN kind /\ kind[p] = "DIR" /\ Live(p)
Empty(p)    == \A k \in DOMAIN entry : k[1] # p

\* h is d, or lies below it: it is in every set that holds d and what its directories hold.
Under(h, d) ==
  \A S \in SUBSET Handle :
    d \in S /\ (\A k \in DOMAIN entry : k[1] \in S => entry[k] \in S) => h \in S

Put(p, x, h) == entry' = [k \in DOMAIN entry \cup {<<p, x>>} |->
                            IF k = <<p, x>> THEN h ELSE entry[k]]
Drop(p, x)   == entry' = [k \in DOMAIN entry \ {<<p, x>>} |-> entry[k]]
Grow(h, t, n) ==
  /\ kind' = [g \in DOMAIN kind \cup {h} |-> IF g = h THEN t ELSE kind[g]]
  /\ length' = [g \in DOMAIN length \cup {h} |-> IF g = h THEN n ELSE length[g]]
Resize(h, n) == length' = [length EXCEPT ![h] = n]

\* The entry of a CREATE is there already.  It may truncate the file.
Reopens(x) == x.res.op = "CREATE" /\ Taken(x.req.fh, x.req.name)

Init ==
  /\ kind = [h \in {root} |-> "DIR"] /\ entry = <<>>
  /\ length = [h \in {root} |-> 0]

\* The server answers the request x.req with x.res.
ServeLookup(x) ==
  LET k == <<x.req.fh, x.req.name>>
  IN  /\ x.res.op = "LOOKUP"
      /\ Dir(x.req.fh) /\ k \in DOMAIN entry
      /\ entry[k] = x.res.fh /\ kind[x.res.fh] = x.res.ftype
      /\ UNCHANGED <<kind, entry, length>>

ServeReopen(x) ==
  LET h == x.res.fh
  IN  /\ Reopens(x) /\ x.res.ftype = "REG"
      /\ Dir(x.req.fh) /\ entry[<<x.req.fh, x.req.name>>] = h /\ kind[h] = "REG"
      /\ x.res.size \in {0, length[h]}
      /\ Resize(h, x.res.size) /\ UNCHANGED <<kind, entry>>

\* CREATE, MKDIR and SYMLINK.
ServeMake(x) ==
  LET h == x.res.fh
  IN  /\ \/ x.res.op = "CREATE" /\ x.res.ftype = "REG"
         \/ x.res.op = "MKDIR" /\ x.res.ftype = "DIR"
         \/ x.res.op = "SYMLINK" /\ x.res.ftype = "LNK"
      /\ Dir(x.req.fh) /\ x.req.name \in Name /\ ~Taken(x.req.fh, x.req.name)
      /\ h \in Handle \ DOMAIN kind
      /\ Put(x.req.fh, x.req.name, h) /\ Grow(h, x.res.ftype, x.res.size)

ServeRemove(x) ==
  LET k == <<x.req.fh, x.req.name>>
  IN  /\ x.res.op = "REMOVE" /\ Dir(x.req.fh) /\ k \in DOMAIN entry
      /\ kind[entry[k]] # "DIR" \/ Empty(entry[k])
      /\ Drop(x.req.fh, x.req.name) /\ UNCHANGED <<kind, length>>

\* A target of the same kind is overwritten, a directory only when it is empty.
ServeRename(x) ==
  LET from == <<x.req.fh, x.req.name>>
      to   == <<x.req.fh2, x.req.name2>>
  IN  /\ x.res.op = "RENAME" /\ Dir(x.req.fh) /\ Dir(x.req.fh2)
      /\ from \in DOMAIN entry /\ x.req.name2 \in Name
      /\ ~Under(x.req.fh2, entry[from])
      /\ to \in DOMAIN entry =>
           /\ (kind[entry[from]] = "DIR") = (kind[entry[to]] = "DIR")
           /\ Empty(entry[to])
      /\ entry' = IF to \in DOMAIN entry /\ entry[to] = entry[from] THEN entry
                  ELSE [k \in (DOMAIN entry \ {from}) \cup {to} |->
                          IF k = to THEN entry[from] ELSE entry[k]]
      /\ UNCHANGED <<kind, length>>

ServeLink(x) ==
  LET h == x.req.fh
      p == x.req.fh2
  IN  /\ x.res.op = "LINK" /\ h \in DOMAIN kind /\ kind[h] = "REG" /\ Live(h)
      /\ Dir(p) /\ x.req.name \in Name /\ ~Taken(p, x.req.name)
      /\ Put(p, x.req.name, h) /\ UNCHANGED <<kind, length>>

\* WRITE and GETATTR.
ServeFile(x) ==
  LET h == x.req.fh
  IN  /\ x.res.op \in {"WRITE", "GETATTR"}
      /\ h \in DOMAIN kind /\ kind[h] = "REG" /\ Live(h)
      /\ Resize(h, IF x.res.op = "WRITE" /\ x.req.count > 0
                   THEN Max({length[h], x.req.offset + x.req.count}) ELSE length[h])
      /\ UNCHANGED <<kind, entry>>

Serve(x) ==
  \/ ServeLookup(x) \/ ServeReopen(x) \/ ServeMake(x) \/ ServeRemove(x)
  \/ ServeRename(x) \/ ServeLink(x)   \/ ServeFile(x)
=============================================================================
