------------------------------ MODULE MCEngine ------------------------------
(***************************************************************************)
(* Instances of Engine: the exchanges a trace is made of.  h1, h2, ...     *)
(* print as n1, n2, ...; x and y are names that are not handles'.          *)
(***************************************************************************)
EXTENDS Engine

CONSTANTS NoHandle, NoName, Times, Sizes, h1, h2, h3, h4, n1, n2, n3, n4, x, y

AllHandleNames == (h1 :> n1) @@ (h2 :> n2) @@ (h3 :> n3) @@ (h4 :> n4)
HandleNames    == [h \in Handle |-> AllHandleNames[h]]

Call(op, fh, name, fh2, name2, offset, count, res, ftype, size, time) ==
  [req |-> [fh |-> fh, fh2 |-> fh2, name |-> name, name2 |-> name2,
            offset |-> offset, count |-> count],
   res |-> [op |-> op, fh |-> res, ftype |-> ftype, size |-> size, time |-> time]]

Entries(op, ftypes, names) ==
  {Call(op, p, z, NoHandle, NoName, 0, 0, h, t, s, time) :
     p \in Handle, z \in names, h \in Handle, t \in ftypes, s \in Sizes, time \in Times}
Lookups(names) == {f \in Entries("LOOKUP", {"REG", "DIR"}, names) : f.res.size = 0}
Creates(names) == Entries("CREATE", {"REG"}, names)
Makedirs(names) == {f \in Entries("MKDIR", {"DIR"}, names) : f.res.size = 0}
Removes(names) ==
  {Call("REMOVE", p, z, NoHandle, NoName, 0, 0, NoHandle, "NOFILE", 0, time) :
     p \in Handle, z \in names, time \in Times}
Renames(names) ==
  {Call("RENAME", p, z, q, u, 0, 0, NoHandle, "NOFILE", 0, time) :
     p \in Handle, z \in names, q \in Handle, u \in names, time \in Times}
Links(names) ==
  {Call("LINK", s, z, q, NoName, 0, 0, NoHandle, "NOFILE", 0, time) :
     s \in Handle, q \in Handle, z \in names, time \in Times}
Symlinks(names) ==
  {Call("SYMLINK", p, z, NoHandle, z, 0, 0, h, "LNK", 0, time) :
     p \in Handle, z \in names, h \in Handle, time \in Times}
Writes ==
  {Call("WRITE", h, NoName, NoHandle, NoName, o, c, NoHandle, "REG", 0, time) :
     h \in Handle, o \in Sizes, c \in Sizes, time \in Times}
Attributes ==
  {Call(op, h, NoName, NoHandle, NoName, 0, 0, NoHandle, "REG", 0, time) :
     op \in {"GETATTR", "SETATTR"}, h \in Handle, time \in Times}

\* What changes the tree.
TreeExchange ==
  Lookups(Name) \cup Removes(Name) \cup Renames(Name) \cup Links(Name) \cup Symlinks(Name)

\* What changes files in one directory, with one name.
FileExchange ==
  {f \in Lookups({x}) \cup Creates({x}) \cup Makedirs({x}) \cup Removes({x})
          \cup Writes \cup Attributes :
     f.req.fh = h1 <=> f.res.op \notin {"WRITE", "GETATTR", "SETATTR"}}

NoFaults   == {{}}
DiskFaults == {{}, {"open"}, {"mkdir"}}

\* The handles of H, with their names, are interchangeable, and so are the names
\* that are not handles'.
Alike(H) ==
  {f \in Permutations(H \cup {handleName[h] : h \in H}) :
     \A h \in H : f[h] \in H /\ f[handleName[h]] = handleName[f[h]]}
  \cup Permutations(Name \ {handleName[h] : h \in Handle})
AllAlike == Alike(Handle)
FilesAlike == Alike(Handle \ {h1})
=============================================================================
