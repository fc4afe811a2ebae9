--------------------------- MODULE MCServedEngine ---------------------------
(***************************************************************************)
(* Instances of ServedEngine.  The export's root is h1; it has two         *)
(* other files at most, and directories with the names x and y.            *)
(***************************************************************************)
EXTENDS ServedEngine, MCEngine

\* What creates, moves and removes files and directories.
FaultyExchange ==
  Creates({x, y}) \cup Makedirs({x, y}) \cup Removes({x, y}) \cup Renames({x, y})

\* With hard links and WRITEs, of no bytes too when sizes differ.
LengthExchange == FaultyExchange \cup Links({x, y}) \cup Writes
ServedExchange == LengthExchange \cup Symlinks({x, y})

\* Links in the root, to see what becomes of them.
LinkedExchange ==
  Creates({x}) \cup {f \in Links({y}) : f.req.fh2 = root} \cup {f \in Writes : f.req.count > 0}

LossyExchange ==
  Lookups({x, y}) \cup Creates({x, y}) \cup Makedirs({x}) \cup Removes({x})
  \cup {f \in Renames({x, y}) : f.req.name = x}

\* One system call fails, at most, in an exchange.
SingleFaults == {{}} \cup {{call} : call \in {"open", "mkdir", "remove", "rename"}}

\* One of those that the tree can follow fails.
MinorFaults == {{}} \cup {{call} : call \in {"open", "link", "symlink"}}

\* The files below the root, and the names, are interchangeable.
AlikeBelow == Alike(Handle \ {root})
\* So are the files, when the names are used differently.
HandlesAlike == {f \in AlikeBelow : x \notin DOMAIN f}

\* The tree without the addresses of its nodes.  All times are equal.  (The
\* comparison has TLC evaluate node, which the rest leaves unevaluated.)
View ==
  LET w == World({})
  IN  <<server, disk, err, unsure, node = <<>>,
        {<<PathOf(w, n), node[n].fh, node[n].created, node[n].dir, node[n].size>> :
           n \in DOMAIN node}>>
=============================================================================
