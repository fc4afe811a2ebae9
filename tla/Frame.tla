-------------------------------- MODULE Frame --------------------------------
(***************************************************************************)
(* class parser::Frame: the fields of one line of the trace, and the       *)
(* conversions that fill them.                                             *)
(*                                                                         *)
(* Text is a sequence of symbols.  A symbol is a space, a quote, or a run  *)
(* of other characters that nothing takes apart; a token is a sequence of  *)
(* symbols.  The parts of a file handle, 16 hexadecimal digits each, are   *)
(* symbols of their own.                                                   *)
(***************************************************************************)
EXTENDS Integers, SequencesExt

CONSTANTS
  hex, dec,     \* values of the symbols that begin with digits, by base
  Digits,       \* symbols of up to 16 hexadecimal digits and nothing else
  HandleSpace,  \* 2^64: file handles are uint64_t
  WordSpace     \* 2^32: transaction ids and counts are uint32_t

ASSUME FrameAssumption ==
  /\ hex \in [DOMAIN hex -> Nat] /\ dec \in [DOMAIN dec -> Nat]
  /\ Digits \subseteq DOMAIN hex
  /\ HandleSpace \in Nat \ {0, 1} /\ WordSpace \in Nat \ {0}

\* strtoul(3), strtoull(3), atoi(3): what a token begins with, 0 without digits.
Number(base, token) ==
  IF token # <<>> /\ token[1] \in DOMAIN base THEN base[token[1]] ELSE 0

\* The attributes of a file or a request that are read, with their names.
Attribute ==
  [count |-> {"count", "tcount"}, name |-> {"name", "fn"}, size |-> {"size"},
   ftype |-> {"ftype"}, offset |-> {"off", "offset"}, fh |-> {"fh"}, fh2 |-> {"fh2"},
   name2 |-> {"fn2", "name2", "sdata"}, mode |-> {"mode"}, atime |-> {"atime"},
   mtime |-> {"mtime"}]

\* Frame::Frame().
EmptyFrame ==
  [protocol |-> "NOPROT", operation |-> "null", status |-> "FSENT", xid |-> 0, time |-> 0,
   truncated |-> FALSE, size_occured |-> FALSE,
   count |-> 0, name |-> <<>>, size |-> 0, ftype |-> 0, offset |-> 0, fh |-> 0, fh2 |-> 0,
   name2 |-> <<>>, mode |-> 0, atime |-> 0, mtime |-> 0]

Handles == {"fh", "fh2"}

\* What an attribute other than a handle becomes.
Value(k, token) ==
  CASE k = "count"                      -> Number(hex, token) % WordSpace
    [] k \in {"size", "offset"}         -> Number(hex, token)
    [] k = "mode"                       -> Number(hex, token) % 512
    [] k \in {"ftype", "atime", "mtime"} -> Number(dec, token)
    [] k \in {"name", "name2"}          -> token

\* Slip: a repeated attribute replaces the value before.
OpenAgain(f, k) == TRUE

\* An attribute is taken from its first occurrence that is not empty; only size
\* is taken from its very first.
Open(f, k) == IF k = "size" THEN ~f.size_occured ELSE f[k] = EmptyFrame[k]

\* The attributes a word names and that are still open: one at most.
Named(f, word) ==
  {k \in DOMAIN Attribute : word \in {<<x>> : x \in Attribute[k]} /\ Open(f, k)}

\* LONGPKT is looked for after these.
BeforeTruncation == {"count", "name", "size", "ftype"}

Truncates(f, word, token) ==
  token = <<"LONGPKT">> /\ Named(f, word) \cap BeforeTruncation = {}

\* The handles setAttribute reads from the token.
ReadsHandle(f, word, token) ==
  IF Truncates(f, word, token) THEN {} ELSE Named(f, word) \cap Handles

\* setAttribute, unless it reads a handle.
setAttribute(f, word, token) ==
  IF Truncates(f, word, token) THEN [f EXCEPT !.truncated = TRUE]
  ELSE [k \in DOMAIN f |->
          IF k \in Named(f, word) \ Handles THEN Value(k, token)
          ELSE IF k = "size_occured" THEN f.size_occured \/ "size" \in Named(f, word)
          ELSE f[k]]

\* The sum of a handle's parts, 0 only for the empty token.
FileHandle(token, sum) ==
  IF sum = 0 /\ token # <<>> THEN 1 ELSE sum
=============================================================================
