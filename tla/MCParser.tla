------------------------------ MODULE MCParser -------------------------------
(***************************************************************************)
(* Instances of LineParser: lines with every attribute, with a few values, *)
(* in any order.                                                           *)
(***************************************************************************)
EXTENDS LineParser

CONSTANTS Attributes, MaxAttributes

\* "fn" begins with the hexadecimal digit f.
HexValues == ("0" :> 0) @@ ("1" :> 1) @@ ("3" :> 3) @@ ("4" :> 4) @@ ("5" :> 5)
             @@ ("fn" :> 15)
DecValues == ("0" :> 0) @@ ("1" :> 1) @@ ("3" :> 3) @@ ("4" :> 4) @@ ("5" :> 5)
AllDigits == {"0", "1", "3", "4", "5"}

Plain(name, value)  == [name |-> name, value |-> value, quoted |-> FALSE]
Quoted(name, value) == [name |-> name, value |-> value, quoted |-> TRUE]

NumberAttributes ==
  {Plain("size", <<"0">>), Plain("size", <<"3">>), Plain("count", <<"4">>),
   Plain("tcount", <<"1">>), Plain("off", <<"0">>), Plain("offset", <<"5">>),
   Plain("ftype", <<"1">>), Plain("mode", <<"3">>), Plain("mtime", <<"5">>)}
HandleAttributes ==
  {Plain("fh", <<"1">>), Plain("fh", <<"5", "3">>), Plain("fh", <<"4", "4">>),
   Plain("fh2", <<"3", "1", "4">>), Plain("fh2", <<"x">>), Plain("fh", <<"3", "len\n">>)}
NameAttributes ==
  {Quoted("fn", <<"x">>), Quoted("name", <<"x", " ", "size">>), Quoted("fn", <<"fh">>),
   Quoted("fn2", <<"fn">>), Quoted("sdata", <<" ", "x">>), Quoted("fn", <<>>)}
MixedAttributes == NumberAttributes \cup HandleAttributes \cup NameAttributes

Headers ==
  {[time |-> "3", protocol |-> "C3", xid |-> "5", operation |-> "create", status |-> ""],
   [time |-> "3", protocol |-> "R2", xid |-> "1", operation |-> "lookup", status |-> "OK"],
   [time |-> "1", protocol |-> "R3", xid |-> "4", operation |-> "write", status |-> "2"],
   [time |-> "1", protocol |-> "X", xid |-> "1", operation |-> "null", status |-> ""],
   [time |-> "#", protocol |-> "C3", xid |-> "1", operation |-> "null", status |-> ""]}

Records ==
  {h @@ ("attributes" :> a) : h \in Headers, a \in SeqOf(Attributes, MaxAttributes)}
=============================================================================
