------------------------------- MODULE Parser -------------------------------
(***************************************************************************)
(* class parser::Parser: turns one line of the trace into a Frame, or into *)
(* none.  A step is one turn of the loop over the tokens of the line, or   *)
(* one of the loop over the parts of a file handle.                        *)
(***************************************************************************)
EXTENDS Frame

CONSTANT Line        \* the texts of lines

VARIABLES
  text,    \* the line that is parsed
  pc,      \* "start", "token", "handle", "done"
  pos,     \* place of the next symbol
  count,   \* tokens read
  last,    \* the last of them
  frame,   \* the frame that is built; NoFrame when there is none
  handle   \* FileHandleInt::operator=: the attribute, what is left of its token, the sum

vars == <<text, pc, pos, count, last, frame, handle>>

SPACE == " "
QUOTE == "\""

\* nullptr instead of a frame.
NoFrame == [EmptyFrame EXCEPT !.protocol = "none"]

Replies == {"R2", "R3"}
Calls   == {"C2", "C3"}

\* The protocol's first letter says whether a line is a call or a reply, the
\* second tells version 2 from the rest.
protocolOf(token) ==
  CASE token = <<>>                    -> "NOPROT"
    [] token[1] = "R2"                 -> "R2"
    [] token[1] \in {"R3", "R4"}       -> "R3"
    [] token[1] = "C2"                 -> "C2"
    [] token[1] \in {"C3", "C4"}       -> "C3"
    [] OTHER                           -> "NOPROT"

opmap ==
  {"null", "getattr", "setattr", "lookup", "access", "read", "readlink", "write",
   "create", "mkdir", "symlink", "mknod", "remove", "rmdir", "rename", "link",
   "readdir", "readdirplus", "fsstat", "fsinfo", "pathconf", "commit"}

parseOpId(token) ==
  CASE token = <<"readdirp">>            -> "readdirplus"
    [] token \in {<<op>> : op \in opmap} -> token[1]
    [] OTHER                             -> "null"

\* The tokens that are known by their place in the line.
header(f, n, token) ==
  CASE n = 0 -> [f EXCEPT !.time = Number(dec, token)]
    [] n = 4 -> [f EXCEPT !.protocol = protocolOf(token)]
    [] n = 5 -> [f EXCEPT !.xid = Number(hex, token) % WordSpace]
    [] n = 7 -> [f EXCEPT !.operation = parseOpId(token)]
    [] n = 8 /\ f.protocol \in Replies ->
         [f EXCEPT !.status = IF token = <<"OK">> THEN "FOK" ELSE "FERROR"]
    [] OTHER -> f

\* Slip: a quote does not keep a token with spaces together.
UnquotedEnd(from, quoted) ==
  Min({i \in from .. Len(text) + 1 : i = Len(text) + 1 \/ text[i] \in {SPACE, QUOTE}})

\* Where the token that begins at from ends: at a space, or at the closing quote
\* when it began with one, or at the end of the line.
TokenEnd(from, quoted) ==
  Min({i \in from .. Len(text) + 1 :
         i = Len(text) + 1 \/ text[i] = IF quoted THEN QUOTE ELSE SPACE})

\* A token is an attribute's value for the token before it, whatever that is.
HasAttribute(f) == count > 8 \/ (count = 8 /\ f.protocol \in Replies)

\* One token: its place in the header, then as an attribute.
TakeToken(token, f) ==
  \/ /\ ~HasAttribute(f)
     /\ frame' = f /\ pc' = "token" /\ UNCHANGED handle
  \/ /\ HasAttribute(f) /\ ReadsHandle(f, last, token) = {}
     /\ frame' = setAttribute(f, last, token) /\ pc' = "token" /\ UNCHANGED handle
  \/ /\ HasAttribute(f)
     /\ \E k \in ReadsHandle(f, last, token) :
          handle' = [attribute |-> k, token |-> token, rest |-> token, sum |-> 0]
     /\ frame' = f /\ pc' = "handle"

Begin ==
  /\ pc = "start"
  /\ \/ /\ text # <<>> /\ text[1] \in DOMAIN dec
        /\ frame' = EmptyFrame /\ pc' = "token"
     \/ /\ ~(text # <<>> /\ text[1] \in DOMAIN dec)
        /\ frame' = NoFrame /\ pc' = "done"
  /\ UNCHANGED <<text, pos, count, last, handle>>

NextToken ==
  /\ pc = "token" /\ pos <= Len(text) + 1
  /\ \E quoted \in {pos <= Len(text) /\ text[pos] = QUOTE} :
     \E from \in {IF quoted THEN pos + 1 ELSE pos} :
     \E to \in {TokenEnd(from, quoted)} :
     \E token \in {SubSeq(text, from, to - 1)} :
        /\ TakeToken(token, header(frame, count, token))
        /\ pos' = to + 1 /\ last' = token
  /\ count' = count + 1
  /\ UNCHANGED text

\* strtoull takes the next 16 digits.  Where there is no digit it takes nothing,
\* and the loop goes round for ever.
NextPart ==
  /\ pc = "handle" /\ handle.rest # <<>> /\ Head(handle.rest) \in Digits
  /\ handle' = [handle EXCEPT !.rest = Tail(handle.rest),
                              !.sum = (handle.sum + hex[Head(handle.rest)]) % HandleSpace]
  /\ UNCHANGED <<text, pc, pos, count, last, frame>>

EndHandle ==
  /\ pc = "handle" /\ handle.rest = <<>>
  /\ frame' = [frame EXCEPT ![handle.attribute] = FileHandle(handle.token, handle.sum)]
  /\ pc' = "token"
  /\ UNCHANGED <<text, pos, count, last, handle>>

End ==
  /\ pc = "token" /\ pos > Len(text) + 1
  /\ frame' = IF frame.protocol = "NOPROT" THEN NoFrame ELSE frame
  /\ pc' = "done"
  /\ UNCHANGED <<text, pos, count, last, handle>>

Start ==
  /\ pc = "start" /\ pos = 1 /\ count = 0 /\ last = <<>> /\ frame = NoFrame
  /\ handle = [attribute |-> "fh", token |-> <<>>, rest |-> <<>>, sum |-> 0]
Init == text \in Line /\ Start

Next == Begin \/ NextToken \/ NextPart \/ EndHandle \/ End
Spec == Init /\ [][Next]_vars

-----------------------------------------------------------------------------
(* Properties.                                                             *)

\* Whatever the text, a field of the frame keeps the first value it is given: the
\* attributes a reply repeats, of the file and of its directory, do not replace
\* each other, and no attribute reaches a field that the header has filled.
FieldsSettle ==
  [][\A k \in DOMAIN EmptyFrame :
       pc \in {"token", "handle"} /\ pc' # "done" /\ frame[k] # EmptyFrame[k]
         => frame'[k] = frame[k]]_vars
=============================================================================
