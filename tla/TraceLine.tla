------------------------------ MODULE TraceLine ------------------------------
(***************************************************************************)
(* What parsing a line of a trace is for: the frame has what the line says. *)
(* A line says when, by which protocol and for which operation, with which *)
(* status, and a list of attributes, some of them quoted.                  *)
(*                                                                         *)
(* The form of the lines is that of the program the traces were made with, *)
(* which is not part of the repository.                                    *)
(***************************************************************************)
EXTENDS Frame

CONSTANTS
  Record,     \* what lines may say
  Unparsed    \* the result before there is one

VARIABLES said, result

\* The line as it is printed.
Words(s) ==
  <<<<s.time>>, <<"src">>, <<"dst">>, <<"U">>, <<s.protocol>>, <<s.xid>>, <<"1">>,
    <<s.operation>>>>
  \o (IF s.status = "" THEN <<>> ELSE <<<<s.status>>>>)
  \o FlattenSeq([i \in DOMAIN s.attributes |->
       LET a == s.attributes[i]
       IN  <<<<a.name>>,
             IF a.quoted THEN <<"\"">> \o a.value \o <<"\"">> ELSE a.value>>])
  \o <<<<"len">>, <<"=">>, <<"len\n">>>>

Printed(s) ==
  LET words == Words(s)
  IN  Tail(FlattenSeq([i \in DOMAIN words |-> <<" ">> \o words[i]]))

\* The first value of an attribute that is not empty.
Given(s, k) ==
  {i \in DOMAIN s.attributes : /\ s.attributes[i].name \in Attribute[k]
                               /\ s.attributes[i].value # <<>>
                               /\ k \in Handles \/ k = "size"
                                  \/ Value(k, s.attributes[i].value) # EmptyFrame[k]}
FirstGiven(s, k) == s.attributes[Min(Given(s, k))].value

\* The parts of a handle add up to a number that fits; 0 means no handle.
Sum(token) ==
  LET sum == FoldLeft(LAMBDA x, part : (x + hex[part]) % HandleSpace, 0, token)
  IN  IF sum = 0 THEN 1 ELSE sum

Says(s, k) ==
  IF Given(s, k) = {} THEN EmptyFrame[k]
  ELSE IF k \in Handles THEN Sum(FirstGiven(s, k)) ELSE Value(k, FirstGiven(s, k))

Begins(s) == s.time \in DOMAIN dec
IsLine(s) == Begins(s) /\ s.protocol \in {"R2", "R3", "C2", "C3"}

Meaning(s) ==
  [k \in DOMAIN Attribute |-> Says(s, k)]
  @@ [time |-> dec[s.time], xid |-> hex[s.xid] % WordSpace, protocol |-> s.protocol,
      operation |-> s.operation,
      status |-> IF s.status = "" THEN "FSENT" ELSE IF s.status = "OK" THEN "FOK" ELSE "FERROR"]

\* All that is said of a handle is hexadecimal.
Readable(s) ==
  \A k \in Handles : Given(s, k) # {} => ToSet(FirstGiven(s, k)) \subseteq Digits

Init == said \in Record /\ result = Unparsed

Parse ==
  /\ result = Unparsed
  /\ Begins(said) => Readable(said)
  /\ result' = IF IsLine(said) THEN Meaning(said) ELSE <<>>
  /\ UNCHANGED said

\* Lines are parsed one at a time, and each is.
Spec == Init /\ [][Parse]_<<said, result>> /\ WF_<<said, result>>(Parse)
=============================================================================
