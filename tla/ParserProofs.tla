---------------------------- MODULE ParserProofs ----------------------------
(***************************************************************************)
(* Proof about Parser: whatever the text of a line, a field of the frame   *)
(* keeps the first value it is given.                                      *)
(***************************************************************************)
EXTENDS Parser, TLAPS

Field == DOMAIN EmptyFrame

\* The fields of the header, with the place of the token each is read from.
HeaderOpen(f, n) ==
  /\ n <= 0 => f.time = 0
  /\ n <= 4 => f.protocol = "NOPROT"
  /\ n <= 5 => f.xid = 0
  /\ n <= 7 => f.operation = "null"
  /\ n <= 8 => f.status = "FSENT"

\* A frame that is being built: no size is taken before one has occured.
Building(f) ==
  /\ f = [k \in Field |-> f[k]]
  /\ f.truncated \in BOOLEAN /\ f.size_occured \in BOOLEAN
  /\ ~f.size_occured => f.size = 0

\* The fields of f that are filled are the same in g.
Keeps(f, g) == \A k \in Field : f[k] # EmptyFrame[k] => g[k] = f[k]

\* What holds between the turns of the loops: a field of the header is empty until
\* its token comes, and so is the handle that is being read.
ParseInv ==
  /\ count \in Nat
  /\ pc \in {"token", "handle"} => Building(frame) /\ HeaderOpen(frame, count)
  /\ pc = "handle" => /\ "attribute" \in DOMAIN handle /\ handle.attribute \in Handles
                      /\ frame[handle.attribute] = EmptyFrame[handle.attribute]

\* The names of the fields.
LEMMA Fields ==
  /\ Field = {"protocol", "operation", "status", "xid", "time", "truncated",
              "size_occured", "count", "name", "size", "ftype", "offset", "fh", "fh2",
              "name2", "mode", "atime", "mtime"}
  /\ DOMAIN Attribute = {"count", "name", "size", "ftype", "offset", "fh", "fh2",
                         "name2", "mode", "atime", "mtime"}
  BY DEF Field, EmptyFrame, Attribute

\* A token of the header fills a field that is empty.
LEMMA HeaderKeeps ==
  ASSUME NEW f, NEW n \in Nat, NEW token, Building(f), HeaderOpen(f, n)
  PROVE  /\ Building(header(f, n, token)) /\ HeaderOpen(header(f, n, token), n + 1)
         /\ Keeps(f, header(f, n, token))
<1> DEFINE g == header(f, n, token)
<1> DEFINE Set(k, v) == g = [f EXCEPT ![k] = v]
<1>1. \E k \in {"time", "protocol", "xid", "operation", "status"} :
        /\ g = f \/ (f[k] = EmptyFrame[k] /\ \E v : Set(k, v))
        /\ \/ k = "time" /\ n = 0
           \/ k = "protocol" /\ n = 4
           \/ k = "xid" /\ n = 5
           \/ k = "operation" /\ n = 7
           \/ k = "status" /\ n = 8
           \/ g = f /\ n \notin {0, 4, 5, 7, 8}
  <2> USE DEF header, HeaderOpen, EmptyFrame
  <2>1. CASE n = 0
    <3>1. Set("time", Number(dec, token)) /\ f["time"] = 0
      BY <2>1
    <3> QED
      BY <2>1, <3>1
  <2>2. CASE n = 4
    <3>1. Set("protocol", protocolOf(token)) /\ f["protocol"] = "NOPROT"
      BY <2>2
    <3> QED
      BY <2>2, <3>1
  <2>3. CASE n = 5
    <3>1. Set("xid", Number(hex, token) % WordSpace) /\ f["xid"] = 0
      BY <2>3
    <3> QED
      BY <2>3, <3>1
  <2>4. CASE n = 7
    <3>1. Set("operation", parseOpId(token)) /\ f["operation"] = "null"
      BY <2>4
    <3> QED
      BY <2>4, <3>1
  <2>5. CASE n = 8
    <3>1. /\ g = f \/ Set("status", IF token = <<"OK">> THEN "FOK" ELSE "FERROR")
          /\ f["status"] = "FSENT"
      BY <2>5
    <3> QED
      BY <2>5, <3>1
  <2>6. CASE n \notin {0, 4, 5, 7, 8}
    <3>1. g = f
      BY <2>6
    <3> QED
      BY <2>6, <3>1
  <2> QED
    BY <2>1, <2>2, <2>3, <2>4, <2>5, <2>6
<1> HIDE DEF g
<1>2. PICK k \in {"time", "protocol", "xid", "operation", "status"} :
        /\ \/ k = "time" /\ n = 0
           \/ k = "protocol" /\ n = 4
           \/ k = "xid" /\ n = 5
           \/ k = "operation" /\ n = 7
           \/ k = "status" /\ n = 8
           \/ g = f /\ n \notin {0, 4, 5, 7, 8}
        /\ g = [j \in Field |-> g[j]]
        /\ \A j \in Field : j # k => g[j] = f[j]
        /\ f[k] # EmptyFrame[k] => g[k] = f[k]
  <2>1. f = [j \in Field |-> f[j]]
    BY DEF Building
  <2> QED
    BY <1>1, <2>1
<1>3. Keeps(f, g)
  BY <1>2 DEF Keeps
<1>4. Building(g)
  BY <1>2, Fields DEF Building
<1>5. HeaderOpen(g, n + 1)
  BY <1>2, Fields DEF HeaderOpen
<1> QED
  BY <1>3, <1>4, <1>5 DEF g

\* An attribute fills a field that is empty, and none of the header.
LEMMA AttributeKeeps ==
  ASSUME NEW f, NEW n \in Nat, NEW word, NEW token, Building(f), HeaderOpen(f, n)
  PROVE  /\ Building(setAttribute(f, word, token))
         /\ HeaderOpen(setAttribute(f, word, token), n)
         /\ Keeps(f, setAttribute(f, word, token))
<1> DEFINE g == setAttribute(f, word, token)
<1>1. /\ Named(f, word) \subseteq DOMAIN Attribute
      /\ \A k \in Named(f, word) : k # "size" => f[k] = EmptyFrame[k]
      /\ "size" \in Named(f, word) => ~f.size_occured
  BY DEF Named, Open
<1>2. CASE Truncates(f, word, token)
  <2>1. g = [f EXCEPT !.truncated = TRUE]
    BY <1>2 DEF setAttribute
  <2>2. f = [j \in Field |-> f[j]]
    BY DEF Building
  <2>3. /\ g = [j \in Field |-> g[j]] /\ g["truncated"] = TRUE
        /\ \A j \in Field : j # "truncated" => g[j] = f[j]
    BY <2>1, <2>2, Fields
  <2>4. EmptyFrame["truncated"] = FALSE
    BY DEF EmptyFrame
  <2>5. Keeps(f, g)
    BY <2>3, <2>4 DEF Keeps, Building
  <2>6. Building(g)
    BY <2>3, Fields DEF Building
  <2>7. HeaderOpen(g, n)
    BY <2>3, Fields DEF HeaderOpen
  <2> QED
    BY <2>5, <2>6, <2>7
<1>3. CASE ~Truncates(f, word, token)
  <2>1. g = [k \in DOMAIN f |->
               IF k \in Named(f, word) \ Handles THEN Value(k, token)
               ELSE IF k = "size_occured" THEN f.size_occured \/ "size" \in Named(f, word)
               ELSE f[k]]
    BY <1>3 DEF setAttribute
  <2>2. DOMAIN f = Field /\ g = [j \in Field |-> g[j]]
    BY <2>1 DEF Building
  <2>3. /\ \A k \in Field \ Named(f, word) : k # "size_occured" => g[k] = f[k]
        /\ "size_occured" \notin Named(f, word)
        /\ g.size_occured = (f.size_occured \/ "size" \in Named(f, word))
    BY <1>1, <2>1, <2>2, Fields
  <2>4. EmptyFrame.size_occured = FALSE /\ EmptyFrame.size = 0
    BY DEF EmptyFrame
  <2>5. Keeps(f, g)
    BY <1>1, <2>3, <2>4 DEF Keeps, Building
  <2>6. Building(g)
    BY <1>1, <2>2, <2>3, Fields DEF Building
  <2>7. HeaderOpen(g, n)
    BY <1>1, <2>3, Fields DEF HeaderOpen
  <2> QED
    BY <2>5, <2>6, <2>7
<1> QED
  BY <1>2, <1>3

\* The handle that is being read is empty, because its attribute is open.
LEMMA HandleOpen ==
  ASSUME NEW f, NEW word, NEW token, NEW k \in ReadsHandle(f, word, token)
  PROVE  k \in Handles /\ f[k] = EmptyFrame[k]
  BY DEF ReadsHandle, Named, Open, Handles

\* A turn of the loop over the tokens keeps what is filled.
LEMMA TokenKeeps ==
  ASSUME ParseInv, NextToken
  PROVE  ParseInv' /\ Keeps(frame, frame')
<1> USE DEF ParseInv
<1>1. pc = "token" /\ count \in Nat /\ Building(frame) /\ HeaderOpen(frame, count)
  BY DEF NextToken
<1>2. PICK token, f : /\ f = header(frame, count, token) /\ TakeToken(token, f)
                      /\ count' = count + 1
  BY DEF NextToken
<1>3. Building(f) /\ HeaderOpen(f, count + 1) /\ Keeps(frame, f)
  BY <1>1, <1>2, HeaderKeeps
<1>4. CASE frame' = f /\ pc' = "token"
  BY <1>1, <1>2, <1>3, <1>4
<1>5. CASE frame' = setAttribute(f, last, token) /\ pc' = "token"
  <2>1. count + 1 \in Nat
    BY <1>1
  <2>2. Building(frame') /\ HeaderOpen(frame', count + 1) /\ Keeps(f, frame')
    BY <1>3, <1>5, <2>1, AttributeKeeps
  <2>3. Keeps(frame, frame')
    BY <1>3, <2>2 DEF Keeps
  <2> QED
    BY <1>2, <1>5, <2>1, <2>2, <2>3
<1>6. CASE /\ frame' = f /\ pc' = "handle"
           /\ \E k \in ReadsHandle(f, last, token) :
                handle' = [attribute |-> k, token |-> token, rest |-> token, sum |-> 0]
  <2>1. /\ "attribute" \in DOMAIN handle' /\ handle'.attribute \in Handles
        /\ f[handle'.attribute] = EmptyFrame[handle'.attribute]
    BY <1>6, HandleOpen
  <2> QED
    BY <1>1, <1>2, <1>3, <1>6, <2>1
<1> QED
  BY <1>2, <1>4, <1>5, <1>6 DEF TakeToken

\* The end of a handle fills its field.
LEMMA EndHandleKeeps ==
  ASSUME ParseInv, EndHandle
  PROVE  ParseInv' /\ Keeps(frame, frame')
<1> DEFINE k == handle.attribute
<1>1. /\ k \in Handles /\ frame[k] = EmptyFrame[k] /\ Building(frame)
      /\ HeaderOpen(frame, count) /\ count \in Nat
  BY DEF ParseInv, EndHandle
<1>2. PICK v : frame' = [frame EXCEPT ![k] = v]
  BY DEF EndHandle
<1>3. frame = [j \in Field |-> frame[j]] /\ k \in {"fh", "fh2"}
  BY <1>1 DEF Building, Handles
<1>4. /\ frame' = [j \in Field |-> frame'[j]]
      /\ \A j \in Field : j # k => frame'[j] = frame[j]
  BY <1>2, <1>3, Fields
<1>5. Keeps(frame, frame')
  BY <1>1, <1>4 DEF Keeps
<1>6. Building(frame')
  BY <1>1, <1>3, <1>4, Fields DEF Building
<1>7. HeaderOpen(frame', count)
  BY <1>1, <1>3, <1>4, Fields DEF HeaderOpen
<1> QED
  BY <1>1, <1>5, <1>6, <1>7 DEF ParseInv, EndHandle

\* Every step preserves the invariant, and keeps what is filled until the frame is
\* done.
LEMMA ParseInvStep ==
  ParseInv /\ [Next]_vars =>
    /\ ParseInv'
    /\ pc \in {"token", "handle"} /\ pc' # "done" => Keeps(frame, frame')
<1> SUFFICES ASSUME ParseInv, [Next]_vars
             PROVE  /\ ParseInv'
                    /\ pc \in {"token", "handle"} /\ pc' # "done" => Keeps(frame, frame')
  OBVIOUS
<1>1. CASE Begin
  <2>1. pc = "start" /\ count' = count /\ pc' \in {"token", "done"}
    BY <1>1 DEF Begin
  <2>2. pc' = "token" => frame' = EmptyFrame
    BY <1>1 DEF Begin
  <2>3. Building(EmptyFrame) /\ \A n : HeaderOpen(EmptyFrame, n)
    BY DEF Building, HeaderOpen, EmptyFrame, Field
  <2> QED
    BY <2>1, <2>2, <2>3 DEF ParseInv
<1>2. CASE NextToken
  BY <1>2, TokenKeeps
<1>3. CASE NextPart
  <2>1. /\ pc' = "handle" /\ pc = "handle" /\ frame' = frame /\ count' = count
        /\ \E r, x : handle' = [handle EXCEPT !.rest = r, !.sum = x]
    BY <1>3 DEF NextPart
  <2>2. "attribute" \in DOMAIN handle' /\ handle'.attribute = handle.attribute
    BY <2>1 DEF ParseInv
  <2> QED
    BY <2>1, <2>2 DEF ParseInv, Keeps
<1>4. CASE EndHandle
  BY <1>4, EndHandleKeeps
<1>5. CASE End
  BY <1>5 DEF End, ParseInv
<1>6. CASE UNCHANGED vars
  BY <1>6 DEF vars, ParseInv, Keeps, Building, HeaderOpen
<1> QED
  BY <1>1, <1>2, <1>3, <1>4, <1>5, <1>6 DEF Next

\* A field keeps the first value it is given, whatever the text of the line
\* (Frame::setAttribute, frame.hpp:118-150, and the loop of parser.cpp:41-112).
THEOREM FieldsSettled == Spec => FieldsSettle
<1>1. Init => ParseInv
  BY DEF Init, Start, ParseInv
<1>2. ParseInv /\ [Next]_vars =>
        [\A k \in DOMAIN EmptyFrame :
           pc \in {"token", "handle"} /\ pc' # "done" /\ frame[k] # EmptyFrame[k]
             => frame'[k] = frame[k]]_vars
  BY ParseInvStep DEF Keeps, Field
<1>3. ParseInv /\ [Next]_vars => ParseInv'
  BY ParseInvStep
<1> QED
  BY <1>1, <1>2, <1>3, PTL DEF Spec, FieldsSettle
=============================================================================
