----------------------------- MODULE LineParser ------------------------------
(***************************************************************************)
(* The parser, given the lines a trace is made of: it implements TraceLine. *)
(***************************************************************************)
EXTENDS Parser

CONSTANTS Record, Unparsed

VARIABLE said   \* what the line was printed from

\* The fields of a frame that are read after it is parsed.
Read == {"time", "protocol", "xid", "operation", "status"} \cup DOMAIN Attribute

\* The frame the parser returns.
Returned ==
  IF pc # "done" THEN Unparsed
  ELSE IF frame = NoFrame THEN <<>> ELSE Restrict(frame, Read)

Trace == INSTANCE TraceLine WITH result <- Returned

Lines == {Trace!Printed(s) : s \in Record}

LineInit == said \in Record /\ text = Trace!Printed(said) /\ Start
LineNext == Next /\ UNCHANGED said
LineSpec == LineInit /\ [][LineNext]_<<vars, said>> /\ WF_<<vars, said>>(LineNext)

-----------------------------------------------------------------------------
(* Properties.                                                             *)

\* Whatever a line says, in whatever order and how often, with or without quotes,
\* the frame has it: every attribute has its first value, although the loop takes
\* every two tokens that follow each other for a name and a value.  Every line is
\* parsed, unless a handle is not hexadecimal.
LineParsed == Trace!Spec
=============================================================================
