----------------------------- MODULE MCMainLoop -----------------------------
(***************************************************************************)
(* Instances of MainLoop: an input of a few lines, calls about the entry x *)
(* of a directory and their answers.                                       *)
(***************************************************************************)
EXTENDS MainLoop

CONSTANTS Times, Ops, Dirs, c1, h1, h2, n1, n2, x

HandleNames == (h1 :> n1) @@ (h2 :> n2)

MakeFrame(protocol, op, status, time, fh, name, name2) ==
  [protocol |-> protocol, xid |-> c1, op |-> op, status |-> status, time |-> time,
   fh |-> fh, fh2 |-> NoHandle, name |-> name, name2 |-> name2,
   offset |-> 0, count |-> 0, ftype |-> "DIR", size |-> 0]

Requests ==
  {MakeFrame("C", op, "NONE", time, h, x, x) : op \in Ops, h \in Dirs, time \in Times}
\* After frames were lost, the answer may be another call's with the same id, and
\* name the directory itself.
Responses ==
  {MakeFrame("R", op, "OK", time, IF op = "SYMLINK" THEN h1 ELSE h2, NoName, NoName) :
     op \in Ops, time \in Times}
Exchanges ==
  {f \in [req : Requests, res : Responses] : f.req.op = f.res.op /\ f.res.status = "OK"}

Unset == -1
NoFaults == {{}}
=============================================================================
