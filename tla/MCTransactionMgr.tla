-------------------------- MODULE MCTransactionMgr --------------------------
(***************************************************************************)
(* Instances of TransactionMgr: traces of LOOKUPs of the entry x of one    *)
(* directory, and of replies to them and to other calls.                   *)
(***************************************************************************)
EXTENDS TransactionMgr

CONSTANTS Times, Xid, c1, c2, h1, h2, n1, n2, x

HandleNames == (h1 :> n1) @@ (h2 :> n2)

MakeFrame(protocol, xid, op, status, time, fh, name) ==
  [protocol |-> protocol, xid |-> xid, op |-> op, status |-> status, time |-> time,
   fh |-> fh, fh2 |-> NoHandle, name |-> name, name2 |-> NoName,
   offset |-> 0, count |-> 0, ftype |-> "REG", size |-> 0]

Requests ==
  {MakeFrame("C", id, "LOOKUP", "NONE", time, h1, z) :
     id \in Xid, z \in {x, NoName}, time \in Times}
Responses ==
  {MakeFrame("R", id, op, "OK", time, h2, NoName) :
     id \in Xid, op \in {"LOOKUP", "GETATTR"}, time \in Times}
  \cup {MakeFrame("R", id, "LOOKUP", "ERROR", time, NoHandle, NoName) :
          id \in Xid, time \in Times}
Exchanges ==
  {f \in [req : Requests, res : Responses] : f.req.op = f.res.op /\ f.res.status = "OK"}

Unset == -1
NoFaults == {{}}
XidsAlike == Permutations(Xid)
=============================================================================
