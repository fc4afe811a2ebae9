--------------------------- MODULE TransactionMgr ---------------------------
(***************************************************************************)
(* class replay::TransactionMgr: pairs the responses of a trace with their *)
(* requests and hands the pairs to the Engine, runs the garbage            *)
(* collections, syncs the file system under test, and keeps the replay     *)
(* between the dates it was given.                                         *)
(*                                                                         *)
(* main() hands it one frame after the other.  A call of process() is two  *)
(* steps here: Read, up to the collection, and one that handles the frame. *)
(***************************************************************************)
EXTENDS Engine

CONSTANTS
  Request, Response, \* frames, calls and replies, that may be in the trace
  NoHandle, NoName,  \* what a frame has in place of a missing handle or name
  MaxTransactionTime,\* GC_MAX_TRANSACTIONTIME
  GcThreshold,       \* GC_NODE_THRESHOLD
  GcInterval,        \* 12 hours
  SyncInterval,      \* Settings::syncMinutes * 60
  noSync, enableGC,  \* Settings
  StartTime, StartAfter, \* Settings::startTime and startAfterDays in seconds;
  EndTime, EndAfter, \* -1 when they were not given
  TraceLength        \* bounds the trace

\* A call and a successful reply of one operation are an exchange, and a
\* collection may run at the time of any frame.
ASSUME TransactionMgrAssumption ==
  /\ \A q \in Request, r \in Response :
       r.op = q.op /\ r.status = "OK" => [req |-> q, res |-> r] \in Exchange
  /\ \A f \in Request \cup Response : f.time \in Nat /\ f.time \in GcTimes
  /\ Request \cap Response = {}
  /\ MaxTransactionTime \in Nat /\ SyncInterval \in Nat
  /\ {noSync, enableGC} \subseteq BOOLEAN
  /\ {StartTime, StartAfter, EndTime, EndAfter} \subseteq Int

VARIABLES
  transactions, \* by xid, the place in the trace of the stored request
  last_sync, last_gc,
  startTime, endTime,
  pc,           \* "read", "process", and "stopped" when main() leaves its loop
  trace,        \* the frames read so far
  calls,        \* places of the requests and responses given to the Engine
  synced        \* how many frames had been replayed at the last sync

mgr  == <<transactions, last_sync, last_gc, startTime, endTime, pc, trace, calls, synced>>
full == <<vars, mgr>>

frame == trace[Len(trace)]

-----------------------------------------------------------------------------
(* The requests that wait for their response.                              *)

\* The request has what its operation needs.
Complete(f) ==
  /\ f.fh # NoHandle
  /\ \/ f.op \in {"LOOKUP", "CREATE", "MKDIR", "REMOVE", "RMDIR"} /\ f.name # NoName
     \/ f.op \in {"ACCESS", "GETATTR", "WRITE", "SETATTR"}
     \/ f.op = "RENAME" /\ f.fh2 # NoHandle /\ f.name # NoName /\ f.name2 # NoName
     \/ f.op = "LINK" /\ f.fh2 # NoHandle /\ f.name # NoName
     \/ f.op = "SYMLINK" /\ f.name # NoName /\ f.name2 # NoName

\* Slip: the response may be to another operation, with the same xid.
MatchesAnyOp(q, r) == r.status = "OK" /\ r.time - q.time <= MaxTransactionTime

\* The response says that its request has succeeded, and comes in time.
Matches(q, r) ==
  r.status = "OK" /\ r.op = q.op /\ r.time - q.time <= MaxTransactionTime

Forget(t, X)   == Restrict(t, DOMAIN t \ X)
Store(t, id, i) == [k \in DOMAIN t \cup {id} |-> IF k = id THEN i ELSE t[k]]

\* Slip: a request is forgotten while it may still be answered.
expireEarly(t, time) ==
  Forget(t, {x \in DOMAIN t : trace[t[x]].time <= time - MaxTransactionTime})

expire(t, time) ==
  Forget(t, {x \in DOMAIN t : trace[t[x]].time < time - MaxTransactionTime})

-----------------------------------------------------------------------------
(* process().                                                              *)

GcDue(time) ==
  /\ enableGC
  /\ \/ last_gc + GcInterval < time /\ Cardinality(DOMAIN node) > GcThreshold
     \/ Cardinality(DOMAIN node) > HardThreshold

SyncDue(time) == ~noSync /\ last_sync + SyncInterval < time

\* Slip: the time since the last frame decides, not since the last sync.
SyncSeldom(time) ==
  /\ last_sync' = time
  /\ synced' = IF SyncDue(time) THEN Len(trace) ELSE synced

Sync(time) ==
  /\ last_sync' = IF SyncDue(time) THEN time ELSE last_sync
  /\ synced' = IF SyncDue(time) THEN Len(trace) ELSE synced

\* The first part of process(): sync, collect, and settle when to begin.
Read(f) ==
  /\ pc = "read" /\ err = NoError /\ Len(trace) < TraceLength
  /\ trace' = Append(trace, f)
  /\ pc' = "process"
  /\ Sync(f.time)
  /\ \/ /\ ~GcDue(f.time)
        /\ UNCHANGED <<vars, transactions, last_gc>>
     \/ /\ GcDue(f.time)
        /\ Collect(f.time)
        /\ transactions' = expire(transactions, f.time)
        /\ last_gc' = f.time
  /\ startTime' = IF startTime < 0 /\ StartAfter > 0 THEN f.time + StartAfter
                  ELSE startTime
  /\ UNCHANGED <<endTime, calls>>

\* Slip: the frames of the second in which the replay begins are handled.
BeganEarly == startTime = -1 \/ startTime <= frame.time

\* The frame is handled at the time the replay is on.
Began == startTime = -1 \/ startTime < frame.time

Handling == pc = "process" /\ err = NoError

\* The last part: settle when to end, and end; main() ends at an exception, too.
Finish ==
  LET origin == IF startTime > 0 THEN startTime ELSE frame.time
  IN  /\ endTime' = IF endTime < 0 /\ EndAfter > 0 THEN origin + EndAfter ELSE endTime
      /\ pc' = IF err' # NoError \/ (endTime' # -1 /\ endTime' < frame.time)
               THEN "stopped" ELSE "read"
      /\ UNCHANGED <<last_sync, last_gc, startTime, trace, synced>>

Skip ==
  /\ Handling /\ ~Began
  /\ UNCHANGED <<vars, transactions, calls>>
  /\ Finish

processRequest ==
  /\ Handling /\ Began /\ frame \in Request
  /\ transactions' = IF Complete(frame) THEN Store(transactions, frame.xid, Len(trace))
                     ELSE transactions
  /\ UNCHANGED <<vars, calls>>
  /\ Finish

IgnoreResponse ==
  /\ Handling /\ Began /\ frame \in Response
  /\ frame.xid \notin DOMAIN transactions
  /\ UNCHANGED <<vars, transactions, calls>>
  /\ Finish

\* The request a response is the answer to, and the place of it.
asked == transactions[frame.xid]

\* Slip: a request goes on waiting after its failure.
RefuseSoftly ==
  /\ Handling /\ Began /\ frame \in Response
  /\ frame.xid \in DOMAIN transactions /\ ~Matches(trace[asked], frame)
  /\ UNCHANGED <<vars, transactions, calls>>
  /\ Finish

RefuseResponse ==
  /\ Handling /\ Began /\ frame \in Response
  /\ frame.xid \in DOMAIN transactions /\ ~Matches(trace[asked], frame)
  /\ transactions' = Forget(transactions, {frame.xid})
  /\ UNCHANGED <<vars, calls>>
  /\ Finish

ReplayResponse ==
  /\ Handling /\ Began /\ frame \in Response
  /\ frame.xid \in DOMAIN transactions /\ Matches(trace[asked], frame)
  /\ \E io \in Faults : Process([req |-> trace[asked], res |-> frame], io)
  /\ transactions' = Forget(transactions, {frame.xid})
  /\ calls' = calls \cup {<<asked, Len(trace)>>}
  /\ Finish

MgrInit ==
  /\ Init
  /\ transactions = <<>> /\ last_sync = 0 /\ last_gc = 0
  /\ startTime = StartTime /\ endTime = EndTime
  /\ pc = "read" /\ trace = <<>> /\ calls = {} /\ synced = 0

HandleFrame == Skip \/ processRequest \/ IgnoreResponse \/ RefuseResponse \/ ReplayResponse
MgrNext == (\E f \in Request \cup Response : Read(f)) \/ HandleFrame
MgrSpec == MgrInit /\ [][MgrNext]_full

-----------------------------------------------------------------------------
(* Properties.                                                             *)

\* Every step that is taken is, for the engine, a step of its specification, so
\* that all that is shown of Engine holds of the engine inside the program.
EngineDriven == Spec

\* How many frames have been handled.
Handled == IF pc = "process" THEN Len(trace) - 1 ELSE Len(trace)

\* When the replay begins: -1 from the first frame, otherwise after this time.
Start == IF StartTime < 0 /\ StartAfter > 0 THEN trace[1].time + StartAfter
         ELSE StartTime
Counts(k) == Start = -1 \/ Start < trace[k].time

\* The frame is a response to the request that waits with this xid, or replaces it.
Ends(k, id) ==
  Counts(k) /\ trace[k].xid = id /\ (trace[k] \in Response \/ Complete(trace[k]))

\* After m frames the i-th is a request without an answer.
Waits(i, m) ==
  /\ i \in 1 .. m /\ Counts(i) /\ trace[i] \in Request /\ Complete(trace[i])
  /\ \A k \in i + 1 .. m : ~Ends(k, trace[i].xid)

\* The j-th frame is the answer to the i-th.
Answers(i, j) ==
  /\ Waits(i, j - 1) /\ Counts(j) /\ trace[j] \in Response
  /\ trace[j].xid = trace[i].xid /\ Matches(trace[i], trace[j])

Exchanged == {c \in (1 .. Handled) \X (1 .. Handled) : Answers(c[1], c[2])}

\* The frames of the trace are in the order of their times.
Ordered ==
  \A i, j \in 1 .. Len(trace) : i <= j => trace[i].time <= trace[j].time

\* Of an ordered trace the engine is given every exchange, and nothing else: a
\* repeated response is not replayed again, a repeated request replaces the one
\* before (transaction_mgr.cpp:40), and collecting old requests loses none that
\* still is answered in time.
ExchangesReplayed == Ordered => calls = Exchanged

\* Whatever the order of the frames, and of their times, a response is replayed only
\* with the last complete request of its xid, only when that has had no reply
\* before, and never twice (transaction_mgr.cpp:86-110).
OnlyExchangesReplayed == calls \subseteq Exchanged

\* When a frame of an ordered trace is read, all frames that are more than the sync
\* interval older were replayed before the last sync.
SyncedInTime ==
  Ordered => \A i \in 1 .. Len(trace) - 1 :
               ~noSync /\ trace[i].time + SyncInterval < frame.time => i <= synced
=============================================================================
