--------------------------- MODULE MainLoopProofs ---------------------------
(***************************************************************************)
(* Proofs about the program around the engine.                             *)
(*                                                                         *)
(* TransactionMgr drives the Engine as Engine's specification says, so     *)
(* that what is proved of Engine holds inside the program, and of an       *)
(* ordered trace it gives the engine every exchange exactly once.          *)
(*                                                                         *)
(* MainLoop drives TransactionMgr as its specification says, so that the   *)
(* same holds of the whole program, it leaves clean, and it pauses only on *)
(* demand.                                                                 *)
(***************************************************************************)
EXTENDS MainLoop, PlacementProofs, FiniteSetTheorems

-----------------------------------------------------------------------------
(* TransactionMgr.                                                         *)

AnyFrame == Request \cup Response

\* The trace holds frames, and what waits is a request of it.
Stored ==
  /\ trace \in Seq(AnyFrame)
  /\ pc \in {"read", "process", "stopped"}
  /\ pc = "process" => trace # <<>>
  /\ \A id \in DOMAIN transactions :
       transactions[id] \in 1 .. Len(trace) /\ trace[transactions[id]] \in Request

\* What Append does to a trace.
LEMMA Appended ==
  ASSUME trace \in Seq(AnyFrame), NEW f \in AnyFrame, trace' = Append(trace, f)
  PROVE  /\ trace' \in Seq(AnyFrame)
         /\ Len(trace) \in Nat /\ Len(trace') = Len(trace) + 1
         /\ trace' # <<>>
         /\ \A k \in 1 .. Len(trace) : trace'[k] = trace[k]
         /\ trace'[Len(trace')] = f
  OBVIOUS

\* The frame being handled is the last of the trace.
LEMMA FrameIsLast ==
  ASSUME Stored, pc = "process"
  PROVE  Len(trace) \in Nat \ {0} /\ frame \in AnyFrame /\ frame = trace[Len(trace)]
  BY DEF Stored, frame

\* The invariant holds at the start.
LEMMA StoredInit == MgrInit => Stored
  BY DEF MgrInit, Stored

\* Every step preserves it.
LEMMA StoredStep == Stored /\ [MgrNext]_full => Stored'
<1> SUFFICES ASSUME Stored, [MgrNext]_full PROVE Stored'
  OBVIOUS
<1>1. ASSUME NEW f \in AnyFrame, Read(f) PROVE Stored'
  <2>1. /\ trace' \in Seq(AnyFrame) /\ trace' # <<>>
        /\ Len(trace) \in Nat /\ Len(trace') = Len(trace) + 1
        /\ \A k \in 1 .. Len(trace) : trace'[k] = trace[k]
    BY <1>1, Appended DEF Read, Stored
  <2>2. /\ DOMAIN transactions' \subseteq DOMAIN transactions
        /\ \A id \in DOMAIN transactions' : transactions'[id] = transactions[id]
    <3>1. CASE transactions' = transactions
      BY <3>1
    <3>2. CASE transactions' = expire(transactions, f.time)
      BY <3>2 DEF expire, Forget, Restrict
    <3> QED
      BY <1>1, <3>1, <3>2 DEF Read
  <2> QED
    BY <1>1, <2>1, <2>2 DEF Read, Stored
<1>2. ASSUME HandleFrame PROVE Stored'
  <2>1. trace' = trace /\ pc' \in {"read", "stopped"} /\ pc = "process"
    BY <1>2 DEF HandleFrame, Skip, processRequest, IgnoreResponse, RefuseResponse,
                ReplayResponse, Finish, Handling
  <2>2. CASE transactions' = transactions
    BY <2>1, <2>2 DEF Stored
  <2>3. CASE /\ frame \in Request
             /\ transactions' = Store(transactions, frame.xid, Len(trace))
    <3>1. /\ Len(trace) \in Nat \ {0} /\ trace[Len(trace)] \in Request
          /\ DOMAIN transactions' = DOMAIN transactions \cup {frame.xid}
          /\ transactions'[frame.xid] = Len(trace)
          /\ \A id \in DOMAIN transactions \ {frame.xid} :
               transactions'[id] = transactions[id]
      BY <2>1, <2>3, FrameIsLast DEF Store
    <3> QED
      BY <2>1, <3>1 DEF Stored
  <2>4. CASE transactions' = Forget(transactions, {frame.xid})
    <3>1. /\ DOMAIN transactions' \subseteq DOMAIN transactions
          /\ \A id \in DOMAIN transactions' : transactions'[id] = transactions[id]
      BY <2>4 DEF Forget, Restrict
    <3> QED
      BY <2>1, <3>1 DEF Stored
  <2> QED
    BY <1>2, <2>2, <2>3, <2>4
    DEF HandleFrame, Skip, processRequest, IgnoreResponse, RefuseResponse, ReplayResponse
<1>3. CASE UNCHANGED full
  BY <1>3 DEF full, mgr, Stored
<1> QED
  BY <1>1, <1>2, <1>3 DEF MgrNext, AnyFrame

\* For the engine every step is one of its own, or no step.
LEMMA StepIsEngines == Stored /\ [MgrNext]_full => [Next]_vars
<1> SUFFICES ASSUME Stored, [MgrNext]_full PROVE [Next]_vars
  OBVIOUS
<1>1. ASSUME NEW f \in AnyFrame, Read(f) PROVE [Next]_vars
  <2>1. f.time \in GcTimes
    BY TransactionMgrAssumption DEF AnyFrame
  <2> QED
    BY <1>1, <2>1 DEF Read, Next
<1>2. ASSUME ReplayResponse PROVE Next
  <2>1. frame.xid \in DOMAIN transactions /\ trace[asked] \in Request
    BY <1>2 DEF ReplayResponse, asked, Stored
  <2>2. [req |-> trace[asked], res |-> frame] \in Exchange
    BY <1>2, <2>1, TransactionMgrAssumption DEF ReplayResponse, Matches
  <2> QED
    BY <1>2, <2>2 DEF ReplayResponse, Handling, Next
<1>3. ASSUME \/ Skip \/ processRequest \/ IgnoreResponse \/ RefuseResponse
             \/ UNCHANGED full
      PROVE  UNCHANGED vars
  BY <1>3 DEF Skip, processRequest, IgnoreResponse, RefuseResponse, full
<1> QED
  BY <1>1, <1>2, <1>3 DEF MgrNext, HandleFrame, AnyFrame

\* The transaction manager implements Engine's specification: what reaches the
\* engine is a successful exchange, and a collection runs at a frame's time.
THEOREM DrivesEngine == MgrSpec => EngineDriven
<1>1. MgrInit => Init
  BY DEF MgrInit
<1> QED
  BY <1>1, StoredInit, StoredStep, StepIsEngines, PTL DEF MgrSpec, Spec, EngineDriven

\* So the tree is consistent at every step of the program (engine.cpp, node.cpp).
THEOREM ProgramTreeConsistent == MgrSpec => []TreeConsistent
  BY DrivesEngine, TreeStaysConsistent, PTL DEF EngineDriven

\* No two nodes stand for one path, and the tree agrees with every answer, there too.
THEOREM ProgramTreeSound == MgrSpec => [](PathsDistinct /\ EntryResolves)
  BY DrivesEngine, PathsStayDistinct, TreeRecovers, PTL DEF EngineDriven

-----------------------------------------------------------------------------
(* Every exchange of an ordered trace is replayed, once.  The map of       *)
(* transactions holds the waiting requests, except those that are too old  *)
(* to be answered in time.                                                 *)

\* startTime is the date from which the frames count.
Dated ==
  /\ trace = <<>> => startTime = StartTime /\ DOMAIN transactions = {}
  /\ trace # <<>> => startTime = Start

AllReplayed == calls = Exchanged

\* The next frame is not earlier.
InOrder(f) == trace # <<>> => frame.time <= f.time
OrderedNext == (\E f \in AnyFrame : InOrder(f) /\ Read(f)) \/ HandleFrame

\* What is in the map waits, under its own xid.
Pending ==
  \A id \in DOMAIN transactions :
    Waits(transactions[id], Handled) /\ trace[transactions[id]].xid = id

Expired(i) == trace[i].time < frame.time - MaxTransactionTime

\* What waits is in the map, or too old.
Remembered ==
  \A i \in 1 .. Handled :
    Waits(i, Handled) =>
      Expired(i) \/ /\ trace[i].xid \in DOMAIN transactions
                    /\ transactions[trace[i].xid] = i

MgrInv == Stored /\ Dated /\ Ordered /\ Pending /\ Remembered /\ AllReplayed

\* Frames have times, and are calls or replies.
LEMMA FrameFacts ==
  ASSUME Stored
  PROVE  /\ Len(trace) \in Nat
         /\ \A k \in 1 .. Len(trace) :
              /\ trace[k] \in AnyFrame /\ trace[k].time \in Nat
              /\ ~(trace[k] \in Request /\ trace[k] \in Response)
  BY TransactionMgrAssumption DEF Stored, AnyFrame

\* Reading a frame changes nothing about the frames before it.
LEMMA ReadKeepsHistory ==
  ASSUME Stored, Dated, NEW f \in AnyFrame, Read(f)
  PROVE  /\ Len(trace) \in Nat /\ Len(trace') = Len(trace) + 1
         /\ trace' # <<>> /\ frame' = f
         /\ \A k \in 1 .. Len(trace) : trace'[k] = trace[k]
         /\ startTime' = Start'
         /\ Handled = Len(trace) /\ Handled' = Len(trace)
         /\ \A k \in 1 .. Len(trace) : Counts(k)' <=> Counts(k)
         /\ \A m \in 0 .. Len(trace) : \A i \in 1 .. m : Waits(i, m)' <=> Waits(i, m)
         /\ \A i, j \in 1 .. Len(trace) : Answers(i, j)' <=> Answers(i, j)
<1>1. /\ trace' \in Seq(AnyFrame) /\ trace' # <<>>
      /\ Len(trace) \in Nat /\ Len(trace') = Len(trace) + 1
      /\ \A k \in 1 .. Len(trace) : trace'[k] = trace[k]
      /\ trace'[Len(trace')] = f
  BY Appended DEF Read, Stored
<1>2. frame' = f /\ Handled = Len(trace) /\ Handled' = Len(trace)
  BY <1>1 DEF Read, Handled, frame
<1>3. f.time \in Nat /\ (trace # <<>> => 1 \in 1 .. Len(trace) /\ trace[1].time \in Nat)
  BY <1>1, FrameFacts, TransactionMgrAssumption DEF AnyFrame, Stored
<1>4. startTime' = Start' /\ (trace # <<>> => Start' = Start)
  <2>1. CASE trace = <<>>
    <3>1. Len(trace') = 1 /\ trace'[1] = f
      BY <1>1, <2>1
    <3> QED
      BY <2>1, <3>1 DEF Read, Dated, Start
  <2>2. CASE trace # <<>>
    <3>1. trace'[1] = trace[1]
      BY <1>1, <1>3, <2>2
    <3> QED
      BY <1>3, <2>2, <3>1, TransactionMgrAssumption DEF Read, Dated, Start
  <2> QED
    BY <2>1, <2>2
<1>5. \A k \in 1 .. Len(trace) : Counts(k)' <=> Counts(k)
  BY <1>1, <1>4 DEF Counts
<1>6. \A k \in 1 .. Len(trace) : \A id : Ends(k, id)' <=> Ends(k, id)
  BY <1>1, <1>5 DEF Ends, Complete
<1>7. \A m \in 0 .. Len(trace) : \A i \in 1 .. m : Waits(i, m)' <=> Waits(i, m)
  <2> SUFFICES ASSUME NEW m \in 0 .. Len(trace), NEW i \in 1 .. m
               PROVE  Waits(i, m)' <=> Waits(i, m)
    OBVIOUS
  <2>1. i \in 1 .. Len(trace) /\ i + 1 .. m \subseteq 1 .. Len(trace)
    BY <1>1
  <2>2. trace'[i] = trace[i]
    BY <1>1, <2>1
  <2> QED
    BY <1>5, <1>6, <2>1, <2>2 DEF Waits, Complete
<1>8. \A i, j \in 1 .. Len(trace) : Answers(i, j)' <=> Answers(i, j)
  <2> SUFFICES ASSUME NEW i \in 1 .. Len(trace), NEW j \in 1 .. Len(trace)
               PROVE  Answers(i, j)' <=> Answers(i, j)
    OBVIOUS
  <2>1. trace'[i] = trace[i] /\ trace'[j] = trace[j] /\ j - 1 \in 0 .. Len(trace)
    BY <1>1
  <2>2. CASE i \in 1 .. j - 1
    BY <1>5, <1>7, <2>1, <2>2 DEF Answers, Matches
  <2>3. CASE i \notin 1 .. j - 1
    BY <2>3 DEF Answers, Waits
  <2> QED
    BY <2>2, <2>3
<1> QED
  BY <1>1, <1>2, <1>4, <1>5, <1>7, <1>8

\* The invariant holds at the start.
LEMMA MgrInvInit == MgrInit => MgrInv
<1> SUFFICES ASSUME MgrInit PROVE MgrInv
  OBVIOUS
<1>1. Stored /\ trace = <<>> /\ Len(trace) = 0 /\ Handled = 0 /\ DOMAIN transactions = {}
  BY StoredInit DEF MgrInit, Handled
<1>2. Dated /\ Ordered /\ Pending /\ Remembered
  BY <1>1 DEF MgrInit, Dated, Ordered, Pending, Remembered
<1>3. AllReplayed
  BY <1>1 DEF MgrInit, AllReplayed, Exchanged
<1> QED
  BY <1>1, <1>2, <1>3 DEF MgrInv

\* Reading a frame keeps the dates and what waits, even where the times are not in
\* order: a collection can only forget.
LEMMA ReadKeepsPending ==
  ASSUME Stored, Dated, Pending, NEW f \in AnyFrame, Read(f)
  PROVE  Dated' /\ Pending'
<1>1. /\ Len(trace) \in Nat /\ trace' # <<>> /\ startTime' = Start'
      /\ \A k \in 1 .. Len(trace) : trace'[k] = trace[k]
      /\ Handled = Len(trace) /\ Handled' = Len(trace)
      /\ \A m \in 0 .. Len(trace) : \A i \in 1 .. m : Waits(i, m)' <=> Waits(i, m)
  BY ReadKeepsHistory
<1>2. Dated'
  BY <1>1 DEF Dated
<1>3. /\ DOMAIN transactions' \subseteq DOMAIN transactions
      /\ \A id \in DOMAIN transactions' : transactions'[id] = transactions[id]
  <2>1. CASE transactions' = transactions
    BY <2>1
  <2>2. CASE transactions' = expire(transactions, f.time)
    BY <2>2 DEF expire, Forget, Restrict
  <2> QED
    BY <2>1, <2>2 DEF Read
<1>4. Pending'
  <2> SUFFICES ASSUME NEW id \in DOMAIN transactions'
               PROVE  (Waits(transactions[id], Handled) /\ trace[transactions[id]].xid = id)'
    BY DEF Pending
  <2>1. PICK i \in Nat, m \in Nat : i = transactions[id] /\ m = Len(trace)
    BY <1>1, <1>3 DEF Stored
  <2>2. Waits(i, m) /\ trace[i].xid = id /\ i \in 1 .. m
    BY <1>1, <1>3, <2>1 DEF Pending, Waits
  <2>3. Waits(i, m)' /\ trace'[i].xid = id
    BY <1>1, <2>1, <2>2
  <2>4. transactions'[id] = i /\ Handled' = m
    BY <1>1, <1>3, <2>1
  <2> QED
    BY <2>3, <2>4 DEF Waits, Ends, Counts
<1> QED
  BY <1>2, <1>4

\* Reading the next frame of an ordered trace preserves the invariant: what a
\* collection forgets is too old.
LEMMA ReadKeepsInv ==
  ASSUME MgrInv, NEW f \in AnyFrame, InOrder(f), Read(f)
  PROVE  Dated' /\ Ordered' /\ Pending' /\ Remembered' /\ AllReplayed'
<1> USE DEF MgrInv
<1>1. /\ Len(trace) \in Nat /\ Len(trace') = Len(trace) + 1
      /\ trace' # <<>> /\ frame' = f
      /\ \A k \in 1 .. Len(trace) : trace'[k] = trace[k]
      /\ startTime' = Start'
      /\ Handled = Len(trace) /\ Handled' = Len(trace)
      /\ \A k \in 1 .. Len(trace) : Counts(k)' <=> Counts(k)
      /\ \A m \in 0 .. Len(trace) : \A i \in 1 .. m : Waits(i, m)' <=> Waits(i, m)
      /\ \A i, j \in 1 .. Len(trace) : Answers(i, j)' <=> Answers(i, j)
  BY ReadKeepsHistory
<1>2. trace'[Len(trace')] = f /\ f.time \in Nat
  BY <1>1, TransactionMgrAssumption DEF frame, AnyFrame
<1>3. \A k \in 1 .. Len(trace) : trace[k].time \in Nat /\ trace[k].time <= f.time
  <2> SUFFICES ASSUME NEW k \in 1 .. Len(trace)
               PROVE  trace[k].time \in Nat /\ trace[k].time <= f.time
    OBVIOUS
  <2>1. trace[k].time \in Nat /\ frame.time \in Nat /\ trace[k].time <= frame.time
    BY <1>1, FrameFacts DEF Ordered, frame
  <2> QED
    BY <1>1, <1>2, <2>1 DEF InOrder
<1>4. Dated'
  BY ReadKeepsPending
<1>5. Ordered'
  <2> SUFFICES ASSUME NEW i \in 1 .. Len(trace'), NEW j \in 1 .. Len(trace'), i <= j
               PROVE  trace'[i].time <= trace'[j].time
    BY DEF Ordered
  <2>1. CASE j = Len(trace')
    BY <1>1, <1>2, <1>3, <2>1
  <2>2. CASE j # Len(trace')
    <3>1. i \in 1 .. Len(trace) /\ j \in 1 .. Len(trace)
      BY <1>1, <2>2
    <3> QED
      BY <1>1, <3>1 DEF Ordered
  <2> QED
    BY <2>1, <2>2
<1>6. /\ DOMAIN transactions' \subseteq DOMAIN transactions
      /\ \A id \in DOMAIN transactions' : transactions'[id] = transactions[id]
      /\ \A id \in DOMAIN transactions \ DOMAIN transactions' :
           trace[transactions[id]].time < f.time - MaxTransactionTime
  <2>1. CASE transactions' = transactions
    BY <2>1
  <2>2. CASE transactions' = expire(transactions, f.time)
    BY <2>2 DEF expire, Forget, Restrict
  <2> QED
    BY <2>1, <2>2 DEF Read
<1>7. Pending'
  BY ReadKeepsPending
<1>8. Remembered'
  <2> SUFFICES ASSUME NEW i \in 1 .. Handled', Waits(i, Handled)',
                      ~(trace[i].time < frame.time - MaxTransactionTime)'
               PROVE  (/\ trace[i].xid \in DOMAIN transactions
                       /\ transactions[trace[i].xid] = i)'
    BY DEF Remembered, Expired
  <2>1. PICK m \in Nat : m = Len(trace)
    BY <1>1
  <2>2. i \in 1 .. m /\ trace'[i] = trace[i] /\ Handled' = m /\ Handled = m
    BY <1>1, <2>1
  <2>3. Waits(i, m)'
    BY <2>2 DEF Waits, Ends, Counts
  <2>4. Waits(i, Handled)
    BY <1>1, <2>1, <2>2, <2>3
  <2>5. ~Expired(i) /\ ~(trace[i].time < f.time - MaxTransactionTime)
    <3>1. frame.time \in Nat /\ frame.time <= f.time /\ trace[i].time \in Nat
      BY <1>1, <1>2, <1>3, <2>1, <2>2 DEF frame
    <3>2. ~(trace[i].time < f.time - MaxTransactionTime)
      BY <1>1, <2>2
    <3> QED
      BY <1>2, <3>1, <3>2, TransactionMgrAssumption, SMTT(30) DEF Expired
  <2>6. trace[i].xid \in DOMAIN transactions /\ transactions[trace[i].xid] = i
    BY <2>2, <2>4, <2>5 DEF Remembered
  <2> QED
    BY <1>6, <2>2, <2>5, <2>6
<1>9. AllReplayed'
  <2>1. calls' = calls
    BY DEF Read
  <2>2. \A c \in (1 .. Len(trace)) \X (1 .. Len(trace)) :
          Answers(c[1], c[2])' <=> Answers(c[1], c[2])
    BY <1>1
  <2> QED
    BY <1>1, <2>1, <2>2 DEF AllReplayed, Exchanged
<1> QED
  BY <1>4, <1>5, <1>7, <1>8, <1>9

\* What handling the last frame, n, changes: which requests wait is decided by
\* whether it ends the wait of others, and the answers it is are added.
LEMMA HandleFacts ==
  ASSUME Stored, Dated, HandleFrame, NEW n, n = Len(trace)
  PROVE  /\ n \in Nat \ {0} /\ frame = trace[n] /\ frame \in AnyFrame
         /\ trace' = trace /\ startTime' = startTime /\ frame' = frame
         /\ Handled = n - 1 /\ Handled' = n
         /\ Began <=> Counts(n)
         /\ \A k \in 1 .. n : Counts(k)' <=> Counts(k)
         /\ \A i \in 1 .. n : Waits(i, n)' <=> Waits(i, n)
         /\ \A i \in 1 .. n - 1 :
              Waits(i, n) <=> Waits(i, n - 1) /\ ~Ends(n, trace[i].xid)
         /\ Waits(n, n) <=> Counts(n) /\ frame \in Request /\ Complete(frame)
         /\ \A i, j \in 1 .. n : Answers(i, j)' <=> Answers(i, j)
<1>1. /\ pc = "process" /\ trace' = trace /\ startTime' = startTime
      /\ pc' \in {"read", "stopped"}
  BY DEF HandleFrame, Skip, processRequest, IgnoreResponse, RefuseResponse,
         ReplayResponse, Finish, Handling
<1>2. n \in Nat \ {0} /\ frame = trace[n] /\ frame \in AnyFrame /\ frame' = frame
  BY <1>1, FrameIsLast DEF frame
<1>3. Handled = n - 1 /\ Handled' = n
  BY <1>1, <1>2 DEF Handled
<1>4. trace # <<>> /\ startTime = Start /\ Start' = Start
  BY <1>1 DEF Stored, Dated, Start
<1>5. Began <=> Counts(n)
  BY <1>2, <1>4 DEF Began, Counts
<1>6. \A k : Counts(k)' <=> Counts(k)
  BY <1>1, <1>4 DEF Counts
<1>7. \A k, id : Ends(k, id)' <=> Ends(k, id)
  BY <1>1, <1>6 DEF Ends, Complete
<1>8. \A i, m : Waits(i, m)' <=> Waits(i, m)
  BY <1>1, <1>6, <1>7 DEF Waits, Complete
<1>9. \A i, j : Answers(i, j)' <=> Answers(i, j)
  BY <1>1, <1>6, <1>8 DEF Answers, Matches
<1>10. \A i \in 1 .. n - 1 : Waits(i, n) <=> Waits(i, n - 1) /\ ~Ends(n, trace[i].xid)
  <2> SUFFICES ASSUME NEW i \in 1 .. n - 1
               PROVE  Waits(i, n) <=> Waits(i, n - 1) /\ ~Ends(n, trace[i].xid)
    OBVIOUS
  <2>1. i + 1 .. n = (i + 1 .. n - 1) \cup {n} /\ i \in 1 .. n
    BY <1>2
  <2> QED
    BY <2>1 DEF Waits
<1>11. Waits(n, n) <=> Counts(n) /\ frame \in Request /\ Complete(frame)
  <2>1. n \in 1 .. n /\ n + 1 .. n = {}
    BY <1>2
  <2> QED
    BY <1>2, <2>1 DEF Waits
<1> QED
  BY <1>1, <1>2, <1>3, <1>5, <1>6, <1>8, <1>9, <1>10, <1>11

\* The new answers are those of the last frame.
LEMMA NewAnswers ==
  ASSUME MgrInv, HandleFrame, NEW n, n = Len(trace), NEW new,
         new = {c \in (1 .. n) \X {n} : Answers(c[1], n)}
  PROVE  calls' = calls \cup new => AllReplayed'
<1>1. /\ n \in Nat \ {0} /\ Handled = n - 1 /\ Handled' = n
      /\ \A i, j \in 1 .. n : Answers(i, j)' <=> Answers(i, j)
  BY HandleFacts DEF MgrInv
<1>2. \A i, j : Answers(i, j) => i \in 1 .. j - 1
  BY DEF Answers, Waits
<1>3. {c \in (1 .. n) \X (1 .. n) : Answers(c[1], c[2])}
        = {c \in (1 .. n - 1) \X (1 .. n - 1) : Answers(c[1], c[2])} \cup new
  <2>1. \A i, j \in 1 .. n : Answers(i, j) =>
          <<i, j>> \in {c \in (1 .. n - 1) \X (1 .. n - 1) : Answers(c[1], c[2])} \cup new
    <3> SUFFICES ASSUME NEW i \in 1 .. n, NEW j \in 1 .. n, Answers(i, j)
                 PROVE  \/ i \in 1 .. n - 1 /\ j \in 1 .. n - 1
                        \/ j = n
      OBVIOUS
    <3> QED
      BY <1>1, <1>2
  <2>2. 1 .. n - 1 \subseteq 1 .. n /\ n \in 1 .. n
    BY <1>1
  <2> QED
    BY <2>1, <2>2
<1>4. {c \in (1 .. n) \X (1 .. n) : Answers(c[1], c[2])'}
        = {c \in (1 .. n) \X (1 .. n) : Answers(c[1], c[2])}
  BY <1>1
<1> QED
  BY <1>1, <1>3, <1>4 DEF MgrInv, AllReplayed, Exchanged

\* What the map becomes when the last frame, n, is handled: as it was, with n in it,
\* or without the request whose wait n ends.
LEMMA MapChange ==
  ASSUME Stored, Dated, HandleFrame, NEW n, n = Len(trace)
  PROVE  \/ /\ transactions' = transactions /\ ~Waits(n, n)
            /\ \A k \in DOMAIN transactions : ~Ends(n, k)
         \/ /\ DOMAIN transactions' = DOMAIN transactions \cup {frame.xid}
            /\ transactions'[frame.xid] = n /\ Waits(n, n)
            /\ \A k \in DOMAIN transactions \ {frame.xid} : transactions'[k] = transactions[k]
            /\ \A k : Ends(n, k) <=> k = frame.xid
         \/ /\ DOMAIN transactions' = DOMAIN transactions \ {frame.xid} /\ ~Waits(n, n)
            /\ \A k \in DOMAIN transactions' : transactions'[k] = transactions[k]
            /\ \A k : Ends(n, k) <=> k = frame.xid
<1> DEFINE id == frame.xid
           Untouched == /\ transactions' = transactions /\ ~Waits(n, n)
                        /\ \A k \in DOMAIN transactions : ~Ends(n, k)
<1>1. /\ frame = trace[n] /\ (Began <=> Counts(n))
      /\ Waits(n, n) <=> Counts(n) /\ frame \in Request /\ Complete(frame)
  BY HandleFacts
<1>2. ~(frame \in Request /\ frame \in Response)
  BY TransactionMgrAssumption
<1>3. \A k : Ends(n, k) <=> Began /\ id = k /\ (frame \in Response \/ Complete(frame))
  BY <1>1 DEF Ends
<1>4. ASSUME Skip PROVE Untouched
  BY <1>1, <1>3, <1>4 DEF Skip
<1>5. ASSUME processRequest, ~Complete(frame) PROVE Untouched
  BY <1>1, <1>2, <1>3, <1>5 DEF processRequest
<1>6. ASSUME IgnoreResponse PROVE Untouched
  BY <1>1, <1>2, <1>3, <1>6 DEF IgnoreResponse
<1>7. ASSUME processRequest, Complete(frame)
      PROVE  /\ DOMAIN transactions' = DOMAIN transactions \cup {id}
             /\ transactions'[id] = n /\ Waits(n, n)
             /\ \A k \in DOMAIN transactions \ {id} : transactions'[k] = transactions[k]
             /\ \A k : Ends(n, k) <=> k = id
  <2>1. Began /\ frame \in Request /\ transactions' = Store(transactions, id, n)
    BY <1>7 DEF processRequest
  <2> QED
    BY <1>1, <1>3, <1>7, <2>1 DEF Store
<1>8. ASSUME RefuseResponse \/ ReplayResponse
      PROVE  /\ DOMAIN transactions' = DOMAIN transactions \ {id} /\ ~Waits(n, n)
             /\ \A k \in DOMAIN transactions' : transactions'[k] = transactions[k]
             /\ \A k : Ends(n, k) <=> k = id
  <2>1. Began /\ frame \in Response /\ transactions' = Forget(transactions, {id})
    BY <1>8 DEF RefuseResponse, ReplayResponse
  <2> QED
    BY <1>1, <1>2, <1>3, <2>1 DEF Forget, Restrict
<1> QED
  BY <1>4, <1>5, <1>6, <1>7, <1>8 DEF HandleFrame

\* Handling a frame keeps the dates, and in the map only what waits.
LEMMA HandleKeepsPending ==
  ASSUME Stored, Dated, Pending, HandleFrame
  PROVE  Dated' /\ Pending'
<1> DEFINE n == Len(trace)
<1>1. /\ n \in Nat \ {0} /\ frame = trace[n]
      /\ trace' = trace /\ startTime' = startTime /\ frame' = frame
      /\ Handled = n - 1 /\ Handled' = n
      /\ \A k \in 1 .. n : Counts(k)' <=> Counts(k)
      /\ \A i \in 1 .. n : Waits(i, n)' <=> Waits(i, n)
      /\ \A i \in 1 .. n - 1 : Waits(i, n) <=> Waits(i, n - 1) /\ ~Ends(n, trace[i].xid)
  BY HandleFacts
<1>2. Dated'
  BY <1>1 DEF Dated, Start
<1>3. \A k \in DOMAIN transactions :
        /\ transactions[k] \in 1 .. n - 1 /\ trace[transactions[k]].xid = k
        /\ Waits(transactions[k], n - 1)
  BY <1>1 DEF Pending, Waits
<1>4. \A k \in DOMAIN transactions' :
        /\ transactions'[k] \in 1 .. n /\ trace[transactions'[k]].xid = k
        /\ Waits(transactions'[k], n)
  BY <1>1, <1>3, MapChange
<1>5. Pending'
  <2> SUFFICES ASSUME NEW k \in DOMAIN transactions'
               PROVE  (Waits(transactions[k], Handled) /\ trace[transactions[k]].xid = k)'
    BY DEF Pending
  <2>1. PICK i \in 1 .. n : transactions'[k] = i /\ Waits(i, n) /\ trace[i].xid = k
    BY <1>4
  <2>2. Waits(i, n)'
    BY <1>1, <2>1
  <2>3. PICK m \in Nat : m = n
    BY <1>1
  <2>4. Waits(i, m)'
    BY <1>1, <2>2, <2>3 DEF Waits, Ends, Counts
  <2> QED
    BY <1>1, <2>1, <2>3, <2>4 DEF Waits, Ends, Counts
<1> QED
  BY <1>2, <1>5

\* Handling a frame preserves what the map and the dates promise.
LEMMA HandleKeepsMap ==
  ASSUME MgrInv, HandleFrame
  PROVE  Dated' /\ Ordered' /\ Pending' /\ Remembered'
<1> USE DEF MgrInv
<1> DEFINE n == Len(trace)
<1>1. /\ n \in Nat \ {0} /\ frame = trace[n] /\ trace' = trace /\ frame' = frame
      /\ Handled = n - 1 /\ Handled' = n
      /\ \A k \in 1 .. n : Counts(k)' <=> Counts(k)
      /\ \A i \in 1 .. n : Waits(i, n)' <=> Waits(i, n)
      /\ \A i \in 1 .. n - 1 : Waits(i, n) <=> Waits(i, n - 1) /\ ~Ends(n, trace[i].xid)
  BY HandleFacts
<1>2. Dated' /\ Pending' /\ Ordered'
  BY <1>1, HandleKeepsPending DEF Ordered
<1>3. \A i \in 1 .. n : Waits(i, n) /\ ~Expired(i) =>
        trace[i].xid \in DOMAIN transactions' /\ transactions'[trace[i].xid] = i
  <2>1. \A i \in 1 .. n - 1 : Waits(i, n - 1) /\ ~Expired(i) =>
          trace[i].xid \in DOMAIN transactions /\ transactions[trace[i].xid] = i
    BY <1>1 DEF Remembered
  <2> QED
    BY <1>1, <2>1, MapChange
<1>4. Remembered'
  <2> SUFFICES ASSUME NEW i \in 1 .. Handled', Waits(i, Handled)', ~Expired(i)'
               PROVE  (/\ trace[i].xid \in DOMAIN transactions
                       /\ transactions[trace[i].xid] = i)'
    BY DEF Remembered
  <2>1. i \in 1 .. n /\ Waits(i, n)'
    BY <1>1 DEF Waits, Ends, Counts
  <2>2. Waits(i, n) /\ ~Expired(i)
    BY <1>1, <2>1 DEF Expired
  <2> QED
    BY <1>1, <1>3, <2>1, <2>2
<1> QED
  BY <1>2, <1>4

\* Handling a frame gives the engine the answer it is, if it is one.
LEMMA HandleKeepsCalls ==
  ASSUME MgrInv, HandleFrame
  PROVE  AllReplayed'
<1> USE DEF MgrInv
<1> DEFINE n   == Len(trace)
           new == {c \in (1 .. n) \X {n} : Answers(c[1], n)}
<1>1. /\ n \in Nat \ {0} /\ frame = trace[n] /\ frame \in AnyFrame
      /\ Handled = n - 1 /\ (Began <=> Counts(n))
  BY HandleFacts
<1>2. ~(frame \in Request /\ frame \in Response)
  BY TransactionMgrAssumption
\* An answer is the answer to the request the map has under the frame's xid.
<1>3. ASSUME NEW i, Answers(i, n)
      PROVE  /\ i \in 1 .. n - 1 /\ Began /\ frame \in Response
             /\ frame.xid \in DOMAIN transactions /\ transactions[frame.xid] = i
             /\ Matches(trace[i], frame)
  <2>1. /\ i \in 1 .. n - 1 /\ Waits(i, n - 1) /\ Began /\ frame \in Response
        /\ trace[i].xid = frame.xid /\ Matches(trace[i], frame)
    BY <1>1, <1>3 DEF Answers, Waits
  <2>2. trace[i].time \in Nat /\ frame.time \in Nat
    BY <1>1, <2>1, FrameFacts
  <2>3. ~Expired(i)
    BY <2>1, <2>2, TransactionMgrAssumption DEF Expired, Matches
  <2> QED
    BY <1>1, <2>1, <2>3 DEF Remembered
<1>4. ASSUME ReplayResponse PROVE calls' = calls \cup new
  <2>1. /\ Began /\ frame \in Response /\ frame.xid \in DOMAIN transactions
        /\ Matches(trace[asked], frame) /\ calls' = calls \cup {<<asked, n>>}
    BY <1>4 DEF ReplayResponse
  <2>2. asked \in 1 .. n - 1 /\ Waits(asked, n - 1) /\ trace[asked].xid = frame.xid
    BY <1>1, <2>1 DEF Pending, Waits, asked
  <2>3. Answers(asked, n)
    BY <1>1, <2>1, <2>2 DEF Answers
  <2>4. \A i : Answers(i, n) => i = asked
    BY <1>3 DEF asked
  <2>5. new = {<<asked, n>>}
    BY <1>1, <2>2, <2>3, <2>4
  <2> QED
    BY <2>1, <2>5
<1>5. ASSUME \/ Skip \/ processRequest \/ IgnoreResponse \/ RefuseResponse
      PROVE  calls' = calls \cup new
  <2>1. calls' = calls /\ \A i : ~Answers(i, n)
    BY <1>2, <1>3, <1>5
    DEF Skip, processRequest, IgnoreResponse, RefuseResponse, asked
  <2> QED
    BY <2>1
<1> QED
  BY <1>4, <1>5, NewAnswers DEF HandleFrame

\* Every step of the replay of an ordered trace preserves the invariant.
LEMMA MgrInvStep == MgrInv /\ [OrderedNext]_full => MgrInv'
<1> SUFFICES ASSUME MgrInv, [OrderedNext]_full PROVE MgrInv'
  OBVIOUS
<1>1. Stored'
  BY StoredStep DEF MgrInv, OrderedNext, MgrNext, AnyFrame
<1>2. ASSUME NEW f \in AnyFrame, InOrder(f), Read(f) PROVE MgrInv'
  BY <1>1, <1>2, ReadKeepsInv DEF MgrInv
<1>3. ASSUME HandleFrame PROVE MgrInv'
  BY <1>1, <1>3, HandleKeepsMap, HandleKeepsCalls DEF MgrInv
<1>4. CASE UNCHANGED full
  <2> USE <1>4 DEF full, mgr, MgrInv
  <2>1. Handled' = Handled /\ Start' = Start /\ frame' = frame
    BY DEF Handled, Start, frame
  <2>2. \A i, m : Waits(i, m)' <=> Waits(i, m)
    BY <2>1 DEF Waits, Ends, Counts, Complete
  <2>3. Dated' /\ Ordered' /\ AllReplayed'
    BY <2>1, <2>2 DEF Dated, Ordered, AllReplayed, Exchanged, Answers, Counts, Matches
  <2>4. Pending' /\ Remembered'
    BY <2>1, <2>2 DEF Pending, Remembered, Expired, Waits, Ends, Counts, Complete
  <2> QED
    BY <1>1, <2>3, <2>4
<1> QED
  BY <1>2, <1>3, <1>4 DEF OrderedNext, AnyFrame

\* A trace that is ordered was ordered before its last frame was read.
LEMMA StepInOrder ==
  ASSUME Stored, [MgrNext]_full, Ordered'
  PROVE  Ordered /\ [OrderedNext]_full
<1>1. ASSUME NEW f \in AnyFrame, Read(f) PROVE Ordered /\ InOrder(f)
  <2>1. /\ Len(trace) \in Nat /\ Len(trace') = Len(trace) + 1
        /\ \A k \in 1 .. Len(trace) : trace'[k] = trace[k]
        /\ trace'[Len(trace')] = f
    BY <1>1, Appended DEF Read, Stored
  <2>2. Ordered
    BY <2>1 DEF Ordered
  <2>3. ASSUME trace # <<>> PROVE frame.time <= f.time
    <3>1. Len(trace) \in 1 .. Len(trace) /\ frame = trace'[Len(trace)]
      BY <2>1, <2>3 DEF Stored, frame
    <3> QED
      BY <2>1, <3>1 DEF Ordered
  <2> QED
    BY <2>2, <2>3 DEF InOrder
<1>2. ASSUME HandleFrame \/ UNCHANGED full PROVE trace' = trace
  BY <1>2 DEF HandleFrame, Skip, processRequest, IgnoreResponse, RefuseResponse,
              ReplayResponse, Finish, full, mgr
<1>3. CASE \E f \in AnyFrame : Read(f)
  BY <1>1, <1>3 DEF OrderedNext
<1>4. CASE HandleFrame \/ UNCHANGED full
  BY <1>2, <1>4 DEF OrderedNext, Ordered
<1> QED
  BY <1>3, <1>4 DEF MgrNext, AnyFrame

\* Of a trace in the order of its times every successful exchange is replayed,
\* and replayed once, whatever the engine's collections forget
\* (transaction_mgr.cpp:82-111).
THEOREM EveryExchangeReplayed == MgrSpec => []ExchangesReplayed
<1> DEFINE Inv == Stored /\ (Ordered => MgrInv)
<1>1. MgrInit => Inv
  BY MgrInvInit DEF MgrInv
<1>2. Inv /\ [MgrNext]_full => Inv'
  BY StoredStep, StepInOrder, MgrInvStep
<1>3. Inv => ExchangesReplayed
  BY DEF MgrInv, AllReplayed, ExchangesReplayed
<1> QED
  BY <1>1, <1>2, <1>3, PTL DEF MgrSpec

-----------------------------------------------------------------------------
(* Whatever the order of the trace, the engine is given nothing else.      *)

OnlyInv == Stored /\ Dated /\ Pending /\ OnlyExchangesReplayed

\* Handling a frame gives the engine no more than the answer it is.
LEMMA HandleAddsAnswer ==
  ASSUME OnlyInv, HandleFrame
  PROVE  OnlyExchangesReplayed'
<1> USE DEF OnlyInv
<1> DEFINE n == Len(trace)
<1>1. /\ n \in Nat \ {0} /\ frame = trace[n] /\ Handled = n - 1 /\ Handled' = n
      /\ Began <=> Counts(n)
      /\ \A i, j \in 1 .. n : Answers(i, j)' <=> Answers(i, j)
  BY HandleFacts
<1>2. calls' \subseteq {c \in (1 .. n) \X (1 .. n) : Answers(c[1], c[2])}
  <2>1. calls \subseteq {c \in (1 .. n) \X (1 .. n) : Answers(c[1], c[2])}
    BY <1>1 DEF OnlyExchangesReplayed, Exchanged
  <2>2. ASSUME ReplayResponse
        PROVE  /\ calls' = calls \cup {<<asked, n>>}
               /\ asked \in 1 .. n /\ Answers(asked, n)
    <3>1. /\ Began /\ frame \in Response /\ frame.xid \in DOMAIN transactions
          /\ Matches(trace[asked], frame) /\ calls' = calls \cup {<<asked, n>>}
      BY <2>2 DEF ReplayResponse
    <3>2. asked \in 1 .. n - 1 /\ Waits(asked, n - 1) /\ trace[asked].xid = frame.xid
      BY <1>1, <3>1 DEF Pending, Waits, asked
    <3> QED
      BY <1>1, <3>1, <3>2 DEF Answers
  <2>3. ASSUME \/ Skip \/ processRequest \/ IgnoreResponse \/ RefuseResponse
        PROVE  calls' = calls
    BY <2>3 DEF Skip, processRequest, IgnoreResponse, RefuseResponse
  <2> QED
    BY <1>1, <2>1, <2>2, <2>3 DEF HandleFrame
<1>3. {c \in (1 .. n) \X (1 .. n) : Answers(c[1], c[2])'}
        = {c \in (1 .. n) \X (1 .. n) : Answers(c[1], c[2])}
  BY <1>1
<1> QED
  BY <1>1, <1>2, <1>3 DEF OnlyExchangesReplayed, Exchanged

\* Every step preserves it.
LEMMA OnlyInvStep == OnlyInv /\ [MgrNext]_full => OnlyInv'
<1> SUFFICES ASSUME OnlyInv, [MgrNext]_full PROVE OnlyInv'
  OBVIOUS
<1> USE DEF OnlyInv
<1>1. Stored'
  BY StoredStep
<1>2. ASSUME NEW f \in AnyFrame, Read(f) PROVE OnlyInv'
  <2>1. Dated' /\ Pending' /\ calls' = calls
    BY <1>2, ReadKeepsPending DEF Read
  <2>2. /\ Handled = Len(trace) /\ Handled' = Len(trace)
        /\ \A i, j \in 1 .. Len(trace) : Answers(i, j)' <=> Answers(i, j)
    BY <1>2, ReadKeepsHistory
  <2>3. \A c \in (1 .. Len(trace)) \X (1 .. Len(trace)) :
          Answers(c[1], c[2])' <=> Answers(c[1], c[2])
    BY <2>2
  <2> QED
    BY <1>1, <2>1, <2>2, <2>3 DEF OnlyExchangesReplayed, Exchanged
<1>3. ASSUME HandleFrame PROVE OnlyInv'
  BY <1>1, <1>3, HandleKeepsPending, HandleAddsAnswer
<1>4. CASE UNCHANGED full
  <2> USE <1>4 DEF full, mgr
  <2>1. Handled' = Handled /\ Start' = Start
    BY DEF Handled, Start, frame
  <2>2. \A i, m : Waits(i, m)' <=> Waits(i, m)
    BY <2>1 DEF Waits, Ends, Counts, Complete
  <2>3. Dated' /\ OnlyExchangesReplayed'
    BY <2>1, <2>2 DEF Dated, OnlyExchangesReplayed, Exchanged, Answers, Counts, Matches
  <2>4. Pending'
    BY <2>1, <2>2 DEF Pending, Waits, Ends, Counts, Complete
  <2> QED
    BY <1>1, <2>3, <2>4
<1> QED
  BY <1>2, <1>3, <1>4 DEF MgrNext, AnyFrame

\* The invariant holds at the start.
LEMMA OnlyInvInit == MgrInit => OnlyInv
<1>1. MgrInit => Dated /\ Pending /\ OnlyExchangesReplayed
  BY DEF MgrInit, Dated, Pending, OnlyExchangesReplayed, Exchanged
<1> QED
  BY <1>1, StoredInit DEF OnlyInv

\* Of any trace, frames lost, repeated or out of order, only successful exchanges
\* are replayed: no request twice, none after it failed or was replaced
\* (transaction_mgr.cpp:40, 86-110).
THEOREM OnlyExchanges == MgrSpec => []OnlyExchangesReplayed
<1>1. OnlyInv => OnlyExchangesReplayed
  BY DEF OnlyInv
<1> QED
  BY <1>1, OnlyInvInit, OnlyInvStep, PTL DEF MgrSpec

-----------------------------------------------------------------------------
(* What was replayed reaches the disk in time: no frame read since the     *)
(* last sync is older than it.                                             *)

SyncedSoFar ==
  \A i \in 1 .. Len(trace) - 1 :
    ~noSync /\ trace[i].time + SyncInterval < frame.time => i <= synced

SyncInv ==
  /\ Stored
  /\ last_sync \in Nat /\ synced \in 0 .. Len(trace)
  /\ \A i \in synced + 1 .. Len(trace) : last_sync <= trace[i].time
  /\ IF trace = <<>> THEN last_sync = 0 ELSE last_sync <= frame.time
  /\ SyncedSoFar

\* Every step of the replay of an ordered trace preserves it.
LEMMA SyncInvStep == SyncInv /\ [OrderedNext]_full => SyncInv'
<1> SUFFICES ASSUME SyncInv, [OrderedNext]_full PROVE SyncInv'
  OBVIOUS
<1> USE DEF SyncInv
<1>1. Stored'
  BY StoredStep DEF OrderedNext, MgrNext, AnyFrame
<1>2. ASSUME NEW f \in AnyFrame, InOrder(f), Read(f) PROVE SyncInv'
  <2>1. /\ trace' # <<>> /\ Len(trace) \in Nat /\ Len(trace') = Len(trace) + 1
        /\ \A k \in 1 .. Len(trace) : trace'[k] = trace[k]
        /\ trace'[Len(trace')] = f /\ frame' = f /\ f.time \in Nat
    BY <1>2, Appended, TransactionMgrAssumption DEF Read, Stored, frame, AnyFrame
  <2>2. \A k \in 1 .. Len(trace) : trace[k].time \in Nat
    BY FrameFacts
  <2>3. CASE SyncDue(f.time)
    <3>1. last_sync' = f.time /\ synced' = Len(trace)
      BY <1>2, <2>3 DEF Read, Sync
    <3>2. SyncedSoFar'
      BY <2>1, <3>1 DEF SyncedSoFar
    <3>3. \A i \in synced' + 1 .. Len(trace') : i = Len(trace')
      BY <2>1, <3>1
    <3> QED
      BY <1>1, <2>1, <3>1, <3>2, <3>3
  <2>4. CASE ~SyncDue(f.time)
    <3>1. last_sync' = last_sync /\ synced' = synced
      BY <1>2, <2>4 DEF Read, Sync
    <3>2. noSync \/ f.time <= last_sync + SyncInterval
      BY <2>1, <2>4, TransactionMgrAssumption DEF SyncDue
    <3>3. SyncedSoFar'
      <4> SUFFICES ASSUME NEW i \in 1 .. Len(trace), ~noSync, synced < i
                   PROVE  ~(trace[i].time + SyncInterval < f.time)
        BY <2>1, <3>1 DEF SyncedSoFar
      <4>1. last_sync <= trace[i].time /\ trace[i].time \in Nat
        BY <2>1, <2>2
      <4> QED
        BY <2>1, <3>2, <4>1, TransactionMgrAssumption, SMTT(30)
    <3>4. last_sync <= f.time
      <4>1. trace # <<>> => frame.time \in Nat
        BY <2>1, <2>2 DEF frame, Stored
      <4> QED
        BY <1>2, <2>1, <4>1 DEF InOrder
    <3>5. \A i \in synced + 1 .. Len(trace') : last_sync <= trace'[i].time
      <4> SUFFICES ASSUME NEW i \in synced + 1 .. Len(trace')
                   PROVE  last_sync <= trace'[i].time
        OBVIOUS
      <4>1. i \in 1 .. Len(trace') /\ (i # Len(trace') => i \in synced + 1 .. Len(trace))
        BY <2>1
      <4> QED
        BY <2>1, <3>4, <4>1
    <3>6. synced \in 0 .. Len(trace')
      BY <2>1
    <3> QED
      BY <1>1, <2>1, <3>1, <3>3, <3>4, <3>5, <3>6
  <2> QED
    BY <2>3, <2>4
<1>3. ASSUME \/ HandleFrame \/ UNCHANGED full PROVE SyncInv'
  <2>1. trace' = trace /\ last_sync' = last_sync /\ synced' = synced
    BY <1>3 DEF HandleFrame, Skip, processRequest, IgnoreResponse, RefuseResponse,
                ReplayResponse, Finish, full, mgr
  <2> QED
    BY <1>1, <2>1 DEF SyncedSoFar, frame
<1> QED
  BY <1>2, <1>3 DEF OrderedNext, AnyFrame

\* What is older than the sync interval is on the disk (transaction_mgr.cpp:116).
THEOREM SyncsInTime == MgrSpec => []SyncedInTime
<1> DEFINE Inv == Stored /\ (Ordered => SyncInv)
<1>1. MgrInit => Inv
  BY StoredInit DEF MgrInit, SyncInv, SyncedSoFar
<1>2. Inv /\ [MgrNext]_full => Inv'
  BY StoredStep, StepInOrder, SyncInvStep
<1>3. Inv => SyncedInTime
  BY DEF SyncInv, SyncedSoFar, SyncedInTime
<1> QED
  BY <1>1, <1>2, <1>3, PTL DEF MgrSpec

-----------------------------------------------------------------------------
(* MainLoop.                                                               *)

\* The places of the loop.
InLoop == {"fgets", "check", "pause", "resume", "count", "process"}
Place  == {"start", "open", "sync", "display", "report", "catch", "cleanup", "ended",
           "killed", "crashed"} \cup InLoop

\* A frame is at hand from the line that held it on.
AtHand ==
  /\ at \in Place
  /\ at \in {"check", "pause", "resume", "count"} => parsed \in AnyFrame

\* Every step of main() is one of the manager, or leaves the manager alone.
LEMMA StepIsManagers == AtHand /\ [MainNext]_all => [MgrNext]_full /\ AtHand'
<1> SUFFICES ASSUME AtHand, [MainNext]_all PROVE [MgrNext]_full /\ AtHand'
  OBVIOUS
<1> USE DEF AtHand, Place, InLoop
<1>1. CASE \/ Refuse \/ InputOpened \/ OpenSync \/ OpenDisplay \/ EndOfInput \/ CheckPause
           \/ Answered \/ Resumed
  BY <1>1 DEF Refuse, InputOpened, OpenSync, OpenDisplay, EndOfInput, CheckPause, Answered,
              Resumed, Resume
<1>2. ASSUME NEW input \in Inputs, OpenInput(input) PROVE [MgrNext]_full /\ AtHand'
  BY <1>2 DEF OpenInput
<1>3. ASSUME NEW f \in AnyFrame \cup {NoFrame}, ReadLine(f)
      PROVE  [MgrNext]_full /\ AtHand'
  BY <1>3 DEF ReadLine
<1>4. CASE HandOver
  BY <1>4 DEF HandOver, MgrNext, AnyFrame, After
<1>5. CASE Processed
  BY <1>5 DEF Processed, MgrNext, After
<1>6. CASE WriteReport \/ Catch \/ Cleanup
  BY <1>6 DEF WriteReport, Catch, Cleanup
<1>7. CASE Sigint
  BY <1>7 DEF Sigint, Note
<1>8. ASSUME NEW k \in Key, Answer(k) PROVE [MgrNext]_full /\ AtHand'
  BY <1>8 DEF Answer
<1>9. CASE UNCHANGED all
  BY <1>9 DEF all, main, control
<1> QED
  BY <1>1, <1>2, <1>3, <1>4, <1>5, <1>6, <1>7, <1>8, <1>9
  DEF MainNext, Program, User, AnyFrame

\* main() implements TransactionMgr's specification: whatever the lines, the signals
\* and the user do, the manager is given one frame after the other, and none after
\* an exception (nfsreplay.cpp:246-266).
THEOREM DrivesManager == MainSpec => ManagerDriven
<1>1. MainInit => MgrInit /\ AtHand
  BY DEF MainInit, AtHand, Place
<1> QED
  BY <1>1, StepIsManagers, PTL DEF MainSpec, MgrSpec, ManagerDriven

\* So, in the whole program, with signals, pauses and exceptions, the tree is consistent,
\* no two of its nodes stand for one path, and it agrees with every answer.
THEOREM ReplayConsistent == MainSpec => [](TreeConsistent /\ PathsDistinct /\ EntryResolves)
  BY DrivesManager, ProgramTreeConsistent, ProgramTreeSound, PTL DEF ManagerDriven

\* And exactly the exchanges of the trace are replayed, what is older than the sync
\* interval was synced, and of a trace out of order only exchanges are replayed.
THEOREM MainReplaysTrace ==
  MainSpec => [](ExchangesReplayed /\ SyncedInTime /\ OnlyExchangesReplayed)
  BY DrivesManager, EveryExchangeReplayed, SyncsInTime, OnlyExchanges, PTL DEF ManagerDriven

\* The engine's types hold in the whole program.
LEMMA ProgramTyped == MainSpec => []TypeOK
  BY DrivesManager, DrivesEngine, TypeCorrect, PTL DEF ManagerDriven, EngineDriven

-----------------------------------------------------------------------------
(* How main() ends.                                                        *)

\* What holds at each place: only process() throws, only initscr() takes the
\* terminal, and only the last lines end the program once the file for syncfs(2)
\* is there.
Clean ==
  /\ at \in {"start", "open", "sync"} => ~syncFile
  /\ at \in {"start", "open", "sync", "display"} => terminal = "shell"
  /\ at \in Place \ {"process", "catch", "cleanup", "ended", "killed", "crashed"} =>
       err = NoError
  /\ at \in Place \ {"cleanup", "ended", "killed"} => ret = 0
  /\ at = "cleanup" =>
       /\ err # NoError => ret = 1
       /\ ret = 0 /\ reportGiven => report # NoReport

\* Counting never yields what is in place of a report.
LEMMA StatsNoReport ==
  ASSUME NEW f, f = [c \in Counter |-> f[c]]
  PROVE  f # NoReport
  BY DEF Counter, NoReport

CleanInv ==
  AtHand /\ stats = [c \in Counter |-> stats[c]] /\ Clean /\ LeavesClean

\* Where main() goes on after process(), by what it threw.
LEMMA AfterProcess ==
  ASSUME NEW e \in Error \cup {NoError}, NEW stop \in BOOLEAN
  PROVE  /\ After(e, stop) \in {"crashed", "catch", "report", "fgets"}
         /\ After(e, stop) \in {"report", "fgets"} => e = NoError
<1>1. NoError \notin Error /\ "Stack overflow" \in Error
  BY DEF NoError, Error
<1>2. CASE e = "Stack overflow"
  BY <1>2 DEF After
<1>3. CASE e \in Error \ {"Stack overflow"}
  BY <1>3 DEF After
<1>4. CASE e = NoError
  BY <1>1, <1>4 DEF After
<1> QED
  BY <1>2, <1>3, <1>4

\* Every step preserves it.
LEMMA CleanInvStep == CleanInv /\ TypeOK /\ TypeOK' /\ [MainNext]_all => CleanInv'
<1> SUFFICES ASSUME CleanInv, TypeOK, TypeOK', [MainNext]_all PROVE CleanInv'
  OBVIOUS
<1> USE DEF CleanInv, Clean, LeavesClean, Place, InLoop
<1>0. AtHand' /\ at \in Place
  BY StepIsManagers DEF AtHand
<1>1. CASE \/ Refuse \/ InputOpened \/ OpenSync \/ OpenDisplay
  BY <1>0, <1>1 DEF Refuse, InputOpened, OpenSync, OpenDisplay, full, vars
<1>2. CASE EndOfInput \/ CheckPause \/ Answered \/ Resumed
  BY <1>0, <1>2 DEF EndOfInput, CheckPause, Answered, Resumed, Resume, full, vars, outside
<1>3. ASSUME NEW input \in Inputs, OpenInput(input) PROVE CleanInv'
  BY <1>0, <1>3 DEF OpenInput, full, vars, outside
<1>4. ASSUME NEW f, ReadLine(f) PROVE CleanInv'
  BY <1>0, <1>4 DEF ReadLine, Count, full, vars
<1>5. CASE HandOver
  <2>1. /\ at' = IF err' # NoError THEN After(err', FALSE) ELSE "process"
        /\ err' \in Error \cup {NoError}
    BY <1>5 DEF HandOver, TypeOK
  <2>2. /\ at' \in {"crashed", "catch", "process"}
        /\ at' = "process" => err' = NoError
    BY <2>1, AfterProcess
  <2> QED
    BY <1>0, <1>5, <2>2 DEF HandOver, Count
<1>6. CASE Processed
  <2>1. at' = After(err', pc' = "stopped") /\ err' \in Error \cup {NoError}
    BY <1>6 DEF Processed, TypeOK
  <2>2. /\ at' \in {"crashed", "catch", "report", "fgets"}
        /\ at' \in {"report", "fgets"} => err' = NoError
    BY <2>1, AfterProcess
  <2> QED
    BY <1>0, <1>6, <2>2 DEF Processed, Count
<1>7. CASE WriteReport
  BY <1>0, <1>7, StatsNoReport DEF WriteReport, full, vars
<1>8. CASE Catch
  BY <1>0, <1>8 DEF Catch, full, vars
<1>9. CASE Cleanup
  BY <1>0, <1>9 DEF Cleanup, RemoveSyncFile, full, vars
<1>10. CASE Sigint
  BY <1>0, <1>10 DEF Sigint, Note, full, vars
<1>11. ASSUME NEW k, Answer(k) PROVE CleanInv'
  BY <1>0, <1>11 DEF Answer, full, vars, outside
<1>12. CASE UNCHANGED all
  BY <1>0, <1>12 DEF all, main, control, outside, full, vars
<1> QED
  BY <1>1, <1>2, <1>3, <1>4, <1>5, <1>6, <1>7, <1>8, <1>9, <1>10, <1>11, <1>12
  DEF MainNext, Program, User

\* However it ends, main() gives the terminal back, removes its file, and reports an
\* exception in its status (nfsreplay.cpp:269-279).
THEOREM EndsClean == MainSpec => []LeavesClean
<1>1. MainInit => CleanInv
  BY DEF MainInit, MgrInit, Init, CleanInv, Clean, LeavesClean, AtHand, Place
<1>2. CleanInv => LeavesClean
  BY DEF CleanInv
<1> QED
  BY <1>1, <1>2, CleanInvStep, ProgramTyped, PTL DEF MainSpec

-----------------------------------------------------------------------------
(* Pauses.                                                                 *)

\* A request that is noted outside of the dialogue has not been granted.
Noted ==
  pauseExecution /\ at \in Place \ {"pause", "resume", "report", "catch", "cleanup", "ended",
                                   "killed", "crashed"} => wanted

\* Every step preserves it.
LEMMA NotedStep == AtHand /\ Noted /\ [MainNext]_all => Noted'
<1> SUFFICES ASSUME AtHand, Noted, [MainNext]_all PROVE Noted'
  OBVIOUS
<1> USE DEF Noted, AtHand, Place, InLoop
<1>1. CASE Refuse \/ InputOpened \/ OpenSync \/ OpenDisplay
  BY <1>1 DEF Refuse, InputOpened, OpenSync, OpenDisplay
<1>2. CASE EndOfInput \/ CheckPause \/ Answered \/ Resumed
  BY <1>2 DEF EndOfInput, CheckPause, Answered, Resumed, Resume
<1>3. ASSUME NEW input, OpenInput(input) PROVE Noted'
  BY <1>3 DEF OpenInput
<1>4. ASSUME NEW f, ReadLine(f) PROVE Noted'
  BY <1>4 DEF ReadLine
<1>5. CASE HandOver \/ Processed
  BY <1>5 DEF HandOver, Processed
<1>6. CASE WriteReport \/ Catch \/ Cleanup
  BY <1>6 DEF WriteReport, Catch, Cleanup
<1>7. CASE Sigint
  <2>1. CASE Note
    <3>1. at' = at /\ (at # "pause" => wanted')
      BY <2>1 DEF Note
    <3> QED
      BY <3>1
  <2>2. CASE UNCHANGED <<pauseExecution, wanted>> /\ at' \in {at, "killed"}
    BY <2>2
  <2> QED
    BY <1>7, <2>1, <2>2 DEF Sigint
<1>8. ASSUME NEW k, Answer(k) PROVE Noted'
  BY <1>8 DEF Answer
<1>9. CASE UNCHANGED all
  BY <1>9 DEF all, main, control
<1> QED
  BY <1>1, <1>2, <1>3, <1>4, <1>5, <1>6, <1>7, <1>8, <1>9 DEF MainNext, Program, User

\* A pause comes only because SIGINT has asked for it since the last one
\* (nfsreplay.cpp:254-260).
THEOREM PausesAreWanted == MainSpec => PausesOnDemand
<1>1. MainInit => AtHand /\ Noted
  BY DEF MainInit, MgrInit, AtHand, Noted, Place
<1>2. Noted /\ [MainNext]_all => [at = "check" /\ at' = "pause" => wanted]_all
  <2> SUFFICES ASSUME Noted, [MainNext]_all, at = "check", at' = "pause"
               PROVE  wanted
    OBVIOUS
  <2>1. pauseExecution
    BY DEF MainNext, Program, User, Refuse, OpenInput, InputOpened, OpenSync, OpenDisplay,
           ReadLine, EndOfInput, CheckPause, Answered, Resumed, Resume, HandOver, Processed,
           WriteReport, Catch, Cleanup, Sigint, Note, Answer, all, main,
           control
  <2> QED
    BY <2>1 DEF Noted, Place, InLoop
<1> QED
  BY <1>1, <1>2, NotedStep, StepIsManagers, PTL DEF MainSpec, PausesOnDemand

-----------------------------------------------------------------------------
(* The report.                                                             *)

OpCounter == {"remove", "link", "lookup", "rename", "write", "create"}

\* The places of the frames a counter is for, and of those of S handled in the dates.
Of(c)   == {i \in 1 .. Len(trace) : c \in counterOf(trace[i].op)}
Done(S) == {i \in 1 .. Handled : Counts(i) /\ trace[i] \in S}

\* The places in the dates, and what a report is to say.
InDates(S) == {i \in 1 .. Len(trace) : Counts(i) /\ trace[i] \in S}
Agrees(r) ==
  /\ \A f \in Request \cup Response : \A c \in counterOf(f.op) : r[c] = Cardinality(Of(c))
  /\ r["requestsProcessed"] = Cardinality(InDates(Request))
  /\ r["responsesProcessed"] = Cardinality(InDates(Response))

\* The counters agree with the trace at every step, and the report with them.
Tally ==
  /\ stats \in [Counter -> Nat]
  /\ \A c \in OpCounter : stats[c] = Cardinality(Of(c))
  /\ stats["requestsProcessed"] = Cardinality(Done(Request))
  /\ stats["responsesProcessed"] = Cardinality(Done(Response))
  /\ at \in Place \ {"process", "catch", "cleanup", "ended", "killed", "crashed"} =>
       pc # "process"
  /\ report # NoReport => at \in {"cleanup", "ended", "killed"} /\ ReportTrue

\* An operation has at most one counter, and none of them counts what is processed.
LEMMA CounterFacts ==
  /\ \A op : counterOf(op) \subseteq OpCounter
  /\ \A f : handledAs(f) \subseteq {"requestsProcessed", "responsesProcessed"}
  /\ Counter = OpCounter \cup {"linesRead", "requestsProcessed", "responsesProcessed"}
  /\ OpCounter \cap {"linesRead", "requestsProcessed", "responsesProcessed"} = {}
<1>1. ASSUME NEW op PROVE counterOf(op) \subseteq OpCounter
  <2>1. CASE op \in {"REMOVE", "RMDIR"}
    BY <2>1 DEF counterOf, OpCounter
  <2>2. CASE op \in {"LINK", "LOOKUP", "RENAME", "WRITE", "CREATE"}
    BY <2>2 DEF counterOf, OpCounter
  <2>3. CASE op \notin {"REMOVE", "RMDIR", "LINK", "LOOKUP", "RENAME", "WRITE", "CREATE"}
    BY <2>3 DEF counterOf, OpCounter
  <2> QED
    BY <2>1, <2>2, <2>3
<1> QED
  BY <1>1 DEF handledAs, Counter, OpCounter

\* What counting does.
LEMMA CountFacts ==
  ASSUME stats \in [Counter -> Nat], NEW C, Count(C)
  PROVE  /\ stats' \in [Counter -> Nat]
         /\ \A c \in Counter : stats'[c] = IF c \in C THEN stats[c] + 1 ELSE stats[c]
  BY DEF Count

\* A set of places is one larger with a later place.
LEMMA OneMore ==
  ASSUME NEW n \in Nat, NEW S, S \subseteq 1 .. n
  PROVE  Cardinality(S \cup {n + 1}) = Cardinality(S) + 1 /\ Cardinality(S) \in Nat
<1>1. IsFiniteSet(1 .. n)
  BY FS_Interval
<1>2. IsFiniteSet(S)
  BY <1>1, FS_Subset
<1> QED
  BY <1>2, FS_AddElement, FS_CardinalityType

\* The frame that is handed over is counted by its operation.
LEMMA HandOverTallies ==
  ASSUME OnlyInv, AtHand, TypeOK', Tally, HandOver
  PROVE  Tally'
<1> USE DEF Tally
<1> DEFINE n == Len(trace)
<1>1. /\ at = "count" /\ parsed \in AnyFrame /\ Read(parsed)
      /\ Count(counterOf(parsed.op)) /\ report' = report /\ pc # "process"
  BY DEF HandOver, AtHand, Place, InLoop
<1>0. at' \in {"process", "catch", "crashed"}
  BY AfterProcess DEF HandOver, TypeOK
<1>2. /\ n \in Nat /\ Len(trace') = n + 1
      /\ \A k \in 1 .. n : trace'[k] = trace[k]
      /\ Handled = n /\ Handled' = n
      /\ \A k \in 1 .. n : Counts(k)' <=> Counts(k)
  BY <1>1, ReadKeepsHistory DEF OnlyInv
<1>3. trace'[n + 1] = parsed
  BY <1>1, Appended DEF Read, OnlyInv, Stored
<1>4. /\ stats' \in [Counter -> Nat]
      /\ \A c \in Counter :
           stats'[c] = IF c \in counterOf(parsed.op) THEN stats[c] + 1 ELSE stats[c]
  BY <1>1, CountFacts
<1>5. ASSUME NEW c \in OpCounter PROVE stats'[c] = Cardinality(Of(c)')
  <2>1. Of(c) \subseteq 1 .. n
    BY DEF Of
  <2>2. 1 .. n + 1 = (1 .. n) \cup {n + 1}
    BY <1>2
  <2>3. CASE c \in counterOf(parsed.op)
    <3>1. Of(c)' = Of(c) \cup {n + 1}
      BY <1>2, <1>3, <2>2, <2>3 DEF Of
    <3> QED
      BY <1>2, <1>4, <2>1, <2>3, <3>1, OneMore, CounterFacts
  <2>4. CASE c \notin counterOf(parsed.op)
    <3>1. Of(c)' = Of(c)
      BY <1>2, <1>3, <2>2, <2>4 DEF Of
    <3> QED
      BY <1>4, <2>4, <3>1, CounterFacts
  <2> QED
    BY <2>3, <2>4
<1>6. Done(Request)' = Done(Request) /\ Done(Response)' = Done(Response)
  BY <1>2 DEF Done
<1>7. /\ stats'["requestsProcessed"] = stats["requestsProcessed"]
      /\ stats'["responsesProcessed"] = stats["responsesProcessed"]
  BY <1>4, CounterFacts
<1>8. report' = NoReport
  BY <1>1
<1> QED
  BY <1>0, <1>1, <1>4, <1>5, <1>6, <1>7, <1>8

\* The frame that is processed is counted as a request or a response.
LEMMA ProcessedTallies ==
  ASSUME OnlyInv, AtHand, Tally, Processed
  PROVE  Tally'
<1> USE DEF Tally, OnlyInv
<1> DEFINE n == Len(trace)
<1>1. /\ at = "process" /\ HandleFrame /\ Count(handledAs(frame)) /\ report' = report
      /\ pc' \in {"read", "stopped"}
  BY DEF Processed, HandleFrame, Skip, processRequest, IgnoreResponse, RefuseResponse,
         ReplayResponse, Finish
<1>2. /\ n \in Nat \ {0} /\ frame = trace[n] /\ frame \in AnyFrame /\ trace' = trace
      /\ Handled = n - 1 /\ Handled' = n /\ (Began <=> Counts(n))
      /\ \A k \in 1 .. n : Counts(k)' <=> Counts(k)
  BY <1>1, HandleFacts
<1>3. /\ stats' \in [Counter -> Nat]
      /\ \A c \in Counter : stats'[c] = IF c \in handledAs(frame) THEN stats[c] + 1 ELSE stats[c]
  BY <1>1, CountFacts
<1>4. ASSUME NEW c \in OpCounter PROVE stats'[c] = Cardinality(Of(c)')
  BY <1>2, <1>3, CounterFacts DEF Of
<1>5. ~(frame \in Request /\ frame \in Response)
  BY TransactionMgrAssumption
<1>6. ASSUME NEW S
      PROVE  Cardinality(Done(S)') =
               IF Counts(n) /\ frame \in S THEN Cardinality(Done(S)) + 1 ELSE Cardinality(Done(S))
  <2>1. Done(S) \subseteq 1 .. n - 1 /\ n - 1 \in Nat
    BY <1>2 DEF Done
  <2>2. 1 .. n = (1 .. n - 1) \cup {n}
    BY <1>2
  <2>3. CASE Counts(n) /\ frame \in S
    <3>1. Done(S)' = Done(S) \cup {n}
      BY <1>2, <2>2, <2>3 DEF Done
    <3>2. (n - 1) + 1 = n
      BY <1>2
    <3>3. Cardinality(Done(S) \cup {(n - 1) + 1}) = Cardinality(Done(S)) + 1
      BY <2>1, OneMore
    <3> QED
      BY <2>3, <3>1, <3>2, <3>3
  <2>4. CASE ~(Counts(n) /\ frame \in S)
    <3>1. Done(S)' = Done(S)
      BY <1>2, <2>2, <2>4 DEF Done
    <3> QED
      BY <2>4, <3>1
  <2> QED
    BY <2>3, <2>4
<1>7. /\ stats'["requestsProcessed"] = Cardinality(Done(Request)')
      /\ stats'["responsesProcessed"] = Cardinality(Done(Response)')
  BY <1>2, <1>3, <1>5, <1>6, CounterFacts DEF handledAs, AnyFrame
<1>8. report' = NoReport
  BY <1>1
<1> QED
  BY <1>1, <1>3, <1>4, <1>7, <1>8

\* Nothing else that counts is changed by the other steps.
LEMMA TallyKept ==
  ASSUME OnlyInv, Tally, UNCHANGED full,
         \A c \in Counter \ {"linesRead"} : stats'[c] = stats[c],
         stats' \in [Counter -> Nat],
         at' \in {"process", "catch", "cleanup", "ended", "killed", "crashed"}
           \/ pc # "process",
         \/ report' = report /\ (report # NoReport => at' \in {"cleanup", "ended", "killed"})
         \/ report' = stats /\ at' = "cleanup" /\ pc # "process"
  PROVE  Tally'
<1> USE DEF Tally
<1>1. trace' = trace /\ pc' = pc /\ startTime' = startTime
  BY DEF full, mgr
<1>2. Handled' = Handled /\ \A k : Counts(k)' <=> Counts(k)
  BY <1>1 DEF Handled, Counts, Start
<1>3. /\ \A c : Of(c)' = Of(c)
      /\ \A S : Done(S)' = Done(S) /\ InDates(S)' = InDates(S)
  BY <1>1, <1>2 DEF Of, Done, InDates
<1>4. ASSUME NEW r, r \in {report, stats}, report' = r,
             r # NoReport => Agrees(r)
      PROVE  ReportTrue'
  <2>1. report' # NoReport =>
          /\ \A f \in Request \cup Response : \A c \in counterOf(f.op) :
               report'[c] = Cardinality(Of(c)')
          /\ report'["requestsProcessed"] = Cardinality(InDates(Request)')
          /\ report'["responsesProcessed"] = Cardinality(InDates(Response)')
    BY <1>3, <1>4 DEF Agrees
  <2> QED
    BY <2>1 DEF ReportTrue, Counted, Of, InDates
<1>5. report' # NoReport => at' \in {"cleanup", "ended", "killed"} /\ ReportTrue'
  <2>1. CASE report' = report /\ (report # NoReport => at' \in {"cleanup", "ended", "killed"})
    <3>1. report # NoReport => Agrees(report)
      BY DEF Agrees, ReportTrue, Counted, Of, InDates
    <3> QED
      BY <1>4, <2>1, <3>1
  <2>2. CASE report' = stats /\ at' = "cleanup" /\ pc # "process"
    <3>1. InDates(Request) = Done(Request) /\ InDates(Response) = Done(Response)
      BY <2>2 DEF Handled, Done, InDates
    <3>2. Agrees(stats)
      BY <3>1, CounterFacts DEF Agrees
    <3> QED
      BY <1>4, <2>2, <3>2
  <2> QED
    BY <2>1, <2>2
<1>6. /\ \A c \in OpCounter : stats'[c] = Cardinality(Of(c)')
      /\ stats'["requestsProcessed"] = Cardinality(Done(Request)')
      /\ stats'["responsesProcessed"] = Cardinality(Done(Response)')
  BY <1>3, CounterFacts
<1> QED
  BY <1>1, <1>5, <1>6

\* Every step preserves it.
LEMMA TallyStep ==
  OnlyInv /\ AtHand /\ TypeOK' /\ Tally /\ [MainNext]_all => Tally'
<1> SUFFICES ASSUME OnlyInv, AtHand, TypeOK', Tally, [MainNext]_all PROVE Tally'
  OBVIOUS
<1> DEFINE Late == {"process", "catch", "cleanup", "ended", "killed", "crashed"}
<1>1. /\ at \in Place /\ stats \in [Counter -> Nat]
      /\ at \in Late \/ pc # "process"
      /\ report # NoReport => at \in {"cleanup", "ended", "killed"}
  BY DEF Tally, AtHand
<1> USE DEF Place, InLoop
<1>2. CASE \/ Refuse \/ InputOpened \/ OpenSync \/ OpenDisplay \/ EndOfInput \/ CheckPause
           \/ Answered \/ Resumed
  <2>1. UNCHANGED <<full, stats, report>> /\ at \notin Late
    BY <1>2 DEF Refuse, InputOpened, OpenSync, OpenDisplay, EndOfInput, CheckPause,
                Answered, Resumed, Resume, outside
  <2> QED
    BY <1>1, <2>1, TallyKept
<1>3. ASSUME NEW input, OpenInput(input) PROVE Tally'
  <2>1. UNCHANGED <<full, stats, report>> /\ at \notin Late
    BY <1>3 DEF OpenInput, outside
  <2> QED
    BY <1>1, <2>1, TallyKept
<1>4. ASSUME NEW f, ReadLine(f) PROVE Tally'
  <2>1. UNCHANGED <<full, report>> /\ at \notin Late /\ Count({"linesRead"})
    BY <1>4 DEF ReadLine
  <2>2. /\ stats' \in [Counter -> Nat]
        /\ \A c \in Counter \ {"linesRead"} : stats'[c] = stats[c]
    BY <1>1, <2>1, CountFacts
  <2> QED
    BY <1>1, <2>1, <2>2, TallyKept
<1>5. CASE HandOver
  BY <1>5, HandOverTallies
<1>6. CASE Processed
  BY <1>6, ProcessedTallies
<1>7. CASE WriteReport
  <2>1. UNCHANGED <<full, stats>> /\ at = "report" /\ at' \in {"cleanup", "catch"}
    BY <1>7 DEF WriteReport
  <2>2. report' = report \/ (report' = stats /\ at' = "cleanup")
    BY <1>7 DEF WriteReport
  <2> QED
    BY <1>1, <2>1, <2>2, TallyKept
<1>8. CASE Catch \/ Cleanup
  <2>1. UNCHANGED <<full, stats, report>> /\ at \in {"catch", "cleanup"}
        /\ at' \in {"cleanup", "ended"}
    BY <1>8 DEF Catch, Cleanup
  <2> QED
    BY <1>1, <2>1, TallyKept
<1>9. CASE Sigint
  <2>1. UNCHANGED <<full, stats, report>> /\ at' \in {at, "killed"}
    BY <1>9 DEF Sigint, Note
  <2> QED
    BY <1>1, <2>1, TallyKept
<1>10. ASSUME NEW k, Answer(k) PROVE Tally'
  <2>1. UNCHANGED <<full, stats, report, at>>
    BY <1>10 DEF Answer, outside
  <2> QED
    BY <1>1, <2>1, TallyKept
<1>11. CASE UNCHANGED all
  <2>1. UNCHANGED <<full, stats, report, at>>
    BY <1>11 DEF all, main, control, outside
  <2> QED
    BY <1>1, <2>1, TallyKept
<1> QED
  BY <1>2, <1>3, <1>4, <1>5, <1>6, <1>7, <1>8, <1>9, <1>10, <1>11
  DEF MainNext, Program, User

\* The report agrees with the trace, however the replay was ended
\* (stats.hpp:41-82, transaction_mgr.cpp:82-96).
THEOREM ReportIsTrue == MainSpec => []ReportTrue
<1>1. MainInit => AtHand /\ Tally
  <2> SUFFICES ASSUME MainInit PROVE AtHand /\ Tally
    OBVIOUS
  <2>1. /\ at = "start" /\ pc = "read" /\ trace = <<>> /\ report = NoReport
        /\ stats = [c \in Counter |-> 0]
    BY DEF MainInit, MgrInit
  <2>2. Len(trace) = 0 /\ Handled = 0
    BY <2>1 DEF Handled
  <2>3. (\A c : Of(c) = {}) /\ \A S : Done(S) = {}
    BY <2>2 DEF Of, Done
  <2>4. AtHand
    BY <2>1 DEF AtHand, Place
  <2> QED
    BY <2>1, <2>3, <2>4, FS_EmptySet, CounterFacts DEF Tally
<1>2. Tally => ReportTrue
  BY DEF Tally, ReportTrue
<1>3. MgrSpec => []OnlyInv
  BY OnlyInvInit, OnlyInvStep, PTL DEF MgrSpec
<1>4. MainSpec => []OnlyInv
  BY <1>3, DrivesManager, PTL DEF ManagerDriven
<1> QED
  BY <1>1, <1>2, <1>4, TallyStep, StepIsManagers, ProgramTyped, PTL DEF MainSpec
=============================================================================
