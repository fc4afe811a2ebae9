\* Traces of four frames, with two transaction ids, in any order of their times; the
\* replay begins after the first second.
CONSTANTS
  h1 = h1
  h2 = h2
  n1 = n1
  n2 = n2
  x = x
  NoHandle = NoHandle
  NoName = NoName
  NoNode = 0
  Handle = {h1, h2}
  Name = {n1, n2, x}
  Node = {1, 2}
  handleName <- HandleNames
  Request <- Requests
  Response <- Responses
  Exchange <- Exchanges
  Faults <- NoFaults
  Times = {1, 2, 3}
  GcTimes = {1, 2, 3}
  Xid = {c1, c2}
  c1 = c1
  c2 = c2
  HardThreshold = 1
  Discard = 5
  DiscardHard = 5
  SizeSpace = 8
  InodeTest = FALSE
  MaxTransactionTime = 0
  GcThreshold = 0
  GcInterval = 0
  SyncInterval = 1
  noSync = FALSE
  enableGC = TRUE
  StartTime = 1
  StartAfter <- Unset
  EndTime <- Unset
  EndAfter <- Unset
  TraceLength = 4
SPECIFICATION MgrSpec
SYMMETRY XidsAlike
INVARIANTS ExchangesReplayed OnlyExchangesReplayed SyncedInTime
PROPERTIES EngineDriven
\* The trace ends.
CHECK_DEADLOCK FALSE
