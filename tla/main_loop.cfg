\* An input of three lines, replayed from a second after it begins, for a second; SIGINT
\* arrives twice, and the user answers every pause.
CONSTANTS
  h1 = h1
  h2 = h2
  n1 = n1
  n2 = n2
  x = x
  NoHandle = NoHandle
  NoName = NoName
  NoNode = 0
  Handle = {h1, h2}
  Name = {n1, n2, x}
  Node = {1, 2}
  handleName <- HandleNames
  Request <- Requests
  Response <- Responses
  Exchange <- Exchanges
  Faults <- NoFaults
  Times = {1, 2, 3, 4}
  GcTimes = {1, 2, 3, 4}
  c1 = c1
  HardThreshold = 1
  Discard = 5
  DiscardHard = 5
  SizeSpace = 8
  InodeTest = FALSE
  MaxTransactionTime = 1
  GcThreshold = 0
  GcInterval = 1
  SyncInterval = 1
  noSync = FALSE
  enableGC = TRUE
  StartTime <- Unset
  StartAfter = 1
  EndTime <- Unset
  EndAfter = 1
  TraceLength = 3
  LineLimit = 3
  SignalLimit = 2
  Inputs = {"file", "stdin"}
  Key = {"q", "x", "Enter"}
  Enter = "Enter"
  reportGiven = TRUE
  Ops = {"LOOKUP", "SYMLINK"}
  Dirs = {h1}
SPECIFICATION FairSpec
INVARIANTS  ReportTrue ExchangesReplayed
PROPERTIES PausesOnDemand 
\* The program ends.
CHECK_DEADLOCK FALSE
