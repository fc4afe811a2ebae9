\* Three handles whose names are the only names; a trace that may hold anything.
CONSTANTS
  h1 = h1
  h2 = h2
  h3 = h3
  h4 = h4
  n1 = n1
  n2 = n2
  n3 = n3
  n4 = n4
  x = x
  y = y
  NoHandle = NoHandle
  NoName = NoName
  NoNode = 0
  Handle = {h1, h2, h3}
  Name = {n1, n2, n3}
  Node = {1, 2, 3}
  handleName <- HandleNames
  Exchange <- TreeExchange
  Faults <- NoFaults
  GcTimes = {5}
  HardThreshold = 2
  Discard = 5
  DiscardHard = 1
  SizeSpace = 8
  InodeTest = FALSE
  Times = {0}
  Sizes = {0}
SPECIFICATION Spec
INVARIANTS TypeOK TreeConsistent PathsDistinct NoInternalError
SYMMETRY AllAlike
\* An exception ends the replay.
CHECK_DEADLOCK FALSE
