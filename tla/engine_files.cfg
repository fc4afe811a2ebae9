\* A directory of the name h1 and two files or directories; a trace that may hold anything, and a disk that may fail.
CONSTANTS
  h1 = h1
  h2 = h2
  h3 = h3
  h4 = h4
  n1 = n1
  n2 = n2
  n3 = n3
  n4 = n4
  x = x
  y = y
  NoHandle = NoHandle
  NoName = NoName
  NoNode = 0
  Handle = {h1, h2, h3}
  Name = {n1, n2, n3, x}
  Node = {1, 2, 3}
  handleName <- HandleNames
  Exchange <- FileExchange
  Faults <- DiskFaults
  GcTimes = {5}
  HardThreshold = 2
  Discard = 5
  DiscardHard = 1
  SizeSpace = 8
  InodeTest = FALSE
  Times = {0}
  Sizes = {0}
SPECIFICATION Spec
INVARIANTS TreeConsistent EntryResolves
SYMMETRY FilesAlike
\* An exception ends the replay.
CHECK_DEADLOCK FALSE
