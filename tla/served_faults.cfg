\* A complete trace, on a disk on which system calls fail.
CONSTANTS
  h1 = h1
  h2 = h2
  h3 = h3
  h4 = h4
  n1 = n1
  n2 = n2
  n3 = n3
  n4 = n4
  x = x
  y = y
  root = h1
  NoHandle = NoHandle
  NoName = NoName
  NoNode = 0
  Handle = {h1, h2, h3, h4}
  Name = {n1, n2, n3, n4, x, y}
  Node = {1, 2, 3, 4, 5, 6, 7}
  handleName <- HandleNames
  Exchange <- FaultyExchange
  Faults <- SingleFaults
  GcTimes = {5}
  HardThreshold = 10
  Discard = 1
  DiscardHard = 0
  SizeSpace = 8
  InodeTest = FALSE
  Times = {0}
  Sizes = {0}
SPECIFICATION FollowedSpec
INVARIANTS Mirror NoException
SYMMETRY AlikeBelow
VIEW View
\* Handles are used up, and an exception ends the replay.
CHECK_DEADLOCK FALSE
