\* The complete trace of an export with two files below its root.
CONSTANTS
  h1 = h1
  h2 = h2
  h3 = h3
  h4 = h4
  n1 = n1
  n2 = n2
  n3 = n3
  n4 = n4
  x = x
  y = y
  root = h1
  NoHandle = NoHandle
  NoName = NoName
  NoNode = 0
  Handle = {h1, h2, h3}
  Name = {n1, n2, n3, x, y}
  Node = {1, 2, 3, 4, 5, 6}
  handleName <- HandleNames
  Exchange <- LengthExchange
  Faults <- NoFaults
  GcTimes = {5}
  HardThreshold = 10
  Discard = 1
  DiscardHard = 0
  SizeSpace = 16
  InodeTest = FALSE
  Times = {0}
  Sizes = {0, 1, 2}
SPECIFICATION FollowedSpec
INVARIANTS LengthsReplayed LinksShared 
SYMMETRY AlikeBelow
VIEW View
\* Handles are used up, and an exception ends the replay.
CHECK_DEADLOCK FALSE
