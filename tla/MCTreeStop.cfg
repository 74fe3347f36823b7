CONSTANTS
  None = None
  n1 = n1
  n2 = n2
  n3 = n3
  n4 = n4
  Node = {n1, n2, n3, n4}
  root = n1
  Commands = {"stop node"}
SPECIFICATION TFairSpec
CHECK_DEADLOCK FALSE
INVARIANTS
  OneAtATime
  ParentFirst
  StopWins
PROPERTIES
  QueuedGetsItsTurn
