CONSTANTS
  None = None
  n1 = n1
  n2 = n2
  n3 = n3
  n4 = n4
  Node = {n1, n2, n3}
  root = n1
  Commands = {"stop node", "stop all", "clear branch", "clear all"}
SPECIFICATION TSpec
SYMMETRY MCSymmetry
CHECK_DEADLOCK FALSE
INVARIANTS
  NothingForgotten
PROPERTIES
  NothingUndone
