CONSTANTS
  n1 = n1
  n2 = n2
  n3 = n3
  a = a
  b = b
  NULL = NULL
  Nodes = {n1, n2, n3}
  Values = {a, b}
  Positions = {0, 1, 2, 3, 4}
SPECIFICATION Spec
SYMMETRY Addresses
CHECK_DEADLOCK FALSE
INVARIANTS
  WellFormed
  OneOwner
PROPERTIES
  ImplementsSeqList
  FreedUntouched
