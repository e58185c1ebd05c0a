CONSTANTS
  k1 = k1
  k2 = k2
  k3 = k3
  a = a
  b = b
  NULL = NULL
  Keys = {k1, k2, k3}
  Values = {a, b}
  NumSlots = 2
  MaxChain = 3
  get_hash <- MCHash
SPECIFICATION Spec
CHECK_DEADLOCK FALSE
INVARIANTS
  Placed
  FreedOnceIfAlone
PROPERTIES
  ImplementsFirstMap
