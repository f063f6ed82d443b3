SPECIFICATION Spec
CONSTANTS
  None = None
  a1 = a1
  a2 = a2
  Messages <- OnlyTransactions
  Workers = {w1, w2}
  OwnHost = {a1, a2}
  MaxAttempts = 1
  Faults = {}
SYMMETRY Symmetry
INVARIANTS OrdersUnique
CHECK_DEADLOCK FALSE
