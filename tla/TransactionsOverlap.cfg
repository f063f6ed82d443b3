SPECIFICATION Spec
CONSTANTS
  None = None
  a1 = a1
  a2 = a2
  Messages <- Few
  Workers = {w1, w2}
  OwnHost = {a1, a2}
  MaxAttempts = 2
  Faults = {"db", "send", "timeout", "crash"}
SYMMETRY Symmetry
INVARIANTS TypeOK AcceptedIsRecorded CollisionsNeedOverlap OrdersContiguous
PROPERTIES OrderFollowsTime ReportFaithful
CHECK_DEADLOCK FALSE
