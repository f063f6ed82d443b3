SPECIFICATION FairSpec
CONSTANTS
  None = None
  a1 = a1
  a2 = a2
  Messages <- Mixed
  Workers = {w1, w2}
  OwnHost = {a1, a2}
  MaxAttempts = 1
  Faults = {}
PROPERTIES EveryTransactionAnswered EveryReportCompleted ImplementsLedger
CHECK_DEADLOCK FALSE
