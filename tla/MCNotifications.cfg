SPECIFICATION Spec
CONSTANTS
  n1 = n1
  n2 = n2
  n3 = n3
  w1 = w1
  w2 = w2
  Notices <- NoticeSet
  Sms <- NoticeSet
  Workers <- WorkerSet
  Attempts = 2
  Limit = 1
  MaxStalls = 1
  MaxFaults = 2
SYMMETRY BothSymmetries
INVARIANTS TypeOK SentOnceButForFaults BudgetIsKept StuckOnlyByFault
CHECK_DEADLOCK FALSE
