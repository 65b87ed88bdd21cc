SPECIFICATION Spec
CONSTANTS
  r1 = r1
  r2 = r2
  q1 = q1
  q2 = q2
  w1 = w1
  w2 = w2
  Recipients <- RecipientSet
  Batch = 1
  Requests <- RequestSet
  Workers <- WorkerSet
  MaxFaults = 1
SYMMETRY AllSymmetries
INVARIANTS TypeOK  StopLeavesOneBatch NobodyIsForgotten 
CHECK_DEADLOCK FALSE
