SPECIFICATION Spec
CONSTANTS
  q1 = q1
  q2 = q2
  w1 = w1
  w2 = w2
  t1 = t1
  t2 = t2
  b1 = b1
  b2 = b2
  Requests <- RequestSet
  Workers <- WorkerSet
  Titles <- TitleSet
  Bodies = {b1, b2}
  Blank = {b2}
  Levels = {"PUBLIC", "INTERNAL"}
  Attempts = 2
  MaxStalls = 1
  MaxWrites = 2
  MaxFaults = 2
SYMMETRY EverySymmetry
INVARIANTS TypeOK HashIsHonest IndexFollowsTheDocument PulledDownIsSilent
CHECK_DEADLOCK FALSE
