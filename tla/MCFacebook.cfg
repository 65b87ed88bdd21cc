SPECIFICATION Spec
CONSTANTS
  MaxLog = 5
  MaxWritten = 2
  MaxTakes = 1
  Attempts = 2
  MaxFaults = 1
INVARIANTS
  TypeOK
  AnsweredOnce
  QuietWhileTaken
  
CHECK_DEADLOCK FALSE
