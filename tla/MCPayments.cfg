SPECIFICATION Spec
CONSTANTS
  q1 = q1
  q2 = q2
  Requests <- RequestSet
  Rows = {1, 2}
  Invoices = {1}
  Service = "BACHELOR"
  Handlers = {"create", "reissue", "manual", "webhook", "poll", "sweep", "refund"}
  Moves = {"ON_HOLD"}
  Outages = TRUE
SYMMETRY RequestSymmetry
INVARIANTS TypeOK  ProgressIsPaid NoDeadQrOffered
PROPERTIES KeepsTheLedger
CHECK_DEADLOCK FALSE
