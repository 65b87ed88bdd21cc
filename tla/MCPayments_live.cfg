SPECIFICATION FairSpec
CONSTANTS
  q1 = q1
  q2 = q2
  Requests <- RequestSet
  Rows = {1}
  Invoices = {1}
  Service = "BACHELOR"
  Handlers = {"create", "reissue", "manual", "poll", "sweep"}
  Moves = {}
  Outages = TRUE
PROPERTIES InvoiceIsResolved
CHECK_DEADLOCK FALSE
