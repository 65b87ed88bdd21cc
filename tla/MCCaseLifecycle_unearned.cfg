SPECIFICATION Spec
CONSTANTS
  q1 = q1
  q2 = q2
  Requests <- RequestSet
  Services = {"BACHELOR"}
  Events <- SchoolInvoice
SYMMETRY RequestSymmetry
INVARIANTS PastPrepaymentIsPaid
CHECK_DEADLOCK FALSE
