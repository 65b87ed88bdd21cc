SPECIFICATION Spec
CONSTANTS
  q1 = q1
  q2 = q2
  Requests <- RequestSet
  Versions = {1, 2}
  Codes = {1, 2}
  Service = "BACHELOR"
  Moves = {"ON_HOLD", "CONTRACT_DRAFT", "DOCUMENTS"}
SYMMETRY RequestSymmetry
INVARIANTS TypeOK  AcceptedIsMailed
PROPERTIES SignatureMovesTheCase
CHECK_DEADLOCK FALSE
