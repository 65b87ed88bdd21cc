SPECIFICATION Spec
CONSTANTS
  q1 = q1
  q2 = q2
  Requests <- RequestSet
  Services <- TwoServices
  Events <- LateVisaAndChecklist
SYMMETRY RequestSymmetry
INVARIANTS TypeOK DepartsOnlyPaid ChecklistMovesNoUnpaidCase ChecklistLeavesNoGap
PROPERTIES KeepsToTheDesk NeverDraggedBack
CONSTRAINT OneCreditPerKind
CHECK_DEADLOCK FALSE
