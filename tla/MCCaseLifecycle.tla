-------------------------- MODULE MCCaseLifecycle --------------------------
EXTENDS CaseLifecycle, TLC
CONSTANTS q1, q2
RequestSet == {q1, q2}
RequestSymmetry == Permutations(RequestSet)

(* Two services of the two shapes of line, each with its own event.        *)
TwoServices == {"BACHELOR", "GKS_SCHOLARSHIP"}
LateVisaAndChecklist ==
  [s \in TwoServices |->
     IF s = "BACHELOR" THEN {"VISA_APPROVED"} ELSE {"DOCUMENTS"}]

(* lifecycle_unearned: a school invoice, whatever stage the case is at.    *)
SchoolInvoice == [s \in {"BACHELOR"} |-> {"TUITION_INVOICED"}]

(* Bound of lifecycle_safety: a kind once credited is not invoiced again.  *)
(* A second credit of a kind owes the same move as the first and leaves    *)
(* `credited` as it is, so it adds states and no behaviour of the stage;   *)
(* the proofs are without this bound.                                      *)
OneCreditPerKind == open \cap credited = {}
=============================================================================
