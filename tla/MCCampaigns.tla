---------------------------- MODULE MCCampaigns ----------------------------
EXTENDS Campaigns, TLC
CONSTANTS r1, r2, q1, q2, w1, w2
RecipientSet == {r1, r2}
RequestSet == {q1, q2}
WorkerSet == {w1, w2}
AllSymmetries ==
  Permutations(RecipientSet) \cup Permutations(RequestSet) \cup Permutations(WorkerSet)
=============================================================================
