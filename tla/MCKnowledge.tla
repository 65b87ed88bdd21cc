---------------------------- MODULE MCKnowledge ----------------------------
EXTENDS Knowledge, TLC
CONSTANTS q1, q2, w1, w2, t1, t2, b1, b2
RequestSet == {q1, q2}
WorkerSet == {w1, w2}
TitleSet == {t1, t2}
EverySymmetry ==
  Permutations(RequestSet) \cup Permutations(WorkerSet) \cup Permutations(TitleSet)
=============================================================================
