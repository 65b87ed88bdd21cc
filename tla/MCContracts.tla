----------------------------- MODULE MCContracts -----------------------------
EXTENDS Contracts, TLC
CONSTANTS q1, q2
RequestSet == {q1, q2}
RequestSymmetry == Permutations(RequestSet)
=============================================================================
