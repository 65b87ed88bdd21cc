-------------------------- MODULE MCNotifications --------------------------
EXTENDS Notifications, TLC
CONSTANTS n1, n2, n3, w1, w2
NoticeSet == {n1, n2, n3}
WorkerSet == {w1, w2}
BothSymmetries == Permutations(NoticeSet) \cup Permutations(WorkerSet)
=============================================================================
