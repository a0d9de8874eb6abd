----------------------------- MODULE MCJobQueue -----------------------------
(* Instances of JobQueue for TLC. *)
EXTENDS JobQueue, TLC

CONSTANTS j1, j2

OneJob == {j1}
TwoJobs == {j1, j2}
SameRank == [j \in Jobs |-> 2]
\* j1 is urgent, j2 is not
MixedRank == [j \in Jobs |-> IF j = j1 THEN 0 ELSE 2]
NowOrLater == {0, 1}
NowOnly == {0}

WorkerSymmetry == Permutations(Workers)
=============================================================================
