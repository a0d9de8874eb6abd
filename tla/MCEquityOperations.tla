------------------------- MODULE MCEquityOperations -------------------------
(* Instances of EquityOperations for TLC. *)
EXTENDS EquityOperations, TLC

CONSTANTS o1, o2

TwoOps == {o1, o2}
OneOp == {o1}
OnlyO1 == {o1}
Equal == [o \in Jobs |-> 2]
Now == {0}
=============================================================================
