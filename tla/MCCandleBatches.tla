---------------------------- MODULE MCCandleBatches ----------------------------
(* Instances of CandleBatches for TLC. *)
EXTENDS CandleBatches, TLC

CONSTANTS v1, v2

Symmetric == Permutations(Batches)

Final(t, v) == [time |-> t, value |-> v, final |-> TRUE, valid |-> TRUE]
Open(t, v) == [Final(t, v) EXCEPT !.final = FALSE]
Bad(t, v) == [Final(t, v) EXCEPT !.valid = FALSE]

\* In order and not, twice in one chunk and in two, with a gap, with an invalid row.
Files == {<<>>,
          <<Final(1, v1), Final(2, v1)>>,
          <<Final(2, v1), Final(1, v2)>>,
          <<Final(1, v1), Final(3, v1)>>,
          <<Final(2, v1), Bad(1, v1), Final(2, v2)>>}

\* The provider's last candle is open until the next begins.
Answers == {<<>>,
            <<Open(1, v1)>>,
            <<Final(1, v1), Open(2, v1)>>,
            <<Final(1, v2), Final(2, v2)>>,
            <<Open(2, v2), Final(2, v1)>>,
            <<Open(1, v1), Bad(2, v1), Final(1, v2)>>,
            <<Open(2, v1), Open(1, v2)>>}
=============================================================================
