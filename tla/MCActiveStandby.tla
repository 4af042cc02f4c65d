------------------------- MODULE MCActiveStandby -------------------------
(* The pair of nodes 1 and 2 for TLC. *)
EXTENDS ActiveStandby

PairOfNodes == {1, 2}
OtherNode   == [n \in PairOfNodes |-> 3 - n]
=============================================================================
