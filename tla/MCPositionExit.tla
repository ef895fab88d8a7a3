--------------------------- MODULE MCPositionExit ---------------------------
(* Instances of PositionExit for TLC. *)
EXTENDS PositionExit

TwoPrices == {1, 2}
=============================================================================
