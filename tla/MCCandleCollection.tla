------------------------- MODULE MCCandleCollection -------------------------
(* Instances of CandleCollection for TLC. *)
EXTENDS CandleCollection, TLC

CONSTANTS p1, p2, a, b

Both == <<a, b>>
ProcessSymmetry == Permutations(Processes)
=============================================================================
