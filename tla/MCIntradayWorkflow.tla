------------------------- MODULE MCIntradayWorkflow -------------------------
(* Instances of IntradayWorkflow for TLC. *)
EXTENDS IntradayWorkflow, TLC

CONSTANTS s1, r1, r2

OneSymbol == {s1}
SameOvernight == {[p \in Portfolios |-> S] : S \in SUBSET Symbols}
TwoRunners == {r1, r2}
Symmetry == Permutations(TwoRunners)
=============================================================================
