---------------------------- MODULE MCPaperCycle ----------------------------
(* Instances of PaperCycle for TLC. *)
EXTENDS PaperCycle, TLC

CONSTANTS a, b, c1, c2, r1, r2

OneCluster == [s \in Symbols |-> c1]
TwoClusters == [s \in Symbols |-> IF s = a THEN c1 ELSE c2]

SymbolSymmetry == Permutations({a, b})
=============================================================================
