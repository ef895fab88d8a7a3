-------------------------------- MODULE Lots --------------------------------
(***************************************************************************)
(* Sums of the lots (of heat or of cash) that a function gives the members *)
(* of a finite set.  A sum is the number of single lots, so that facts on  *)
(* sums are facts on the cardinalities of finite sets.                     *)
(***************************************************************************)
EXTENDS Integers, FiniteSets

\* The single lots of the members of S.
LotsOf(f, S) == UNION {{s} \X (1..f[s]) : s \in S}

Total(f, S) == Cardinality(LotsOf(f, S))
=============================================================================
