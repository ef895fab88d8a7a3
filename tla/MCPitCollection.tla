--------------------------- MODULE MCPitCollection ---------------------------
(* Instances of PitCollection for TLC. *)
EXTENDS PitCollection

CONSTANTS block, announce

\* The second day is a holiday.
Calendar == {1, 3, 4, 5, 6, 7, 8}
\* Foreign investors sell the first session and buy the others.
Bought == [s \in Sessions |-> IF s = 1 THEN -1 ELSE 2]
\* A pullback.
Shown == {[pullback |-> TRUE, oversold |-> FALSE, chase |-> FALSE, knife |-> FALSE]}
Few == [faults |-> 1, manual |-> 1]
=============================================================================
