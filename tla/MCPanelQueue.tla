---------------------------- MODULE MCPanelQueue ----------------------------
(* Instances of PanelQueue for TLC. *)
EXTENDS PanelQueue, TLC

CONSTANTS daily, hourly, r1, r2, analyst, skeptic

RunSymmetry == Permutations({r1, r2})
=============================================================================
