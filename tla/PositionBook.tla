---------------------------- MODULE PositionBook ----------------------------
(***************************************************************************)
(* What a paper portfolio promises about its positions, without cycles,    *)
(* signals or storage: heat is reserved before a position is opened, a     *)
(* position is opened at the size that was reserved and closed whole, and  *)
(* the reservation outlives the position.  A position that never had a     *)
(* reservation is left alone and stops every new one.                      *)
(***************************************************************************)
EXTENDS Integers, Lots

CONSTANTS Symbols, Clusters, ClusterOf, PerTradeHeat, MaxOpenHeat, MaxClusterHeat,
          Legacy

VARIABLES reserved,  \* symbol -> heat reserved for it (0: none)
          held       \* symbol -> lots held

bookVars == <<reserved, held>>

Init ==
  /\ reserved = [s \in Symbols |-> 0]
  /\ \E L \in SUBSET Legacy : held = [s \in Symbols |-> IF s \in L THEN 1 ELSE 0]

Reserve(s, q) ==
  /\ reserved[s] = 0 /\ held[s] = 0
  /\ \A t \in Symbols : held[t] > 0 => reserved[t] > 0
  /\ Total(reserved, Symbols) + q <= MaxOpenHeat
  /\ Total(reserved, {t \in Symbols : ClusterOf[t] = ClusterOf[s]}) + q
       <= MaxClusterHeat
  /\ reserved' = [reserved EXCEPT ![s] = q]
  /\ UNCHANGED held

Release(s) ==
  /\ reserved[s] > 0 /\ held[s] = 0
  /\ reserved' = [reserved EXCEPT ![s] = 0]
  /\ UNCHANGED held

Open(s) ==
  /\ reserved[s] > 0 /\ held[s] = 0
  /\ held' = [held EXCEPT ![s] = reserved[s]]
  /\ UNCHANGED reserved

Close(s) ==
  /\ held[s] > 0 /\ reserved[s] = held[s]
  /\ held' = [held EXCEPT ![s] = 0]
  /\ UNCHANGED reserved

Next ==
  \E s \in Symbols :
    \/ \E q \in 1..PerTradeHeat : Reserve(s, q)
    \/ Release(s) \/ Open(s) \/ Close(s)

Spec == Init /\ [][Next]_bookVars
=============================================================================
