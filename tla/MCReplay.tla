------------------------------- MODULE MCReplay -------------------------------
(* Instances of Replay for TLC. *)
EXTENDS Replay

Bar(open, high, low, close) == [open |-> open, high |-> high, low |-> low, close |-> close]

TwoNames == <<"a", "b">>
Level == Bar(12800, 12800, 12800, 12800)
Rising == Bar(12800, 16000, 12800, 16000)
Spike == Bar(16000, 25600, 16000, 25600)
Easing == Bar(25600, 25600, 19200, 19200)
Low == Bar(6400, 6400, 6400, 6400)
FourShapes == {Rising, Spike, Easing, Low}

\* The second one refuses an order whose signal was made above 18000.
Unlimited == [order |-> 10^6, position |-> 10^6, open |-> 2, daily |-> 10]
Tight == [order |-> 18000, position |-> 17000, open |-> 1, daily |-> 1]
Both == {Unlimited, Tight}
=============================================================================
