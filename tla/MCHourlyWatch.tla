--------------------------- MODULE MCHourlyWatch ---------------------------
(* Instances of HourlyWatch for TLC: a quiet hour and one where everything  *)
(* the watch looks for happens.                                             *)
EXTENDS HourlyWatch

Quiet == [api |-> [p \in Portfolios |-> 0], errors |-> [p \in Portfolios |-> 0], missing |-> [p \in Portfolios |-> 0],
          market |-> TRUE, gaps |-> {}, rate |-> [s \in Benchmarks \cup Stocks |-> 0],
          bought |-> {}, reason |-> [s \in Stocks |-> "spread"]]

\* The market falls apart and the stock runs away; part of it has no bars.
Moved == [Quiet EXCEPT !.errors = [p \in Portfolios |-> IF p = "rule" THEN 1 ELSE 0],
                       !.api = [p \in Portfolios |-> IF p = "hermes" THEN 2 ELSE 0],
                       !.gaps = {"229200"},
                       !.rate = [s \in Benchmarks \cup Stocks |->
                                   CASE s = Lead -> -2 [] s \in Stocks -> 5 [] OTHER -> 1]]

Seen == {Quiet, Moved}

SomeBounds == {[starts |-> 2, faults |-> 1, days |-> 1],
                [starts |-> 1, faults |-> 2, days |-> 2]}
=============================================================================
