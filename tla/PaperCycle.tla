----------------------------- MODULE PaperCycle -----------------------------
(***************************************************************************)
(* One paper portfolio and the cycles that trade it                        *)
(* (src/src/toss_trader/cycle.py, execution.py and the ledger of paper.py).*)
(*                                                                         *)
(* The portfolio is three tables: the fills, whose unique signal ids are   *)
(* `fills` and whose sums are `pos` and `cash`, and the position plans.    *)
(* Every statement on them commits by itself.  A cycle (PaperCycleRunner)  *)
(* is a process of its own that evaluates its symbols one by one, stores   *)
(* the plans of the entries it armed, submits the signals one by one and   *)
(* finally removes the plans that have no position.  It may be killed      *)
(* between any two of these steps, and nothing in the program keeps a      *)
(* second cycle of the same portfolio from running at the same time.       *)
(*                                                                         *)
(* A lot costs one unit of cash and carries one unit of heat; prices,      *)
(* bars and the advisor's opinion are choices of the environment.          *)
(***************************************************************************)
EXTENDS Integers, FiniteSets, Lots

CONSTANTS
  Symbols,          \* the symbols the universe may select
  Clusters,         \* the sector clusters
  ClusterOf,        \* symbol -> cluster
  Runners,          \* the cycle processes that may be active at the same time
  Legacy,           \* symbols that may be held from before plans existed
  Hunter,           \* TRUE for the Hermes portfolio: momentum entries after 10:01
  Faults,           \* which of {"kill", "store", "plan", "evaluate"} may happen
  PerTradeHeat,     \* most heat of one entry
  MaxOpenHeat,      \* most heat of all plans together, at the highest equity
  MaxClusterHeat,   \* most heat of the plans of one cluster, at the highest equity
  InitialCash,
  ExitLosses,       \* what an exit may return less than the entry cost
  MaxDailyBuys,
  MaxOpenPositions,
  MaxDay            \* bound: trading days explored

ASSUME LimitsAssumption ==
  /\ PerTradeHeat \in Nat /\ MaxOpenHeat \in Nat /\ MaxClusterHeat \in Nat
  /\ ExitLosses \subseteq Nat /\ InitialCash \in Nat /\ MaxDailyBuys \in Nat /\ MaxOpenPositions \in Nat
  /\ MaxDay \in Nat \ {0}

ASSUME SetsAssumption ==
  /\ IsFiniteSet(Symbols)
  /\ Legacy \subseteq Symbols
  /\ ClusterOf \in [Symbols -> Clusters]
  /\ Hunter \in BOOLEAN

VARIABLES
  day, phase,  \* the trading day; 1: to 09:30, 2: later, with 10:01-10:05
  fills,       \* the unique signal ids of the fills
  pos,         \* symbol -> bought minus sold
  cash,
  plans,       \* symbol -> its row of paper_v2_position_plans, or NoPlan
  legacy,      \* the positions that were there before plans existed
  pc,          \* runner -> the stage of its cycle
  todo,        \* runner -> symbols the stage has not handled yet
  sig,         \* runner -> symbol -> the signal it carries
  approved,    \* runner -> the symbol approved and not yet written, if any
  prepared,    \* runner -> symbols whose plan it stored (prepared_v2_plans)
  filled       \* runner -> symbols whose signal it filled

ledgerVars == <<fills, pos, cash>>
clockVars == <<day, phase>>
runVars == <<pc, todo, sig, approved, prepared, filled>>
vars == <<day, phase, fills, pos, cash, plans, legacy,
          pc, todo, sig, approved, prepared, filled>>

-----------------------------------------------------------------------------
(* Data *)

\* A trigger key: the day and the bar that touched the stop; bar 0 is the
\* completed daily bar of the session before.
Key == Nat \X Nat
NoKey == <<0, 0>>

Plan == [qty : Nat, day : Nat, pending : Key]
NoPlan == [qty |-> 0, day |-> 0, pending |-> NoKey]
HasPlan(s) == plans[s].qty > 0

Kinds == {"v2", "hunter", "exit"}
Signal == [side : {"NONE", "BUY", "SELL"}, kind : Kinds, key : Key, qty : Nat]
NoSignal == [side |-> "NONE", kind |-> "v2", key |-> NoKey, qty |-> 0]
NoSignals == [s \in Symbols |-> NoSignal]

\* signal_id: the namespace of the portfolio is the same for all its signals.
SignalId(s, signal) == <<signal.kind, s, signal.key>>
SignalIds == Kinds \X Symbols \X Key

EntrySignal(kind, q) ==
  [side |-> "BUY", kind |-> kind, key |-> <<day, 0>>, qty |-> q]

\* Mutant: a signed quantity.
SellSignalSigned(s, key) ==
  [side |-> "SELL", kind |-> "exit", key |-> key, qty |-> -plans[s].qty]

\* _v2_sell_signal: the quantity sold is the quantity of the plan.
SellSignal(s, key) ==
  [side |-> "SELL", kind |-> "exit", key |-> key, qty |-> plans[s].qty]

-----------------------------------------------------------------------------
(* What a cycle reads from the ledger *)

Held == {s \in Symbols : pos[s] > 0}
Unplanned == {s \in Held : ~HasPlan(s)}

Heat == [s \in Symbols |-> plans[s].qty]
OpenHeat == Total(Heat, Symbols)
ClusterMembers(c) == {s \in Symbols : ClusterOf[s] = c}
ClusterHeat(c) == Total(Heat, ClusterMembers(c))

\* reserved_open_heat, reserved_cluster_heat and reserved_cash of the cycle.
Armed(r) == [s \in Symbols |-> IF sig[r][s].side = "BUY" THEN sig[r][s].qty ELSE 0]
\* Mutant: what is armed in the same cycle is not reserved.
ReservedNothing(r, S) == 0

Reserved(r, S) == Total(Armed(r), S)

\* position_size_reference: no more lots than any of the budgets allows.
FitsBudgets(r, s, q) ==
  /\ q + OpenHeat + Reserved(r, Symbols) <= MaxOpenHeat
  /\ q + ClusterHeat(ClusterOf[s]) + Reserved(r, ClusterMembers(ClusterOf[s]))
       <= MaxClusterHeat
  /\ q + Reserved(r, Symbols) <= cash

BuysOn(d) == Cardinality({f \in fills : f[1] # "exit" /\ f[3][1] = d})

-----------------------------------------------------------------------------
(* A cycle starts, ends or dies *)

Reset(r) ==
  /\ pc' = [pc EXCEPT ![r] = "idle"]
  /\ todo' = [todo EXCEPT ![r] = {}]
  /\ sig' = [sig EXCEPT ![r] = NoSignals]
  /\ approved' = [approved EXCEPT ![r] = {}]
  /\ prepared' = [prepared EXCEPT ![r] = {}]
  /\ filled' = [filled EXCEPT ![r] = {}]

\* The cycle's symbols are the universe's selection and what is held.
Start(r) ==
  /\ pc[r] = "idle"
  /\ \E selected \in SUBSET Symbols :
       /\ selected \cup Held # {}
       /\ todo' = [todo EXCEPT ![r] = selected \cup Held]
  /\ pc' = [pc EXCEPT ![r] = "evaluate"]
  /\ UNCHANGED <<clockVars, ledgerVars, plans, legacy, sig, approved, prepared, filled>>

\* The parent's timeout, a crash, or an error no handler of the cycle catches
\* (psycopg.Error, sqlite3.Error): the run ends where it is.
Kill(r) ==
  /\ "kill" \in Faults
  /\ pc[r] # "idle"
  /\ Reset(r)
  /\ UNCHANGED <<clockVars, ledgerVars, plans, legacy>>

Finish(r) ==
  /\ pc[r] = "settle" /\ todo[r] = {}
  /\ Reset(r)
  /\ UNCHANGED <<clockVars, ledgerVars, plans, legacy>>

-----------------------------------------------------------------------------
(* Stage "evaluate": one symbol's signal at a time *)

Evaluating(r, s) ==
  /\ pc[r] = "evaluate" /\ s \in todo[r]
  /\ todo' = [todo EXCEPT ![r] = @ \ {s}]
  /\ UNCHANGED <<clockVars, ledgerVars, legacy, pc, approved, prepared, filled>>

\* Collection, performance, calendar or candidate failed: errors[index] is set.
EvaluationError(r, s) ==
  /\ "evaluate" \in Faults
  /\ Evaluating(r, s)
  /\ UNCHANGED <<plans, sig>>

\* Mutant: the plan of a held symbol counts as stale too.
ClearAnyPlan(r, s) ==
  /\ Evaluating(r, s)
  /\ HasPlan(s)
  /\ plans' = [plans EXCEPT ![s] = NoPlan]
  /\ UNCHANGED sig

\* setup-v2:stale-position-plan
ClearStalePlan(r, s) ==
  /\ Evaluating(r, s)
  /\ HasPlan(s) /\ s \notin Held
  /\ plans' = [plans EXCEPT ![s] = NoPlan]
  /\ UNCHANGED sig

\* The stop was touched by a bar of this session.
StopTouches == {day} \X (1..phase)

\* A later daily bar closed below the plan's MA50, known on a later day.
StructureBreaks(s) == IF plans[s].day < day THEN {<<day, 0>>} ELSE {}

ExitTriggers(s) ==
  IF plans[s].pending # NoKey THEN {plans[s].pending}
  ELSE StopTouches \cup StructureBreaks(s)

\* A bar after the trigger is there: SELL at its open.
ExitSignal(r, s) ==
  /\ Evaluating(r, s)
  /\ HasPlan(s) /\ s \in Held
  /\ \E key \in ExitTriggers(s) : sig' = [sig EXCEPT ![r][s] = SellSignal(s, key)]
  /\ UNCHANGED plans

\* The touching bar is the latest one: the exit waits for the next bar.
MarkExitPending(r, s) ==
  /\ Evaluating(r, s)
  /\ HasPlan(s) /\ s \in Held
  /\ plans[s].pending = NoKey
  /\ \E key \in StopTouches : plans' = [plans EXCEPT ![s].pending = key]
  /\ UNCHANGED sig

EntryKinds == {k \in {"v2", "hunter"} :
                 \/ k = "v2" /\ phase = 1
                 \/ k = "hunter" /\ Hunter /\ phase = 2}

\* Mutant: unplanned positions do not stop an entry.
ArmDespiteLegacy(r, s) ==
  /\ Evaluating(r, s)
  /\ ~HasPlan(s) /\ s \notin Held
  /\ \E kind \in EntryKinds, q \in 1..PerTradeHeat :
       /\ FitsBudgets(r, s, q)
       /\ sig' = [sig EXCEPT ![r][s] = EntrySignal(kind, q)]
  /\ UNCHANGED plans

\* The candidate arms: no plan, no position, nothing unplanned, in the window.
ArmEntry(r, s) ==
  /\ Evaluating(r, s)
  /\ ~HasPlan(s) /\ s \notin Held
  /\ Unplanned = {}
  /\ \E kind \in EntryKinds, q \in 1..PerTradeHeat :
       /\ FitsBudgets(r, s, q)
       /\ sig' = [sig EXCEPT ![r][s] = EntrySignal(kind, q)]
  /\ UNCHANGED plans

\* Waiting for a bar, rejected, no stop touched, held without a plan, ...
NoAction(r, s) ==
  /\ Evaluating(r, s)
  /\ HasPlan(s) => s \in Held
  /\ UNCHANGED <<plans, sig>>

\* A SELL without a position and a BUY of what is held are dropped.
DropUnfitSignals(r) ==
  /\ pc[r] = "evaluate" /\ todo[r] = {}
  /\ LET keep(s) == \/ sig[r][s].side = "SELL" /\ s \in Held
                    \/ sig[r][s].side = "BUY" /\ s \notin Held
         kept == [s \in Symbols |-> IF keep(s) THEN sig[r][s] ELSE NoSignal]
     IN /\ sig' = [sig EXCEPT ![r] = kept]
        /\ todo' = [todo EXCEPT ![r] = {s \in Symbols : kept[s].side = "BUY"}]
  /\ pc' = [pc EXCEPT ![r] = "store"]
  /\ UNCHANGED <<clockVars, ledgerVars, plans, legacy, approved, prepared, filled>>

-----------------------------------------------------------------------------
(* Stage "store": the plans of the armed entries, before any order *)

StorePlan(r, s) ==
  /\ pc[r] = "store" /\ s \in todo[r]
  /\ todo' = [todo EXCEPT ![r] = @ \ {s}]
  /\ plans' = [plans EXCEPT ![s] =
                 [qty |-> sig[r][s].qty, day |-> day, pending |-> NoKey]]
  /\ prepared' = [prepared EXCEPT ![r] = @ \cup {s}]
  /\ UNCHANGED <<clockVars, ledgerVars, legacy, pc, sig, approved, filled>>

\* setup-v2: plan persistence failed
PlanPersistenceFails(r, s) ==
  /\ "plan" \in Faults
  /\ pc[r] = "store" /\ s \in todo[r]
  /\ todo' = [todo EXCEPT ![r] = @ \ {s}]
  /\ sig' = [sig EXCEPT ![r][s] = NoSignal]
  /\ UNCHANGED <<clockVars, ledgerVars, plans, legacy, pc, approved, prepared, filled>>

BeginSubmit(r) ==
  /\ pc[r] = "store" /\ todo[r] = {}
  /\ pc' = [pc EXCEPT ![r] = "submit"]
  /\ todo' = [todo EXCEPT ![r] = {s \in Symbols : sig[r][s] # NoSignal}]
  /\ UNCHANGED <<clockVars, ledgerVars, plans, legacy, sig, approved, prepared, filled>>

-----------------------------------------------------------------------------
(* Stage "submit": PaperTradingService.submit, signal by signal *)

\* The ledger's part of RiskManager.evaluate.
WithinRiskLimits(s, signal) ==
  /\ SignalId(s, signal) \notin fills
  /\ signal.side = "BUY" =>
       /\ signal.qty <= cash
       /\ BuysOn(day) < MaxDailyBuys
       /\ s \in Held \/ Cardinality(Held) < MaxOpenPositions
  /\ signal.side = "SELL" => signal.qty <= pos[s]

\* Preflight, advisor and RiskManager agree on the context read here.
Approve(r, s) ==
  /\ pc[r] = "submit" /\ approved[r] = {} /\ s \in todo[r]
  /\ WithinRiskLimits(s, sig[r][s])
  /\ approved' = [approved EXCEPT ![r] = {s}]
  /\ UNCHANGED <<clockVars, ledgerVars, plans, legacy, pc, todo, sig, prepared, filled>>

\* A violation, the advisor's no, or an error of submit: no order is written.
Reject(r, s) ==
  /\ pc[r] = "submit" /\ approved[r] = {} /\ s \in todo[r]
  /\ todo' = [todo EXCEPT ![r] = @ \ {s}]
  /\ UNCHANGED <<clockVars, ledgerVars, plans, legacy, pc, sig, approved, prepared, filled>>

\* Mutant: an exit is paid for like an entry.
FillOrderUnsigned(r, s) ==
  LET signal == sig[r][s]
  IN /\ s \in approved[r]
     /\ SignalId(s, signal) \notin fills
     /\ fills' = fills \cup {SignalId(s, signal)}
     /\ pos' = [pos EXCEPT ![s] = IF signal.side = "BUY" THEN @ + signal.qty
                                                       ELSE @ - signal.qty]
     /\ cash' = cash - signal.qty
     /\ todo' = [todo EXCEPT ![r] = @ \ {s}]
     /\ approved' = [approved EXCEPT ![r] = {}]
     /\ filled' = [filled EXCEPT ![r] = @ \cup {s}]
     /\ UNCHANGED <<clockVars, plans, legacy, pc, sig, prepared>>

\* Mutant: the signal id is not unique.
FillOrderTwice(r, s) ==
  LET signal == sig[r][s]
  IN /\ s \in approved[r]
     /\ fills' = fills \cup {SignalId(s, signal)}
     /\ \/ /\ signal.side = "BUY"
           /\ pos' = [pos EXCEPT ![s] = @ + signal.qty]
           /\ cash' = cash - signal.qty
        \/ /\ signal.side = "SELL"
           /\ pos' = [pos EXCEPT ![s] = @ - signal.qty]
           /\ cash' = cash + signal.qty
     /\ todo' = [todo EXCEPT ![r] = @ \ {s}]
     /\ approved' = [approved EXCEPT ![r] = {}]
     /\ filled' = [filled EXCEPT ![r] = @ \cup {s}]
     /\ UNCHANGED <<clockVars, plans, legacy, pc, sig, prepared>>

\* The insert into paper_fills; an exit at a loss returns less cash.
FillOrder(r, s) ==
  LET signal == sig[r][s]
  IN /\ s \in approved[r]
     /\ SignalId(s, signal) \notin fills
     /\ fills' = fills \cup {SignalId(s, signal)}
     /\ \/ /\ signal.side = "BUY"
           /\ pos' = [pos EXCEPT ![s] = @ + signal.qty]
           /\ cash' = cash - signal.qty
        \/ /\ signal.side = "SELL"
           /\ pos' = [pos EXCEPT ![s] = @ - signal.qty]
           /\ \E loss \in ExitLosses :
                loss <= signal.qty /\ cash' = cash + signal.qty - loss
     /\ todo' = [todo EXCEPT ![r] = @ \ {s}]
     /\ approved' = [approved EXCEPT ![r] = {}]
     /\ filled' = [filled EXCEPT ![r] = @ \cup {s}]
     /\ UNCHANGED <<clockVars, plans, legacy, pc, sig, prepared>>

\* DuplicatePaperOrder: the unique index refused the row; errors[index] is set.
DuplicateOrder(r, s) ==
  /\ s \in approved[r]
  /\ SignalId(s, sig[r][s]) \in fills
  /\ todo' = [todo EXCEPT ![r] = @ \ {s}]
  /\ approved' = [approved EXCEPT ![r] = {}]
  /\ UNCHANGED <<clockVars, ledgerVars, plans, legacy, pc, sig, prepared, filled>>

\* Any other database error of the insert is not handled by the cycle: the
\* run is recorded as failed and the exception leaves _run_started.
FillStoreFails(r, s) ==
  /\ "store" \in Faults
  /\ s \in approved[r]
  /\ Reset(r)
  /\ UNCHANGED <<clockVars, ledgerVars, plans, legacy>>

\* Mutant: the plan of a filled entry is removed as well.
SettleEverything(r) ==
  /\ pc[r] = "submit" /\ todo[r] = {} /\ approved[r] = {}
  /\ pc' = [pc EXCEPT ![r] = "settle"]
  /\ todo' = [todo EXCEPT ![r] = prepared[r] \cup
                {s \in filled[r] : sig[r][s].side = "SELL"}]
  /\ UNCHANGED <<clockVars, ledgerVars, plans, legacy, sig, approved, prepared, filled>>

\* Mutant: the plan of a rejected entry stays.
SettleExitsOnly(r) ==
  /\ pc[r] = "submit" /\ todo[r] = {} /\ approved[r] = {}
  /\ pc' = [pc EXCEPT ![r] = "settle"]
  /\ todo' = [todo EXCEPT ![r] = {s \in filled[r] : sig[r][s].side = "SELL"}]
  /\ UNCHANGED <<clockVars, ledgerVars, plans, legacy, sig, approved, prepared, filled>>

BeginSettle(r) ==
  /\ pc[r] = "submit" /\ todo[r] = {} /\ approved[r] = {}
  /\ pc' = [pc EXCEPT ![r] = "settle"]
  /\ todo' = [todo EXCEPT ![r] = (prepared[r] \ filled[r]) \cup
                {s \in filled[r] : sig[r][s].side = "SELL"}]
  /\ UNCHANGED <<clockVars, ledgerVars, plans, legacy, sig, approved, prepared, filled>>

\* The plan of an entry that was not filled, or of a position just sold.
SettlePlan(r, s) ==
  /\ pc[r] = "settle" /\ s \in todo[r]
  /\ todo' = [todo EXCEPT ![r] = @ \ {s}]
  /\ plans' = [plans EXCEPT ![s] = NoPlan]
  /\ UNCHANGED <<clockVars, ledgerVars, legacy, pc, sig, approved, prepared, filled>>

-----------------------------------------------------------------------------
\* Time moves between cycles: a cycle is killed after ten minutes, and the
\* windows that differ are further apart than that.
Tick ==
  /\ \A r \in Runners : pc[r] = "idle"
  /\ \/ phase = 1 /\ phase' = 2 /\ UNCHANGED day
     \/ phase = 2 /\ day < MaxDay /\ day' = day + 1 /\ phase' = 1
  /\ UNCHANGED <<ledgerVars, plans, legacy, runVars>>

Init ==
  /\ day = 1 /\ phase = 1
  /\ fills = {}
  /\ legacy \in SUBSET Legacy
  /\ pos = [s \in Symbols |-> IF s \in legacy THEN 1 ELSE 0]
  /\ cash = InitialCash
  /\ plans = [s \in Symbols |-> NoPlan]
  /\ pc = [r \in Runners |-> "idle"]
  /\ todo = [r \in Runners |-> {}]
  /\ sig = [r \in Runners |-> NoSignals]
  /\ approved = [r \in Runners |-> {}]
  /\ prepared = [r \in Runners |-> {}]
  /\ filled = [r \in Runners |-> {}]

\* What a started cycle does by itself with one symbol.
SymbolStep(r, s) ==
  \/ ClearStalePlan(r, s) \/ ExitSignal(r, s) \/ MarkExitPending(r, s)
  \/ ArmEntry(r, s) \/ NoAction(r, s)
  \/ StorePlan(r, s)
  \/ Approve(r, s) \/ Reject(r, s) \/ FillOrder(r, s) \/ DuplicateOrder(r, s)
  \/ SettlePlan(r, s)

StageStep(r) ==
  DropUnfitSignals(r) \/ BeginSubmit(r) \/ BeginSettle(r) \/ Finish(r)

CycleStep(r) == StageStep(r) \/ \E s \in Symbols : SymbolStep(r, s)

Fault(r) ==
  \/ Kill(r)
  \/ \E s \in Symbols : \/ EvaluationError(r, s)
                        \/ PlanPersistenceFails(r, s)
                        \/ FillStoreFails(r, s)

Next == Tick \/ \E r \in Runners : Start(r) \/ CycleStep(r) \/ Fault(r)

Spec == Init /\ [][Next]_vars

\* A started cycle runs on until it ends or dies: it is straight-line code.
FairSpec == Spec /\ \A r \in Runners : WF_vars(CycleStep(r))

-----------------------------------------------------------------------------
(* Properties *)

Stages == {"idle", "evaluate", "store", "submit", "settle"}

\* Every variable has its type; quantities may be negative only by oversell.
TypeOK ==
  /\ day \in 1..MaxDay /\ phase \in 1..2
  /\ fills \subseteq SignalIds
  /\ pos \in [Symbols -> Int]
  /\ cash \in Int
  /\ plans \in [Symbols -> Plan]
  /\ legacy \subseteq Symbols
  /\ pc \in [Runners -> Stages]
  /\ todo \in [Runners -> SUBSET Symbols]
  /\ sig \in [Runners -> [Symbols -> Signal]]
  /\ approved \in [Runners -> SUBSET Symbols]
  /\ prepared \in [Runners -> SUBSET Symbols]
  /\ filled \in [Runners -> SUBSET Symbols]

\* Cycles of the portfolio never overlap.
Serialized == \A r1, r2 \in Runners : r1 = r2

\* A position opened by the program always has its plan, of the same quantity,
\* whatever point a cycle died at: the plan is what its stop and its exit
\* are managed by, and a position without one blocks every later entry.
PositionsManaged ==
  \A s \in Symbols \ legacy : pos[s] # 0 => pos[s] > 0 /\ plans[s].qty = pos[s]

\* The plans never carry more heat than the portfolio's and the cluster's
\* budget, though entries are sized before any plan of the cycle is stored.
HeatWithinBudget ==
  /\ OpenHeat <= MaxOpenHeat
  /\ \A c \in Clusters : ClusterHeat(c) <= MaxClusterHeat

\* The cash of the fills is never overdrawn.
CashCovered == cash >= 0

\* While a position without a plan exists, no fill changes any unplanned
\* position and nothing new is bought: the portfolio fails closed.
LegacyFailsClosed ==
  [][Unplanned # {} => /\ \A s \in Symbols : pos'[s] <= pos[s]
                       /\ \A s \in Unplanned : pos'[s] = pos[s]]_pos

\* The cycles implement the abstract book of positions: heat is reserved within
\* the budgets before a position is opened at that size, positions are closed
\* whole, and only a flat position's reservation is released.
Book == INSTANCE PositionBook WITH
          reserved <- Heat, held <- pos
ImplementsBook == Book!Spec

\* An entry's plan ends in a position or is taken back.
PlansResolve ==
  \A s \in Symbols : (HasPlan(s) /\ s \notin Held) ~> (~HasPlan(s) \/ s \in Held)

\* The entries of a symbol among the fills that the window in progress can make.
WindowEntries(written, s) ==
  {f \in written : f[1] \in EntryKinds /\ f[2] = s /\ f[3][1] = day}

\* However cycles overlap, a symbol's position is only ever added to while it is
\* flat, and by the first and only entry of that symbol in the window: neither
\* a second cycle nor an exit in between lets the symbol be entered again.
NoDoubleEntry ==
  [][\A s \in Symbols : pos'[s] > pos[s] =>
       /\ pos[s] <= 0
       /\ WindowEntries(fills, s) = {}
       /\ \E entry \in fills' : WindowEntries(fills', s) = {entry}]_<<fills, pos>>
=============================================================================
