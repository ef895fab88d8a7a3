-------------------------- MODULE PaperCycle_proofs --------------------------
(***************************************************************************)
(* What holds of PaperCycle for every value of its constants.  TypeCorrect *)
(* needs nothing else; the other theorems assume that cycles do not        *)
(* overlap (Serialized), which the program leaves to its callers.          *)
(***************************************************************************)
EXTENDS PaperCycle, FiniteSetTheorems, TLAPS

-----------------------------------------------------------------------------
(* What sums of lots do, from the cardinality facts of finite sets *)

\* A finite set has finitely many lots.
LEMMA LotsFinite ==
  ASSUME NEW S, IsFiniteSet(S), NEW f, \A s \in S : f[s] \in Nat
  PROVE  IsFiniteSet(LotsOf(f, S)) /\ Total(f, S) \in Nat
<1> DEFINE lots == [s \in S |-> {s} \X (1..f[s])]
           parts == {{s} \X (1..f[s]) : s \in S}
<1>1. lots \in Surjection(S, parts)
  BY DEF Surjection
<1>2. IsFiniteSet(parts)
  BY <1>1, FS_Surjection
<1>3. ASSUME NEW T \in parts PROVE IsFiniteSet(T)
  <2>1. PICK s \in S : T = {s} \X (1..f[s])
    OBVIOUS
  <2>2. IsFiniteSet({s})
    BY FS_Singleton, Zenon
  <2>3. f[s] \in Int
    OBVIOUS
  <2>4. IsFiniteSet(1..f[s])
    BY <2>3, FS_Interval
  <2> QED BY <2>1, <2>2, <2>4, FS_Product
<1>4. IsFiniteSet(UNION parts)
  BY <1>2, <1>3, FS_UNION
<1> QED BY <1>4, FS_CardinalityType DEF LotsOf, Total

\* Who gives every member at least as many lots has at least as many in all.
LEMMA TotalMonotone ==
  ASSUME NEW S, IsFiniteSet(S), NEW f, NEW g,
         \A s \in S : f[s] \in Nat /\ g[s] \in Nat /\ f[s] <= g[s]
  PROVE  Total(f, S) <= Total(g, S)
<1>1. LotsOf(f, S) \subseteq LotsOf(g, S)
  <2> SUFFICES ASSUME NEW s \in S, NEW x \in {s} \X (1..f[s])
               PROVE  x \in LotsOf(g, S)
    BY DEF LotsOf
  <2>1. 1..f[s] \subseteq 1..g[s]
    OBVIOUS
  <2>2. x \in {s} \X (1..g[s])
    BY <2>1
  <2> QED BY <2>2 DEF LotsOf
<1>2. IsFiniteSet(LotsOf(g, S))
  BY LotsFinite
<1> QED BY <1>1, <1>2, FS_Subset DEF Total

\* The sum of two functions of which one is zero everywhere.
LEMMA TotalDisjoint ==
  ASSUME NEW S, IsFiniteSet(S), NEW f, NEW g, NEW h,
         \A s \in S : /\ f[s] \in Nat /\ g[s] \in Nat
                      /\ f[s] = 0 \/ g[s] = 0
                      /\ h[s] = f[s] + g[s]
  PROVE  Total(h, S) = Total(f, S) + Total(g, S)
<1>1. \A s \in S : 1..h[s] = (1..f[s]) \cup (1..g[s])
  OBVIOUS
<1>2. LotsOf(h, S) = LotsOf(f, S) \cup LotsOf(g, S)
  <2>1. ASSUME NEW x \in LotsOf(h, S) PROVE x \in LotsOf(f, S) \cup LotsOf(g, S)
    <3>1. PICK s \in S : x \in {s} \X (1..h[s])
      BY DEF LotsOf
    <3>2. x \in {s} \X (1..f[s]) \/ x \in {s} \X (1..g[s])
      BY <1>1, <3>1
    <3> QED BY <3>2 DEF LotsOf
  <2>2. ASSUME NEW x \in LotsOf(f, S) \cup LotsOf(g, S) PROVE x \in LotsOf(h, S)
    <3>1. PICK s \in S : x \in {s} \X (1..f[s]) \/ x \in {s} \X (1..g[s])
      BY DEF LotsOf
    <3>2. x \in {s} \X (1..h[s])
      BY <1>1, <3>1
    <3> QED BY <3>2 DEF LotsOf
  <2> QED BY <2>1, <2>2
<1>3. LotsOf(f, S) \cap LotsOf(g, S) = {}
  <2> SUFFICES ASSUME NEW s \in S, NEW t \in S,
                      NEW x \in {s} \X (1..f[s]), x \in {t} \X (1..g[t])
               PROVE  FALSE
    BY DEF LotsOf
  <2>1. s = t
    OBVIOUS
  <2>2. x[2] \in 1..f[s] /\ x[2] \in 1..g[s]
    BY <2>1
  <2> QED BY <2>2
<1>4. /\ IsFiniteSet(LotsOf(f, S)) /\ IsFiniteSet(LotsOf(g, S))
      /\ Total(f, S) \in Nat /\ Total(g, S) \in Nat
  BY LotsFinite
<1>5. Cardinality(LotsOf(f, S) \cup LotsOf(g, S))
        = Cardinality(LotsOf(f, S)) + Cardinality(LotsOf(g, S)) - Cardinality({})
  BY <1>3, <1>4, FS_Union
<1> QED BY <1>2, <1>4, <1>5, FS_EmptySet DEF Total

\* The lots of a single member.
LEMMA TotalSingle ==
  ASSUME NEW S, NEW s \in S, NEW q \in Nat, NEW f,
         \A t \in S : f[t] = IF t = s THEN q ELSE 0
  PROVE  Total(f, S) = q
<1>1. LotsOf(f, S) = {s} \X (1..q)
  <2>1. f[s] = q /\ \A t \in S : t # s => 1..f[t] = {}
    OBVIOUS
  <2>2. ASSUME NEW x \in LotsOf(f, S) PROVE x \in {s} \X (1..q)
    <3>1. PICK t \in S : x \in {t} \X (1..f[t])
      BY DEF LotsOf
    <3>2. t = s
      BY <2>1, <3>1
    <3> QED BY <2>1, <3>1, <3>2
  <2>3. ASSUME NEW x \in {s} \X (1..q) PROVE x \in LotsOf(f, S)
    BY <2>1 DEF LotsOf
  <2> QED BY <2>2, <2>3
<1>2. IsFiniteSet({s}) /\ Cardinality({s}) = 1
  BY FS_Singleton, Zenon
<1>3. IsFiniteSet(1..q) /\ Cardinality(1..q) = q
  BY FS_Interval
<1>4. Cardinality({s} \X (1..q)) = Cardinality({s}) * Cardinality(1..q)
  BY <1>2, <1>3, FS_Product, Zenon
<1> QED BY <1>1, <1>2, <1>3, <1>4 DEF Total

-----------------------------------------------------------------------------

USE LimitsAssumption, SetsAssumption

-----------------------------------------------------------------------------
(* Types *)

LEMMA TypeInit == Init => TypeOK
BY DEF Init, TypeOK, Plan, NoPlan, Key, NoKey, Signal, NoSignals, NoSignal,
       Kinds, Stages

\* Ending a run, however it ends, leaves its variables well typed.
LEMMA TypeReset ==
  ASSUME TypeOK, NEW r \in Runners, Reset(r),
         UNCHANGED <<clockVars, ledgerVars, plans, legacy>>
  PROVE  TypeOK'
BY DEF TypeOK, Reset, clockVars, ledgerVars, Signal, NoSignals, NoSignal,
       Kinds, Key, NoKey, Stages

LEMMA TypeStep == TypeOK /\ [Next]_vars => TypeOK'
<1> SUFFICES ASSUME TypeOK, [Next]_vars PROVE TypeOK'
  OBVIOUS
<1> USE DEF Evaluating, clockVars, ledgerVars, runVars, Stages
<1>1. CASE Tick
  BY <1>1 DEF Tick, TypeOK
<1>2. ASSUME NEW r \in Runners, Start(r) PROVE TypeOK'
  BY <1>2 DEF Start, TypeOK, Held
<1>3. ASSUME NEW r \in Runners, StageStep(r) PROVE TypeOK'
  <2>1. CASE DropUnfitSignals(r)
    BY <2>1 DEF DropUnfitSignals, TypeOK, Signal, NoSignal, Kinds, Key, NoKey
  <2>2. CASE BeginSubmit(r)
    BY <2>2 DEF BeginSubmit, TypeOK
  <2>3. CASE BeginSettle(r)
    BY <2>3 DEF BeginSettle, TypeOK
  <2>4. CASE Finish(r)
    BY <2>4, TypeReset DEF Finish
  <2> QED BY <1>3, <2>1, <2>2, <2>3, <2>4 DEF StageStep
<1>4. ASSUME NEW r \in Runners, NEW s \in Symbols, SymbolStep(r, s) PROVE TypeOK'
  <2>1. CASE ClearStalePlan(r, s)
    BY <2>1 DEF ClearStalePlan, TypeOK, Plan, NoPlan, Key, NoKey
  <2>2. CASE ExitSignal(r, s)
    <3>1. PICK key \in ExitTriggers(s) : sig' = [sig EXCEPT ![r][s] = SellSignal(s, key)]
      BY <2>2 DEF ExitSignal
    <3>2. key \in Key
      BY DEF ExitTriggers, StopTouches, StructureBreaks, Key, TypeOK, Plan
    <3>3. SellSignal(s, key) \in Signal
      BY <3>2 DEF SellSignal, Signal, Kinds, TypeOK, Plan
    <3> QED BY <2>2, <3>1, <3>3 DEF ExitSignal, TypeOK
  <2>3. CASE MarkExitPending(r, s)
    <3>1. PICK key \in StopTouches : plans' = [plans EXCEPT ![s].pending = key]
      BY <2>3 DEF MarkExitPending
    <3>2. key \in Key
      BY DEF StopTouches, Key, TypeOK
    <3>3. [plans[s] EXCEPT !.pending = key] \in Plan
      <4>1. plans[s] \in Plan
        BY DEF TypeOK
      <4> QED
        BY <3>2, <4>1 DEF Plan
    <3>4. plans' = [plans EXCEPT ![s] = [plans[s] EXCEPT !.pending = key]]
      BY <3>1 DEF TypeOK
    <3>5. plans' \in [Symbols -> Plan]
      BY <3>3, <3>4 DEF TypeOK
    <3> QED BY <2>3, <3>5 DEF MarkExitPending, TypeOK
  <2>4. CASE ArmEntry(r, s)
    <3>1. PICK kind \in EntryKinds, q \in 1..PerTradeHeat :
            sig' = [sig EXCEPT ![r][s] = EntrySignal(kind, q)]
      BY <2>4 DEF ArmEntry
    <3>2. EntrySignal(kind, q) \in Signal
      BY DEF EntrySignal, EntryKinds, Signal, Kinds, Key, TypeOK
    <3> QED BY <2>4, <3>1, <3>2 DEF ArmEntry, TypeOK
  <2>5. CASE NoAction(r, s)
    BY <2>5 DEF NoAction, TypeOK
  <2>6. CASE StorePlan(r, s)
    BY <2>6 DEF StorePlan, TypeOK, Plan, Signal, Key, NoKey
  <2>7. CASE Approve(r, s)
    BY <2>7 DEF Approve, TypeOK
  <2>8. CASE Reject(r, s)
    BY <2>8 DEF Reject, TypeOK
  <2>9. CASE FillOrder(r, s)
    <3>1. SignalId(s, sig[r][s]) \in SignalIds
      BY DEF SignalId, SignalIds, TypeOK, Signal
    <3>2. sig[r][s].qty \in Nat
      BY DEF TypeOK, Signal
    <3>3. pos' \in [Symbols -> Int] /\ cash' \in Int
      BY <2>9, <3>2 DEF FillOrder, TypeOK
    <3> QED BY <2>9, <3>1, <3>3 DEF FillOrder, TypeOK
  <2>10. CASE DuplicateOrder(r, s)
    BY <2>10 DEF DuplicateOrder, TypeOK
  <2>11. CASE SettlePlan(r, s)
    BY <2>11 DEF SettlePlan, TypeOK, Plan, NoPlan, Key, NoKey
  <2> QED BY <1>4, <2>1, <2>2, <2>3, <2>4, <2>5, <2>6, <2>7, <2>8, <2>9, <2>10, <2>11
          DEF SymbolStep
<1>5. ASSUME NEW r \in Runners, Fault(r) PROVE TypeOK'
  <2>1. CASE Kill(r)
    BY <2>1, TypeReset DEF Kill
  <2>2. ASSUME NEW s \in Symbols, EvaluationError(r, s) PROVE TypeOK'
    BY <2>2 DEF EvaluationError, TypeOK
  <2>3. ASSUME NEW s \in Symbols, PlanPersistenceFails(r, s) PROVE TypeOK'
    BY <2>3 DEF PlanPersistenceFails, TypeOK, Signal, NoSignal, Kinds, Key, NoKey
  <2>4. ASSUME NEW s \in Symbols, FillStoreFails(r, s) PROVE TypeOK'
    BY <2>4, TypeReset DEF FillStoreFails
  <2> QED BY <1>5, <2>1, <2>2, <2>3, <2>4 DEF Fault
<1>6. CASE UNCHANGED vars
  BY <1>6 DEF vars, TypeOK
<1> QED BY <1>1, <1>2, <1>3, <1>4, <1>5, <1>6 DEF Next, CycleStep

\* Every variable keeps its type whatever cycles run, overlap or die.
THEOREM TypeCorrect == Spec => []TypeOK
BY TypeInit, TypeStep, PTL DEF Spec

-----------------------------------------------------------------------------
(* The inductive invariant of a portfolio whose cycles do not overlap *)

\* What was held before plans existed is left as it was; anything else that is
\* held has its plan, of the same quantity.
LedgerInv ==
  /\ \A s \in legacy : pos[s] = 1 /\ ~HasPlan(s)
  /\ PositionsManaged

\* What the stage of a run says about its work.
StageInv(r) ==
  /\ pc[r] = "idle" => /\ todo[r] = {} /\ approved[r] = {}
                       /\ prepared[r] = {} /\ filled[r] = {}
                       /\ \A s \in Symbols : sig[r][s] = NoSignal
  /\ pc[r] = "evaluate" => /\ approved[r] = {} /\ prepared[r] = {} /\ filled[r] = {}
                           /\ \A s \in todo[r] : sig[r][s] = NoSignal
  /\ pc[r] = "store" => /\ approved[r] = {} /\ filled[r] = {}
                        /\ todo[r] = {s \in Symbols : sig[r][s].side = "BUY"} \ prepared[r]
  /\ pc[r] = "submit" => /\ approved[r] \subseteq todo[r]
                         /\ todo[r] \cap filled[r] = {}
                         /\ \A s \in todo[r] : /\ sig[r][s].side # "NONE"
                                               /\ sig[r][s].side = "BUY" => s \in prepared[r]
  /\ pc[r] = "settle" => approved[r] = {} /\ \A s \in todo[r] : pos[s] = 0

\* An armed entry has no position until it is filled, and a plan of its size
\* from the moment it is prepared until it is filled or settled.
BuyInv(r, s) ==
  sig[r][s].side = "BUY" =>
    /\ legacy = {}
    /\ sig[r][s].qty \in 1..PerTradeHeat
    /\ s \in filled[r] => s \in prepared[r] /\ pos[s] = sig[r][s].qty
    /\ s \notin filled[r] => pos[s] = 0
    /\ s \notin prepared[r] => ~HasPlan(s)
    /\ s \in prepared[r] /\ pc[r] \in {"store", "submit"} => plans[s].qty = sig[r][s].qty

\* An exit carries the whole position until it is filled.
SellInv(r, s) ==
  sig[r][s].side = "SELL" =>
    /\ s \notin prepared[r]
    /\ s \in filled[r] => pos[s] = 0
    /\ s \notin filled[r] => /\ sig[r][s].qty > 0
                            /\ pos[s] = sig[r][s].qty /\ plans[s].qty = sig[r][s].qty

NoneInv(r, s) ==
  sig[r][s].side = "NONE" =>
    sig[r][s] = NoSignal /\ s \notin prepared[r] /\ s \notin filled[r]

SymbolInv(r, s) == BuyInv(r, s) /\ SellInv(r, s) /\ NoneInv(r, s)

\* The order approved, at most one, is still covered by the cash.
CashInv ==
  /\ CashCovered
  /\ \A r \in Runners :
       /\ \A s \in approved[r] : sig[r][s].side = "BUY" => sig[r][s].qty <= cash
       /\ \A s, t \in approved[r] : s = t

CycleInv ==
  /\ LedgerInv
  /\ CashInv
  /\ \A r \in Runners : /\ StageInv(r)
                         /\ \A s \in Symbols : SymbolInv(r, s)

\* What every symbol will have reserved once the armed entries are stored.
Committed(r) ==
  [s \in Symbols |-> IF sig[r][s].side = "BUY" /\ s \notin prepared[r]
                     THEN sig[r][s].qty ELSE plans[s].qty]

HeatInv ==
  /\ HeatWithinBudget
  /\ \A r \in Runners :
       /\ Total(Committed(r), Symbols) <= MaxOpenHeat
       /\ \A c \in Clusters : Total(Committed(r), ClusterMembers(c)) <= MaxClusterHeat
-----------------------------------------------------------------------------

LEMMA CycleInit == Init => CycleInv
BY DEF Init, CycleInv, LedgerInv, PositionsManaged, HasPlan, NoPlan, CashInv, CashCovered,
       StageInv, SymbolInv, BuyInv, SellInv, NoneInv, NoSignals, NoSignal

LEMMA CycleReset ==
  ASSUME Serialized, TypeOK, CycleInv, NEW r \in Runners, Reset(r),
         UNCHANGED <<clockVars, ledgerVars, plans, legacy>>
  PROVE  CycleInv'
<1> USE DEF clockVars, ledgerVars, Reset
<1>1. Runners = {r}
  BY DEF Serialized
<1>2. LedgerInv'
  BY DEF CycleInv, LedgerInv, PositionsManaged, HasPlan
<1>3. CashInv'
  BY <1>1 DEF CycleInv, CashInv, CashCovered, TypeOK
<1>4. StageInv(r)'
  BY DEF StageInv, NoSignals, TypeOK
<1>5. \A s \in Symbols : SymbolInv(r, s)'
  BY DEF SymbolInv, BuyInv, SellInv, NoneInv, NoSignals, NoSignal, TypeOK
<1> QED BY <1>1, <1>2, <1>3, <1>4, <1>5 DEF CycleInv

\* A new run carries nothing yet.
LEMMA CycleStart ==
  ASSUME Serialized, TypeOK, CycleInv, NEW r \in Runners,
         Start(r)
  PROVE  CycleInv'
<1> USE DEF Start, clockVars, ledgerVars
<1>1. Runners = {r}
  BY DEF Serialized
<1>2. LedgerInv /\ CashInv /\ StageInv(r) /\ \A t \in Symbols : SymbolInv(r, t)
  BY DEF CycleInv
<1>3. LedgerInv'
  BY <1>2 DEF LedgerInv, PositionsManaged, HasPlan, TypeOK
<1>4. CashInv'
  BY <1>1, <1>2 DEF CashInv, CashCovered, TypeOK
<1>5. StageInv(r)'
  <2>1. todo'[r] \subseteq Symbols /\ pc'[r] = "evaluate"
    BY DEF Held, TypeOK
  <2> QED BY <1>2, <2>1 DEF StageInv
<1>6. \A t \in Symbols : SymbolInv(r, t)'
  BY <1>2 DEF SymbolInv, BuyInv, SellInv, NoneInv, HasPlan, TypeOK
<1> QED BY <1>1, <1>3, <1>4, <1>5, <1>6 DEF CycleInv

\* The plan cleared has no position.
LEMMA CycleClearStalePlan ==
  ASSUME Serialized, TypeOK, CycleInv, NEW r \in Runners, NEW s \in Symbols,
         ClearStalePlan(r, s)
  PROVE  CycleInv'
<1> USE DEF ClearStalePlan, Evaluating, clockVars, ledgerVars
<1>1. Runners = {r}
  BY DEF Serialized
<1>2. LedgerInv /\ CashInv /\ StageInv(r) /\ \A t \in Symbols : SymbolInv(r, t)
  BY DEF CycleInv
<1>3. LedgerInv'
  BY <1>2 DEF LedgerInv, PositionsManaged, HasPlan, Held, NoPlan, TypeOK
<1>4. CashInv'
  BY <1>1, <1>2 DEF CashInv, CashCovered, TypeOK
<1>5. StageInv(r)'
  BY <1>2 DEF StageInv, TypeOK
<1>6. \A t \in Symbols : SymbolInv(r, t)'
  BY <1>2 DEF SymbolInv, BuyInv, SellInv, NoneInv, HasPlan, StageInv, NoPlan, NoSignal, TypeOK
<1> QED BY <1>1, <1>3, <1>4, <1>5, <1>6 DEF CycleInv

\* The exit is as large as the plan, and so as the position.
LEMMA CycleExitSignal ==
  ASSUME Serialized, TypeOK, CycleInv, NEW r \in Runners, NEW s \in Symbols,
         ExitSignal(r, s)
  PROVE  CycleInv'
<1> USE DEF ExitSignal, Evaluating, clockVars, ledgerVars
<1>1. Runners = {r}
  BY DEF Serialized
<1>2. LedgerInv /\ CashInv /\ StageInv(r) /\ \A t \in Symbols : SymbolInv(r, t)
  BY DEF CycleInv
<1>3. LedgerInv'
  BY <1>2 DEF LedgerInv, PositionsManaged, HasPlan, TypeOK
<1>4. CashInv'
  BY <1>1, <1>2 DEF CashInv, CashCovered, StageInv
<1>5. StageInv(r)'
  BY <1>2 DEF StageInv, TypeOK
<1>7. /\ sig[r][s] = NoSignal /\ s \notin prepared[r] /\ s \notin filled[r]
      /\ sig[r][s]'.side = "SELL" /\ sig[r][s]'.qty = plans[s].qty
      /\ \A t \in Symbols \ {s} : sig[r][t]' = sig[r][t]
      /\ plans[s].qty > 0 /\ pos[s] = plans[s].qty
  BY <1>2 DEF StageInv, SellSignal, LedgerInv, PositionsManaged, HasPlan, Held, TypeOK, Plan
<1>6. \A t \in Symbols : SymbolInv(r, t)'
  <2>1. SymbolInv(r, s)'
    BY <1>2, <1>7 DEF SymbolInv, BuyInv, SellInv, NoneInv
  <2>2. ASSUME NEW t \in Symbols \ {s} PROVE SymbolInv(r, t)'
    BY <1>2, <1>7 DEF SymbolInv, BuyInv, SellInv, NoneInv, HasPlan
  <2> QED BY <2>1, <2>2
<1> QED BY <1>1, <1>3, <1>4, <1>5, <1>6 DEF CycleInv

\* A pending exit changes no quantity.
LEMMA CycleMarkExitPending ==
  ASSUME Serialized, TypeOK, CycleInv, NEW r \in Runners, NEW s \in Symbols,
         MarkExitPending(r, s)
  PROVE  CycleInv'
<1> USE DEF MarkExitPending, Evaluating, clockVars, ledgerVars
<1>1. Runners = {r}
  BY DEF Serialized
<1>2. LedgerInv /\ CashInv /\ StageInv(r) /\ \A t \in Symbols : SymbolInv(r, t)
  BY DEF CycleInv
<1>7. \A t \in Symbols : plans[t]'.qty = plans[t].qty
  BY DEF TypeOK, Plan
<1>3. LedgerInv'
  BY <1>2, <1>7 DEF LedgerInv, PositionsManaged, HasPlan, TypeOK
<1>4. CashInv'
  BY <1>1, <1>2 DEF CashInv, CashCovered, TypeOK
<1>5. StageInv(r)'
  BY <1>2 DEF StageInv, TypeOK
<1>6. \A t \in Symbols : SymbolInv(r, t)'
  BY <1>2, <1>7 DEF SymbolInv, BuyInv, SellInv, NoneInv, HasPlan, TypeOK
<1> QED BY <1>1, <1>3, <1>4, <1>5, <1>6 DEF CycleInv

\* Nothing arms while an unplanned position is there.
LEMMA CycleArmEntry ==
  ASSUME Serialized, TypeOK, CycleInv, NEW r \in Runners, NEW s \in Symbols,
         ArmEntry(r, s)
  PROVE  CycleInv'
<1> USE DEF ArmEntry, Evaluating, clockVars, ledgerVars
<1>1. Runners = {r}
  BY DEF Serialized
<1>2. LedgerInv /\ CashInv /\ StageInv(r) /\ \A t \in Symbols : SymbolInv(r, t)
  BY DEF CycleInv
<1>7. /\ sig[r][s] = NoSignal /\ s \notin prepared[r] /\ s \notin filled[r]
      /\ sig[r][s]'.side = "BUY" /\ sig[r][s]'.qty \in 1..PerTradeHeat
      /\ \A t \in Symbols \ {s} : sig[r][t]' = sig[r][t]
      /\ pos[s] = 0 /\ ~HasPlan(s) /\ legacy = {}
  <2>1. pos[s] = 0
    BY <1>2 DEF LedgerInv, PositionsManaged, Held, TypeOK
  <2>2. legacy = {}
    BY <1>2 DEF LedgerInv, Unplanned, Held, TypeOK
  <2> QED BY <1>2, <2>1, <2>2 DEF StageInv, EntrySignal, TypeOK
<1>3. LedgerInv'
  BY <1>2 DEF LedgerInv, PositionsManaged, HasPlan, TypeOK
<1>4. CashInv'
  BY <1>1, <1>2 DEF CashInv, CashCovered, StageInv
<1>5. StageInv(r)'
  BY <1>2 DEF StageInv, TypeOK
<1>6. \A t \in Symbols : SymbolInv(r, t)'
  <2>1. SymbolInv(r, s)'
    BY <1>2, <1>7 DEF SymbolInv, BuyInv, SellInv, NoneInv, HasPlan
  <2>2. ASSUME NEW t \in Symbols \ {s} PROVE SymbolInv(r, t)'
    BY <1>2, <1>7 DEF SymbolInv, BuyInv, SellInv, NoneInv, HasPlan
  <2> QED BY <2>1, <2>2
<1> QED BY <1>1, <1>3, <1>4, <1>5, <1>6 DEF CycleInv

\* A symbol without a signal.
LEMMA CycleNoAction ==
  ASSUME Serialized, TypeOK, CycleInv, NEW r \in Runners, NEW s \in Symbols,
         Evaluating(r, s), UNCHANGED <<plans, sig>>
  PROVE  CycleInv'
<1> USE DEF Evaluating, clockVars, ledgerVars
<1>1. Runners = {r}
  BY DEF Serialized
<1>2. LedgerInv /\ CashInv /\ StageInv(r) /\ \A t \in Symbols : SymbolInv(r, t)
  BY DEF CycleInv
<1>3. LedgerInv'
  BY <1>2 DEF LedgerInv, PositionsManaged, HasPlan, TypeOK
<1>4. CashInv'
  BY <1>1, <1>2 DEF CashInv, CashCovered, TypeOK
<1>5. StageInv(r)'
  BY <1>2 DEF StageInv, TypeOK
<1>6. \A t \in Symbols : SymbolInv(r, t)'
  BY <1>2 DEF SymbolInv, BuyInv, SellInv, NoneInv, HasPlan, TypeOK
<1> QED BY <1>1, <1>3, <1>4, <1>5, <1>6 DEF CycleInv

\* What is kept is unchanged, and the BUYs kept are what is to be stored.
LEMMA CycleDropUnfitSignals ==
  ASSUME Serialized, TypeOK, CycleInv, NEW r \in Runners,
         DropUnfitSignals(r)
  PROVE  CycleInv'
<1> USE DEF DropUnfitSignals, clockVars, ledgerVars
<1>1. Runners = {r}
  BY DEF Serialized
<1>2. LedgerInv /\ CashInv /\ StageInv(r) /\ \A t \in Symbols : SymbolInv(r, t)
  BY DEF CycleInv
<1>3. /\ \A t \in Symbols : sig'[r][t] \in {sig[r][t], NoSignal}
      /\ todo'[r] = {t \in Symbols : sig'[r][t].side = "BUY"}
      /\ pc[r] = "evaluate" /\ pc'[r] = "store"
  BY DEF TypeOK
<1>4. LedgerInv'
  BY <1>2 DEF LedgerInv, PositionsManaged, HasPlan, TypeOK
<1>5. CashInv'
  BY <1>1, <1>2 DEF CashInv, CashCovered, StageInv, TypeOK
<1>6. StageInv(r)'
  BY <1>2, <1>3 DEF StageInv
<1>7. \A t \in Symbols : SymbolInv(r, t)'
  BY <1>2, <1>3 DEF SymbolInv, BuyInv, SellInv, NoneInv, HasPlan, StageInv, NoSignal
<1> QED BY <1>1, <1>4, <1>5, <1>6, <1>7 DEF CycleInv

\* The plan stored has the size of the entry, and the symbol is not held.
LEMMA CycleStorePlan ==
  ASSUME Serialized, TypeOK, CycleInv, NEW r \in Runners, NEW s \in Symbols,
         StorePlan(r, s)
  PROVE  CycleInv'
<1> USE DEF StorePlan, clockVars, ledgerVars
<1>1. Runners = {r}
  BY DEF Serialized
<1>2. LedgerInv /\ CashInv /\ StageInv(r) /\ \A t \in Symbols : SymbolInv(r, t)
  BY DEF CycleInv
<1>3. /\ sig[r][s].side = "BUY" /\ legacy = {} /\ pos[s] = 0
      /\ s \notin filled[r] /\ pc[r] = "store"
      /\ plans'[s].qty = sig[r][s].qty /\ \A t \in Symbols \ {s} : plans'[t] = plans[t]
      /\ s \in prepared'[r] /\ \A t \in Symbols \ {s} : t \in prepared'[r] <=> t \in prepared[r]
  BY <1>2 DEF StageInv, SymbolInv, BuyInv, TypeOK
<1>4. LedgerInv'
  BY <1>2, <1>3 DEF LedgerInv, PositionsManaged, HasPlan, BuyInv, SymbolInv, TypeOK
<1>5. CashInv'
  BY <1>1, <1>2 DEF CashInv, CashCovered, StageInv, TypeOK
<1>6. StageInv(r)'
  BY <1>2, <1>3 DEF StageInv, TypeOK
<1>7. \A t \in Symbols : SymbolInv(r, t)'
  <2>1. SymbolInv(r, s)'
    BY <1>2, <1>3 DEF SymbolInv, BuyInv, SellInv, NoneInv, HasPlan
  <2>2. ASSUME NEW t \in Symbols \ {s} PROVE SymbolInv(r, t)'
    BY <1>2, <1>3 DEF SymbolInv, BuyInv, SellInv, NoneInv, HasPlan
  <2> QED BY <2>1, <2>2
<1> QED BY <1>1, <1>4, <1>5, <1>6, <1>7 DEF CycleInv

\* A plan that could not be stored takes its entry with it.
LEMMA CyclePlanPersistenceFails ==
  ASSUME Serialized, TypeOK, CycleInv, NEW r \in Runners, NEW s \in Symbols,
         PlanPersistenceFails(r, s)
  PROVE  CycleInv'
<1> USE DEF PlanPersistenceFails, clockVars, ledgerVars
<1>1. Runners = {r}
  BY DEF Serialized
<1>2. LedgerInv /\ CashInv /\ StageInv(r) /\ \A t \in Symbols : SymbolInv(r, t)
  BY DEF CycleInv
<1>3. /\ s \notin prepared[r] /\ s \notin filled[r]
      /\ pc[r] = "store" /\ sig'[r][s] = NoSignal
      /\ \A t \in Symbols \ {s} : sig'[r][t] = sig[r][t]
  BY <1>2 DEF StageInv, TypeOK
<1>4. LedgerInv'
  BY <1>2 DEF LedgerInv, PositionsManaged, HasPlan, TypeOK
<1>5. CashInv'
  BY <1>1, <1>2 DEF CashInv, CashCovered, StageInv, TypeOK
<1>6. StageInv(r)'
  BY <1>2, <1>3 DEF StageInv, TypeOK, NoSignal
<1>7. \A t \in Symbols : SymbolInv(r, t)'
  BY <1>2, <1>3 DEF SymbolInv, BuyInv, SellInv, NoneInv, HasPlan, NoSignal, TypeOK
<1> QED BY <1>1, <1>4, <1>5, <1>6, <1>7 DEF CycleInv

\* Every entry submitted is prepared.
LEMMA CycleBeginSubmit ==
  ASSUME Serialized, TypeOK, CycleInv, NEW r \in Runners,
         BeginSubmit(r)
  PROVE  CycleInv'
<1> USE DEF BeginSubmit, clockVars, ledgerVars
<1>1. Runners = {r}
  BY DEF Serialized
<1>2. LedgerInv /\ CashInv /\ StageInv(r) /\ \A t \in Symbols : SymbolInv(r, t)
  BY DEF CycleInv
<1>4. LedgerInv'
  BY <1>2 DEF LedgerInv, PositionsManaged, HasPlan, TypeOK
<1>5. CashInv'
  BY <1>1, <1>2 DEF CashInv, CashCovered, StageInv, TypeOK
<1>6. StageInv(r)'
  BY <1>2 DEF StageInv, SymbolInv, NoneInv, TypeOK
<1>7. \A t \in Symbols : SymbolInv(r, t)'
  BY <1>2 DEF SymbolInv, BuyInv, SellInv, NoneInv, HasPlan, TypeOK
<1> QED BY <1>1, <1>4, <1>5, <1>6, <1>7 DEF CycleInv

\* An entry approved is covered by the cash read for it.
LEMMA CycleApprove ==
  ASSUME Serialized, TypeOK, CycleInv, NEW r \in Runners, NEW s \in Symbols,
         Approve(r, s)
  PROVE  CycleInv'
<1> USE DEF Approve, clockVars, ledgerVars
<1>1. Runners = {r}
  BY DEF Serialized
<1>2. LedgerInv /\ CashInv /\ StageInv(r) /\ \A t \in Symbols : SymbolInv(r, t)
  BY DEF CycleInv
<1>4. LedgerInv'
  BY <1>2 DEF LedgerInv, PositionsManaged, HasPlan, TypeOK
<1>5. CashInv'
  BY <1>1, <1>2 DEF CashInv, CashCovered, WithinRiskLimits, TypeOK
<1>6. StageInv(r)'
  BY <1>2 DEF StageInv, TypeOK
<1>7. \A t \in Symbols : SymbolInv(r, t)'
  BY <1>2 DEF SymbolInv, BuyInv, SellInv, NoneInv, HasPlan, TypeOK
<1> QED BY <1>1, <1>4, <1>5, <1>6, <1>7 DEF CycleInv

\* A signal turned down changes nothing.
LEMMA CycleReject ==
  ASSUME Serialized, TypeOK, CycleInv, NEW r \in Runners, NEW s \in Symbols,
         Reject(r, s)
  PROVE  CycleInv'
<1> USE DEF Reject, clockVars, ledgerVars
<1>1. Runners = {r}
  BY DEF Serialized
<1>2. LedgerInv /\ CashInv /\ StageInv(r) /\ \A t \in Symbols : SymbolInv(r, t)
  BY DEF CycleInv
<1>4. LedgerInv'
  BY <1>2 DEF LedgerInv, PositionsManaged, HasPlan, TypeOK
<1>5. CashInv'
  BY <1>1, <1>2 DEF CashInv, CashCovered, StageInv, TypeOK
<1>6. StageInv(r)'
  BY <1>2 DEF StageInv, TypeOK
<1>7. \A t \in Symbols : SymbolInv(r, t)'
  BY <1>2 DEF SymbolInv, BuyInv, SellInv, NoneInv, HasPlan, TypeOK
<1> QED BY <1>1, <1>4, <1>5, <1>6, <1>7 DEF CycleInv

\* What a fill finds and leaves: an entry opens at the size of its plan, an
\* exit leaves nothing.
FillEffect(r, s) ==
  /\ pc[r] = "submit" /\ s \in todo[r] /\ s \notin filled[r]
  /\ \/ /\ sig[r][s].side = "BUY" /\ legacy = {} /\ s \in prepared[r]
        /\ pos[s] = 0 /\ pos'[s] = sig[r][s].qty
        /\ sig[r][s].qty > 0 /\ plans[s].qty = sig[r][s].qty
     \/ /\ sig[r][s].side = "SELL" /\ s \notin legacy /\ s \notin prepared[r]
        /\ pos[s] > 0 /\ pos[s] = sig[r][s].qty /\ pos'[s] = 0
  /\ \A t \in Symbols \ {s} : pos'[t] = pos[t]
  /\ cash' \in Int /\ cash' >= 0

LEMMA FillFacts ==
  ASSUME TypeOK, CycleInv, NEW r \in Runners, NEW s \in Symbols, FillOrder(r, s)
  PROVE  FillEffect(r, s)
<1> USE DEF FillEffect
<1>1. LedgerInv /\ CashInv /\ StageInv(r) /\ SymbolInv(r, s)
  BY DEF CycleInv
<1>2. pc[r] = "submit" /\ s \in todo[r] /\ s \notin filled[r] /\ s \in approved[r]
  BY <1>1 DEF StageInv, FillOrder, TypeOK, Stages
<1>3. sig[r][s].qty \in Nat /\ pos[s] \in Int /\ cash \in Int
  BY DEF TypeOK, Signal
<1>4. CASE sig[r][s].side = "BUY"
  <2>1. s \in prepared[r] /\ legacy = {} /\ pos[s] = 0
        /\ sig[r][s].qty > 0 /\ plans[s].qty = sig[r][s].qty
    BY <1>1, <1>2, <1>4 DEF StageInv, SymbolInv, BuyInv
  <2>2. /\ pos' = [pos EXCEPT ![s] = pos[s] + sig[r][s].qty]
        /\ cash' = cash - sig[r][s].qty
    BY <1>4 DEF FillOrder
  <2>3. sig[r][s].qty <= cash
    BY <1>1, <1>2, <1>4 DEF CashInv
  <2> QED BY <1>2, <1>3, <1>4, <2>1, <2>2, <2>3 DEF TypeOK
<1>5. CASE sig[r][s].side = "SELL"
  <2>1. s \notin prepared[r] /\ sig[r][s].qty > 0
        /\ pos[s] = sig[r][s].qty /\ plans[s].qty = sig[r][s].qty
    BY <1>1, <1>2, <1>5 DEF SymbolInv, SellInv
  <2>2. s \notin legacy
    BY <1>1, <2>1 DEF LedgerInv, HasPlan
  <2>3. /\ pos' = [pos EXCEPT ![s] = pos[s] - sig[r][s].qty]
        /\ \E loss \in ExitLosses : loss <= sig[r][s].qty /\ cash' = cash + sig[r][s].qty - loss
    BY <1>5 DEF FillOrder
  <2>4. PICK loss \in ExitLosses : loss <= sig[r][s].qty /\ cash' = cash + sig[r][s].qty - loss
    BY <2>3
  <2>5. loss \in Nat
    BY DEF LimitsAssumption
  <2>6. cash' \in Int /\ cash' >= 0
    BY <1>1, <1>3, <2>4, <2>5 DEF CashInv, CashCovered
  <2> QED BY <1>2, <1>3, <1>5, <2>1, <2>2, <2>3, <2>6 DEF TypeOK
<1> QED BY <1>4, <1>5 DEF FillOrder

\* A fill leaves the position and its plan of one size.
LEMMA CycleFillOrder ==
  ASSUME Serialized, TypeOK, CycleInv, NEW r \in Runners, NEW s \in Symbols,
         FillOrder(r, s)
  PROVE  CycleInv'
<1> USE DEF clockVars, ledgerVars
<1>1. Runners = {r}
  BY DEF Serialized
<1>2. LedgerInv /\ CashInv /\ StageInv(r) /\ \A t \in Symbols : SymbolInv(r, t)
  BY DEF CycleInv
<1>3. /\ plans' = plans /\ legacy' = legacy /\ sig' = sig /\ pc' = pc /\ prepared' = prepared
      /\ approved'[r] = {} /\ todo'[r] = todo[r] \ {s} /\ filled'[r] = filled[r] \cup {s}
  BY DEF FillOrder, TypeOK
<1>8. FillEffect(r, s)
  BY FillFacts
<1>4. LedgerInv'
  BY <1>2, <1>3, <1>8 DEF FillEffect, LedgerInv, PositionsManaged, HasPlan, TypeOK
<1>5. CashInv'
  BY <1>1, <1>3, <1>8 DEF FillEffect, CashInv, CashCovered
<1>6. StageInv(r)'
  BY <1>2, <1>3, <1>8 DEF FillEffect, StageInv
<1>7. \A t \in Symbols : SymbolInv(r, t)'
  <2>1. SymbolInv(r, s)'
    BY <1>2, <1>3, <1>8 DEF FillEffect, SymbolInv, BuyInv, SellInv, NoneInv, HasPlan
  <2>2. ASSUME NEW t \in Symbols \ {s} PROVE SymbolInv(r, t)'
    BY <1>2, <1>3, <1>8 DEF FillEffect, SymbolInv, BuyInv, SellInv, NoneInv, HasPlan
  <2> QED BY <2>1, <2>2
<1> QED BY <1>1, <1>4, <1>5, <1>6, <1>7 DEF CycleInv

\* An order refused by the ledger changes nothing.
LEMMA CycleDuplicateOrder ==
  ASSUME Serialized, TypeOK, CycleInv, NEW r \in Runners, NEW s \in Symbols,
         DuplicateOrder(r, s)
  PROVE  CycleInv'
<1> USE DEF DuplicateOrder, clockVars, ledgerVars
<1>1. Runners = {r}
  BY DEF Serialized
<1>2. LedgerInv /\ CashInv /\ StageInv(r) /\ \A t \in Symbols : SymbolInv(r, t)
  BY DEF CycleInv
<1>4. LedgerInv'
  BY <1>2 DEF LedgerInv, PositionsManaged, HasPlan, TypeOK
<1>5. CashInv'
  BY <1>1, <1>2 DEF CashInv, CashCovered, StageInv, TypeOK
<1>6. StageInv(r)'
  BY <1>2 DEF StageInv, TypeOK
<1>7. \A t \in Symbols : SymbolInv(r, t)'
  BY <1>2 DEF SymbolInv, BuyInv, SellInv, NoneInv, HasPlan, TypeOK
<1> QED BY <1>1, <1>4, <1>5, <1>6, <1>7 DEF CycleInv

\* Whatever is to be settled has no position.
LEMMA CycleBeginSettle ==
  ASSUME Serialized, TypeOK, CycleInv, NEW r \in Runners,
         BeginSettle(r)
  PROVE  CycleInv'
<1> USE DEF BeginSettle, clockVars, ledgerVars
<1>1. Runners = {r}
  BY DEF Serialized
<1>2. LedgerInv /\ CashInv /\ StageInv(r) /\ \A t \in Symbols : SymbolInv(r, t)
  BY DEF CycleInv
<1>4. LedgerInv'
  BY <1>2 DEF LedgerInv, PositionsManaged, HasPlan, TypeOK
<1>5. CashInv'
  BY <1>1, <1>2 DEF CashInv, CashCovered, StageInv, TypeOK
<1>6. StageInv(r)'
  BY <1>2 DEF StageInv, SymbolInv, BuyInv, SellInv, NoneInv, TypeOK, Signal
<1>7. \A t \in Symbols : SymbolInv(r, t)'
  BY <1>2 DEF SymbolInv, BuyInv, SellInv, NoneInv, HasPlan, TypeOK
<1> QED BY <1>1, <1>4, <1>5, <1>6, <1>7 DEF CycleInv

\* The plan removed has no position.
LEMMA CycleSettlePlan ==
  ASSUME Serialized, TypeOK, CycleInv, NEW r \in Runners, NEW s \in Symbols,
         SettlePlan(r, s)
  PROVE  CycleInv'
<1> USE DEF SettlePlan, clockVars, ledgerVars
<1>1. Runners = {r}
  BY DEF Serialized
<1>2. LedgerInv /\ CashInv /\ StageInv(r) /\ \A t \in Symbols : SymbolInv(r, t)
  BY DEF CycleInv
<1>3. /\ pos[s] = 0 /\ pc[r] = "settle" /\ plans'[s].qty = 0
      /\ \A t \in Symbols \ {s} : plans'[t] = plans[t]
  BY <1>2 DEF StageInv, NoPlan, TypeOK
<1>4. LedgerInv'
  BY <1>2, <1>3 DEF LedgerInv, PositionsManaged, HasPlan, TypeOK
<1>5. CashInv'
  BY <1>1, <1>2 DEF CashInv, CashCovered, StageInv, TypeOK
<1>6. StageInv(r)'
  BY <1>2, <1>3 DEF StageInv, TypeOK
<1>7. \A t \in Symbols : SymbolInv(r, t)'
  <2>1. SymbolInv(r, s)'
    BY <1>2, <1>3 DEF SymbolInv, BuyInv, SellInv, NoneInv, HasPlan
  <2>2. ASSUME NEW t \in Symbols \ {s} PROVE SymbolInv(r, t)'
    BY <1>2, <1>3 DEF SymbolInv, BuyInv, SellInv, NoneInv, HasPlan
  <2> QED BY <2>1, <2>2
<1> QED BY <1>1, <1>4, <1>5, <1>6, <1>7 DEF CycleInv

LEMMA CycleStepInv ==
  ASSUME Serialized PROVE TypeOK /\ CycleInv /\ [Next]_vars => CycleInv'
<1> SUFFICES ASSUME TypeOK, CycleInv, [Next]_vars PROVE CycleInv'
  OBVIOUS
<1>1. CASE Tick
  BY <1>1 DEF Tick, ledgerVars, runVars, CycleInv, LedgerInv, PositionsManaged, HasPlan,
              CashInv, CashCovered, StageInv, SymbolInv, BuyInv, SellInv, NoneInv
<1>2. ASSUME NEW r \in Runners, Start(r) PROVE CycleInv'
  BY <1>2, CycleStart
<1>3. ASSUME NEW r \in Runners, StageStep(r) PROVE CycleInv'
  <2>1. CASE Finish(r)
    BY <2>1, CycleReset DEF Finish
  <2> QED BY <1>3, <2>1, CycleDropUnfitSignals, CycleBeginSubmit, CycleBeginSettle
          DEF StageStep
<1>4. ASSUME NEW r \in Runners, NEW s \in Symbols, SymbolStep(r, s) PROVE CycleInv'
  <2>1. CASE NoAction(r, s)
    BY <2>1, CycleNoAction DEF NoAction
  <2> QED BY <1>4, <2>1, CycleClearStalePlan, CycleExitSignal, CycleMarkExitPending,
             CycleArmEntry, CycleStorePlan, CycleApprove, CycleReject, CycleFillOrder,
             CycleDuplicateOrder, CycleSettlePlan DEF SymbolStep
<1>5. ASSUME NEW r \in Runners, Fault(r) PROVE CycleInv'
  <2>1. CASE Kill(r)
    BY <2>1, CycleReset DEF Kill
  <2>2. ASSUME NEW s \in Symbols, EvaluationError(r, s) PROVE CycleInv'
    BY <2>2, CycleNoAction DEF EvaluationError
  <2>3. ASSUME NEW s \in Symbols, FillStoreFails(r, s) PROVE CycleInv'
    BY <2>3, CycleReset DEF FillStoreFails
  <2> QED BY <1>5, <2>1, <2>2, <2>3, CyclePlanPersistenceFails DEF Fault
<1>6. CASE UNCHANGED vars
  BY <1>6 DEF vars, CycleInv, LedgerInv, PositionsManaged, HasPlan, CashInv, CashCovered,
              StageInv, SymbolInv, BuyInv, SellInv, NoneInv
<1> QED BY <1>1, <1>2, <1>3, <1>4, <1>5, <1>6 DEF Next, CycleStep

THEOREM CycleInvariant == ASSUME Serialized PROVE Spec => []CycleInv
BY CycleInit, CycleStepInv, TypeCorrect, PTL DEF Spec

\* Where cycles do not overlap, no crash or error at any point leaves a position
\* that the program opened without its plan.
THEOREM PositionsStayManaged == ASSUME Serialized PROVE Spec => []PositionsManaged
<1>1. CycleInv => PositionsManaged
  BY DEF CycleInv, LedgerInv
<1> QED BY <1>1, CycleInvariant, PTL

\* Where cycles do not overlap, the cash of the fills is never overdrawn.
THEOREM CashStaysCovered == ASSUME Serialized PROVE Spec => []CashCovered
<1>1. CycleInv => CashCovered
  BY DEF CycleInv, CashInv
<1> QED BY <1>1, CycleInvariant, PTL

-----------------------------------------------------------------------------
(* A position without a plan stops every entry *)

\* Only a fill moves a position.
LEMMA OnlyFillsMovePositions ==
  ASSUME [Next]_vars, pos' # pos
  PROVE  \E r \in Runners : \E s \in Symbols : FillOrder(r, s)
<1> USE DEF ledgerVars
<1>1. ~Tick /\ ~UNCHANGED vars
  BY DEF Tick, vars
<1>2. ASSUME NEW r \in Runners, Start(r) \/ StageStep(r) \/ Fault(r) PROVE FALSE
  <2>1. Start(r) => pos' = pos
    BY DEF Start
  <2>2. StageStep(r) => pos' = pos
    BY DEF StageStep, DropUnfitSignals, BeginSubmit, BeginSettle, Finish
  <2>3. Fault(r) => pos' = pos
    BY DEF Fault, Kill, EvaluationError, Evaluating, PlanPersistenceFails, FillStoreFails
  <2> QED BY <1>2, <2>1, <2>2, <2>3
<1>3. ASSUME NEW r \in Runners, NEW s \in Symbols, SymbolStep(r, s) PROVE FillOrder(r, s)
  BY <1>3 DEF SymbolStep, ClearStalePlan, ExitSignal, MarkExitPending, ArmEntry, NoAction,
              Evaluating, StorePlan, Approve, Reject, DuplicateOrder, SettlePlan
<1> QED
  BY <1>1, <1>2, <1>3 DEF Next, CycleStep

\* Where cycles do not overlap, nothing is bought and no unplanned position is
\* touched while a position without a plan exists.
THEOREM LegacyStaysClosed == ASSUME Serialized PROVE Spec => LegacyFailsClosed
<1>1. ASSUME TypeOK, CycleInv, [Next]_vars, Unplanned # {}, pos' # pos
      PROVE  /\ \A s \in Symbols : pos'[s] <= pos[s]
             /\ \A s \in Unplanned : pos'[s] = pos[s]
  <2>1. PICK r \in Runners, s \in Symbols : FillOrder(r, s)
    BY <1>1, OnlyFillsMovePositions
  <2>2. FillEffect(r, s)
    BY <1>1, <2>1, FillFacts
  <2>3. Unplanned = legacy
    BY <1>1 DEF Unplanned, Held, HasPlan, CycleInv, LedgerInv, PositionsManaged, TypeOK
  <2>4. /\ legacy # {} /\ legacy \subseteq Symbols
        /\ \A t \in Symbols : pos[t] \in Int
    BY <1>1, <2>3 DEF TypeOK
  <2>5. s \notin legacy /\ pos'[s] = 0 /\ pos[s] > 0 /\ \A t \in Symbols \ {s} : pos'[t] = pos[t]
    BY <2>2, <2>4 DEF FillEffect
  <2>6. \A t \in Symbols : pos'[t] <= pos[t]
    BY <2>4, <2>5
  <2>7. \A t \in Unplanned : pos'[t] = pos[t]
    BY <2>3, <2>4, <2>5
  <2> QED BY <2>6, <2>7
<1>2. TypeOK /\ CycleInv /\ [Next]_vars =>
        [Unplanned # {} => /\ \A s \in Symbols : pos'[s] <= pos[s]
                           /\ \A s \in Unplanned : pos'[s] = pos[s]]_pos
  BY <1>1
<1> QED BY <1>2, TypeCorrect, CycleInvariant, PTL DEF Spec, LegacyFailsClosed

-----------------------------------------------------------------------------
(* Heat *)

LEMMA MembersFinite == \A c : ClusterMembers(c) \subseteq Symbols /\ IsFiniteSet(ClusterMembers(c))
BY FS_Subset DEF ClusterMembers, SetsAssumption

LEMMA HeatInit == Init => HeatInv
<1> SUFFICES ASSUME Init PROVE HeatInv
  OBVIOUS
<1>1. ASSUME NEW f, NEW S \in SUBSET Symbols, \A s \in S : f[s] = 0
      PROVE  Total(f, S) = 0
  <2>1. LotsOf(f, S) = {}
    BY <1>1 DEF LotsOf
  <2> QED BY <2>1, FS_EmptySet DEF Total
<1>2. \A s \in Symbols : Heat[s] = 0 /\ \A r \in Runners : Committed(r)[s] = 0
  BY DEF Init, Heat, Committed, NoPlan, NoSignals, NoSignal
<1> QED BY <1>1, <1>2, MembersFinite DEF HeatInv, HeatWithinBudget, OpenHeat, ClusterHeat,
           LimitsAssumption

\* A step that commits no symbol to more keeps the budgets.
LEMMA HeatShrinks ==
  ASSUME Serialized, TypeOK, TypeOK', CycleInv', HeatInv, NEW r \in Runners,
         \A s \in Symbols : Committed(r)'[s] <= Committed(r)[s]
  PROVE  HeatInv'
<1>1. Runners = {r}
  BY DEF Serialized
<1>2. \A s \in Symbols : /\ Committed(r)[s] \in Nat /\ Committed(r)'[s] \in Nat
                         /\ Heat'[s] \in Nat /\ Heat'[s] <= Committed(r)'[s]
  BY DEF TypeOK, Committed, Heat, Plan, Signal, CycleInv, SymbolInv, BuyInv, HasPlan
<1>3. ASSUME NEW S \in SUBSET Symbols, IsFiniteSet(S), NEW max \in Nat,
             Total(Committed(r), S) <= max
      PROVE  Total(Committed(r)', S) <= max /\ Total(Heat', S) <= max
  <2>1. /\ Total(Committed(r)', S) <= Total(Committed(r), S)
        /\ Total(Heat', S) <= Total(Committed(r)', S)
    BY <1>2, <1>3, TotalMonotone
  <2>2. Total(Committed(r), S) \in Nat /\ Total(Committed(r)', S) \in Nat /\ Total(Heat', S) \in Nat
    BY <1>2, <1>3, LotsFinite
  <2> QED BY <1>3, <2>1, <2>2
<1>4. /\ Total(Committed(r)', Symbols) <= MaxOpenHeat
      /\ Total(Heat', Symbols) <= MaxOpenHeat
  BY <1>3 DEF HeatInv, SetsAssumption, LimitsAssumption
<1>5. ASSUME NEW c \in Clusters
      PROVE  /\ Total(Committed(r)', ClusterMembers(c)) <= MaxClusterHeat
             /\ Total(Heat', ClusterMembers(c)) <= MaxClusterHeat
  BY <1>3, MembersFinite DEF HeatInv, LimitsAssumption
<1> QED BY <1>1, <1>4, <1>5 DEF HeatInv, HeatWithinBudget, OpenHeat, ClusterHeat, ClusterMembers

\* An entry that arms fits what is reserved and what is already armed.
LEMMA HeatArmEntry ==
  ASSUME Serialized, TypeOK, TypeOK', CycleInv, CycleInv', HeatInv,
         NEW r \in Runners, NEW s \in Symbols, ArmEntry(r, s)
  PROVE  HeatInv'
<1>1. Runners = {r}
  BY DEF Serialized
<1>2. PICK kind \in EntryKinds, q \in 1..PerTradeHeat :
        FitsBudgets(r, s, q) /\ sig' = [sig EXCEPT ![r][s] = EntrySignal(kind, q)]
  BY DEF ArmEntry
<1> DEFINE one == [t \in Symbols |-> IF t = s THEN q ELSE 0]
<1>3. /\ plans' = plans /\ prepared' = prepared /\ prepared[r] = {}
      /\ sig[r][s] = NoSignal /\ plans[s].qty = 0
  BY DEF ArmEntry, Evaluating, CycleInv, StageInv, HasPlan, TypeOK, Plan
<1>4. \A t \in Symbols :
        /\ Heat[t] \in Nat /\ Armed(r)[t] \in Nat /\ Committed(r)[t] \in Nat /\ one[t] \in Nat
        /\ Heat[t] = 0 \/ Armed(r)[t] = 0
        /\ Committed(r)[t] = Heat[t] + Armed(r)[t]
  <2> SUFFICES ASSUME NEW t \in Symbols
               PROVE  /\ Heat[t] \in Nat /\ Armed(r)[t] \in Nat
                      /\ Committed(r)[t] \in Nat /\ one[t] \in Nat
                      /\ Heat[t] = 0 \/ Armed(r)[t] = 0
                      /\ Committed(r)[t] = Heat[t] + Armed(r)[t]
    BY Zenon
  <2>1. plans[t].qty \in Nat /\ sig[r][t].qty \in Nat
    BY DEF TypeOK, Plan, Signal
  <2>2. t \notin prepared[r] /\ (sig[r][t].side = "BUY" => plans[t].qty = 0)
    BY <1>3, <2>1 DEF CycleInv, SymbolInv, BuyInv, HasPlan
  <2>3. one[t] \in Nat
    OBVIOUS
  <2> QED BY <2>1, <2>2, <2>3 DEF Heat, Armed, Committed
<1>5. \A t \in Symbols :
        /\ Committed(r)[t] = 0 \/ one[t] = 0
        /\ Committed(r)'[t] = Committed(r)[t] + one[t]
        /\ Heat'[t] = Heat[t]
  BY <1>2, <1>3 DEF TypeOK, Committed, Heat, Plan, Signal, EntrySignal, NoSignal
<1>6. ASSUME NEW S \in SUBSET Symbols, IsFiniteSet(S), NEW max \in Nat,
             Total(Committed(r), S) <= max,
             s \in S => q + Total(Heat, S) + Total(Armed(r), S) <= max
      PROVE  Total(Committed(r)', S) <= max /\ Total(Heat', S) <= max
  <2>1. /\ Total(Heat, S) \in Nat /\ Total(Armed(r), S) \in Nat
        /\ Total(Committed(r), S) \in Nat /\ Total(one, S) \in Nat
    BY <1>4, <1>6, LotsFinite
  <2>2. Total(Committed(r), S) = Total(Heat, S) + Total(Armed(r), S)
    BY <1>4, <1>6, TotalDisjoint
  <2>3. Total(Committed(r)', S) = Total(Committed(r), S) + Total(one, S)
    BY <1>4, <1>5, <1>6, TotalDisjoint
  <2>4. Total(Heat', S) <= Total(Heat, S) /\ Total(Heat', S) \in Nat
    BY <1>4, <1>5, <1>6, TotalMonotone, LotsFinite
  <2>5. CASE s \in S
    <3>1. Total(one, S) = q
      BY <2>5, TotalSingle
    <3> QED BY <1>6, <2>1, <2>2, <2>3, <2>4, <2>5, <3>1
  <2>6. CASE s \notin S
    <3>1. \A t \in S : Committed(r)'[t] \in Nat /\ Committed(r)'[t] <= Committed(r)[t]
      BY <1>4, <1>5, <2>6
    <3>2. Total(Committed(r)', S) <= Total(Committed(r), S)
      BY <1>4, <1>6, <3>1, TotalMonotone
    <3> QED BY <1>6, <2>1, <2>2, <2>3, <2>4, <3>2
  <2> QED BY <2>5, <2>6
<1>7. /\ Total(Committed(r)', Symbols) <= MaxOpenHeat
      /\ Total(Heat', Symbols) <= MaxOpenHeat
  BY <1>2, <1>6 DEF HeatInv, SetsAssumption, LimitsAssumption, FitsBudgets, OpenHeat, Reserved
<1>8. ASSUME NEW c \in Clusters
      PROVE  /\ Total(Committed(r)', ClusterMembers(c)) <= MaxClusterHeat
             /\ Total(Heat', ClusterMembers(c)) <= MaxClusterHeat
  <2>1. s \in ClusterMembers(c) => ClusterOf[s] = c
    BY DEF ClusterMembers
  <2>2. s \in ClusterMembers(c) =>
          q + Total(Heat, ClusterMembers(c)) + Total(Armed(r), ClusterMembers(c)) <= MaxClusterHeat
    BY <1>2, <2>1 DEF FitsBudgets, ClusterHeat, Reserved
  <2> QED BY <1>6, <2>2, MembersFinite DEF HeatInv, LimitsAssumption
<1> QED BY <1>1, <1>7, <1>8 DEF HeatInv, HeatWithinBudget, OpenHeat, ClusterHeat, ClusterMembers

LEMMA HeatStep ==
  ASSUME Serialized
  PROVE  TypeOK /\ TypeOK' /\ CycleInv /\ CycleInv' /\ HeatInv /\ [Next]_vars => HeatInv'
<1> SUFFICES ASSUME TypeOK, TypeOK', CycleInv, CycleInv', HeatInv, [Next]_vars
             PROVE  HeatInv'
  OBVIOUS
<1>1. ASSUME NEW r \in Runners, NEW s \in Symbols, ArmEntry(r, s) PROVE HeatInv'
  BY <1>1, HeatArmEntry
\* No other step of a run commits a symbol to more than it had.
<1>2. ASSUME NEW r \in Runners, NEW t \in Symbols,
             \/ Start(r) \/ StageStep(r) \/ Fault(r)
             \/ \E s \in Symbols : SymbolStep(r, s) /\ ~ArmEntry(r, s)
      PROVE  Committed(r)'[t] <= Committed(r)[t]
  <2> USE DEF Evaluating, Committed
  <2>1. /\ plans[t].qty \in Nat /\ sig[r][t].qty \in Nat
        /\ plans'[t].qty \in Nat /\ sig'[r][t].qty \in Nat
        /\ sig[r][t].side = "BUY" /\ t \notin prepared[r] => plans[t].qty = 0
    BY DEF TypeOK, Plan, Signal, CycleInv, SymbolInv, BuyInv, HasPlan
  <2>2. ASSUME Reset(r), plans' = plans PROVE Committed(r)'[t] <= Committed(r)[t]
    BY <2>1, <2>2 DEF Reset, NoSignals, NoSignal, TypeOK
  <2>3. ASSUME plans' = plans, sig' = sig, prepared' = prepared
        PROVE  Committed(r)'[t] <= Committed(r)[t]
    BY <2>1, <2>3
  <2>4. CASE Start(r)
    BY <2>3, <2>4 DEF Start
  <2>5. CASE StageStep(r)
    <3>1. CASE DropUnfitSignals(r)
      BY <2>1, <3>1 DEF DropUnfitSignals, NoSignal, TypeOK
    <3> QED BY <2>2, <2>3, <2>5, <3>1 DEF StageStep, Finish, BeginSubmit, BeginSettle
  <2>6. CASE Fault(r)
    <3>1. ASSUME NEW s \in Symbols, PlanPersistenceFails(r, s)
          PROVE  Committed(r)'[t] <= Committed(r)[t]
      BY <2>1, <3>1 DEF PlanPersistenceFails, NoSignal, TypeOK
    <3> QED BY <2>2, <2>3, <2>6, <3>1 DEF Fault, Kill, EvaluationError, FillStoreFails
  <2>7. ASSUME NEW s \in Symbols, SymbolStep(r, s), ~ArmEntry(r, s)
        PROVE  Committed(r)'[t] <= Committed(r)[t]
    <3>1. CASE ClearStalePlan(r, s)
      BY <2>1, <3>1 DEF ClearStalePlan, NoPlan, TypeOK
    <3>2. CASE ExitSignal(r, s)
      <4>1. sig[r][s] = NoSignal /\ plans' = plans /\ prepared' = prepared
            /\ sig'[r][s].side = "SELL" /\ (t # s => sig'[r][t] = sig[r][t])
        BY <3>2 DEF ExitSignal, SellSignal, CycleInv, StageInv, TypeOK
      <4> QED BY <2>1, <4>1 DEF NoSignal
    <3>3. CASE MarkExitPending(r, s)
      <4>1. plans'[t].qty = plans[t].qty /\ sig' = sig /\ prepared' = prepared
        BY <3>3 DEF MarkExitPending, TypeOK, Plan
      <4> QED BY <2>1, <4>1
    <3>4. CASE StorePlan(r, s)
      <4>1. s \notin prepared[r] /\ sig[r][s].side = "BUY"
        BY <3>4 DEF StorePlan, CycleInv, StageInv
      <4> QED BY <2>1, <3>4, <4>1 DEF StorePlan, TypeOK
    <3>5. CASE SettlePlan(r, s)
      BY <2>1, <3>5 DEF SettlePlan, NoPlan, TypeOK
    <3>6. CASE NoAction(r, s) \/ Approve(r, s) \/ Reject(r, s) \/ FillOrder(r, s) \/ DuplicateOrder(r, s)
      BY <2>3, <3>6 DEF NoAction, Approve, Reject, FillOrder, DuplicateOrder
    <3> QED BY <2>7, <3>1, <3>2, <3>3, <3>4, <3>5, <3>6 DEF SymbolStep
  <2> QED BY <1>2, <2>4, <2>5, <2>6, <2>7
<1>3. ASSUME plans' = plans, sig' = sig, prepared' = prepared PROVE HeatInv'
  BY <1>3 DEF HeatInv, HeatWithinBudget, OpenHeat, ClusterHeat, ClusterMembers, Heat, Committed
<1>4. CASE Tick
  BY <1>3, <1>4 DEF Tick, runVars
<1>5. CASE UNCHANGED vars
  BY <1>3, <1>5 DEF vars
<1>6. ASSUME NEW r \in Runners, Start(r) \/ CycleStep(r) \/ Fault(r) PROVE HeatInv'
  <2>1. CASE \E s \in Symbols : ArmEntry(r, s)
    BY <1>1, <2>1
  <2>2. CASE ~\E s \in Symbols : ArmEntry(r, s)
    <3>1. \A t \in Symbols : Committed(r)'[t] <= Committed(r)[t]
      BY <1>2, <1>6, <2>2 DEF CycleStep
    <3> QED BY <3>1, HeatShrinks
  <2> QED BY <2>1, <2>2
<1> QED BY <1>4, <1>5, <1>6 DEF Next

\* Where cycles do not overlap, the plans stay within the heat budgets of the
\* portfolio and of every cluster.
THEOREM HeatStaysWithinBudget == ASSUME Serialized PROVE Spec => []HeatWithinBudget
<1>1. HeatInv => HeatWithinBudget
  BY DEF HeatInv
<1> QED BY <1>1, HeatInit, HeatStep, TypeCorrect, CycleInvariant, PTL DEF Spec

-----------------------------------------------------------------------------
(* The cycles implement the abstract book *)

\* An entry's plan is stored within what the book may still reserve.
LEMMA StoreReserves ==
  ASSUME TypeOK, CycleInv, HeatInv, NEW r \in Runners, NEW s \in Symbols, StorePlan(r, s)
  PROVE  Book!Next
<1> DEFINE q == sig[r][s].qty
           one == [t \in Symbols |-> IF t = s THEN q ELSE 0]
           stored == [t \in Symbols |-> Heat[t] + one[t]]
<1>1. /\ sig[r][s].side = "BUY" /\ legacy = {} /\ pos[s] = 0 /\ q \in 1..PerTradeHeat
      /\ s \notin prepared[r] /\ plans[s].qty = 0
  <2>1. sig[r][s].side = "BUY" /\ s \notin prepared[r] /\ filled[r] = {}
    BY DEF StorePlan, CycleInv, StageInv
  <2> QED BY <2>1 DEF CycleInv, SymbolInv, BuyInv, HasPlan, TypeOK, Plan
<1>2. \A t \in Symbols : /\ Heat[t] \in Nat /\ one[t] \in Nat /\ Committed(r)[t] \in Nat
                         /\ Heat[t] = 0 \/ one[t] = 0
                         /\ stored[t] \in Nat /\ stored[t] <= Committed(r)[t]
  <2> SUFFICES ASSUME NEW t \in Symbols
               PROVE  /\ Heat[t] \in Nat /\ one[t] \in Nat /\ Committed(r)[t] \in Nat
                      /\ Heat[t] = 0 \/ one[t] = 0
                      /\ stored[t] \in Nat /\ stored[t] <= Committed(r)[t]
    BY Zenon
  <2>1. /\ plans[t].qty \in Nat /\ sig[r][t].qty \in Nat
        /\ sig[r][t].side = "BUY" /\ t \notin prepared[r] => plans[t].qty = 0
    BY DEF TypeOK, Plan, Signal, CycleInv, SymbolInv, BuyInv, HasPlan
  <2> QED BY <1>1, <2>1 DEF Heat, Committed
<1>3. ASSUME NEW S \in SUBSET Symbols, IsFiniteSet(S), s \in S, NEW max \in Nat,
             Total(Committed(r), S) <= max
      PROVE  Total(Heat, S) + q <= max
  <2>1. Total(stored, S) = Total(Heat, S) + Total(one, S)
    BY <1>2, <1>3, TotalDisjoint
  <2>2. Total(one, S) = q
    <3>1. q \in Nat /\ \A t \in S : one[t] = IF t = s THEN q ELSE 0
      BY <1>1
    <3> HIDE DEF one, q
    <3> QED BY <1>3, <3>1, TotalSingle
  <2>3. Total(stored, S) <= Total(Committed(r), S)
    BY <1>2, <1>3, TotalMonotone
  <2>4. Total(stored, S) \in Nat /\ Total(Committed(r), S) \in Nat
    BY <1>2, <1>3, LotsFinite
  <2> QED BY <1>3, <2>1, <2>2, <2>3, <2>4
<1>4. Total(Heat, Symbols) + q <= MaxOpenHeat
  BY <1>3 DEF HeatInv, SetsAssumption, LimitsAssumption
<1>5. Total(Heat, {t \in Symbols : ClusterOf[t] = ClusterOf[s]}) + q <= MaxClusterHeat
  <2>1. ClusterOf[s] \in Clusters /\ s \in ClusterMembers(ClusterOf[s])
    BY DEF SetsAssumption, ClusterMembers
  <2>2. Total(Heat, ClusterMembers(ClusterOf[s])) + q <= MaxClusterHeat
    BY <1>3, <2>1, MembersFinite DEF HeatInv, LimitsAssumption
  <2> QED BY <2>2 DEF ClusterMembers
<1>6. \A t \in Symbols : pos[t] > 0 => Heat[t] > 0
  BY <1>1 DEF CycleInv, LedgerInv, PositionsManaged, Heat
<1>7. Heat' = [Heat EXCEPT ![s] = q] /\ Heat[s] = 0 /\ pos' = pos
  BY <1>1 DEF StorePlan, Heat, TypeOK, ledgerVars
<1>8. Book!Reserve(s, q)
  <2>1. \A S : Book!Total(Heat, S) = Total(Heat, S)
    BY DEF Total, LotsOf, Cardinality, Book!Total, Book!LotsOf, Book!Cardinality
  <2> QED BY <1>1, <1>4, <1>5, <1>6, <1>7, <2>1 DEF Book!Reserve
<1> QED BY <1>1, <1>8 DEF Book!Next

\* A plan removed releases what no position uses.
LEMMA ClearReleases ==
  ASSUME TypeOK, NEW s \in Symbols, pos[s] = 0,
         plans' = [plans EXCEPT ![s] = NoPlan], pos' = pos
  PROVE  Book!Next \/ UNCHANGED Book!bookVars
<1>1. Heat' = [Heat EXCEPT ![s] = 0] /\ Heat[s] \in Nat /\ Heat \in [Symbols -> Nat]
  BY DEF Heat, NoPlan, TypeOK, Plan
<1>2. CASE Heat[s] > 0
  BY <1>1, <1>2 DEF Book!Next, Book!Release
<1>3. CASE Heat[s] = 0
  BY <1>1, <1>3 DEF Book!bookVars
<1> QED BY <1>1, <1>2, <1>3

\* A fill opens a position at its reservation, or closes one whole.
LEMMA FillOpensOrCloses ==
  ASSUME TypeOK, CycleInv, NEW r \in Runners, NEW s \in Symbols, FillOrder(r, s)
  PROVE  Book!Next
<1>1. FillEffect(r, s)
  BY FillFacts
<1>2. /\ Heat' = Heat /\ Heat[s] = plans[s].qty /\ DOMAIN pos = Symbols /\ DOMAIN pos' = Symbols
      /\ pos \in [Symbols -> Int] /\ pos' = [pos EXCEPT ![s] = pos'[s]]
  BY DEF FillOrder, Heat, TypeOK
<1>3. CASE sig[r][s].side = "BUY"
  <2>1. Book!Open(s)
    BY <1>1, <1>2, <1>3 DEF Book!Open, FillEffect
  <2> QED BY <2>1 DEF Book!Next
<1>4. CASE sig[r][s].side = "SELL"
  <2>1. plans[s].qty = pos[s] /\ pos[s] > 0 /\ pos'[s] = 0
    BY <1>1, <1>4 DEF FillEffect, CycleInv, LedgerInv, PositionsManaged
  <2>2. Book!Close(s)
    BY <1>2, <2>1 DEF Book!Close
  <2> QED BY <2>2 DEF Book!Next
<1> QED BY <1>1, <1>3, <1>4 DEF FillEffect

LEMMA BookStep ==
  ASSUME TypeOK, CycleInv, HeatInv, [Next]_vars
  PROVE  [Book!Next]_(Book!bookVars)
<1>1. ASSUME plans' = plans, pos' = pos PROVE UNCHANGED Book!bookVars
  BY <1>1 DEF Book!bookVars, Heat
<1>2. CASE Tick \/ UNCHANGED vars
  BY <1>1, <1>2 DEF Tick, vars, ledgerVars
<1>3. ASSUME NEW r \in Runners, Start(r) \/ StageStep(r) \/ Fault(r)
      PROVE  UNCHANGED Book!bookVars
  BY <1>1, <1>3 DEF Start, StageStep, Fault, DropUnfitSignals, BeginSubmit, BeginSettle,
     Finish, Kill, EvaluationError, PlanPersistenceFails, FillStoreFails, Evaluating, ledgerVars
<1>4. ASSUME NEW r \in Runners, NEW s \in Symbols, SymbolStep(r, s)
      PROVE  Book!Next \/ UNCHANGED Book!bookVars
  <2>1. CASE ClearStalePlan(r, s)
    <3>1. pos[s] = 0 /\ pos' = pos /\ plans' = [plans EXCEPT ![s] = NoPlan]
      BY <2>1 DEF ClearStalePlan, Evaluating, Held, ledgerVars, CycleInv, LedgerInv,
                  PositionsManaged, TypeOK
    <3> QED BY <3>1, ClearReleases
  <2>2. CASE SettlePlan(r, s)
    <3>1. pos[s] = 0 /\ pos' = pos /\ plans' = [plans EXCEPT ![s] = NoPlan]
      BY <2>2 DEF SettlePlan, ledgerVars, CycleInv, StageInv
    <3> QED BY <3>1, ClearReleases
  <2>3. CASE MarkExitPending(r, s)
    <3>1. Heat' = Heat /\ pos' = pos
      BY <2>3 DEF MarkExitPending, Evaluating, Heat, ledgerVars, TypeOK, Plan
    <3> QED BY <3>1 DEF Book!bookVars
  <2>4. CASE StorePlan(r, s)
    BY <2>4, StoreReserves
  <2>5. CASE FillOrder(r, s)
    BY <2>5, FillOpensOrCloses
  <2>6. CASE ExitSignal(r, s) \/ ArmEntry(r, s) \/ NoAction(r, s) \/ Approve(r, s)
             \/ Reject(r, s) \/ DuplicateOrder(r, s)
    BY <1>1, <2>6 DEF ExitSignal, ArmEntry, NoAction, Approve, Reject, DuplicateOrder,
                      Evaluating, ledgerVars
  <2> QED BY <1>4, <2>1, <2>2, <2>3, <2>4, <2>5, <2>6 DEF SymbolStep
<1> QED BY <1>2, <1>3, <1>4 DEF Next, CycleStep

\* Where cycles do not overlap, they implement the abstract book of positions.
THEOREM CyclesImplementBook == ASSUME Serialized PROVE Spec => ImplementsBook
<1>1. Init => Book!Init
  <2> SUFFICES ASSUME Init PROVE Book!Init
    OBVIOUS
  <2>1. Heat = [s \in Symbols |-> 0]
    BY DEF Init, Heat, NoPlan
  <2>2. legacy \in SUBSET Legacy /\ pos = [s \in Symbols |-> IF s \in legacy THEN 1 ELSE 0]
    BY DEF Init
  <2> QED BY <2>1, <2>2 DEF Book!Init
<1>2. TypeOK /\ CycleInv /\ HeatInv /\ [Next]_vars => [Book!Next]_(Book!bookVars)
  BY BookStep
<1> QED BY <1>1, <1>2, HeatInit, HeatStep, TypeCorrect, CycleInvariant, PTL
        DEF Spec, ImplementsBook, Book!Spec
-----------------------------------------------------------------------------
(* Cycles that overlap *)

\* An entry that is carried is of the window in progress; once its id is among
\* the fills no other entry of its symbol can be filled, and until then the
\* symbol is flat.
WindowInv(r, s) ==
  sig[r][s].side = "BUY" =>
    /\ pc[r] # "idle"
    /\ sig[r][s].kind \in EntryKinds /\ sig[r][s].key = <<day, 0>>
    /\ SignalId(s, sig[r][s]) \in fills \/ pos[s] <= 0

EntryInv == \A r \in Runners, s \in Symbols : WindowInv(r, s)

LEMMA EntryInit == Init => EntryInv
<1> SUFFICES ASSUME Init PROVE EntryInv
  OBVIOUS
<1>1. \A r \in Runners, s \in Symbols : sig[r][s].side = "NONE"
  BY DEF Init, NoSignals, NoSignal
<1> QED
  BY <1>1 DEF EntryInv, WindowInv

\* Steps that move no position and carry no other entry than before.
LEMMA EntryFrame ==
  ASSUME TypeOK, EntryInv,
         UNCHANGED <<clockVars, ledgerVars, legacy>>,
         \A r \in Runners, s \in Symbols :
           sig'[r][s].side = "BUY" => sig'[r][s] = sig[r][s] /\ pc'[r] # "idle"
  PROVE  EntryInv'
<1> USE DEF clockVars, ledgerVars
<1>1. ASSUME NEW r \in Runners, NEW s \in Symbols PROVE WindowInv(r, s)'
  BY DEF EntryInv, WindowInv, EntryKinds, SignalId
<1> QED
  BY <1>1 DEF EntryInv

\* Two entries of a symbol that are carried at once have the same id.
LEMMA OneWindow ==
  ASSUME EntryInv, NEW q \in Runners, NEW r \in Runners, NEW s \in Symbols,
         sig[q][s].side = "BUY", sig[r][s].side = "BUY"
  PROVE  SignalId(s, sig[q][s]) = SignalId(s, sig[r][s])
<1>1. WindowInv(q, s) /\ WindowInv(r, s)
  BY DEF EntryInv
<1>2. sig[q][s].key = sig[r][s].key
  BY <1>1 DEF WindowInv
<1>3. sig[q][s].kind = sig[r][s].kind
  BY <1>1 DEF WindowInv, EntryKinds
<1> QED
  BY <1>2, <1>3 DEF SignalId

LEMMA EntryArm ==
  ASSUME TypeOK, EntryInv, NEW r \in Runners, NEW s \in Symbols, ArmEntry(r, s)
  PROVE  EntryInv'
<1> USE DEF ArmEntry, Evaluating, clockVars, ledgerVars
<1>1. PICK kind \in EntryKinds, n \in 1..PerTradeHeat :
        sig' = [sig EXCEPT ![r][s] = EntrySignal(kind, n)]
  OBVIOUS
<1>2. pos[s] <= 0
  BY DEF Held, TypeOK
<1>3. WindowInv(r, s)'
  BY <1>1, <1>2 DEF WindowInv, EntrySignal, EntryKinds, TypeOK
<1>4. ASSUME NEW q \in Runners, NEW t \in Symbols, q # r \/ t # s PROVE WindowInv(q, t)'
  <2>1. sig'[q][t] = sig[q][t]
    BY <1>1, <1>4 DEF TypeOK
  <2> QED
    BY <2>1 DEF EntryInv, WindowInv, EntryKinds, SignalId
<1> QED
  BY <1>3, <1>4 DEF EntryInv

\* The first fill of a window makes every other entry of the symbol a duplicate.
LEMMA EntryFill ==
  ASSUME TypeOK, EntryInv, NEW r \in Runners, NEW s \in Symbols, FillOrder(r, s)
  PROVE  EntryInv'
<1> USE DEF clockVars
<1>1. /\ UNCHANGED <<day, phase, legacy, sig, pc>>
      /\ SignalId(s, sig[r][s]) \notin fills
      /\ fills' = fills \cup {SignalId(s, sig[r][s])}
  BY DEF FillOrder
<1>2. sig[r][s].qty \in Nat /\ \A t \in Symbols : pos[t] \in Int
  BY DEF TypeOK, Signal
<1>3. CASE sig[r][s].side = "BUY"
  <2>1. pos' = [pos EXCEPT ![s] = pos[s] + sig[r][s].qty]
    BY <1>3 DEF FillOrder
  <2>2. ASSUME NEW q \in Runners, NEW t \in Symbols PROVE WindowInv(q, t)'
    <3>1. CASE t = s
      BY <1>1, <1>3, <3>1, OneWindow DEF EntryInv, WindowInv, EntryKinds, SignalId
    <3>2. CASE t # s
      BY <1>1, <2>1, <3>2 DEF EntryInv, WindowInv, EntryKinds, SignalId, TypeOK
    <3> QED
      BY <3>1, <3>2
  <2> QED
    BY <2>2 DEF EntryInv
<1>4. CASE sig[r][s].side = "SELL"
  <2>1. pos' = [pos EXCEPT ![s] = pos[s] - sig[r][s].qty]
    BY <1>4 DEF FillOrder
  <2>2. \A t \in Symbols : pos'[t] <= pos[t] /\ pos'[t] \in Int
    BY <1>2, <2>1 DEF TypeOK
  <2>3. ASSUME NEW q \in Runners, NEW t \in Symbols PROVE WindowInv(q, t)'
    BY <1>1, <1>2, <2>2 DEF EntryInv, WindowInv, EntryKinds, SignalId
  <2> QED
    BY <2>3 DEF EntryInv
<1> QED
  BY <1>3, <1>4 DEF FillOrder

LEMMA EntryReset ==
  ASSUME TypeOK, EntryInv, NEW r \in Runners, Reset(r),
         UNCHANGED <<clockVars, ledgerVars, plans, legacy>>
  PROVE  EntryInv'
<1>1. ASSUME NEW q \in Runners, NEW s \in Symbols, sig'[q][s].side = "BUY"
      PROVE  sig'[q][s] = sig[q][s] /\ pc'[q] # "idle"
  <2>1. q # r
    BY <1>1 DEF Reset, NoSignals, NoSignal, TypeOK
  <2> QED
    BY <1>1, <2>1 DEF Reset, EntryInv, WindowInv, TypeOK
<1> QED
  BY <1>1, EntryFrame

LEMMA EntryStep == TypeOK /\ EntryInv /\ [Next]_vars => EntryInv'
<1> SUFFICES ASSUME TypeOK, EntryInv, [Next]_vars PROVE EntryInv'
  OBVIOUS
<1> USE DEF Evaluating, clockVars, ledgerVars, runVars
<1>1. CASE Tick
  <2>1. \A r \in Runners, s \in Symbols : sig[r][s].side # "BUY"
    BY <1>1 DEF Tick, EntryInv, WindowInv
  <2> QED
    BY <1>1, <2>1 DEF Tick, EntryInv, WindowInv
<1>2. ASSUME NEW r \in Runners, Start(r) PROVE EntryInv'
  BY <1>2, EntryFrame DEF Start, EntryInv, WindowInv, TypeOK
<1>3. ASSUME NEW r \in Runners, StageStep(r) PROVE EntryInv'
  <2>1. CASE DropUnfitSignals(r)
    <3>1. ASSUME NEW q \in Runners, NEW s \in Symbols, sig'[q][s].side = "BUY"
          PROVE  sig'[q][s] = sig[q][s] /\ pc'[q] # "idle"
      <4>1. sig'[q][s] = sig[q][s]
        BY <2>1, <3>1 DEF DropUnfitSignals, NoSignal, TypeOK
      <4> QED
        BY <2>1, <3>1, <4>1 DEF DropUnfitSignals, EntryInv, WindowInv, TypeOK
    <3> QED
      BY <2>1, <3>1, EntryFrame DEF DropUnfitSignals
  <2>2. CASE BeginSubmit(r)
    BY <2>2, EntryFrame DEF BeginSubmit, EntryInv, WindowInv, TypeOK
  <2>3. CASE BeginSettle(r)
    BY <2>3, EntryFrame DEF BeginSettle, EntryInv, WindowInv, TypeOK
  <2>4. CASE Finish(r)
    BY <2>4, EntryReset DEF Finish
  <2> QED
    BY <1>3, <2>1, <2>2, <2>3, <2>4 DEF StageStep
<1>4. ASSUME NEW r \in Runners, NEW s \in Symbols, SymbolStep(r, s) PROVE EntryInv'
  <2>1. CASE ExitSignal(r, s)
    <3>1. PICK key \in ExitTriggers(s) : sig' = [sig EXCEPT ![r][s] = SellSignal(s, key)]
      BY <2>1 DEF ExitSignal
    <3>2. \A q \in Runners, t \in Symbols :
            sig'[q][t].side = "BUY" => sig'[q][t] = sig[q][t]
      BY <3>1 DEF SellSignal, TypeOK
    <3> QED
      BY <2>1, <3>2, EntryFrame DEF ExitSignal, EntryInv, WindowInv
  <2>2. CASE ArmEntry(r, s)
    BY <2>2, EntryArm
  <2>3. CASE FillOrder(r, s)
    BY <2>3, EntryFill
  <2>4. ASSUME UNCHANGED <<clockVars, ledgerVars, legacy, sig, pc>> PROVE EntryInv'
    BY <2>4, EntryFrame DEF EntryInv, WindowInv
  <2> QED
    BY <1>4, <2>1, <2>2, <2>3, <2>4
       DEF SymbolStep, ClearStalePlan, MarkExitPending, NoAction, StorePlan, Approve,
           Reject, DuplicateOrder, SettlePlan
<1>5. ASSUME NEW r \in Runners, Fault(r) PROVE EntryInv'
  <2>1. CASE Kill(r)
    BY <2>1, EntryReset DEF Kill
  <2>2. ASSUME NEW s \in Symbols, EvaluationError(r, s) PROVE EntryInv'
    BY <2>2, EntryFrame DEF EvaluationError, EntryInv, WindowInv
  <2>3. ASSUME NEW s \in Symbols, PlanPersistenceFails(r, s) PROVE EntryInv'
    <3>1. \A q \in Runners, t \in Symbols :
            sig'[q][t].side = "BUY" => sig'[q][t] = sig[q][t]
      BY <2>3 DEF PlanPersistenceFails, NoSignal, TypeOK
    <3> QED
      BY <2>3, <3>1, EntryFrame DEF PlanPersistenceFails, EntryInv, WindowInv
  <2>4. ASSUME NEW s \in Symbols, FillStoreFails(r, s) PROVE EntryInv'
    BY <2>4, EntryReset DEF FillStoreFails
  <2> QED
    BY <1>5, <2>1, <2>2, <2>3, <2>4 DEF Fault
<1>6. CASE UNCHANGED vars
  BY <1>6, EntryFrame DEF vars, EntryInv, WindowInv
<1> QED
  BY <1>1, <1>2, <1>3, <1>4, <1>5, <1>6 DEF Next, CycleStep

\* The id of every entry, carried or filled, is that of a window and not of a
\* bar, and no exit is of an entry's kind.
KeyInv ==
  /\ \A f \in fills : f[1] # "exit" => f[3][2] = 0
  /\ \A r \in Runners, s \in Symbols :
       /\ sig[r][s].side = "BUY" => sig[r][s].key[2] = 0
       /\ sig[r][s].side = "SELL" => sig[r][s].kind = "exit"

LEMMA KeyInit == Init => KeyInv
BY DEF Init, KeyInv, NoSignals, NoSignal

\* Steps that fill nothing change no signal, drop it or make it one of the two.
LEMMA KeyFrame ==
  ASSUME TypeOK, KeyInv, fills' = fills,
         \A r \in Runners, s \in Symbols :
           \/ sig'[r][s] = sig[r][s] \/ sig'[r][s] = NoSignal
           \/ \E kind \in EntryKinds, q \in Nat : sig'[r][s] = EntrySignal(kind, q)
           \/ \E key \in Key : sig'[r][s] = SellSignal(s, key)
  PROVE  KeyInv'
<1>1. ASSUME NEW r \in Runners, NEW s \in Symbols
      PROVE  /\ sig'[r][s].side = "BUY" => sig'[r][s].key[2] = 0
             /\ sig'[r][s].side = "SELL" => sig'[r][s].kind = "exit"
  <2>1. CASE sig'[r][s] = sig[r][s]
    BY <2>1 DEF KeyInv
  <2>2. CASE sig'[r][s] = NoSignal
    BY <2>2 DEF NoSignal
  <2>3. ASSUME NEW kind \in EntryKinds, NEW q \in Nat, sig'[r][s] = EntrySignal(kind, q)
        PROVE  sig'[r][s].side = "BUY" /\ sig'[r][s].key[2] = 0
    BY <2>3 DEF EntrySignal
  <2>4. ASSUME NEW key \in Key, sig'[r][s] = SellSignal(s, key)
        PROVE  sig'[r][s].side = "SELL" /\ sig'[r][s].kind = "exit"
    BY <2>4 DEF SellSignal
  <2> QED
    BY <2>1, <2>2, <2>3, <2>4
<1> QED
  BY <1>1 DEF KeyInv

LEMMA KeyFill ==
  ASSUME TypeOK, KeyInv, NEW r \in Runners, NEW s \in Symbols, FillOrder(r, s)
  PROVE  KeyInv'
<1>1. fills' = fills \cup {SignalId(s, sig[r][s])} /\ sig' = sig
  BY DEF FillOrder
<1>2. sig[r][s].side \in {"BUY", "SELL"}
  BY DEF FillOrder
<1> QED
  BY <1>1, <1>2 DEF KeyInv, SignalId

LEMMA KeyReset ==
  ASSUME TypeOK, KeyInv, NEW r \in Runners, Reset(r), fills' = fills
  PROVE  KeyInv'
BY KeyFrame DEF Reset, NoSignals, TypeOK

LEMMA KeyStep == TypeOK /\ KeyInv /\ [Next]_vars => KeyInv'
<1> SUFFICES ASSUME TypeOK, KeyInv, [Next]_vars PROVE KeyInv'
  OBVIOUS
<1> USE DEF Evaluating, ledgerVars, runVars
<1>1. CASE sig' = sig /\ fills' = fills
  BY <1>1, KeyFrame
<1>2. ASSUME NEW r \in Runners, Finish(r) \/ Kill(r) PROVE KeyInv'
  BY <1>2, KeyReset DEF Finish, Kill
<1>3. ASSUME NEW r \in Runners, DropUnfitSignals(r) PROVE KeyInv'
  BY <1>3, KeyFrame DEF DropUnfitSignals, TypeOK
<1>4. ASSUME NEW r \in Runners, NEW s \in Symbols, ExitSignal(r, s) PROVE KeyInv'
  <2>1. PICK key \in ExitTriggers(s) : sig' = [sig EXCEPT ![r][s] = SellSignal(s, key)]
    BY <1>4 DEF ExitSignal
  <2>2. key \in Key
    BY DEF ExitTriggers, StopTouches, StructureBreaks, Key, TypeOK, Plan
  <2> QED
    BY <1>4, <2>1, <2>2, KeyFrame DEF ExitSignal, TypeOK
<1>5. ASSUME NEW r \in Runners, NEW s \in Symbols, ArmEntry(r, s) PROVE KeyInv'
  <2>1. PICK kind \in EntryKinds, n \in 1..PerTradeHeat :
          sig' = [sig EXCEPT ![r][s] = EntrySignal(kind, n)]
    BY <1>5 DEF ArmEntry
  <2> QED
    BY <1>5, <2>1, KeyFrame DEF ArmEntry, TypeOK
<1>6. ASSUME NEW r \in Runners, NEW s \in Symbols,
             PlanPersistenceFails(r, s) \/ FillStoreFails(r, s)
      PROVE  KeyInv'
  <2>1. CASE PlanPersistenceFails(r, s)
    BY <2>1, KeyFrame DEF PlanPersistenceFails, TypeOK
  <2> QED
    BY <1>6, <2>1, KeyReset DEF FillStoreFails
<1>7. ASSUME NEW r \in Runners, NEW s \in Symbols, SymbolStep(r, s) PROVE KeyInv'
  BY <1>1, <1>4, <1>5, <1>7, KeyFill
     DEF SymbolStep, ClearStalePlan, MarkExitPending, NoAction, StorePlan, Approve,
         Reject, DuplicateOrder, SettlePlan
<1>8. ASSUME NEW r \in Runners, StageStep(r) PROVE KeyInv'
  BY <1>1, <1>2, <1>3, <1>8 DEF StageStep, BeginSubmit, BeginSettle
<1>9. ASSUME NEW r \in Runners, Fault(r) PROVE KeyInv'
  BY <1>1, <1>2, <1>6, <1>9 DEF Fault, EvaluationError
<1> QED
  BY <1>1, <1>7, <1>8, <1>9 DEF Next, CycleStep, Tick, Start, vars

\* A position that grows does so by the entry just written.
LEMMA EntryFilled ==
  ASSUME TypeOK, EntryInv, KeyInv, NEW r \in Runners, NEW s \in Symbols, FillOrder(r, s),
         NEW t \in Symbols, pos'[t] > pos[t]
  PROVE  /\ pos[t] <= 0
         /\ WindowEntries(fills, t) = {}
         /\ \E entry \in fills' : WindowEntries(fills', t) = {entry}
<1>1. /\ SignalId(s, sig[r][s]) \notin fills
      /\ fills' = fills \cup {SignalId(s, sig[r][s])}
  BY DEF FillOrder
<1>2. sig[r][s].qty \in Nat /\ \A u \in Symbols : pos[u] \in Int
  BY DEF TypeOK, Signal
<1>3. ASSUME sig[r][s].side = "SELL" PROVE FALSE
  <2>1. pos' = [pos EXCEPT ![s] = pos[s] - sig[r][s].qty]
    BY <1>3 DEF FillOrder
  <2> QED
    BY <1>2, <2>1 DEF TypeOK
<1>4. sig[r][s].side = "BUY" /\ pos' = [pos EXCEPT ![s] = pos[s] + sig[r][s].qty]
  BY <1>3 DEF FillOrder
<1>5. t = s
  BY <1>2, <1>4 DEF TypeOK
<1>6. /\ sig[r][s].kind \in EntryKinds /\ sig[r][s].key = <<day, 0>>
      /\ pos[s] <= 0
  BY <1>1, <1>4 DEF EntryInv, WindowInv
<1> DEFINE entry == SignalId(s, sig[r][s])
<1>7. entry = <<sig[r][s].kind, s, <<day, 0>>>>
  BY <1>6 DEF SignalId
<1>8. ASSUME NEW f \in fills, f \in WindowEntries(fills, s) PROVE FALSE
  <2>1. f \in Kinds \X Symbols \X Key /\ f[1] \in EntryKinds /\ f[2] = s /\ f[3][1] = day
    BY <1>8 DEF WindowEntries, TypeOK, SignalIds
  <2>2. f[1] # "exit" /\ f[1] = sig[r][s].kind
    BY <1>6, <2>1 DEF EntryKinds
  <2>3. f[3][2] = 0
    BY <2>2 DEF KeyInv
  <2>4. f[3] = <<day, 0>>
    BY <2>1, <2>3 DEF Key
  <2>5. f = entry
    BY <1>7, <2>1, <2>2, <2>4
  <2> QED
    BY <1>1, <2>5
<1>9. WindowEntries(fills, s) = {}
  BY <1>8 DEF WindowEntries
<1>10. WindowEntries(fills', s) = {entry}
  BY <1>1, <1>6, <1>7, <1>9 DEF WindowEntries
<1> QED
  BY <1>1, <1>5, <1>6, <1>9, <1>10

\* However many cycles of the portfolio overlap, and wherever they die, a symbol
\* is entered while it is flat, and at most once in a window.
THEOREM EntriesAreSingle == Spec => NoDoubleEntry
<1>1. ASSUME TypeOK, EntryInv, KeyInv, [Next]_vars
      PROVE  [\A s \in Symbols : pos'[s] > pos[s] =>
                /\ pos[s] <= 0
                /\ WindowEntries(fills, s) = {}
                /\ \E entry \in fills' : WindowEntries(fills', s) = {entry}]_<<fills, pos>>
  <2>1. ASSUME NEW r \in Runners, NEW s \in Symbols, FillOrder(r, s),
               NEW t \in Symbols, pos'[t] > pos[t]
        PROVE  /\ pos[t] <= 0
               /\ WindowEntries(fills, t) = {}
               /\ \E entry \in fills' : WindowEntries(fills', t) = {entry}
    BY <1>1, <2>1, EntryFilled
  <2>2. ASSUME pos' # pos PROVE \E r \in Runners : \E s \in Symbols : FillOrder(r, s)
    BY <1>1, <2>2, OnlyFillsMovePositions
  <2>3. ASSUME NEW t \in Symbols, pos'[t] > pos[t] PROVE pos' # pos
    BY <1>1, <2>3 DEF TypeOK
  <2> QED
    BY <2>1, <2>2, <2>3
<1> QED
  BY <1>1, EntryInit, EntryStep, KeyInit, KeyStep, TypeCorrect, PTL
     DEF Spec, NoDoubleEntry
=============================================================================
