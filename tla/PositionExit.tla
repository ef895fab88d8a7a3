---------------------------- MODULE PositionExit ----------------------------
(***************************************************************************)
(* How a position is entered and held against the bars of the sessions     *)
(* (_v2_runtime_signal and _hunter_runtime_signal of                       *)
(* src/src/toss_trader/cycle.py, arm_candidate of v2_engine.py).           *)
(*                                                                         *)
(* One symbol of one portfolio.  The market completes a one-minute bar, or *)
(* none, every minute; a cycle runs at some of the minutes, collects the   *)
(* latest page of bars and decides from all bars of the session that are   *)
(* stored.  A setup of the days before is armed above its low; one that    *)
(* opened below its low is only watched, and reported if it comes back.    *)
(* The plan of a position has a stop; a bar whose low is at or             *)
(* below it triggers the exit at the open of the next bar, which may still *)
(* be to come: then the plan is marked as pending.  The id of the exit's   *)
(* signal is made of the bar that triggered it.                            *)
(*                                                                         *)
(* A cycle is one step here; PaperCycle has the steps inside of it.        *)
(***************************************************************************)
EXTENDS Naturals, FiniteSets

CONSTANTS
  Kinds,        \* the entries of the portfolio: "v2", and "hunter" for Hermes
  Prices,       \* the price levels
  Minutes,      \* bound: the bars of a session
  ArmUntil,     \* the last minute of V2_ENTRY_ARM_WINDOW
  Cutoff,       \* the last minute the momentum snapshot sees
  HunterUntil,  \* the last minute of HERMES_HUNTER_ENTRY_WINDOW
  Recent,       \* how many bars without a gap a hunter entry asks for
  Page,         \* how many minutes one collection goes back
  BackPage,     \* how many minutes one of the further pages goes back
  ReclaimFrom,  \* the minute of RULE_INVALID_STOP_RECLAIM_START
  HoldBars,     \* RULE_INVALID_STOP_RECLAIM_HOLD_BARS
  Faults,       \* which of {"reject", "lag"} may happen
  MaxDay        \* bound: sessions explored

ASSUME TimesAssumption ==
  /\ Kinds \subseteq {"v2", "hunter"}
  /\ Prices \subseteq Nat /\ IsFiniteSet(Prices)
  /\ Minutes \in Nat /\ ArmUntil \in Nat /\ Cutoff \in Nat /\ HunterUntil \in Nat
  /\ Recent \in Nat
  /\ {Page, BackPage, ReclaimFrom, HoldBars, MaxDay} \subseteq Nat

VARIABLES
  day, minute,  \* the session and the last minute completed in it
  market,       \* minute -> the bar of this session, or NoBar
  stored,       \* the minutes of this session whose bar is in market_candles
  below,        \* the last session closed below the plan's ma50
  setup,        \* the low of today's setup, 0 if there is none that may be armed
  opening,      \* the open of the first bar, 0 without it
  plan,         \* the position and its row of paper_v2_position_plans, or NoPlan
  fills,        \* the signal ids of the symbol's fills
  sale,         \* what the last exit was made of
  evaluated     \* a cycle decided on the bars stored, and RiskManager agreed

clockVars == <<day, minute, market, below, setup, opening>>
vars == <<clockVars, stored, plan, fills, sale, evaluated>>

-----------------------------------------------------------------------------
(* Bars and times *)

Bar == {b \in [low : Prices, close : Prices] : b.low <= b.close}
NoBar == [low |-> 0, close |-> 0]

\* Bars are named by session and minute; minute 0 is the completed daily bar of
\* the session before.
Time == Nat \X Nat
NoTime == <<0, 0>>
After(t, u) == t[1] > u[1] \/ (t[1] = u[1] /\ t[2] > u[2])

Earliest(S) == CHOOSE m \in S : \A n \in S : m <= n
Lowest(S) == CHOOSE p \in S : \A q \in S : p <= q

NoPlan == [kind |-> "none", stop |-> 0, opened |-> NoTime, pullback |-> FALSE,
           pending |-> NoTime]
Held == plan # NoPlan
Pending == plan.pending # NoTime

NoSale == [reason |-> "none", opened |-> NoTime, trigger |-> NoTime, bar |-> NoTime]

\* Mutant: one exit id for each session.
ExitIdOfDay(trigger) == <<"exit", <<trigger[1], 0>>>>

\* trigger_key: the symbol and the triggering bar, whichever position it is.
ExitId(trigger) == <<"exit", trigger>>
\* One entry of a kind for each setup session.
EntryId(kind) == <<kind, <<day, 0>>>>

-----------------------------------------------------------------------------
(* What a cycle sees and decides *)

\* Mutant: a minute without a trade counts as a bar.
CollectedGaps == {stored \cup {m \in 1..minute : m + Page > minute}}

\* The collection returns the latest page, of which the newest bar may be late.
LatestPage == {m \in 1..minute : market[m] # NoBar /\ m + Page > minute}
Late == IF "lag" \in Faults THEN {{}, {minute}} ELSE {{}}
Collected == {stored \cup (LatestPage \ late) : late \in Late}

\* build_candidate: the low of the last daily bar before today, if its setup is
\* approved.
Setups == Prices \cup {0}

\* The setup may still be armed today.
Armable == "v2" \in Kinds /\ ~Held /\ setup # 0 /\ 1 <= minute /\ minute <= ArmUntil

\* Up to three further pages, until the opening bar is there; without any bar of
\* the session, or with the opening bar, none is asked for.
BackTo(k) ==
  {m \in 1..minute : /\ market[m] # NoBar
                     /\ m + Page <= minute /\ m + Page + k * BackPage > minute}
Complete(S) ==
  IF S = {} \/ 1 \in S THEN S
  ELSE LET reaching == {k \in 1..3 : 1 \in BackTo(k)}
       IN S \cup BackTo(IF reaching = {} THEN 3 ELSE Earliest(reaching))

\* The opening bar is fetched only for a setup that may be armed, and that this
\* cycle approves again.
Fetched == Collected \cup (IF Armable THEN {Complete(S) : S \in Collected} ELSE {})

\* Mutant: only the newest bar is compared with the stop.
TouchingNewest(S, stop) ==
  {m \in S : market[m].low <= stop /\ \A n \in S : n <= m}

\* stop_touched, over all bars of the session.
Touching(S, stop) == {m \in S : market[m].low <= stop}

Wait == [do |-> "wait", trigger |-> NoTime, bar |-> 0, reason |-> "none"]
SellAt(trigger, m, reason) ==
  [do |-> "sell", trigger |-> trigger, bar |-> m, reason |-> reason]

\* The exit that is pending is sold at the first bar after its trigger.
PendingExit(S) ==
  LET next == {m \in S : After(<<day, m>>, plan.pending)}
  IN IF next = {} THEN Wait ELSE SellAt(plan.pending, Earliest(next), "hard-stop")

\* A pullback that closed below ma50 after its setup session is sold at the
\* first bar.
Invalidated == plan.pullback /\ below /\ day > plan.opened[1]
StructureExit(S) ==
  IF S = {} THEN Wait ELSE SellAt(<<day, 0>>, Earliest(S), "structure-invalidated")

\* Mutant: the exit is priced at the bar that touched the stop.
StopExitSameBar(S) ==
  LET touching == Touching(S, plan.stop)
      next == {m \in S : m >= Earliest(touching)}
  IN IF touching = {} THEN Wait
     ELSE SellAt(<<day, Earliest(touching)>>, Earliest(next), "hard-stop")

StopExit(S) ==
  LET touching == Touching(S, plan.stop)
      next == {m \in S : m > Earliest(touching)}
  IN IF touching = {} THEN Wait
     ELSE IF next = {}
     THEN [do |-> "mark", trigger |-> <<day, Earliest(touching)>>, bar |-> 0,
           reason |-> "hard-stop"]
     ELSE SellAt(<<day, Earliest(touching)>>, Earliest(next), "hard-stop")

\* Mutant: the stop is looked for again although an exit is pending.
DecisionAfresh(S) == IF Invalidated THEN StructureExit(S) ELSE StopExit(S)

Decision(S) ==
  IF Pending THEN PendingExit(S)
  ELSE IF Invalidated THEN StructureExit(S)
  ELSE StopExit(S)

-----------------------------------------------------------------------------
(* A setup that opened at or below its low: what its cycles report, while they do *)

Watched(S) == {m \in S : ReclaimFrom <= m}
Above(m) == market[m].close >= setup
HoldFloorKept(m) == market[m].close * 1000 >= setup * 995

\* A close above the low after one below it, or the first that is looked at.
Reclaims(S) ==
  {m \in Watched(S) :
     /\ Above(m)
     /\ \A n \in Watched(S) :
          n < m /\ (\A k \in Watched(S) : k <= n \/ m <= k) => ~Above(n)}

\* Mutant: bars that are not there yet hold.
HoldsSoFar(m, S) == \A n \in (m + 1)..(m + HoldBars) : n \in Watched(S) => HoldFloorKept(n)

\* The bars right after it are there, and none closes below the floor.
HoldsAfter(m, S) == \A n \in (m + 1)..(m + HoldBars) : n \in Watched(S) /\ HoldFloorKept(n)
\* _invalid_stop_reclaim_shadow: the reclaim that is reported, 0 for none.
Reclaim(S) ==
  LET kept == {m \in Reclaims(S) : HoldsAfter(m, S)}
  IN IF 1 \in S /\ setup # 0 /\ opening <= setup /\ kept # {} THEN Earliest(kept) ELSE 0


-----------------------------------------------------------------------------
(* A cycle with a position *)

Hold ==
  /\ Held
  /\ stored' \in Collected
  /\ Decision(stored').do = "wait"
  /\ evaluated' = TRUE
  /\ UNCHANGED <<clockVars, plan, fills, sale>>

MarkPending ==
  /\ Held
  /\ stored' \in Collected
  /\ Decision(stored').do = "mark"
  /\ plan' = [plan EXCEPT !.pending = Decision(stored').trigger]
  /\ evaluated' = TRUE
  /\ UNCHANGED <<clockVars, fills, sale>>

\* RiskManager approves the exit, which is written, and the plan is removed.
Sell ==
  /\ Held
  /\ stored' \in Collected
  /\ LET d == Decision(stored')
     IN /\ d.do = "sell"
        /\ ExitId(d.trigger) \notin fills
        /\ fills' = fills \cup {ExitId(d.trigger)}
        /\ sale' = [reason |-> d.reason, opened |-> plan.opened,
                    trigger |-> d.trigger, bar |-> <<day, d.bar>>]
  /\ plan' = NoPlan
  /\ evaluated' = TRUE
  /\ UNCHANGED clockVars

\* duplicate-signal: the id is that of an earlier exit.
SellDuplicate ==
  /\ Held
  /\ stored' \in Collected
  /\ Decision(stored').do = "sell"
  /\ ExitId(Decision(stored').trigger) \in fills
  /\ evaluated' = TRUE
  /\ UNCHANGED <<clockVars, plan, fills, sale>>

\* RiskManager or the advisor refuses the exit.
SellRefused ==
  /\ "reject" \in Faults
  /\ Held
  /\ stored' \in Collected
  /\ Decision(stored').do = "sell"
  /\ evaluated' = FALSE
  /\ UNCHANGED <<clockVars, plan, fills, sale>>

-----------------------------------------------------------------------------
(* A cycle without one *)

Open(kind, stop, pullback) ==
  /\ EntryId(kind) \notin fills
  /\ fills' = fills \cup {EntryId(kind)}
  /\ plan' = [kind |-> kind, stop |-> stop, opened |-> <<day, minute>>,
              pullback |-> pullback, pending |-> NoTime]
  /\ evaluated' = FALSE

\* The session's first bar and the current one.
BarsReady(S) == {1, minute} \subseteq S

\* arm_candidate: both are above the setup's low; the stop is that low, or lower
\* by the ATR floor.  A gap up, or less than one lot, is refused (StayFlat).
Arms(stop) == setup < opening /\ setup < market[minute].close /\ stop <= setup

EnterV2 ==
  /\ Armable
  /\ stored' \in Fetched
  /\ BarsReady(stored')
  /\ \E stop \in Prices, pullback \in BOOLEAN : Arms(stop) /\ Open("v2", stop, pullback)
  /\ UNCHANGED <<clockVars, sale>>

\* The stop is the low of the pullback that the snapshot saw before the cutoff.
EnterHunter ==
  /\ "hunter" \in Kinds /\ ~Held
  /\ stored' \in Fetched
  /\ Cutoff < minute /\ minute <= HunterUntil
  /\ \A m \in 1..minute : m + Recent > minute => m \in stored'
  /\ \E first \in {m \in stored' : m <= Cutoff} :
       LET stop == Lowest({market[m].low : m \in {n \in stored' : first <= n /\ n <= Cutoff}})
       IN stop < market[minute].close /\ Open("hunter", stop, FALSE)
  /\ UNCHANGED <<clockVars, sale>>

\* No entry is wanted, or it is refused.
StayFlat ==
  /\ ~Held
  /\ stored' \in Fetched
  /\ stored' # stored
  /\ evaluated' = FALSE
  /\ UNCHANGED <<clockVars, plan, fills, sale>>

Cycle ==
  \/ Hold \/ MarkPending \/ Sell \/ SellDuplicate \/ SellRefused
  \/ EnterV2 \/ EnterHunter \/ StayFlat

-----------------------------------------------------------------------------
(* Time *)

Tick ==
  /\ minute < Minutes
  /\ minute' = minute + 1
  /\ \E b \in Bar \cup {NoBar} : market' = [market EXCEPT ![minute + 1] = b]
  /\ opening' \in IF minute = 0 /\ market'[1] # NoBar
                  THEN {p \in Prices : market'[1].low <= p} ELSE {opening}
  /\ evaluated' = FALSE
  /\ UNCHANGED <<day, below, setup, stored, plan, fills, sale>>

\* The bars of a session that is over are not looked at any more.
NextDay ==
  /\ minute = Minutes /\ day < MaxDay
  /\ day' = day + 1 /\ minute' = 0
  /\ market' = [m \in 1..Minutes |-> NoBar]
  /\ stored' = {}
  /\ below' \in BOOLEAN
  /\ setup' \in Setups /\ opening' = 0
  /\ evaluated' = FALSE
  /\ UNCHANGED <<plan, fills, sale>>

Init ==
  /\ day = 1 /\ minute = 0
  /\ market = [m \in 1..Minutes |-> NoBar]
  /\ stored = {}
  /\ below = FALSE
  /\ setup \in Setups /\ opening = 0
  /\ plan = NoPlan
  /\ fills = {}
  /\ sale = NoSale
  /\ evaluated = FALSE

Next == Cycle \/ Tick \/ NextDay

Spec == Init /\ [][Next]_vars

-----------------------------------------------------------------------------
(* Properties *)

\* Every variable has its type; only bars of the market are stored.
TypeOK ==
  /\ day \in Nat /\ minute \in 0..Minutes
  /\ market \in [1..Minutes -> Bar \cup {NoBar}]
  /\ stored \subseteq {m \in 1..minute : market[m] # NoBar}
  /\ below \in BOOLEAN
  /\ setup \in Setups /\ opening \in Prices \cup {0}
  /\ plan \in [kind : Kinds, stop : Prices, opened : Time, pullback : BOOLEAN,
               pending : Time] \cup {NoPlan}
  /\ fills \subseteq (Kinds \cup {"exit"}) \X Time
  /\ sale \in [reason : {"none", "hard-stop", "structure-invalidated"},
               opened : Time, trigger : Time, bar : Time]
  /\ evaluated \in BOOLEAN

\* A bar stored since the position was opened is at or below its stop.
TouchedSinceEntry ==
  \E m \in stored : After(<<day, m>>, plan.opened) /\ market[m].low <= plan.stop

SoldToday == \E m \in 0..Minutes : ExitId(<<day, m>>) \in fills

\* After a cycle the symbol's first position of the session is sold or has its
\* exit pending if any bar stored since it was opened touched the stop.
FirstStopHonored ==
  evaluated /\ Held /\ ~SoldToday /\ TouchedSinceEntry => Pending

\* An exit is priced at a bar after the one that triggered it.
SoldAfterTrigger == sale # NoSale => After(sale.bar, sale.trigger)

\* An exit that has to wait for its bar is not refused as a duplicate then: no
\* earlier exit of the symbol had its id.
WaitingExitIsNew ==
  /\ Held /\ Pending => ExitId(plan.pending) \notin fills
  /\ Held /\ Invalidated => ExitId(<<day, 0>>) \notin fills

\* A pending exit keeps its trigger, whatever bars come, until it is sold.
PendingKept ==
  [][Held /\ Pending =>
       plan' = plan \/ (plan' = NoPlan /\ sale'.trigger = plan.pending)]_vars

\* A reclaim that was reported is the one that is reported to the end of the
\* session, though every cycle looks for it again in the bars it has: reports
\* of one reclaim are told from reports of another by its time.
ReclaimIsFixed ==
  [][Reclaim(stored) # 0 /\ day' = day => Reclaim(stored)' = Reclaim(stored)]_vars
=============================================================================
