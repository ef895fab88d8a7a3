-------------------------------- MODULE Replay --------------------------------
(***************************************************************************)
(* The replays of stored bars, over the same bars at the same time: the    *)
(* portfolio of portfolio_backtest.py (one cash balance, limits), the      *)
(* single symbol of backtest.py (a cash balance of its own, no limits) and *)
(* the exit variants of exit_counterfactual.py (no cash at all).           *)
(*                                                                         *)
(* A step is one timestamp: the bars of the symbols that have one there.   *)
(* The parameters are whole numbers: rates are thousandths, slippage is    *)
(* hundredths, prices are chosen so that no division has a remainder but   *)
(* those the code rounds down; a drawdown is in thousandths. The rates of  *)
(* the reports, quotients of what is kept here, are left out.              *)
(***************************************************************************)
EXTENDS Integers, Sequences, FiniteSets, SequencesExt

CONSTANTS
  Names,           \* the symbols as a sequence, sorted
  Shapes,          \* bound: the other bars: [open, high, low, close]
  Warm,            \* bound: the first LongWindow bars of a symbol are this one
  Times, DayLength,  \* bound: timestamps, and timestamps of a day
  Quantity, InitialCash, Slippage, CommissionRate, TaxRate,
  Limits,          \* the limits of the portfolio: [order, position, open, daily]
  ShortWindow, LongWindow,
  MinHold, AtrPeriod, AtrMultiple,
  Early            \* a loss after as many bars or fewer is an early one

Symbols == Range(Names)
Days == 0..(Times \div DayLength)
Variants == {"dead-cross", "min-hold", "atr-trailing"}
None == "none"
NoStop == -1000000  \* below every price
NoAverage == -1
NoSummary == [won |-> 0, profit |-> 0, loss |-> 0, early |-> 0, bars |-> 0, costs |-> 0]

\* The program refuses a candle without prices or with prices out of its range.
Candle(c) ==
  /\ c \in [open : Nat \ {0}, high : Nat \ {0}, low : Nat \ {0}, close : Nat \ {0}]
  /\ c.low <= c.open /\ c.low <= c.close /\ c.open <= c.high /\ c.close <= c.high

ASSUME ReplayAssumption ==
  /\ Names \in Seq(Symbols) /\ Names # <<>> /\ IsInjective(Names)
  /\ \A c \in Shapes \cup {Warm} : Candle(c)
  /\ {ShortWindow, LongWindow} \subseteq Nat /\ 0 < ShortWindow /\ ShortWindow < LongWindow
  /\ {Quantity, InitialCash, DayLength, MinHold, AtrPeriod, AtrMultiple} \subseteq Nat \ {0}
  /\ {Times, Early, CommissionRate, TaxRate} \subseteq Nat
  /\ Slippage \in 0..99 /\ CommissionRate + TaxRate <= 1000
  /\ Limits \subseteq [order : Nat \ {0}, position : Nat \ {0}, open : Nat \ {0}, daily : Nat \ {0}]

VARIABLES
  now,
  limits,   \* the limits of this run
  tape,     \* symbol -> its last bars and the indicators over them
  book,     \* the portfolio
  timeline, \* day -> its last snapshot of the portfolio
  alone,    \* symbol -> the replay of that symbol alone
  trial     \* symbol -> variant -> the counterfactual

replayVars == <<now, limits, tape, book, timeline, alone, trial>>

-----------------------------------------------------------------------------
Larger(a, b) == IF a >= b THEN a ELSE b
Abs(x) == IF x < 0 THEN -x ELSE x

\* The sums of the first n of a sequence, of all of it, and over the symbols.
PartialSums(s) ==
  LET sums[n \in 0..Len(s)] == IF n = 0 THEN 0 ELSE sums[n - 1] + s[n]
  IN sums
SumOf(s) == PartialSums(s)[Len(s)]
Total(f) == SumOf([i \in DOMAIN Names |-> f[Names[i]]])

LastN(s, n) == SubSeq(s, Len(s) - n + 1, Len(s))
Closes(t) == [i \in DOMAIN t.last |-> t.last[i].close]

\* The replays refuse a symbol with too few bars (and, which the tape never
\* has, bars of another symbol or out of order).
AcceptedAlone(s) == tape[s].count > LongWindow

Accepted == \A s \in Symbols : AcceptedAlone(s)
MatrixAccepted == \A s \in Symbols : tape[s].count >= LongWindow + 1

\* The deepest fall from the highest equity so far, this one included.
Drawn(x, equity) ==
  LET peak == Larger(x.peak, equity)
  IN [x EXCEPT !.peak = peak, !.worst = Larger(@, ((peak - equity) * 1000) \div peak)]

\* The costs of an order, rounded down: a sale is taxed.
Fee(side, notional) ==
  (notional * CommissionRate) \div 1000
  + (IF side = "SELL" THEN (notional * TaxRate) \div 1000 ELSE 0)

Slipped(side, open) ==
  (open * (IF side = "BUY" THEN 100 + Slippage ELSE 100 - Slippage)) \div 100

\* The averages before and after the last close, multiplied out.
Lead(closes) == SumOf(LastN(closes, ShortWindow)) * LongWindow
                  - SumOf(LastN(closes, LongWindow)) * ShortWindow

Crossing(closes) ==
  LET before == Lead(Front(closes))
      after == Lead(closes)
  IN CASE before <= 0 /\ after > 0 -> "BUY"
       [] before >= 0 /\ after < 0 -> "SELL"
       [] OTHER -> None

-----------------------------------------------------------------------------
(* The indicators of exit_counterfactual.py: running sums of the closes, *)
(* and the average true range smoothed from its first AtrPeriod values   *)

NewTape == [count |-> 0, last |-> <<>>, short |-> 0, long |-> 0,
            relation |-> None, before |-> None, ranges |-> 0, atr |-> NoAverage]

TrueRange(t, c) ==
  IF t.count = 0 THEN c.high - c.low
  ELSE LET previous == Last(t.last).close
       IN Larger(c.high - c.low, Larger(Abs(c.high - previous), Abs(c.low - previous)))

Average(t, c) ==
  LET range == TrueRange(t, c)
  IN CASE t.count + 1 < AtrPeriod -> NoAverage
       [] t.count + 1 = AtrPeriod -> (t.ranges + range) \div AtrPeriod
       [] OTHER -> (t.atr * (AtrPeriod - 1) + range) \div AtrPeriod

\* Until the long window is full the sums are taken from the closes.
ShortSum(t, closes) ==
  CASE Len(closes) < LongWindow -> 0
    [] Len(closes) = LongWindow -> SumOf(LastN(closes, ShortWindow))
    [] OTHER -> t.short + Last(closes) - closes[Len(closes) - ShortWindow]

\* Mutant: the wrong close leaves the sum.
LongSumLate(t, closes) ==
  CASE Len(closes) < LongWindow -> 0
    [] Len(closes) = LongWindow -> SumOf(closes)
    [] OTHER -> t.long + Last(closes) - closes[Len(closes) - LongWindow + 1]

LongSum(t, closes) ==
  CASE Len(closes) < LongWindow -> 0
    [] Len(closes) = LongWindow -> SumOf(closes)
    [] OTHER -> t.long + Last(closes) - closes[Len(closes) - LongWindow]

Relation(short, long) ==
  LET gap == short * LongWindow - long * ShortWindow
  IN IF gap > 0 THEN "above" ELSE IF gap < 0 THEN "below" ELSE "equal"

Extended(t, c) ==
  LET bars == Append(t.last, c)
      closes == [i \in DOMAIN bars |-> bars[i].close]
      short == ShortSum(t, closes)
      long == LongSum(t, closes)
  IN [count |-> t.count + 1,
      last |-> IF Len(bars) > LongWindow + 1 THEN Tail(bars) ELSE bars,
      short |-> short, long |-> long,
      relation |-> IF Len(bars) < LongWindow THEN None ELSE Relation(short, long),
      before |-> t.relation,
      ranges |-> IF t.count < AtrPeriod THEN t.ranges + TrueRange(t, c) ELSE t.ranges,
      atr |-> Average(t, c)]

-----------------------------------------------------------------------------
(* A position, bought and sold whole *)

NoSignal == [side |-> None, price |-> 0, quantity |-> 0]

Flat == [quantity |-> 0, cost |-> 0, realized |-> 0, completed |-> 0, won |-> 0, fees |-> 0]

Bought(p, price) ==
  LET fee == Fee("BUY", price * Quantity)
  IN [p EXCEPT !.quantity = Quantity, !.cost = price * Quantity + fee, !.fees = @ + fee]

Needed(price) == price * Quantity + Fee("BUY", price * Quantity)
Proceeds(p, price) == price * p.quantity - Fee("SELL", price * p.quantity)

Sold(p, price) ==
  [quantity |-> 0, cost |-> 0, realized |-> p.realized + Proceeds(p, price) - p.cost,
   completed |-> p.completed + 1, won |-> p.won + (IF Proceeds(p, price) > p.cost THEN 1 ELSE 0),
   fees |-> p.fees + Fee("SELL", price * p.quantity)]

\* A crossing is pending only if it would open or close the position.
Wanted(p, side) ==
  \/ side = "BUY" /\ p.quantity = 0
  \/ side = "SELL" /\ p.quantity > 0

-----------------------------------------------------------------------------
(* portfolio_backtest.py *)

OpenPositions(b) == Cardinality({s \in Symbols : b.pos[s].quantity > 0})

\* The limits a signal exceeds, at the close it was made at; of them only that
\* of an order's size stops a sale.  A buy counts for the date of its timestamp, a
\* snapshot for that date in Seoul: for the hours of the session they are the same.
Rejections(b, s, signal) ==
  LET notional == signal.price * signal.quantity
      buying == signal.side = "BUY"
      rejected == [
        order |-> notional > limits.order,
        position |-> buying /\ b.pos[s].quantity * signal.price + notional > limits.position,
        daily |-> buying /\ b.buys[now \div DayLength] >= limits.daily,
        open |-> buying /\ b.pos[s].quantity <= 0 /\ OpenPositions(b) >= limits.open]
  IN {name \in DOMAIN rejected : rejected[name]}

Executed(b, s, side, open) ==
  LET price == Slipped(side, open)
      p == b.pos[s]
  IN CASE side = "BUY" /\ p.quantity = 0 /\ Needed(price) > b.cash ->
            [b EXCEPT !.refused[s] = @ \cup {"cash"}]
       [] side = "BUY" /\ p.quantity = 0 /\ Needed(price) <= b.cash ->
            [b EXCEPT !.cash = @ - Needed(price), !.pos[s] = Bought(p, price),
                      !.buys[now \div DayLength] = @ + 1]
       [] side = "SELL" /\ p.quantity > 0 ->
            [b EXCEPT !.cash = @ + Proceeds(p, price), !.pos[s] = Sold(p, price)]
       [] OTHER -> b

\* Mutant: the limits are those of before the timestamp.
FilledAtOnce(b, s, c) ==
  LET signal == b.pending[s]
      taken == [b EXCEPT !.pending[s] = NoSignal]
  IN CASE signal = NoSignal -> b
       [] signal # NoSignal /\ Rejections(book, s, signal) # {} ->
            [taken EXCEPT !.refused[s] = @ \cup Rejections(book, s, signal)]
       [] OTHER -> Executed(taken, s, signal.side, c.open)

\* The signal of the symbol is taken from the pending ones, filled or not.
Filled(b, s, c) ==
  LET signal == b.pending[s]
      taken == [b EXCEPT !.pending[s] = NoSignal]
  IN CASE signal = NoSignal -> b
       [] signal # NoSignal /\ Rejections(b, s, signal) # {} ->
            [taken EXCEPT !.refused[s] = @ \cup Rejections(b, s, signal)]
       [] OTHER -> Executed(taken, s, signal.side, c.open)

\* First the orders of all symbols, in the order of their names.
Orders(bar) ==
  LET after[n \in 0..Len(Names)] ==
        IF n = 0 THEN book
        ELSE IF Names[n] \in DOMAIN bar THEN Filled(after[n - 1], Names[n], bar[Names[n]])
        ELSE after[n - 1]
  IN after

Opened(bar) == Orders(bar)[Len(Names)]

SignalOf(t) == [side |-> Crossing(Closes(t)), price |-> Last(t.last).close,
                quantity |-> Quantity]

\* Then the crossings of the closes, for the next bar of each symbol.
Signalled(b, tapes, active) ==
  [b EXCEPT !.pending = [s \in Symbols |->
     IF s \in active /\ tapes[s].count > LongWindow
        /\ Wanted(b.pos[s], Crossing(Closes(tapes[s])))
     THEN SignalOf(tapes[s]) ELSE b.pending[s]]]

\* A position at the last close of its symbol; a symbol without a bar is left out.
SnapshotPosition(p, t) ==
  LET value == p.quantity * Last(t.last).close
  IN IF t.count = 0 THEN [value |-> 0, unrealized |-> 0]
     ELSE [value |-> value, unrealized |-> IF p.quantity > 0 THEN value - p.cost ELSE 0]

Valued(b, tapes) ==
  LET seen == [s \in Symbols |-> SnapshotPosition(b.pos[s], tapes[s])]
  IN [cash |-> b.cash, equity |-> b.cash + Total([s \in Symbols |-> seen[s].value]),
      realized |-> Total([s \in Symbols |-> b.pos[s].realized]),
      unrealized |-> Total([s \in Symbols |-> seen[s].unrealized])]

\* The report values each position at the last close of its own bars.
PositionResult(s) ==
  LET p == book.pos[s]
      value == p.quantity * Last(tape[s].last).close
  IN [value |-> value, realized |-> p.realized,
      unrealized |-> IF p.quantity > 0 THEN value - p.cost ELSE 0,
      costs |-> p.fees, completed |-> p.completed, won |-> p.won]

Report ==
  LET result == [s \in Symbols |-> PositionResult(s)]
  IN [equity |-> book.cash + Total([s \in Symbols |-> result[s].value]),
      realized |-> Total([s \in Symbols |-> result[s].realized]),
      unrealized |-> Total([s \in Symbols |-> result[s].unrealized]),
      costs |-> Total([s \in Symbols |-> result[s].costs]),
      completed |-> Total([s \in Symbols |-> result[s].completed]),
      won |-> Total([s \in Symbols |-> result[s].won]),
      worst |-> book.worst]

Unseen == [cash |-> InitialCash, equity |-> InitialCash, realized |-> 0, unrealized |-> 0]

-----------------------------------------------------------------------------
(* backtest.py *)

FilledAlone(a, c) ==
  LET price == Slipped(a.pending, c.open)
  IN CASE a.pending = "BUY" /\ a.pos.quantity = 0 /\ Needed(price) <= a.cash ->
            [a EXCEPT !.pending = None, !.cash = @ - Needed(price),
                      !.pos = Bought(@, price)]
       [] a.pending = "BUY" /\ a.pos.quantity = 0 /\ Needed(price) > a.cash ->
            [a EXCEPT !.pending = None, !.missed = TRUE]
       [] a.pending = "SELL" /\ a.pos.quantity > 0 ->
            [a EXCEPT !.pending = None, !.cash = @ + Proceeds(a.pos, price),
                      !.pos = Sold(@, price)]
       [] OTHER -> [a EXCEPT !.pending = None]

SignalledAlone(a, t) ==
  IF t.count > LongWindow /\ Wanted(a.pos, Crossing(Closes(t)))
  THEN [a EXCEPT !.pending = Crossing(Closes(t))] ELSE a

EquityAlone(a, t) == a.cash + a.pos.quantity * Last(t.last).close

AfterBar(a, c, t) ==
  LET filled == FilledAlone(a, c)
  IN SignalledAlone(Drawn(filled, EquityAlone(filled, t)), t)

ReportAlone(s) ==
  LET a == alone[s]
      equity == EquityAlone(a, tape[s])
  IN [equity |-> equity, realized |-> a.pos.realized,
      unrealized |-> IF a.pos.quantity > 0 THEN equity - a.cash - a.pos.cost ELSE 0,
      costs |-> a.pos.fees, completed |-> a.pos.completed, won |-> a.pos.won,
      worst |-> a.worst]

-----------------------------------------------------------------------------
(* exit_counterfactual.py *)

NewTrial == [pending |-> None, held |-> FALSE, since |-> 0, cost |-> 0, high |-> 0,
             stop |-> NoStop, realized |-> 0, completed |-> 0, done |-> NoSummary]

\* What a completed trade adds to the report of its variant; the buy's costs
\* are counted when the trade is opened.
Summarized(sum, pnl, bars, costs) ==
  [won |-> sum.won + (IF pnl > 0 THEN 1 ELSE 0),
   profit |-> sum.profit + Larger(pnl, 0),
   loss |-> sum.loss + Larger(-pnl, 0),
   early |-> sum.early + (IF pnl < 0 /\ bars <= Early THEN 1 ELSE 0),
   bars |-> sum.bars + bars,
   costs |-> sum.costs + costs]

Closed(x, raw, index) ==
  LET notional == Slipped("SELL", raw) * Quantity
      costs == Fee("SELL", notional)
      pnl == notional - costs - x.cost
  IN [pending |-> None, held |-> FALSE, since |-> 0, cost |-> 0, high |-> 0, stop |-> NoStop,
      realized |-> x.realized + pnl, completed |-> x.completed + 1,
      done |-> Summarized(x.done, pnl, index - x.since, costs)]

AtOpen(x, c, index) ==
  CASE x.pending = "BUY" /\ ~x.held ->
         [x EXCEPT !.pending = None, !.held = TRUE, !.since = index,
                   !.cost = Needed(Slipped("BUY", c.open)), !.high = Slipped("BUY", c.open),
                   !.done.costs = @ + Fee("BUY", Slipped("BUY", c.open) * Quantity)]
    [] x.pending # None /\ x.held -> Closed(x, c.open, index)
    [] OTHER -> [x EXCEPT !.pending = None]

\* Mutant: a gap through the stop is not a touch of it.
AtStopWithin(x, c, index) ==
  IF x.held /\ c.low <= x.stop /\ x.stop <= c.open THEN Closed(x, x.stop, index) ELSE x

\* A stop of an earlier bar: sold at the open below it, or at the stop.
AtStop(x, c, index) ==
  CASE x.held /\ c.open < x.stop -> Closed(x, c.open, index)
    [] x.held /\ c.low <= x.stop /\ x.stop <= c.open -> Closed(x, x.stop, index)
    [] OTHER -> x

\* The stop follows the highest price and never falls.
Trailed(x, atr) ==
  Larger(x.stop, x.high - AtrMultiple * atr)

AtClose(x, variant, c, t) ==
  LET above == t.relation = "above" /\ t.before \in {"below", "equal"}
      below == t.relation = "below" /\ t.before \in {"above", "equal"}
      risen == [x EXCEPT !.high = Larger(@, c.high)]
  IN CASE ~x.held -> IF above THEN [x EXCEPT !.pending = "BUY"] ELSE x
       [] x.held /\ variant = "dead-cross" /\ below -> [risen EXCEPT !.pending = "SELL"]
       [] x.held /\ variant = "min-hold" /\ t.count - x.since + 1 >= MinHold
          /\ t.relation = "below" -> [risen EXCEPT !.pending = "SELL"]
       [] x.held /\ variant = "atr-trailing" /\ t.atr # NoAverage ->
            [risen EXCEPT !.stop = Trailed(risen, t.atr)]
       [] OTHER -> risen

Simulated(x, variant, c, t) ==
  LET opened == AtOpen(x, c, t.count)
  IN AtClose(IF variant = "atr-trailing" THEN AtStop(opened, c, t.count) ELSE opened,
             variant, c, t)

\* An open trade is marked at the last close, without the costs of a sale.
Marked(x, s) == IF x.held THEN Last(tape[s].last).close * Quantity - x.cost ELSE 0

Summary(v) ==
  LET x == [s \in Symbols |-> trial[s][v]]
  IN [realized |-> Total([s \in Symbols |-> x[s].realized]),
      marked |-> Total([s \in Symbols |-> x[s].realized + Marked(x[s], s)]),
      costs |-> Total([s \in Symbols |-> x[s].done.costs]),
      completed |-> Total([s \in Symbols |-> x[s].completed]),
      open |-> Total([s \in Symbols |-> IF x[s].held THEN 1 ELSE 0]),
      won |-> Total([s \in Symbols |-> x[s].done.won]),
      profit |-> Total([s \in Symbols |-> x[s].done.profit]),
      loss |-> Total([s \in Symbols |-> x[s].done.loss]),
      early |-> Total([s \in Symbols |-> x[s].done.early]),
      bars |-> Total([s \in Symbols |-> x[s].done.bars])]

\* Every variant over every symbol.
Matrix == [v \in Variants |-> Summary(v)]

-----------------------------------------------------------------------------
ReplayInit ==
  /\ now = 0
  /\ limits \in Limits
  /\ tape = [s \in Symbols |-> NewTape]
  /\ book = [cash |-> InitialCash, pos |-> [s \in Symbols |-> Flat],
             pending |-> [s \in Symbols |-> NoSignal], buys |-> [d \in Days |-> 0],
             refused |-> [s \in Symbols |-> {}], peak |-> InitialCash, worst |-> 0]
  /\ timeline = [d \in Days |-> Unseen]
  /\ alone = [s \in Symbols |->
       [cash |-> InitialCash, pos |-> Flat, pending |-> None, missed |-> FALSE,
        peak |-> InitialCash, worst |-> 0]]
  /\ trial = [s \in Symbols |-> [v \in Variants |-> NewTrial]]

\* The bars of one timestamp.
Timestamp(bar) ==
  LET active == DOMAIN bar
      tapes == [s \in Symbols |->
                  IF s \in active THEN Extended(tape[s], bar[s]) ELSE tape[s]]
  IN /\ now < Times
     /\ \A s \in active : IF tape[s].count < LongWindow THEN bar[s] = Warm ELSE bar[s] \in Shapes
     /\ now' = now + 1
     /\ tape' = tapes
     /\ book' = Drawn(Signalled(Opened(bar), tapes, active),
                       Valued(Opened(bar), tapes).equity)
     /\ timeline' = [timeline EXCEPT ![now \div DayLength] = Valued(Opened(bar), tapes)]
     /\ alone' = [s \in Symbols |->
          IF s \in active THEN AfterBar(alone[s], bar[s], tapes[s]) ELSE alone[s]]
     /\ trial' = [s \in Symbols |->
          IF s \in active
          THEN [v \in Variants |-> Simulated(trial[s][v], v, bar[s], tapes[s])]
          ELSE trial[s]]
     /\ UNCHANGED limits

ReplayNext ==
  \E active \in (SUBSET Symbols) \ {{}} : \E bar \in [active -> Shapes \cup {Warm}] : Timestamp(bar)

ReplaySpec == ReplayInit /\ [][ReplayNext]_replayVars

-----------------------------------------------------------------------------
(* Properties *)

\* The books balance whatever was refused, in whatever order the symbols of a
\* timestamp were filled: every snapshot of the timeline is worth the initial
\* cash, what was realized and what is open, the report, which values the
\* positions by another way, is worth its last snapshot, the cash is never
\* overdrawn, and the limits of positions and daily buys hold.
BooksBalance ==
  /\ \A d \in Days :
       timeline[d].equity = InitialCash + timeline[d].realized + timeline[d].unrealized
  /\ Accepted => LET last == timeline[(now - 1) \div DayLength]
                 IN /\ Report.equity = last.equity
                    /\ Report.realized = last.realized
                    /\ Report.unrealized = last.unrealized
  /\ book.cash >= 0
  /\ OpenPositions(book) <= limits.open
  /\ \A d \in Days : book.buys[d] <= limits.daily

\* Three implementations of one rule agree bar by bar: of a symbol of which the
\* portfolio refused nothing it holds, pends and has earned what the replay of
\* that symbol alone does, and one that never lacked cash what the
\* counterfactual of the dead cross does, which sums its averages on the run.
\* So do the reports: a portfolio only one symbol of which ever traded falls as
\* deep and ends with as much as that symbol alone, and the dead cross of all
\* symbols has earned, lost, paid and is worth what they do alone.
ReplaysAgree ==
  /\ \A s \in Symbols :
       LET a == alone[s]
           x == trial[s]["dead-cross"]
       IN /\ (book.refused[s] = {} /\ ~a.missed) =>
               /\ book.pos[s] = a.pos
               /\ book.pending[s].side = a.pending
          /\ ~a.missed =>
               /\ x.held = (a.pos.quantity > 0) /\ x.pending = a.pending
               /\ x.cost = a.pos.cost
               /\ x.realized = a.pos.realized /\ x.completed = a.pos.completed
  /\ \A s \in Symbols :
       /\ Accepted /\ book.refused[s] = {} /\ ~alone[s].missed
       /\ \A r \in Symbols \ {s} : book.pos[r] = Flat
       => Report = ReportAlone(s)
  /\ MatrixAccepted /\ (\A s \in Symbols : ~alone[s].missed) =>
       LET sum == Matrix["dead-cross"]
           one == [s \in Symbols |-> ReportAlone(s)]
       IN /\ sum.realized = sum.profit - sum.loss
          /\ sum.marked = Total([s \in Symbols |-> one[s].realized + one[s].unrealized])
          /\ sum.costs = Total([s \in Symbols |-> one[s].costs])
          /\ sum.completed = Total([s \in Symbols |-> one[s].completed])
          /\ sum.won = Total([s \in Symbols |-> one[s].won])

\* After a bar no replay still holds what its rule sells, except a portfolio
\* that had the sale refused: not below the averages without a sale to come (of
\* min-hold, after its bars), and not through a trailing stop set before the bar.
ExitsAreTaken ==
  [][\A s \in Symbols : tape'[s] # tape[s] =>
       LET t == tape'[s]
           below == t.relation = "below"
           min == trial'[s]["min-hold"]
           atr == trial[s]["atr-trailing"]
       IN /\ below /\ alone'[s].pos.quantity > 0 => alone'[s].pending = "SELL"
          /\ below /\ book'.pos[s].quantity > 0 /\ "order" \notin book'.refused[s]
               => book'.pending[s].side = "SELL"
          /\ below /\ min.held /\ t.count - min.since + 1 >= MinHold
               => min.pending = "SELL"
          /\ atr.held /\ Last(t.last).low <= atr.stop
               => trial'[s]["atr-trailing"].completed = atr.completed + 1]_replayVars
=============================================================================
