---------------------------- MODULE PitCollection ----------------------------
(***************************************************************************)
(* The point-in-time inputs of setup-v2: the collector process of          *)
(* pit_collector.py, the commands an operator runs beside it, and the      *)
(* context a decision reads (OfficialSetupContextFactory).                 *)
(*                                                                         *)
(* The collector runs at 00:10 and 18:30 and whenever it was started       *)
(* again.  A run extends the ledger of sessions from the price archive,    *)
(* fetches the filings of the last days, one day after the other, checks   *)
(* off the days before today, and adds the investor flow of a session that *)
(* is over.  A decision in the morning trusts that a day that was checked  *)
(* off has no filing it does not see.                                      *)
(*                                                                         *)
(* Time has three points a day: the night run, the decisions, the evening  *)
(* run.  One symbol; of its prices, a decision is given what they show.    *)
(***************************************************************************)
EXTENDS Integers, FiniteSetsExt

CONSTANTS
  Sessions,     \* the days on which the market is open, with days to come
  Filings,
  Blocking,     \* of the filings: those that block entries; the others announce one
  Lookback,     \* lookback_days
  KisDays,      \* days the flow service answers for
  Window,       \* the sessions of flow a decision looks at
  Foreign, Institutional,  \* session -> what they bought net
  PriceFacts,   \* what daily bars may show: [pullback, oversold, chase, knife]
  LastDay,      \* bound: days
  Bounds        \* bounds: [faults, manual], faults being crashes, slow runs and refused flows

ASSUME PitAssumption ==
  /\ Sessions \subseteq Nat \ {0} /\ IsFiniteSet(Sessions) /\ Blocking \subseteq Filings
  /\ {Lookback, KisDays, LastDay} \subseteq Nat /\ Window \in Nat \ {0, 1}
  /\ Foreign \in [Sessions -> Int] /\ Institutional \in [Sessions -> Int]
  /\ PriceFacts \subseteq [pullback : BOOLEAN, oversold : BOOLEAN, chase : BOOLEAN, knife : BOOLEAN]
  /\ \A d \in 1..LastDay : Cardinality({s \in Sessions : s > d}) >= 4

Days == 1..LastDay
Sources == {"krx", "kis"}
Slots == [night |-> 0, open |-> 1, evening |-> 2]

VARIABLES
  time,
  filed,      \* filing -> the day it was received, 0 before
  ledger,     \* the sessions of market_universe_raw_v2
  events,     \* filing -> its row: the session it becomes visible, the end of the block,
              \* and (history) who wrote it last
  covered,    \* day -> its row of market_pit_coverage: when, and (history) by whom
  flow,       \* source -> session -> its row, with (history) the ledger that numbered it
  run,        \* the collector process
  command,    \* the events command of an operator
  spent       \* bounds used up

vars == <<time, filed, ledger, events, covered, flow, run, command, spent>>

-----------------------------------------------------------------------------
Day == time \div 3
Slot == time % 3
At(d, slot) == 3 * d + slot

NoEvent == [stored |-> FALSE, available |-> 0, through |-> 0, by |-> "nobody"]
NoCommand == [known |-> {}, skip |-> {}, chunk |-> 1, last |-> 0, seen |-> {}]
NoCover == [completed |-> 0, by |-> "nobody"]
NoFlow == [index |-> 0, at |-> 0, ledger |-> {}]

\* The n-th session after a day among those that are known; 0 for none.
Nth(n, d, known) ==
  LET after == {s \in known : s > d}
      nth == {s \in after : Cardinality({r \in after : r <= s}) = n}
  IN  IF nth = {} THEN 0 ELSE Min(nth)

\* future_kr_sessions: four of them, from today on.
FutureSessions(day) ==
  {s \in Sessions : s >= day /\ Cardinality({r \in Sessions : day <= r /\ r <= s}) <= 4}

\* The archive has a session after 13:00 of the next one.
Published ==
  {s \in Sessions : LET next == Nth(1, s, Sessions)
                    IN  next # 0 /\ time >= At(next, Slots.evening)}

Today == run.began \div 3
Wanted == {s \in Published : Today - Lookback <= s /\ s <= Today}

\* What a run may check off: the days before today.
FinalizableToday(day) == day  \* Mutant: today too.
Finalizable(day) == day - 1

\* covered_dates with finalized_only: a day checked off before its end does not count.
Finalized(d) == covered[d].completed >= At(d + 1, Slots.night)
Covered(first, last) == {d \in Days : first <= d /\ d <= last /\ Finalized(d)}

Listed(d) == {f \in Filings : filed[f] = d}
EventRow(d, known, by) ==
  [stored |-> TRUE, available |-> Nth(1, d, known), through |-> Nth(3, d, known), by |-> by]
Upserted(fs, known, by) ==
  [f \in Filings |-> IF f \in fs THEN EventRow(filed[f], known, by) ELSE events[f]]
Checked(d, by) == [covered EXCEPT ![d] = [completed |-> time, by |-> by]]

\* The first day from d on that collect_events has to fetch.
NextDay(d, last, skip) == Min({e \in d..(last + 1) : e \notin skip})

NextRun == Min({t \in (time + 1)..(time + 3) : t % 3 # Slots.open})

Spend(kind) == /\ spent[kind] < Bounds[kind]
               /\ spent' = [spent EXCEPT ![kind] = @ + 1]

-----------------------------------------------------------------------------
(* A run of the collector *)

Start == [pc |-> "universe", began |-> time, wake |-> 0,
          known |-> {}, skip |-> {}, chunk |-> 0, seen |-> {}]

Begin ==
  /\ run.pc = "waiting" /\ time >= run.wake
  /\ run' = Start
  /\ UNCHANGED <<time, filed, ledger, events, covered, flow, command, spent>>

\* The archive is fetched page by page, four at a time, each page stored at once.
StorePage ==
  /\ run.pc = "universe"
  /\ \E page \in (SUBSET (Wanted \ ledger)) \ {{}} : ledger' = ledger \cup page
  /\ UNCHANGED <<time, filed, events, covered, flow, run, command, spent>>

BeginEvents ==
  /\ run.pc = "universe" /\ Wanted \subseteq ledger
  /\ LET first == IF Today > Lookback THEN Today - Lookback ELSE 1
         skip == Covered(first, Finalizable(Today))
     IN  run' = [run EXCEPT !.pc = "events", !.known = ledger \cup FutureSessions(Today),
                            !.skip = skip, !.chunk = NextDay(first, Today, skip)]
  /\ UNCHANGED <<time, filed, ledger, events, covered, flow, command, spent>>

StoreFilings ==
  /\ run.pc = "events" /\ run.chunk <= Today
  /\ \E page \in (SUBSET (Listed(run.chunk) \ run.seen)) \ {{}} :
       /\ events' = Upserted(page, run.known, "collector")
       /\ run' = [run EXCEPT !.seen = @ \cup page]
  /\ UNCHANGED <<time, filed, ledger, covered, flow, command, spent>>

CheckOff ==
  /\ run.pc = "events" /\ run.chunk <= Today /\ Listed(run.chunk) \subseteq run.seen
  /\ covered' = IF run.chunk <= Finalizable(Today) THEN Checked(run.chunk, "collector")
                                                  ELSE covered
  /\ run' = [run EXCEPT !.chunk = NextDay(@ + 1, Today, run.skip), !.seen = {}]
  /\ UNCHANGED <<time, filed, ledger, events, flow, command, spent>>

BeginFlow ==
  /\ run.pc = "events" /\ run.chunk > Today
  /\ run' = [run EXCEPT !.pc = "flow"]
  /\ UNCHANGED <<time, filed, ledger, events, covered, flow, command, spent>>

Rest == run' = [run EXCEPT !.pc = "waiting", !.wake = NextRun, !.known = {}, !.skip = {},
                           !.chunk = 0]

-----------------------------------------------------------------------------
(* The flow of a session *)

Rank(s) == Cardinality({r \in ledger : r <= s})
Before(s) == {r \in ledger : r < s}

\* session_indexes: the ledger numbers its sessions, and the calendar goes on
\* from the last one before the day that is asked for.
IndexFromDays(last, s) == Rank(last) + s - last  \* Mutant: holidays are counted.
IndexFrom(last, s) == Rank(last) + Cardinality({r \in Sessions : last < r /\ r <= s})
Numbered(through) ==
  IF through \in ledger THEN ledger
  ELSE ledger \cup {s \in Sessions : Max(Before(through)) < s /\ s <= through}
Index(through, s) ==
  IF through \notin ledger /\ s > Max(Before(through))
  THEN IndexFrom(Max(Before(through)), s) ELSE Rank(s)

\* INSERT OR IGNORE: the row that was seen first stays.
Inserted(src, ss, through, seenAt) ==
  [flow EXCEPT ![src] = [s \in Sessions |->
     IF s \in ss /\ flow[src][s] = NoFlow
     THEN [index |-> Index(through, s), at |-> seenAt, ledger |-> ledger]
     ELSE flow[src][s]]]

FlowDue == Today \in Sessions /\ run.began % 3 = Slots.evening
NoNumbers == Today \notin ledger /\ Before(Today) = {}

CollectFlow ==
  /\ run.pc = "flow" /\ FlowDue /\ ~NoNumbers
  /\ flow' = Inserted("kis", {s \in Numbered(Today) : Today - KisDays <= s /\ s <= Today},
                      Today, run.began)
  /\ Rest
  /\ UNCHANGED <<time, filed, ledger, events, covered, command, spent>>

\* It is not time, or the token or the symbol is refused: nothing is stored.
SkipFlow ==
  /\ run.pc = "flow"
  /\ IF FlowDue THEN ~NoNumbers /\ Spend("faults") ELSE UNCHANGED spent
  /\ Rest
  /\ UNCHANGED <<time, filed, ledger, events, covered, flow, command>>

\* Any other error ends the process.
Stop == /\ run' = [Start EXCEPT !.pc = "down", !.began = 0]
        /\ UNCHANGED <<time, filed, ledger, events, covered, flow, command>>

FlowRaises == run.pc = "flow" /\ FlowDue /\ NoNumbers /\ Stop /\ UNCHANGED spent
Crash == run.pc \in {"universe", "events", "flow"} /\ Spend("faults") /\ Stop

Restart ==
  /\ run.pc = "down"
  /\ run' = Start
  /\ UNCHANGED <<time, filed, ledger, events, covered, flow, command, spent>>

-----------------------------------------------------------------------------
(* The commands of an operator *)

\* collect-official-data universe, of which any pages may have been stored.
Backfill(first) ==
  /\ Spend("manual")
  /\ \E page \in (SUBSET {s \in Published : first <= s}) \ {{}} : ledger' = ledger \cup page
  /\ UNCHANGED <<time, filed, events, covered, flow, run, command>>

\* collect-official-data events: it asks no calendar, and checks off up to its end.
\* The sessions and the days to leave out are those it read when it began.
BeginCommand(first, last) ==
  /\ command = NoCommand /\ ledger # {}
  /\ Spend("manual")
  /\ LET skip == Covered(first, last)
     IN  command' = [known |-> ledger, skip |-> skip, chunk |-> NextDay(first, last, skip),
                     last |-> last, seen |-> {}]
  /\ UNCHANGED <<time, filed, ledger, events, covered, flow, run>>

CommandStores ==
  /\ command.chunk <= command.last
  /\ \E page \in (SUBSET (Listed(command.chunk) \ command.seen)) \ {{}} :
       /\ events' = Upserted(page, command.known, "operator")
       /\ command' = [command EXCEPT !.seen = @ \cup page]
  /\ UNCHANGED <<time, filed, ledger, covered, flow, run, spent>>

CommandChecksOff ==
  /\ command.chunk <= command.last /\ Listed(command.chunk) \subseteq command.seen
  /\ covered' = Checked(command.chunk, "operator")
  /\ command' = [command EXCEPT !.chunk = NextDay(@ + 1, command.last, command.skip), !.seen = {}]
  /\ UNCHANGED <<time, filed, ledger, events, flow, run, spent>>

\* After its last day; or any page is refused, or the process is killed, before.
CommandEnds ==
  /\ command # NoCommand
  /\ command' = NoCommand
  /\ UNCHANGED <<time, filed, ledger, events, covered, flow, run, spent>>

\* import-krx-flow-csv; the exchange has the file once the session is over (see Operator).
ImportFlow(s) ==
  /\ s \in ledger \/ Before(s) # {}
  /\ Spend("manual")
  /\ flow' = Inserted("krx", {s}, s, time)
  /\ UNCHANGED <<time, filed, ledger, events, covered, run, command>>

-----------------------------------------------------------------------------
(* A decision of day d, made in the morning after signal session s *)

Visible(f, d) == events[f].stored /\ events[f].available # 0 /\ events[f].available <= d
Blocks(f, d) == f \in Blocking /\ Visible(f, d) /\ d < events[f].through
Announces(f, d) ==
  /\ f \notin Blocking /\ Visible(f, d)
  /\ \A g \in Blocking : Visible(g, d) => events[g].available <= events[f].available

\* Mutant: the day may be checked off after the decision.
CheckedOffEver(s, d) == covered[s].completed # 0
CheckedOff(s, d) == covered[s].completed # 0 /\ covered[s].completed <= At(d, Slots.open)

\* The event a decision is held up by; "unknown" if the day was not checked off.
EventGate(s, d) ==
  IF ~CheckedOff(s, d) THEN "unknown"
  ELSE IF \E f \in Filings : Blocks(f, d) THEN "active-entry-block"
  ELSE LET open == {f \in Filings : Announces(f, d)}
       IN IF open = {} THEN "none"
          ELSE IF \E f \in open : d >= events[f].through THEN "expired-unresolved"
          ELSE "preannounced-unknown"

\* The flow it sees: of every session the row of the best source.
Seen(src, r, d) == flow[src][r] # NoFlow /\ flow[src][r].at <= At(d, Slots.open)
FlowAt(s, d) ==
  {[session |-> r, index |-> (IF Seen("krx", r, d) THEN flow["krx"] ELSE flow["kis"])[r].index] :
     r \in {q \in Sessions : q <= s /\ \E src \in Sources : Seen(src, q, d)}}

\* The rows with the greatest session indexes.
Observed(rows) == {x \in rows : Cardinality({y \in rows : y.index > x.index}) < Window}

Consecutive(rows) ==
  \A x, y \in rows : x.session < y.session =>
    y.index - x.index = Cardinality({z \in rows : x.session < z.session /\ z.session <= y.session})

\* Foreign investors turned from selling to buying, with the institutions or not.
Net(bought, ss) == MapThenSumSet(LAMBDA r : bought[r], ss)
Stars(seen) ==
  LET before == seen \ {Max(seen)}  now == seen \ {Min(seen)}  last == Max(seen)
  IN  IF ~(Net(Foreign, before) < 0 /\ Net(Foreign, now) > 0 /\ Foreign[last] > 0) THEN 0
      ELSE IF Net(Institutional, now) > 0 /\ Institutional[last] > 0 THEN 2 ELSE 1

\* OfficialSetupContextFactory: what is stored, as the decision sees it.
Context(s, d) == [gate |-> EventGate(s, d), flow |-> Observed(FlowAt(s, d))]

\* summarize_flow; rows that are not consecutive end the evaluation of the symbol.
Summary(rows) ==
  LET known == Consecutive(rows) /\ Cardinality(rows) >= Window
  IN  [error |-> ~Consecutive(rows), known |-> known,
       stars |-> IF known THEN Stars({x.session : x \in rows}) ELSE 0]

\* evaluate_price_setups, and the turn of the flow.
PriceSetups(p) == {x \in {"pullback", "oversold"} : p[x]}
Setups(p, summary) ==
  PriceSetups(p) \cup (IF summary.stars > 0 THEN {"flow-reversal"} ELSE {})

\* evaluate_setup: every check that fails, and every one that can not be made.
Violations(p, gate) ==
  {v \in {"missing-price-setup", "rsi-chase", "falling-knife", "event-imminent"} :
     CASE v = "missing-price-setup" -> PriceSetups(p) = {}
       [] v = "rsi-chase" -> p.chase
       [] v = "falling-knife" -> p.knife
       [] v = "event-imminent" -> gate \notin {"unknown", "none"}}
Missing(summary, gate) ==
  {m \in {"flow-history", "event-calendar"} :
     IF m = "flow-history" THEN ~summary.known ELSE gate = "unknown"}

Approved(violations, missing) == violations = {} /\ missing = {}

\* What the Hermes portfolio may arm: setups that fail as references only.
HermesCanArm(violations, missing) ==
  missing = {} /\ violations \subseteq {"falling-knife", "missing-price-setup", "rsi-chase"}

\* event_gate_shadow_detail: what would be done without the event.
WithoutEvent(violations, missing) ==
  LET others == violations \ {"event-imminent"}
  IN  [rule |-> Approved(others, missing), hermes |-> HermesCanArm(others, missing)]

Decision(p, s, d) ==
  LET context == Context(s, d)
      summary == Summary(context.flow)
      violations == Violations(p, context.gate)
      missing == Missing(summary, context.gate)
  IN  [error |-> summary.error, setups |-> Setups(p, summary), stars |-> summary.stars,
       gate |-> context.gate, approved |-> Approved(violations, missing),
       withoutEvent |-> WithoutEvent(violations, missing)]

-----------------------------------------------------------------------------
Receive(f) ==
  /\ filed[f] = 0
  /\ filed' = [filed EXCEPT ![f] = Day]
  /\ UNCHANGED <<time, ledger, events, covered, flow, run, command, spent>>

\* The timer is punctual; a run or a command that is slow may pass into the next slot.
Tick ==
  /\ time < At(LastDay, Slots.evening)
  /\ run.pc = "waiting" => time < run.wake
  /\ IF run.pc \in {"waiting", "down"} /\ command = NoCommand THEN UNCHANGED spent ELSE Spend("faults")
  /\ time' = time + 1
  /\ UNCHANGED <<filed, ledger, events, covered, flow, run, command>>

Init ==
  /\ time = At(1, Slots.night)
  /\ filed = [f \in Filings |-> 0]
  /\ ledger = {}
  /\ events = [f \in Filings |-> NoEvent]
  /\ covered = [d \in Days |-> NoCover]
  /\ flow = [src \in Sources |-> [s \in Sessions |-> NoFlow]]
  /\ run = Start
  /\ command = NoCommand
  /\ spent = [faults |-> 0, manual |-> 0]

Collector ==
  \/ Begin \/ StorePage \/ BeginEvents \/ StoreFilings \/ CheckOff \/ BeginFlow
  \/ CollectFlow \/ SkipFlow \/ FlowRaises \/ Crash \/ Restart

Operator ==
  \/ \E d \in Days : Backfill(d)
  \/ \E e \in {Day - 1, Day} : \E d \in {e - 1, e} \cap Days : BeginCommand(d, e)
  \/ CommandStores \/ CommandChecksOff \/ CommandEnds
  \/ \E s \in {r \in Sessions : time >= At(r, Slots.evening)} : ImportFlow(s)

Next == Collector \/ Operator \/ Tick \/ \E f \in Filings : Receive(f)

Spec == Init /\ [][Next]_vars

-----------------------------------------------------------------------------
(* Properties *)

\* A setup that is approved, or stopped by anything but an event, has no block
\* that was missed: no filing received up to its signal session blocks the two
\* sessions after its receipt of which this is one, whatever runs crashed or were
\* missed.  This is about the days the collector itself checked off, and the rows
\* that no command of the operator wrote after it.
NoMissedBlock ==
  Slot = Slots.open /\ Day \in Sessions =>
    \A s \in Sessions : s < Day /\ EventGate(s, Day) = "none" =>
      \A f \in Blocking :
        /\ filed[f] \in 1..s
        /\ \A d \in {filed[f], s} : covered[d].by = "collector"
        /\ events[f].by # "operator"
        => Day \notin {Nth(1, filed[f], Sessions), Nth(2, filed[f], Sessions)}

\* A row's numbering left no session out.
Gapless(row) == \A s \in Sessions : Min(row.ledger) <= s /\ s <= Max(row.ledger) => s \in row.ledger
HasFlow(src) == {s \in Sessions : flow[src][s] # NoFlow}

\* Two rows of flow that were numbered from the same first session, without a
\* session missing in between, are as far apart as their sessions: the six in a
\* row that summarize_flow asks for are six sessions in a row.
IndexIsDistance ==
  \A src, dst \in Sources : \A s \in HasFlow(src), t \in HasFlow(dst) :
    LET r == flow[src][s]  q == flow[dst][t] IN
      s < t /\ Gapless(r) /\ Gapless(q) /\ Min(r.ledger) = Min(q.ledger)
      => q.index - r.index = Cardinality({u \in Sessions : s < u /\ u <= t})

\* A decision that is past is made again the same way from what was collected
\* since: no event and no flow appears under its time, or disappears.  It may be
\* another one if the operator checked days off, if days lie between its session
\* and itself, or if a run that began before it stores its flow after it.
PastDecisionIsFixed ==
  [][<<events, covered, flow>>' # <<events, covered, flow>> =>
       \A d \in Days :
         /\ {d - 1, d} \subseteq Sessions
         /\ At(d, Slots.open) < time /\ (run.pc = "flow" => run.began > At(d, Slots.open))
         /\ \A e \in Days : "operator" \notin {covered[e].by, covered'[e].by}
         /\ \A f \in Filings : "operator" \notin {events[f].by, events'[f].by}
         => \A p \in PriceFacts : Decision(p, d - 1, d)' = Decision(p, d - 1, d)]_vars
=============================================================================
