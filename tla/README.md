# toss-trader: a TLA+ verification project

toss-trader runs two paper portfolios (`rule` and `hermes`) on Korean stocks. No
real order is ever placed; what the program must get right is its own book:
which positions exist, under which plan each is managed, how much risk and cash
is committed, and what was decided, analysed and reported. This directory models
the parts of the program that keep that book, the parts that work on it
concurrently, the collectors its decisions read from and the replays its rules
are judged by. TLC checks every model on small instances; TLAPS proves the
central invariants for every value of the constants.

## 1. Inventory

Paths are relative to `src/src/toss_trader/` unless they name a directory.

| Component | State | Operations | Interacts with | Module |
| --- | --- | --- | --- | --- |
| Paper cycle (`cycle.py`) | in memory: signals, errors, reservations, prepared plans of one run | `prepare`, `run`, `_run_started` and its six loops, `_v2_runtime_signal`, `_hunter_runtime_signal` | one process per cycle, started by the automation server; one commit per statement on the ledger | `PaperCycle`, `PositionExit` |
| Execution and limits (`execution.py`, `risk.py`) | none | `submit`: read context, preflight, advisor, limits, write | ledger, advisor subprocess | `PaperCycle` |
| Ledger (`paper.py`) | fills (unique `signal_id`), position plans, decisions, panels and opinions, audit rows | `execute`, plan upsert/mark/delete, panel and audit operations | PostgreSQL (SQLite in tests) | `PaperCycle`, `PanelQueue`, `HourlyWatch` |
| Sizing and entry engine (`setup_screening.py`, `v2_engine.py`) | none | `position_size_reference`, `arm_candidate`, `stop_touched`, `evaluate_setup`, `summarize_flow` | pure, over the context of the official data | `PaperCycle`, `PositionExit`, `PitCollection` |
| Cycle state (`cycle_state.py`) | run rows with the streak of API errors | `start_run`, `finish_run`, `latest_consecutive_api_errors` | read at the start of a cycle, gates every buy | `IntradayWorkflow` |
| Universe (`universe.py`, `krx_openapi.py`) | decisions and runs of the day | `resolve`, `_refresh` | selects the symbols of a cycle; frozen per day | `IntradayWorkflow` |
| Shadow experiments and advisor (`momentum_shadow.py`, `setup_parameter_shadow.py`, `advisor.py`) | audit rows | evaluate, review and record once per session | the rule cycle; hermes buys what was approved | `IntradayWorkflow` |
| Automation server (`automation.py`) | three run locks, a thread per request | `/run-*` and `/workflow/*`, cycle processes with a 600 s limit, analyzers, reporters | n8n, cycle processes, panel runner | `AutomationRuns`, `HourlyWatch`, `PanelQueue` |
| n8n workflows (`src/automation/n8n/`) | executions | schedules, retries, failure reports | the automation server | `IntradayWorkflow`, `HourlyWatch` |
| Panels (`automation.py`, `paper.py`) and their runner (`src/automation/hermes-panel-runner.py`) | `daily_analysis_panels`, `daily_analysis_opinions`; one claimed panel | enqueue, claim, opinion, complete, fail; two rounds and a judge | cron, agents, Alertmanager | `PanelQueue` |
| Market data (`market_data.py`, `repository.py`) and client (`client.py`) | candles; per process a token and what it learnt of the rate limit | `collect`, requests with three retry loops | brokerage API | `CandleCollection` |
| Official data (`official_data.py`, `pit_collector.py`, `kis_flow.py`, `krx_flow.py`) | ledger of sessions, filings, coverage, investor flow | the runs of the collector, the operator's commands, the context of a decision | data.go.kr, OpenDART, KIS | `PitCollection` |
| Replays (`portfolio_backtest.py`, `backtest.py`, `exit_counterfactual.py`, `strategy.py`) | none of their own | event loops over stored bars, reports | stored candles | `Replay` |
| Performance (`portfolio.py`, `metrics.py`), timeline, MCP evidence, web | daily baseline | read-only, or arithmetic on rows | ledger, candles | - |

Hard behaviours: every statement on the ledger commits by itself, so a cycle
that dies (it is killed after ten minutes) leaves a prefix of its work; plans
are stored before the orders they belong to; entries of one cycle are sized
before any of them is stored; no lock keeps two `/workflow/paper-*` requests of
one portfolio apart; requests are threads that outlive their callers, and the
callers try again; bars and filings arrive late; collectors miss runs and are
restarted. The hazards in `PROJECT.json` list each of them at its line with the
property that covers it.

What makes each component correct:

- cycle and ledger: every position has its plan and the plan's quantity, budgets
  and cash are never exceeded, a portfolio with an unmanaged position fails
  closed, a plan without a position does not survive, a touched stop is honored;
- panels: a panel ends exactly once, is reported only when complete, is alerted
  only when it failed, and always ends;
- one session of the workflow: one selection, one row of each experiment,
  held symbols always managed, approvals persisted, the streak of errors kept;
- hourly watch and server: what is found is analysed or reported, and once; a run
  has one verdict, and its lock is freed;
- collectors: within the rate limit, never an older bar over the newer one just
  read, no missed block, and a past that does not change;
- replays: books that balance, and rules that mean the same in each of them.

## 2. The project

`PositionBook` is the abstract book of positions that `PaperCycle` implements.
`Lots` has sums over sets as cardinalities of sets, of which the library has theorems.
Every other module stands for one part of the system; the parts meet in the
tables they share, which each module has as its variables:

- `PaperCycle` has the steps inside of a cycle, on any number of symbols;
  `PositionExit` has one symbol over whole sessions, a cycle being one step;
  `IntradayWorkflow` has a whole session of both portfolios, `Trade` being what
  `PaperCycle` does.
- `HourlyWatch` ends with the panel that `PanelQueue` begins with.
- `CandleCollection` is where the `stored` of `PositionExit` comes from.
- `PitCollection` is where the setups of `PositionExit` and `PaperCycle` are approved.

A module `M_proofs` has the theorems about `M`, and `MCM` its instances for TLC;
`Exits_proofs` has those about `PositionExit` and `Replay`, which both are about the
exits of positions.
In every module an operator marked `Mutant` is a plausible bug of the definition it
precedes; each property is violated when one of them takes its place.

## 3. PaperCycle

One portfolio. The variables `fills`, `pos`, `cash` are the table `paper_fills`
(its unique signal ids and the sums the code computes from it), `plans` the table
`paper_v2_position_plans`; `legacy` remembers which positions were there before
plans existed. `pc`, `todo`, `sig`, `approved`, `prepared`, `filled` are the
local state of each running cycle (`signals`, `v2_plans_to_store`,
`prepared_v2_plans`, `executions` of `_run_started`).

| Stage | Code | Actions |
| --- | --- | --- |
| start | `run`, `prepare` | `Start` (universe selection plus what is held) |
| evaluate | `_run_started` 474-580, `_v2_runtime_signal`, `_hunter_runtime_signal` | `ClearStalePlan`, `ExitSignal`, `MarkExitPending`, `ArmEntry`, `NoAction`, `EvaluationError` |
| filter | 582-603 | `DropUnfitSignals` |
| store | 605-621 | `StorePlan`, `PlanPersistenceFails` |
| submit | 623-660, `submit`, `execute` | `BeginSubmit`, `Approve`, `Reject`, `FillOrder`, `DuplicateOrder`, `FillStoreFails` |
| settle | 662-671 | `BeginSettle`, `SettlePlan`, `Finish` |
| any | killed process, uncaught error | `Kill` |

Each action is one commit or one read of the code, so cycles interleave between
any two of them. `submit` is two actions because the advisor (a subprocess of up
to minutes) runs between reading the context and writing the fill.

Abstractions. Lots are units: one lot costs one unit of cash and one of heat, so
sizing is "any number of lots that fits every budget", which contains the number
`position_size_reference` picks. An exit may return less than was paid
(`ExitLosses`). The budgets are those at the highest equity: a lower equity only
allows fewer lots, which the model allows too. Bars, prices, candidates and the
advisor are free choices. Rules on price, time, losses and errors in
`RiskManager.evaluate` are the choice between `Approve` and `Reject`; those on
the ledger are `WithinRiskLimits`. Time is days of two phases: entries of the
daily setup in the first half hour (phase 1), momentum entries at 10:01-10:05
(phase 2, `hermes` only). It moves only between cycles, since a cycle is killed
after ten minutes and the windows are further apart. Cycles outside of the
session and daily cycles change nothing of this state and are left out.

Properties.

- `PositionsManaged`: every position the program opened has a plan of exactly its
  quantity, wherever a cycle died.
- `HeatWithinBudget`, `CashCovered`: the entries of one cycle together respect
  the budgets although none of them is stored when the next is sized.
- `LegacyFailsClosed`: while some position has no plan nothing is bought and that
  position is not touched.
- `ImplementsBook`: the cycles implement `PositionBook`, in which heat is reserved
  within the budgets, positions open at the reserved size, close whole, and a
  reservation is released only flat.
- `PlansResolve`: under fairness of a started cycle (it is straight-line code in a
  process of its own) and without crashes a plan becomes a position or goes.
- `NoDoubleEntry`: even when cycles overlap, a position only grows while its symbol is
  flat, and by the first and only fill of that symbol's entry in the window, so an
  exit in between does not let it be entered again; only the unique index on
  `signal_id` ensures it.

All but the last hold of cycles that do not overlap. The schedule of the n8n
workflow makes overlap unlikely but nothing excludes it: see section 9.

## 4. PanelQueue

`status`, `order`, `stale`, `stored` are the tables of panels and opinions (`stale`:
claimed more than 30 minutes ago; `stored` keeps which run's opinion a stage has).
`at`, `panel`, `left`, `got` are a runner process; `complete` and `fail` are the
server threads of its two last requests, which go on when it times out or dies;
`reports` and `alerts` are what Alertmanager accepted. Each action is one commit,
one message or one decision. Faults: an agent fails, an opinion's post fails
before or after it was stored, a request times out, Alertmanager fails before or
after accepting, and (at most `MaxLosses`, the bound) a runner is killed, a
claim's answer or a failure post is lost. A runner slot is used again when the
process and its threads are gone.

Properties: `TerminalIsFinal`, `ReportedIsComplete`, `SucceededIsReported`,
`AlertedIsFailed` (which also says: at most one alert) and, under fairness,
`PanelsResolve`. Fairness: the cron polls on, agent calls have a limit of 300 s and
requests of 30 s, handlers run to their end, and time passes (`Age`).

The hourly panels have the judge only; a daily one has one opinion for each role
and round. `Age` uses the code's times: seven calls of at most five minutes
pass the thirty minutes only after the first round.

## 5. PositionExit

One symbol of one portfolio against the bars of its sessions. `market` is what
traded (a minute without a trade has no bar), `stored` the session's rows of
`market_candles`, `plan` the row of `paper_v2_position_plans`, `fills` the signal
ids of the symbol, `below` whether the last session closed under the plan's ma50.
`setup` is the low of today's approved setup and `opening` the open of the first bar.
`sale` remembers what the last exit was made of and `evaluated` that a cycle has
just decided on the bars stored; both are for the properties.

| Code | Actions |
| --- | --- |
| `_v2_runtime_signal`, a position is held | `Hold`, `MarkPending`, `Sell`, `SellDuplicate`, `SellRefused` |
| `_v2_runtime_signal`, none is held | `EnterV2`, `StayFlat` |
| `_hunter_runtime_signal` | `EnterHunter`, `StayFlat` |
| the market and the calendar | `Tick`, `NextDay` |

Every cycle first collects the latest page of bars (`Collected`): the newest bar
may be late, bars further back than the page are lost when no cycle ran in time.
For a setup that may be armed up to three further pages are asked for, until the
opening bar is there (`Complete`, the code's `_ensure_v2_opening_bar`).
`Decision` is the order of the code: a pending exit, then a broken structure, then
the stop over all bars of the session. Ids of exits are made of the symbol and
the triggering bar, not of the position: this is what the properties are about.

Abstractions. Prices are levels and a bar is its low and close; the sessions and
windows are scaled to a few minutes, with the order of `ArmUntil`, `Cutoff` and
`HunterUntil` kept. A cycle is one step (`PaperCycle` has the steps inside of it).
A setup (V2) is armed when the open and the close are above its low, with a free
choice of the stop at or below that low; one that opened at or below it is only
watched, and `Reclaim` is what its cycles report. A hunter entry is a free choice of
the minute where the pullback began.

Properties.

- `FirstStopHonored`: after a cycle the first position of a session whose stop a
  stored bar touched is sold or has its exit pending, whichever cycles were
  skipped and whichever bars came late. It says "first" for a reason: a later
  position of the same symbol and session can find a bar whose exit id is used
  already, its sale is refused as `duplicate-signal`, and no stop of it is honored
  until the next session.
- `SoldAfterTrigger`: an exit is never priced at the bar that triggered it.
- `WaitingExitIsNew`: an exit that waits (pending, or on the daily bar) is not
  refused as a duplicate when its bar comes.
- `PendingKept`: a pending exit keeps its trigger over bars and sessions.
- `ReclaimIsFixed`: a reclaim that was reported stays the one that is reported,
  although every cycle looks for it again in the bars it has by then, which arrive
  late, in pages, or never: an earlier bar that comes in later cannot replace it.

A limit of the schedule, not of the model: the last cycle of a session is the
cron's at 15:20, so a stop touched after it is not looked at, that day or the
next (the scan starts at the session of the cycle).

## 6. IntradayWorkflow

One session of the workflow "Rule vs Hermes", up to the end of the window of the
experiments at 10:05. `universe` is the succeeded `dynamic_universe_runs` of the
day; `setup`, `momentum`, `advice` are the audit rows in `automation_run_logs`;
`rows` is `paper_cycle_runs`; `held` the positions of both portfolios; `run` what
each execution carries in memory. `overlapped` remembers that two executions were
in progress at once, for the properties.

| Code | Actions |
| --- | --- |
| n8n, `PaperPortfolioProcess.run` | `Start`, `Handoff`, `Kill` |
| `DynamicUniverseSelector.resolve` | `ReadUniverse`, `RefreshSucceeds`, `RefreshFails` |
| `_run_paper_cycle`, context of the research | `ReadContext`, `NoContext` |
| `_run_paper_cycle`, experiments | `SetupShadow`, `Momentum`, `NoMomentum`, `RecordMomentum` |
| `review_momentum_shadow_once` | `Review`, `Advised`, `AdviceFails` |
| `PaperCycleRunner.run` | `BeginRun`, `Trade`, `FinishClean`, `FinishWithErrors`, `RunFails` |

The hermes cycle is the second half of an execution: it starts at `begin` with
the snapshot of the rule cycle, extended by its own positions and the approved
candidates. An execution is stamped with the time it started (`at`), which is the
`now` of both cycles.

Abstractions. `Trade` is everything `_run_started` does (`PaperCycle`, one step
here): it buys inside its windows and sells what it manages. Which symbols the
rankings select, which bars are complete and what Hermes answers are free
choices. Looking for an audit row and writing it is one step; only the review, which
takes up to 90 seconds, has them apart.

Properties.

- `OncePerSession`: one selection, one row of each experiment and one review,
  whatever fails, dies or is repeated in between.
- `HeldCovered`: a cycle that trades manages every position of its portfolio,
  also those its universe or its snapshot does not select.
- `SetupResolved`: the last cycle of the window leaves a row of the setup experiment.
- `PromotedIsPersisted`: what hermes may buy of the momentum rule was approved by a
  review that is written; this one holds with overlap too.
- `StreakSurvives`: the number of API errors a cycle continues is that of the
  failures in a row before it, although killed cycles leave rows that never end.
- `BuysNeedUniverse`: neither portfolio buys before a selection of the day succeeded.

Limits the model shows and no property forbids: section 9.

## 7. The other parts

### HourlyWatch

The workflow of the hourly watch and the handler `_enqueue_hourly_panel` it posts the
snapshots of both portfolios to. `flow`, `tries`, `reply` are the executions of
n8n, `task` the handler threads of their calls, `panels` and `rows` the tables.
A call has a limit and is tried again while the handler of the try before it may
still run; a handler commits after every step and dies with the server. Whether the
anomalies are news is decided from the latest row of the day, and the row of this
check is written last.

| Code | Actions |
| --- | --- |
| nodes of the workflow | `Begin`, `Snapshots`, `SnapshotFails`, `Call`, `GiveUp`, `Done`, `Tell` |
| `_enqueue_hourly_panel`, one thread for each call | `Read`, `Decide`, `Record`, `Audit`, `Refuse`, `AnswerError` |
| the server and the calendar | `Restart`, `NextDay` |

`Anomalies` is `_hourly_anomalies` with what its fingerprint keeps of each: a
number of gaps rather than their names, a band of two percent rather than a return.

- `SuppressedIsQueued`: what a check leaves out as unchanged was enqueued that day.
- `AnalysedOnce`: the same anomalies are enqueued twice on a day only by checks that
  overlap, after a check whose row is missing, or after one that found something else.
- `FoundIsAnswered`: what an execution finds is enqueued, or its failure is reported
  (or the report itself is lost). Fairness: n8n goes on with an execution and the
  server with a request; calls have limits on both sides.

### AutomationRuns

The three runs with a lock (`/run-daily`, `/run-market-scan`, `/run-paper-cycle`) and
the tasks of `/workflow/...`. A run is a thread that goes through its stages (`at`);
any call of a stage, and of the handler of a failed stage, may fail (`Hit`), and what it
sent or wrote may have arrived all the same (`MaySend`, `MayWrite`). A task has no lock.
`Tasks` are the kinds of `_dispatch` that leave different traces: an analysis writes a
row of its own (`TaskAudited`, `TaskFailureAudited`) before that of the flow
(`FlowAudited`, `FlowFailureAudited`), a report sends a message, a claim that was made is
not audited. A write that fails replaces the answer by an error, or, of an error that
the server does not catch, ends the thread without one (`AnswerError`).

- `OneVerdict`: a run or a task never leaves a row that it succeeded beside one that it
  failed, nor a flow one that it was answered beside one of an error.
- `OneFailureIsSeen`: a run or a task in which one call failed is seen in the audit log
  or in a report: the handler does not rely on the stage that raised. The exception is
  the audit of a task that was done, of which only the answer tells.
- `LocksAreFreed`: no lock is held for ever. Fairness: every call of a run has a
  timeout, so its thread goes on.

### CandleCollection

Processes that collect candles through a client of their own. The client paces its
requests, learns the limit from the headers, fetches a token, and retries in three
loops (transport, 401, 429) of which only the first request takes a slot. The server
counts the requests of all processes; time is in quarters of a second. `own`,
`unheard` and `met` are history.

- `AloneNeverRefused`: a request is refused only in a window that another process
  used, or in which two requests of the process were counted without an answer.
- `FreshWhenAlone`: what a process reads after collecting is at least as new as what it
  received, unless another one ran beside it: the upsert lets the last writer
  win, and a slower process may write the older bar.

### PitCollection

The inputs a decision trusts to be complete: the collector process with its night and
evening runs, the operator's commands beside it, the filings and sessions of the
world, and the context of a decision. `ledger`, `events`, `covered`, `flow` are the
tables; `run` is the process. A run extends the ledger page by page, fetches
filings day by day, checks off the days before today, and adds the flow of a session
that is over; it may crash at every commit, be slow, and be started again.

| Code | Actions |
| --- | --- |
| `run_pit_collection`, `serve_pit_collector` | `Begin`, `StorePage`, `BeginEvents`, `StoreFilings`, `CheckOff`, `BeginFlow`, `CollectFlow`, `SkipFlow`, `FlowRaises`, `Crash`, `Restart` |
| `collect-official-data events` | `BeginCommand`, `CommandStores`, `CommandChecksOff`, `CommandEnds` |
| `collect-official-data universe`, `import-krx-flow-csv` | `Backfill`, `ImportFlow` |
| the clock and OpenDART | `Tick`, `Receive` |

The events command is a process of its own, `command`: it reads the sessions and the
days to leave out when it begins, then works with these from page to page, beside the
collector, and may end or die after any of them. A backfill may have stored any part of
its pages. That the exchange has the file of a session once the session is over is an
assumption about the operator (in `Operator`), not a check of the import. `Decision`
is `evaluate_setup` over `OfficialSetupContextFactory`: gate, flow, stars,
violations, and what either portfolio may arm.

- `NoMissedBlock`: a decision that is told there is no event has missed no block of a
  filing, for days the collector checked off itself. It leaves out rows that a command
  wrote last: without that exception the run violates it, by a command that read
  a day as open, writes its rows after the collector checked it off, and dies.
- `IndexIsDistance`: rows of flow numbered from the ledger and rows numbered by the
  calendar are as far apart as their sessions, over holidays.
- `PastDecisionIsFixed`: a decision of the past comes out the same from what is
  collected later, so a backtest sees what the morning saw. The exceptions in the
  property are real ones: days checked off and rows written by the operator's command,
  days without a session in between, and a run that began before the decision and stores
  its flow after it.

### Replay

The event loop of the portfolio replay (orders of a timestamp against one cash
balance and its limits, then crossings, then a snapshot), the replay of one symbol,
and the exit variants, stepped together over the same bars. Numbers are whole and
chosen so that only the divisions round that round in the code. Buys are counted by
the date of a timestamp and snapshots by that date in Seoul; the bars are of the
Korean session, for which the two are the same, so the model has one day.

- `BooksBalance`: timeline and report, computed in two ways, agree with the initial
  cash and what was earned; cash and limits hold whatever was refused.
- `ReplaysAgree`: three implementations of the crossing rule hold, pend and earn the
  same bar by bar where nothing was refused, and so do their reports.
- `ExitsAreTaken`: after a bar nothing is still held that its rule sells.

## 8. Runs

| Run | Instance | Shows |
| --- | --- | --- |
| `paper_serial` | 2 symbols of one cluster, 1 runner, all faults, 2 days, legacy positions | the safety properties and the refinement |
| `paper_live` | 2 clusters, no crash | `PlansResolve` |
| `paper_overlap` | 2 runners that may be killed, 1 day | `NoDoubleEntry` |
| `panel_safety` | a daily and an hourly panel, 2 runners, 1 loss | the safety properties |
| `panel_live` | two roles, one runner at a time, 2 losses | `PanelsResolve` |
| `exit_session` | both entries, 2 sessions of 4 minutes, 2 prices, late bars and refusals | the safety and action properties of exits and reclaims |
| `workflow_session` | 2 executions that may overlap, 1 symbol, all faults | the safety and action properties of a session |
| `hourly_watch` | 3 executions of two calls: two at a time with one fault, or one at a time on two days with two faults | its three properties |
| `automation_runs` | 2 requests of any kind, runs or tasks, 2 failing calls each, 1 restart | its three properties |
| `candle_collection` | 2 processes started 3 times, 2 symbols, 2 faults, windows of one second with a limit of 2 | its two properties |
| `pit_collection` | 4 days with a holiday, a blocking and an announcing filing, one fault, one command of at most two days | its three properties |
| `replay` | 2 symbols, 6 timestamps in days of 3, 4 shapes of bars, two sets of limits | its three properties |

Bounds. Two symbols and budgets of three lots with two per trade are the
smallest instance in which entries compete for heat and cash, and cash can run
out by losses. Two days let a plan outlive its day, a structure exit happen and
daily ids repeat by symbol. Two runners are what overlap needs. Symmetry is used
only for symbols of one cluster, for runners and for processes, in runs without
liveness. Deadlock is not checked where the system may rest: an empty queue with idle
runners, a session, a day or a supply of requests that is used up.

Four minutes with a page of two hold an entry in each window, a trigger and its next
bar, a gap that no page closes, and a second position of the session; the second
session has pending exits and structure exits of the first. `ArmUntil` 3, a further
page of one minute, reclaims from minute 2 and one bar that must hold let an opening
bar be fetched late, and two reclaims compete in a session. One symbol is in or out
of the selection, the pool, either portfolio and the review, which is what the
properties of the workflow tell apart; two executions let one find what another left
behind or is still doing. Both portfolios start with the same positions
(`SameOvernight`).

The watch needs two tries to have a thread that outlives its caller, three executions
to have a finding change and come back, and two days for rows that must not be
looked at; the two `Bounds` keep overlap and days apart, which no property combines.
A limit of two requests in a window is the least that a process can keep on its own
and two cannot; seven quarters of a second hold three windows' ends and a retry. Four
days with a holiday on the second hold a session, its decision after a holiday, the
end of the block and a run that was missed. One operator's command runs at a time, over
today, yesterday or the day before, at most two days: enough to be overtaken by a run of
the collector on one day and to go on to the next. Six timestamps with windows of one and two
closes hold a rise, a fall and a second trade, on two days.

## 9. Where the documents and the code differ, and limits

Differences.

- `docs/automatic-trading-scenario.md:323` promises 409 for a second request; the
  `/workflow/paper-*` endpoints that n8n uses take no lock, so cycles of one
  portfolio can overlap. All safety properties of `PaperCycle` but
  `NoDoubleEntry` are about cycles that do not. Among what an overlap does: marking
  an exit as pending finds its plan gone and raises `KeyError`.
- `docs/paper-cycle-flow.md:155-156` promises that a fill that cannot be stored
  removes its plan; a database error leaves `_run_started` before the plans are
  removed. The next cycle that evaluates the symbol removes the plan as stale
  (`ClearStalePlan`); until then its heat is taken, and the plan of a symbol that
  is never selected again stays.
- `docs/daily-analysis-panel.md:122` expects the stored judgment to be the one that
  was sent; after a re-claim the first stored and the last sent differ.
- `docs/paper-cycle-flow.md:159-165` has the exit rules start with the position; the
  scan covers the bars of the session before the entry too. The stop of a momentum
  entry is the low of such a bar, so the next cycle sells the position whatever
  has happened since.
- `docs/paper-cycle-flow.md:190` has the whole research pool refilled just before the
  first evaluation; the symbols of the rule cycle are left out (`cli.py:2584`)
  and collected only after it.
- `docs/decisions.md:173-190` (ADR-005) has the official inputs fail closed; the
  command `collect-official-data events` asks no calendar, so filings of the last days
  are stored without a session to come, and their days are checked off for good.
  `NoMissedBlock` does not hold of those days. Nor does it hold of rows the command wrote
  last: it reads the covered days and the sessions once (`official_data.py:1369-1382`)
  and commits page by page (1454), so it can overwrite the rows of a day the collector
  has checked off meanwhile with `available_at` NULL (694-700) and die before its own
  coverage row (1459). The day then looks complete and its filing is not seen.

Limits, which the models show and no property forbids.

- The last cycle of a session is the cron's at 15:20: a stop touched after it is not
  looked at, that day or the next.
- A later position of the same symbol and session can find its exit id used.
- Any error of one symbol ends the rule process with exit code 3, and the workflow
  then runs no hermes cycle: its stops wait for the next execution.
- A gap in the rows of the flow makes `summarize_flow` raise `ValueError`, and the cycle
  then skips the symbol whole, its stop included, until the gap has left the window.
  Such a gap comes from an outage that is longer than what the flow service answers
  for, or from a ledger with a hole longer than the lookback.
- A review is for the candidates of the moment and is used for the whole session: a
  later evaluation can select a candidate it never saw, which then stays
  unreviewed. The row of the momentum experiment is that of the first evaluation,
  not of the one hermes buys from.
- Overlapping executions can overwrite one another's count of errors.
- Filings received on days without a session, between the signal session and the
  decision, are not covered by the check of the signal session.

## 10. Proofs

`PaperCycle_proofs` begins with what sums over a set do (finite, monotone, additive over
disjoint sets), and proves:

- `TypeCorrect`, for any number of cycles;
- `EntriesAreSingle` (`NoDoubleEntry`), for any number of cycles that overlap;
- under the assumption `Serialized` (at most one cycle process of the portfolio):
  `CycleInvariant`, `PositionsStayManaged`, `CashStaysCovered`,
  `LegacyStaysClosed`, `HeatStaysWithinBudget`, `CyclesImplementBook`, for every
  set of symbols and clusters, every budget and every set of faults.

`PositionsManaged` is not inductive: it does not say that a `BUY` carried in memory
is for a symbol that is flat, nor that a `SELL` is for the quantity held. `CycleInv`
adds, stage by stage, what the cycle's memory says of the ledger: `BuyInv` (an
armed entry is flat and, once stored, has a plan of its size), `SellInv` (an exit
has the position's whole quantity until it is filled), `NoneInv`, `StageInv` (what
`todo` contains), `LedgerInv` and `CashInv` (reserved cash is covered). The heat
theorem uses `HeatInv`: stored heat plus what is armed and not yet stored fits the
budgets. Each action has a lemma; the last steps combine them with PTL.
`NoDoubleEntry` needs no serial cycles: `EntryInv` says that an entry a cycle carries is of
the window in progress, and that its symbol is flat until the id of that entry is among
the fills (`WindowInv`); `KeyInv` that every entry, carried or filled, has the key of a
window and that no exit has the kind of an entry, so that there is one id for a symbol
in a window. The second of two cycles that carry the same entry meets that id; one that
decides later meets the position, or after its exit the id.

`PanelQueue_proofs` proves, for every set of panels, runners, roles and faults,
and any bound of losses: `PanelTypeCorrect`, `ReportedStaysComplete`,
`SucceededStaysReported`, `AlertedStaysFailed`, `EndsAreFinal`. They rest on
`PanelInv`, which says what a request in progress has already committed:
`CompleteInv` (a completion past its first commit has every opinion stored, past
its second the judgment sent; nothing takes either back) and `AlertInv` (only the
one failure request that ended a running panel is about to alert, and nobody has
alerted before it). `RunnerMoves` treats the steps that neither claim, report,
end nor alert in one lemma.

`Exits_proofs` proves about `PositionExit`, for sessions of any length, any prices, windows, pages
and faults: `ExitTypeCorrect`, `FirstStopStaysHonored`, `SalesFollowTriggers`,
`WaitingExitsStayNew`, `PendingStaysKept`, `ReclaimStaysFixed`. `FirstStopHonored` is
inductive only with `ExitInv`: no exit id is of a bar still to come nor of the newest
one (`ExitsInv`), so a mark always has a new id; and a held plan was opened after
every exit on a daily bar (`PlanInv`). `DecisionFacts` states what a decision can be
and is cited by every step. `ReclaimIsFixed` rests on `MissedIsGone`: a traded bar
that is missing before a stored one is out of reach of the pages to come, and nothing
further back is asked for once the opening bar is there, without which no reclaim is
reported. So a cycle adds only newer bars, which change no first reclaim
(`NewerBarsKeepReclaim`).

`IntradayWorkflow_proofs` proves all properties of its run, for every set of symbols,
runners and faults, and any number of executions: `WorkflowTypes`;
`PromotionsArePersisted` from `Approved` and `SetupIsResolved` from `Evaluated`, each
inductive for one runner; `BuysFollowSelection` from `Selected` (past the selection an
execution that may buy has found one). Without overlap, `OneRowPerSession` and
`HeldIsManaged` rest on `AloneInv`: one execution at most is at work (`Alone`), what it
has looked up is still so (`Looked`), the tables have at most one row (`Once`) and
its symbols cover what is held (`Covered`). `StreakIsKept` rests on `StreakInv`: each
cycle has one row, of an execution that was started (`RowsInv`), and the cycle in
progress is the newest and carries the streak of those before it (`Begun`); `RowEnds`,
`NewestIsLatest` and `StreakGrows` are the facts about sets of rows.

`AutomationRuns_proofs` proves `RunsHaveOneVerdict`, `SingleFailureIsSeen` and
`OneRunOfAKind` from `RunInv`: types, who holds a lock (`Locked`), which rows can be
there at each step of a run or a task (`Verdict`), and, of a request with one failed call,
where its trace is or will be (`Seen`). `Changes` is what every step of a request has in
common, so that one lemma (`ChangesKeep`) says what it leaves alone.

`HourlyWatch_proofs` proves `SuppressedWasQueued` from `WatchInv`:
an execution's panel is of what it found (`OwnPanel`), rows with anomalies have a panel
(`RowsQueued`), and so has the row a handler has read (`SeenQueued`), for what was found
cannot change once a handler runs (`Early`). `EnqueuedOnce` (`AnalysedOnce`) is about
two executions that did not overlap. `OnceInv` has what the second one relies on:
executions begin in the order of their numbers and the first is over (`InOrder`), each row
is of what its execution found (`OwnRow`), and what a handler has read is as new as the
rows that were there when its execution began (`Fresh`).

`CandleCollection_proofs` proves `AloneReadsFresh` from `FreshInv`: of a process that met
no other the stored bars are those it received, but for the ones it is about to write
(`NotNewer`); it needs that the request in progress keeps its symbol (`CallTyped`).
`AloneIsAnswered` (`AloneNeverRefused`) rests on `PaceInv`: unless another process uses the
window or two requests got no answer, there is room for this request and for one more
without an answer (`Room`), or the process is held until the end of the window, or is
about to be by the answer it reads (`Held`). Its hypothesis is a limit of at least two:
the pace leaves a window with one request to spare, which a limit of one does not have,
so there one request without an answer has its repetition refused. The limit of the API
is 10 (`tests/test_client.py`).

`PitCollection_proofs` proves, for every calendar of sessions, delays, lookback, filings,
crashes and commands: `CollectedDaysAreWhole` (`PitInv`), `BlocksAreSeen`
(`NoMissedBlock`), `PastStays` (`PastDecisionIsFixed`) and `FlowIsConsecutive`
(`IndexIsDistance`). `NoMissedBlock` is not inductive: it looks at the rows at the time
of a decision only. `PitInv` says of every day the collector checked off that it was
over, that each of its filings has the row a run made that knew the sessions to come, or one
a command wrote since (`Kept`), and that the days it looks back on were checked off
before (`CoverOk`); of a stored filing, that it becomes available after its receipt
(`EventOk`); and of the run in progress, that the days before its chunk are checked off
and what it has seen of the chunk is stored or about to be (`RunOk`). For
`PastDecisionIsFixed` each table is shown to keep what a past decision reads: events (a
late filing is of a day that was not checked off), coverage, and flow.
`FlowInv` says that every row of flow is numbered from the first session of the ledger
it was made with; numbers are cardinalities of sets of sessions, whose sums are counted
with the library's facts on finite sets. The proof showed one thing the model had to
say: the price archive has a session after 13:00 of the next one, so never the last
session of the calendar (`Published`), and the calendar is finite (`PitAssumption`).

`Exits_proofs` proves about `Replay`, for any symbols, bars, windows, rates and limits:
`ReplayBooksBalance` (`BooksBalance`), `ReplayAgreement` (`ReplaysAgree`) and
`ReplayExitsAreTaken` (`ExitsAreTaken`).

- Induction. The library's induction theorems cannot be instantiated, so `LeastNumber`
  and `UpTo` state it with a set in the place of the operator: a set that has 0 and the
  successor of each of its members up to `N` has all of `0..N`. With it `SumsExist`,
  `SumsOf` and `OrdersAre` show that the recursive functions `PartialSums` and `Orders`
  are what their equations say. `TotalChange` says how a total over the symbols moves
  with one term, `WindowMoves` how the sum of the last closes moves with the next one.
- `ReplayInv`, the inductive invariant. The properties compare sums, which a step says
  nothing of by themselves: `BookInv` says where cash comes from, position by
  position; `TapeInv` that the running sums are sums of the closes still kept, so that
  the three implementations see the same crossing (`CrossingIs`); `Rule` that a pending
  order can be executed but for cash and limits, which is why a sale is never lost;
  `Agrees` and `Mirrors` compare the portfolio with the replay of one symbol and that
  with the counterfactual of the dead cross; the last conjunct of `SymbolInv` compares
  the deepest falls, for which a snapshot at a timestamp without a bar of the symbol
  must change neither peak nor fall (`Seen`, `DrawnIs`).
- A timestamp fills all orders before it values the book: `OpenedIs` gives, from
  `OrderKeepsBooks`, what the orders leave of the books and of each symbol
  (`Outcome`); `StepIs` what the whole timestamp does, and `SymbolMoves` and
  `DeepestMoves` that the invariant survives it.
- The reports are compared in `ReportIs`, `SoleReport` and `MatrixIs`.

`ReplayAssumption` is what the code checks before it replays (positive prices within
their bar, windows in order, a slippage below 100 %, positive limits), that `Names`
lists each symbol once, and that a sale costs no more than it brings, since otherwise
it could overdraw the cash: the rates of `toss_trade_costs` are fixed at a fraction of
a percent.

The assumptions are those the modules declare of their constants, and TLC evaluates
each of them.

Only model-checked: the liveness properties (`PlansResolve`, `PanelsResolve`,
`FoundIsAnswered`, `LocksAreFreed`), since liveness under fairness is out of the
prover's reach.

## 11. Not modelled

`PROJECT.json` gives the status of every component. Left out:

- arithmetic without state, with unit tests of its own: the price setups and
  rankings on daily candles, clusters, position sizes in money, valuations, the daily
  baseline and the loss limits (free choices of the models), the rates and ratios of
  the reports, and the walk-forward selection over finished replays;
- what no decision reads: financial statements, the availability of universe rows,
  the migration of the SQLite database;
- read-only views (timeline, MCP evidence, funnel, web) and formatting (CSV, reports,
  Telegram texts);
- the market-scan, daily and risk workflows as n8n graphs, which are chains of single
  calls (the server's side of their calls is in `AutomationRuns`); the legacy
  moving-average cycle; the afternoon source of the universe;
- agents, Alertmanager, the brokerage and the data services, modelled only as far as
  the code's handling of their failures.
