---------------------------- MODULE HourlyWatch ----------------------------
(***************************************************************************)
(* The hourly market watch: the workflow toss-trader-hourly-watch.json and *)
(* the handler _enqueue_hourly_panel of automation.py that it calls.       *)
(*                                                                         *)
(* An execution of the workflow reads the snapshots of both portfolios and *)
(* posts them, up to MaxTries times, each time with a limit it waits for.  *)
(* A handler is a thread of the automation server: it goes on when the     *)
(* workflow gives up on it, commits after every step, and dies with the    *)
(* server.  It derives the anomalies of the snapshots, reads the latest    *)
(* row of the watch, enqueues a panel if the anomalies are not those of    *)
(* that row, and only then records a row of its own.                       *)
(***************************************************************************)
EXTENDS Integers, Sequences, FiniteSets

CONSTANTS
  MaxExecs,      \* bound: executions of the workflow, scheduled or by hand
  Portfolios,
  Benchmarks,    \* symbols whose session return stands for the market
  Stocks,        \* the watched symbols
  Lead,          \* the benchmark the others are compared with, 069500
  Observations,  \* what the snapshots may show
  MaxTries,      \* maxTries of the enqueue node
  MaxDays,       \* bound: business dates
  Bounds         \* bounds of a behaviour: the executions that run at the same time,
                 \* the calls that fail or are not answered in time, and the days

ASSUME WatchAssumption ==
  /\ Lead \in Benchmarks /\ Benchmarks \cap Stocks = {}
  /\ {MaxExecs, MaxTries, MaxDays} \subseteq Nat
  /\ Bounds \subseteq [starts : Nat, faults : Nat, days : 1..MaxDays]

Execs == 1..MaxExecs  \* n8n numbers its executions

VARIABLES
  today,     \* the business date
  flow,      \* execution -> where the workflow is
  date,      \* execution -> its business date
  found,     \* execution -> the identity of the anomalies its snapshots show
  tries,     \* execution -> how often it has called the handler
  reply,     \* execution -> what the latest call came to
  task,      \* execution -> try -> where the handler is and the row it read
  panels,    \* the panels enqueued, in order
  rows,      \* the rows of the watch, by finished_at
  overlaps,  \* history: pairs of executions that ran at the same time
  bound,     \* the bounds of this behaviour
  faults

serverVars == <<task, panels, rows>>
flowVars == <<flow, date, found, tries, reply>>
vars == <<today, flowVars, serverVars, overlaps, bound, faults>>

-----------------------------------------------------------------------------
(* What the snapshots show.  Returns are whole percents since the open.     *)

Missing == -100  \* a return that is not a number

Size(r) == IF r < 0 THEN -r ELSE r

\* Bands of two percent, up or down; a band is named by its lower end.
Bucket(r) == <<IF r >= 0 THEN 1 ELSE -1, (Size(r) \div 2) * 2>>

\* An anomaly as far as its fingerprint tells it apart from another one.
Anomaly(kind, of, detail) == [kind |-> kind, of |-> of, detail |-> detail]

Rated(o, S) == {s \in S : o.rate[s] # Missing}

\* With exit code 0 no symbol failed, but errors of the API may be counted.
OperationalErrors(o) ==
  {Anomaly("operational-error", <<p>>, <<o.api[p]>>) : p \in {q \in Portfolios : o.api[q] > 0}}

QualityGaps(o) ==
  {Anomaly("data-quality", <<p>>, <<o.errors[p], o.missing[p]>>) :
     p \in {q \in Portfolios : o.errors[q] > 0 \/ o.missing[q] > 0}}

\* The symbols are listed in the anomaly, but only their number identifies it.
CoverageGap(o) ==
  IF o.gaps = {} THEN {} ELSE {Anomaly("minute-coverage-gap", <<>>, <<Cardinality(o.gaps)>>)}

BenchmarkMoves(o) ==
  {Anomaly("benchmark-move", <<b>>, Bucket(o.rate[b])) :
     b \in {c \in Rated(o, Benchmarks) : Size(o.rate[c]) >= 2}}

\* The least and the greatest return, if they are three percent apart.
Divergence(o) ==
  LET R == Rated(o, Benchmarks)
      low == CHOOSE b \in R : \A c \in R : o.rate[b] <= o.rate[c]
      high == CHOOSE b \in R : \A c \in R : o.rate[c] <= o.rate[b]
  IN  IF R # {} /\ o.rate[high] - o.rate[low] >= 3
      THEN {Anomaly("benchmark-divergence", <<low, high>>, Bucket(o.rate[high] - o.rate[low]))}
      ELSE {}

\* The return of the leading benchmark, of another one, or none.
Baseline(o) ==
  CASE o.rate[Lead] # Missing -> o.rate[Lead]
    [] Rated(o, Benchmarks) # {} -> o.rate[CHOOSE b \in Rated(o, Benchmarks) : TRUE]
    [] OTHER -> 0

\* Stocks nobody bought that outran the market, with the reasons of the day.
Missed(o) ==
  {Anomaly("hindsight-review-candidate", <<s>>, Bucket(o.rate[s]) \o <<o.reason[s]>>) :
     s \in {t \in Rated(o, Stocks) \ o.bought :
              o.rate[t] >= 3 /\ o.rate[t] - Baseline(o) >= 2}}

\* Without the market context only the portfolios are looked at.
Anomalies(o) ==
  OperationalErrors(o) \cup QualityGaps(o) \cup
  IF ~o.market THEN {Anomaly("market-context-unavailable", <<>>, <<>>)}
  ELSE CoverageGap(o) \cup BenchmarkMoves(o) \cup Divergence(o) \cup Missed(o)

-----------------------------------------------------------------------------
(* The tables *)

NoRow == [day |-> 0, exec |-> 0, stage |-> "none", found |-> {}]

\* Mutant: the latest row of any day counts.
LatestOfAnyDay(d) == IF rows = <<>> THEN NoRow ELSE rows[Len(rows)]

\* Mutant: the earliest row of the day, as the order is the other way round.
Earliest(d) ==
  LET Of == {i \in 1..Len(rows) : rows[i].day = d}
  IN  IF Of = {} THEN NoRow ELSE rows[CHOOSE i \in Of : \A j \in Of : i <= j]

\* The latest row of the day.
Latest(d) ==
  LET Of == {i \in 1..Len(rows) : rows[i].day = d}
  IN  IF Of = {} THEN NoRow ELSE rows[CHOOSE i \in Of : \A j \in Of : j <= i]

PanelOf(e) == {i \in 1..Len(panels) : panels[i].exec = e}

\* INSERT ... ON CONFLICT (execution_id) DO NOTHING
Enqueued(e) ==
  IF PanelOf(e) # {} THEN panels
  ELSE Append(panels, [exec |-> e, day |-> date[e], found |-> found[e]])

NoTask == [at |-> "none", seen |-> NoRow]
Running == {"read", "decide", "row", "audit", "refused"}

TaskRuns(e) == \E k \in 1..MaxTries : task[e][k].at \in Running
Working == {"snapshots", "enqueue", "telling"}
Active(e) == flow[e] \in Working \/ TaskRuns(e)

Fault == /\ faults < bound.faults
         /\ faults' = faults + 1

-----------------------------------------------------------------------------
(* The workflow *)

Begin(e) ==
  /\ flow[e] = "waiting"
  /\ \A f \in Execs : f < e => flow[f] # "waiting"
  /\ Cardinality({f \in Execs : Active(f)}) < bound.starts
  /\ flow' = [flow EXCEPT ![e] = "snapshots"]
  /\ date' = [date EXCEPT ![e] = today]
  /\ overlaps' = overlaps \cup ({f \in Execs : Active(f)} \X {e})
  /\ UNCHANGED <<today, found, tries, reply, serverVars, bound, faults>>

\* The market is open and both snapshots end with exit code 0.
Snapshots(e) ==
  /\ flow[e] = "snapshots"
  /\ \E o \in Observations : found' = [found EXCEPT ![e] = Anomalies(o)]
  /\ flow' = [flow EXCEPT ![e] = "enqueue"]
  /\ UNCHANGED <<today, date, tries, reply, serverVars, overlaps, bound, faults>>

\* A snapshot, or the question for the session, ends with an error.
SnapshotFails(e) ==
  /\ flow[e] = "snapshots" /\ Fault
  /\ flow' = [flow EXCEPT ![e] = "telling"]
  /\ UNCHANGED <<today, date, found, tries, reply, serverVars, overlaps, bound>>

\* The first call, or the next one after an error.
Call(e) ==
  /\ flow[e] = "enqueue" /\ tries[e] < MaxTries
  /\ reply[e] \in {"none", "error"}
  /\ tries' = [tries EXCEPT ![e] = @ + 1]
  /\ reply' = [reply EXCEPT ![e] = "pending"]
  /\ task' = [task EXCEPT ![e][tries[e] + 1] = [NoTask EXCEPT !.at = "read"]]
  /\ UNCHANGED <<today, flow, date, found, panels, rows, overlaps, bound, faults>>

\* No answer within the limit; the handler goes on.
GiveUp(e) ==
  /\ flow[e] = "enqueue" /\ reply[e] = "pending" /\ Fault
  /\ reply' = [reply EXCEPT ![e] = "error"]
  /\ UNCHANGED <<today, flow, date, found, tries, serverVars, overlaps, bound>>

Done(e) ==
  /\ flow[e] = "enqueue"
  /\ \/ /\ reply[e] = "ok"
        /\ flow' = [flow EXCEPT ![e] = "done"]
     \/ /\ reply[e] = "error" /\ tries[e] = MaxTries
        /\ flow' = [flow EXCEPT ![e] = "telling"]
  /\ UNCHANGED <<today, date, found, tries, reply, serverVars, overlaps, bound, faults>>

\* The failure is posted to /workflow/report-failure, by the node of the
\* workflow or by the error workflow, and reaches Telegram or not.
Tell(e) ==
  /\ flow[e] = "telling"
  /\ \/ /\ flow' = [flow EXCEPT ![e] = "told"]
        /\ UNCHANGED faults
     \/ /\ Fault
        /\ flow' = [flow EXCEPT ![e] = "silent"]
  /\ UNCHANGED <<today, date, found, tries, reply, serverVars, overlaps, bound>>

NextDay ==
  /\ today < bound.days
  /\ \A e \in Execs : ~Active(e)
  /\ today' = today + 1
  /\ UNCHANGED <<flowVars, serverVars, overlaps, bound, faults>>

-----------------------------------------------------------------------------
(* The handler: a thread for each call *)

\* The answer reaches the workflow only while it waits for this call.
Answer(e, k, r) ==
  reply' = [reply EXCEPT ![e] = IF k = tries[e] /\ @ = "pending" THEN r ELSE @]

\* A step is taken; what was read is needed until the row is written.
To(e, k, s) ==
  task' = [task EXCEPT ![e][k] = [at |-> s, seen |-> IF s = "row" THEN @.seen ELSE NoRow]]

Read(e, k) ==
  /\ task[e][k].at = "read"
  /\ task' = [task EXCEPT ![e][k] = [at |-> "decide", seen |-> Latest(date[e])]]
  /\ UNCHANGED <<today, flowVars, panels, rows, overlaps, bound, faults>>

\* Mutant: an anomaly is news only on a day without one.
NewsOfDay(e, k) == found[e] # {} /\ task[e][k].seen = NoRow

News(e, k) == found[e] # {} /\ task[e][k].seen.found # found[e]

Decide(e, k) ==
  /\ task[e][k].at = "decide"
  /\ panels' = IF News(e, k) THEN Enqueued(e) ELSE panels
  /\ To(e, k, "row")
  /\ UNCHANGED <<today, flowVars, rows, overlaps, bound, faults>>

Stage(e, k) == IF found[e] = {} THEN "no-anomaly"
               ELSE IF News(e, k) THEN "queued" ELSE "unchanged-anomaly"

RowOf(e, k) == [day |-> date[e], exec |-> e, stage |-> Stage(e, k), found |-> found[e]]

Record(e, k) ==
  /\ task[e][k].at = "row"
  /\ rows' = Append(rows, RowOf(e, k))
  /\ To(e, k, "audit")
  /\ UNCHANGED <<today, flowVars, panels, overlaps, bound, faults>>

\* The row of the request is written last, and 200 is answered.
Audit(e, k) ==
  /\ task[e][k].at = "audit"
  /\ To(e, k, "ended")
  /\ Answer(e, k, "ok")
  /\ UNCHANGED <<today, flow, date, found, tries, panels, rows, overlaps, bound, faults>>

\* The database refuses a step: the request is audited as failed, or not
\* even that, and answers an error.
Refuse(e, k) ==
  /\ task[e][k].at \in {"read", "decide", "row", "audit"} /\ Fault
  /\ To(e, k, "refused")
  /\ UNCHANGED <<today, flowVars, panels, rows, overlaps, bound>>

AnswerError(e, k) ==
  /\ task[e][k].at = "refused"
  /\ To(e, k, "ended")
  /\ Answer(e, k, "error")
  /\ UNCHANGED <<today, flow, date, found, tries, panels, rows, overlaps, bound, faults>>

\* The automation server restarts: its threads end, its callers get an error.
Restart ==
  /\ \E e \in Execs : TaskRuns(e)
  /\ Fault
  /\ task' = [e \in Execs |-> [k \in 1..MaxTries |->
                IF task[e][k].at \in Running THEN [NoTask EXCEPT !.at = "ended"] ELSE task[e][k]]]
  /\ reply' = [e \in Execs |-> IF reply[e] = "pending" THEN "error" ELSE reply[e]]
  /\ UNCHANGED <<today, flow, date, found, tries, panels, rows, overlaps, bound>>

-----------------------------------------------------------------------------
(* The specification *)

Init ==
  /\ today = 1
  /\ flow = [e \in Execs |-> "waiting"]
  /\ date = [e \in Execs |-> 1]
  /\ found = [e \in Execs |-> {}]
  /\ tries = [e \in Execs |-> 0]
  /\ reply = [e \in Execs |-> "none"]
  /\ task = [e \in Execs |-> [k \in 1..MaxTries |-> NoTask]]
  /\ panels = <<>> /\ rows = <<>>
  /\ overlaps = {} /\ bound \in Bounds /\ faults = 0

Workflow(e) == Snapshots(e) \/ Call(e) \/ Done(e) \/ Tell(e)
Handler(e, k) ==
  Read(e, k) \/ Decide(e, k) \/ Record(e, k) \/ Audit(e, k) \/ AnswerError(e, k)

Next ==
  \/ \E e \in Execs : Begin(e) \/ Workflow(e) \/ SnapshotFails(e) \/ GiveUp(e)
  \/ \E e \in Execs, k \in 1..MaxTries : Handler(e, k) \/ Refuse(e, k)
  \/ NextDay \/ Restart

\* n8n goes on with an execution it began, the server with a request.
Fairness ==
  /\ \A e \in Execs : WF_vars(Workflow(e))
  /\ \A e \in Execs, k \in 1..MaxTries : WF_vars(Handler(e, k))

Spec == Init /\ [][Next]_vars /\ Fairness

-----------------------------------------------------------------------------
(* Properties *)

\* A check whose anomalies are left out as unchanged repeats anomalies that a
\* panel of the same business date was enqueued for, whichever calls were
\* retried, overlapped or lost: nothing is suppressed that nobody analyses.
SuppressedIsQueued ==
  \A i \in 1..Len(rows) :
    rows[i].stage = "unchanged-anomaly" =>
      \E j \in 1..Len(panels) : panels[j].day = rows[i].day /\ panels[j].found = rows[i].found

\* The same anomalies are enqueued a second time on a day only when the check
\* ran beside the one that enqueued them, when that one never got its row, or
\* when a check in between found something else.
AnalysedOnce ==
  [][\A p \in (1..Len(panels')) \ (1..Len(panels)) : \A q \in 1..Len(panels) :
       (panels'[p].day = panels[q].day /\ panels'[p].found = panels[q].found) =>
         \/ <<panels[q].exec, panels'[p].exec>> \in overlaps
         \/ <<panels'[p].exec, panels[q].exec>> \in overlaps
         \/ ~\E i \in 1..Len(rows) : rows[i].exec = panels[q].exec
         \/ \E i, j \in 1..Len(rows) :
              /\ i < j /\ rows[i].exec = panels[q].exec
              /\ rows[j].day = panels[q].day /\ rows[j].found # panels[q].found]_vars

\* What an execution finds ends as a panel of its day with these anomalies, or
\* its failure is reported, unless the report is lost as well.
FoundIsAnswered ==
  \A e \in Execs :
    (flow[e] = "enqueue" /\ found[e] # {}) ~>
      \/ flow[e] \in {"told", "silent"}
      \/ \E i \in 1..Len(panels) : panels[i].day = date[e] /\ panels[i].found = found[e]
=============================================================================
