-------------------------- MODULE IntradayWorkflow --------------------------
(***************************************************************************)
(* One session of the n8n workflow "Rule vs Hermes": each execution runs a *)
(* cycle of the rule portfolio, which resolves the universe, evaluates the *)
(* shadow experiments and has their candidates reviewed, and then a cycle  *)
(* of the hermes portfolio on the rule cycle's snapshot (_run_paper_cycle  *)
(* of src/src/toss_trader/cli.py, resolve of universe.py, run of cycle.py, *)
(* review_momentum_shadow_once of advisor.py).                             *)
(*                                                                         *)
(* PaperCycle has what a cycle does to its ledger; here a cycle trades in  *)
(* one step.                                                               *)
(***************************************************************************)
EXTENDS Naturals, FiniteSets

CONSTANTS
  Symbols,      \* the ranked symbols
  Runners,      \* executions in progress at the same time
  Overnight,    \* what rule and hermes may hold when the day begins
  MaxSelected,  \* candidates of the momentum rule, MAX_SELECTED
  MaxRuns,      \* bound: executions of the session
  Faults        \* which of {"api", "hermes", "kill"} may happen

ASSUME WorkflowAssumption ==
  /\ IsFiniteSet(Symbols) /\ MaxSelected \in Nat /\ MaxRuns \in Nat
  /\ Faults \subseteq {"api", "hermes", "kill"}

Portfolios == {"rule", "hermes"}

ASSUME OvernightAssumption == Overnight \subseteq [Portfolios -> SUBSET Symbols]

VARIABLES
  phase,       \* the time of the day
  started,     \* executions so far
  overlapped,  \* two executions were in progress at once
  universe,    \* the succeeded dynamic_universe_runs
  setup,       \* the audit rows of setup-parameter-shadow
  momentum,    \* the audit rows of momentum-shadow
  advice,      \* the succeeded audit rows of momentum-shadow-advice
  rows,        \* paper_cycle_runs
  held,        \* the open positions of each portfolio
  run          \* the execution of each runner

db == <<universe, setup, momentum, advice>>
books == <<rows, held>>
vars == <<phase, started, overlapped, db, books, run>>

(* Phases: 08:35, 09:00-09:59, 10:00, 10:01-10:04, 10:05.  Left out are the *)
(* cycles of the later day, which only manage what is held.                *)
Prepare == 0
Opening == 1
Ten == 2
Between == 3
Last == 4

InContext(at) == Opening <= at /\ at <= Last
InSelection(at) == Ten <= at /\ at <= Last
InHunterWindow(at) == Between <= at /\ at <= Last

Stages == {"idle", "resolve", "refresh", "context", "setup", "momentum",
           "review", "asking", "record", "begin", "trade", "finish", "handoff"}

\* What an execution carries in memory.
Fresh == [pc |-> "idle", at |-> Prepare, no |-> 0, portfolio |-> "rule",
          symbols |-> {}, collect |-> {}, newBuys |-> TRUE,
          ready |-> FALSE, pool |-> {}, dueSetup |-> FALSE, dueMomentum |-> FALSE,
          selected |-> {}, approved |-> {}, previous |-> 0]

At(r, stage) == run[r].pc = stage
End(r) == run' = [run EXCEPT ![r] = Fresh]

-----------------------------------------------------------------------------
(* What the tables say *)

\* latest_selected_between and latest_candidates_between, ordered by the time
\* of the execution.
Latest(S) == CHOOSE u \in S : \A v \in S : v.no <= u.no

\* Mutant: a run that never ended counts, with its default of no errors.
LatestErrorsAny(p) ==
  LET known == {row \in rows : row.portfolio = p}
  IN IF known = {} THEN 0 ELSE Latest(known).errors

\* latest_consecutive_api_errors
LatestErrors(p) ==
  LET known == {row \in rows : row.portfolio = p /\ row.ended}
  IN IF known = {} THEN 0 ELSE Latest(known).errors

\* Mutant: the table is not looked at.
InsertAlways(table, row) == table \cup {row}

\* The audit rows of a session are looked at before one is written (here in
\* one step: overlapping executions could both find none).
InsertOnce(table, row) == IF table = {} THEN {row} ELSE table

-----------------------------------------------------------------------------
(* The universe of the rule cycle *)

\* n8n starts an execution whatever became of the last one.
Start(r) ==
  /\ At(r, "idle") /\ started < MaxRuns
  /\ started' = started + 1
  /\ overlapped' = (overlapped \/ \E q \in Runners : ~At(q, "idle"))
  /\ run' = [run EXCEPT ![r] = [Fresh EXCEPT !.pc = "resolve", !.at = phase,
                                             !.no = started + 1]]
  /\ UNCHANGED <<phase, db, books>>

\* Mutant: what is held is added only to a new selection.
ReadUniverseAlone(r) ==
  /\ At(r, "resolve")
  /\ run' = IF universe = {}
            THEN [run EXCEPT ![r].pc = "refresh", ![r].symbols = held["rule"]]
            ELSE [run EXCEPT ![r].pc = "context",
                             ![r].symbols = Latest(universe).selected,
                             ![r].collect = Latest(universe).candidates]
  /\ UNCHANGED <<phase, started, overlapped, db, books>>

\* The selection of the day is used again, with what is held now.
ReadUniverse(r) ==
  /\ At(r, "resolve")
  /\ run' = IF universe = {}
            THEN [run EXCEPT ![r].pc = "refresh", ![r].symbols = held["rule"]]
            ELSE [run EXCEPT ![r].pc = "context",
                             ![r].symbols = Latest(universe).selected \cup held["rule"],
                             ![r].collect = Latest(universe).candidates]
  /\ UNCHANGED <<phase, started, overlapped, db, books>>

\* The rankings are evaluated; candidates are all that research collects.
RefreshSucceeds(r) ==
  /\ At(r, "refresh")
  /\ \E candidates \in SUBSET Symbols : \E selected \in SUBSET candidates :
       /\ universe' = universe \cup
            {[no |-> run[r].no, selected |-> selected, candidates |-> candidates]}
       /\ run' = [run EXCEPT ![r].pc = "context", ![r].collect = candidates,
                             ![r].symbols = @ \cup selected]
  /\ UNCHANGED <<phase, started, overlapped, setup, momentum, advice, books>>

\* Mutant: a failed refresh allows buys like the selection of a day.
RefreshFailsOpen(r) ==
  /\ "api" \in Faults
  /\ At(r, "refresh")
  /\ IF run[r].symbols = {} THEN End(r)
     ELSE run' = [run EXCEPT ![r].pc = "context", ![r].collect = run[r].symbols]
  /\ UNCHANGED <<phase, started, overlapped, db, books>>

\* What is held is still managed, without buys; with nothing held the process
\* ends.  The next cycle tries again.
RefreshFails(r) ==
  /\ "api" \in Faults
  /\ At(r, "refresh")
  /\ IF run[r].symbols = {} THEN End(r)
     ELSE run' = [run EXCEPT ![r].pc = "context", ![r].newBuys = FALSE,
                             ![r].collect = run[r].symbols]
  /\ UNCHANGED <<phase, started, overlapped, db, books>>

-----------------------------------------------------------------------------
(* The shadow experiments of the rule cycle *)

\* The pool, and which evaluations have no audit row of this session yet.
ReadContext(r) ==
  LET due == InSelection(run[r].at)
      pool == IF universe = {} THEN {} ELSE Latest(universe).candidates
  IN /\ At(r, "context") /\ InContext(run[r].at)
     /\ run' = [run EXCEPT ![r].pc = "setup", ![r].ready = TRUE, ![r].pool = pool,
                           ![r].dueSetup = due /\ setup = {},
                           ![r].dueMomentum = due /\ momentum = {}]
     /\ UNCHANGED <<phase, started, overlapped, db, books>>

\* Out of the window, or the calendar or the markets cannot be read.
NoContext(r) ==
  /\ At(r, "context")
  /\ ~InContext(run[r].at) \/ "api" \in Faults
  /\ run' = [run EXCEPT ![r].pc = "begin"]
  /\ UNCHANGED <<phase, started, overlapped, db, books>>

\* What the cycle needs of the research: the rest is dropped.
Researched(r) == [run[r] EXCEPT !.pc = "begin", !.ready = FALSE, !.pool = {},
                                !.dueSetup = FALSE, !.dueMomentum = FALSE,
                                !.selected = {}]

\* Mutant: only a complete evaluation is written.
SetupShadowComplete(r) ==
  /\ At(r, "setup")
  /\ run' = [run EXCEPT ![r].pc = "momentum"]
  /\ IF run[r].dueSetup
     THEN \E complete \in {TRUE, FALSE} :
            /\ complete => run[r].pool # {}
            /\ setup' = IF complete THEN InsertOnce(setup, run[r].no) ELSE setup
     ELSE UNCHANGED setup
  /\ UNCHANGED <<phase, started, overlapped, universe, momentum, advice, books>>

\* A complete evaluation is written, and the last one of the window anyway.
SetupShadow(r) ==
  /\ At(r, "setup")
  /\ run' = [run EXCEPT ![r].pc = "momentum"]
  /\ IF run[r].dueSetup
     THEN \E complete \in BOOLEAN :
            /\ complete => run[r].pool # {}
            /\ setup' = IF complete \/ run[r].at >= Last
                        THEN InsertOnce(setup, run[r].no) ELSE setup
     ELSE UNCHANGED setup
  /\ UNCHANGED <<phase, started, overlapped, universe, momentum, advice, books>>

\* evaluate_momentum_shadow: which of the pool have their bars of 10:00 and
\* 10:01, and which of those the rule selects, is left open.
Momentum(r) ==
  /\ At(r, "momentum") /\ InSelection(run[r].at)
  /\ \E selected \in SUBSET run[r].pool :
       /\ Cardinality(selected) <= MaxSelected
       /\ run' = [run EXCEPT ![r].pc = "review", ![r].selected = selected]
  /\ UNCHANGED <<phase, started, overlapped, db, books>>

\* Out of the window, or no symbol of the pool has its bars: incomplete-data.
NoMomentum(r) ==
  /\ At(r, "momentum")
  /\ ~InSelection(run[r].at) \/ run[r].pool # {}
  /\ run' = [run EXCEPT ![r] = Researched(r)]
  /\ UNCHANGED <<phase, started, overlapped, db, books>>

\* The review of the session is used again, for whatever is selected now.
Review(r) ==
  /\ At(r, "review")
  /\ \/ /\ run[r].selected = {}
        /\ run' = [run EXCEPT ![r].pc = "record"]
     \/ /\ run[r].selected # {} /\ advice # {}
        /\ \E a \in advice :
             run' = [run EXCEPT ![r].pc = "record",
                                ![r].approved = run[r].selected \cap a.approved]
     \/ /\ run[r].selected # {} /\ advice = {}
        /\ run' = [run EXCEPT ![r].pc = "asking"]
  /\ UNCHANGED <<phase, started, overlapped, db, books>>

\* Mutant: the verdicts are used although they could not be written.
AdvisedUnwritten(r) ==
  /\ At(r, "asking")
  /\ \E approved \in SUBSET run[r].selected : \E written \in {TRUE, FALSE} :
       /\ advice' = IF written THEN advice \cup {[no |-> run[r].no, approved |-> approved]}
                    ELSE advice
       /\ run' = [run EXCEPT ![r].pc = "record", ![r].approved = approved]
  /\ UNCHANGED <<phase, started, overlapped, universe, setup, momentum, books>>

\* Hermes has answered for each candidate, and the answer is written.
Advised(r) ==
  /\ At(r, "asking")
  /\ \E approved \in SUBSET run[r].selected :
       /\ advice' = advice \cup {[no |-> run[r].no, approved |-> approved]}
       /\ run' = [run EXCEPT ![r].pc = "record", ![r].approved = approved]
  /\ UNCHANGED <<phase, started, overlapped, universe, setup, momentum, books>>

\* Hermes fails, answers of other symbols, or the answer cannot be written.
AdviceFails(r) ==
  /\ "hermes" \in Faults
  /\ At(r, "asking")
  /\ run' = [run EXCEPT ![r].pc = "record"]
  /\ UNCHANGED <<phase, started, overlapped, db, books>>

\* The first evaluation of the session is the one that is kept.
RecordMomentum(r) ==
  /\ At(r, "record")
  /\ momentum' = InsertOnce(momentum, run[r].no)
  /\ run' = [run EXCEPT ![r] = Researched(r)]
  /\ UNCHANGED <<phase, started, overlapped, universe, setup, advice, books>>

-----------------------------------------------------------------------------
(* A cycle of either portfolio *)

\* The row of a cycle, inserted with no errors and updated when it ends.
Row(r, ended, errors) ==
  [no |-> run[r].no, portfolio |-> run[r].portfolio, ended |-> ended, errors |-> errors]

BeginRun(r) ==
  LET p == run[r].portfolio
  IN /\ At(r, "begin")
     /\ rows' = rows \cup {Row(r, FALSE, 0)}
     /\ run' = [run EXCEPT ![r].pc = "trade", ![r].previous = LatestErrors(p)]
     /\ UNCHANGED <<phase, started, overlapped, db, held>>

\* What the cycle may buy: setups in the opening, and for hermes the approved
\* candidates later.
Buyable(r) ==
  IF ~run[r].newBuys THEN {}
  ELSE IF run[r].at = Opening THEN run[r].symbols
  ELSE IF run[r].portfolio = "hermes" /\ InHunterWindow(run[r].at) THEN run[r].approved
  ELSE {}

\* Before the market opens there is no bar to sell at.
Sellable(r) ==
  IF run[r].at = Prepare THEN {} ELSE held[run[r].portfolio] \cap run[r].symbols

\* What _run_started does to the ledger.
Trade(r) ==
  LET p == run[r].portfolio
  IN /\ At(r, "trade")
     /\ \E bought \in SUBSET (Buyable(r) \ held[p]), sold \in SUBSET Sellable(r) :
          held' = [held EXCEPT ![p] = (@ \ sold) \cup bought]
     /\ run' = [run EXCEPT ![r].pc = "finish"]
     /\ UNCHANGED <<phase, started, overlapped, db, rows>>

\* finish_run
Ended(r, failed) ==
  rows' = (rows \ {Row(r, FALSE, 0)})
            \cup {Row(r, TRUE, IF failed THEN run[r].previous + 1 ELSE 0)}

\* A cycle without an error of any symbol; after the rule cycle comes hermes.
FinishClean(r) ==
  /\ At(r, "finish")
  /\ Ended(r, FALSE)
  /\ IF run[r].portfolio = "rule" THEN run' = [run EXCEPT ![r].pc = "handoff"] ELSE End(r)
  /\ UNCHANGED <<phase, started, overlapped, db, held>>

\* Some symbol failed, through the API or not: exit code 3, and no hermes cycle.
FinishWithErrors(r) ==
  /\ "api" \in Faults
  /\ At(r, "finish")
  /\ \E failed \in BOOLEAN : Ended(r, failed)
  /\ End(r)
  /\ UNCHANGED <<phase, started, overlapped, db, held>>

\* An exception leaves the cycle.
RunFails(r) ==
  /\ "api" \in Faults
  /\ At(r, "trade") \/ At(r, "finish")
  /\ Ended(r, TRUE)
  /\ End(r)
  /\ UNCHANGED <<phase, started, overlapped, db, held>>

-----------------------------------------------------------------------------
(* The snapshot of the rule cycle, read by the hermes cycle *)

Shared(r) == IF run[r].collect = {} THEN run[r].symbols ELSE run[r].collect

\* Extended by what hermes holds and what was approved; an empty one is an error.
Handoff(r) ==
  /\ At(r, "handoff")
  /\ IF Shared(r) = {} THEN End(r)
     ELSE run' = [run EXCEPT ![r].pc = "begin", ![r].portfolio = "hermes",
                             ![r].symbols = Shared(r) \cup held["hermes"] \cup run[r].approved]
  /\ UNCHANGED <<phase, started, overlapped, db, books>>

\* A process is killed after ten minutes, or the request for it is lost.
Kill(r) ==
  /\ "kill" \in Faults
  /\ ~At(r, "idle")
  /\ End(r)
  /\ UNCHANGED <<phase, started, overlapped, db, books>>

Tick ==
  /\ phase < Last
  /\ phase' = phase + 1
  /\ UNCHANGED <<started, overlapped, db, books, run>>

-----------------------------------------------------------------------------
Init ==
  /\ phase = Prepare /\ started = 0 /\ overlapped = FALSE
  /\ universe = {} /\ setup = {} /\ momentum = {} /\ advice = {}
  /\ rows = {}
  /\ held \in Overnight
  /\ run = [r \in Runners |-> Fresh]

Step(r) ==
  \/ Start(r) \/ ReadUniverse(r) \/ RefreshSucceeds(r) \/ RefreshFails(r)
  \/ ReadContext(r) \/ NoContext(r) \/ SetupShadow(r)
  \/ Momentum(r) \/ NoMomentum(r) \/ Review(r) \/ Advised(r) \/ AdviceFails(r)
  \/ RecordMomentum(r) \/ BeginRun(r) \/ Trade(r)
  \/ FinishClean(r) \/ FinishWithErrors(r) \/ RunFails(r) \/ Handoff(r) \/ Kill(r)

Next == Tick \/ \E r \in Runners : Step(r)

Spec == Init /\ [][Next]_vars

-----------------------------------------------------------------------------
(* Properties *)

\* Every variable has its type.
TypeOK ==
  /\ phase \in Prepare..Last /\ started \in 0..MaxRuns /\ overlapped \in BOOLEAN
  /\ universe \subseteq [no : 1..MaxRuns, selected : SUBSET Symbols,
                         candidates : SUBSET Symbols]
  /\ setup \subseteq 1..MaxRuns
  /\ momentum \subseteq 1..MaxRuns
  /\ advice \subseteq [no : 1..MaxRuns, approved : SUBSET Symbols]
  /\ rows \subseteq [no : 1..MaxRuns, portfolio : Portfolios, ended : BOOLEAN,
                     errors : Nat]
  /\ held \in [Portfolios -> SUBSET Symbols]
  /\ run \in [Runners ->
       [pc : Stages, at : Prepare..Last, no : 0..MaxRuns, portfolio : Portfolios,
        symbols : SUBSET Symbols, collect : SUBSET Symbols, newBuys : BOOLEAN,
        ready : BOOLEAN, pool : SUBSET Symbols, dueSetup : BOOLEAN,
        dueMomentum : BOOLEAN, selected : SUBSET Symbols,
        approved : SUBSET Symbols, previous : Nat]]

\* Without overlap the session has one selection, one row of each experiment
\* and one review, however many cycles evaluate, fail, die or are repeated
\* (InsertOnce, ReadUniverse and Review look before they write).
OncePerSession ==
  ~overlapped =>
    /\ Cardinality(universe) <= 1 /\ Cardinality(setup) <= 1
    /\ Cardinality(momentum) <= 1 /\ Cardinality(advice) <= 1

\* Without overlap a cycle that trades manages every position of its portfolio,
\* whichever way its symbols were found.
HeldCovered ==
  ~overlapped =>
    \A r \in Runners : At(r, "trade") => held[run[r].portfolio] \subseteq run[r].symbols

\* A cycle that saw the last minute of the window leaves a row of the setup
\* experiment behind, complete or not.
SetupResolved ==
  \A r \in Runners :
    run[r].pc \in {"momentum", "review", "asking", "record"} /\ run[r].ready
    /\ run[r].at = Last => setup # {}

\* What hermes may buy of the momentum rule has a persisted approval
\* (docs/decisions.md, ADR-010), also with executions that overlap.
PromotedIsPersisted ==
  \A r \in Runners : \A s \in run[r].approved : \E a \in advice : s \in a.approved

\* The count a cycle continues is that of the failures in a row before it,
\* whatever was killed between them.
StreakSurvives ==
  ~overlapped => \A p \in Portfolios :
    LET ended == {row \in rows : row.portfolio = p /\ row.ended}
        failed == {row \in ended : row.errors > 0}
    IN LatestErrors(p) = Cardinality({row \in failed :
                           \A clean \in ended \ failed : clean.no < row.no})

\* Neither portfolio buys before a selection of the day has succeeded: a failed
\* refresh reaches both through the snapshot.
BuysNeedUniverse ==
  [][\A p \in Portfolios : held'[p] \subseteq held[p] \/ universe # {}]_vars
=============================================================================
