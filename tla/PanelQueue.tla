----------------------------- MODULE PanelQueue -----------------------------
(***************************************************************************)
(* The queue of analysis panels (the panel handlers of automation.py, the  *)
(* tables daily_analysis_panels and daily_analysis_opinions of paper.py)   *)
(* and the runs of automation/hermes-panel-runner.py that work on it.      *)
(*                                                                         *)
(* A cron starts a runner every minute.  A runner claims the oldest panel  *)
(* that is queued, or has been running for more than 30 minutes, asks the  *)
(* agents in two rounds, has the judge decide, and posts what it got.  The *)
(* handlers are threads of the automation server: they go on when the      *)
(* runner that called them gives up or dies, and commit step by step.      *)
(***************************************************************************)
EXTENDS Naturals, Sequences

CONSTANTS
  Panels,     \* panels, one for each workflow execution
  Hourly,     \* the hourly ones, which only have a judge
  Runs,       \* the runner processes there may be at the same time
  Roles,      \* the agents asked in each round
  NoRun, NoPanel,
  Faults,     \* which of {"agent", "post", "timeout", "report", "loss"} may happen
  MaxLosses   \* bound: runners killed, claims and failure posts lost

ASSUME PanelAssumption ==
  /\ Hourly \subseteq Panels /\ NoPanel \notin Panels
  /\ NoRun \notin Runs
  /\ MaxLosses \in Nat

VARIABLES
  status,    \* panel -> its status column ("absent": not enqueued yet)
  order,     \* the panels by created_at
  stale,     \* the running panels claimed more than 30 minutes ago
  stored,    \* panel -> stage -> the run whose opinion is stored
  at,        \* run -> where the runner is
  panel,     \* run -> the panel it claimed
  left,      \* run -> the stages of the round it has not asked yet
  got,       \* run -> the stages it has an opinion of
  complete,  \* run -> the step of its .../daily-panel-complete request
  fail,      \* run -> the step of its .../daily-panel-fail request
  reports,   \* panel -> the runs whose final judgment was sent
  alerts,    \* panel -> how many times its failure was alerted
  losses

tableVars == <<status, order, stale, stored>>
runVars == <<at, panel, left, got>>
sentVars == <<reports, alerts>>
vars == <<tableVars, runVars, complete, fail, sentVars, losses>>

-----------------------------------------------------------------------------
(* Stages of a panel and steps of a request *)

Independent == {"independent"} \X Roles
Review == {"review"} \X Roles
Judge == <<"judge", "hermes">>
AllStages == Independent \cup Review \cup {Judge}
StagesOf(p) == IF p \in Hourly THEN {Judge} ELSE AllStages

Terminal == {"succeeded", "failed"}
CompleteSteps == {"record", "report", "finish"}
FailSteps == {"finish", "alert"}

\* Mutant: only the opinions of this request are kept.
KeepNew(p, r, S) ==
  [stored EXCEPT ![p] = [s \in AllStages |-> IF s \in S THEN r ELSE NoRun]]

\* INSERT ... ON CONFLICT (panel_id, stage) DO NOTHING
Keep(p, r, S) ==
  [stored EXCEPT ![p] =
     [s \in AllStages |-> IF s \in S /\ @[s] = NoRun THEN r ELSE @[s]]]

\* A runner or one of its requests is still working on the panel.
WorkedOn(p) ==
  \E r \in Runs : /\ panel[r] = p
                  /\ \/ at[r] \notin {"idle", "gone"}
                     \/ complete[r] \in CompleteSteps \/ fail[r] \in FailSteps

-----------------------------------------------------------------------------
(* The workflow enqueues, time passes *)

\* Mutant: a repeated request for an execution queues it again.
EnqueueAgain(p) ==
  /\ status[p] \in {"absent", "queued"}
  /\ status' = [status EXCEPT ![p] = "queued"]
  /\ order' = Append(order, p)
  /\ UNCHANGED <<stale, stored, runVars, complete, fail, sentVars, losses>>

\* A repeated insert for the same execution does nothing.
Enqueue(p) ==
  /\ status[p] = "absent"
  /\ status' = [status EXCEPT ![p] = "queued"]
  /\ order' = Append(order, p)
  /\ UNCHANGED <<stale, stored, runVars, complete, fail, sentVars, losses>>

\* Thirty minutes since the claim: the calls of a daily run take up to five
\* minutes each, three in the first round and seven in all, and an hourly run
\* with its single call is gone by then.
Age(p) ==
  /\ status[p] = "running" /\ p \notin stale
  /\ p \in Hourly => ~WorkedOn(p)
  /\ \A r \in Runs : panel[r] = p => at[r] # "independent"
  /\ stale' = stale \cup {p}
  /\ UNCHANGED <<status, order, stored, runVars, complete, fail, sentVars, losses>>

-----------------------------------------------------------------------------
(* A run claims, asks and judges *)

\* Mutant: a panel whose runner is lost is never claimed again.
ClaimableOnce(p) == status[p] = "queued"

Claimable(p) == status[p] = "queued" \/ (status[p] = "running" /\ p \in stale)

ClaimPanel(p) ==
  /\ Claimable(p)
  /\ \E i \in 1..Len(order) : order[i] = p /\ \A j \in 1..(i - 1) : ~Claimable(order[j])
  /\ status' = [status EXCEPT ![p] = "running"]
  /\ stale' = stale \ {p}
  /\ UNCHANGED <<order, stored>>

Claim(r) ==
  /\ at[r] = "idle"
  /\ \E p \in Panels :
       /\ ClaimPanel(p)
       /\ panel' = [panel EXCEPT ![r] = p]
       /\ IF p \in Hourly
          THEN /\ at' = [at EXCEPT ![r] = "judge"]
               /\ UNCHANGED left
          ELSE /\ at' = [at EXCEPT ![r] = "independent"]
               /\ left' = [left EXCEPT ![r] = Independent]
  /\ UNCHANGED <<got, complete, fail, sentVars, losses>>

Lose ==
  /\ "loss" \in Faults /\ losses < MaxLosses
  /\ losses' = losses + 1

\* The claim is committed, but its response does not arrive.
ClaimLost(r) ==
  /\ at[r] = "idle"
  /\ \E p \in Panels : ClaimPanel(p)
  /\ Lose
  /\ UNCHANGED <<runVars, complete, fail, sentVars>>

\* One agent answers, and its opinion is posted and stored.
AskAgent(r, s) ==
  /\ at[r] \in {"independent", "review"} /\ s \in left[r]
  /\ left' = [left EXCEPT ![r] = @ \ {s}]
  /\ got' = [got EXCEPT ![r] = @ \cup {s}]
  /\ stored' = Keep(panel[r], r, {s})
  /\ UNCHANGED <<status, order, stale, at, panel, complete, fail, sentVars, losses>>

\* The others are still asked.
AgentFails(r, s) ==
  /\ "agent" \in Faults
  /\ at[r] \in {"independent", "review"} /\ s \in left[r]
  /\ left' = [left EXCEPT ![r] = @ \ {s}]
  /\ UNCHANGED <<tableVars, at, panel, got, complete, fail, sentVars, losses>>

\* The opinion's post fails, before or after it was stored: the run fails.
OpinionPostFails(r, s) ==
  /\ "post" \in Faults
  /\ \/ at[r] \in {"independent", "review"} /\ s \in left[r]
     \/ at[r] = "judge" /\ panel[r] \notin Hourly /\ s = Judge
  /\ stored' \in {stored, Keep(panel[r], r, {s})}
  /\ at' = [at EXCEPT ![r] = "failing"]
  /\ fail' = [fail EXCEPT ![r] = "finish"]
  /\ UNCHANGED <<status, order, stale, panel, left, got, complete, sentVars, losses>>

RoundOf(r) == IF at[r] = "independent" THEN Independent ELSE Review

\* A round with a missing opinion fails the run.
EndRound(r) ==
  /\ at[r] \in {"independent", "review"} /\ left[r] = {}
  /\ \/ /\ RoundOf(r) \subseteq got[r] /\ at[r] = "independent"
        /\ at' = [at EXCEPT ![r] = "review"]
        /\ left' = [left EXCEPT ![r] = Review]
        /\ UNCHANGED fail
     \/ /\ RoundOf(r) \subseteq got[r] /\ at[r] = "review"
        /\ at' = [at EXCEPT ![r] = "judge"]
        /\ UNCHANGED <<left, fail>>
     \/ /\ ~(RoundOf(r) \subseteq got[r])
        /\ at' = [at EXCEPT ![r] = "failing"]
        /\ fail' = [fail EXCEPT ![r] = "finish"]
        /\ UNCHANGED left
  /\ UNCHANGED <<tableVars, panel, got, complete, sentVars, losses>>

\* The judge's opinion is posted (an hourly one only with the completion),
\* then the completion is requested.
JudgeAnswers(r) ==
  /\ at[r] = "judge"
  /\ got' = [got EXCEPT ![r] = @ \cup {Judge}]
  /\ stored' = IF panel[r] \in Hourly THEN stored ELSE Keep(panel[r], r, {Judge})
  /\ at' = [at EXCEPT ![r] = "complete"]
  /\ complete' = [complete EXCEPT ![r] = "record"]
  /\ UNCHANGED <<status, order, stale, panel, left, fail, sentVars, losses>>

JudgeFails(r) ==
  /\ "agent" \in Faults
  /\ at[r] = "judge"
  /\ at' = [at EXCEPT ![r] = "failing"]
  /\ fail' = [fail EXCEPT ![r] = "finish"]
  /\ UNCHANGED <<tableVars, panel, left, got, complete, sentVars, losses>>

-----------------------------------------------------------------------------
(* The completion request: a thread of the server, three commits *)

Step(f, r, next) == [f EXCEPT ![r] = next]

\* All opinions are checked and recorded; those already stored stay.
CompleteRecord(r) ==
  /\ complete[r] = "record"
  /\ \/ /\ StagesOf(panel[r]) \subseteq got[r]
        /\ stored' = Keep(panel[r], r, StagesOf(panel[r]))
        /\ complete' = Step(complete, r, "report")
     \/ /\ ~(StagesOf(panel[r]) \subseteq got[r])
        /\ complete' = Step(complete, r, "error")
        /\ UNCHANGED stored
  /\ UNCHANGED <<status, order, stale, runVars, fail, sentVars, losses>>

\* Mutant: a judgment that is not the one stored is kept back.
CompleteSilently(r) ==
  /\ complete[r] = "report"
  /\ complete' = Step(complete, r, "finish")
  /\ IF \A s \in StagesOf(panel[r]) : stored[panel[r]][s] = r
     THEN reports' = [reports EXCEPT ![panel[r]] = @ \cup {r}]
     ELSE UNCHANGED reports
  /\ UNCHANGED <<tableVars, runVars, fail, alerts, losses>>

\* The judgment of this run goes to Telegram.
CompleteReport(r) ==
  /\ complete[r] = "report"
  /\ reports' = [reports EXCEPT ![panel[r]] = @ \cup {r}]
  /\ complete' = Step(complete, r, "finish")
  /\ UNCHANGED <<tableVars, runVars, fail, alerts, losses>>

\* The reporter raises, before or after the message was accepted.
ReportFails(r) ==
  /\ "report" \in Faults
  /\ complete[r] = "report"
  /\ reports' \in {reports, [reports EXCEPT ![panel[r]] = @ \cup {r}]}
  /\ complete' = Step(complete, r, "error")
  /\ UNCHANGED <<tableVars, runVars, fail, alerts, losses>>

\* Mutant: WHERE panel_id only.
FinishAnyway(p, outcome) ==
  /\ status' = [status EXCEPT ![p] = outcome]
  /\ stale' = stale \ {p}
  /\ UNCHANGED <<order, stored>>

\* UPDATE ... WHERE status = 'running': one row, or "daily panel is not running".
FinishPanel(p, outcome) ==
  /\ status[p] = "running"
  /\ status' = [status EXCEPT ![p] = outcome]
  /\ stale' = stale \ {p}
  /\ UNCHANGED <<order, stored>>

CompleteFinish(r) ==
  /\ complete[r] = "finish"
  /\ \/ /\ FinishPanel(panel[r], "succeeded")
        /\ complete' = Step(complete, r, "done")
     \/ /\ status[panel[r]] # "running"
        /\ complete' = Step(complete, r, "error")
        /\ UNCHANGED tableVars
  /\ UNCHANGED <<runVars, fail, sentVars, losses>>

\* The runner gets the answer, or gives up waiting after 30 seconds.
Answered(r) ==
  /\ at[r] = "complete" /\ complete[r] \in {"done", "error"}
  /\ IF complete[r] = "done"
     THEN at' = [at EXCEPT ![r] = "gone"] /\ UNCHANGED fail
     ELSE at' = [at EXCEPT ![r] = "failing"] /\ fail' = Step(fail, r, "finish")
  /\ UNCHANGED <<tableVars, panel, left, got, complete, sentVars, losses>>

TimesOut(r) ==
  /\ "timeout" \in Faults
  /\ at[r] = "complete"
  /\ at' = [at EXCEPT ![r] = "failing"]
  /\ fail' = Step(fail, r, "finish")
  /\ UNCHANGED <<tableVars, panel, left, got, complete, sentVars, losses>>

-----------------------------------------------------------------------------
(* The failure request *)

\* Mutant: a failure that finds the panel ended is alerted all the same.
FailFinishAlerting(r) ==
  /\ fail[r] = "finish"
  /\ fail' = Step(fail, r, "alert")
  /\ \/ FinishPanel(panel[r], "failed")
     \/ status[panel[r]] # "running" /\ UNCHANGED tableVars
  /\ UNCHANGED <<runVars, complete, sentVars, losses>>

FailFinish(r) ==
  /\ fail[r] = "finish"
  /\ \/ /\ FinishPanel(panel[r], "failed")
        /\ fail' = Step(fail, r, "alert")
     \/ /\ status[panel[r]] # "running"
        /\ fail' = Step(fail, r, "error")
        /\ UNCHANGED tableVars
  /\ UNCHANGED <<runVars, complete, sentVars, losses>>

FailAlert(r) ==
  /\ fail[r] = "alert"
  /\ alerts' = [alerts EXCEPT ![panel[r]] = @ + 1]
  /\ fail' = Step(fail, r, "done")
  /\ UNCHANGED <<tableVars, runVars, complete, reports, losses>>

AlertFails(r) ==
  /\ "report" \in Faults
  /\ fail[r] = "alert"
  /\ alerts' \in {alerts, [alerts EXCEPT ![panel[r]] = @ + 1]}
  /\ fail' = Step(fail, r, "error")
  /\ UNCHANGED <<tableVars, runVars, complete, reports, losses>>

\* The failure post does not reach the server.
FailLost(r) ==
  /\ fail[r] = "finish"
  /\ fail' = Step(fail, r, "error")
  /\ Lose
  /\ UNCHANGED <<tableVars, runVars, complete, sentVars>>

\* The runner is done with the failure post, answered or not.
GiveUp(r) ==
  /\ at[r] = "failing"
  /\ fail[r] \in {"done", "error"} \/ "timeout" \in Faults
  /\ at' = [at EXCEPT ![r] = "gone"]
  /\ UNCHANGED <<tableVars, panel, left, got, complete, fail, sentVars, losses>>

Die(r) ==
  /\ at[r] \notin {"idle", "gone"}
  /\ at' = [at EXCEPT ![r] = "gone"]
  /\ Lose
  /\ UNCHANGED <<tableVars, panel, left, got, complete, fail, sentVars>>

\* A process that is gone, with its requests, makes room for another one.
Recycle(r) ==
  /\ at[r] = "gone" /\ complete[r] \notin CompleteSteps /\ fail[r] \notin FailSteps
  /\ at' = [at EXCEPT ![r] = "idle"]
  /\ panel' = [panel EXCEPT ![r] = NoPanel]
  /\ left' = [left EXCEPT ![r] = {}]
  /\ got' = [got EXCEPT ![r] = {}]
  /\ complete' = Step(complete, r, "none")
  /\ fail' = Step(fail, r, "none")
  /\ UNCHANGED <<tableVars, sentVars, losses>>

-----------------------------------------------------------------------------

Init ==
  /\ status = [p \in Panels |-> "absent"]
  /\ order = <<>>
  /\ stale = {}
  /\ stored = [p \in Panels |-> [s \in AllStages |-> NoRun]]
  /\ at = [r \in Runs |-> "idle"]
  /\ panel = [r \in Runs |-> NoPanel]
  /\ left = [r \in Runs |-> {}]
  /\ got = [r \in Runs |-> {}]
  /\ complete = [r \in Runs |-> "none"]
  /\ fail = [r \in Runs |-> "none"]
  /\ reports = [p \in Panels |-> {}]
  /\ alerts = [p \in Panels |-> 0]
  /\ losses = 0

\* What a run and its requests do by themselves.
RunnerStep(r) ==
  \/ \E s \in AllStages : AskAgent(r, s)
  \/ EndRound(r) \/ JudgeAnswers(r) \/ Answered(r) \/ GiveUp(r) \/ Recycle(r)
CompleteStep(r) == CompleteRecord(r) \/ CompleteReport(r) \/ CompleteFinish(r)
FailStep(r) == FailFinish(r) \/ FailAlert(r)

Fault(r) ==
  \/ ClaimLost(r) \/ JudgeFails(r) \/ ReportFails(r) \/ TimesOut(r)
  \/ AlertFails(r) \/ FailLost(r) \/ Die(r)
  \/ \E s \in AllStages : AgentFails(r, s) \/ OpinionPostFails(r, s)

Next ==
  \/ \E p \in Panels : Enqueue(p) \/ Age(p)
  \/ \E r \in Runs : Claim(r) \/ RunnerStep(r) \/ CompleteStep(r) \/ FailStep(r) \/ Fault(r)

Spec == Init /\ [][Next]_vars

\* The cron polls on, calls and requests have timeouts, and time passes.
Fairness ==
  /\ \A p \in Panels : WF_vars(Age(p))
  /\ WF_vars(\E r \in Runs : Claim(r))
  /\ \A r \in Runs : /\ WF_vars(RunnerStep(r))
                     /\ WF_vars(CompleteStep(r)) /\ WF_vars(FailStep(r))
FairSpec == Spec /\ Fairness

-----------------------------------------------------------------------------
(* Properties *)

\* Every variable has its type, and each panel enqueued has one row.
TypeOK ==
  /\ status \in [Panels -> {"absent", "queued", "running"} \cup Terminal]
  /\ order \in Seq(Panels)
  /\ \A p \in Panels : (status[p] # "absent") <=> \E i \in DOMAIN order : order[i] = p
  /\ \A i, j \in DOMAIN order : order[i] = order[j] => i = j
  /\ stale \subseteq Panels
  /\ stored \in [Panels -> [AllStages -> Runs \cup {NoRun}]]
  /\ at \in [Runs -> {"idle", "independent", "review", "judge", "complete", "failing", "gone"}]
  /\ panel \in [Runs -> Panels \cup {NoPanel}]
  /\ left \in [Runs -> SUBSET AllStages]
  /\ got \in [Runs -> SUBSET AllStages]
  /\ complete \in [Runs -> CompleteSteps \cup {"none", "done", "error"}]
  /\ fail \in [Runs -> FailSteps \cup {"none", "done", "error"}]
  /\ reports \in [Panels -> SUBSET Runs]
  /\ alerts \in [Panels -> Nat]
  /\ losses \in Nat

\* No run, late or early, changes the status of a panel that has ended.
TerminalIsFinal ==
  [][\A p \in Panels : status[p] \in Terminal => status'[p] = status[p]]_status

\* A final judgment is only sent for a panel of which every opinion is stored
\* (and so is every opinion of a panel that succeeded).
ReportedIsComplete ==
  \A p \in Panels : reports[p] # {} => \A s \in StagesOf(p) : stored[p][s] # NoRun

\* A panel succeeds only with a final judgment sent.
SucceededIsReported == \A p \in Panels : status[p] = "succeeded" => reports[p] # {}

\* A failure is alerted only of a panel that failed, however many runs worked
\* on it, and only once.
AlertedIsFailed ==
  \A p \in Panels : alerts[p] # 0 => alerts[p] = 1 /\ status[p] = "failed"

\* A panel once enqueued ends, whatever runner is lost on the way.
PanelsResolve ==
  \A p \in Panels : (status[p] = "queued") ~> (status[p] \in Terminal)
=============================================================================
