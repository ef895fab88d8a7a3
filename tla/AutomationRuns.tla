--------------------------- MODULE AutomationRuns ---------------------------
(***************************************************************************)
(* The requests the automation server answers: the runs of /run-daily,     *)
(* /run-market-scan and /run-paper-cycle (DailyAutomation,                 *)
(* MarketScanAutomation and IntradayPaperAutomation of automation.py) and  *)
(* the tasks of /workflow/... (WorkflowTaskService).                       *)
(*                                                                         *)
(* Every request is a thread of the server.  Each kind of run has a lock   *)
(* that is tried and never waited for; the run then goes through its       *)
(* stages, and an error in a stage is audited and reported as far as the   *)
(* stage that failed is not the one that would have to say so.  A task has *)
(* no lock and reports no failure: the workflow that asked does.  It       *)
(* leaves a row of its own kind if it is an analysis, and one of the flow. *)
(***************************************************************************)
EXTENDS Naturals, FiniteSets

CONSTANTS
  Requests, NoRequest,
  MaxHits,      \* bound: calls of one request that fail
  MaxRestarts   \* bound: restarts of the server

ASSUME RunAssumption ==
  /\ NoRequest \notin Requests
  /\ MaxHits \in Nat /\ MaxRestarts \in Nat

Kinds == {"daily", "market", "intraday"}

\* The tasks of _dispatch: an analysis by Hermes, a report to Alertmanager, the
\* claim of a panel, and those that do something else.
Tasks == {"analysis", "report", "claim", "other"}

VARIABLES
  lock,      \* kind -> the request that holds its lock
  kind,      \* request -> the run or the task it asks for
  at,        \* request -> the step its thread is at
  failed,    \* request -> the stage that raised
  row,       \* request -> the audit rows of the run, by status, and of the flow
  sent,      \* request -> the messages that reached Alertmanager, by what they say
  answer,    \* request -> the status of the response
  hits,      \* request -> calls of it that failed
  restarts

traceVars == <<row, sent>>
vars == <<lock, kind, at, failed, traceVars, answer, hits, restarts>>

-----------------------------------------------------------------------------
Stages == {"cycle", "notice", "hermes", "report", "audit"}
Failing == {"failed-audit", "failed-report"}
Running == Stages \cup Failing \cup {"release"}
InTask == {"task", "task-audit", "task-failed", "flow-audit", "flow-failed"}

\* A call of request r fails.
Hit(r) == /\ hits[r] < MaxHits
          /\ hits' = [hits EXCEPT ![r] = @ + 1]

Goto(r, s) == at' = [at EXCEPT ![r] = s]
Send(r, what) == sent' = [sent EXCEPT ![r][what] = @ + 1]
Write(r, status) == row' = [row EXCEPT ![r][status] = @ + 1]

\* A message or a row whose call fails may have arrived all the same.
MaySend(r, what) == UNCHANGED sent \/ Send(r, what)
MayWrite(r, status) == UNCHANGED row \/ Write(r, status)

-----------------------------------------------------------------------------
(* A request arrives *)

Enter(r, k) ==
  /\ at[r] = "idle" /\ lock[k] = NoRequest
  /\ lock' = [lock EXCEPT ![k] = r]
  /\ kind' = [kind EXCEPT ![r] = k]
  /\ Goto(r, "cycle")
  /\ UNCHANGED <<failed, traceVars, answer, hits, restarts>>

\* AutomationBusy: the second request of a kind is refused with 409.
Busy(r, k) ==
  /\ at[r] = "idle" /\ lock[k] # NoRequest
  /\ kind' = [kind EXCEPT ![r] = k]
  /\ answer' = [answer EXCEPT ![r] = 409]
  /\ Goto(r, "ended")
  /\ UNCHANGED <<lock, failed, traceVars, hits, restarts>>

-----------------------------------------------------------------------------
(* The stages of a run *)

Succeed(r) ==
  /\ answer' = [answer EXCEPT ![r] = 200]
  /\ Goto(r, "release")

\* The process of the cycle or of the scan ends; an exit code is no error
\* here, but has the cycle noticed, as fills and refusals have.
CycleEnds(r) ==
  /\ at[r] = "cycle"
  /\ \/ /\ kind[r] \in {"daily", "intraday"}
        /\ Goto(r, "notice") /\ UNCHANGED answer
     \/ /\ kind[r] \in {"daily", "market"}
        /\ Goto(r, "hermes") /\ UNCHANGED answer
     \/ /\ kind[r] = "intraday"
        /\ Succeed(r)
  /\ UNCHANGED <<lock, kind, failed, traceVars, hits, restarts>>

Notice(r) ==
  /\ at[r] = "notice"
  /\ Send(r, "notice")
  /\ IF kind[r] = "daily" THEN Goto(r, "hermes") /\ UNCHANGED answer ELSE Succeed(r)
  /\ UNCHANGED <<lock, kind, failed, row, hits, restarts>>

\* A daily run goes on without its notice.
NoticeSkipped(r) ==
  /\ at[r] = "notice" /\ kind[r] = "daily" /\ Hit(r)
  /\ MaySend(r, "notice")
  /\ Goto(r, "hermes")
  /\ UNCHANGED <<lock, kind, failed, row, answer, restarts>>

Analysed(r) ==
  /\ at[r] = "hermes"
  /\ Goto(r, "report")
  /\ UNCHANGED <<lock, kind, failed, traceVars, answer, hits, restarts>>

Reported(r) ==
  /\ at[r] = "report"
  /\ Send(r, "result")
  /\ Goto(r, "audit")
  /\ UNCHANGED <<lock, kind, failed, row, answer, hits, restarts>>

Audited(r) ==
  /\ at[r] = "audit"
  /\ Write(r, "succeeded")
  /\ Succeed(r)
  /\ UNCHANGED <<lock, kind, failed, sent, hits, restarts>>

-----------------------------------------------------------------------------
(* A stage raises *)

\* Mutant: every failure is audited, also that of the audit.
HandleAll(k, stage) == IF k = "intraday" THEN "failed-report" ELSE "failed-audit"

\* Mutant: a failed run is reported only.
HandleReport(k, stage) == IF stage = "report" THEN "release" ELSE "failed-report"

\* Where the handler of a failure begins.
Handle(k, stage) ==
  IF k = "intraday" \/ stage = "audit" THEN "failed-report" ELSE "failed-audit"

Raise(r) ==
  /\ at[r] \in Stages
  /\ at[r] = "notice" => kind[r] = "intraday"
  /\ Hit(r)
  /\ failed' = [failed EXCEPT ![r] = at[r]]
  /\ answer' = [answer EXCEPT ![r] = 502]
  /\ CASE at[r] = "notice" -> MaySend(r, "notice") /\ UNCHANGED row
       [] at[r] = "report" -> MaySend(r, "result") /\ UNCHANGED row
       [] at[r] = "audit" -> MayWrite(r, "succeeded") /\ UNCHANGED sent
       [] OTHER -> UNCHANGED traceVars
  /\ Goto(r, Handle(kind[r], at[r]))
  /\ UNCHANGED <<lock, kind, restarts>>

\* The failure of a report is not reported.
AfterAudit(r) == Goto(r, IF failed[r] = "report" THEN "release" ELSE "failed-report")

FailureAudited(r) ==
  /\ at[r] = "failed-audit"
  /\ \/ Write(r, "failed") /\ UNCHANGED hits
     \/ Hit(r) /\ MayWrite(r, "failed")
  /\ AfterAudit(r)
  /\ UNCHANGED <<lock, kind, failed, sent, answer, restarts>>

FailureReported(r) ==
  /\ at[r] = "failed-report"
  /\ \/ Send(r, "failure") /\ UNCHANGED hits
     \/ Hit(r) /\ MaySend(r, "failure")
  /\ Goto(r, "release")
  /\ UNCHANGED <<lock, kind, failed, row, answer, restarts>>

\* Mutant: the lock is released only at the end of a run that succeeded.
ReleaseAfterSuccess(r) ==
  /\ at[r] = "release"
  /\ lock' = IF answer[r] = 200 THEN [lock EXCEPT ![kind[r]] = NoRequest] ELSE lock
  /\ Goto(r, "ended")
  /\ UNCHANGED <<kind, failed, traceVars, answer, hits, restarts>>

\* finally: the lock is released whatever happened.
Release(r) ==
  /\ at[r] = "release"
  /\ lock' = [lock EXCEPT ![kind[r]] = NoRequest]
  /\ Goto(r, "ended")
  /\ UNCHANGED <<kind, failed, traceVars, answer, hits, restarts>>

-----------------------------------------------------------------------------
(* A task of a workflow *)

Ask(r, t) ==
  /\ at[r] = "idle"
  /\ kind' = [kind EXCEPT ![r] = t]
  /\ Goto(r, "task")
  /\ UNCHANGED <<lock, failed, traceVars, answer, hits, restarts>>

\* A claim that was made is not audited; a cycle without a notice is not reported.
TaskDone(r) ==
  /\ at[r] = "task"
  /\ IF kind[r] = "report" THEN MaySend(r, "result") ELSE UNCHANGED sent
  /\ IF kind[r] = "claim" THEN answer' = [answer EXCEPT ![r] = 200] /\ Goto(r, "ended")
     ELSE UNCHANGED answer /\ Goto(r, IF kind[r] = "analysis" THEN "task-audit" ELSE "flow-audit")
  /\ UNCHANGED <<lock, kind, failed, row, hits, restarts>>

\* An analysis without an answer of Hermes is audited twice, one that was asked
\* without its data only as a flow.
TaskRaises(r) ==
  /\ at[r] = "task" /\ Hit(r)
  /\ IF kind[r] = "report" THEN MaySend(r, "result") ELSE UNCHANGED sent
  /\ failed' = [failed EXCEPT ![r] = "task"]
  /\ Goto(r, "flow-failed") \/ (kind[r] = "analysis" /\ Goto(r, "task-failed"))
  /\ UNCHANGED <<lock, kind, row, answer, restarts>>

TaskAudited(r) ==
  /\ at[r] = "task-audit"
  /\ \/ /\ Write(r, "succeeded") /\ Goto(r, "flow-audit")
        /\ UNCHANGED <<failed, hits>>
     \/ /\ Hit(r) /\ MayWrite(r, "succeeded") /\ Goto(r, "flow-failed")
        /\ failed' = [failed EXCEPT ![r] = "task-audit"]
  /\ UNCHANGED <<lock, kind, sent, answer, restarts>>

TaskFailureAudited(r) ==
  /\ at[r] = "task-failed"
  /\ \/ Write(r, "failed") /\ UNCHANGED hits
     \/ Hit(r) /\ MayWrite(r, "failed")
  /\ Goto(r, "flow-failed")
  /\ UNCHANGED <<lock, kind, failed, sent, answer, restarts>>

\* The thread of an error that is neither a RuntimeError, a TypeError nor a
\* ValueError ends without an answer.
AnswerError(r) == \E status \in {0, 502} : answer' = [answer EXCEPT ![r] = status]

\* A task that was done is answered with an error if its row can not be written.
FlowAudited(r) ==
  /\ at[r] = "flow-audit"
  /\ \/ /\ Write(r, "answered") /\ answer' = [answer EXCEPT ![r] = 200]
        /\ UNCHANGED <<failed, hits>>
     \/ /\ Hit(r) /\ MayWrite(r, "answered") /\ AnswerError(r)
        /\ failed' = [failed EXCEPT ![r] = "flow-audit"]
  /\ Goto(r, "ended")
  /\ UNCHANGED <<lock, kind, sent, restarts>>

FlowFailureAudited(r) ==
  /\ at[r] = "flow-failed"
  /\ \/ Write(r, "raised") /\ UNCHANGED hits
     \/ Hit(r) /\ MayWrite(r, "raised")
  /\ AnswerError(r)
  /\ Goto(r, "ended")
  /\ UNCHANGED <<lock, kind, failed, sent, restarts>>

\* The locks are in memory: a restart ends the runs and frees them.
Restart ==
  /\ restarts < MaxRestarts
  /\ restarts' = restarts + 1
  /\ lock' = [k \in Kinds |-> NoRequest]
  /\ at' = [r \in Requests |-> IF at[r] \in Running \cup InTask THEN "ended" ELSE at[r]]
  /\ answer' = [r \in Requests |-> IF at[r] \in Running \cup InTask THEN 0 ELSE answer[r]]
  /\ UNCHANGED <<kind, failed, traceVars, hits>>

-----------------------------------------------------------------------------
Init ==
  /\ lock = [k \in Kinds |-> NoRequest]
  /\ kind = [r \in Requests |-> "none"]
  /\ at = [r \in Requests |-> "idle"]
  /\ failed = [r \in Requests |-> "none"]
  /\ row = [r \in Requests |-> [s \in {"succeeded", "failed", "answered", "raised"} |-> 0]]
  /\ sent = [r \in Requests |-> [w \in {"notice", "result", "failure"} |-> 0]]
  /\ answer = [r \in Requests |-> 0]
  /\ hits = [r \in Requests |-> 0]
  /\ restarts = 0

\* A step of a run that does not wait for another request.
Step(r) ==
  \/ CycleEnds(r) \/ Notice(r) \/ NoticeSkipped(r) \/ Analysed(r)
  \/ Reported(r) \/ Audited(r) \/ Raise(r)
  \/ FailureAudited(r) \/ FailureReported(r) \/ Release(r)

TaskStep(r) ==
  \/ TaskDone(r) \/ TaskRaises(r) \/ TaskAudited(r) \/ TaskFailureAudited(r)
  \/ FlowAudited(r) \/ FlowFailureAudited(r)

Next ==
  \/ \E r \in Requests, k \in Kinds : Enter(r, k) \/ Busy(r, k)
  \/ \E r \in Requests, t \in Tasks : Ask(r, t)
  \/ \E r \in Requests : Step(r) \/ TaskStep(r)
  \/ Restart

\* Every call a run makes has a timeout, so its thread goes on.
Spec == Init /\ [][Next]_vars /\ \A r \in Requests : WF_vars(Step(r))

-----------------------------------------------------------------------------
(* Properties *)

\* A run or a task has one audit row of its own at most, and never one that says
\* it succeeded beside one that says it failed, although a row whose commit seemed
\* to fail may be there; nor has a flow that was answered a row of an error.
OneVerdict ==
  \A r \in Requests :
    /\ row[r]["succeeded"] + row[r]["failed"] <= 1
    /\ row[r]["answered"] + row[r]["raised"] <= 1

\* A run or a task that failed in one call only is seen: as a row of a failure or
\* as a report of it.  If that call was the audit of a task that was done, its
\* answer is all that says so.
OneFailureIsSeen ==
  \A r \in Requests :
    (at[r] = "ended" /\ answer[r] = 502 /\ hits[r] = 1 /\ failed[r] # "flow-audit") =>
      row[r]["failed"] = 1 \/ row[r]["raised"] = 1 \/ sent[r]["failure"] = 1

\* A lock is not held for ever, whatever fails: the next request can run.
LocksAreFreed == \A k \in Kinds : \A r \in Requests : (lock[k] = r) ~> (lock[k] # r)
=============================================================================
