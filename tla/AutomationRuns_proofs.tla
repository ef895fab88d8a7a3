------------------------- MODULE AutomationRuns_proofs -------------------------
(* Proofs about AutomationRuns. *)
EXTENDS AutomationRuns, TLAPS

-----------------------------------------------------------------------------
(* Types *)

Statuses == {"succeeded", "failed", "answered", "raised"}
Says == {"notice", "result", "failure"}

RunsTyped ==
  /\ lock \in [Kinds -> Requests \cup {NoRequest}]
  /\ kind \in [Requests -> Kinds \cup Tasks \cup {"none"}]
  /\ at \in [Requests -> Running \cup InTask \cup {"idle", "ended"}]
  /\ failed \in [Requests -> Stages \cup InTask \cup {"none"}]
  /\ row \in [Requests -> [Statuses -> Nat]]
  /\ sent \in [Requests -> [Says -> Nat]]
  /\ answer \in [Requests -> {0, 200, 409, 502}]
  /\ hits \in [Requests -> Nat]

-----------------------------------------------------------------------------
(* What a run has left behind when it reaches a step *)

\* The audit rows: none until its last stage or the handler of a failure, and
\* the handler of a failed audit writes none; that of the flow is the last step.
Verdict(r) ==
  /\ at[r] \in {"idle", "failed-audit", "task", "task-audit", "task-failed"} \cup Stages
       => row[r]["succeeded"] = 0 /\ row[r]["failed"] = 0
  /\ row[r]["succeeded"] + row[r]["failed"] <= 1
  /\ at[r] # "ended" => row[r]["answered"] = 0 /\ row[r]["raised"] = 0
  /\ row[r]["answered"] + row[r]["raised"] <= 1

\* The calls that failed and the reports of it.
Seen(r) ==
  /\ at[r] \notin Failing \cup {"release", "ended"} => answer[r] # 502
  /\ at[r] \notin {"release", "ended"} => sent[r]["failure"] = 0
  /\ at[r] \in Failing \cup {"task-failed", "flow-failed"} => hits[r] >= 1
  /\ at[r] \in {"release", "ended"} /\ answer[r] = 502 =>
       /\ hits[r] >= 1
       /\ hits[r] = 1 /\ failed[r] # "flow-audit" =>
            row[r]["failed"] = 1 \/ row[r]["raised"] = 1 \/ sent[r]["failure"] = 1

\* A run that is not over holds the lock of its kind, and only such a run does.
Locked ==
  /\ \A r \in Requests : at[r] \in Running => kind[r] \in Kinds /\ lock[kind[r]] = r
  /\ \A k \in Kinds : lock[k] # NoRequest => at[lock[k]] \in Running /\ kind[lock[k]] = k

RunInv == RunsTyped /\ Locked /\ \A r \in Requests : Verdict(r) /\ Seen(r)

LEMMA RunInit == Init => RunInv
<1> SUFFICES ASSUME Init PROVE RunInv
  OBVIOUS
<1>1. RunsTyped
  BY DEF Init, RunsTyped, Kinds, Tasks, Statuses, Says
<1>2. Locked
  BY DEF Init, Locked, Running, InTask, Stages, Failing
<1>3. \A r \in Requests : Verdict(r) /\ Seen(r)
  BY DEF Init, Verdict, Seen, Failing
<1> QED
  BY <1>1, <1>2, <1>3 DEF RunInv

\* A request that arrives touches no row, no message and no other request.
LEMMA EnterStep ==
  ASSUME RunInv, NEW r \in Requests, NEW k \in Kinds, Enter(r, k)
  PROVE  RunInv'
<1> USE RunAssumption DEF RunInv, Enter, Goto, traceVars, Running, InTask, Stages, Failing
<1>1. RunsTyped'
  BY DEF RunsTyped
<1>2. Locked'
  BY DEF Locked, RunsTyped, Kinds
<1>3. \A q \in Requests : (Verdict(q) /\ Seen(q))'
  BY DEF RunsTyped, Verdict, Seen
<1> QED
  BY <1>1, <1>2, <1>3

LEMMA BusyStep ==
  ASSUME RunInv, NEW r \in Requests, NEW k \in Kinds, Busy(r, k)
  PROVE  RunInv'
<1> USE DEF RunInv, Busy, Goto, traceVars, Running, InTask, Stages, Failing
<1>1. RunsTyped'
  BY DEF RunsTyped
<1>2. Locked'
  BY DEF Locked, RunsTyped, Kinds
<1>3. \A q \in Requests : (Verdict(q) /\ Seen(q))'
  BY DEF RunsTyped, Verdict, Seen
<1> QED
  BY <1>1, <1>2, <1>3

LEMMA AskStep ==
  ASSUME RunInv, NEW r \in Requests, NEW t \in Tasks, Ask(r, t)
  PROVE  RunInv'
<1> USE RunAssumption DEF RunInv, Ask, Goto, traceVars, Running, InTask, Stages, Failing
<1>1. RunsTyped'
  BY DEF RunsTyped
<1>2. Locked'
  BY DEF Locked, RunsTyped, Kinds
<1>3. \A q \in Requests : (Verdict(q) /\ Seen(q))'
  BY DEF RunsTyped, Verdict, Seen
<1> QED
  BY <1>1, <1>2, <1>3

LEMMA RestartStep == ASSUME RunInv, Restart PROVE RunInv'
<1> USE RunAssumption DEF RunInv, Restart, Running, InTask, Stages, Failing, traceVars
<1>1. RunsTyped'
  BY DEF RunsTyped
<1>2. Locked'
  BY DEF Locked, RunsTyped, Kinds
<1>3. \A q \in Requests : (Verdict(q) /\ Seen(q))'
  BY DEF RunsTyped, Verdict, Seen
<1> QED
  BY <1>1, <1>2, <1>3

-----------------------------------------------------------------------------
(* The steps of a run *)

\* A message of r, that may have arrived.
LEMMA MaySendIs ==
  ASSUME RunsTyped, NEW r \in Requests, NEW what \in Says, MaySend(r, what)
  PROVE  /\ sent' = [sent EXCEPT ![r] = sent'[r]] /\ sent'[r] \in [Says -> Nat]
         /\ \A w \in Says : w # what => sent'[r][w] = sent[r][w]
         /\ sent'[r][what] \in {sent[r][what], sent[r][what] + 1}
<1> USE DEF RunsTyped
<1>1. CASE UNCHANGED sent BY <1>1
<1>2. CASE Send(r, what) BY <1>2 DEF Send
<1> QED
  BY <1>1, <1>2 DEF MaySend

\* An audit row of r, that may have been written.
LEMMA MayWriteIs ==
  ASSUME RunsTyped, NEW r \in Requests, NEW status \in Statuses, MayWrite(r, status)
  PROVE  /\ row' = [row EXCEPT ![r] = row'[r]] /\ row'[r] \in [Statuses -> Nat]
         /\ \A s \in Statuses : s # status => row'[r][s] = row[r][s]
         /\ row'[r][status] \in {row[r][status], row[r][status] + 1}
<1> USE DEF RunsTyped
<1>1. CASE UNCHANGED row BY <1>1
<1>2. CASE Write(r, status) BY <1>2 DEF Write
<1> QED
  BY <1>1, <1>2 DEF MayWrite

\* What the failure of a stage does.
LEMMA RaiseIs ==
  ASSUME RunsTyped, NEW r \in Requests, Raise(r)
  PROVE  /\ at[r] \in Stages /\ failed' = [failed EXCEPT ![r] = at[r]]
         /\ answer' = [answer EXCEPT ![r] = 502] /\ hits' = [hits EXCEPT ![r] = @ + 1]
         /\ \/ at' = [at EXCEPT ![r] = "failed-audit"] /\ UNCHANGED row
            \/ at' = [at EXCEPT ![r] = "failed-report"]
         /\ UNCHANGED row \/ MayWrite(r, "succeeded")
         /\ UNCHANGED sent \/ MaySend(r, "notice") \/ MaySend(r, "result")
         /\ UNCHANGED <<lock, kind>>
<1>1. CASE at[r] = "audit"
  BY <1>1 DEF Raise, Handle, Hit, Goto, Stages
<1>2. CASE at[r] # "audit"
  <2>1. UNCHANGED row
    BY <1>2 DEF Raise, traceVars, Stages
  <2>2. UNCHANGED sent \/ MaySend(r, "notice") \/ MaySend(r, "result")
    BY <1>2 DEF Raise, traceVars, Stages
  <2> QED
    BY <2>1, <2>2 DEF Raise, Handle, Hit, Goto
<1> QED
  BY <1>1, <1>2

\* The rows and messages it does not touch.
LEMMA RaiseKeeps ==
  ASSUME RunsTyped, NEW r \in Requests, Raise(r)
  PROVE  /\ \A s \in Statuses : s # "succeeded" => row'[r][s] = row[r][s]
         /\ row'[r]["succeeded"] \in {row[r]["succeeded"], row[r]["succeeded"] + 1}
         /\ sent'[r]["failure"] = sent[r]["failure"]
<1>1. /\ \A s \in Statuses : s # "succeeded" => row'[r][s] = row[r][s]
      /\ row'[r]["succeeded"] \in {row[r]["succeeded"], row[r]["succeeded"] + 1}
  <2>1. CASE UNCHANGED row BY <2>1
  <2>2. CASE MayWrite(r, "succeeded") BY <2>2, MayWriteIs DEF Statuses
  <2> QED
    BY <2>1, <2>2, RaiseIs
<1>2. sent'[r]["failure"] = sent[r]["failure"]
  <2>1. CASE UNCHANGED sent BY <2>1
  <2>2. CASE MaySend(r, "notice") BY <2>2, MaySendIs DEF Says
  <2>3. CASE MaySend(r, "result") BY <2>3, MaySendIs DEF Says
  <2> QED
    BY <2>1, <2>2, <2>3, RaiseIs
<1> QED
  BY <1>1, <1>2

\* What the handler of a failure does first.
LEMMA FailureAuditedIs ==
  ASSUME RunsTyped, NEW r \in Requests, FailureAudited(r)
  PROVE  /\ at[r] = "failed-audit"
         /\ \/ at' = [at EXCEPT ![r] = "release"]
            \/ at' = [at EXCEPT ![r] = "failed-report"]
         /\ MayWrite(r, "failed")
         /\ \/ row' = [row EXCEPT ![r]["failed"] = @ + 1] /\ UNCHANGED hits
            \/ hits' = [hits EXCEPT ![r] = @ + 1]
         /\ UNCHANGED <<lock, kind, failed, sent, answer>>
<1>1. \/ at' = [at EXCEPT ![r] = "release"]
      \/ at' = [at EXCEPT ![r] = "failed-report"]
  BY DEF FailureAudited, AfterAudit, Goto
<1>2. MayWrite(r, "failed")
  BY DEF FailureAudited, MayWrite
<1> QED
  BY <1>1, <1>2 DEF FailureAudited, Hit, Write

\* What a step of r may change of r itself, and nothing of the others.
Changes(r) ==
  /\ at' = [at EXCEPT ![r] = at'[r]] /\ row' = [row EXCEPT ![r] = row'[r]]
  /\ sent' = [sent EXCEPT ![r] = sent'[r]] /\ answer' = [answer EXCEPT ![r] = answer'[r]]
  /\ hits' = [hits EXCEPT ![r] = hits'[r]] /\ failed' = [failed EXCEPT ![r] = failed'[r]]
  /\ UNCHANGED kind
  /\ failed'[r] \in Stages \cup InTask \cup {"none"}
  /\ row'[r] \in [Statuses -> Nat] /\ sent'[r] \in [Says -> Nat]
  /\ answer'[r] \in {0, 200, 409, 502} /\ hits'[r] \in Nat

\* A run frees its lock with its last step, a task has none.
Moves(r) ==
  /\ Changes(r)
  /\ lock' = IF at[r] = "release" THEN [lock EXCEPT ![kind[r]] = NoRequest] ELSE lock
  /\ at[r] \in Running
  /\ at[r] = "release" => at'[r] = "ended"
  /\ at[r] # "release" => at'[r] \in Running
TaskMoves(r) ==
  Changes(r) /\ UNCHANGED lock /\ at[r] \in InTask /\ at'[r] \in InTask \cup {"ended"}

LEMMA StepMoves ==
  ASSUME RunInv, NEW r \in Requests, Step(r)
  PROVE  Moves(r)
<1> USE DEF RunInv, RunsTyped, Moves, Changes, Goto, Send, Write, MaySend, MayWrite, Hit,
            traceVars, Running, Stages, Failing, Statuses, Says, Succeed
<1>1. CASE CycleEnds(r) BY <1>1 DEF CycleEnds
<1>2. CASE Notice(r) BY <1>2 DEF Notice
<1>3. CASE NoticeSkipped(r)
  <2>1. sent' = [sent EXCEPT ![r] = sent'[r]] /\ sent'[r] \in [Says -> Nat]
    BY <1>3, MaySendIs DEF NoticeSkipped
  <2> QED
    BY <1>3, <2>1 DEF NoticeSkipped
<1>4. CASE Analysed(r) BY <1>4 DEF Analysed
<1>5. CASE Reported(r) BY <1>5 DEF Reported
<1>6. CASE Audited(r) BY <1>6 DEF Audited
<1>7. CASE Raise(r)
  <2>1. sent' = [sent EXCEPT ![r] = sent'[r]] /\ sent'[r] \in [Says -> Nat]
    BY <1>7, RaiseIs, MaySendIs
  <2>2. row' = [row EXCEPT ![r] = row'[r]] /\ row'[r] \in [Statuses -> Nat]
    BY <1>7, RaiseIs, MayWriteIs
  <2>3. /\ failed' = [failed EXCEPT ![r] = failed'[r]] /\ failed'[r] \in Stages
        /\ answer' = [answer EXCEPT ![r] = answer'[r]] /\ answer'[r] = 502
        /\ hits' = [hits EXCEPT ![r] = hits'[r]] /\ hits'[r] \in Nat
    BY <1>7, RaiseIs
  <2>4. /\ at[r] \in Stages /\ at' = [at EXCEPT ![r] = at'[r]] /\ at'[r] \in Failing
        /\ UNCHANGED <<lock, kind>>
    BY <1>7, RaiseIs
  <2> QED
    BY <2>1, <2>2, <2>3, <2>4
<1>8. CASE FailureAudited(r) BY <1>8, FailureAuditedIs, MayWriteIs
<1>9. CASE FailureReported(r)
  <2>1. sent' = [sent EXCEPT ![r] = sent'[r]] /\ sent'[r] \in [Says -> Nat]
    BY <1>9, MaySendIs DEF FailureReported
  <2>2. hits' = [hits EXCEPT ![r] = hits'[r]] /\ hits'[r] \in Nat
    BY <1>9 DEF FailureReported
  <2> QED
    BY <1>9, <2>1, <2>2 DEF FailureReported
<1>10. CASE Release(r) BY <1>10 DEF Release
<1> QED
  BY <1>1, <1>2, <1>3, <1>4, <1>5, <1>6, <1>7, <1>8, <1>9, <1>10 DEF Step

LEMMA StepVerdict ==
  ASSUME RunInv, NEW r \in Requests, Step(r)
  PROVE  Verdict(r)'
<1> USE DEF RunInv, RunsTyped, Verdict, Goto, Send, Write, MaySend, MayWrite,
            traceVars, Stages, Statuses, Succeed
<1>1. CASE CycleEnds(r) BY <1>1 DEF CycleEnds
<1>2. CASE Notice(r) BY <1>2 DEF Notice
<1>3. CASE NoticeSkipped(r) BY <1>3 DEF NoticeSkipped
<1>4. CASE Analysed(r) BY <1>4 DEF Analysed
<1>5. CASE Reported(r) BY <1>5 DEF Reported
<1>6. CASE Audited(r) BY <1>6 DEF Audited
<1>7. CASE Raise(r)
  <2>1. row[r]["succeeded"] = 0 /\ row[r]["failed"] = 0
    BY <1>7, RaiseIs
  <2>2. row'[r]["succeeded"] \in {0, 1} /\ row'[r]["failed"] = 0
    BY <1>7, <2>1, RaiseKeeps
  <2>f. row'[r]["answered"] = 0 /\ row'[r]["raised"] = 0
    <3>1. row[r]["answered"] = 0 /\ row[r]["raised"] = 0
      BY <1>7, RaiseIs
    <3> QED
      BY <1>7, <3>1, RaiseKeeps
  <2>3. \/ at'[r] = "failed-report"
        \/ at'[r] = "failed-audit" /\ row'[r] = row[r]
    BY <1>7, RaiseIs
  <2> QED
    BY <2>1, <2>2, <2>f, <2>3
<1>8. CASE FailureAudited(r)
  <2>1. row[r]["succeeded"] = 0 /\ row[r]["failed"] = 0
    BY <1>8, FailureAuditedIs
  <2>2. row'[r]["failed"] \in {0, 1} /\ row'[r]["succeeded"] = 0
    BY <1>8, <2>1, FailureAuditedIs, MayWriteIs
  <2>f. row'[r]["answered"] = 0 /\ row'[r]["raised"] = 0
    BY <1>8, FailureAuditedIs, MayWriteIs
  <2>3. at'[r] \in {"release", "failed-report"}
    BY <1>8, FailureAuditedIs
  <2> QED
    BY <2>2, <2>f, <2>3
<1>9. CASE FailureReported(r) BY <1>9 DEF FailureReported
<1>10. CASE Release(r) BY <1>10 DEF Release
<1> QED
  BY <1>1, <1>2, <1>3, <1>4, <1>5, <1>6, <1>7, <1>8, <1>9, <1>10 DEF Step

\* In a stage nothing was reported yet.
LEMMA StageSeen ==
  ASSUME RunInv, NEW r \in Requests, at[r] \in Stages
  PROVE  sent[r]["failure"] = 0 /\ answer[r] # 502 /\ hits[r] \in Nat
<1>1. Seen(r)
  BY DEF RunInv
<1>2. hits[r] \in Nat
  BY DEF RunInv, RunsTyped
<1>3. at[r] \notin Failing \cup {"release", "ended"}
  BY DEF Stages, Failing
<1> QED
  BY <1>1, <1>2, <1>3 DEF Seen

LEMMA StepSeen ==
  ASSUME RunInv, NEW r \in Requests, Step(r)
  PROVE  Seen(r)'
<1> USE DEF RunInv, RunsTyped, Verdict, Seen, Goto, Send, Write, MaySend, MayWrite, Hit,
            traceVars, Stages, Failing, Statuses, Says, Succeed
<1>1. CASE CycleEnds(r) BY <1>1 DEF CycleEnds
<1>2. CASE Notice(r) BY <1>2 DEF Notice
<1>3. CASE NoticeSkipped(r) BY <1>3 DEF NoticeSkipped
<1>4. CASE Analysed(r) BY <1>4 DEF Analysed
<1>5. CASE Reported(r)
  <2>1. sent'[r]["failure"] = sent[r]["failure"]
    <3>1. sent \in [Requests -> [Says -> Nat]] /\ r \in Requests
      OBVIOUS
    <3>2. sent' = [sent EXCEPT ![r]["result"] = @ + 1]
      BY <1>5 DEF Reported
    <3> QED
      BY ONLY <3>1, <3>2 DEF Says
  <2>2. sent[r]["failure"] = 0 /\ answer[r] # 502
    <3>1. at[r] \in Stages
      BY <1>5 DEF Reported
    <3> QED
      BY ONLY <3>1, StageSeen, RunInv, r \in Requests
  <2>3. at'[r] = "audit" /\ answer' = answer
    BY <1>5 DEF Reported
  <2> QED
    BY <2>1, <2>2, <2>3
<1>6. CASE Audited(r) BY <1>6 DEF Audited
<1>7. CASE Raise(r)
  <2>1. sent[r]["failure"] = 0
    <3>1. at[r] \in Stages
      BY <1>7, RaiseIs
    <3> QED
      BY ONLY <3>1, StageSeen, RunInv, r \in Requests
  <2>2. sent'[r]["failure"] = 0
    BY <1>7, <2>1, RaiseKeeps
  <2>3. at'[r] \in Failing /\ hits[r] \in Nat /\ hits'[r] = hits[r] + 1
    BY <1>7, RaiseIs
  <2> QED
    BY <2>2, <2>3
<1>8. CASE FailureAudited(r)
  <2>1. /\ row[r]["failed"] = 0 /\ hits[r] \in Nat /\ hits[r] >= 1
        /\ sent[r]["failure"] = 0 /\ sent' = sent
    BY <1>8, FailureAuditedIs
  <2>2. \/ row'[r]["failed"] = 1 /\ hits'[r] = hits[r]
        \/ hits'[r] = hits[r] + 1
    BY <1>8, <2>1, FailureAuditedIs
  <2>3. at'[r] \in {"release", "failed-report"}
    BY <1>8, FailureAuditedIs
  <2> QED
    BY <2>1, <2>2, <2>3
<1>9. CASE FailureReported(r) BY <1>9 DEF FailureReported
<1>10. CASE Release(r) BY <1>10 DEF Release
<1> QED
  BY <1>1, <1>2, <1>3, <1>4, <1>5, <1>6, <1>7, <1>8, <1>9, <1>10 DEF Step

\* What a step of r leaves alone.
LEMMA ChangesKeep ==
  ASSUME RunInv, NEW r \in Requests, Changes(r), Verdict(r)', Seen(r)',
         at'[r] \in Running \cup InTask \cup {"ended"},
         lock' \in [Kinds -> Requests \cup {NoRequest}]
  PROVE  /\ RunsTyped' /\ \A q \in Requests : (Verdict(q) /\ Seen(q))'
         /\ \A q \in Requests : q # r => at'[q] = at[q]
<1>1. RunsTyped'
  <2>1. at' \in [Requests -> Running \cup InTask \cup {"idle", "ended"}]
    <3>1. at' = [at EXCEPT ![r] = at'[r]]
      BY DEF Changes
    <3>2. at \in [Requests -> Running \cup InTask \cup {"idle", "ended"}]
      BY DEF RunInv, RunsTyped
    <3> QED
      BY <3>1, <3>2
  <2>2. row' \in [Requests -> [Statuses -> Nat]] /\ sent' \in [Requests -> [Says -> Nat]]
    <3>1. row' = [row EXCEPT ![r] = row'[r]] /\ row'[r] \in [Statuses -> Nat]
      BY DEF Changes
    <3>2. sent' = [sent EXCEPT ![r] = sent'[r]] /\ sent'[r] \in [Says -> Nat]
      BY DEF Changes
    <3>3. row \in [Requests -> [Statuses -> Nat]] /\ sent \in [Requests -> [Says -> Nat]]
      BY DEF RunInv, RunsTyped
    <3> QED
      BY <3>1, <3>2, <3>3
  <2>3. /\ answer' \in [Requests -> {0, 200, 409, 502}] /\ hits' \in [Requests -> Nat]
        /\ failed' \in [Requests -> Stages \cup InTask \cup {"none"}] /\ kind' = kind
    <3>1. /\ answer' = [answer EXCEPT ![r] = answer'[r]] /\ hits' = [hits EXCEPT ![r] = hits'[r]]
          /\ failed' = [failed EXCEPT ![r] = failed'[r]]
          /\ answer'[r] \in {0, 200, 409, 502} /\ hits'[r] \in Nat
          /\ failed'[r] \in Stages \cup InTask \cup {"none"} /\ kind' = kind
      BY DEF Changes
    <3>2. /\ answer \in [Requests -> {0, 200, 409, 502}] /\ hits \in [Requests -> Nat]
          /\ failed \in [Requests -> Stages \cup InTask \cup {"none"}]
      BY DEF RunInv, RunsTyped
    <3> QED
      BY <3>1, <3>2
  <2> QED
    BY <2>1, <2>2, <2>3 DEF RunInv, RunsTyped
<1>2. \A q \in Requests : q # r => /\ at'[q] = at[q] /\ row'[q] = row[q] /\ sent'[q] = sent[q]
                                   /\ answer'[q] = answer[q] /\ hits'[q] = hits[q]
                                   /\ failed'[q] = failed[q]
  BY DEF RunInv, RunsTyped, Changes
<1>3. \A q \in Requests : (Verdict(q) /\ Seen(q))'
  BY <1>2 DEF RunInv, Verdict, Seen
<1> QED
  BY <1>1, <1>2, <1>3

-----------------------------------------------------------------------------
(* The steps of a task *)

LEMMA TaskStepMoves ==
  ASSUME RunInv, NEW r \in Requests, TaskStep(r)
  PROVE  TaskMoves(r) /\ Verdict(r)' /\ Seen(r)'
<1> USE DEF RunInv, RunsTyped, TaskMoves, Changes, Goto, Hit, traceVars, InTask,
            Statuses, Says
<1>s. ASSUME NEW what \in Says, MaySend(r, what)
      PROVE  /\ sent' = [sent EXCEPT ![r] = sent'[r]] /\ sent'[r] \in [Says -> Nat]
             /\ \A w \in Says : w # what => sent'[r][w] = sent[r][w]
  BY <1>s, MaySendIs
<1>w. ASSUME NEW status \in Statuses, MayWrite(r, status)
      PROVE  /\ row' = [row EXCEPT ![r] = row'[r]] /\ row'[r] \in [Statuses -> Nat]
             /\ \A s \in Statuses : s # status => row'[r][s] = row[r][s]
             /\ row'[r][status] \in {row[r][status], row[r][status] + 1}
  BY <1>w, MayWriteIs
<1>1. CASE TaskDone(r)
  <2>1. /\ sent' = [sent EXCEPT ![r] = sent'[r]] /\ sent'[r] \in [Says -> Nat]
        /\ sent'[r]["failure"] = sent[r]["failure"]
    BY <1>1, <1>s DEF TaskDone
  <2>2. TaskMoves(r)
    BY <1>1, <2>1 DEF TaskDone
  <2> QED
    BY <1>1, <2>1, <2>2 DEF TaskDone, Verdict, Seen, Stages, Failing
<1>2. CASE TaskRaises(r)
  <2>1. /\ sent' = [sent EXCEPT ![r] = sent'[r]] /\ sent'[r] \in [Says -> Nat]
        /\ sent'[r]["failure"] = sent[r]["failure"]
    BY <1>2, <1>s DEF TaskRaises
  <2>2. TaskMoves(r)
    BY <1>2, <2>1 DEF TaskRaises
  <2> QED
    BY <1>2, <2>1, <2>2 DEF TaskRaises, Verdict, Seen, Stages, Failing
<1>3. CASE TaskAudited(r)
  <2>1. MayWrite(r, "succeeded")
    BY <1>3 DEF TaskAudited, MayWrite
  <2>2. TaskMoves(r)
    BY <1>3, <1>w, <2>1 DEF TaskAudited
  <2> QED
    BY <1>3, <1>w, <2>1, <2>2 DEF TaskAudited, Verdict, Seen, Stages, Failing
<1>4. CASE TaskFailureAudited(r)
  <2>1. MayWrite(r, "failed")
    BY <1>4 DEF TaskFailureAudited, MayWrite
  <2>2. TaskMoves(r)
    BY <1>4, <1>w, <2>1 DEF TaskFailureAudited
  <2>3. /\ row'[r]["succeeded"] = 0 /\ row'[r]["failed"] \in {0, 1}
        /\ row'[r]["answered"] = 0 /\ row'[r]["raised"] = 0
    BY <1>4, <1>w, <2>1 DEF TaskFailureAudited, Verdict
  <2>4. /\ at'[r] = "flow-failed" /\ UNCHANGED <<sent, answer>> /\ at[r] = "task-failed"
        /\ hits'[r] >= 1
    BY <1>4 DEF TaskFailureAudited, Seen
  <2>5. Verdict(r)'
    BY <2>3, <2>4 DEF Verdict, Stages
  <2>6. Seen(r)'
    BY <2>4 DEF Seen, Failing
  <2> QED
    BY <2>2, <2>5, <2>6
<1>5. CASE FlowAudited(r)
  <2>1. MayWrite(r, "answered")
    BY <1>5 DEF FlowAudited, MayWrite
  <2>2. TaskMoves(r)
    BY <1>5, <1>w, <2>1 DEF FlowAudited, AnswerError
  <2> QED
    BY <1>5, <1>w, <2>1, <2>2 DEF FlowAudited, AnswerError, Verdict, Seen, Stages, Failing
<1>6. CASE FlowFailureAudited(r)
  <2>1. MayWrite(r, "raised")
    BY <1>6 DEF FlowFailureAudited, MayWrite
  <2>2. TaskMoves(r)
    BY <1>6, <1>w, <2>1 DEF FlowFailureAudited, AnswerError
  <2>3. \/ row'[r]["raised"] = row[r]["raised"] + 1 /\ hits' = hits
        \/ hits'[r] = hits[r] + 1
    BY <1>6 DEF FlowFailureAudited, Write
  <2> QED
    BY <1>6, <1>w, <2>1, <2>2, <2>3 DEF FlowFailureAudited, AnswerError, Verdict, Seen, Stages, Failing
<1> QED
  BY <1>1, <1>2, <1>3, <1>4, <1>5, <1>6 DEF TaskStep

-----------------------------------------------------------------------------
(* Every step *)

LEMMA RunStep == ASSUME RunInv, [Next]_vars PROVE RunInv'
<1>1. CASE UNCHANGED vars
  BY <1>1 DEF vars, traceVars, RunInv, RunsTyped, Locked, Verdict, Seen
<1>2. ASSUME NEW r \in Requests, Step(r) PROVE RunInv'
  <2>1. Moves(r) /\ Verdict(r)' /\ Seen(r)'
    BY <1>2, StepMoves, StepVerdict, StepSeen
  <2>2. lock' \in [Kinds -> Requests \cup {NoRequest}]
    BY <2>1 DEF RunInv, RunsTyped, Moves, Changes
  <2>3. at'[r] \in Running \cup InTask \cup {"ended"}
    BY <2>1 DEF Moves
  <2>4. /\ RunsTyped' /\ \A q \in Requests : (Verdict(q) /\ Seen(q))'
        /\ \A q \in Requests : q # r => at'[q] = at[q]
    BY <2>1, <2>2, <2>3, ChangesKeep DEF Moves
  <2>5. Locked'
    <3>1. CASE at[r] # "release"
      <4>1. lock' = lock /\ kind' = kind /\ at[r] \in Running /\ at'[r] \in Running
        BY <2>1, <3>1 DEF Moves, Changes
      <4>2. \A q \in Requests : at'[q] \in Running <=> at[q] \in Running
        BY <2>4, <4>1
      <4>3. \A k \in Kinds : lock[k] # NoRequest => lock[k] \in Requests
        BY DEF RunInv, RunsTyped
      <4> QED
        BY <4>1, <4>2, <4>3 DEF RunInv, Locked
    <3>2. CASE at[r] = "release"
      <4>1. /\ lock' = [lock EXCEPT ![kind[r]] = NoRequest] /\ kind' = kind
            /\ at'[r] = "ended" /\ at[r] \in Running
        BY <2>1, <3>2 DEF Moves, Changes
      <4>2. kind[r] \in Kinds /\ lock[kind[r]] = r
        BY <4>1 DEF RunInv, Locked
      <4>3. "ended" \notin Running
        BY DEF Running, Stages, Failing
      <4>4. ASSUME NEW q \in Requests, at'[q] \in Running
            PROVE  kind'[q] \in Kinds /\ lock'[kind'[q]] = q
        <5>1. q # r /\ at[q] \in Running
          BY <2>4, <4>1, <4>3, <4>4
        <5>2. kind[q] \in Kinds /\ lock[kind[q]] = q
          BY <5>1 DEF RunInv, Locked
        <5> QED
          BY <4>1, <4>2, <5>1, <5>2 DEF RunInv, RunsTyped
      <4>5. ASSUME NEW k \in Kinds, lock'[k] # NoRequest
            PROVE  at'[lock'[k]] \in Running /\ kind'[lock'[k]] = k
        <5>1. k # kind[r] /\ lock'[k] = lock[k]
          BY <4>1, <4>5 DEF RunInv, RunsTyped
        <5>2. at[lock[k]] \in Running /\ kind[lock[k]] = k /\ lock[k] \in Requests
          BY <4>5, <5>1 DEF RunInv, Locked, RunsTyped
        <5> QED
          BY <2>4, <4>1, <5>1, <5>2
      <4> QED
        BY <4>4, <4>5 DEF Locked
    <3> QED
      BY <3>1, <3>2
  <2> QED
    BY <2>4, <2>5 DEF RunInv
<1>3. ASSUME NEW r \in Requests, TaskStep(r) PROVE RunInv'
  <2>1. TaskMoves(r) /\ Verdict(r)' /\ Seen(r)'
    BY <1>3, TaskStepMoves
  <2>2. lock' = lock /\ kind' = kind /\ lock' \in [Kinds -> Requests \cup {NoRequest}]
    BY <2>1 DEF RunInv, RunsTyped, TaskMoves, Changes
  <2>3. at[r] \notin Running /\ at'[r] \notin Running /\ at'[r] \in Running \cup InTask \cup {"ended"}
    BY <2>1 DEF TaskMoves, InTask, Running, Stages, Failing
  <2>4. /\ RunsTyped' /\ \A q \in Requests : (Verdict(q) /\ Seen(q))'
        /\ \A q \in Requests : q # r => at'[q] = at[q]
    BY <2>1, <2>2, <2>3, ChangesKeep DEF TaskMoves
  <2>5. \A q \in Requests : at'[q] \in Running <=> at[q] \in Running
    BY <2>3, <2>4
  <2>6. \A k \in Kinds : lock[k] # NoRequest => lock[k] \in Requests
    BY DEF RunInv, RunsTyped
  <2> QED
    BY <2>2, <2>4, <2>5, <2>6 DEF RunInv, Locked
<1> QED
  BY <1>1, <1>2, <1>3, EnterStep, BusyStep, AskStep, RestartStep DEF Next

-----------------------------------------------------------------------------
(* Theorems *)

LEMMA RunInvariant == Spec => []RunInv
BY RunInit, RunStep, PTL DEF Spec

\* A run leaves one audit row at most, whichever of its calls fail and even if
\* a row whose commit seemed to fail is there; so does a task, beside that of its flow.
THEOREM RunsHaveOneVerdict == Spec => []OneVerdict
<1>1. RunInv => OneVerdict
  BY DEF RunInv, Verdict, OneVerdict
<1> QED
  BY <1>1, RunInvariant, PTL

\* A run or a task that failed in one call only has left a row of the failure or
\* the report of it.
THEOREM SingleFailureIsSeen == Spec => []OneFailureIsSeen
<1>1. RunInv => OneFailureIsSeen
  BY DEF RunInv, Seen, OneFailureIsSeen
<1> QED
  BY <1>1, RunInvariant, PTL

\* Of each kind one run is in progress at most: it holds the lock of its kind.
THEOREM OneRunOfAKind ==
  Spec => [](\A q, r \in Requests :
               at[q] \in Running /\ at[r] \in Running /\ kind[q] = kind[r] => q = r)
<1>1. RunInv => (\A q, r \in Requests :
               at[q] \in Running /\ at[r] \in Running /\ kind[q] = kind[r] => q = r)
  BY DEF RunInv, Locked
<1> QED
  BY <1>1, RunInvariant, PTL
=============================================================================
