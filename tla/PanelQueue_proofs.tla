-------------------------- MODULE PanelQueue_proofs --------------------------
(***************************************************************************)
(* The safety of the panel queue for any number of panels, runners, roles  *)
(* and faults.                                                             *)
(***************************************************************************)
EXTENDS PanelQueue, TLAPS

USE PanelAssumption

-----------------------------------------------------------------------------
(* Types *)

LEMMA TypeInit == Init => TypeOK
BY DEF Init, TypeOK

\* Keeping opinions keeps the type of the table and loses none of its entries.
LEMMA KeepFacts ==
  ASSUME TypeOK, NEW p \in Panels, NEW r \in Runs, NEW S
  PROVE  /\ Keep(p, r, S) \in [Panels -> [AllStages -> Runs \cup {NoRun}]]
         /\ \A q \in Panels, s \in AllStages :
              stored[q][s] # NoRun => Keep(p, r, S)[q][s] # NoRun
         /\ \A s \in AllStages : s \in S => Keep(p, r, S)[p][s] # NoRun
<1> DEFINE row == [s \in AllStages |->
                     IF s \in S /\ stored[p][s] = NoRun THEN r ELSE stored[p][s]]
<1>1. Keep(p, r, S) = [stored EXCEPT ![p] = row]
  BY DEF Keep
<1>2. row \in [AllStages -> Runs \cup {NoRun}]
  BY DEF TypeOK
<1>3. \A q \in Panels : Keep(p, r, S)[q] = IF q = p THEN row ELSE stored[q]
  BY <1>1 DEF TypeOK
<1> QED BY <1>1, <1>2, <1>3 DEF TypeOK

\* A claim or an end changes the status of a panel that is enqueued already.
LEMMA TypeStatus ==
  ASSUME TypeOK, NEW p \in Panels, status[p] # "absent",
         NEW new \in {"queued", "running"} \cup Terminal,
         status' = [status EXCEPT ![p] = new], order' = order
  PROVE  /\ status' \in [Panels -> {"absent", "queued", "running"} \cup Terminal]
         /\ \A q \in Panels :
              (status'[q] # "absent") <=> \E i \in DOMAIN order' : order'[i] = q
BY DEF TypeOK, Terminal

LEMMA TypeEnqueue == ASSUME TypeOK, NEW p \in Panels, Enqueue(p) PROVE TypeOK'
<1> USE DEF TypeOK, Enqueue, runVars, sentVars
<1>1. order' \in Seq(Panels) /\ Len(order') = Len(order) + 1
  OBVIOUS
<1>2. \A i \in 1..Len(order) : order'[i] = order[i] /\ order[i] # p
  OBVIOUS
<1>3. order'[Len(order) + 1] = p
  OBVIOUS
<1>4. /\ DOMAIN order' = 1..(Len(order) + 1)
      /\ DOMAIN order = 1..Len(order)
      /\ Len(order) \in Nat
  BY <1>1
<1>5. \A i, j \in DOMAIN order' : order'[i] = order'[j] => i = j
  BY <1>2, <1>3, <1>4
<1>6. ASSUME NEW q \in Panels
      PROVE  (status'[q] # "absent") <=> \E i \in DOMAIN order' : order'[i] = q
  <2>1. CASE q = p
    <3>1. status'[q] = "queued"
      BY <2>1
    <3>2. Len(order) + 1 \in DOMAIN order'
      BY <1>4
    <3> QED BY <2>1, <3>1, <3>2, <1>3
  <2>2. CASE q # p
    <3>1. status'[q] = status[q]
      BY <2>2
    <3>2. ASSUME NEW i \in DOMAIN order, order[i] = q
          PROVE  \E j \in DOMAIN order' : order'[j] = q
      BY <3>2, <1>2, <1>4
    <3>3. ASSUME NEW i \in DOMAIN order', order'[i] = q
          PROVE  \E j \in DOMAIN order : order[j] = q
      BY <3>3, <2>2, <1>2, <1>3, <1>4
    <3>4. (status[q] # "absent") <=> \E i \in DOMAIN order : order[i] = q
      OBVIOUS
    <3> QED BY <3>1, <3>2, <3>3, <3>4
  <2> QED BY <2>1, <2>2
<1> QED BY <1>1, <1>5, <1>6

LEMMA TypeClaim ==
  ASSUME TypeOK, NEW p \in Panels, ClaimPanel(p)
  PROVE  /\ status' \in [Panels -> {"absent", "queued", "running"} \cup Terminal]
         /\ \A q \in Panels :
              (status'[q] # "absent") <=> \E i \in DOMAIN order' : order'[i] = q
         /\ stale' \subseteq Panels
BY TypeStatus DEF ClaimPanel, Claimable, TypeOK

LEMMA TypeFinish ==
  ASSUME TypeOK, NEW p \in Panels, NEW outcome \in Terminal, FinishPanel(p, outcome)
  PROVE  /\ status' \in [Panels -> {"absent", "queued", "running"} \cup Terminal]
         /\ \A q \in Panels :
              (status'[q] # "absent") <=> \E i \in DOMAIN order' : order'[i] = q
         /\ stale' \subseteq Panels
BY TypeStatus DEF FinishPanel, TypeOK
-----------------------------------------------------------------------------
(* The inductive invariant *)

\* A run that is not idle has a panel; an idle one has no request.
RunInv ==
  \A r \in Runs : /\ at[r] = "idle" => complete[r] = "none" /\ fail[r] = "none"
                  /\ at[r] # "idle" => panel[r] \in Panels

AllStored(p) == \A s \in StagesOf(p) : stored[p][s] # NoRun

\* A completion that is past its first commit has every opinion stored, and
\* past its second one the judgment sent.
CompleteInv ==
  /\ \A r \in Runs : /\ complete[r] \in {"report", "finish"} => AllStored(panel[r])
                     /\ complete[r] = "finish" => reports[panel[r]] # {}
  /\ \A p \in Panels : reports[p] # {} => AllStored(p)
  /\ SucceededIsReported

\* At most one request is about to alert the failure of a panel, and of a
\* panel that failed by that request.
AlertInv ==
  /\ \A r \in Runs : fail[r] = "alert" =>
                       status[panel[r]] = "failed" /\ alerts[panel[r]] = 0
  /\ \A r, q \in Runs :
       fail[r] = "alert" /\ fail[q] = "alert" /\ panel[r] = panel[q] => r = q
  /\ AlertedIsFailed

PanelInv == TypeOK /\ RunInv /\ CompleteInv /\ AlertInv

LEMMA PanelInit == Init => PanelInv
BY TypeInit DEF Init, PanelInv, RunInv, CompleteInv, AlertInv, SucceededIsReported,
                AlertedIsFailed

LEMMA StagesKnown == \A p : StagesOf(p) \subseteq AllStages
BY DEF StagesOf, AllStages

\* What keeping more opinions leaves in place.
LEMMA KeepCompletes ==
  ASSUME PanelInv, NEW p \in Panels, NEW r \in Runs, NEW S,
         stored' = Keep(p, r, S)
  PROVE  /\ stored' \in [Panels -> [AllStages -> Runs \cup {NoRun}]]
         /\ \A q \in Panels : AllStored(q) => AllStored(q)'
         /\ StagesOf(p) \subseteq S => AllStored(p)'
BY KeepFacts, StagesKnown DEF PanelInv, AllStored

-----------------------------------------------------------------------------
(* The steps of the queue and of a runner *)

LEMMA EnqueueStep == ASSUME PanelInv, NEW p \in Panels, Enqueue(p) PROVE PanelInv'
<1>1. TypeOK'
  BY TypeEnqueue DEF PanelInv
<1> USE DEF Enqueue, runVars, sentVars
<1>2. \A q \in Panels : status'[q] # status[q] => q = p /\ status'[q] = "queued"
  BY DEF PanelInv, TypeOK
<1>3. RunInv'
  BY DEF PanelInv, RunInv
<1>4. CompleteInv'
  BY <1>2 DEF PanelInv, CompleteInv, SucceededIsReported, AllStored
<1>5. AlertInv'
  BY <1>2 DEF PanelInv, AlertInv, AlertedIsFailed, RunInv
<1> QED BY <1>1, <1>3, <1>4, <1>5 DEF PanelInv

LEMMA AgeStep == ASSUME PanelInv, NEW p \in Panels, Age(p) PROVE PanelInv'
<1> USE DEF Age, runVars, sentVars
<1>1. TypeOK'
  BY DEF PanelInv, TypeOK
<1>2. RunInv' /\ CompleteInv' /\ AlertInv'
  BY DEF PanelInv, RunInv, CompleteInv, AlertInv, SucceededIsReported,
         AlertedIsFailed, AllStored
<1> QED BY <1>1, <1>2 DEF PanelInv

\* A claim makes a panel that has not ended a running one.
LEMMA ClaimFacts ==
  ASSUME PanelInv, NEW p \in Panels, ClaimPanel(p)
  PROVE  \A q \in Panels : status'[q] # status[q] =>
            status[q] \notin Terminal /\ status'[q] = "running"
BY DEF ClaimPanel, Claimable, PanelInv, TypeOK, Terminal

LEMMA ClaimStep == ASSUME PanelInv, NEW r \in Runs, Claim(r) PROVE PanelInv'
<1>1. PICK p \in Panels :
        /\ ClaimPanel(p)
        /\ panel' = [panel EXCEPT ![r] = p]
        /\ IF p \in Hourly
           THEN /\ at' = [at EXCEPT ![r] = "judge"]
                /\ UNCHANGED left
           ELSE /\ at' = [at EXCEPT ![r] = "independent"]
                /\ left' = [left EXCEPT ![r] = Independent]
  BY DEF Claim
<1>2. UNCHANGED <<got, complete, fail, reports, alerts, losses, order, stored>>
  BY <1>1 DEF Claim, sentVars, ClaimPanel
<1>3. at[r] = "idle" /\ complete[r] = "none" /\ fail[r] = "none"
  BY DEF Claim, PanelInv, RunInv
<1>4. TypeOK'
  <2>1. /\ status' \in [Panels -> {"absent", "queued", "running"} \cup Terminal]
        /\ \A q \in Panels :
             (status'[q] # "absent") <=> \E i \in DOMAIN order' : order'[i] = q
        /\ stale' \subseteq Panels
    BY <1>1, TypeClaim DEF PanelInv
  <2>2. left' \in [Runs -> SUBSET AllStages]
    <3>1. Independent \subseteq AllStages
      BY DEF AllStages
    <3>2. CASE left' = [left EXCEPT ![r] = Independent]
      BY <3>1, <3>2 DEF PanelInv, TypeOK
    <3>3. CASE UNCHANGED left
      BY <3>3 DEF PanelInv, TypeOK
    <3> QED BY <1>1, <3>2, <3>3
  <2>3. /\ at' \in [Runs -> {"idle", "independent", "review", "judge", "complete",
                            "failing", "gone"}]
        /\ panel' \in [Runs -> Panels \cup {NoPanel}]
    BY <1>1 DEF PanelInv, TypeOK
  <2> QED BY <1>2, <2>1, <2>2, <2>3 DEF PanelInv, TypeOK
<1>5. RunInv'
  BY <1>1, <1>2, <1>3 DEF PanelInv, RunInv, TypeOK
<1>6. CompleteInv'
  <2>1. \A q \in Runs : complete'[q] # "none" => panel'[q] = panel[q]
    BY <1>1, <1>2, <1>3 DEF PanelInv, TypeOK
  <2> QED BY <2>1, <1>1, <1>2, ClaimFacts
          DEF PanelInv, CompleteInv, AllStored, SucceededIsReported
<1>7. AlertInv'
  <2>1. \A q \in Runs : fail'[q] # "none" => panel'[q] = panel[q] /\ panel[q] \in Panels
    BY <1>1, <1>2, <1>3 DEF PanelInv, TypeOK, RunInv
  <2> QED BY <2>1, <1>1, <1>2, ClaimFacts
          DEF PanelInv, AlertInv, AlertedIsFailed, Terminal
<1> QED BY <1>4, <1>5, <1>6, <1>7 DEF PanelInv

LEMMA ClaimLostStep == ASSUME PanelInv, NEW r \in Runs, ClaimLost(r) PROVE PanelInv'
<1>1. PICK p \in Panels : ClaimPanel(p)
  BY DEF ClaimLost
<1>2. UNCHANGED <<at, panel, left, got, complete, fail, reports, alerts, order, stored>>
  BY <1>1 DEF ClaimLost, runVars, sentVars, ClaimPanel
<1>3. losses' \in Nat
  BY DEF ClaimLost, Lose, PanelInv, TypeOK
<1>4. TypeOK'
  BY <1>1, <1>2, <1>3, TypeClaim DEF PanelInv, TypeOK
<1>5. RunInv' /\ CompleteInv'
  BY <1>1, <1>2, ClaimFacts
  DEF PanelInv, RunInv, CompleteInv, AllStored, SucceededIsReported
<1>6. AlertInv'
  BY <1>1, <1>2, ClaimFacts DEF PanelInv, RunInv, AlertInv, AlertedIsFailed, Terminal
<1> QED BY <1>4, <1>5, <1>6 DEF PanelInv
\* A step of a run that neither claims, reports, ends a panel nor alerts: it
\* moves on, may keep opinions, and may set a request to a step before any of
\* its effects or after all of them.
LEMMA RunnerMoves ==
  ASSUME PanelInv, NEW r \in Runs, at[r] # "idle",
         NEW a \in {"independent", "review", "judge", "complete", "failing", "gone"},
         at' = at \/ at' = [at EXCEPT ![r] = a],
         NEW c \in {"record", "done", "error"},
         complete' = complete \/ complete' = [complete EXCEPT ![r] = c],
         NEW f \in {"finish", "done", "error"},
         fail' = fail \/ fail' = [fail EXCEPT ![r] = f],
         left' \in [Runs -> SUBSET AllStages], got' \in [Runs -> SUBSET AllStages],
         stored' = stored \/ (\E S : stored' = Keep(panel[r], r, S)),
         losses' \in Nat,
         UNCHANGED <<status, order, stale, panel, reports, alerts>>
  PROVE  PanelInv'
<1>1. panel[r] \in Panels
  BY DEF PanelInv, RunInv
<1>2. /\ stored' \in [Panels -> [AllStages -> Runs \cup {NoRun}]]
      /\ \A q \in Panels : AllStored(q) => AllStored(q)'
  <2>1. CASE stored' = stored
    BY <2>1 DEF PanelInv, TypeOK, AllStored
  <2>2. ASSUME NEW S, stored' = Keep(panel[r], r, S)
        PROVE  /\ stored' \in [Panels -> [AllStages -> Runs \cup {NoRun}]]
               /\ \A q \in Panels : AllStored(q) => AllStored(q)'
    BY <1>1, <2>2, KeepCompletes
  <2> QED BY <2>1, <2>2
<1>3. /\ at' \in [Runs -> {"idle", "independent", "review", "judge", "complete",
                          "failing", "gone"}]
      /\ \A q \in Runs : (at'[q] = "idle") <=> (at[q] = "idle")
  <2>1. at \in [Runs -> {"idle", "independent", "review", "judge", "complete",
                       "failing", "gone"}]
    BY DEF PanelInv, TypeOK
  <2>2. CASE at' = at
    BY <2>1, <2>2
  <2>3. CASE at' = [at EXCEPT ![r] = a]
    BY <2>1, <2>3
  <2> QED BY <2>2, <2>3
<1>4. /\ complete' \in [Runs -> CompleteSteps \cup {"none", "done", "error"}]
      /\ \A q \in Runs : complete'[q] = complete[q]
                         \/ (q = r /\ complete'[q] \notin {"report", "finish"})
  <2>1. complete \in [Runs -> CompleteSteps \cup {"none", "done", "error"}]
    BY DEF PanelInv, TypeOK
  <2>2. CASE complete' = complete
    BY <2>1, <2>2
  <2>3. CASE complete' = [complete EXCEPT ![r] = c]
    BY <2>1, <2>3 DEF CompleteSteps
  <2> QED BY <2>2, <2>3
<1>5. /\ fail' \in [Runs -> FailSteps \cup {"none", "done", "error"}]
      /\ \A q \in Runs : fail'[q] = fail[q] \/ (q = r /\ fail'[q] # "alert")
  <2>1. fail \in [Runs -> FailSteps \cup {"none", "done", "error"}]
    BY DEF PanelInv, TypeOK
  <2>2. CASE fail' = fail
    BY <2>1, <2>2
  <2>3. CASE fail' = [fail EXCEPT ![r] = f]
    BY <2>1, <2>3 DEF FailSteps
  <2> QED BY <2>2, <2>3
<1>6. TypeOK'
  BY <1>2, <1>3, <1>4, <1>5 DEF PanelInv, TypeOK
<1>7. RunInv'
  BY <1>3, <1>4, <1>5 DEF PanelInv, RunInv
<1>8. CompleteInv'
  <2>1. ASSUME NEW q \in Runs, complete'[q] \in {"report", "finish"}
        PROVE  /\ AllStored(panel[q])'
               /\ complete'[q] = "finish" => reports'[panel'[q]] # {}
    <3>1. complete'[q] = complete[q] /\ panel[q] \in Panels
      BY <2>1, <1>4 DEF PanelInv, RunInv
    <3> QED BY <2>1, <3>1, <1>2 DEF PanelInv, CompleteInv, AllStored
  <2>2. \A p \in Panels : reports'[p] # {} => AllStored(p)'
    BY <1>2 DEF PanelInv, CompleteInv
  <2> QED BY <2>1, <2>2 DEF PanelInv, CompleteInv, SucceededIsReported
<1>9. AlertInv'
  BY <1>5 DEF PanelInv, AlertInv, AlertedIsFailed
<1> QED BY <1>6, <1>7, <1>8, <1>9 DEF PanelInv

LEMMA RunnerStepInv ==
  ASSUME PanelInv, NEW r \in Runs,
         \/ \E s \in AllStages : AskAgent(r, s) \/ AgentFails(r, s)
                                \/ OpinionPostFails(r, s)
         \/ EndRound(r) \/ JudgeAnswers(r) \/ JudgeFails(r)
         \/ Answered(r) \/ TimesOut(r) \/ FailLost(r) \/ GiveUp(r) \/ Die(r)
  PROVE  PanelInv'
<1> USE DEF tableVars, runVars, sentVars, Step
<1>0. /\ left \in [Runs -> SUBSET AllStages] /\ got \in [Runs -> SUBSET AllStages]
      /\ losses \in Nat /\ Review \subseteq AllStages /\ Judge \in AllStages
  BY DEF PanelInv, TypeOK, AllStages
<1>1. ASSUME NEW s \in AllStages, AskAgent(r, s) PROVE PanelInv'
  BY <1>0, <1>1, RunnerMoves DEF AskAgent
<1>2. ASSUME NEW s \in AllStages, AgentFails(r, s) PROVE PanelInv'
  BY <1>0, <1>2, RunnerMoves DEF AgentFails
<1>3. ASSUME NEW s \in AllStages, OpinionPostFails(r, s) PROVE PanelInv'
  BY <1>0, <1>3, RunnerMoves DEF OpinionPostFails
<1>4. CASE EndRound(r)
  BY <1>0, <1>4, RunnerMoves DEF EndRound
<1>5. CASE JudgeAnswers(r)
  BY <1>0, <1>5, RunnerMoves DEF JudgeAnswers
<1>6. CASE JudgeFails(r)
  BY <1>0, <1>6, RunnerMoves DEF JudgeFails
<1>7. CASE Answered(r)
  BY <1>0, <1>7, RunnerMoves DEF Answered
<1>8. CASE TimesOut(r)
  BY <1>0, <1>8, RunnerMoves DEF TimesOut
<1>9. CASE FailLost(r)
  <2>1. at[r] # "idle"
    BY <1>9 DEF FailLost, PanelInv, RunInv
  <2>2. losses' \in Nat
    BY <1>0, <1>9 DEF FailLost, Lose
  <2> QED BY <1>0, <1>9, <2>1, <2>2, RunnerMoves DEF FailLost
<1>10. CASE GiveUp(r)
  BY <1>0, <1>10, RunnerMoves DEF GiveUp
<1>11. CASE Die(r)
  <2>1. losses' \in Nat
    BY <1>0, <1>11 DEF Die, Lose
  <2> QED BY <1>0, <1>11, <2>1, RunnerMoves DEF Die
<1> QED BY <1>1, <1>2, <1>3, <1>4, <1>5, <1>6, <1>7, <1>8, <1>9, <1>10, <1>11

LEMMA RecycleStep == ASSUME PanelInv, NEW r \in Runs, Recycle(r) PROVE PanelInv'
<1> USE DEF Recycle, Step, tableVars, sentVars
<1>1. TypeOK'
  BY DEF PanelInv, TypeOK
<1>2. RunInv'
  BY DEF PanelInv, RunInv, TypeOK
<1>3. /\ complete'[r] = "none" /\ fail'[r] = "none"
      /\ \A q \in Runs : q # r => /\ complete'[q] = complete[q] /\ fail'[q] = fail[q]
                                 /\ panel'[q] = panel[q]
  BY DEF PanelInv, TypeOK
<1>4. UNCHANGED <<status, order, stale, stored, reports, alerts>>
  OBVIOUS
<1> HIDE DEF Recycle
<1>5. CompleteInv'
  <2>1. ASSUME NEW q \in Runs, complete'[q] \in {"report", "finish"}
        PROVE  /\ AllStored(panel[q])'
               /\ complete'[q] = "finish" => reports'[panel'[q]] # {}
    <3>1. complete'[q] = complete[q] /\ panel'[q] = panel[q]
      BY <1>3, <2>1
    <3> QED BY <2>1, <3>1, <1>4 DEF PanelInv, CompleteInv, AllStored
  <2>2. \A p \in Panels : reports'[p] # {} => AllStored(p)'
    BY <1>4 DEF PanelInv, CompleteInv, AllStored
  <2> QED BY <1>4, <2>1, <2>2 DEF PanelInv, CompleteInv, SucceededIsReported
<1>6. AlertInv'
  <2>1. \A q \in Runs : fail'[q] = "alert" =>
                          fail[q] = "alert" /\ panel'[q] = panel[q]
    BY <1>3
  <2> QED BY <1>4, <2>1 DEF PanelInv, AlertInv, AlertedIsFailed
<1> QED BY <1>1, <1>2, <1>5, <1>6 DEF PanelInv
-----------------------------------------------------------------------------
(* The steps of the requests *)

LEMMA CompleteRecordStep ==
  ASSUME PanelInv, NEW r \in Runs, CompleteRecord(r) PROVE PanelInv'
<1>1. at[r] # "idle" /\ panel[r] \in Panels
  BY DEF CompleteRecord, PanelInv, RunInv
<1>2. UNCHANGED <<status, order, stale, at, panel, left, got, fail, reports, alerts, losses>>
  BY DEF CompleteRecord, runVars, sentVars
<1>3. CASE complete' = Step(complete, r, "error") /\ UNCHANGED stored
  BY <1>1, <1>2, <1>3, RunnerMoves DEF Step, PanelInv, TypeOK
<1>4. CASE /\ stored' = Keep(panel[r], r, StagesOf(panel[r]))
           /\ complete' = Step(complete, r, "report")
  <2>1. /\ stored' \in [Panels -> [AllStages -> Runs \cup {NoRun}]]
        /\ \A q \in Panels : AllStored(q) => AllStored(q)'
        /\ AllStored(panel[r])'
    <3>1. /\ stored' \in [Panels -> [AllStages -> Runs \cup {NoRun}]]
          /\ \A q \in Panels : AllStored(q) => AllStored(q)'
      BY <1>1, <1>4, KeepCompletes
    <3>2. \A s \in AllStages : s \in StagesOf(panel[r]) => stored'[panel[r]][s] # NoRun
      BY <1>1, <1>4, KeepFacts DEF PanelInv
    <3>3. AllStored(panel[r])'
      BY <3>2, <1>2, StagesKnown DEF AllStored
    <3> QED BY <3>1, <3>3
  <2>2. /\ complete' \in [Runs -> CompleteSteps \cup {"none", "done", "error"}]
        /\ complete'[r] = "report"
        /\ \A q \in Runs : q # r => complete'[q] = complete[q]
    BY <1>4 DEF Step, PanelInv, TypeOK, CompleteSteps
  <2>3. TypeOK'
    BY <1>2, <2>1, <2>2 DEF PanelInv, TypeOK
  <2>4. RunInv'
    BY <1>1, <1>2, <2>2 DEF PanelInv, RunInv
  <2>5. CompleteInv'
    <3>1. ASSUME NEW q \in Runs, complete'[q] \in {"report", "finish"}
          PROVE  /\ AllStored(panel[q])'
                 /\ complete'[q] = "finish" => reports'[panel'[q]] # {}
      <4>1. CASE q = r
        BY <4>1, <2>1, <2>2
      <4>2. CASE q # r
        <5>1. complete'[q] = complete[q] /\ panel[q] \in Panels
          BY <3>1, <4>2, <2>2 DEF PanelInv, RunInv
        <5> QED BY <3>1, <5>1, <1>2, <2>1 DEF PanelInv, CompleteInv, AllStored
      <4> QED BY <4>1, <4>2
    <3>2. \A p \in Panels : reports'[p] # {} => AllStored(p)'
      BY <1>2, <2>1 DEF PanelInv, CompleteInv
    <3> QED BY <3>1, <3>2, <1>2 DEF PanelInv, CompleteInv, SucceededIsReported
  <2>6. AlertInv'
    BY <1>2 DEF PanelInv, AlertInv, AlertedIsFailed
  <2> QED BY <2>3, <2>4, <2>5, <2>6 DEF PanelInv
<1> QED BY <1>3, <1>4 DEF CompleteRecord

\* Sending, or failing to send, the judgment of a run whose opinions are stored.
LEMMA ReportStep ==
  ASSUME PanelInv, NEW r \in Runs, CompleteReport(r) \/ ReportFails(r) PROVE PanelInv'
<1> DEFINE sent == [reports EXCEPT ![panel[r]] = @ \cup {r}]
<1>1. complete[r] = "report" /\ panel[r] \in Panels /\ AllStored(panel[r])
  BY DEF CompleteReport, ReportFails, PanelInv, RunInv, CompleteInv
<1>2. UNCHANGED <<status, order, stale, stored, at, panel, left, got, fail, alerts, losses>>
  BY DEF CompleteReport, ReportFails, tableVars, runVars
<1>3. /\ sent \in [Panels -> SUBSET Runs]
      /\ sent[panel[r]] # {}
      /\ \A p \in Panels : /\ reports[p] # {} => sent[p] # {}
                           /\ sent[p] # {} => p = panel[r] \/ reports[p] # {}
  BY <1>1 DEF PanelInv, TypeOK
<1>4. \/ complete' = [complete EXCEPT ![r] = "finish"] /\ reports' = sent
      \/ complete' = [complete EXCEPT ![r] = "error"] /\ reports' \in {reports, sent}
  BY DEF CompleteReport, ReportFails, Step
<1>5. /\ complete' \in [Runs -> CompleteSteps \cup {"none", "done", "error"}]
      /\ \A q \in Runs : q # r => complete'[q] = complete[q]
      /\ complete'[r] \in {"finish", "error"}
      /\ complete'[r] = "finish" => reports' = sent
  <2>1. complete \in [Runs -> CompleteSteps \cup {"none", "done", "error"}]
    BY DEF PanelInv, TypeOK
  <2>2. CASE complete' = [complete EXCEPT ![r] = "finish"] /\ reports' = sent
    BY <2>1, <2>2 DEF CompleteSteps
  <2>3. CASE complete' = [complete EXCEPT ![r] = "error"]
    BY <2>1, <2>3
  <2> QED BY <1>4, <2>2, <2>3
<1>6. /\ reports' \in [Panels -> SUBSET Runs]
      /\ \A p \in Panels : /\ reports[p] # {} => reports'[p] # {}
                           /\ reports'[p] # {} => p = panel[r] \/ reports[p] # {}
  BY <1>3, <1>4 DEF PanelInv, TypeOK
<1>7. TypeOK'
  BY <1>2, <1>5, <1>6 DEF PanelInv, TypeOK
<1>8. RunInv'
  BY <1>1, <1>2, <1>5 DEF PanelInv, RunInv
<1>9. CompleteInv'
  <2>1. ASSUME NEW q \in Runs, complete'[q] \in {"report", "finish"}
        PROVE  /\ AllStored(panel[q])'
               /\ complete'[q] = "finish" => reports'[panel'[q]] # {}
    <3>1. CASE q = r
      BY <1>1, <1>2, <1>3, <1>5, <2>1, <3>1 DEF AllStored
    <3>2. CASE q # r
      <4>1. complete'[q] = complete[q] /\ panel[q] \in Panels
        BY <2>1, <3>2, <1>5 DEF PanelInv, RunInv
      <4> QED BY <2>1, <4>1, <1>2, <1>6 DEF PanelInv, CompleteInv, AllStored
    <3> QED BY <3>1, <3>2
  <2>2. \A p \in Panels : reports'[p] # {} => AllStored(p)'
    BY <1>1, <1>2, <1>6 DEF PanelInv, CompleteInv, AllStored
  <2> QED BY <2>1, <2>2, <1>2, <1>6 DEF PanelInv, CompleteInv, SucceededIsReported
<1>10. AlertInv'
  BY <1>2 DEF PanelInv, AlertInv, AlertedIsFailed
<1> QED BY <1>7, <1>8, <1>9, <1>10 DEF PanelInv

\* An end changes the status of one running panel.
LEMMA FinishFacts ==
  ASSUME PanelInv, NEW p \in Panels, NEW outcome \in Terminal, FinishPanel(p, outcome)
  PROVE  /\ status[p] = "running" /\ status'[p] = outcome
         /\ \A q \in Panels : q # p => status'[q] = status[q]
         /\ UNCHANGED <<order, stored>>
BY DEF FinishPanel, PanelInv, TypeOK

LEMMA CompleteFinishStep ==
  ASSUME PanelInv, NEW r \in Runs, CompleteFinish(r) PROVE PanelInv'
<1>1. at[r] # "idle" /\ panel[r] \in Panels /\ reports[panel[r]] # {}
  BY DEF CompleteFinish, PanelInv, RunInv, CompleteInv
<1>2. UNCHANGED <<at, panel, left, got, fail, reports, alerts, losses>>
  BY DEF CompleteFinish, runVars, sentVars
<1>3. CASE complete' = Step(complete, r, "error") /\ UNCHANGED tableVars
  BY <1>1, <1>2, <1>3, RunnerMoves DEF Step, PanelInv, TypeOK, tableVars
<1>4. CASE FinishPanel(panel[r], "succeeded") /\ complete' = Step(complete, r, "done")
  <2>1. /\ status[panel[r]] = "running" /\ status'[panel[r]] = "succeeded"
        /\ \A q \in Panels : q # panel[r] => status'[q] = status[q]
        /\ UNCHANGED <<order, stored>>
    BY <1>1, <1>4, FinishFacts DEF Terminal
  <2>2. /\ complete' \in [Runs -> CompleteSteps \cup {"none", "done", "error"}]
        /\ complete'[r] = "done"
        /\ \A q \in Runs : q # r => complete'[q] = complete[q]
    BY <1>4 DEF Step, PanelInv, TypeOK
  <2>3. TypeOK'
    BY <1>1, <1>2, <1>4, <2>1, <2>2, TypeFinish DEF PanelInv, TypeOK, Terminal
  <2>4. RunInv'
    BY <1>1, <1>2, <2>2 DEF PanelInv, RunInv
  <2>5. CompleteInv'
    BY <1>1, <1>2, <2>1, <2>2 DEF PanelInv, CompleteInv, AllStored, SucceededIsReported
  <2>6. AlertInv'
    <3>1. ASSUME NEW q \in Runs, fail[q] = "alert"
          PROVE  panel[q] \in Panels /\ panel[q] # panel[r]
      BY <3>1, <2>1 DEF PanelInv, RunInv, AlertInv
    <3>2. \A p \in Panels : alerts[p] # 0 => p # panel[r]
      BY <2>1 DEF PanelInv, AlertInv, AlertedIsFailed
    <3> QED BY <1>2, <2>1, <3>1, <3>2 DEF PanelInv, AlertInv, AlertedIsFailed
  <2> QED BY <2>3, <2>4, <2>5, <2>6 DEF PanelInv
<1> QED BY <1>3, <1>4 DEF CompleteFinish

\* The one failure request that ends a running panel is the one to alert it.
LEMMA FailFinishStep ==
  ASSUME PanelInv, NEW r \in Runs, FailFinish(r) PROVE PanelInv'
<1>1. at[r] # "idle" /\ panel[r] \in Panels
  BY DEF FailFinish, PanelInv, RunInv
<1>2. UNCHANGED <<at, panel, left, got, complete, reports, alerts, losses>>
  BY DEF FailFinish, runVars, sentVars
<1>3. CASE fail' = Step(fail, r, "error") /\ UNCHANGED tableVars
  BY <1>1, <1>2, <1>3, RunnerMoves DEF Step, PanelInv, TypeOK, tableVars
<1>4. CASE FinishPanel(panel[r], "failed") /\ fail' = Step(fail, r, "alert")
  <2>1. /\ status[panel[r]] = "running" /\ status'[panel[r]] = "failed"
        /\ \A q \in Panels : q # panel[r] => status'[q] = status[q]
        /\ UNCHANGED <<order, stored>>
    BY <1>1, <1>4, FinishFacts DEF Terminal
  <2>2. /\ fail' \in [Runs -> FailSteps \cup {"none", "done", "error"}]
        /\ fail'[r] = "alert"
        /\ \A q \in Runs : q # r => fail'[q] = fail[q]
    BY <1>4 DEF Step, PanelInv, TypeOK, FailSteps
  <2>3. TypeOK'
    BY <1>1, <1>2, <1>4, <2>1, <2>2, TypeFinish DEF PanelInv, TypeOK, Terminal
  <2>4. RunInv'
    BY <1>1, <1>2, <2>2 DEF PanelInv, RunInv
  <2>5. CompleteInv'
    BY <1>1, <1>2, <2>1 DEF PanelInv, CompleteInv, AllStored, SucceededIsReported
  <2>6. AlertInv'
    <3>1. ASSUME NEW q \in Runs, fail[q] = "alert"
          PROVE  panel[q] \in Panels /\ panel[q] # panel[r]
      BY <3>1, <2>1 DEF PanelInv, RunInv, AlertInv
    <3>2. \A p \in Panels : alerts[p] # 0 => p # panel[r]
      BY <2>1 DEF PanelInv, AlertInv, AlertedIsFailed
    <3>3. ASSUME NEW q \in Runs, fail'[q] = "alert"
          PROVE  status'[panel[q]] = "failed" /\ alerts[panel[q]] = 0
      <4>1. CASE q = r
        BY <1>1, <2>1, <3>2, <4>1
      <4>2. CASE q # r
        BY <2>1, <2>2, <3>1, <3>3, <4>2 DEF PanelInv, AlertInv
      <4> QED BY <4>1, <4>2
    <3>4. ASSUME NEW p \in Runs, NEW q \in Runs,
                 fail'[p] = "alert", fail'[q] = "alert", panel[p] = panel[q]
          PROVE  p = q
      BY <2>2, <3>1, <3>4 DEF PanelInv, AlertInv
    <3>5. AlertedIsFailed'
      BY <1>2, <2>1, <3>2 DEF PanelInv, AlertInv, AlertedIsFailed
    <3> QED BY <1>2, <3>3, <3>4, <3>5 DEF AlertInv
  <2> QED BY <2>3, <2>4, <2>5, <2>6 DEF PanelInv
<1> QED BY <1>3, <1>4 DEF FailFinish

\* Alerting, or failing to alert, the failure of a panel.
LEMMA AlertStep ==
  ASSUME PanelInv, NEW r \in Runs, FailAlert(r) \/ AlertFails(r) PROVE PanelInv'
<1> DEFINE sent == [alerts EXCEPT ![panel[r]] = @ + 1]
<1>1. /\ fail[r] = "alert" /\ panel[r] \in Panels
      /\ status[panel[r]] = "failed" /\ alerts[panel[r]] = 0
  BY DEF FailAlert, AlertFails, PanelInv, RunInv, AlertInv
<1>2. UNCHANGED <<status, order, stale, stored, at, panel, left, got, complete,
                  reports, losses>>
  BY DEF FailAlert, AlertFails, tableVars, runVars
<1>3. alerts' \in {alerts, sent}
  BY DEF FailAlert, AlertFails
<1>4. /\ alerts' \in [Panels -> Nat]
      /\ alerts'[panel[r]] \in {0, 1}
      /\ \A p \in Panels : p # panel[r] => alerts'[p] = alerts[p]
  <2>1. alerts \in [Panels -> Nat]
    BY DEF PanelInv, TypeOK
  <2>2. CASE alerts' = alerts
    BY <1>1, <2>1, <2>2
  <2>3. CASE alerts' = sent
    BY <1>1, <2>1, <2>3
  <2> QED BY <1>3, <2>2, <2>3
<1>5. /\ fail' \in [Runs -> FailSteps \cup {"none", "done", "error"}]
      /\ fail'[r] # "alert"
      /\ \A q \in Runs : q # r => fail'[q] = fail[q]
  <2>1. fail \in [Runs -> FailSteps \cup {"none", "done", "error"}]
    BY DEF PanelInv, TypeOK
  <2>2. \/ fail' = [fail EXCEPT ![r] = "done"]
        \/ fail' = [fail EXCEPT ![r] = "error"]
    BY DEF FailAlert, AlertFails, Step
  <2> QED BY <2>1, <2>2
<1>6. TypeOK'
  BY <1>2, <1>4, <1>5 DEF PanelInv, TypeOK
<1>7. RunInv'
  BY <1>1, <1>2, <1>5 DEF PanelInv, RunInv
<1>8. CompleteInv'
  BY <1>2 DEF PanelInv, CompleteInv, AllStored, SucceededIsReported
<1>9. AlertInv'
  <2>1. ASSUME NEW q \in Runs, fail'[q] = "alert"
        PROVE  q # r /\ fail[q] = "alert" /\ panel[q] # panel[r] /\ panel[q] \in Panels
    BY <1>1, <1>5, <2>1 DEF PanelInv, RunInv, AlertInv
  <2>2. AlertedIsFailed'
    BY <1>1, <1>2, <1>4 DEF PanelInv, AlertInv, AlertedIsFailed
  <2> QED BY <1>2, <1>4, <2>1, <2>2 DEF PanelInv, AlertInv
<1> QED BY <1>6, <1>7, <1>8, <1>9 DEF PanelInv

-----------------------------------------------------------------------------
(* The theorems *)

LEMMA PanelStep == PanelInv /\ [Next]_vars => PanelInv'
<1> SUFFICES ASSUME PanelInv, [Next]_vars PROVE PanelInv'
  OBVIOUS
<1>1. CASE UNCHANGED vars
  BY <1>1 DEF vars, tableVars, runVars, sentVars, PanelInv, TypeOK, RunInv,
              CompleteInv, AllStored, SucceededIsReported, AlertInv, AlertedIsFailed
<1>2. ASSUME NEW p \in Panels, Enqueue(p) \/ Age(p) PROVE PanelInv'
  BY <1>2, EnqueueStep, AgeStep
<1>3. ASSUME NEW r \in Runs, Claim(r) PROVE PanelInv'
  BY <1>3, ClaimStep
<1>4. ASSUME NEW r \in Runs, RunnerStep(r) PROVE PanelInv'
  BY <1>4, RunnerStepInv, RecycleStep DEF RunnerStep
<1>5. ASSUME NEW r \in Runs, CompleteStep(r) PROVE PanelInv'
  BY <1>5, CompleteRecordStep, ReportStep, CompleteFinishStep DEF CompleteStep
<1>6. ASSUME NEW r \in Runs, FailStep(r) PROVE PanelInv'
  BY <1>6, FailFinishStep, AlertStep DEF FailStep
<1>7. ASSUME NEW r \in Runs, Fault(r) PROVE PanelInv'
  BY <1>7, ClaimLostStep, ReportStep, AlertStep, RunnerStepInv DEF Fault
<1> QED BY <1>1, <1>2, <1>3, <1>4, <1>5, <1>6, <1>7 DEF Next

\* In every state reached, the invariant of the queue and its requests holds.
THEOREM PanelInvariant == Spec => []PanelInv
<1>1. Init => PanelInv
  BY PanelInit
<1>2. PanelInv /\ [Next]_vars => PanelInv'
  BY PanelStep
<1> QED BY <1>1, <1>2, PTL DEF Spec

\* Every variable keeps its type, and every enqueued panel has one row.
THEOREM PanelTypeCorrect == Spec => []TypeOK
<1>1. PanelInv => TypeOK
  BY DEF PanelInv
<1> QED BY <1>1, PanelInvariant, PTL

\* However runners overlap, a judgment is sent only of a panel whose opinions
\* are all stored.
THEOREM ReportedStaysComplete == Spec => []ReportedIsComplete
<1>1. PanelInv => ReportedIsComplete
  BY DEF PanelInv, CompleteInv, AllStored, ReportedIsComplete
<1> QED BY <1>1, PanelInvariant, PTL

\* A panel that succeeded had a judgment sent.
THEOREM SucceededStaysReported == Spec => []SucceededIsReported
<1>1. PanelInv => SucceededIsReported
  BY DEF PanelInv, CompleteInv
<1> QED BY <1>1, PanelInvariant, PTL

\* A failure is alerted once at most, of a panel that failed and stays so.
THEOREM AlertedStaysFailed == Spec => []AlertedIsFailed
<1>1. PanelInv => AlertedIsFailed
  BY DEF PanelInv, AlertInv
<1> QED BY <1>1, PanelInvariant, PTL

\* What a step does to the status of a panel that has ended.
LEMMA EndStep ==
  ASSUME PanelInv, [Next]_vars, NEW p \in Panels, status[p] \in Terminal
  PROVE  status'[p] = status[p]
<1>1. CASE UNCHANGED status
  BY <1>1
<1>2. ASSUME NEW q \in Panels, Enqueue(q) PROVE status'[p] = status[p]
  BY <1>2 DEF Enqueue, Terminal, PanelInv, TypeOK
<1>3. ASSUME NEW q \in Panels, ClaimPanel(q) PROVE status'[p] = status[p]
  BY <1>3, ClaimFacts
<1>4. ASSUME NEW q \in Panels, NEW outcome \in Terminal, FinishPanel(q, outcome)
      PROVE  status'[p] = status[p]
  BY <1>4, FinishFacts DEF Terminal
<1>5. ASSUME NEW r \in Runs, CompleteFinish(r) \/ FailFinish(r)
      PROVE  status'[p] = status[p]
  <2>1. complete[r] = "finish" \/ fail[r] = "finish"
    BY <1>5 DEF CompleteFinish, FailFinish
  <2>2. panel[r] \in Panels
    BY <2>1 DEF PanelInv, RunInv
  <2> QED BY <1>1, <1>4, <1>5, <2>2 DEF CompleteFinish, FailFinish, Terminal, tableVars
<1>6. ASSUME NEW r \in Runs, Claim(r) \/ ClaimLost(r) PROVE status'[p] = status[p]
  BY <1>3, <1>6 DEF Claim, ClaimLost
<1>7. ASSUME NEW r \in Runs, RunnerStep(r) PROVE UNCHANGED status
  BY <1>7 DEF RunnerStep, AskAgent, EndRound, JudgeAnswers, Answered, GiveUp, Recycle,
              tableVars
<1>8. ASSUME NEW r \in Runs, CompleteRecord(r) \/ CompleteReport(r) \/ FailAlert(r)
      PROVE  UNCHANGED status
  BY <1>8 DEF CompleteRecord, CompleteReport, FailAlert, tableVars
<1>9. ASSUME NEW r \in Runs, Fault(r), ~ClaimLost(r) PROVE UNCHANGED status
  BY <1>9 DEF Fault, JudgeFails, ReportFails, TimesOut, AlertFails, FailLost, Die,
              AgentFails, OpinionPostFails, tableVars
<1>10. ASSUME NEW q \in Panels, Age(q) PROVE UNCHANGED status
  BY <1>10 DEF Age
<1>11. CASE UNCHANGED vars
  BY <1>11 DEF vars, tableVars
<1> QED BY <1>1, <1>2, <1>5, <1>6, <1>7, <1>8, <1>9, <1>10, <1>11
        DEF Next, CompleteStep, FailStep

\* No run, late or early, changes the status of a panel that has ended.
THEOREM EndsAreFinal == Spec => TerminalIsFinal
<1>1. PanelInv /\ [Next]_vars =>
        [\A p \in Panels : status[p] \in Terminal => status'[p] = status[p]]_status
  BY EndStep
<1> QED BY <1>1, PanelInvariant, PTL DEF Spec, TerminalIsFinal
=============================================================================
