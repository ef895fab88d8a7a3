------------------------ MODULE IntradayWorkflow_proofs ------------------------
(* Proofs about IntradayWorkflow. *)
EXTENDS IntradayWorkflow, NaturalsInduction, FiniteSetTheorems, WellFoundedInduction, TLAPS

-----------------------------------------------------------------------------
(* What the tables say *)

\* A set of numbers has a least one.
LEMMA LeastNumber ==
  ASSUME NEW S \in SUBSET Nat, S # {}
  PROVE  \E m \in S : \A n \in S : m <= n
<1>1. PICK m \in S : \A n \in S : ~(<<n, m>> \in OpToRel(<, Nat))
  BY NatLessThanWellFounded, WFMin
<1>2. \A n \in S : ~(n < m)
  BY <1>1 DEF OpToRel
<1> QED
  BY <1>2

\* The latest of rows that are numbered within a bound is one of them.
LEMMA LatestIs ==
  ASSUME NEW S, S # {}, NEW bound \in Nat, \A u \in S : u.no \in 0..bound
  PROVE  Latest(S) \in S /\ \A v \in S : v.no <= Latest(S).no
<1> DEFINE left == {bound - u.no : u \in S}
<1>1. left \subseteq Nat /\ left # {}
  OBVIOUS
<1>2. PICK m \in left : \A n \in left : m <= n
  BY <1>1, LeastNumber
<1>3. PICK u \in S : m = bound - u.no
  BY <1>2
<1>4. ASSUME NEW v \in S PROVE v.no <= u.no
  <2>1. bound - v.no \in left
    OBVIOUS
  <2>2. bound - u.no <= bound - v.no
    BY <1>2, <1>3, <2>1
  <2>3. u.no \in Nat /\ v.no \in Nat
    OBVIOUS
  <2> QED
    BY <2>2, <2>3
<1> QED
  BY <1>4 DEF Latest

-----------------------------------------------------------------------------
(* Types *)

RunRecord ==
  [pc : Stages, at : Prepare..Last, no : 0..MaxRuns, portfolio : Portfolios,
   symbols : SUBSET Symbols, collect : SUBSET Symbols, newBuys : BOOLEAN,
   ready : BOOLEAN, pool : SUBSET Symbols, dueSetup : BOOLEAN,
   dueMomentum : BOOLEAN, selected : SUBSET Symbols,
   approved : SUBSET Symbols, previous : Nat]

\* A runner that is at work has a number of its own time.
Numbered == \A r \in Runners : ~At(r, "idle") => run[r].no \in 1..started

TypeInv == TypeOK /\ Numbered

LEMMA FreshTyped == Fresh \in RunRecord
BY WorkflowAssumption DEF Fresh, RunRecord, Stages, Portfolios, Prepare, Last

LEMMA LatestErrorsTyped ==
  ASSUME TypeOK, NEW p \in Portfolios
  PROVE  LatestErrors(p) \in Nat
<1> DEFINE known == {row \in rows : row.portfolio = p /\ row.ended}
<1>1. CASE known = {}
  BY <1>1 DEF LatestErrors
<1>2. CASE known # {}
  <2>1. \A u \in known : u.no \in 0..MaxRuns /\ u.errors \in Nat
    BY DEF TypeOK
  <2>2. Latest(known) \in known
    BY <1>2, <2>1, LatestIs, WorkflowAssumption
  <2> QED
    BY <1>2, <2>1, <2>2 DEF LatestErrors
<1> QED
  BY <1>1, <1>2

LEMMA LatestUniverse ==
  ASSUME TypeOK, universe # {}
  PROVE  Latest(universe) \in universe
BY LatestIs, WorkflowAssumption DEF TypeOK

\* A step of one runner leaves the others where they are.
LEMMA OthersStay ==
  ASSUME TypeOK, NEW r \in Runners, Step(r)
  PROVE  /\ run' = [run EXCEPT ![r] = run'[r]]
         /\ \A q \in Runners : q # r => run'[q] = run[q]
         /\ phase' = phase
<1> USE DEF TypeOK, End, At
<1>1. CASE Start(r) BY <1>1 DEF Start
<1>2. CASE ReadUniverse(r) BY <1>2 DEF ReadUniverse
<1>3. CASE RefreshSucceeds(r) BY <1>3 DEF RefreshSucceeds, books
<1>4. CASE RefreshFails(r) BY <1>4 DEF RefreshFails
<1>5. CASE ReadContext(r) BY <1>5 DEF ReadContext
<1>6. CASE NoContext(r) BY <1>6 DEF NoContext
<1>7. CASE SetupShadow(r) BY <1>7 DEF SetupShadow
<1>8. CASE Momentum(r) BY <1>8 DEF Momentum
<1>9. CASE NoMomentum(r) BY <1>9 DEF NoMomentum
<1>10. CASE Review(r) BY <1>10 DEF Review
<1>11. CASE Advised(r) BY <1>11 DEF Advised
<1>12. CASE AdviceFails(r) BY <1>12 DEF AdviceFails
<1>13. CASE RecordMomentum(r) BY <1>13 DEF RecordMomentum
<1>14. CASE BeginRun(r) BY <1>14 DEF BeginRun
<1>15. CASE Trade(r) BY <1>15 DEF Trade
<1>16. CASE FinishClean(r) BY <1>16 DEF FinishClean
<1>17. CASE FinishWithErrors(r) BY <1>17 DEF FinishWithErrors
<1>18. CASE RunFails(r) BY <1>18 DEF RunFails
<1>19. CASE Handoff(r) BY <1>19 DEF Handoff
<1>20. CASE Kill(r) BY <1>20 DEF Kill
<1> QED
  BY <1>1, <1>2, <1>3, <1>4, <1>5, <1>6, <1>7, <1>8, <1>9, <1>10, <1>11, <1>12, <1>13,
     <1>14, <1>15, <1>16, <1>17, <1>18, <1>19, <1>20 DEF Step

LEMMA TypesInit == Init => TypeInv
<1> SUFFICES ASSUME Init PROVE TypeInv
  OBVIOUS
<1>1. \A r \in Runners : run[r] = Fresh
  BY DEF Init
<1>2. run \in [Runners -> RunRecord]
  BY FreshTyped DEF Init
<1>3. TypeOK
  <2>1. held \in [Portfolios -> SUBSET Symbols]
    BY OvernightAssumption DEF Init
  <2>2. phase \in Prepare..Last
    BY DEF Init, Prepare, Last
  <2>4. started \in 0..MaxRuns
    BY WorkflowAssumption DEF Init
  <2>5. overlapped \in BOOLEAN
    BY DEF Init
  <2>3. universe = {} /\ setup = {} /\ momentum = {} /\ advice = {} /\ rows = {}
    BY DEF Init
  <2> QED
    BY <1>2, <2>1, <2>2, <2>3, <2>4, <2>5 DEF TypeOK, RunRecord
<1>4. Numbered
  BY <1>1 DEF Numbered, At, Fresh
<1> QED
  BY <1>3, <1>4 DEF TypeInv

\* What is left to show of a step that only moves runner r.
LEMMA MovedTyped ==
  ASSUME TypeInv, NEW r \in Runners, Step(r), UNCHANGED started,
         run'[r] \in RunRecord, run'[r].pc # "idle" => run'[r].no = run[r].no /\ ~At(r, "idle")
  PROVE  run' \in [Runners -> RunRecord] /\ Numbered'
<1>1. /\ run' = [run EXCEPT ![r] = run'[r]]
      /\ \A q \in Runners : q # r => run'[q] = run[q]
  BY OthersStay DEF TypeInv
<1>2. run \in [Runners -> RunRecord]
  BY DEF TypeInv, TypeOK, RunRecord
<1>3. run' \in [Runners -> RunRecord]
  BY <1>1, <1>2
<1>4. Numbered'
  BY <1>1 DEF Numbered, TypeInv, At
<1> QED
  BY <1>3, <1>4

LEMMA RunTyped ==
  ASSUME TypeInv, NEW r \in Runners
  PROVE  /\ run \in [Runners -> RunRecord]
         /\ run[r] \in RunRecord
         /\ ~At(r, "idle") => run[r].no \in 1..MaxRuns
<1>1. run \in [Runners -> RunRecord]
  BY DEF TypeInv, TypeOK, RunRecord
<1>2. started \in 0..MaxRuns
  BY DEF TypeInv, TypeOK
<1> QED
  BY <1>1, <1>2, WorkflowAssumption DEF TypeInv, Numbered

\* A step of a runner that started before keeps the types.
LEMMA WorkTyped ==
  ASSUME TypeInv, NEW r \in Runners, Step(r), ~Start(r)
  PROVE  TypeInv'
<1> DEFINE moved == /\ UNCHANGED started
                    /\ run'[r] \in RunRecord
                    /\ run'[r].pc # "idle" => run'[r].no = run[r].no /\ ~At(r, "idle")
<1>0. /\ run \in [Runners -> RunRecord]
      /\ run[r] \in RunRecord
      /\ ~At(r, "idle") => run[r].no \in 1..MaxRuns
  BY RunTyped
<1>f. Fresh \in RunRecord /\ Fresh.pc = "idle"
  BY FreshTyped DEF Fresh
<1>u. universe # {} => /\ Latest(universe).selected \in SUBSET Symbols
                      /\ Latest(universe).candidates \in SUBSET Symbols
  BY LatestUniverse DEF TypeInv, TypeOK
<1>h. held \in [Portfolios -> SUBSET Symbols] /\ "rule" \in Portfolios /\ "hermes" \in Portfolios
  BY DEF TypeInv, TypeOK, Portfolios
<1> DEFINE tables == /\ UNCHANGED <<phase, started, overlapped>>
                     /\ universe' \subseteq [no : 1..MaxRuns, selected : SUBSET Symbols,
                                             candidates : SUBSET Symbols]
                     /\ setup' \subseteq 1..MaxRuns
                     /\ momentum' \subseteq 1..MaxRuns
                     /\ advice' \subseteq [no : 1..MaxRuns, approved : SUBSET Symbols]
                     /\ rows' \subseteq [no : 1..MaxRuns, portfolio : Portfolios,
                                         ended : BOOLEAN, errors : Nat]
                     /\ held' \in [Portfolios -> SUBSET Symbols]
<1>r. ASSUME ~At(r, "idle"), NEW ended \in BOOLEAN, NEW errors \in Nat
      PROVE  Row(r, ended, errors) \in [no : 1..MaxRuns, portfolio : Portfolios,
                                         ended : BOOLEAN, errors : Nat]
  BY <1>r, <1>0 DEF Row, RunRecord
<1>e. ASSUME ~At(r, "idle"), NEW failed \in BOOLEAN, Ended(r, failed)
      PROVE  rows' \subseteq [no : 1..MaxRuns, portfolio : Portfolios,
                             ended : BOOLEAN, errors : Nat]
  <2>1. (IF failed THEN run[r].previous + 1 ELSE 0) \in Nat
    BY <1>0 DEF RunRecord
  <2> QED
    BY <1>e, <1>r, <2>1 DEF Ended, TypeInv, TypeOK
<1>1. ASSUME moved, tables PROVE TypeInv'
  <2>1. run' \in [Runners -> RunRecord] /\ Numbered'
    BY <1>1, MovedTyped
  <2>2. TypeOK'
    BY <1>1, <2>1 DEF TypeInv, TypeOK, RunRecord
  <2> QED
    BY <2>1, <2>2 DEF TypeInv
<1> USE DEF At
<1>2. CASE ReadUniverse(r)
  <2>1. moved
    BY <1>2, <1>0, <1>u, <1>h DEF ReadUniverse, RunRecord, Stages
  <2>2. tables
    BY <1>2 DEF ReadUniverse, db, books, TypeInv, TypeOK
  <2> QED
    BY <2>1, <2>2, <1>1
<1>3. CASE RefreshSucceeds(r)
  <2>0. PICK candidates \in SUBSET Symbols : \E selected \in SUBSET candidates :
          run' = [run EXCEPT ![r].pc = "context", ![r].collect = candidates,
                             ![r].symbols = @ \cup selected]
    BY <1>3 DEF RefreshSucceeds
  <2>3. PICK selected \in SUBSET candidates :
          run' = [run EXCEPT ![r].pc = "context", ![r].collect = candidates,
                             ![r].symbols = @ \cup selected]
    BY <2>0
  <2>4. run'[r] = [run[r] EXCEPT !.pc = "context", !.collect = candidates,
                                !.symbols = @ \cup selected]
    BY <1>0, <2>3
  <2>5. [run[r] EXCEPT !.pc = "context", !.collect = candidates,
                       !.symbols = @ \cup selected] \in RunRecord
    <3>1. run[r].symbols \cup selected \in SUBSET Symbols /\ "context" \in Stages
      BY <1>0, <2>3 DEF RunRecord, Stages
    <3> QED
      BY <1>0, <3>1 DEF RunRecord
  <2>6. run[r].pc = "refresh" /\ UNCHANGED started
    BY <1>3 DEF RefreshSucceeds
  <2>1. moved
    BY <1>0, <2>4, <2>5, <2>6 DEF RunRecord
  <2>2. tables
    BY <1>3, <1>0 DEF RefreshSucceeds, books, TypeInv, TypeOK
  <2> QED
    BY <2>1, <2>2, <1>1
<1>4. CASE RefreshFails(r)
  <2>1. moved
    BY <1>4, <1>0, <1>f DEF RefreshFails, End, RunRecord, Stages
  <2>2. tables
    BY <1>4 DEF RefreshFails, db, books, TypeInv, TypeOK
  <2> QED
    BY <2>1, <2>2, <1>1
<1>5. CASE ReadContext(r)
  <2>1. moved
    BY <1>5, <1>0, <1>u DEF ReadContext, InSelection, RunRecord, Stages
  <2>2. tables
    BY <1>5 DEF ReadContext, db, books, TypeInv, TypeOK
  <2> QED
    BY <2>1, <2>2, <1>1
<1>6. CASE NoContext(r)
  <2>1. moved
    BY <1>6, <1>0 DEF NoContext, RunRecord, Stages
  <2>2. tables
    BY <1>6 DEF NoContext, db, books, TypeInv, TypeOK
  <2> QED
    BY <2>1, <2>2, <1>1
<1>7. CASE SetupShadow(r)
  <2>1. moved
    BY <1>7, <1>0 DEF SetupShadow, RunRecord, Stages
  <2>2. tables
    BY <1>7, <1>0 DEF SetupShadow, InsertOnce, books, TypeInv, TypeOK
  <2> QED
    BY <2>1, <2>2, <1>1
<1>8. CASE Momentum(r)
  <2>0. PICK selected \in SUBSET run[r].pool :
          run' = [run EXCEPT ![r].pc = "review", ![r].selected = selected]
    BY <1>8 DEF Momentum
  <2>1. moved
    BY <1>8, <1>0, <2>0 DEF Momentum, RunRecord, Stages
  <2>2. tables
    BY <1>8 DEF Momentum, db, books, TypeInv, TypeOK
  <2> QED
    BY <2>1, <2>2, <1>1
<1>9. CASE NoMomentum(r)
  <2>1. moved
    BY <1>9, <1>0 DEF NoMomentum, Researched, RunRecord, Stages
  <2>2. tables
    BY <1>9 DEF NoMomentum, db, books, TypeInv, TypeOK
  <2> QED
    BY <2>1, <2>2, <1>1
<1>10. CASE Review(r)
  <2>1. moved
    BY <1>10, <1>0 DEF Review, RunRecord, Stages
  <2>2. tables
    BY <1>10 DEF Review, db, books, TypeInv, TypeOK
  <2> QED
    BY <2>1, <2>2, <1>1
<1>11. CASE Advised(r)
  <2>0. PICK approved \in SUBSET run[r].selected :
          run' = [run EXCEPT ![r].pc = "record", ![r].approved = approved]
    BY <1>11 DEF Advised
  <2>1. moved
    BY <1>11, <1>0, <2>0 DEF Advised, RunRecord, Stages
  <2>2. tables
    BY <1>11, <1>0 DEF Advised, RunRecord, books, TypeInv, TypeOK
  <2> QED
    BY <2>1, <2>2, <1>1
<1>12. CASE AdviceFails(r)
  <2>1. moved
    BY <1>12, <1>0 DEF AdviceFails, RunRecord, Stages
  <2>2. tables
    BY <1>12 DEF AdviceFails, db, books, TypeInv, TypeOK
  <2> QED
    BY <2>1, <2>2, <1>1
<1>13. CASE RecordMomentum(r)
  <2>1. moved
    BY <1>13, <1>0 DEF RecordMomentum, Researched, RunRecord, Stages
  <2>2. tables
    BY <1>13, <1>0 DEF RecordMomentum, InsertOnce, books, TypeInv, TypeOK
  <2> QED
    BY <2>1, <2>2, <1>1
<1>14. CASE BeginRun(r)
  <2>1. LatestErrors(run[r].portfolio) \in Nat
    BY <1>0, LatestErrorsTyped DEF RunRecord, TypeInv
  <2>2. moved
    BY <1>14, <1>0, <2>1 DEF BeginRun, RunRecord, Stages
  <2>3. tables
    BY <1>14, <1>r DEF BeginRun, db, TypeInv, TypeOK
  <2> QED
    BY <2>2, <2>3, <1>1
<1>15. CASE Trade(r)
  <2>1. moved
    BY <1>15, <1>0 DEF Trade, RunRecord, Stages
  <2>2. Buyable(r) \subseteq Symbols
    BY <1>0 DEF Buyable, RunRecord
  <2>3. tables
    BY <1>15, <1>0, <1>h, <2>2 DEF Trade, RunRecord, db, TypeInv, TypeOK
  <2> QED
    BY <2>1, <2>3, <1>1
<1>16. CASE FinishClean(r)
  <2>1. moved
    BY <1>16, <1>0, <1>f DEF FinishClean, End, RunRecord, Stages
  <2>2. tables
    BY <1>16, <1>e DEF FinishClean, db, TypeInv, TypeOK
  <2> QED
    BY <2>1, <2>2, <1>1
<1>17. CASE FinishWithErrors(r)
  <2>1. moved
    BY <1>17, <1>0, <1>f DEF FinishWithErrors, End
  <2>2. tables
    BY <1>17, <1>e DEF FinishWithErrors, db, TypeInv, TypeOK
  <2> QED
    BY <2>1, <2>2, <1>1
<1>18. CASE RunFails(r)
  <2>1. moved
    BY <1>18, <1>0, <1>f DEF RunFails, End
  <2>2. tables
    BY <1>18, <1>e DEF RunFails, db, TypeInv, TypeOK
  <2> QED
    BY <2>1, <2>2, <1>1
<1>19. CASE Handoff(r)
  <2>1. Shared(r) \subseteq Symbols
    BY <1>0 DEF Shared, RunRecord
  <2>2. moved
    BY <1>19, <1>0, <1>f, <1>h, <2>1 DEF Handoff, End, RunRecord, Stages
  <2>3. tables
    BY <1>19 DEF Handoff, db, books, TypeInv, TypeOK
  <2> QED
    BY <2>2, <2>3, <1>1
<1>20. CASE Kill(r)
  <2>1. moved
    BY <1>20, <1>0, <1>f DEF Kill, End
  <2>2. tables
    BY <1>20 DEF Kill, db, books, TypeInv, TypeOK
  <2> QED
    BY <2>1, <2>2, <1>1
<1> QED
  BY <1>2, <1>3, <1>4, <1>5, <1>6, <1>7, <1>8, <1>9, <1>10, <1>11, <1>12, <1>13,
     <1>14, <1>15, <1>16, <1>17, <1>18, <1>19, <1>20 DEF Step

LEMMA TypesStep == ASSUME TypeInv, [Next]_vars PROVE TypeInv'
<1>1. CASE UNCHANGED vars
  BY <1>1 DEF vars, db, books, TypeInv, TypeOK, Numbered, At
<1>2. CASE Tick
  BY <1>2 DEF Tick, db, books, TypeInv, TypeOK, Numbered, At, Prepare, Last
<1>3. ASSUME NEW r \in Runners, Start(r) PROVE TypeInv'
  <2>1. run' = [run EXCEPT ![r] = [Fresh EXCEPT !.pc = "resolve", !.at = phase,
                                               !.no = started + 1]]
    BY <1>3 DEF Start
  <2>2. run \in [Runners -> RunRecord] /\ phase \in Prepare..Last /\ started \in 0..MaxRuns
    BY RunTyped DEF TypeInv, TypeOK
  <2>3. started' = started + 1 /\ started' \in 1..MaxRuns
    BY <1>3, <2>2, WorkflowAssumption DEF Start
  <2>4. [Fresh EXCEPT !.pc = "resolve", !.at = phase, !.no = started + 1] \in RunRecord
    <3>1. started + 1 \in 0..MaxRuns /\ "resolve" \in Stages
      BY <2>2, <2>3 DEF Stages
    <3> QED
      BY <2>2, <3>1, FreshTyped DEF RunRecord
  <2>5. run' \in [Runners -> RunRecord]
    BY <2>1, <2>2, <2>4
  <2>6. overlapped' \in BOOLEAN
    BY <1>3 DEF Start, TypeInv, TypeOK
  <2>7. TypeOK'
    BY <1>3, <2>3, <2>5, <2>6 DEF Start, db, books, TypeInv, TypeOK, RunRecord
  <2>8. run'[r].no = started'
    BY <2>1, <2>2, <2>3 DEF Fresh
  <2>9. \A q \in Runners : q # r => run'[q] = run[q]
    BY <2>1, <2>2
  <2>10. Numbered'
    BY <2>2, <2>3, <2>8, <2>9 DEF Numbered, At, TypeInv
  <2> QED
    BY <2>7, <2>10 DEF TypeInv
<1> QED
  BY <1>1, <1>2, <1>3, WorkTyped DEF Next

\* Every variable keeps its type, however executions fail, die and overlap.
THEOREM WorkflowTypes == Spec => []TypeOK
<1>1. TypeInv => TypeOK
  BY DEF TypeInv
<1> QED
  BY <1>1, TypesInit, TypesStep, PTL DEF Spec

-----------------------------------------------------------------------------
(* What every step of a runner keeps *)

\* An execution that works was started before; only Start counts executions.
LEMMA WorkIsStarted ==
  ASSUME NEW r \in Runners, Step(r), ~Start(r)
  PROVE  ~At(r, "idle") /\ UNCHANGED <<started, overlapped>>
BY DEF Step, At, ReadUniverse, RefreshSucceeds, RefreshFails, ReadContext, NoContext,
       SetupShadow, Momentum, NoMomentum, Review, Advised, AdviceFails, RecordMomentum,
       BeginRun, Trade, FinishClean, FinishWithErrors, RunFails, Handoff, Kill

\* Rows are only added to the tables of the session.
LEMMA TablesGrow ==
  ASSUME NEW r \in Runners, Step(r)
  PROVE  /\ universe \subseteq universe' /\ setup \subseteq setup'
         /\ momentum \subseteq momentum' /\ advice \subseteq advice'
<1>1. UNCHANGED db \/ RefreshSucceeds(r) \/ SetupShadow(r) \/ Advised(r) \/ RecordMomentum(r)
  BY DEF Step, Start, ReadUniverse, RefreshFails, ReadContext, NoContext, Momentum,
         NoMomentum, Review, AdviceFails, BeginRun, Trade, FinishClean, FinishWithErrors,
         RunFails, Handoff, Kill
<1> QED
  BY <1>1 DEF db, RefreshSucceeds, SetupShadow, Advised, RecordMomentum, InsertOnce

\* Only a trade changes what is held.
LEMMA HeldMoves ==
  ASSUME NEW r \in Runners, Step(r), ~Trade(r)
  PROVE  UNCHANGED held
BY DEF Step, Start, ReadUniverse, RefreshSucceeds, RefreshFails, ReadContext, NoContext,
       SetupShadow, Momentum, NoMomentum, Review, Advised, AdviceFails, RecordMomentum,
       BeginRun, FinishClean, FinishWithErrors, RunFails, Handoff, Kill, books

-----------------------------------------------------------------------------
(* Approvals *)

Approved(r) == \A s \in run[r].approved : \E a \in advice : s \in a.approved

LEMMA ApprovedStep ==
  ASSUME TypeInv, NEW r \in Runners, Approved(r), Step(r)
  PROVE  Approved(r)'
<1>g. advice \subseteq advice'
  BY TablesGrow
<1>t. run \in [Runners -> RunRecord] /\ run[r] \in RunRecord
  BY RunTyped
<1>1. CASE run'[r].approved \subseteq run[r].approved
  BY <1>1, <1>g DEF Approved
<1>2. CASE Review(r)
  <2>1. CASE run'[r].approved = run[r].approved
    BY <2>1, <1>1
  <2>2. CASE \E a \in advice : run'[r].approved = run[r].selected \cap a.approved
    BY <2>2, <1>g DEF Approved
  <2> QED
    BY <1>2, <1>t, <2>1, <2>2 DEF Review, RunRecord
<1>3. CASE Advised(r)
  <2>1. PICK approved \in SUBSET run[r].selected :
          /\ advice' = advice \cup {[no |-> run[r].no, approved |-> approved]}
          /\ run' = [run EXCEPT ![r].pc = "record", ![r].approved = approved]
    BY <1>3 DEF Advised
  <2>2. run'[r].approved = approved
    BY <1>t, <2>1 DEF RunRecord
  <2> QED
    BY <2>1, <2>2 DEF Approved
<1> USE DEF RunRecord, End, Fresh
<1>4. CASE Start(r) BY <1>4, <1>t, <1>1 DEF Start
<1>5. CASE ReadUniverse(r) BY <1>5, <1>t, <1>1 DEF ReadUniverse
<1>6. CASE RefreshSucceeds(r) BY <1>6, <1>t, <1>1 DEF RefreshSucceeds
<1>7. CASE RefreshFails(r) BY <1>7, <1>t, <1>1 DEF RefreshFails
<1>8. CASE ReadContext(r) BY <1>8, <1>t, <1>1 DEF ReadContext
<1>9. CASE NoContext(r) BY <1>9, <1>t, <1>1 DEF NoContext
<1>10. CASE SetupShadow(r) BY <1>10, <1>t, <1>1 DEF SetupShadow
<1>11. CASE Momentum(r) BY <1>11, <1>t, <1>1 DEF Momentum
<1>12. CASE NoMomentum(r) BY <1>12, <1>t, <1>1 DEF NoMomentum, Researched
<1>13. CASE AdviceFails(r) BY <1>13, <1>t, <1>1 DEF AdviceFails
<1>14. CASE RecordMomentum(r) BY <1>14, <1>t, <1>1 DEF RecordMomentum, Researched
<1>15. CASE BeginRun(r) BY <1>15, <1>t, <1>1 DEF BeginRun
<1>16. CASE Trade(r) BY <1>16, <1>t, <1>1 DEF Trade
<1>17. CASE FinishClean(r) BY <1>17, <1>t, <1>1 DEF FinishClean
<1>18. CASE FinishWithErrors(r) BY <1>18, <1>t, <1>1 DEF FinishWithErrors
<1>19. CASE RunFails(r) BY <1>19, <1>t, <1>1 DEF RunFails
<1>20. CASE Handoff(r) BY <1>20, <1>t, <1>1 DEF Handoff
<1>21. CASE Kill(r) BY <1>21, <1>t, <1>1 DEF Kill
<1> QED
  BY <1>2, <1>3, <1>4, <1>5, <1>6, <1>7, <1>8, <1>9, <1>10, <1>11, <1>12, <1>13, <1>14, <1>15, <1>16, <1>17, <1>18, <1>19, <1>20, <1>21 DEF Step

\* What hermes may buy of the momentum rule has a written approval, also while
\* executions overlap: a review is written before its candidates are used.
THEOREM PromotionsArePersisted == Spec => []PromotedIsPersisted
<1> DEFINE Inv == TypeInv /\ \A r \in Runners : Approved(r)
<1>1. Init => Inv
  BY TypesInit DEF Init, Approved, Fresh
<1>2. ASSUME Inv, [Next]_vars PROVE Inv'
  <2>1. TypeInv'
    BY <1>2, TypesStep
  <2>2. CASE UNCHANGED vars \/ Tick
    BY <1>2, <2>1, <2>2 DEF vars, db, Tick, Approved
  <2>3. ASSUME NEW r \in Runners, Step(r) PROVE \A q \in Runners : Approved(q)'
    <3>1. Approved(r)'
      BY <1>2, <2>3, ApprovedStep
    <3>2. advice \subseteq advice' /\ \A q \in Runners : q # r => run'[q] = run[q]
      BY <1>2, <2>3, TablesGrow, OthersStay DEF TypeInv
    <3> QED
      BY <1>2, <3>1, <3>2 DEF Approved
  <2> QED
    BY <1>2, <2>1, <2>2, <2>3 DEF Next
<1>3. Inv => PromotedIsPersisted
  BY DEF Approved, PromotedIsPersisted
<1> QED
  BY <1>1, <1>2, <1>3, PTL DEF Spec

-----------------------------------------------------------------------------
(* The setup experiment *)

Evaluated(r) ==
  run[r].ready /\ run[r].at = Last =>
    /\ run[r].pc = "setup" => run[r].dueSetup \/ setup # {}
    /\ run[r].pc \in {"momentum", "review", "asking", "record"} => setup # {}

LEMMA EvaluatedStep ==
  ASSUME TypeInv, NEW r \in Runners, Evaluated(r), Step(r)
  PROVE  Evaluated(r)'
<1>g. setup # {} => setup' # {}
  BY TablesGrow
<1>t. run \in [Runners -> RunRecord] /\ run[r] \in RunRecord
  BY RunTyped
<1> USE DEF RunRecord, End, Fresh, At, Evaluated
<1>1. CASE Start(r) BY <1>1, <1>t, <1>g DEF Start
<1>2. CASE ReadUniverse(r) BY <1>2, <1>t, <1>g DEF ReadUniverse
<1>3. CASE RefreshSucceeds(r) BY <1>3, <1>t, <1>g DEF RefreshSucceeds
<1>4. CASE RefreshFails(r) BY <1>4, <1>t, <1>g DEF RefreshFails
<1>5. CASE ReadContext(r)
  <2>1. run'[r].at = run[r].at /\ run'[r].pc = "setup" /\ setup' = setup
    BY <1>5, <1>t DEF ReadContext, db
  <2>2. run'[r].dueSetup = (InSelection(run[r].at) /\ setup = {})
    BY <1>5, <1>t, Zenon DEF ReadContext
  <2>3. run[r].at = Last => InSelection(run[r].at)
    BY DEF InSelection, Ten, Last
  <2> QED
    BY <2>1, <2>2, <2>3
<1>6. CASE NoContext(r) BY <1>6, <1>t, <1>g DEF NoContext
<1>7. CASE SetupShadow(r) BY <1>7, <1>t, <1>g DEF SetupShadow, InsertOnce
<1>8. CASE Momentum(r) BY <1>8, <1>t, <1>g DEF Momentum
<1>9. CASE NoMomentum(r) BY <1>9, <1>t, <1>g DEF NoMomentum, Researched
<1>10. CASE Review(r) BY <1>10, <1>t, <1>g DEF Review
<1>11. CASE Advised(r) BY <1>11, <1>t, <1>g DEF Advised
<1>12. CASE AdviceFails(r) BY <1>12, <1>t, <1>g DEF AdviceFails
<1>13. CASE RecordMomentum(r) BY <1>13, <1>t, <1>g DEF RecordMomentum, Researched
<1>14. CASE BeginRun(r) BY <1>14, <1>t, <1>g DEF BeginRun
<1>15. CASE Trade(r) BY <1>15, <1>t, <1>g DEF Trade
<1>16. CASE FinishClean(r) BY <1>16, <1>t, <1>g DEF FinishClean
<1>17. CASE FinishWithErrors(r) BY <1>17, <1>t, <1>g DEF FinishWithErrors
<1>18. CASE RunFails(r) BY <1>18, <1>t, <1>g DEF RunFails
<1>19. CASE Handoff(r) BY <1>19, <1>t, <1>g DEF Handoff
<1>20. CASE Kill(r) BY <1>20, <1>t, <1>g DEF Kill
<1> QED
  BY <1>1, <1>2, <1>3, <1>4, <1>5, <1>6, <1>7, <1>8, <1>9, <1>10, <1>11, <1>12,
     <1>13, <1>14, <1>15, <1>16, <1>17, <1>18, <1>19, <1>20 DEF Step

\* The cycle of the last minute leaves a row of the setup experiment, whether it
\* finds none or an earlier cycle already did.
THEOREM SetupIsResolved == Spec => []SetupResolved
<1> DEFINE Inv == TypeInv /\ \A r \in Runners : Evaluated(r)
<1>1. Init => Inv
  BY TypesInit DEF Init, Evaluated, Fresh
<1>2. ASSUME Inv, [Next]_vars PROVE Inv'
  <2>1. TypeInv'
    BY <1>2, TypesStep
  <2>2. CASE UNCHANGED vars \/ Tick
    BY <1>2, <2>1, <2>2 DEF vars, db, Tick, Evaluated
  <2>3. ASSUME NEW r \in Runners, Step(r) PROVE \A q \in Runners : Evaluated(q)'
    <3>1. Evaluated(r)'
      BY <1>2, <2>3, EvaluatedStep
    <3>2. (setup # {} => setup' # {}) /\ \A q \in Runners : q # r => run'[q] = run[q]
      BY <1>2, <2>3, TablesGrow, OthersStay DEF TypeInv
    <3> QED
      BY <1>2, <3>1, <3>2 DEF Evaluated
  <2> QED
    BY <1>2, <2>1, <2>2, <2>3 DEF Next
<1>3. Inv => SetupResolved
  BY DEF Evaluated, SetupResolved
<1> QED
  BY <1>1, <1>2, <1>3, PTL DEF Spec

-----------------------------------------------------------------------------
(* Purchases *)

Selected(r) ==
  run[r].newBuys /\ run[r].pc \notin {"idle", "resolve", "refresh"} => universe # {}

LEMMA SelectedStep ==
  ASSUME TypeInv, NEW r \in Runners, Selected(r), Step(r)
  PROVE  Selected(r)'
<1>g. universe # {} => universe' # {}
  BY TablesGrow
<1>t. run \in [Runners -> RunRecord] /\ run[r] \in RunRecord
  BY RunTyped
<1> USE DEF RunRecord, End, Fresh, At, Selected
<1>1. CASE Start(r) BY <1>1, <1>t, <1>g DEF Start
<1>2. CASE ReadUniverse(r) BY <1>2, <1>t, <1>g DEF ReadUniverse
<1>3. CASE RefreshSucceeds(r) BY <1>3 DEF RefreshSucceeds
<1>4. CASE RefreshFails(r) BY <1>4, <1>t, <1>g DEF RefreshFails
<1>5. CASE ReadContext(r) BY <1>5, <1>t, <1>g DEF ReadContext
<1>6. CASE NoContext(r) BY <1>6, <1>t, <1>g DEF NoContext
<1>7. CASE SetupShadow(r) BY <1>7, <1>t, <1>g DEF SetupShadow
<1>8. CASE Momentum(r) BY <1>8, <1>t, <1>g DEF Momentum
<1>9. CASE NoMomentum(r) BY <1>9, <1>t, <1>g DEF NoMomentum, Researched
<1>10. CASE Review(r) BY <1>10, <1>t, <1>g DEF Review
<1>11. CASE Advised(r) BY <1>11, <1>t, <1>g DEF Advised
<1>12. CASE AdviceFails(r) BY <1>12, <1>t, <1>g DEF AdviceFails
<1>13. CASE RecordMomentum(r) BY <1>13, <1>t, <1>g DEF RecordMomentum, Researched
<1>14. CASE BeginRun(r) BY <1>14, <1>t, <1>g DEF BeginRun
<1>15. CASE Trade(r) BY <1>15, <1>t, <1>g DEF Trade
<1>16. CASE FinishClean(r) BY <1>16, <1>t, <1>g DEF FinishClean
<1>17. CASE FinishWithErrors(r) BY <1>17, <1>t, <1>g DEF FinishWithErrors
<1>18. CASE RunFails(r) BY <1>18, <1>t, <1>g DEF RunFails
<1>19. CASE Handoff(r) BY <1>19, <1>t, <1>g DEF Handoff
<1>20. CASE Kill(r) BY <1>20, <1>t, <1>g DEF Kill
<1> QED
  BY <1>1, <1>2, <1>3, <1>4, <1>5, <1>6, <1>7, <1>8, <1>9, <1>10, <1>11, <1>12,
     <1>13, <1>14, <1>15, <1>16, <1>17, <1>18, <1>19, <1>20 DEF Step

\* No portfolio gains a position before a selection of the day succeeded: a cycle
\* whose refresh failed buys nothing and hands that on.
THEOREM BuysFollowSelection == Spec => BuysNeedUniverse
<1> DEFINE Inv == TypeInv /\ \A r \in Runners : Selected(r)
<1> DEFINE Buys == \A p \in Portfolios : held'[p] \subseteq held[p] \/ universe # {}
<1>1. Init => Inv
  BY TypesInit DEF Init, Selected, Fresh
<1>2. ASSUME Inv, [Next]_vars PROVE Inv'
  <2>1. TypeInv'
    BY <1>2, TypesStep
  <2>2. CASE UNCHANGED vars \/ Tick
    BY <1>2, <2>1, <2>2 DEF vars, db, Tick, Selected
  <2>3. ASSUME NEW r \in Runners, Step(r) PROVE \A q \in Runners : Selected(q)'
    <3>1. Selected(r)'
      BY <1>2, <2>3, SelectedStep
    <3>2. (universe # {} => universe' # {}) /\ \A q \in Runners : q # r => run'[q] = run[q]
      BY <1>2, <2>3, TablesGrow, OthersStay DEF TypeInv
    <3> QED
      BY <1>2, <3>1, <3>2 DEF Selected
  <2> QED
    BY <1>2, <2>1, <2>2, <2>3 DEF Next
<1>3. ASSUME Inv, [Next]_vars PROVE [Buys]_vars
  <2>1. CASE UNCHANGED vars
    BY <2>1
  <2>2. CASE Tick
    BY <2>2 DEF Tick, books
  <2>3. ASSUME NEW r \in Runners, Step(r), ~Trade(r) PROVE Buys
    BY <2>3, HeldMoves
  <2>4. ASSUME NEW r \in Runners, Trade(r) PROVE Buys
    <3>1. CASE universe # {}
      BY <3>1
    <3>2. CASE universe = {}
      <4>1. Buyable(r) = {}
        BY <1>3, <2>4, <3>2 DEF Trade, At, Selected, Buyable
      <4>2. \E sold \in SUBSET Sellable(r) :
              held' = [held EXCEPT ![run[r].portfolio] = @ \ sold]
        BY <2>4, <4>1 DEF Trade
      <4>3. held \in [Portfolios -> SUBSET Symbols]
        BY <1>3 DEF TypeInv, TypeOK
      <4> QED
        BY <4>2, <4>3
    <3> QED
      BY <3>1, <3>2
  <2> QED
    BY <1>3, <2>1, <2>2, <2>3, <2>4 DEF Next
<1> QED
  BY <1>1, <1>2, <1>3, PTL DEF Spec, BuysNeedUniverse

-----------------------------------------------------------------------------
(* One execution at a time *)

AtMostOne(S) == \A u, v \in S : u = v

LEMMA FewerThanTwo ==
  ASSUME NEW S, AtMostOne(S)
  PROVE  Cardinality(S) <= 1
<1>1. CASE S = {}
  BY <1>1, FS_EmptySet
<1>2. CASE S # {}
  <2>1. PICK u \in S : TRUE
    BY <1>2
  <2>2. S = {u}
    BY <2>1 DEF AtMostOne
  <2> QED
    BY <2>2, FS_Singleton
<1> QED
  BY <1>1, <1>2

Alone ==
  ~overlapped => \A q, r \in Runners : ~At(q, "idle") /\ ~At(r, "idle") => q = r

\* Held positions are among the symbols of a cycle from the resolution of the
\* universe to its trade.
Covered(r) ==
  ~overlapped =>
    /\ run[r].pc = "resolve" => run[r].portfolio = "rule"
    /\ run[r].pc \in Stages \ {"idle", "resolve", "finish", "handoff"}
         => held[run[r].portfolio] \subseteq run[r].symbols

\* Who is about to select, or to ask Hermes, found none of this session.
Looked(r) ==
  ~overlapped => /\ run[r].pc = "refresh" => universe = {}
                 /\ run[r].pc = "asking" => advice = {}

Once ==
  /\ AtMostOne(setup) /\ AtMostOne(momentum)
  /\ ~overlapped => AtMostOne(universe) /\ AtMostOne(advice)

\* A runner at work leaves no other in the middle of an execution.
LEMMA AloneStep ==
  ASSUME TypeInv, Alone, NEW r \in Runners, Step(r)
  PROVE  Alone'
<1>1. \A q \in Runners : q # r => run'[q] = run[q]
  BY OthersStay DEF TypeInv
<1>2. CASE Start(r)
  <2>1. overlapped' = (overlapped \/ \E q \in Runners : ~At(q, "idle"))
    BY <1>2 DEF Start
  <2> QED
    BY <1>1, <2>1 DEF Alone, At
<1>3. CASE ~Start(r)
  BY <1>1, <1>3, WorkIsStarted DEF Alone, At
<1> QED
  BY <1>2, <1>3

LEMMA CoveredStep ==
  ASSUME TypeInv, NEW r \in Runners, Covered(r), Step(r)
  PROVE  Covered(r)'
<1>t. run \in [Runners -> RunRecord] /\ run[r] \in RunRecord
  BY RunTyped
<1>o. ~overlapped' => ~overlapped
  BY WorkIsStarted DEF Start
<1> USE DEF RunRecord, End, Fresh, At, Covered, Stages, books
<1>1. CASE Start(r) BY <1>1, <1>t, <1>o DEF Start
<1>2. CASE ReadUniverse(r) BY <1>2, <1>t, <1>o DEF ReadUniverse
<1>3. CASE RefreshSucceeds(r) BY <1>3, <1>t, <1>o DEF RefreshSucceeds
<1>4. CASE RefreshFails(r) BY <1>4, <1>t, <1>o DEF RefreshFails
<1>5. CASE ReadContext(r) BY <1>5, <1>t, <1>o DEF ReadContext
<1>6. CASE NoContext(r) BY <1>6, <1>t, <1>o DEF NoContext
<1>7. CASE SetupShadow(r) BY <1>7, <1>t, <1>o DEF SetupShadow
<1>8. CASE Momentum(r) BY <1>8, <1>t, <1>o DEF Momentum
<1>9. CASE NoMomentum(r) BY <1>9, <1>t, <1>o DEF NoMomentum, Researched
<1>10. CASE Review(r) BY <1>10, <1>t, <1>o DEF Review
<1>11. CASE Advised(r) BY <1>11, <1>t, <1>o DEF Advised
<1>12. CASE AdviceFails(r) BY <1>12, <1>t, <1>o DEF AdviceFails
<1>13. CASE RecordMomentum(r) BY <1>13, <1>t, <1>o DEF RecordMomentum, Researched
<1>14. CASE BeginRun(r) BY <1>14, <1>t, <1>o DEF BeginRun
<1>15. CASE Trade(r) BY <1>15, <1>t, <1>o DEF Trade
<1>16. CASE FinishClean(r) BY <1>16, <1>t, <1>o DEF FinishClean
<1>17. CASE FinishWithErrors(r) BY <1>17, <1>t, <1>o DEF FinishWithErrors
<1>18. CASE RunFails(r) BY <1>18, <1>t, <1>o DEF RunFails
<1>19. CASE Handoff(r) BY <1>19, <1>t, <1>o DEF Handoff
<1>20. CASE Kill(r) BY <1>20, <1>t, <1>o DEF Kill
<1> QED
  BY <1>1, <1>2, <1>3, <1>4, <1>5, <1>6, <1>7, <1>8, <1>9, <1>10, <1>11, <1>12,
     <1>13, <1>14, <1>15, <1>16, <1>17, <1>18, <1>19, <1>20 DEF Step

LEMMA LookedStep ==
  ASSUME TypeInv, NEW r \in Runners, Looked(r), Step(r)
  PROVE  Looked(r)'
<1>t. run \in [Runners -> RunRecord] /\ run[r] \in RunRecord
  BY RunTyped
<1>o. ~overlapped' => ~overlapped
  BY WorkIsStarted DEF Start
<1> USE DEF RunRecord, End, Fresh, At, Looked, db
<1>1. CASE Start(r) BY <1>1, <1>t, <1>o DEF Start
<1>2. CASE ReadUniverse(r) BY <1>2, <1>t, <1>o DEF ReadUniverse
<1>3. CASE RefreshSucceeds(r) BY <1>3, <1>t, <1>o DEF RefreshSucceeds
<1>4. CASE RefreshFails(r) BY <1>4, <1>t, <1>o DEF RefreshFails
<1>5. CASE ReadContext(r) BY <1>5, <1>t, <1>o DEF ReadContext
<1>6. CASE NoContext(r) BY <1>6, <1>t, <1>o DEF NoContext
<1>7. CASE SetupShadow(r) BY <1>7, <1>t, <1>o DEF SetupShadow
<1>8. CASE Momentum(r) BY <1>8, <1>t, <1>o DEF Momentum
<1>9. CASE NoMomentum(r) BY <1>9, <1>t, <1>o DEF NoMomentum, Researched
<1>10. CASE Review(r) BY <1>10, <1>t, <1>o DEF Review
<1>11. CASE Advised(r) BY <1>11, <1>t, <1>o DEF Advised
<1>12. CASE AdviceFails(r) BY <1>12, <1>t, <1>o DEF AdviceFails
<1>13. CASE RecordMomentum(r) BY <1>13, <1>t, <1>o DEF RecordMomentum, Researched
<1>14. CASE BeginRun(r) BY <1>14, <1>t, <1>o DEF BeginRun
<1>15. CASE Trade(r) BY <1>15, <1>t, <1>o DEF Trade
<1>16. CASE FinishClean(r) BY <1>16, <1>t, <1>o DEF FinishClean
<1>17. CASE FinishWithErrors(r) BY <1>17, <1>t, <1>o DEF FinishWithErrors
<1>18. CASE RunFails(r) BY <1>18, <1>t, <1>o DEF RunFails
<1>19. CASE Handoff(r) BY <1>19, <1>t, <1>o DEF Handoff
<1>20. CASE Kill(r) BY <1>20, <1>t, <1>o DEF Kill
<1> QED
  BY <1>1, <1>2, <1>3, <1>4, <1>5, <1>6, <1>7, <1>8, <1>9, <1>10, <1>11, <1>12,
     <1>13, <1>14, <1>15, <1>16, <1>17, <1>18, <1>19, <1>20 DEF Step

LEMMA OnceStep ==
  ASSUME TypeInv, Once, NEW r \in Runners, Looked(r), Step(r)
  PROVE  Once'
<1>o. ~overlapped' => ~overlapped
  BY WorkIsStarted DEF Start
<1>1. CASE RefreshSucceeds(r)
  BY <1>1, <1>o DEF RefreshSucceeds, Looked, At, Once, AtMostOne
<1>2. CASE SetupShadow(r)
  BY <1>2, <1>o DEF SetupShadow, InsertOnce, Once, AtMostOne
<1>3. CASE Advised(r)
  BY <1>3, <1>o DEF Advised, Looked, At, Once, AtMostOne
<1>4. CASE RecordMomentum(r)
  BY <1>4, <1>o DEF RecordMomentum, InsertOnce, Once, AtMostOne
<1>5. CASE UNCHANGED db
  BY <1>5, <1>o DEF db, Once
<1>6. UNCHANGED db \/ RefreshSucceeds(r) \/ SetupShadow(r) \/ Advised(r) \/ RecordMomentum(r)
  BY DEF Step, Start, ReadUniverse, RefreshFails, ReadContext, NoContext, Momentum,
         NoMomentum, Review, AdviceFails, BeginRun, Trade, FinishClean, FinishWithErrors,
         RunFails, Handoff, Kill
<1> QED
  BY <1>1, <1>2, <1>3, <1>4, <1>5, <1>6

AloneInv ==
  TypeInv /\ Alone /\ Once /\ \A r \in Runners : Covered(r) /\ Looked(r)

\* What the others know stays true while r works: nobody else does.
LEMMA OthersKnow ==
  ASSUME AloneInv, NEW r \in Runners, Step(r), NEW q \in Runners, q # r
  PROVE  (Covered(q) /\ Looked(q))'
<1>1. run'[q] = run[q]
  BY OthersStay DEF AloneInv, TypeInv
<1>2. CASE overlapped'
  BY <1>2 DEF Covered, Looked
<1>3. CASE ~overlapped'
  <2>1. ~overlapped
    BY <1>3, WorkIsStarted DEF Start
  <2>2. CASE At(q, "idle")
    BY <1>1, <2>2 DEF Covered, Looked, At
  <2>3. CASE ~At(q, "idle")
    <3>1. ~Start(r)
      BY <1>3, <2>3 DEF Start
    <3>2. ~At(r, "idle")
      BY <3>1, WorkIsStarted
    <3> QED
      BY <2>1, <2>3, <3>2 DEF AloneInv, Alone
  <2> QED
    BY <2>2, <2>3
<1> QED
  BY <1>2, <1>3

LEMMA AloneInvInit == Init => AloneInv
BY TypesInit DEF Init, AloneInv, Alone, At, Fresh, Once, AtMostOne, Covered, Looked

LEMMA AloneInvStep == ASSUME AloneInv, [Next]_vars PROVE AloneInv'
<1>1. TypeInv'
  BY TypesStep DEF AloneInv
<1>2. CASE UNCHANGED vars \/ Tick
  BY <1>1, <1>2
     DEF vars, db, books, Tick, AloneInv, Alone, At, Once, Covered, Looked
<1>3. ASSUME NEW r \in Runners, Step(r) PROVE AloneInv'
  <2>1. Alone' /\ Once'
    BY <1>3, AloneStep, OnceStep DEF AloneInv
  <2>2. Covered(r)' /\ Looked(r)'
    BY <1>3, CoveredStep, LookedStep DEF AloneInv
  <2>3. ASSUME NEW q \in Runners, q # r PROVE (Covered(q) /\ Looked(q))'
    BY <1>3, <2>3, OthersKnow
  <2> QED
    BY <1>1, <2>1, <2>2, <2>3 DEF AloneInv
<1> QED
  BY <1>2, <1>3 DEF Next

\* One selection, one row of each experiment and one review in a session whose
\* executions do not overlap: each looks before it writes.
THEOREM OneRowPerSession == Spec => []OncePerSession
<1>1. AloneInv => OncePerSession
  BY FewerThanTwo DEF AloneInv, Once, OncePerSession
<1> QED
  BY <1>1, AloneInvInit, AloneInvStep, PTL DEF Spec

\* Without overlap a cycle that trades has every position of its portfolio among
\* its symbols, found by the selection, read again or handed over.
THEOREM HeldIsManaged == Spec => []HeldCovered
<1>1. AloneInv => HeldCovered
  BY DEF AloneInv, Covered, HeldCovered, At, Stages
<1> QED
  BY <1>1, AloneInvInit, AloneInvStep, PTL DEF Spec

-----------------------------------------------------------------------------
(* The failures in a row *)

RowRecord == [no : 1..MaxRuns, portfolio : Portfolios, ended : BOOLEAN, errors : Nat]

Of(R, p) == {row \in R : row.portfolio = p /\ row.ended}
FailedOf(R, p) == {row \in Of(R, p) : row.errors > 0}
StreakOf(R, p) ==
  {row \in FailedOf(R, p) : \A clean \in Of(R, p) \ FailedOf(R, p) : clean.no < row.no}

\* The rows of the session, and what the execution at work finds in them: its
\* number is the newest, and the row it began is there until it ends it.
RowsInv ==
  ~overlapped =>
    /\ IsFiniteSet(rows)
    /\ \A u \in rows : u.no <= started
    /\ \A u, v \in rows : u.no = v.no /\ u.portfolio = v.portfolio => u = v

Begun(r) ==
  ~overlapped =>
    /\ run[r].pc # "idle" => run[r].no = started
    /\ run[r].pc \in {"resolve", "handoff"} => run[r].portfolio = "rule"
    /\ run[r].pc # "idle" /\ run[r].portfolio = "rule"
         => \A u \in rows : u.no = run[r].no => u.portfolio # "hermes"
    /\ run[r].pc \notin {"idle", "trade", "finish", "handoff"}
         => \A u \in rows : u.no = run[r].no => u.portfolio # run[r].portfolio
    /\ run[r].pc \in {"trade", "finish"}
         => Row(r, FALSE, 0) \in rows /\ run[r].previous = LatestErrors(run[r].portfolio)

StreakInv ==
  AloneInv /\ RowsInv /\ StreakSurvives /\ \A r \in Runners : Begun(r)

LEMMA StreakIs ==
  StreakSurvives <=>
    (~overlapped => \A p \in Portfolios :
                      LatestErrors(p) = Cardinality(StreakOf(rows, p)))
BY DEF StreakSurvives, StreakOf, FailedOf, Of

\* Rows that did not end do not matter to the count.
LEMMA SameEnded ==
  ASSUME NEW p \in Portfolios, Of(rows', p) = Of(rows, p)
  PROVE  /\ LatestErrors(p)' = LatestErrors(p)
         /\ StreakOf(rows', p) = StreakOf(rows, p)
BY DEF LatestErrors, StreakOf, FailedOf, Of

LEMMA RowsStay ==
  ASSUME NEW r \in Runners, Step(r),
         ~BeginRun(r), ~FinishClean(r), ~FinishWithErrors(r), ~RunFails(r)
  PROVE  UNCHANGED rows
BY DEF Step, Start, ReadUniverse, RefreshSucceeds, RefreshFails, ReadContext, NoContext,
       SetupShadow, Momentum, NoMomentum, Review, Advised, AdviceFails, RecordMomentum,
       Trade, Handoff, Kill, books

\* The end of a cycle, whatever became of it.
Ends(r) ==
  /\ run[r].pc \in {"trade", "finish"}
  /\ \E failed \in BOOLEAN : Ended(r, failed)
  /\ UNCHANGED <<started, overlapped>>
  /\ \/ run'[r] = Fresh
     \/ run[r].portfolio = "rule" /\ run'[r] = [run[r] EXCEPT !.pc = "handoff"]

LEMMA EndsIs ==
  ASSUME TypeInv, NEW r \in Runners, FinishClean(r) \/ FinishWithErrors(r) \/ RunFails(r)
  PROVE  Ends(r)
<1>1. run \in [Runners -> RunRecord] /\ run[r] \in RunRecord
  BY RunTyped
<1>2. CASE FinishClean(r)
  <2>1. Ended(r, FALSE) /\ run[r].pc = "finish" /\ UNCHANGED <<started, overlapped>>
    BY <1>2 DEF FinishClean, At
  <2>2. \/ run'[r] = Fresh
        \/ run[r].portfolio = "rule" /\ run'[r] = [run[r] EXCEPT !.pc = "handoff"]
    BY <1>1, <1>2 DEF FinishClean, End
  <2> QED
    BY <2>1, <2>2 DEF Ends
<1>3. CASE FinishWithErrors(r) \/ RunFails(r)
  <2>1. run'[r] = Fresh
    BY <1>1, <1>3 DEF FinishWithErrors, RunFails, End
  <2>2. \E failed \in BOOLEAN : Ended(r, failed)
    BY <1>3 DEF FinishWithErrors, RunFails
  <2>3. run[r].pc \in {"trade", "finish"} /\ UNCHANGED <<started, overlapped>>
    BY <1>3 DEF FinishWithErrors, RunFails, At
  <2> QED
    BY <2>1, <2>2, <2>3 DEF Ends
<1> QED
  BY <1>2, <1>3

\* A row is replaced by one of the same cycle that ended, with the newest number.
Replaces(R, p, old, new, after) ==
  /\ R \in SUBSET RowRecord /\ old \in R /\ new \in RowRecord
  /\ after = (R \ {old}) \cup {new}
  /\ old.portfolio = p /\ ~old.ended /\ new.portfolio = p /\ new.ended /\ new.no = old.no
  /\ \A u \in R : u.no <= old.no
  /\ \A u, v \in R : u.no = v.no /\ u.portfolio = v.portfolio => u = v

LEMMA RowEnds ==
  ASSUME NEW R, NEW p \in Portfolios, NEW old, NEW new, NEW after,
         Replaces(R, p, old, new, after)
  PROVE  /\ Of(after, p) = Of(R, p) \cup {new}
         /\ \A q \in Portfolios : q # p => Of(after, q) = Of(R, q)
         /\ \A u \in Of(R, p) : u.no < new.no
<1> USE DEF Replaces
<1>1. Of(after, p) = Of(R, p) \cup {new}
  BY DEF Of
<1>2. \A q \in Portfolios : q # p => Of(after, q) = Of(R, q)
  BY DEF Of
<1>3. ASSUME NEW u \in Of(R, p) PROVE u.no < new.no
  <2>1. u \in R /\ u.no # old.no
    BY DEF Of
  <2>2. u.no <= old.no /\ u.no \in Nat /\ old.no \in Nat
    BY <2>1 DEF RowRecord
  <2> QED
    BY <2>1, <2>2
<1> QED
  BY <1>1, <1>2, <1>3

\* A row with the newest number is the latest.
LEMMA NewestIsLatest ==
  ASSUME NEW E, NEW new, new.no \in Nat, \A u \in E : u.no \in Nat /\ u.no < new.no
  PROVE  Latest(E \cup {new}) = new
<1>1. \A v \in E \cup {new} : v.no <= new.no
  OBVIOUS
<1>2. \A u \in E \cup {new} : (\A v \in E \cup {new} : v.no <= u.no) => u = new
  OBVIOUS
<1> QED
  BY <1>1, <1>2 DEF Latest

\* One more failure in a row, or none, when a row with the newest number is added.
LEMMA StreakGrows ==
  ASSUME NEW E \in SUBSET RowRecord, NEW F, NEW p, NEW new \in RowRecord,
         Of(F, p) = E \cup {new}, E = Of(E, p), \A u \in E : u.no < new.no
  PROVE  /\ new.errors > 0 => StreakOf(F, p) = StreakOf(E, p) \cup {new}
         /\ new.errors = 0 => StreakOf(F, p) = {}
         /\ new \notin StreakOf(E, p)
<1>t. new.no \in Nat /\ new.errors \in Nat /\ \A u \in E : u.no \in Nat
  BY DEF RowRecord
<1>n. new \notin E
  BY <1>t
<1>1. CASE new.errors > 0
  <2>1. FailedOf(F, p) = FailedOf(E, p) \cup {new}
    BY <1>1 DEF FailedOf
  <2>2. Of(F, p) \ FailedOf(F, p) = Of(E, p) \ FailedOf(E, p)
    BY <2>1, <1>n
  <2>3. \A clean \in Of(E, p) \ FailedOf(E, p) : clean.no < new.no
    OBVIOUS
  <2>4. StreakOf(F, p) = StreakOf(E, p) \cup {new}
    BY <2>1, <2>2, <2>3 DEF StreakOf
  <2> QED
    BY <1>1, <1>t, <2>4, <1>n DEF StreakOf, FailedOf
<1>2. CASE new.errors = 0
  <2>1. FailedOf(F, p) = FailedOf(E, p) /\ new \in Of(F, p) \ FailedOf(F, p)
    BY <1>2 DEF FailedOf
  <2>2. \A u \in FailedOf(E, p) : ~(new.no < u.no)
    BY <1>t DEF FailedOf
  <2>3. StreakOf(F, p) = {}
    BY <2>1, <2>2 DEF StreakOf
  <2> QED
    BY <1>2, <2>3, <1>n DEF StreakOf, FailedOf
<1>3. new.errors > 0 \/ new.errors = 0
  BY <1>t
<1> QED
  BY <1>1, <1>2, <1>3

\* The end of a cycle continues the count or clears it.
LEMMA EndsStreak ==
  ASSUME StreakInv, NEW r \in Runners, Ends(r), ~overlapped
  PROVE  StreakSurvives' /\ RowsInv'
<1>s. /\ run[r] \in RunRecord /\ run[r].no \in 1..MaxRuns
      /\ run[r].portfolio \in Portfolios
  <2>1. TypeInv /\ ~At(r, "idle")
    BY DEF StreakInv, AloneInv, Ends, At
  <2> QED
    BY <2>1, RunTyped DEF RunRecord
<1>p. PICK p \in Portfolios : p = run[r].portfolio
  BY <1>s
<1>t. run[r] \in RunRecord /\ run[r].no \in 1..MaxRuns /\ run[r].portfolio = p
  BY <1>s, <1>p
<1>r. rows \in SUBSET RowRecord
  BY DEF StreakInv, AloneInv, TypeInv, TypeOK, RowRecord
<1>1. PICK failed \in BOOLEAN : Ended(r, failed)
  BY DEF Ends
<1>2. PICK errors \in Nat : /\ errors = IF failed THEN run[r].previous + 1 ELSE 0
                            /\ rows' = (rows \ {Row(r, FALSE, 0)}) \cup {Row(r, TRUE, errors)}
  <2>1. (IF failed THEN run[r].previous + 1 ELSE 0) \in Nat
    BY <1>t DEF RunRecord
  <2>2. rows' = (rows \ {Row(r, FALSE, 0)})
                  \cup {Row(r, TRUE, IF failed THEN run[r].previous + 1 ELSE 0)}
    BY <1>1 DEF Ended
  <2> QED
    BY <2>1, <2>2
<1>3. PICK old : old = Row(r, FALSE, 0)
  OBVIOUS
<1>4. PICK new : new = Row(r, TRUE, errors)
  OBVIOUS
<1>5. rows' = (rows \ {old}) \cup {new}
  BY <1>2, <1>3, <1>4
<1>6. /\ old \in rows /\ old.no = started /\ run[r].previous = LatestErrors(p)
  BY <1>3, <1>t DEF StreakInv, Begun, Ends, Row
<1>7. /\ old.portfolio = p /\ ~old.ended /\ new.portfolio = p /\ new.ended
      /\ new.no = old.no /\ new.errors = errors /\ new \in RowRecord
  BY <1>3, <1>4, <1>t DEF Row, RowRecord
<1>8. /\ \A u \in rows : u.no <= old.no
      /\ \A u, v \in rows : u.no = v.no /\ u.portfolio = v.portfolio => u = v
  BY <1>6 DEF StreakInv, RowsInv
<1>9. /\ Of(rows', p) = Of(rows, p) \cup {new}
      /\ \A q \in Portfolios : q # p => Of(rows', q) = Of(rows, q)
      /\ \A u \in Of(rows, p) : u.no < new.no
  <2>1. PICK after : after = rows'
    OBVIOUS
  <2>2. Replaces(rows, p, old, new, after)
    BY <1>5, <1>6, <1>7, <1>8, <1>r, <2>1 DEF Replaces
  <2>3. /\ Of(after, p) = Of(rows, p) \cup {new}
        /\ \A q \in Portfolios : q # p => Of(after, q) = Of(rows, q)
        /\ \A u \in Of(rows, p) : u.no < new.no
    BY <1>p, <2>2, RowEnds
  <2> QED
    BY <2>1, <2>3
<1>10. LatestErrors(p)' = errors
  <2>1. Latest(Of(rows, p) \cup {new}) = new
    <3>1. new.no \in Nat /\ \A u \in Of(rows, p) : u.no \in Nat
      BY <1>7, <1>r DEF RowRecord, Of
    <3> QED
      BY <1>9, <3>1, NewestIsLatest
  <2> QED
    BY <1>7, <1>9, <2>1 DEF LatestErrors, Of
<1>11. \A q \in Portfolios : LatestErrors(q) = Cardinality(StreakOf(rows, q))
  BY StreakIs DEF StreakInv
<1>12. /\ StreakOf(Of(rows, p), p) = StreakOf(rows, p)
       /\ Of(Of(rows, p), p) = Of(rows, p)
  BY DEF StreakOf, FailedOf, Of
<1>13. /\ new.errors > 0 => StreakOf(rows', p) = StreakOf(rows, p) \cup {new}
       /\ new.errors = 0 => StreakOf(rows', p) = {}
       /\ new \notin StreakOf(rows, p)
  <2>1. Of(rows, p) \in SUBSET RowRecord
    BY <1>r DEF Of
  <2> QED
    BY <1>7, <1>9, <1>12, <2>1, StreakGrows
<1>14. LatestErrors(p)' = Cardinality(StreakOf(rows', p))
  <2>1. CASE failed
    <3>1. errors = LatestErrors(p) + 1 /\ errors > 0
      BY <1>2, <1>6, <1>t, <2>1 DEF RunRecord
    <3>2. IsFiniteSet(StreakOf(rows, p))
      <4>1. StreakOf(rows, p) \subseteq rows
        BY DEF StreakOf, FailedOf, Of
      <4>2. IsFiniteSet(rows)
        BY DEF StreakInv, RowsInv
      <4> QED
        BY <4>1, <4>2, FS_Subset
    <3>3. Cardinality(StreakOf(rows, p) \cup {new}) = Cardinality(StreakOf(rows, p)) + 1
      BY <1>13, <3>2, FS_AddElement
    <3> QED
      BY <1>7, <1>10, <1>11, <1>13, <1>t, <3>1, <3>3
  <2>2. CASE ~failed
    BY <1>2, <1>7, <1>10, <1>13, <2>2, FS_EmptySet
  <2> QED
    BY <2>1, <2>2
<1>15. ASSUME NEW q \in Portfolios, q # p
       PROVE  LatestErrors(q)' = Cardinality(StreakOf(rows', q))
  BY <1>9, <1>11, <1>15, SameEnded
<1>16. StreakSurvives'
  <2>1. \A q \in Portfolios : LatestErrors(q)' = Cardinality(StreakOf(rows', q))
    BY <1>14, <1>15
  <2> QED
    BY <2>1 DEF StreakSurvives, StreakOf, FailedOf, Of
<1>17. RowsInv'
  <2>1. IsFiniteSet(rows')
    BY <1>5, FS_RemoveElement, FS_AddElement DEF StreakInv, RowsInv
  <2>2. \A u \in rows' : u.no <= started
    BY <1>5, <1>6, <1>7, <1>8
  <2>3. \A u \in rows \ {old} : ~(u.no = new.no /\ u.portfolio = new.portfolio)
    BY <1>6, <1>7, <1>8
  <2>4. \A u, v \in rows' : u.no = v.no /\ u.portfolio = v.portfolio => u = v
    BY <1>5, <1>8, <2>3
  <2>5. started' = started
    BY DEF Ends
  <2> QED
    BY <2>1, <2>2, <2>4, <2>5 DEF RowsInv
<1> QED
  BY <1>16, <1>17

LEMMA RowsStep ==
  ASSUME StreakInv, NEW r \in Runners, Step(r)
  PROVE  RowsInv' /\ StreakSurvives'
<1>o. ~overlapped' => ~overlapped
  BY WorkIsStarted DEF Start
<1>e. ASSUME NEW p \in Portfolios, ~overlapped
      PROVE  LatestErrors(p) = Cardinality(StreakOf(rows, p))
  BY <1>e, StreakIs DEF StreakInv
<1>s. ASSUME ~overlapped', \A p \in Portfolios : Of(rows', p) = Of(rows, p)
      PROVE  StreakSurvives'
  <2>1. ASSUME NEW p \in Portfolios
        PROVE  LatestErrors(p)' = Cardinality(StreakOf(rows', p))
    BY <1>e, <1>o, <1>s, SameEnded
  <2> QED
    BY <2>1 DEF StreakSurvives, StreakOf, FailedOf, Of
<1>1. CASE overlapped'
  BY <1>1 DEF RowsInv, StreakSurvives
<1>2. CASE ~overlapped' /\ BeginRun(r)
  <2>1. rows' = rows \cup {Row(r, FALSE, 0)} /\ UNCHANGED started /\ run[r].pc = "begin"
    BY <1>2 DEF BeginRun, At
  <2>2. \A p \in Portfolios : Of(rows', p) = Of(rows, p)
    BY <2>1 DEF Of, Row
  <2>r. PICK row : row = Row(r, FALSE, 0)
    OBVIOUS
  <2>3. /\ row.no = started /\ row.portfolio = run[r].portfolio
        /\ run[r].no = started /\ rows' = rows \cup {row}
    BY <1>2, <1>o, <2>1, <2>r DEF StreakInv, Begun, Row
  <2>4. RowsInv'
    <3>1. IsFiniteSet(rows')
      BY <1>2, <1>o, <2>1, FS_AddElement DEF StreakInv, RowsInv
    <3>2. \A u \in rows' : u.no <= started'
      <4>1. started <= started
        BY DEF StreakInv, AloneInv, TypeInv, TypeOK
      <4> QED
        BY <1>2, <1>o, <2>1, <2>3, <4>1 DEF StreakInv, RowsInv
    <3>3. \A u \in rows : ~(u.no = started /\ u.portfolio = run[r].portfolio)
      BY <1>2, <1>o, <2>1, <2>3 DEF StreakInv, Begun
    <3>4. \A u, v \in rows' : u.no = v.no /\ u.portfolio = v.portfolio => u = v
      BY <1>2, <1>o, <2>1, <2>3, <3>3 DEF StreakInv, RowsInv
    <3> QED
      BY <3>1, <3>2, <3>4 DEF RowsInv
  <2> QED
    BY <1>2, <1>s, <2>2, <2>4
<1>3. CASE ~overlapped' /\ (FinishClean(r) \/ FinishWithErrors(r) \/ RunFails(r))
  BY <1>3, <1>o, EndsIs, EndsStreak DEF StreakInv, AloneInv
<1>4. CASE ~overlapped' /\ UNCHANGED rows
  <2>1. started <= started' /\ \A u \in rows : u.no \in Nat
    BY WorkIsStarted DEF Start, StreakInv, AloneInv, TypeInv, TypeOK
  <2>2. \A u \in rows : u.no <= started /\ started \in Nat /\ started' \in Nat
    BY <1>4, <1>o, WorkIsStarted DEF StreakInv, RowsInv, AloneInv, TypeInv, TypeOK, Start
  <2>3. RowsInv'
    BY <1>4, <1>o, <2>1, <2>2 DEF StreakInv, RowsInv
  <2> QED
    BY <1>4, <1>s, <2>3
<1> QED
  BY <1>1, <1>2, <1>3, <1>4, RowsStay

LEMMA BegunStep ==
  ASSUME StreakInv, NEW r \in Runners, Step(r)
  PROVE  Begun(r)'
<1>o. ~overlapped' => ~overlapped
  BY WorkIsStarted DEF Start
<1>t. run \in [Runners -> RunRecord] /\ run[r] \in RunRecord
  BY RunTyped DEF StreakInv, AloneInv
<1>b. Begun(r)
  BY DEF StreakInv
<1>1. CASE overlapped'
  BY <1>1 DEF Begun
<1>2. CASE ~overlapped' /\ Start(r)
  <2>1. /\ run'[r] = [Fresh EXCEPT !.pc = "resolve", !.at = phase, !.no = started + 1]
        /\ rows' = rows /\ started' = started + 1
    BY <1>2, <1>t DEF Start, books
  <2>2. /\ run'[r].pc = "resolve" /\ run'[r].no = started' /\ run'[r].portfolio = "rule"
    BY <2>1 DEF Fresh
  <2>3. \A u \in rows : u.no # started + 1
    <3>1. started \in Nat /\ \A u \in rows : u.no \in Nat /\ u.no <= started
      BY <1>2, <1>o DEF StreakInv, RowsInv, AloneInv, TypeInv, TypeOK
    <3> QED
      BY <3>1
  <2> QED
    BY <2>1, <2>2, <2>3 DEF Begun
<1>3. CASE ~overlapped' /\ Ends(r)
  <2>1. run[r].pc # "idle" /\ UNCHANGED started
    BY <1>3 DEF Ends
  <2>2. CASE run'[r] = Fresh
    BY <2>2 DEF Begun, Fresh
  <2>3. CASE run[r].portfolio = "rule" /\ run'[r] = [run[r] EXCEPT !.pc = "handoff"]
    <3>1. /\ run'[r].pc = "handoff" /\ run'[r].no = run[r].no /\ run'[r].portfolio = "rule"
      BY <1>t, <2>3 DEF RunRecord
    <3>2. run[r].no = started /\ \A u \in rows : u.no = started => u.portfolio # "hermes"
      BY <1>3, <1>o, <1>b, <2>1, <2>3 DEF Begun
    <3>3. \A u \in rows' : u.no = started => u.portfolio # "hermes"
      <4>1. PICK failed \in BOOLEAN : Ended(r, failed)
        BY <1>3 DEF Ends
      <4> QED
        BY <2>3, <3>2, <4>1 DEF Ended, Row
    <3> QED
      BY <2>1, <3>1, <3>2, <3>3 DEF Begun
  <2> QED
    BY <1>3, <2>2, <2>3 DEF Ends
<1>4. CASE ~overlapped' /\ BeginRun(r)
  <2>1. /\ run'[r] = [run[r] EXCEPT !.pc = "trade", !.previous = LatestErrors(run[r].portfolio)]
        /\ rows' = rows \cup {Row(r, FALSE, 0)} /\ UNCHANGED started /\ run[r].pc = "begin"
    BY <1>4, <1>t DEF BeginRun, At
  <2>2. /\ run'[r].pc = "trade" /\ run'[r].no = run[r].no
        /\ run'[r].portfolio = run[r].portfolio
        /\ run'[r].previous = LatestErrors(run[r].portfolio)
    BY <1>t, <2>1 DEF RunRecord
  <2>3. Row(r, FALSE, 0)' = Row(r, FALSE, 0)
    BY <2>2 DEF Row
  <2>4. PICK p \in Portfolios : p = run[r].portfolio
    BY <1>t DEF RunRecord
  <2>5. LatestErrors(p)' = LatestErrors(p)
    <3>1. Of(rows', p) = Of(rows, p)
      BY <2>1 DEF Of, Row
    <3> QED
      BY <3>1, SameEnded
  <2>6. run[r].no = started /\ (run[r].portfolio = "rule" =>
          \A u \in rows' : u.no = run[r].no => u.portfolio # "hermes")
    BY <1>4, <1>o, <1>b, <2>1 DEF Begun, Row
  <2>7. LatestErrors(run[r].portfolio)' = LatestErrors(p)'
    BY <2>2, <2>4
  <2> QED
    BY <2>1, <2>2, <2>3, <2>4, <2>5, <2>6, <2>7 DEF Begun
<1>5. CASE ~overlapped' /\ Trade(r)
  <2>1. run'[r] = [run[r] EXCEPT !.pc = "finish"] /\ UNCHANGED <<started, rows>>
        /\ run[r].pc = "trade"
    BY <1>5, <1>t DEF Trade, At
  <2>2. /\ run'[r].pc = "finish" /\ run'[r].no = run[r].no
        /\ run'[r].portfolio = run[r].portfolio /\ run'[r].previous = run[r].previous
    BY <1>t, <2>1 DEF RunRecord
  <2>3. Row(r, FALSE, 0)' = Row(r, FALSE, 0)
    BY <2>2 DEF Row
  <2>4. LatestErrors(run[r].portfolio)' = LatestErrors(run[r].portfolio)
    BY <2>1, <2>2 DEF LatestErrors
  <2> QED
    BY <1>5, <1>o, <1>b, <2>1, <2>2, <2>3, <2>4 DEF Begun
<1>6. CASE ~overlapped' /\ Handoff(r)
  <2>1. UNCHANGED <<started, rows>> /\ run[r].pc = "handoff"
    BY <1>6 DEF Handoff, books, At
  <2>2. CASE run'[r] = Fresh
    BY <2>2 DEF Begun, Fresh
  <2>3. CASE run'[r].pc = "begin" /\ run'[r].no = run[r].no /\ run'[r].portfolio = "hermes"
    BY <1>6, <1>o, <1>b, <2>1, <2>3 DEF Begun
  <2>4. \/ run'[r] = Fresh
        \/ /\ run'[r].pc = "begin" /\ run'[r].no = run[r].no
           /\ run'[r].portfolio = "hermes"
    BY <1>6, <1>t DEF Handoff, End, RunRecord
  <2> QED
    BY <2>2, <2>3, <2>4
<1> DEFINE works ==
       /\ UNCHANGED <<started, rows>>
       /\ run'[r].no = run[r].no /\ run'[r].portfolio = run[r].portfolio
       /\ run[r].pc \notin {"idle", "trade", "finish", "handoff"}
       /\ run'[r].pc \notin {"idle", "resolve", "trade", "finish", "handoff"}
<1>7. CASE ~overlapped' /\ works
  BY <1>7, <1>o, <1>b DEF Begun
<1>8. CASE run'[r] = Fresh
  BY <1>8 DEF Begun, Fresh
<1> HIDE DEF works
<1> USE DEF At, End, books, RunRecord
<1>9. ReadUniverse(r) => works BY <1>t DEF works, ReadUniverse
<1>10. RefreshSucceeds(r) => works BY <1>t DEF works, RefreshSucceeds
<1>11. RefreshFails(r) => works \/ run'[r] = Fresh BY <1>t DEF works, RefreshFails
<1>12. ReadContext(r) => works
  <2> SUFFICES ASSUME ReadContext(r) PROVE works
    OBVIOUS
  <2>1. PICK pool, a, b : run' = [run EXCEPT ![r].pc = "setup", ![r].ready = TRUE,
                                  ![r].pool = pool, ![r].dueSetup = a,
                                  ![r].dueMomentum = b]
    BY Zenon DEF ReadContext
  <2>2. run[r].pc = "context" /\ UNCHANGED <<started, rows>>
    BY DEF ReadContext
  <2>3. /\ run'[r].pc = "setup" /\ run'[r].no = run[r].no
        /\ run'[r].portfolio = run[r].portfolio
    BY <1>t, <2>1
  <2> QED
    BY <2>2, <2>3 DEF works
<1>13. NoContext(r) => works BY <1>t DEF works, NoContext
<1>14. SetupShadow(r) => works BY <1>t DEF works, SetupShadow
<1>15. Momentum(r) => works BY <1>t DEF works, Momentum
<1>16. NoMomentum(r) => works BY <1>t DEF works, NoMomentum, Researched
<1>17. Review(r) => works BY <1>t DEF works, Review
<1>18. Advised(r) => works BY <1>t DEF works, Advised
<1>19. AdviceFails(r) => works BY <1>t DEF works, AdviceFails
<1>20. RecordMomentum(r) => works BY <1>t DEF works, RecordMomentum, Researched
<1>21. Kill(r) => run'[r] = Fresh BY <1>t DEF Kill
<1>22. FinishClean(r) \/ FinishWithErrors(r) \/ RunFails(r) => Ends(r)
  BY EndsIs DEF StreakInv, AloneInv
<1> QED
  BY <1>1, <1>2, <1>3, <1>4, <1>5, <1>6, <1>7, <1>8, <1>9, <1>10, <1>11, <1>12, <1>13, <1>14, <1>15,
     <1>16, <1>17, <1>18, <1>19, <1>20, <1>21, <1>22 DEF Step

\* What the others know of the rows stays true while r works.
LEMMA OthersBegun ==
  ASSUME StreakInv, NEW r \in Runners, Step(r), NEW q \in Runners, q # r
  PROVE  Begun(q)'
<1>1. run'[q] = run[q]
  BY OthersStay DEF StreakInv, AloneInv, TypeInv
<1>2. CASE overlapped'
  BY <1>2 DEF Begun
<1>3. CASE ~overlapped'
  <2>1. ~overlapped
    BY <1>3, WorkIsStarted DEF Start
  <2>2. CASE At(q, "idle")
    BY <1>1, <2>2 DEF Begun, At
  <2>3. CASE ~At(q, "idle")
    <3>1. ~Start(r)
      BY <1>3, <2>3 DEF Start
    <3> QED
      BY <2>1, <2>3, <3>1, WorkIsStarted DEF StreakInv, AloneInv, Alone
  <2> QED
    BY <2>2, <2>3
<1> QED
  BY <1>2, <1>3

LEMMA StreakInvInit == Init => StreakInv
<1> SUFFICES ASSUME Init PROVE StreakInv
  OBVIOUS
<1>1. RowsInv /\ \A r \in Runners : Begun(r)
  BY FS_EmptySet DEF Init, RowsInv, Begun, Fresh
<1>2. ASSUME NEW p \in Portfolios PROVE LatestErrors(p) = Cardinality(StreakOf(rows, p))
  <2>1. StreakOf(rows, p) = {} /\ {row \in rows : row.portfolio = p /\ row.ended} = {}
    BY DEF Init, StreakOf, FailedOf, Of
  <2> QED
    BY <2>1, FS_EmptySet DEF LatestErrors
<1> QED
  BY <1>1, <1>2, AloneInvInit, StreakIs DEF StreakInv

LEMMA StreakInvStep == ASSUME StreakInv, [Next]_vars PROVE StreakInv'
<1>1. AloneInv'
  BY AloneInvStep DEF StreakInv
<1>2. CASE UNCHANGED vars \/ Tick
  <2>1. UNCHANGED <<started, overlapped, books, run>>
    BY <1>2 DEF vars, Tick
  <2>2. RowsInv' /\ StreakSurvives'
    BY <2>1 DEF StreakInv, RowsInv, StreakSurvives, LatestErrors, books
  <2>3. \A r \in Runners : Begun(r)'
    BY <2>1 DEF StreakInv, Begun, LatestErrors, Row, books
  <2> QED
    BY <1>1, <2>2, <2>3 DEF StreakInv
<1>3. ASSUME NEW r \in Runners, Step(r) PROVE StreakInv'
  BY <1>1, <1>3, RowsStep, BegunStep, OthersBegun DEF StreakInv
<1> QED
  BY <1>2, <1>3 DEF Next

\* Without overlap the stored count of errors is the number of failed cycles since
\* the last clean one, whatever was killed between them.
THEOREM StreakIsKept == Spec => []StreakSurvives
<1>1. StreakInv => StreakSurvives
  BY DEF StreakInv
<1> QED
  BY <1>1, StreakInvInit, StreakInvStep, PTL DEF Spec
=============================================================================
