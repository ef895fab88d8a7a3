-------------------------- MODULE HourlyWatch_proofs --------------------------
(* Proofs about HourlyWatch. *)
EXTENDS HourlyWatch, NaturalsInduction, WellFoundedInduction, TLAPS

-----------------------------------------------------------------------------
(* Types *)

Tries == 1..MaxTries
Found == {Anomalies(o) : o \in Observations} \cup {{}}
StagesOfRow == {"none", "no-anomaly", "queued", "unchanged-anomaly"}
RowRecord == [day : Nat, exec : Nat, stage : StagesOfRow, found : Found]
PanelRecord == [exec : Execs, day : Nat, found : Found]
TaskRecord == [at : Running \cup {"none", "ended"}, seen : RowRecord]

WatchTyped ==
  /\ today \in Nat /\ date \in [Execs -> Nat] /\ found \in [Execs -> Found]
  /\ flow \in [Execs -> Working \cup {"waiting", "done", "told", "silent"}]
  /\ tries \in [Execs -> Nat]
  /\ task \in [Execs -> [Tries -> TaskRecord]]
  /\ panels \in Seq(PanelRecord) /\ rows \in Seq(RowRecord)

-----------------------------------------------------------------------------
(* What a check knows of the panels *)

Queued(day, S) == \E j \in 1..Len(panels) : panels[j].day = day /\ panels[j].found = S

\* Before its snapshots are read an execution has called nobody.
Early(e) ==
  flow[e] \in {"waiting", "snapshots"} => /\ \A k \in Tries : task[e][k].at = "none"
                                          /\ PanelOf(e) = {}

\* A panel is about what its execution found.
OwnPanel ==
  \A i \in 1..Len(panels) : LET e == panels[i].exec
                            IN panels[i].day = date[e] /\ panels[i].found = found[e]

\* Anomalies of a row were enqueued, by its own check or by an earlier one.
RowsQueued ==
  \A i \in 1..Len(rows) :
    rows[i].found # {} \/ rows[i].stage \notin {"no-anomaly", "none"} =>
      Queued(rows[i].day, rows[i].found)

\* So were those of the row that was read, and at the end those that were found.
SeenQueued(e, k) ==
  /\ task[e][k].at = "decide" /\ task[e][k].seen.found # {} =>
       Queued(date[e], task[e][k].seen.found)
  /\ task[e][k].at = "row" /\ found[e] # {} => Queued(date[e], found[e])

WatchInv ==
  /\ WatchTyped /\ OwnPanel /\ RowsQueued
  /\ \A e \in Execs : Early(e)
  /\ \A e \in Execs : \A k \in Tries : SeenQueued(e, k)

LEMMA NoRowTyped == NoRow \in RowRecord
BY DEF NoRow, RowRecord, Found, StagesOfRow

LEMMA WatchInit == Init => WatchInv
<1> SUFFICES ASSUME Init PROVE WatchInv
  OBVIOUS
<1>1. NoTask \in TaskRecord /\ NoTask.at = "none"
  BY NoRowTyped DEF NoTask, TaskRecord
<1>2. WatchTyped
  BY <1>1 DEF Init, WatchTyped, Found, Tries
<1>3. OwnPanel /\ RowsQueued
  BY DEF Init, OwnPanel, RowsQueued
<1>4. \A e \in Execs : Early(e)
  BY <1>1 DEF Init, Early, PanelOf, Tries
<1>5. \A e \in Execs : \A k \in Tries : SeenQueued(e, k)
  BY <1>1 DEF Init, SeenQueued, Tries
<1> QED
  BY <1>2, <1>3, <1>4, <1>5 DEF WatchInv

LEMMA PanelsTyped ==
  ASSUME WatchTyped, NEW i \in 1..Len(panels)
  PROVE  panels[i] \in PanelRecord /\ panels[i].exec \in Execs
<1>1. panels[i] \in PanelRecord
  BY DEF WatchTyped
<1> QED
  BY <1>1 DEF PanelRecord

\* Nothing of this is lost by a step that leaves the tables, what was found and
\* when, and starts no handler and reads no snapshots of an execution again.
LEMMA Frame ==
  ASSUME WatchInv, WatchTyped', UNCHANGED <<date, found, panels, rows>>,
         \A e \in Execs : flow'[e] \in {"waiting", "snapshots"} => flow'[e] = flow[e],
         \A e \in Execs : \A k \in Tries :
           \/ task'[e][k] = task[e][k]
           \/ task'[e][k].at \notin {"decide", "row"} /\ flow[e] \notin {"waiting", "snapshots"}
  PROVE  WatchInv'
<1>1. OwnPanel' /\ RowsQueued'
  BY DEF WatchInv, OwnPanel, RowsQueued, Queued
<1>2. \A e \in Execs : Early(e)'
  BY DEF WatchInv, Early, PanelOf
<1>3. \A e \in Execs : \A k \in Tries : SeenQueued(e, k)'
  BY DEF WatchInv, SeenQueued, Queued
<1> QED
  BY <1>1, <1>2, <1>3 DEF WatchInv

\* A task at work belongs to an execution that has read its snapshots.
LEMMA AtWork ==
  ASSUME WatchInv, NEW e \in Execs, NEW k \in Tries, task[e][k].at # "none"
  PROVE  flow[e] \notin {"waiting", "snapshots"}
BY DEF WatchInv, Early

LEMMA WorkflowStep ==
  ASSUME WatchInv, NEW e \in Execs,
         Begin(e) \/ Workflow(e) \/ SnapshotFails(e) \/ GiveUp(e)
  PROVE  WatchInv'
<1>t. WatchTyped
  BY DEF WatchInv
<1> USE DEF serverVars, flowVars, Working
<1>1. CASE Begin(e)
  <2>1. /\ flow[e] = "waiting" /\ flow' = [flow EXCEPT ![e] = "snapshots"]
        /\ date' = [date EXCEPT ![e] = today] /\ UNCHANGED <<found, task, panels, rows>>
    BY <1>1 DEF Begin
  <2>2. WatchTyped'
    BY <1>1, <1>t DEF Begin, WatchTyped
  <2>3. PanelOf(e) = {} /\ \A k \in Tries : task[e][k].at = "none"
    BY <2>1 DEF WatchInv, Early
  <2>4. \A i \in 1..Len(panels) : panels[i].exec # e
    BY <2>3 DEF PanelOf
  <2>5. OwnPanel'
    <3>1. \A i \in 1..Len(panels) : panels[i].exec \in Execs
      BY <1>t, PanelsTyped
    <3> QED
      BY <1>t, <2>1, <2>4, <3>1 DEF WatchInv, OwnPanel, WatchTyped
  <2>6. RowsQueued'
    BY <2>1 DEF WatchInv, RowsQueued, Queued
  <2>7. \A f \in Execs : Early(f)'
    BY <1>t, <2>1, <2>3 DEF WatchInv, Early, PanelOf, WatchTyped
  <2>8. \A f \in Execs : \A k \in Tries : SeenQueued(f, k)'
    BY <1>t, <2>1, <2>3 DEF WatchInv, SeenQueued, Queued, WatchTyped
  <2> QED
    BY <2>2, <2>5, <2>6, <2>7, <2>8 DEF WatchInv
<1>2. CASE Snapshots(e)
  <2>1. PICK S \in Found : found' = [found EXCEPT ![e] = S]
    BY <1>2 DEF Snapshots, Found
  <2>2. /\ flow[e] = "snapshots" /\ flow' = [flow EXCEPT ![e] = "enqueue"]
        /\ UNCHANGED <<date, task, panels, rows>>
    BY <1>2 DEF Snapshots
  <2>3. WatchTyped'
    BY <1>2, <1>t, <2>1 DEF Snapshots, WatchTyped
  <2>4. PanelOf(e) = {} /\ \A k \in Tries : task[e][k].at = "none"
    BY <2>2 DEF WatchInv, Early
  <2>5. \A i \in 1..Len(panels) : panels[i].exec # e
    BY <2>4 DEF PanelOf
  <2>6. OwnPanel'
    <3>1. \A i \in 1..Len(panels) : panels[i].exec \in Execs
      BY <1>t, PanelsTyped
    <3> QED
      BY <1>t, <2>1, <2>2, <2>5, <3>1 DEF WatchInv, OwnPanel, WatchTyped
  <2>7. RowsQueued'
    BY <2>2 DEF WatchInv, RowsQueued, Queued
  <2>8. \A f \in Execs : Early(f)'
    BY <1>t, <2>2 DEF WatchInv, Early, PanelOf, WatchTyped
  <2>9. \A f \in Execs : \A k \in Tries : SeenQueued(f, k)'
    BY <1>t, <2>1, <2>2, <2>4 DEF WatchInv, SeenQueued, Queued, WatchTyped
  <2> QED
    BY <2>3, <2>6, <2>7, <2>8, <2>9 DEF WatchInv
<1>3. CASE Call(e)
  <2>1. [NoTask EXCEPT !.at = "read"] \in TaskRecord
    BY NoRowTyped DEF NoTask, TaskRecord, Running
  <2>2. task' = [task EXCEPT ![e][tries[e] + 1] = [NoTask EXCEPT !.at = "read"]]
    BY <1>3 DEF Call
  <2>3. WatchTyped'
    <3>1. task' \in [Execs -> [Tries -> TaskRecord]]
      BY <1>t, <2>1, <2>2 DEF WatchTyped
    <3>2. tries' \in [Execs -> Nat]
      BY <1>3, <1>t DEF Call, WatchTyped
    <3> QED
      BY <1>3, <1>t, <3>1, <3>2 DEF Call, WatchTyped
  <2>4. \A f \in Execs : \A k \in Tries :
          \/ task'[f][k] = task[f][k]
          \/ f = e /\ task'[f][k] = [NoTask EXCEPT !.at = "read"]
    BY <1>t, <2>2 DEF WatchTyped
  <2>5. [NoTask EXCEPT !.at = "read"].at = "read"
    BY DEF NoTask
  <2> QED
    BY <1>3, <2>3, <2>4, <2>5, Frame DEF Call
<1>4. CASE Done(e)
  <2>1. WatchTyped'
    BY <1>4, <1>t DEF Done, WatchTyped
  <2> QED
    BY <1>4, <1>t, <2>1, Frame DEF Done, WatchTyped
<1>5. CASE Tell(e)
  <2>1. WatchTyped'
    BY <1>5, <1>t DEF Tell, WatchTyped
  <2> QED
    BY <1>5, <1>t, <2>1, Frame DEF Tell, WatchTyped
<1>6. CASE SnapshotFails(e)
  <2>1. WatchTyped'
    BY <1>6, <1>t DEF SnapshotFails, WatchTyped
  <2> QED
    BY <1>6, <1>t, <2>1, Frame DEF SnapshotFails, WatchTyped
<1>7. CASE GiveUp(e)
  <2>1. WatchTyped'
    BY <1>7, <1>t DEF GiveUp, WatchTyped
  <2> QED
    BY <1>7, <2>1, Frame DEF GiveUp
<1> QED
  BY <1>1, <1>2, <1>3, <1>4, <1>5, <1>6, <1>7 DEF Workflow

\* A set of indices has a greatest one.
LEMMA GreatestIndex ==
  ASSUME NEW n \in Nat, NEW S \in SUBSET (1..n), S # {}
  PROVE  \E i \in S : \A j \in S : j <= i
<1> DEFINE left == {n - i : i \in S}
<1>1. left \in SUBSET Nat /\ left # {}
  <2>1. \A i \in S : n - i \in Nat
    OBVIOUS
  <2> QED
    BY <2>1
<1>2. PICK m \in left : \A l \in left : ~(<<l, m>> \in OpToRel(<, Nat))
  BY <1>1, NatLessThanWellFounded, WFMin
<1>3. PICK i \in S : m = n - i
  BY <1>2
<1>4. ASSUME NEW j \in S PROVE j <= i
  <2>1. n - j \in left /\ n - j \in Nat /\ n - i \in Nat
    OBVIOUS
  <2>2. ~(n - j < n - i)
    BY <1>2, <1>3, <2>1 DEF OpToRel
  <2> QED
    BY <2>2
<1> QED
  BY <1>4

\* The row read last is of the day, or there is none.
LEMMA LatestQueued ==
  ASSUME WatchInv, NEW d \in Nat
  PROVE  Latest(d) \in RowRecord /\ (Latest(d).found # {} => Queued(d, Latest(d).found))
<1> DEFINE Of == {i \in 1..Len(rows) : rows[i].day = d}
<1>1. CASE Of = {}
  BY <1>1, NoRowTyped DEF Latest, NoRow
<1>2. CASE Of # {}
  <2>1. \E i \in Of : \A j \in Of : j <= i
    <3>1. Len(rows) \in Nat
      BY DEF WatchInv, WatchTyped
    <3> QED
      BY <1>2, <3>1, GreatestIndex
  <2>2. PICK i \in Of : Latest(d) = rows[i]
    BY <1>2, <2>1 DEF Latest
  <2>3. rows[i] \in RowRecord
    BY DEF WatchInv, WatchTyped
  <2> QED
    BY <2>2, <2>3 DEF WatchInv, RowsQueued
<1> QED
  BY <1>1, <1>2

\* A handler of e that runs leaves the other handlers where they are.
LEMMA ToIs ==
  ASSUME WatchTyped, NEW e \in Execs, NEW k \in Tries, NEW s \in Running \cup {"ended"},
         To(e, k, s)
  PROVE  /\ task' \in [Execs -> [Tries -> TaskRecord]]
         /\ task'[e][k].at = s
         /\ \A f \in Execs : \A l \in Tries : f # e \/ l # k => task'[f][l] = task[f][l]
<1> DEFINE new == [at |-> s, seen |-> IF s = "row" THEN task[e][k].seen ELSE NoRow]
<1>1. task[e][k] \in TaskRecord
  BY DEF WatchTyped
<1>2. new \in TaskRecord
  BY <1>1, NoRowTyped DEF TaskRecord
<1>3. task' = [task EXCEPT ![e][k] = new]
  BY DEF To
<1> QED
  BY <1>2, <1>3 DEF WatchTyped

LEMMA ReadStep ==
  ASSUME WatchInv, NEW e \in Execs, NEW k \in Tries, Read(e, k)
  PROVE  WatchInv'
<1>t. WatchTyped /\ date[e] \in Nat
  BY DEF WatchInv, WatchTyped
<1> DEFINE new == [at |-> "decide", seen |-> Latest(date[e])]
<1>1. /\ task' = [task EXCEPT ![e][k] = new] /\ task[e][k].at = "read"
      /\ UNCHANGED <<today, flow, date, found, tries, panels, rows>>
  BY DEF Read, flowVars
<1>2. new \in TaskRecord /\ (Latest(date[e]).found # {} => Queued(date[e], Latest(date[e]).found))
  BY <1>t, LatestQueued DEF TaskRecord, Running
<1>3. WatchTyped'
  <2>1. task' \in [Execs -> [Tries -> TaskRecord]]
    BY <1>t, <1>1, <1>2 DEF WatchTyped
  <2> QED
    BY <1>t, <1>1, <2>1 DEF WatchTyped
<1>4. OwnPanel' /\ RowsQueued'
  BY <1>1 DEF WatchInv, OwnPanel, RowsQueued, Queued
<1>5. \A f \in Execs : \A l \in Tries : task'[f][l] = IF f = e /\ l = k THEN new ELSE task[f][l]
  BY <1>t, <1>1 DEF WatchTyped
<1>6. \A f \in Execs : Early(f)'
  <2>1. flow[e] \notin {"waiting", "snapshots"}
    BY <1>1, AtWork
  <2> QED
    BY <1>1, <1>5, <2>1 DEF WatchInv, Early, PanelOf
<1>7. \A f \in Execs : \A l \in Tries : SeenQueued(f, l)'
  <2> SUFFICES ASSUME NEW f \in Execs, NEW l \in Tries PROVE SeenQueued(f, l)'
    OBVIOUS
  <2>1. CASE f = e /\ l = k
    BY <1>1, <1>2, <1>5, <2>1 DEF SeenQueued, Queued
  <2>2. CASE ~(f = e /\ l = k)
    BY <1>1, <1>5, <2>2 DEF WatchInv, SeenQueued, Queued
  <2> QED
    BY <2>1, <2>2
<1> QED
  BY <1>3, <1>4, <1>6, <1>7 DEF WatchInv

LEMMA DecideStep ==
  ASSUME WatchInv, NEW e \in Execs, NEW k \in Tries, Decide(e, k)
  PROVE  WatchInv'
<1>t. WatchTyped /\ flow[e] \notin {"waiting", "snapshots"}
  BY AtWork DEF WatchInv, Decide
<1> DEFINE new == [exec |-> e, day |-> date[e], found |-> found[e]]
<1>1. /\ panels' = (IF News(e, k) THEN Enqueued(e) ELSE panels) /\ To(e, k, "row")
      /\ task[e][k].at = "decide" /\ UNCHANGED <<today, flow, date, found, tries, rows>>
  BY DEF Decide, flowVars
<1>2. /\ task' \in [Execs -> [Tries -> TaskRecord]] /\ task'[e][k].at = "row"
      /\ \A f \in Execs : \A l \in Tries : f # e \/ l # k => task'[f][l] = task[f][l]
  BY <1>t, <1>1, ToIs DEF Running
<1>3. new \in PanelRecord /\ panels \in Seq(PanelRecord)
  BY <1>t DEF WatchTyped, PanelRecord
<1>4. panels' = panels \/ panels' = Append(panels, new)
  BY <1>1 DEF Enqueued
<1>5. /\ panels' \in Seq(PanelRecord) /\ Len(panels) <= Len(panels')
      /\ \A i \in 1..Len(panels) : panels'[i] = panels[i]
      /\ \A i \in 1..Len(panels') : i \notin 1..Len(panels) => panels'[i] = new
  BY <1>3, <1>4
<1>6. \A d, S : Queued(d, S) => Queued(d, S)'
  BY <1>3, <1>5 DEF Queued
<1>7. found[e] # {} => Queued(date[e], found[e])'
  <2>1. CASE ~News(e, k)
    BY <1>1, <1>6, <2>1 DEF News, WatchInv, SeenQueued
  <2>2. CASE News(e, k) /\ PanelOf(e) = {}
    <3>1. panels' = Append(panels, new)
      BY <1>1, <2>2 DEF Enqueued
    <3>2. Len(panels') \in 1..Len(panels') /\ panels'[Len(panels')] = new
      BY <1>3, <3>1
    <3> QED
      BY <1>1, <3>2 DEF Queued
  <2>3. CASE PanelOf(e) # {}
    <3>1. PICK i \in 1..Len(panels) : panels[i].exec = e
      BY <2>3 DEF PanelOf
    <3>2. Queued(date[e], found[e])
      BY <3>1 DEF WatchInv, OwnPanel, Queued
    <3> QED
      BY <1>1, <1>6, <3>2
  <2> QED
    BY <2>1, <2>2, <2>3
<1>8. WatchTyped'
  BY <1>t, <1>1, <1>2, <1>5 DEF WatchTyped
<1>9. OwnPanel'
  BY <1>1, <1>5 DEF WatchInv, OwnPanel
<1>10. RowsQueued'
  BY <1>1, <1>6 DEF WatchInv, RowsQueued
<1>11. \A f \in Execs : Early(f)'
  <2> SUFFICES ASSUME NEW f \in Execs, flow[f] \in {"waiting", "snapshots"} PROVE Early(f)'
    BY <1>1 DEF Early
  <2>1. f # e /\ PanelOf(f) = {} /\ \A l \in Tries : task[f][l].at = "none"
    BY <1>t DEF WatchInv, Early
  <2>2. \A i \in 1..Len(panels') : panels'[i].exec # f
    BY <1>5, <2>1 DEF PanelOf
  <2> QED
    BY <1>2, <2>1, <2>2 DEF Early, PanelOf
<1>12. \A f \in Execs : \A l \in Tries : SeenQueued(f, l)'
  <2> SUFFICES ASSUME NEW f \in Execs, NEW l \in Tries PROVE SeenQueued(f, l)'
    OBVIOUS
  <2>1. CASE f = e /\ l = k
    BY <1>1, <1>2, <1>7, <2>1 DEF SeenQueued, Queued
  <2>2. CASE f # e \/ l # k
    BY <1>1, <1>2, <1>6, <2>2 DEF WatchInv, SeenQueued
  <2> QED
    BY <2>1, <2>2
<1> QED
  BY <1>8, <1>9, <1>10, <1>11, <1>12 DEF WatchInv

LEMMA RecordStep ==
  ASSUME WatchInv, NEW e \in Execs, NEW k \in Tries, Record(e, k)
  PROVE  WatchInv'
<1>t. WatchTyped
  BY DEF WatchInv
<1> DEFINE new == RowOf(e, k)
<1>1. /\ rows' = Append(rows, new) /\ To(e, k, "audit") /\ task[e][k].at = "row"
      /\ UNCHANGED <<today, flow, date, found, tries, panels>>
  BY DEF Record, flowVars
<1>2. /\ task' \in [Execs -> [Tries -> TaskRecord]] /\ task'[e][k].at = "audit"
      /\ \A f \in Execs : \A l \in Tries : f # e \/ l # k => task'[f][l] = task[f][l]
  BY <1>t, <1>1, ToIs DEF Running
<1>3. new \in RowRecord /\ rows \in Seq(RowRecord)
  <2>1. date[e] \in Nat /\ found[e] \in Found /\ e \in Nat
    BY <1>t DEF WatchTyped, Execs
  <2>2. Stage(e, k) \in StagesOfRow
    BY DEF Stage, StagesOfRow
  <2> QED
    BY <1>t, <2>1, <2>2 DEF WatchTyped, RowOf, RowRecord
<1>4. new.found # {} \/ new.stage \notin {"no-anomaly", "none"} => Queued(new.day, new.found)
  BY <1>1 DEF RowOf, Stage, WatchInv, SeenQueued
<1>5. RowsQueued'
  <2> SUFFICES ASSUME NEW i \in 1..Len(rows'),
                      rows'[i].found # {} \/ rows'[i].stage \notin {"no-anomaly", "none"}
               PROVE  Queued(rows'[i].day, rows'[i].found)
    BY <1>1 DEF RowsQueued, Queued
  <2>1. \/ rows'[i] = new
        \/ i \in 1..Len(rows) /\ rows'[i] = rows[i]
    BY <1>1, <1>3
  <2> QED
    BY <1>4, <2>1 DEF WatchInv, RowsQueued
<1>6. WatchTyped'
  <2>1. rows' \in Seq(RowRecord)
    BY <1>1, <1>3
  <2> QED
    BY <1>t, <1>1, <1>2, <2>1 DEF WatchTyped
<1>7. OwnPanel'
  BY <1>1 DEF WatchInv, OwnPanel
<1>8. \A f \in Execs : Early(f)'
  <2>1. flow[e] \notin {"waiting", "snapshots"}
    BY <1>1, AtWork
  <2> QED
    BY <1>1, <1>2, <2>1 DEF WatchInv, Early, PanelOf
<1>9. \A f \in Execs : \A l \in Tries : SeenQueued(f, l)'
  BY <1>1, <1>2 DEF WatchInv, SeenQueued, Queued
<1> QED
  BY <1>5, <1>6, <1>7, <1>8, <1>9 DEF WatchInv

\* The end of a handler, of whatever kind.
LEMMA OverStep ==
  ASSUME WatchInv, NEW e \in Execs, NEW k \in Tries,
         Audit(e, k) \/ Refuse(e, k) \/ AnswerError(e, k)
  PROVE  WatchInv'
<1>t. WatchTyped
  BY DEF WatchInv
<1>1. PICK s \in {"ended", "refused"} : To(e, k, s)
  BY DEF Audit, Refuse, AnswerError
<1>2. /\ task[e][k].at # "none"
      /\ UNCHANGED <<today, flow, date, found, tries, panels, rows>>
  BY DEF Audit, Refuse, AnswerError, flowVars
<1>3. /\ task' \in [Execs -> [Tries -> TaskRecord]] /\ task'[e][k].at = s
      /\ \A f \in Execs : \A l \in Tries : f # e \/ l # k => task'[f][l] = task[f][l]
  BY <1>t, <1>1, ToIs DEF Running
<1>4. WatchTyped'
  BY <1>t, <1>2, <1>3 DEF WatchTyped
<1>5. flow[e] \notin {"waiting", "snapshots"}
  BY <1>2, AtWork
<1> QED
  BY <1>1, <1>2, <1>3, <1>4, <1>5, Frame

LEMMA RestartStep == ASSUME WatchInv, Restart PROVE WatchInv'
<1>t. WatchTyped
  BY DEF WatchInv
<1> DEFINE over == [NoTask EXCEPT !.at = "ended"]
<1>1. over \in TaskRecord /\ over.at = "ended"
  BY NoRowTyped DEF NoTask, TaskRecord
<1>2. /\ task' = [e \in Execs |-> [k \in Tries |->
                   IF task[e][k].at \in Running THEN over ELSE task[e][k]]]
      /\ UNCHANGED <<today, flow, date, found, tries, panels, rows>>
  BY DEF Restart, Tries
<1>3. task' \in [Execs -> [Tries -> TaskRecord]]
  BY <1>t, <1>1, <1>2 DEF WatchTyped
<1>4. WatchTyped'
  BY <1>t, <1>2, <1>3 DEF WatchTyped
<1>5. \A e \in Execs : \A k \in Tries :
        \/ task'[e][k] = task[e][k]
        \/ task'[e][k] = over /\ flow[e] \notin {"waiting", "snapshots"}
  BY <1>2, AtWork DEF Running
<1> QED
  BY <1>1, <1>2, <1>4, <1>5, Frame

LEMMA WatchStep == ASSUME WatchInv, [Next]_vars PROVE WatchInv'
<1>1. CASE UNCHANGED vars
  <2>1. WatchTyped'
    BY <1>1 DEF vars, flowVars, serverVars, WatchInv, WatchTyped
  <2> QED
    BY <1>1, <2>1, Frame DEF vars, flowVars, serverVars
<1>2. CASE NextDay
  <2>1. WatchTyped'
    BY <1>2 DEF NextDay, flowVars, serverVars, WatchInv, WatchTyped
  <2> QED
    BY <1>2, <2>1, Frame DEF NextDay, flowVars, serverVars
<1> QED
  BY <1>1, <1>2, WorkflowStep, ReadStep, DecideStep, RecordStep, OverStep, RestartStep
     DEF Next, Handler, Tries

-----------------------------------------------------------------------------
(* Theorem *)

\* Anomalies that are left out as unchanged were enqueued on the same date,
\* whichever calls are retried, overlap, are lost or die with the server.
THEOREM SuppressedWasQueued == Spec => []SuppressedIsQueued
<1>1. WatchInv => SuppressedIsQueued
  BY DEF WatchInv, RowsQueued, Queued, SuppressedIsQueued
<1> QED
  BY <1>1, WatchInit, WatchStep, PTL DEF Spec

-----------------------------------------------------------------------------
(* What is enqueued a second time *)

\* Executions begin in the order of their numbers, and one that was over when a
\* later one began has nothing to do any more.
InOrder(f, e) == f < e /\ flow[e] # "waiting" =>
  /\ flow[f] # "waiting"
  /\ <<f, e>> \notin overlaps => ~Active(f)

\* A row is about what its execution found.
OwnRow(i) == LET e == rows[i].exec
             IN  /\ e \in Execs /\ rows[i].day = date[e] /\ rows[i].found = found[e]
                 /\ flow[e] \notin {"waiting", "snapshots"}

\* What a check that decides has read is not older than the rows of the
\* executions of its day that were over when its own began.
Fresh(e, k) ==
  task[e][k].at = "decide" =>
    \A i \in 1..Len(rows) :
      LET f == rows[i].exec
      IN  f < e /\ <<f, e>> \notin overlaps /\ rows[i].day = date[e] =>
            \E j \in i..Len(rows) :
              rows[j].day = date[e] /\ rows[j].found = task[e][k].seen.found

OnceInv ==
  /\ \A e, f \in Execs : InOrder(f, e)
  /\ \A i \in 1..Len(rows) : OwnRow(i)
  /\ \A e \in Execs : \A k \in Tries : Fresh(e, k)

LEMMA OnceInit == Init => OnceInv
BY DEF Init, OnceInv, InOrder, OwnRow, Fresh, NoTask

\* Nothing of this is lost by a step that leaves the rows, begins no execution,
\* wakes none that was over and reads no row.
LEMMA OnceFrame ==
  ASSUME OnceInv, UNCHANGED <<date, found, rows, overlaps>>,
         \A e \in Execs : flow'[e] = "waiting" <=> flow[e] = "waiting",
         \A e \in Execs : flow'[e] = "snapshots" => flow[e] = "snapshots",
         \A e \in Execs : Active(e)' => Active(e),
         \A e \in Execs : \A k \in Tries :
           task'[e][k].at = "decide" => task'[e][k] = task[e][k]
  PROVE  OnceInv'
<1>1. \A e, f \in Execs : InOrder(f, e)'
  BY DEF OnceInv, InOrder
<1>2. \A i \in 1..Len(rows) : OwnRow(i)'
  BY DEF OnceInv, OwnRow
<1>3. \A e \in Execs : \A k \in Tries : Fresh(e, k)'
  BY DEF OnceInv, Fresh
<1> QED
  BY <1>1, <1>2, <1>3 DEF OnceInv

\* A handler of e at work keeps e active; its step keeps the others as they are.
LEMMA ActiveStep ==
  ASSUME WatchTyped, NEW e \in Execs, NEW k \in Tries, UNCHANGED flow,
         task[e][k].at \in Running,
         \A f \in Execs : \A l \in Tries : f # e \/ l # k => task'[f][l] = task[f][l]
  PROVE  Active(e) /\ \A f \in Execs : Active(f)' => Active(f)
BY DEF Active, TaskRuns, Tries

LEMMA OnceBegin ==
  ASSUME WatchInv, OnceInv, NEW e \in Execs, Begin(e)
  PROVE  OnceInv'
<1>t. WatchTyped
  BY DEF WatchInv
<1>1. /\ flow[e] = "waiting" /\ flow' = [flow EXCEPT ![e] = "snapshots"]
      /\ \A f \in Execs : f < e => flow[f] # "waiting"
      /\ date' = [date EXCEPT ![e] = today]
      /\ overlaps' = overlaps \cup ({f \in Execs : Active(f)} \X {e})
      /\ UNCHANGED <<found, task, rows>>
  BY DEF Begin, serverVars
<1>2. /\ \A k \in Tries : task[e][k].at = "none"
      /\ \A f \in Execs \ {e} : flow'[f] = flow[f] /\ date'[f] = date[f]
      /\ flow'[e] = "snapshots"
  BY <1>1, <1>t DEF WatchInv, Early, WatchTyped
<1>3. \A f \in Execs \ {e} : Active(f)' = Active(f)
  BY <1>1, <1>2 DEF Active, TaskRuns
<1>4. \A f, g \in Execs : <<f, g>> \in overlaps' <=> <<f, g>> \in overlaps \/ (g = e /\ Active(f))
  <2> DEFINE active == {f \in Execs : Active(f)}
  <2>1. overlaps' = overlaps \cup (active \X {e})
    BY <1>1
  <2>2. \A f, g \in Execs : <<f, g>> \in active \X {e} <=> f \in active /\ g = e
    OBVIOUS
  <2>3. \A f \in Execs : f \in active <=> Active(f)
    OBVIOUS
  <2> HIDE DEF active
  <2> QED
    BY <2>1, <2>2, <2>3
<1>5. ASSUME NEW f \in Execs, NEW g \in Execs PROVE InOrder(f, g)'
  <2> SUFFICES ASSUME f < g, flow'[g] # "waiting"
               PROVE  flow'[f] # "waiting" /\ (<<f, g>> \notin overlaps' => ~Active(f)')
    BY DEF InOrder
  <2>t. f \in Int /\ g \in Int /\ e \in Int
    BY DEF Execs
  <2>1. f # g
    BY <2>t
  <2>2. CASE g = e
    BY <1>1, <1>2, <1>3, <1>4, <2>1, <2>2
  <2>3. CASE g # e
    <3>1. flow[f] # "waiting" /\ (<<f, g>> \notin overlaps => ~Active(f))
      BY <1>2, <2>3 DEF OnceInv, InOrder
    <3> QED
      BY <1>1, <1>2, <1>3, <1>4, <2>3, <3>1
  <2> QED
    BY <2>2, <2>3
<1>6. ASSUME NEW i \in 1..Len(rows') PROVE OwnRow(i)'
  <2>1. OwnRow(i) /\ rows' = rows
    BY <1>1 DEF OnceInv
  <2>2. rows[i].exec \in Execs \ {e}
    BY <1>1, <2>1 DEF OwnRow
  <2> QED
    BY <1>1, <1>2, <2>1, <2>2 DEF OwnRow
<1>7. ASSUME NEW g \in Execs, NEW k \in Tries PROVE Fresh(g, k)'
  <2> SUFFICES ASSUME task[g][k].at = "decide" PROVE Fresh(g, k)'
    BY <1>1 DEF Fresh
  <2>1. g # e
    BY <1>2
  <2>2. \A i \in 1..Len(rows) : <<rows[i].exec, g>> \in overlaps => <<rows[i].exec, g>> \in overlaps'
    BY <1>1
  <2> QED
    BY <1>1, <1>2, <2>1, <2>2 DEF OnceInv, Fresh
<1> QED
  BY <1>5, <1>6, <1>7 DEF OnceInv

\* The row that is read is the last one of the day.
LEMMA LatestIsLast ==
  ASSUME WatchTyped, NEW d, NEW i \in 1..Len(rows), rows[i].day = d
  PROVE  \E j \in i..Len(rows) : rows[j].day = d /\ rows[j] = Latest(d)
<1> DEFINE Of == {n \in 1..Len(rows) : rows[n].day = d}
<1>1. i \in Of /\ Len(rows) \in Nat
  BY DEF WatchTyped
<1>2. \E j \in Of : \A n \in Of : n <= j
  BY <1>1, GreatestIndex
<1>3. PICK j \in Of : Latest(d) = rows[j] /\ \A n \in Of : n <= j
  BY <1>1, <1>2 DEF Latest
<1>4. j \in i..Len(rows)
  BY <1>1, <1>3
<1> QED
  BY <1>3, <1>4

LEMMA OnceRead ==
  ASSUME WatchInv, OnceInv, NEW e \in Execs, NEW k \in Tries, Read(e, k)
  PROVE  OnceInv'
<1>t. WatchTyped
  BY DEF WatchInv
<1>1. /\ task' = [task EXCEPT ![e][k] = [at |-> "decide", seen |-> Latest(date[e])]]
      /\ task[e][k].at = "read" /\ UNCHANGED <<flow, date, found, rows, overlaps>>
  BY DEF Read, flowVars
<1>2. /\ task'[e][k] = [at |-> "decide", seen |-> Latest(date[e])]
      /\ \A f \in Execs : \A l \in Tries : f # e \/ l # k => task'[f][l] = task[f][l]
  BY <1>t, <1>1 DEF WatchTyped
<1>3. \A f \in Execs : Active(f)' => Active(f)
  BY <1>t, <1>1, <1>2, ActiveStep DEF Running
<1>4. \A f, g \in Execs : InOrder(f, g)'
  BY <1>1, <1>3 DEF OnceInv, InOrder
<1>5. \A i \in 1..Len(rows) : OwnRow(i)'
  BY <1>1 DEF OnceInv, OwnRow
<1>6. ASSUME NEW g \in Execs, NEW l \in Tries PROVE Fresh(g, l)'
  <2>1. CASE g = e /\ l = k
    BY <1>t, <1>1, <1>2, <2>1, LatestIsLast DEF Fresh
  <2>2. CASE g # e \/ l # k
    BY <1>1, <1>2, <2>2 DEF OnceInv, Fresh
  <2> QED
    BY <2>1, <2>2
<1> QED
  BY <1>1, <1>4, <1>5, <1>6 DEF OnceInv

LEMMA OnceRecord ==
  ASSUME WatchInv, OnceInv, NEW e \in Execs, NEW k \in Tries, Record(e, k)
  PROVE  OnceInv'
<1>t. WatchTyped
  BY DEF WatchInv
<1> DEFINE new == RowOf(e, k)
<1>1. /\ rows' = Append(rows, new) /\ To(e, k, "audit") /\ task[e][k].at = "row"
      /\ UNCHANGED <<flow, date, found, overlaps>>
  BY DEF Record, flowVars
<1>2. /\ task'[e][k].at = "audit"
      /\ \A f \in Execs : \A l \in Tries : f # e \/ l # k => task'[f][l] = task[f][l]
  BY <1>t, <1>1, ToIs DEF Running
<1>3. Active(e) /\ \A f \in Execs : Active(f)' => Active(f)
  BY <1>t, <1>1, <1>2, ActiveStep DEF Running
<1>4. /\ Len(rows) \in Nat /\ Len(rows') = Len(rows) + 1
      /\ \A i \in 1..Len(rows) : rows'[i] = rows[i]
      /\ rows'[Len(rows')] = new
  BY <1>t, <1>1 DEF WatchTyped
<1>5. \A i \in 1..Len(rows') : i \in 1..Len(rows) \/ rows'[i] = new
  BY <1>4
<1>6. new.exec = e /\ new.day = date[e] /\ new.found = found[e]
  BY DEF RowOf
<1>7. \A f, g \in Execs : InOrder(f, g)'
  BY <1>1, <1>3 DEF OnceInv, InOrder
<1>8. ASSUME NEW i \in 1..Len(rows') PROVE OwnRow(i)'
  <2>1. CASE i \in 1..Len(rows)
    BY <1>1, <1>4, <2>1 DEF OnceInv, OwnRow
  <2>2. CASE rows'[i] = new
    <3>1. flow[e] \notin {"waiting", "snapshots"}
      BY <1>1, AtWork
    <3> QED
      BY <1>1, <1>6, <2>2, <3>1 DEF OwnRow
  <2> QED
    BY <1>5, <2>1, <2>2
<1>9. ASSUME NEW g \in Execs, NEW l \in Tries PROVE Fresh(g, l)'
  <2> SUFFICES ASSUME task'[g][l].at = "decide", NEW i \in 1..Len(rows'),
                      rows'[i].exec < g, <<rows'[i].exec, g>> \notin overlaps,
                      rows'[i].day = date[g]
               PROVE  \E j \in i..Len(rows') :
                        rows'[j].day = date[g] /\ rows'[j].found = task'[g][l].seen.found
    BY <1>1 DEF Fresh
  <2>1. task'[g][l] = task[g][l]
    BY <1>2
  <2>2. CASE i \in 1..Len(rows)
    <3>1. PICK j \in i..Len(rows) :
                 rows[j].day = date[g] /\ rows[j].found = task[g][l].seen.found
      BY <1>4, <2>1, <2>2 DEF OnceInv, Fresh
    <3>2. j \in 1..Len(rows) /\ j \in i..Len(rows')
      BY <1>4, <2>2, <3>1
    <3> QED
      BY <1>4, <2>1, <3>1, <3>2
  <2>3. CASE rows'[i] = new  \* then e, which works, was over when g began
    <3>1. e < g /\ <<e, g>> \notin overlaps
      BY <1>6, <2>3
    <3>2. flow[g] # "waiting"
      BY <2>1, AtWork
    <3> QED
      BY <1>3, <3>1, <3>2 DEF OnceInv, InOrder
  <2> QED
    BY <1>5, <2>2, <2>3
<1> QED
  BY <1>7, <1>8, <1>9 DEF OnceInv

LEMMA OnceStep == ASSUME WatchInv, OnceInv, [Next]_vars PROVE OnceInv'
<1>t. WatchTyped
  BY DEF WatchInv
<1>1. CASE UNCHANGED vars \/ NextDay
  <2>1. UNCHANGED <<flow, date, found, task, rows, overlaps>>
    BY <1>1 DEF vars, NextDay, flowVars, serverVars
  <2>2. \A e \in Execs : Active(e)' = Active(e)
    BY <2>1 DEF Active, TaskRuns
  <2> QED
    BY <2>1, <2>2, OnceFrame
<1>2. ASSUME NEW e \in Execs, Snapshots(e) \/ Done(e) \/ Tell(e) \/ SnapshotFails(e) \/ GiveUp(e)
      PROVE  OnceInv'
  <2>1. UNCHANGED <<date, task, rows, overlaps>>
    BY <1>2 DEF Snapshots, Done, Tell, SnapshotFails, GiveUp, serverVars
  <2>2. /\ flow[e] \in Working
        /\ \/ UNCHANGED flow
           \/ \E s \in {"enqueue", "telling", "done", "told", "silent"} :
                flow' = [flow EXCEPT ![e] = s]
    BY <1>2 DEF Snapshots, Done, Tell, SnapshotFails, GiveUp, Working
  <2>3. \A f \in Execs : \/ flow'[f] = flow[f]
                         \/ f = e /\ flow'[f] \in {"enqueue", "telling", "done", "told", "silent"}
    BY <1>t, <2>2 DEF WatchTyped
  <2>4. \A f \in Execs : /\ flow'[f] = "waiting" <=> flow[f] = "waiting"
                         /\ flow'[f] = "snapshots" => flow[f] = "snapshots"
                         /\ Active(f)' => Active(f)
    BY <2>1, <2>2, <2>3 DEF Active, TaskRuns, Working
  <2>5. CASE UNCHANGED found
    BY <2>1, <2>4, <2>5, OnceFrame
  <2>6. CASE Snapshots(e)
    <3>1. \A f \in Execs \ {e} : found'[f] = found[f]
      BY <1>t, <2>6 DEF Snapshots, WatchTyped
    <3>2. flow[e] = "snapshots"
      BY <2>6 DEF Snapshots
    <3>3. \A i \in 1..Len(rows) : OwnRow(i)'
      BY <2>1, <2>3, <3>1, <3>2 DEF OnceInv, OwnRow
    <3>4. \A g, f \in Execs : InOrder(f, g)'
      BY <2>1, <2>4 DEF OnceInv, InOrder
    <3>5. \A g \in Execs : \A k \in Tries : Fresh(g, k)'
      BY <2>1 DEF OnceInv, Fresh
    <3> QED
      BY <2>1, <3>3, <3>4, <3>5 DEF OnceInv
  <2> QED
    BY <1>2, <2>5, <2>6 DEF Done, Tell, SnapshotFails, GiveUp
<1>3. ASSUME NEW e \in Execs, Call(e) PROVE OnceInv'
  <2>1. /\ flow[e] = "enqueue" /\ UNCHANGED <<flow, date, found, rows, overlaps>>
        /\ task' = [task EXCEPT ![e][tries[e] + 1] = [NoTask EXCEPT !.at = "read"]]
    BY <1>3 DEF Call
  <2>2. [NoTask EXCEPT !.at = "read"].at = "read"
    BY DEF NoTask
  <2>3. \A f \in Execs : \A k \in Tries :
          \/ task'[f][k] = task[f][k]
          \/ f = e /\ task'[f][k].at = "read"
    BY <1>t, <2>1, <2>2 DEF WatchTyped
  <2>4. \A f \in Execs : Active(f)' => Active(f)
    BY <2>1, <2>3 DEF Active, TaskRuns, Working, Tries
  <2> QED
    BY <2>1, <2>3, <2>4, OnceFrame
<1>4. ASSUME NEW e \in Execs, NEW k \in Tries,
             Decide(e, k) \/ Audit(e, k) \/ Refuse(e, k) \/ AnswerError(e, k)
      PROVE  OnceInv'
  <2>1. PICK s \in {"row", "ended", "refused"} : To(e, k, s)
    BY <1>4 DEF Decide, Audit, Refuse, AnswerError
  <2>2. task[e][k].at \in Running /\ UNCHANGED <<flow, date, found, rows, overlaps>>
    BY <1>4 DEF Decide, Audit, Refuse, AnswerError, flowVars, Running
  <2>3. /\ task'[e][k].at = s
        /\ \A f \in Execs : \A l \in Tries : f # e \/ l # k => task'[f][l] = task[f][l]
    BY <1>t, <2>1, ToIs DEF Running
  <2>4. \A f \in Execs : Active(f)' => Active(f)
    BY <1>t, <2>2, <2>3, ActiveStep
  <2> QED
    BY <2>1, <2>2, <2>3, <2>4, OnceFrame
<1>5. CASE Restart
  <2>1. /\ task' = [e \in Execs |-> [k \in Tries |->
                     IF task[e][k].at \in Running THEN [NoTask EXCEPT !.at = "ended"] ELSE task[e][k]]]
        /\ UNCHANGED <<flow, date, found, rows, overlaps>>
    BY <1>5 DEF Restart, Tries
  <2>2. [NoTask EXCEPT !.at = "ended"].at = "ended"
    BY DEF NoTask
  <2>3. \A e \in Execs : \A k \in Tries :
          task'[e][k] = task[e][k] \/ task'[e][k].at = "ended"
    BY <2>1, <2>2
  <2>4. \A e \in Execs : Active(e)' => Active(e)
    BY <2>1, <2>3 DEF Active, TaskRuns, Running, Tries
  <2> QED
    BY <2>1, <2>3, <2>4, OnceFrame
<1> QED
  BY <1>1, <1>2, <1>3, <1>4, <1>5, OnceBegin, OnceRead, OnceRecord
     DEF Next, Workflow, Handler, Tries

\* Anomalies that a panel was enqueued for are enqueued again on the same day
\* only by a check that ran beside that one, if its row is missing, or if a
\* later row of the day says something else: whatever is retried or restarted.
THEOREM EnqueuedOnce == Spec => AnalysedOnce
<1>1. ASSUME WatchInv, OnceInv, [Next]_vars,
             NEW p \in (1..Len(panels')) \ (1..Len(panels)), NEW q \in 1..Len(panels),
             panels'[p].day = panels[q].day, panels'[p].found = panels[q].found,
             <<panels[q].exec, panels'[p].exec>> \notin overlaps,
             <<panels'[p].exec, panels[q].exec>> \notin overlaps,
             NEW i \in 1..Len(rows), rows[i].exec = panels[q].exec
      PROVE  \E j \in 1..Len(rows) : /\ i < j /\ rows[j].day = panels[q].day
                                     /\ rows[j].found # panels[q].found
  <2>t. WatchTyped /\ panels \in Seq(PanelRecord)
    BY <1>1 DEF WatchInv, WatchTyped
  <2>1. panels' # panels
    OBVIOUS
  <2>2. PICK e \in Execs, k \in Tries : Decide(e, k)
    BY <1>1, <2>1 DEF Next, vars, serverVars, Workflow, Handler, Begin, Snapshots, SnapshotFails,
       Call, GiveUp, Done, Tell, NextDay, Restart, Read, Record, Audit, Refuse, AnswerError, Tries
  <2> DEFINE new == [exec |-> e, day |-> date[e], found |-> found[e]]
  <2>3. /\ News(e, k) /\ PanelOf(e) = {} /\ panels' = Append(panels, new)
        /\ task[e][k].at = "decide"
    BY <2>1, <2>2 DEF Decide, Enqueued
  <2>4. panels'[p] = new
    BY <2>t, <2>3
  <2> DEFINE f == panels[q].exec
  <2>5. f \in Execs /\ f # e
    BY <2>t, <2>3, PanelsTyped DEF PanelOf
  <2>6. panels[q].day = date[f] /\ panels[q].found = found[f]
    BY <1>1 DEF WatchInv, OwnPanel
  <2>7. date[e] = date[f] /\ found[e] = found[f]
    BY <1>1, <2>4, <2>6
  <2>8. Active(e) /\ flow[e] # "waiting"
    BY <1>1, <2>3, AtWork DEF Active, TaskRuns, Running, Tries
  <2>9. flow[f] # "waiting"
    <3>1. PanelOf(f) # {}
      BY DEF PanelOf
    <3> QED
      BY <1>1, <2>5, <3>1 DEF WatchInv, Early
  <2>10. f < e
    <3>1. ~(e < f)
      BY <1>1, <2>4, <2>5, <2>8, <2>9 DEF OnceInv, InOrder
    <3> QED
      BY <2>5, <3>1 DEF Execs
  <2>11. rows[i].day = date[e] /\ rows[i].found = found[e]
    BY <1>1, <2>7 DEF OnceInv, OwnRow
  <2>12. PICK j \in i..Len(rows) :
                rows[j].day = date[e] /\ rows[j].found = task[e][k].seen.found
    <3>1. Fresh(e, k) /\ <<f, e>> \notin overlaps
      BY <1>1, <2>4 DEF OnceInv
    <3>2. \E j \in i..Len(rows) :
            rows[j].day = date[e] /\ rows[j].found = task[e][k].seen.found
      BY <1>1, <2>3, <2>10, <2>11, <3>1 DEF Fresh
    <3> QED
      BY <3>2
  <2>13. rows[j].found # found[e]
    BY <2>3, <2>12 DEF News
  <2>14. Len(rows) \in Nat
    BY <2>t DEF WatchTyped
  <2>15. j \in 1..Len(rows) /\ i < j
    BY <2>11, <2>12, <2>13, <2>14
  <2> QED
    BY <2>6, <2>7, <2>12, <2>13, <2>15
<1>2. WatchInv /\ OnceInv /\ [Next]_vars =>
        [\A p \in (1..Len(panels')) \ (1..Len(panels)) : \A q \in 1..Len(panels) :
           (panels'[p].day = panels[q].day /\ panels'[p].found = panels[q].found) =>
             \/ <<panels[q].exec, panels'[p].exec>> \in overlaps
             \/ <<panels'[p].exec, panels[q].exec>> \in overlaps
             \/ ~\E i \in 1..Len(rows) : rows[i].exec = panels[q].exec
             \/ \E i, j \in 1..Len(rows) :
                  /\ i < j /\ rows[i].exec = panels[q].exec
                  /\ rows[j].day = panels[q].day /\ rows[j].found # panels[q].found]_vars
  BY <1>1
<1> QED
  BY <1>2, WatchInit, WatchStep, OnceInit, OnceStep, PTL DEF Spec, AnalysedOnce
=============================================================================
