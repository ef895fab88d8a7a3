-------------------------- MODULE PitCollection_proofs --------------------------
(* Proofs about PitCollection. *)
EXTENDS PitCollection, FiniteSetTheorems, TLAPS

-----------------------------------------------------------------------------
(* Finite sets of numbers *)

LEMMA LeastIs ==
  ASSUME NEW S \in SUBSET Nat, S # {}
  PROVE  Min(S) \in S /\ \A y \in S : Min(S) <= y
<1>1. PICK m \in S : \A y \in S : ~(<<y, m>> \in OpToRel(<, Nat))
  BY NatLessThanWellFounded, WFMin
<1>2. ASSUME NEW y \in S PROVE m <= y
  <2>1. y \in Nat /\ m \in Nat
    OBVIOUS
  <2>2. ~(y < m)
    BY <1>1, <2>1 DEF OpToRel
  <2> QED
    BY <2>1, <2>2
<1> QED
  BY <1>2 DEF Min

LEMMA FewerAbove ==
  ASSUME NEW S \in SUBSET Nat, IsFiniteSet(S), NEW x \in S, NEW y \in S, x < y
  PROVE  Cardinality({z \in S : z > y}) < Cardinality({z \in S : z > x})
<1> DEFINE A == {z \in S : z > x}  B == {z \in S : z > y}
<1>1. ASSUME NEW z \in B PROVE z \in A
  <2>1. x \in Nat /\ y \in Nat /\ z \in Nat /\ z > y
    OBVIOUS
  <2> QED
    BY <2>1
<1>2. y \in A /\ y \notin B
  OBVIOUS
<1>3. IsFiniteSet(A) /\ IsFiniteSet(B) /\ B \in SUBSET A /\ A # B
  BY <1>1, <1>2, FS_Subset
<1> HIDE DEF A, B
<1>4. Cardinality(B) <= Cardinality(A) /\ Cardinality(A) # Cardinality(B)
  BY <1>3, FS_Subset
<1>5. Cardinality(A) \in Nat /\ Cardinality(B) \in Nat
  BY <1>3, FS_CardinalityType
<1>6. Cardinality(B) < Cardinality(A)
  BY <1>4, <1>5
<1> QED
  BY <1>6 DEF A, B

\* The element that has the fewest above it has none.
LEMMA GreatestIs ==
  ASSUME NEW S \in SUBSET Nat, IsFiniteSet(S), S # {}
  PROVE  Max(S) \in S /\ \A y \in S : y <= Max(S)
<1> DEFINE size(x) == Cardinality({z \in S : z > x})
           sizes == {size(x) : x \in S}
<1>1. \A x \in S : size(x) \in Nat
  BY FS_Subset, FS_CardinalityType
<1>2. \A x \in S : \A y \in S : x < y => size(y) < size(x)
  BY FewerAbove
<1> HIDE DEF size
<1>3. sizes \in SUBSET Nat /\ sizes # {}
  BY <1>1
<1>4. PICK n \in sizes : \A k \in sizes : ~(<<k, n>> \in OpToRel(<, Nat))
  BY <1>3, NatLessThanWellFounded, WFMin
<1>5. PICK x \in S : n = size(x)
  BY <1>4
<1>6. ASSUME NEW y \in S, x < y PROVE FALSE
  <2>1. size(y) \in Nat /\ size(x) \in Nat /\ size(y) < size(x) /\ size(y) \in sizes
    BY <1>1, <1>2, <1>6
  <2>2. <<size(y), n>> \in OpToRel(<, Nat)
    BY <1>5, <2>1 DEF OpToRel
  <2> QED
    BY <1>4, <2>1, <2>2
<1>7. \A y \in S : x >= y
  BY <1>6
<1> HIDE DEF sizes
<1>8. Max(S) \in S /\ \A y \in S : Max(S) >= y
  BY <1>7 DEF Max
<1> QED
  BY <1>8

\* Three elements that nothing lies between or before.
LEMMA FirstThree ==
  ASSUME NEW S \in SUBSET Nat, IsFiniteSet(S), Cardinality(S) >= 3
  PROVE  \E a, b, c \in S : a < b /\ b < c /\ \A x \in S : x <= c => x \in {a, b, c}
<1>1. Cardinality(S) \in Nat
  BY FS_CardinalityType
<1>2. S # {}
  BY <1>1, FS_EmptySet
<1>3. PICK a \in S : \A y \in S : a <= y
  BY <1>2, LeastIs
<1> DEFINE T == S \ {a}
<1>4. IsFiniteSet(T) /\ Cardinality(T) = Cardinality(S) - 1
  BY FS_RemoveElement
<1>5. T # {}
  BY <1>1, <1>4, FS_EmptySet
<1>6. PICK b \in T : \A y \in T : b <= y
  BY <1>5, LeastIs
<1> DEFINE U == T \ {b}
<1>7. IsFiniteSet(U) /\ Cardinality(U) = Cardinality(T) - 1
  BY <1>4, FS_RemoveElement
<1>8. U # {}
  BY <1>1, <1>4, <1>7, FS_EmptySet
<1>9. PICK c \in U : \A y \in U : c <= y
  BY <1>8, LeastIs
<1>10. a < b /\ b < c
  BY <1>3, <1>6, <1>9
<1>11. ASSUME NEW x \in S, x <= c PROVE x \in {a, b, c}
  BY <1>9, <1>11
<1> QED
  BY <1>10, <1>11

LEMMA PairSize == ASSUME NEW a, NEW b PROVE IsFiniteSet({a, b}) /\ Cardinality({a, b}) <= 2
<1>1. IsFiniteSet({a}) /\ Cardinality({a}) = 1
  BY FS_Singleton
<1>2. {a, b} = {a} \cup {b}
  OBVIOUS
<1> QED
  BY <1>1, <1>2, FS_AddElement

LEMMA TripleSize ==
  ASSUME NEW a \in Nat, NEW b \in Nat, NEW c \in Nat, a < b, b < c
  PROVE  IsFiniteSet({a, b, c}) /\ Cardinality({a, b, c}) = 3
<1>1. IsFiniteSet({a}) /\ Cardinality({a}) = 1
  BY FS_Singleton
<1>2. IsFiniteSet({a} \cup {b}) /\ Cardinality({a} \cup {b}) = 2
  BY <1>1, FS_AddElement
<1>3. c \notin {a} \cup {b}
  OBVIOUS
<1>4. IsFiniteSet(({a} \cup {b}) \cup {c}) /\ Cardinality(({a} \cup {b}) \cup {c}) = 3
  BY <1>2, <1>3, FS_AddElement
<1>5. {a, b, c} = ({a} \cup {b}) \cup {c}
  OBVIOUS
<1> QED
  BY <1>4, <1>5

-----------------------------------------------------------------------------
(* The n-th session after a day *)

LEMMA SessionsFinite ==
  ASSUME NEW S \in SUBSET Sessions
  PROVE  S \in SUBSET Nat /\ IsFiniteSet(S) /\ Cardinality(S) \in Nat
<1>1. Sessions \subseteq Nat /\ IsFiniteSet(Sessions)
  BY PitAssumption
<1> QED
  BY <1>1, FS_Subset, FS_CardinalityType

\* The sessions after one day up to another one.
Between(d, e, known) == {r \in known : d < r /\ r <= e}

LEMMA NthIs ==
  ASSUME NEW n \in Nat, NEW d \in Nat, NEW known \in SUBSET Sessions
  PROVE  LET x == Nth(n, d, known) IN
         x = 0 \/ (x \in known /\ d < x /\ Cardinality(Between(d, x, known)) = n)
<1> DEFINE after == {s \in known : s > d}
           nth == {s \in after : Cardinality({r \in after : r <= s}) = n}
<1>1. Nth(n, d, known) = IF nth = {} THEN 0 ELSE Min(nth)
  BY DEF Nth
<1>2. CASE nth # {}
  <2>1. nth \in SUBSET Nat
    BY SessionsFinite
  <2>2. Min(nth) \in nth
    BY <1>2, <2>1, LeastIs
  <2> DEFINE x == Min(nth)
  <2>3. x \in known /\ x > d /\ Cardinality({r \in after : r <= x}) = n
    BY <2>2
  <2>4. {r \in after : r <= x} = Between(d, x, known) /\ x \in Nat
    BY <2>3, SessionsFinite DEF Between
  <2> QED
    BY <1>1, <1>2, <2>3, <2>4
<1> QED
  BY <1>1, <1>2

\* The next known session is not after one that is known.
LEMMA NextIs ==
  ASSUME NEW d \in Nat, NEW known \in SUBSET Sessions, NEW s \in known, d < s
  PROVE  Nth(1, d, known) # 0 /\ Nth(1, d, known) <= s
<1> DEFINE after == {r \in known : r > d}
           nth == {x \in after : Cardinality({r \in after : r <= x}) = 1}
<1>1. after \in SUBSET Nat /\ s \in after
  BY SessionsFinite
<1>2. PICK m \in after : \A y \in after : m <= y
  BY <1>1, LeastIs
<1>3. {r \in after : r <= m} = {m}
  BY <1>1, <1>2
<1>4. m \in nth
  BY <1>2, <1>3, FS_Singleton
<1>5. Min(nth) \in nth /\ Min(nth) <= m
  BY <1>1, <1>4, LeastIs
<1>6. Nth(1, d, known) = Min(nth)
  BY <1>4 DEF Nth
<1>7. m <= s /\ Min(nth) > d /\ Min(nth) \in Nat /\ m \in Nat /\ s \in Nat
  BY <1>1, <1>2, <1>5
<1> QED
  BY <1>5, <1>6, <1>7

\* The third known session is after the first two.
LEMMA ThirdIs ==
  ASSUME NEW d \in Nat, NEW e \in Nat, NEW known \in SUBSET Sessions,
         Cardinality(Between(d, e, known)) <= 2, Cardinality({s \in known : s > d}) >= 3
  PROVE  e < Nth(3, d, known)
<1> DEFINE after == {s \in known : s > d}
           nth == {x \in after : Cardinality({r \in after : r <= x}) = 3}
<1>1. after \in SUBSET Nat /\ IsFiniteSet(after)
  BY SessionsFinite
<1>2. PICK a \in after, b \in after, c \in after :
             a < b /\ b < c /\ \A x \in after : x <= c => x \in {a, b, c}
  BY <1>1, FirstThree
<1>3. {r \in after : r <= c} = {a, b, c}
  BY <1>1, <1>2
<1>4. c \in nth
  BY <1>1, <1>2, <1>3, TripleSize
<1>5. nth \in SUBSET Nat
  BY <1>1
<1>6. Nth(3, d, known) = Min(nth) /\ Min(nth) \in nth
  BY <1>4, <1>5, LeastIs DEF Nth
<1> DEFINE x == Min(nth)
<1>7. x \in Nat /\ Cardinality({r \in after : r <= x}) = 3
  BY <1>5, <1>6
<1>8. ASSUME x <= e PROVE FALSE
  <2>1. {r \in after : r <= x} \subseteq Between(d, e, known)
    <3> HIDE DEF nth
    <3>1. \A r \in after : r \in Nat /\ r \in known /\ d < r
      BY <1>1
    <3>2. \A r \in after : r <= x => r <= e
      BY <1>7, <1>8, <3>1
    <3> QED
      BY <3>1, <3>2 DEF Between
  <2>2. IsFiniteSet(Between(d, e, known)) /\ Cardinality(Between(d, e, known)) \in Nat
    BY SessionsFinite DEF Between
  <2> HIDE DEF nth, after
  <2>3. Cardinality({r \in after : r <= x}) <= Cardinality(Between(d, e, known))
    BY <2>1, <2>2, FS_Subset
  <2> QED
    BY <1>7, <2>2, <2>3
<1> HIDE DEF nth
<1> QED
  BY <1>6, <1>7, <1>8

\* The sessions to come are at least three.
LEMMA ThreeToCome ==
  ASSUME NEW day \in Days, NEW known \in SUBSET Sessions, FutureSessions(day) \subseteq known,
         NEW d \in Nat, d < day
  PROVE  Cardinality({s \in known : s > d}) >= 3
<1> DEFINE coming == {s \in Sessions : s >= day}  later == {s \in Sessions : s > day}
<1>t. day \in Nat
  BY PitAssumption DEF Days
<1>1. coming \in SUBSET Nat /\ IsFiniteSet(coming) /\ Cardinality(coming) \in Nat
  BY SessionsFinite
<1>2. Cardinality(later) >= 4
  BY PitAssumption DEF Days
<1>3. later \in SUBSET coming
  <2>1. \A s \in Sessions : s \in Nat
    BY SessionsFinite
  <2> QED
    BY <2>1, <1>t
<1>4. Cardinality(later) <= Cardinality(coming) /\ Cardinality(later) \in Nat
  BY <1>1, <1>3, FS_Subset, SessionsFinite
<1>5. Cardinality(coming) >= 3
  BY <1>1, <1>2, <1>4
<1>6. PICK a \in coming, b \in coming, c \in coming :
             a < b /\ b < c /\ \A x \in coming : x <= c => x \in {a, b, c}
  BY <1>1, <1>5, FirstThree
<1>7. ASSUME NEW x \in {a, b, c} PROVE x \in FutureSessions(day)
  <2> DEFINE upto == {r \in Sessions : day <= r /\ r <= x}
  <2>1. upto \subseteq {a, b, c}
    BY <1>1, <1>6, <1>t, <1>7
  <2>2. IsFiniteSet({a, b, c}) /\ Cardinality({a, b, c}) = 3
    BY <1>1, <1>6, TripleSize
  <2>3. Cardinality(upto) <= 3 /\ Cardinality(upto) \in Nat
    BY <2>1, <2>2, FS_Subset, SessionsFinite
  <2>4. x \in Sessions /\ x >= day
    BY <1>6, <1>7
  <2> QED
    BY <2>3, <2>4 DEF FutureSessions
<1> DEFINE after == {s \in known : s > d}
<1>8. {a, b, c} \in SUBSET after
  BY <1>1, <1>6, <1>7, <1>t
<1>9. IsFiniteSet(after) /\ Cardinality(after) \in Nat
  BY SessionsFinite
<1>10. Cardinality({a, b, c}) = 3
  BY <1>1, <1>6, TripleSize
<1> HIDE DEF after
<1>11. Cardinality({a, b, c}) <= Cardinality(after)
  BY <1>8, <1>9, FS_Subset
<1> QED
  BY <1>9, <1>10, <1>11 DEF after

-----------------------------------------------------------------------------
(* Types *)

Writers == {"nobody", "collector", "operator"}
EventRecord == [stored : BOOLEAN, available : Nat, through : Nat, by : Writers]
CoverRecord == [completed : Nat, by : Writers]
FlowRecord == [index : Nat, at : Nat, ledger : SUBSET Sessions]
Busy == {"universe", "events", "flow"}
RunRecord == [pc : Busy \cup {"waiting", "down"}, began : Nat, wake : Nat,
              known : SUBSET Sessions, skip : SUBSET Days, chunk : Nat, seen : SUBSET Filings]
CommandRecord == [known : SUBSET Sessions, skip : SUBSET Days, chunk : Nat \ {0}, last : Nat,
                  seen : SUBSET Filings]
CommandTyped == command \in CommandRecord /\ command.last + 1 \notin command.skip

PitTyped ==
  /\ time \in Nat /\ time >= 3 /\ (time > 3 => Day <= LastDay)
  /\ filed \in [Filings -> Nat]
  /\ ledger \subseteq Sessions
  /\ events \in [Filings -> EventRecord]
  /\ covered \in [Days -> CoverRecord]
  /\ flow \in [Sources -> [Sessions -> FlowRecord]]
  /\ run \in RunRecord
  /\ CommandTyped

-----------------------------------------------------------------------------
(* What the collector keeps *)

\* The collector made the row of a filing after its day, knowing the sessions to come.
Known(f) ==
  \E day \in Days, known \in SUBSET Sessions :
    /\ filed[f] < day /\ day <= Day /\ FutureSessions(day) \subseteq known
    /\ events[f] = EventRow(filed[f], known, "collector")
Kept(f) == events[f].by = "operator" \/ Known(f)

\* A row is of a filing that was received, and visible only after its day.
EventOk(f) ==
  /\ filed[f] <= Day
  /\ events[f].stored =>
       filed[f] > 0 /\ (events[f].available = 0 \/ events[f].available > filed[f])

\* A day the collector checked off was over, the days it looks back on had been
\* checked off before, and its filings are all there: as the collector stored them,
\* or as a command of the operator has written them since.
CoverOk(d) ==
  LET row == covered[d] IN
  /\ row.completed <= time
  /\ row.by = "nobody" => row.completed = 0
  /\ row.by = "collector" =>
       /\ Finalized(d)
       /\ \A f \in Filings : filed[f] = d => Kept(f)
       /\ \A e \in Days : row.completed \div 3 - Lookback <= e /\ e < d => Finalized(e)
       /\ run.pc \in Busy /\ row.completed > run.began => d < Today

\* The run in progress: the days before its chunk are checked off, its chunk is
\* not one of those it skips, and the filings it has seen are stored, unless a
\* command has written them meanwhile.
RunOk ==
  /\ run.pc \in Busy => run.began >= 3 /\ run.began <= time
  /\ run.pc = "universe" => run.seen = {}
  /\ run.pc = "events" =>
       /\ run.chunk >= 1 /\ run.chunk >= Today - Lookback /\ run.chunk <= Today + 1
       /\ run.chunk \notin run.skip
       /\ FutureSessions(Today) \subseteq run.known
       /\ \A f \in run.seen : filed[f] = run.chunk
       /\ \A d \in run.skip : d < Today /\ Finalized(d)
       /\ \A d \in Days : Today - Lookback <= d /\ d < run.chunk /\ d < Today => Finalized(d)
       /\ \A d \in Days : Today - Lookback <= d /\ d < Today /\ covered[d].by = "collector" =>
            d \in run.skip \/ d < run.chunk
       /\ \A f \in run.seen :
            events[f].by = "operator" \/ events[f] = EventRow(run.chunk, run.known, "collector")

\* The numbers of the sessions from the first one of the ledger on.
SessionsTo(first, s) == {u \in Sessions : first <= u /\ u <= s}

\* A row of flow is numbered from the first session of its ledger.
FlowOk(src, s) ==
  LET row == flow[src][s] IN
  row # NoFlow =>
    /\ row.ledger # {} /\ Min(row.ledger) <= s
    /\ Gapless(row) => row.index = Cardinality(SessionsTo(Min(row.ledger), s))

PitInv ==
  /\ PitTyped /\ RunOk
  /\ \A f \in Filings : EventOk(f)
  /\ \A d \in Days : CoverOk(d)

FlowInv == PitTyped /\ \A src \in Sources, s \in Sessions : FlowOk(src, s)

-----------------------------------------------------------------------------
(* Days *)

LEMMA DayOf ==
  ASSUME NEW n \in Nat
  PROVE  n \div 3 \in Nat /\ 3 * (n \div 3) <= n /\ n < 3 * (n \div 3) + 3
OBVIOUS

LEMMA DaysAre ==
  /\ \A d \in Days : d \in Nat /\ d >= 1 /\ d <= LastDay
  /\ \A d \in Nat : d >= 1 /\ d <= LastDay => d \in Days
  /\ LastDay \in Nat /\ Lookback \in Nat
BY PitAssumption DEF Days

\* The day of the run and the current one.
LEMMA TodayIs ==
  ASSUME PitTyped, RunOk
  PROVE  /\ Today \in Nat /\ 3 * Today <= run.began /\ run.began < 3 * Today + 3
         /\ Day \in Nat /\ 3 * Day <= time /\ time < 3 * Day + 3
         /\ run.pc \in Busy => Today >= 1 /\ Today <= Day
         /\ Today >= 2 /\ run.pc \in Busy => Today \in Days
<1>1. time \in Nat /\ run.began \in Nat /\ run.pc \in Busy \cup {"waiting", "down"}
  BY DEF PitTyped, RunRecord
<1>2. Today \in Nat /\ 3 * Today <= run.began /\ run.began < 3 * Today + 3
  BY <1>1, DayOf DEF Today
<1>3. Day \in Nat /\ 3 * Day <= time /\ time < 3 * Day + 3
  BY <1>1, DayOf DEF Day
<1>4. run.pc \in Busy => Today >= 1 /\ Today <= Day
  BY <1>1, <1>2, <1>3 DEF RunOk
<1>5. Today >= 2 /\ run.pc \in Busy => Today \in Days
  BY <1>2, <1>3, <1>4, DaysAre DEF PitTyped
<1> QED
  BY <1>2, <1>3, <1>4, <1>5

\* The next chunk is the first day that is not skipped.
LEMMA NextDayIs ==
  ASSUME NEW d \in Nat, NEW last \in Nat, NEW skip, d <= last + 1, last + 1 \notin skip
  PROVE  LET x == NextDay(d, last, skip) IN
         /\ x \in Nat /\ d <= x /\ x <= last + 1 /\ x \notin skip
         /\ \A e \in Nat : d <= e /\ e < x => e \in skip
<1> DEFINE days == {e \in d..(last + 1) : e \notin skip}
<1>1. days \in SUBSET Nat /\ last + 1 \in days
  OBVIOUS
<1>2. Min(days) \in days /\ \A e \in days : Min(days) <= e
  BY <1>1, LeastIs
<1>3. ASSUME NEW e \in Nat, d <= e, e < Min(days), e \notin skip PROVE FALSE
  <2>1. Min(days) \in Nat /\ Min(days) <= last + 1
    BY <1>2
  <2>2. e \in days
    BY <1>3, <2>1
  <2> HIDE DEF days
  <2> QED
    BY <1>2, <1>3, <2>1, <2>2
<1> QED
  BY <1>2, <1>3 DEF NextDay

LEMMA NextRunIs == ASSUME time \in Nat PROVE NextRun \in Nat
<1> DEFINE runs == {t \in (time + 1)..(time + 3) : t % 3 # Slots.open}
<1>1. time + 1 \in runs \/ time + 2 \in runs
  BY DEF Slots
<1>2. runs \in SUBSET Nat /\ runs # {}
  BY <1>1
<1> QED
  BY <1>2, LeastIs DEF NextRun

LEMMA EventRowIs ==
  ASSUME NEW d \in Nat, NEW known \in SUBSET Sessions, NEW by \in Writers
  PROVE  /\ EventRow(d, known, by) \in EventRecord
         /\ EventRow(d, known, by).available = 0 \/ EventRow(d, known, by).available > d
<1>1. \A n \in {1, 3} : Nth(n, d, known) \in Nat
  BY NthIs, SessionsFinite
<1>2. Nth(1, d, known) = 0 \/ d < Nth(1, d, known)
  BY NthIs
<1>3. EventRow(d, known, by) \in EventRecord
  BY <1>1 DEF EventRow, EventRecord
<1>4. EventRow(d, known, by).available = Nth(1, d, known)
  BY DEF EventRow
<1> QED
  BY <1>1, <1>2, <1>3, <1>4

-----------------------------------------------------------------------------
(* Steps *)

LEMMA PitInit == Init => PitInv
<1> SUFFICES ASSUME Init PROVE PitInv
  OBVIOUS
<1>1. time = 3 /\ Start.seen = {} /\ Start.pc = "universe" /\ Start.began = 3
  BY DEF Init, At, Slots, Start
<1>2. Day = 1
  BY <1>1 DEF Day
<1>3. PitTyped
  <2>1. run \in RunRecord
    BY <1>1 DEF Init, Start, RunRecord, Busy
  <2>2. /\ filed \in [Filings -> Nat] /\ events \in [Filings -> EventRecord]
        /\ covered \in [Days -> CoverRecord]
    BY DEF Init, EventRecord, NoEvent, CoverRecord, NoCover, Writers
  <2>3. NoFlow \in FlowRecord
    BY DEF NoFlow, FlowRecord
  <2>4. flow \in [Sources -> [Sessions -> FlowRecord]]
    BY <2>3 DEF Init
  <2>5. CommandTyped
    BY DEF Init, NoCommand, CommandTyped, CommandRecord
  <2> QED
    BY <1>1, <2>1, <2>2, <2>4, <2>5 DEF Init, PitTyped
<1>4. RunOk
  BY <1>1 DEF Init, RunOk
<1>5. \A f \in Filings : EventOk(f)
  BY <1>2 DEF Init, EventOk, NoEvent
<1>6. \A d \in Days : CoverOk(d)
  BY <1>1 DEF Init, CoverOk, NoCover
<1> QED
  BY <1>3, <1>4, <1>5, <1>6 DEF PitInv

LEMMA Later ==
  ASSUME NEW m \in Nat, NEW n \in Nat, m <= n
  PROVE  m \div 3 <= n \div 3
<1> DEFINE a == m \div 3  b == n \div 3
<1>1. a \in Nat /\ 3 * a <= m /\ m < 3 * a + 3 /\ b \in Nat /\ 3 * b <= n /\ n < 3 * b + 3
  BY DayOf
<1> HIDE DEF a, b
<1>2. a <= b
  BY <1>1
<1> QED
  BY <1>2 DEF a, b

LEMMA DaysPass ==
  ASSUME time \in Nat, time' \in Nat, time <= time'
  PROVE  Day \in Nat /\ Day' \in Nat /\ Day <= Day'
<1>1. time \div 3 <= time' \div 3 /\ time \div 3 \in Nat /\ time' \div 3 \in Nat
  BY DayOf, Later
<1> QED
  BY <1>1 DEF Day

\* A row stays good.
LEMMA KnownKept ==
  ASSUME NEW f \in Filings, Known(f), filed'[f] = filed[f], events'[f] = events[f],
         Day \in Nat, Day' \in Nat, Day <= Day'
  PROVE  Known(f)'
<1>1. PICK day \in Days, known \in SUBSET Sessions :
        /\ filed[f] < day /\ day <= Day /\ FutureSessions(day) \subseteq known
        /\ events[f] = EventRow(filed[f], known, "collector")
  BY DEF Known
<1>2. day <= Day'
  BY <1>1, DaysAre
<1>3. EventRow(filed'[f], known, "collector") = EventRow(filed[f], known, "collector")
  OBVIOUS
<1>4. filed'[f] < day /\ events'[f] = EventRow(filed'[f], known, "collector")
  BY <1>1
<1> QED
  BY <1>1, <1>2, <1>4 DEF Known

LEMMA KeptKept ==
  ASSUME NEW f \in Filings, Kept(f), filed'[f] = filed[f], events'[f] = events[f],
         Day \in Nat, Day' \in Nat, Day <= Day'
  PROVE  Kept(f)'
BY KnownKept DEF Kept

\* What a step has to leave as it was for a day to stay checked off.
LEMMA CoverKept ==
  ASSUME PitInv, NEW d \in Days, covered'[d] = covered[d], time' \in Nat, time <= time',
         \A e \in Days : Finalized(e) => Finalized(e)',
         covered[d].by = "collector" =>
           \A f \in Filings : filed'[f] = d => filed[f] = d /\ (Kept(f) => Kept(f)'),
         \/ UNCHANGED run
         \/ run'.pc \in Busy => run.pc \in Busy /\ run'.began = run.began
         \/ run'.began = time
  PROVE  CoverOk(d)'
<1>1. CoverOk(d) /\ covered[d] \in CoverRecord /\ time \in Nat
  BY DEF PitInv, PitTyped
<1>2. covered'[d].completed <= time'
  BY <1>1 DEF CoverOk, CoverRecord
<1>3. covered'[d].by = "nobody" => covered'[d].completed = 0
  BY <1>1 DEF CoverOk
<1>4. ASSUME covered'[d].by = "collector"
      PROVE  /\ Finalized(d)'
             /\ \A f \in Filings : filed'[f] = d => Kept(f)'
             /\ \A e \in Days : covered'[d].completed \div 3 - Lookback <= e /\ e < d => Finalized(e)'
             /\ run'.pc \in Busy /\ covered'[d].completed > run'.began => d < Today'
  <2>1. /\ Finalized(d)
        /\ \A f \in Filings : filed[f] = d => Kept(f)
        /\ \A e \in Days : covered[d].completed \div 3 - Lookback <= e /\ e < d => Finalized(e)
        /\ run.pc \in Busy /\ covered[d].completed > run.began => d < Today
    BY <1>1, <1>4 DEF CoverOk
  <2>2. Finalized(d)'
    BY <2>1
  <2>3. \A f \in Filings : filed'[f] = d => Kept(f)'
    BY <1>4, <2>1
  <2>4. \A e \in Days : covered'[d].completed \div 3 - Lookback <= e /\ e < d => Finalized(e)'
    BY <2>1
  <2>5. run'.pc \in Busy /\ covered'[d].completed > run'.began => d < Today'
    <3>1. CASE UNCHANGED run
      BY <2>1, <3>1 DEF Today
    <3>2. CASE run'.pc \in Busy => run.pc \in Busy /\ run'.began = run.began
      BY <2>1, <3>2 DEF Today
    <3>3. CASE run'.began = time
      BY <1>1, <3>3 DEF CoverOk, CoverRecord
    <3> QED
      BY <3>1, <3>2, <3>3
  <2> QED
    BY <2>2, <2>3, <2>4, <2>5
<1> QED
  BY <1>2, <1>3, <1>4 DEF CoverOk

\* Days that are over and rows that were good stay so while nothing is written.
LEMMA TableFrame ==
  ASSUME PitInv, UNCHANGED <<filed, events, covered>>, time' \in Nat, time <= time',
         \/ UNCHANGED run
         \/ run'.pc \in Busy => run.pc \in Busy /\ run'.began = run.began
         \/ run'.began = time
  PROVE  (\A f \in Filings : EventOk(f))' /\ (\A d \in Days : CoverOk(d))'
<1>1. Day \in Nat /\ Day' \in Nat /\ Day <= Day'
  BY DaysPass DEF PitInv, PitTyped
<1>2. ASSUME NEW f \in Filings PROVE EventOk(f)'
  BY <1>1 DEF PitInv, PitTyped, EventOk
<1>3. \A f \in Filings : Kept(f) => Kept(f)'
  BY <1>1, KeptKept
<1>4. \A e \in Days : Finalized(e) => Finalized(e)'
  BY DEF Finalized
<1>5. ASSUME NEW d \in Days PROVE CoverOk(d)'
  BY <1>3, <1>4, CoverKept
<1> QED
  BY <1>2, <1>5

-----------------------------------------------------------------------------
(* What is written has its type *)

LEMMA IndexIsTyped ==
  ASSUME PitTyped, NEW through, NEW s
  PROVE  Index(through, s) \in Nat
<1> DEFINE Counted(S) == S \in SUBSET Sessions => Cardinality(S) \in Nat
<1>1. \A S : Counted(S)
  BY SessionsFinite
<1>2. \A n : {r \in ledger : r <= n} \in SUBSET Sessions
  BY DEF PitTyped
<1>3. \A n, m : {r \in Sessions : n < r /\ r <= m} \in SUBSET Sessions
  OBVIOUS
<1>4. \A n : Rank(n) \in Nat
  BY <1>1, <1>2 DEF Rank
<1>5. \A n, m : Cardinality({r \in Sessions : n < r /\ r <= m}) \in Nat
  BY <1>1, <1>3
<1>6. ASSUME NEW n, NEW m PROVE IndexFrom(n, m) \in Nat
  <2> DEFINE rest == Cardinality({r \in Sessions : n < r /\ r <= m})
  <2>1. rest \in Nat /\ Rank(n) \in Nat
    BY <1>4, <1>5
  <2>2. IndexFrom(n, m) = Rank(n) + rest
    BY DEF IndexFrom
  <2> HIDE DEF rest
  <2> QED
    BY <2>1, <2>2
<1> QED
  BY <1>4, <1>6 DEF Index

LEMMA InsertedIsTyped ==
  ASSUME PitTyped, NEW src \in Sources, NEW ss, NEW through, NEW seenAt \in Nat
  PROVE  Inserted(src, ss, through, seenAt) \in [Sources -> [Sessions -> FlowRecord]]
<1>1. \A s : [index |-> Index(through, s), at |-> seenAt, ledger |-> ledger] \in FlowRecord
  BY IndexIsTyped DEF PitTyped, FlowRecord
<1> QED
  BY <1>1 DEF Inserted, PitTyped

LEMMA UpsertedIsTyped ==
  ASSUME PitTyped, NEW fs, NEW known \in SUBSET Sessions, NEW by \in Writers
  PROVE  Upserted(fs, known, by) \in [Filings -> EventRecord]
<1>1. \A f \in Filings : EventRow(filed[f], known, by) \in EventRecord
  BY EventRowIs DEF PitTyped
<1> QED
  BY <1>1 DEF Upserted, PitTyped

LEMMA CheckedIsTyped ==
  ASSUME PitTyped, NEW d, NEW by \in Writers
  PROVE  Checked(d, by) \in [Days -> CoverRecord]
BY DEF Checked, PitTyped, CoverRecord

LEMMA StartIsTyped == ASSUME time \in Nat PROVE Start \in RunRecord
BY DEF Start, RunRecord, Busy

\* The rest of a run and its end.
LEMMA RestIsTyped == ASSUME PitTyped, Rest PROVE run' \in RunRecord
<1>1. NextRun \in Nat
  BY NextRunIs DEF PitTyped
<1> QED
  BY <1>1 DEF Rest, PitTyped, RunRecord

LEMMA StopIsTyped == ASSUME PitTyped, Stop PROVE run' \in RunRecord
BY DEF Stop, Start, PitTyped, RunRecord

\* The chunk a run begins with.
LEMMA FirstChunk ==
  ASSUME PitInv, run.pc = "universe"
  PROVE  LET first == IF Today > Lookback THEN Today - Lookback ELSE 1
             skip == Covered(first, Finalizable(Today))
         IN  /\ first \in Nat /\ first >= 1 /\ first >= Today - Lookback /\ first <= Today + 1
             /\ \A d \in Days : Today - Lookback <= d => first <= d
             /\ skip \in SUBSET Days
             /\ \A d \in Days : d \in skip <=> (first <= d /\ d < Today /\ Finalized(d))
             /\ Today + 1 \notin skip
<1> DEFINE first == IF Today > Lookback THEN Today - Lookback ELSE 1
           skip == Covered(first, Finalizable(Today))
<1>1. Today \in Nat /\ Today >= 1
  BY TodayIs DEF PitInv, Busy
<1>2. first \in Nat /\ first >= 1 /\ first >= Today - Lookback /\ first <= Today + 1
  BY <1>1, DaysAre
<1>3. \A d \in Days : Today - Lookback <= d => first <= d
  BY <1>1, DaysAre
<1> HIDE DEF first
<1>4. \A d \in Days : d \in skip <=> (first <= d /\ d < Today /\ Finalized(d))
  BY <1>1, <1>2, DaysAre DEF Covered, Finalizable
<1>5. skip \in SUBSET Days
  BY DEF Covered
<1> HIDE DEF skip
<1>6. Today + 1 \notin skip
  BY <1>1, <1>4, <1>5
<1> QED
  BY <1>2, <1>3, <1>4, <1>5, <1>6 DEF first, skip

LEMMA TypesKept == ASSUME PitInv, Next PROVE PitTyped'
<1> DEFINE Timed == time \in Nat /\ time >= 3 /\ (time > 3 => Day <= LastDay)
<1>0. PitTyped /\ RunOk /\ Timed
  BY DEF PitInv, PitTyped
<1>t. UNCHANGED time => Timed'
  BY <1>0 DEF Day
<1>f. /\ UNCHANGED filed => filed' \in [Filings -> Nat]
      /\ UNCHANGED ledger => ledger' \subseteq Sessions
      /\ UNCHANGED events => events' \in [Filings -> EventRecord]
      /\ UNCHANGED covered => covered' \in [Days -> CoverRecord]
      /\ UNCHANGED flow => flow' \in [Sources -> [Sessions -> FlowRecord]]
      /\ UNCHANGED run => run' \in RunRecord
      /\ UNCHANGED command => CommandTyped'
  BY <1>0 DEF PitTyped, CommandTyped
<1>r. run \in RunRecord /\ ledger \subseteq Sessions
  BY <1>0 DEF PitTyped
<1> HIDE DEF Timed
<1> USE DEF Collector, Operator
<1>1. CASE Begin \/ Restart
  BY <1>0, <1>1, <1>t, <1>f, StartIsTyped DEF Begin, Restart, PitTyped, Timed
<1>2. CASE StorePage
  BY <1>2, <1>0, <1>t, <1>f, <1>r DEF StorePage, Wanted, Published, PitTyped, Timed
<1>3. CASE BeginEvents
  <2> DEFINE first == IF Today > Lookback THEN Today - Lookback ELSE 1
             skip == Covered(first, Finalizable(Today))
  <2>1. first \in Nat /\ first <= Today + 1 /\ skip \in SUBSET Days /\ Today + 1 \notin skip
    BY <1>0, <1>3, FirstChunk DEF BeginEvents
  <2>2. run' = [run EXCEPT !.pc = "events", !.known = ledger \cup FutureSessions(Today),
                           !.skip = skip, !.chunk = NextDay(first, Today, skip)]
    BY <1>3 DEF BeginEvents
  <2> HIDE DEF first, skip
  <2>3. NextDay(first, Today, skip) \in Nat
    BY <1>0, <2>1, TodayIs, NextDayIs
  <2>4. ledger \cup FutureSessions(Today) \in SUBSET Sessions
    BY <1>r DEF FutureSessions
  <2>5. run' \in RunRecord
    BY <1>r, <2>1, <2>2, <2>3, <2>4 DEF RunRecord, Busy
  <2> QED
    BY <1>3, <1>t, <1>f, <2>5 DEF BeginEvents, PitTyped, Timed
<1>4. CASE StoreFilings
  <2>1. PICK page \in (SUBSET (Listed(run.chunk) \ run.seen)) \ {{}} :
          events' = Upserted(page, run.known, "collector") /\ run' = [run EXCEPT !.seen = @ \cup page]
    BY <1>4 DEF StoreFilings
  <2>2. page \in SUBSET Filings
    BY DEF Listed
  <2>3. run' \in RunRecord
    BY <1>r, <2>1, <2>2 DEF RunRecord
  <2>4. events' \in [Filings -> EventRecord]
    BY <1>0, <1>r, <2>1, UpsertedIsTyped DEF RunRecord, Writers
  <2> QED
    BY <1>4, <1>t, <1>f, <2>3, <2>4 DEF StoreFilings, PitTyped, Timed
<1>5. CASE CheckOff
  <2>1. run.chunk \in Nat /\ run.chunk <= Today /\ Today \in Nat /\ Today + 1 \notin run.skip
    BY <1>0, <1>r, <1>5, TodayIs DEF CheckOff, RunOk, RunRecord
  <2>2. NextDay(run.chunk + 1, Today, run.skip) \in Nat
    BY <2>1, NextDayIs
  <2>3. run' \in RunRecord
    BY <1>5, <1>r, <2>2 DEF CheckOff, RunRecord
  <2>4. covered' \in [Days -> CoverRecord]
    BY <1>5, <1>0, CheckedIsTyped DEF CheckOff, PitTyped, Writers
  <2> QED
    BY <1>5, <1>t, <1>f, <2>3, <2>4 DEF CheckOff, PitTyped, Timed
<1>6. CASE BeginFlow
  <2>1. run' \in RunRecord
    BY <1>6, <1>r DEF BeginFlow, RunRecord, Busy
  <2> QED
    BY <1>6, <1>t, <1>f, <2>1 DEF BeginFlow, PitTyped, Timed
<1>7. CASE CollectFlow \/ SkipFlow
  <2>1. run' \in RunRecord /\ run.began \in Nat
    BY <1>7, <1>0, <1>r, RestIsTyped DEF CollectFlow, SkipFlow, RunRecord
  <2>2. flow' \in [Sources -> [Sessions -> FlowRecord]]
    BY <1>7, <1>0, <1>f, <2>1, InsertedIsTyped DEF CollectFlow, SkipFlow, Sources
  <2> QED
    BY <1>7, <1>t, <1>f, <2>1, <2>2 DEF CollectFlow, SkipFlow, PitTyped, Timed
<1>8. CASE FlowRaises \/ Crash
  <2>1. run' \in RunRecord
    BY <1>8, <1>0, StopIsTyped DEF FlowRaises, Crash
  <2> QED
    BY <1>8, <1>t, <1>f, <2>1 DEF FlowRaises, Crash, Stop, PitTyped, Timed
<1>9. ASSUME NEW d \in Days, Backfill(d) PROVE PitTyped'
  BY <1>9, <1>t, <1>f, <1>r DEF Backfill, Published, PitTyped, Timed
<1>10. ASSUME NEW e \in {Day - 1, Day}, NEW d \in {e - 1, e} \cap Days, BeginCommand(d, e)
       PROVE  PitTyped'
  <2>1. Day \in Nat /\ d \in Nat /\ d >= 1
    BY <1>0, TodayIs, DaysAre
  <2>2. e \in Nat /\ d <= e + 1
    BY <2>1
  <2> DEFINE skip == Covered(d, e)  x == NextDay(d, e, skip)
  <2>3. skip \in SUBSET Days /\ e + 1 \notin skip
    BY <2>2 DEF Covered
  <2>4. command' = [known |-> ledger, skip |-> skip, chunk |-> x, last |-> e, seen |-> {}]
    BY <1>10 DEF BeginCommand
  <2> HIDE DEF skip
  <2>5. x \in Nat \ {0}
    BY <2>1, <2>2, <2>3, NextDayIs
  <2> HIDE DEF x
  <2>6. CommandTyped'
    BY <1>r, <2>2, <2>3, <2>4, <2>5 DEF CommandTyped, CommandRecord
  <2> QED
    BY <1>10, <1>t, <1>f, <2>6 DEF BeginCommand, PitTyped, Timed
<1>14. CASE CommandStores
  <2>0. command \in CommandRecord /\ CommandTyped
    BY <1>0 DEF PitTyped, CommandTyped
  <2>1. PICK page \in (SUBSET (Listed(command.chunk) \ command.seen)) \ {{}} :
          /\ events' = Upserted(page, command.known, "operator")
          /\ command' = [command EXCEPT !.seen = @ \cup page]
    BY <1>14 DEF CommandStores
  <2>2. page \in SUBSET Filings
    BY DEF Listed
  <2>3. CommandTyped'
    BY <2>0, <2>1, <2>2 DEF CommandTyped, CommandRecord
  <2>4. events' \in [Filings -> EventRecord]
    BY <1>0, <2>0, <2>1, UpsertedIsTyped DEF CommandRecord, Writers
  <2> QED
    BY <1>14, <1>t, <1>f, <2>3, <2>4 DEF CommandStores, PitTyped, Timed
<1>15. CASE CommandChecksOff
  <2>0. command \in CommandRecord /\ CommandTyped
    BY <1>0 DEF PitTyped, CommandTyped
  <2> DEFINE x == NextDay(command.chunk + 1, command.last, command.skip)
  <2>1. command' = [command EXCEPT !.chunk = x, !.seen = {}] /\ command.chunk <= command.last
    BY <1>15 DEF CommandChecksOff
  <2>2. x \in Nat \ {0}
    BY <2>0, <2>1, NextDayIs DEF CommandTyped, CommandRecord
  <2> HIDE DEF x
  <2>3. CommandTyped'
    BY <2>0, <2>1, <2>2 DEF CommandTyped, CommandRecord
  <2>4. covered' \in [Days -> CoverRecord]
    BY <1>15, <1>0, CheckedIsTyped DEF CommandChecksOff, Writers
  <2> QED
    BY <1>15, <1>t, <1>f, <2>3, <2>4 DEF CommandChecksOff, PitTyped, Timed
<1>16. CASE CommandEnds
  <2>1. CommandTyped'
    BY <1>16 DEF CommandEnds, NoCommand, CommandTyped, CommandRecord
  <2> QED
    BY <1>16, <1>t, <1>f, <2>1 DEF CommandEnds, PitTyped, Timed
<1>11. ASSUME NEW s \in Sessions, ImportFlow(s) PROVE PitTyped'
  <2>1. flow' \in [Sources -> [Sessions -> FlowRecord]]
    BY <1>11, <1>0, InsertedIsTyped DEF ImportFlow, Sources, PitTyped
  <2> QED
    BY <1>11, <1>t, <1>f, <2>1 DEF ImportFlow, PitTyped, Timed
<1>12. CASE Tick
  <2>1. time \in Nat /\ time >= 3 /\ time' = time + 1 /\ time < 3 * LastDay + 2 /\ LastDay \in Nat
    BY <1>12, <1>0, DaysAre DEF Tick, Timed, At, Slots
  <2>2. Day' \in Nat /\ 3 * Day' <= time'
    BY <2>1, DayOf DEF Day
  <2>3. time' \in Nat /\ time' >= 3 /\ Day' <= LastDay
    <3>1. ASSUME NEW a \in Nat, 3 * a <= time + 1 PROVE a <= LastDay
      BY <2>1, <3>1
    <3>2. Day' \in Nat /\ 3 * Day' <= time + 1
      BY <2>1, <2>2
    <3>3. Day' <= LastDay
      BY <3>1, <3>2
    <3> QED
      BY <2>1, <3>3
  <2>4. Timed'
    BY <2>3 DEF Timed
  <2> QED
    BY <1>12, <1>f, <2>4 DEF Tick, PitTyped, Timed
<1>13. ASSUME NEW f \in Filings, Receive(f) PROVE PitTyped'
  <2>1. Day \in Nat
    BY <1>0, TodayIs
  <2>2. filed' \in [Filings -> Nat]
    BY <1>13, <1>0, <2>1 DEF Receive, PitTyped
  <2> QED
    BY <1>13, <1>t, <1>f, <2>2 DEF Receive, PitTyped, Timed
<1> QED
  BY <1>1, <1>2, <1>3, <1>4, <1>5, <1>6, <1>7, <1>8, <1>9, <1>10, <1>11, <1>12, <1>13,
     <1>14, <1>15, <1>16 DEF Next

-----------------------------------------------------------------------------
(* Every step keeps PitInv *)

\* What a step beside the run has to leave as it was.
LEMMA RunKept ==
  ASSUME PitInv, UNCHANGED run, time' \in Nat, time <= time',
         \A e \in Days : Finalized(e) => Finalized(e)',
         \A d \in Days : covered'[d].by = "collector" => covered[d].by = "collector",
         run.pc = "events" =>
           \A f \in run.seen :
             filed'[f] = filed[f] /\ (events'[f].by = "operator" \/ events'[f] = events[f])
  PROVE  RunOk'
<1>0. RunOk /\ run.began \in Nat /\ time \in Nat /\ Today' = Today
  BY DEF PitInv, PitTyped, RunRecord, Today
<1>1. run'.pc \in Busy => run'.began >= 3 /\ run'.began <= time'
  BY <1>0 DEF RunOk
<1>2. run'.pc = "universe" => run'.seen = {}
  BY <1>0 DEF RunOk
<1>3. ASSUME run'.pc = "events"
      PROVE  /\ run'.chunk >= 1 /\ run'.chunk >= Today' - Lookback /\ run'.chunk <= Today' + 1
             /\ run'.chunk \notin run'.skip
             /\ FutureSessions(Today') \subseteq run'.known
             /\ \A f \in run'.seen : filed'[f] = run'.chunk
             /\ \A d \in run'.skip : d < Today' /\ Finalized(d)'
             /\ \A d \in Days : Today' - Lookback <= d /\ d < run'.chunk /\ d < Today' => Finalized(d)'
             /\ \A d \in Days : Today' - Lookback <= d /\ d < Today' /\ covered'[d].by = "collector" =>
                  d \in run'.skip \/ d < run'.chunk
             /\ \A f \in run'.seen : \/ events'[f].by = "operator"
                                    \/ events'[f] = EventRow(run'.chunk, run'.known, "collector")
  <2>1. run.pc = "events" /\ run' = run /\ run.skip \in SUBSET Days
    BY <1>3 DEF PitInv, PitTyped, RunRecord
  <2>2. /\ run.chunk >= 1 /\ run.chunk >= Today - Lookback /\ run.chunk <= Today + 1
        /\ run.chunk \notin run.skip
        /\ FutureSessions(Today) \subseteq run.known
        /\ \A f \in run.seen : filed[f] = run.chunk
        /\ \A d \in run.skip : d < Today /\ Finalized(d)
        /\ \A d \in Days : Today - Lookback <= d /\ d < run.chunk /\ d < Today => Finalized(d)
        /\ \A d \in Days : Today - Lookback <= d /\ d < Today /\ covered[d].by = "collector" =>
             d \in run.skip \/ d < run.chunk
        /\ \A f \in run.seen : \/ events[f].by = "operator"
                              \/ events[f] = EventRow(run.chunk, run.known, "collector")
    BY <1>0, <2>1 DEF RunOk
  <2>3. \A f \in run.seen : \/ events'[f].by = "operator"
                           \/ events'[f] = EventRow(run.chunk, run.known, "collector")
    BY <2>1, <2>2
  <2> QED
    BY <1>0, <2>1, <2>2, <2>3 DEF Finalized
<1> QED
  BY <1>1, <1>2, <1>3 DEF RunOk, Finalized

LEMMA TimePasses == ASSUME PitTyped, Next PROVE time <= time'
<1>0. time \in Nat
  BY DEF PitTyped
<1>1. CASE Collector
  BY <1>0, <1>1 DEF Collector, Begin, StorePage, BeginEvents, StoreFilings, CheckOff, BeginFlow,
     CollectFlow, SkipFlow, FlowRaises, Crash, Restart, Stop
<1>2. CASE Operator
  <2>1. \A d : Backfill(d) => UNCHANGED time
    BY DEF Backfill
  <2>2. \A d, e : BeginCommand(d, e) => UNCHANGED time
    BY DEF BeginCommand
  <2>4. CommandStores \/ CommandChecksOff \/ CommandEnds => UNCHANGED time
    BY DEF CommandStores, CommandChecksOff, CommandEnds
  <2>3. \A s : ImportFlow(s) => UNCHANGED time
    BY DEF ImportFlow
  <2> QED
    BY <1>0, <1>2, <2>1, <2>2, <2>3, <2>4 DEF Operator
<1>3. CASE Tick
  BY <1>0, <1>3 DEF Tick
<1>4. CASE \E f \in Filings : Receive(f)
  BY <1>0, <1>4 DEF Receive
<1> QED
  BY <1>1, <1>2, <1>3, <1>4 DEF Next

\* The steps that write neither filings nor rows.
LEMMA QuietKeeps ==
  ASSUME PitInv, Next, UNCHANGED <<filed, events, covered>>,
         \/ UNCHANGED run
         \/ run' = Start \/ run'.pc \in {"waiting", "down"}
         \/ run'.pc = "flow" /\ run.pc \in Busy /\ run'.began = run.began
  PROVE  PitInv'
<1>1. PitTyped' /\ PitTyped /\ RunOk
  BY TypesKept DEF PitInv
<1>2. time' \in Nat /\ time \in Nat /\ time >= 3 /\ time <= time'
  BY <1>1, TimePasses DEF PitTyped
<1>3. Start.began = time /\ Start.pc = "universe" /\ Start.seen = {}
  BY DEF Start
<1>4. (\A f \in Filings : EventOk(f))' /\ (\A d \in Days : CoverOk(d))'
  BY <1>2, <1>3, TableFrame DEF Busy
<1>5. \A e \in Days : Finalized(e) => Finalized(e)'
  BY DEF Finalized
<1>6. RunOk'
  <2>1. CASE UNCHANGED run
    BY <1>2, <1>5, <2>1, RunKept
  <2>2. CASE run' = Start \/ run'.pc \in {"waiting", "down"}
    BY <1>2, <1>3, <2>2 DEF RunOk, Busy
  <2>3. CASE run'.pc = "flow" /\ run.pc \in Busy /\ run'.began = run.began
    <3>1. run'.began >= 3 /\ run'.began <= time'
      BY <1>1, <1>2, <2>3 DEF RunOk, PitTyped, RunRecord
    <3> QED
      BY <2>3, <3>1 DEF RunOk, Busy
  <2> QED
    BY <2>1, <2>2, <2>3
<1> QED
  BY <1>1, <1>4, <1>6 DEF PitInv

\* A run that begins to fetch filings leaves out the days that were checked off.
LEMMA BeginEventsKeeps == ASSUME PitInv, Next, BeginEvents PROVE PitInv'
<1> DEFINE first == IF Today > Lookback THEN Today - Lookback ELSE 1
           skip == Covered(first, Finalizable(Today))
           x == NextDay(first, Today, skip)
<1>0. PitTyped' /\ PitTyped /\ RunOk /\ run \in RunRecord
  BY TypesKept DEF PitInv, PitTyped
<1>1. /\ run.pc = "universe" /\ UNCHANGED <<time, filed, ledger, events, covered>>
      /\ run' = [run EXCEPT !.pc = "events", !.known = ledger \cup FutureSessions(Today),
                            !.skip = skip, !.chunk = x]
  BY DEF BeginEvents
<1>2. /\ first \in Nat /\ first >= 1 /\ first >= Today - Lookback /\ first <= Today + 1
      /\ \A d \in Days : Today - Lookback <= d => first <= d
      /\ skip \in SUBSET Days
      /\ \A d \in Days : d \in skip <=> (first <= d /\ d < Today /\ Finalized(d))
      /\ Today + 1 \notin skip
  BY <1>1, FirstChunk
<1>3. Today \in Nat /\ time \in Nat
  BY <1>0, TodayIs DEF PitTyped
<1> HIDE DEF first, skip
<1>4. /\ x \in Nat /\ first <= x /\ x <= Today + 1 /\ x \notin skip
      /\ \A e \in Nat : first <= e /\ e < x => e \in skip
  BY <1>2, <1>3, NextDayIs
<1> HIDE DEF x
<1>5. /\ run'.pc = "events" /\ run'.began = run.began /\ run'.seen = run.seen
      /\ run'.known = ledger \cup FutureSessions(Today) /\ run'.skip = skip /\ run'.chunk = x
  BY <1>0, <1>1 DEF RunRecord
<1>6. Today' = Today
  BY <1>5 DEF Today
<1>7. (\A f \in Filings : EventOk(f))' /\ (\A d \in Days : CoverOk(d))'
  BY <1>1, <1>3, <1>5, TableFrame DEF Busy
<1>8. \A d \in Days : Finalized(d)' = Finalized(d)
  BY <1>1 DEF Finalized
<1>9. \A d \in Days : covered[d].by = "collector" => Finalized(d)
  BY DEF PitInv, CoverOk
<1>10. run.began >= 3 /\ run.began <= time /\ run.seen = {}
  BY <1>0, <1>1 DEF RunOk, Busy
<1>11. \A d \in skip : d < Today /\ Finalized(d)'
  BY <1>2, <1>8
<1>12. \A d \in Days : Today - Lookback <= d /\ d < Today /\ covered[d].by = "collector" =>
         d \in skip \/ d < x
  BY <1>2, <1>9
<1>13. \A d \in Days : Today - Lookback <= d /\ d < x /\ d < Today => Finalized(d)'
  BY <1>2, <1>4, <1>8, DaysAre
<1>14. x >= 1 /\ x >= Today - Lookback /\ x <= Today + 1
  BY <1>2, <1>3, <1>4, DaysAre
<1>15. RunOk'
  BY <1>1, <1>4, <1>5, <1>6, <1>10, <1>11, <1>12, <1>13, <1>14 DEF RunOk
<1> QED
  BY <1>0, <1>7, <1>15 DEF PitInv

\* A page of filings is not of a day the collector checked off.
LEMMA StoreFilingsKeeps == ASSUME PitInv, Next, StoreFilings PROVE PitInv'
<1> DEFINE c == run.chunk
<1>0. PitTyped' /\ PitTyped /\ RunOk /\ run \in RunRecord
  BY TypesKept DEF PitInv, PitTyped
<1>1. PICK page \in (SUBSET (Listed(c) \ run.seen)) \ {{}} :
        events' = Upserted(page, run.known, "collector") /\ run' = [run EXCEPT !.seen = @ \cup page]
  BY DEF StoreFilings
<1>2. run.pc = "events" /\ c <= Today /\ UNCHANGED <<time, filed, ledger, covered>>
  BY DEF StoreFilings
<1>3. c \in Nat /\ c >= 1 /\ run.known \in SUBSET Sessions /\ Today \in Nat /\ time \in Nat /\ Day \in Nat
  BY <1>0, <1>2, TodayIs DEF RunOk, RunRecord, PitTyped
<1>4. /\ run'.pc = "events" /\ run'.began = run.began /\ run'.seen = run.seen \cup page
      /\ run'.known = run.known /\ run'.skip = run.skip /\ run'.chunk = c
      /\ Today' = Today /\ Day' = Day
  BY <1>0, <1>1, <1>2 DEF RunRecord, Today, Day
<1>5. \A f \in page : f \in Filings /\ filed[f] = c
  BY <1>1 DEF Listed
<1>6. \A f \in Filings : events'[f] = IF f \in page THEN EventRow(c, run.known, "collector") ELSE events[f]
  BY <1>1, <1>5 DEF Upserted
<1>7. \A d \in Days : Finalized(d)' = Finalized(d)
  BY <1>2 DEF Finalized
<1>8. ASSUME NEW f \in Filings PROVE EventOk(f)'
  <2>1. EventOk(f)
    BY DEF PitInv
  <2>2. CASE f \in page
    BY <1>2, <1>3, <1>4, <1>5, <1>6, <2>1, <2>2, EventRowIs DEF EventOk, Writers
  <2>3. CASE f \notin page
    BY <1>2, <1>4, <1>6, <2>1, <2>3 DEF EventOk
  <2> QED
    BY <2>2, <2>3
<1>9. c \in Days => covered[c].by # "collector"
  <2> SUFFICES ASSUME c \in Days, covered[c].by = "collector" PROVE FALSE
    OBVIOUS
  <2>1. CoverOk(c) /\ covered[c].completed \in Nat
    BY <1>0 DEF PitInv, PitTyped, CoverRecord
  <2>2. CASE c < Today
    BY <1>0, <1>2, <1>3, <2>2 DEF RunOk
  <2>3. CASE c = Today
    <3>1. covered[c].completed >= 3 * (Today + 1) /\ run.began < 3 * Today + 3 /\ run.began \in Nat
      BY <1>0, <2>1, <2>3, TodayIs DEF CoverOk, Finalized, At, Slots, RunRecord
    <3>2. covered[c].completed > run.began
      BY <1>3, <2>1, <3>1
    <3> QED
      BY <1>2, <1>3, <2>1, <2>3, <3>2 DEF CoverOk, Busy
  <2> QED
    BY <1>2, <1>3, <2>2, <2>3
<1>10. ASSUME NEW d \in Days PROVE CoverOk(d)'
  <2>1. ASSUME NEW f \in Filings, filed'[f] = d, covered[d].by = "collector", Kept(f)
        PROVE  Kept(f)'
    <3>1. f \notin page
      BY <1>2, <1>5, <1>9, <2>1
    <3> QED
      BY <1>2, <1>3, <1>4, <1>6, <2>1, <3>1, KeptKept
  <2> QED
    BY <1>2, <1>3, <1>4, <1>7, <2>1, CoverKept
<1>11. RunOk'
  <2>1. \A f \in run.seen : f \in Filings /\ filed[f] = c
    BY <1>0, <1>2 DEF RunOk, RunRecord
  <2>2. /\ run.began >= 3 /\ run.began <= time
        /\ c >= Today - Lookback /\ c <= Today + 1 /\ c \notin run.skip
        /\ FutureSessions(Today) \subseteq run.known
        /\ \A d \in run.skip : d < Today /\ Finalized(d)
        /\ \A d \in Days : Today - Lookback <= d /\ d < c /\ d < Today => Finalized(d)
        /\ \A d \in Days : Today - Lookback <= d /\ d < Today /\ covered[d].by = "collector" =>
             d \in run.skip \/ d < c
        /\ \A f \in run.seen : \/ events[f].by = "operator"
                              \/ events[f] = EventRow(c, run.known, "collector")
    BY <1>0, <1>2 DEF RunOk, Busy
  <2>3. \A f \in run.seen \cup page : filed[f] = c
    BY <1>5, <2>1
  <2>4. \A f \in run.seen \cup page : \/ events'[f].by = "operator"
                                     \/ events'[f] = EventRow(c, run.known, "collector")
    BY <1>5, <1>6, <2>1, <2>2
  <2>5. run.skip \in SUBSET Days
    BY <1>0 DEF RunRecord
  <2> QED
    BY <1>2, <1>3, <1>4, <2>2, <2>3, <2>4, <2>5 DEF RunOk, Finalized
<1> QED
  BY <1>0, <1>8, <1>10, <1>11 DEF PitInv

\* A day is checked off when its filings are there, and those of the days before.
LEMMA CheckOffKeeps == ASSUME PitInv, Next, CheckOff PROVE PitInv'
<1>0. PitTyped' /\ PitTyped /\ RunOk /\ run \in RunRecord
  BY TypesKept DEF PitInv, PitTyped
<1> PICK c \in Nat : c = run.chunk
  BY <1>0 DEF RunRecord
<1> DEFINE x == NextDay(c + 1, Today, run.skip)
<1>1. /\ run.pc = "events" /\ c <= Today /\ Listed(c) \subseteq run.seen
      /\ covered' = IF c <= Finalizable(Today) THEN Checked(c, "collector") ELSE covered
      /\ run' = [run EXCEPT !.chunk = x, !.seen = {}]
      /\ UNCHANGED <<time, filed, events>>
  BY DEF CheckOff
<1>2. /\ run.began >= 3 /\ run.began <= time
      /\ c >= 1 /\ c >= Today - Lookback /\ c <= Today + 1 /\ c \notin run.skip
      /\ FutureSessions(Today) \subseteq run.known
      /\ \A f \in run.seen : filed[f] = c
      /\ \A d \in run.skip : d < Today /\ Finalized(d)
      /\ \A d \in Days : Today - Lookback <= d /\ d < c /\ d < Today => Finalized(d)
      /\ \A d \in Days : Today - Lookback <= d /\ d < Today /\ covered[d].by = "collector" =>
           d \in run.skip \/ d < c
      /\ \A f \in run.seen : \/ events[f].by = "operator"
                            \/ events[f] = EventRow(c, run.known, "collector")
  BY <1>0, <1>1 DEF RunOk, Busy
<1>3. /\ c \in Nat /\ Today \in Nat /\ Day \in Nat /\ time \in Nat /\ run.began \in Nat
      /\ 3 * Today <= run.began /\ Today >= 1 /\ Today <= Day
      /\ run.skip \in SUBSET Days /\ run.known \in SUBSET Sessions
  BY <1>0, <1>1, TodayIs DEF RunRecord, PitTyped, Busy
<1>4. c < Today => c \in Days /\ Today \in Days
  <2>1. Today >= 2 => Today \in Days
    BY <1>0, <1>1, TodayIs DEF Busy
  <2>2. c < Today => Today >= 2 /\ Today \in Days
    BY <1>2, <1>3, <2>1
  <2>3. c < Today => c <= LastDay
    BY <1>3, <2>2, DaysAre
  <2> QED
    BY <1>2, <1>3, <2>2, <2>3, DaysAre
<1>5. Today + 1 \notin run.skip /\ c + 1 \in Nat /\ c + 1 <= Today + 1
  BY <1>1, <1>2, <1>3
<1>6. /\ x \in Nat /\ c + 1 <= x /\ x <= Today + 1 /\ x \notin run.skip
      /\ \A e \in Nat : c + 1 <= e /\ e < x => e \in run.skip
  BY <1>3, <1>5, NextDayIs
<1> HIDE DEF x
<1>7. /\ run'.pc = "events" /\ run'.began = run.began /\ run'.seen = {}
      /\ run'.known = run.known /\ run'.skip = run.skip /\ run'.chunk = x
      /\ Today' = Today /\ Day' = Day
  BY <1>0, <1>1 DEF RunRecord, Today, Day
<1>8. \A d \in Days :
        covered'[d] = IF d = c /\ c < Today
                      THEN [completed |-> time, by |-> "collector"] ELSE covered[d]
  BY <1>0, <1>1, <1>3 DEF Checked, Finalizable, PitTyped
<1>9. /\ \A d \in Days : Finalized(d) => Finalized(d)'
      /\ c < Today => Finalized(c)'
  <2>1. c < Today => covered'[c].completed = time
    BY <1>4, <1>8
  <2>2. c < Today => time >= 3 * (c + 1)
    BY <1>2, <1>3
  <2>3. c < Today => Finalized(c)'
    BY <2>1, <2>2 DEF Finalized, At, Slots
  <2>4. ASSUME NEW d \in Days, Finalized(d) PROVE Finalized(d)'
    <3>1. CASE d = c /\ c < Today
      BY <2>3, <3>1
    <3>2. CASE ~(d = c /\ c < Today)
      BY <1>8, <2>4, <3>2 DEF Finalized
    <3> QED
      BY <3>1, <3>2
  <2> QED
    BY <2>3, <2>4
<1>10. ASSUME NEW f \in Filings PROVE EventOk(f)'
  BY <1>1, <1>7 DEF PitInv, EventOk
<1>11. \A f \in Filings : Kept(f) => Kept(f)'
  BY <1>1, <1>3, <1>7, KeptKept
<1>12. ASSUME NEW d \in Days PROVE CoverOk(d)'
  <2>1. CASE d = c /\ c < Today
    <3>1. covered'[d].completed = time /\ covered'[d].by = "collector" /\ time' = time
      BY <1>1, <1>8, <2>1
    <3>3. ASSUME NEW f \in Filings, filed'[f] = d PROVE Kept(f)'
      <4>1. f \in run.seen /\ filed[f] = c
        BY <1>1, <2>1, <3>3 DEF Listed
      <4>2. events[f].by = "operator" \/ events[f] = EventRow(filed[f], run.known, "collector")
        BY <1>2, <4>1
      <4>3. filed[f] < Today /\ Today <= Day /\ Today \in Days
        BY <1>3, <1>4, <2>1, <4>1
      <4>4. Kept(f)
        BY <1>2, <1>3, <4>2, <4>3 DEF Known, Kept
      <4> QED
        BY <1>11, <4>4
    <3>4. \A e \in Days : time \div 3 - Lookback <= e /\ e < d => Finalized(e)'
      <4>1. ASSUME NEW e \in Days, Day - Lookback <= e, e < d PROVE Finalized(e)'
        <5>1. Today - Lookback <= e /\ e < c /\ e < Today
          BY <1>3, <2>1, <4>1, DaysAre
        <5> QED
          BY <1>2, <1>9, <5>1
      <4> QED
        BY <4>1 DEF Day
    <3>5. d < Today'
      BY <1>7, <2>1
    <3>6. Finalized(d)'
      BY <1>9, <2>1
    <3> QED
      BY <1>3, <3>1, <3>3, <3>4, <3>5, <3>6 DEF CoverOk
  <2>2. CASE ~(d = c /\ c < Today)
    <3>1. covered'[d] = covered[d]
      BY <1>8, <2>2
    <3>2. run'.pc \in Busy => run.pc \in Busy /\ run'.began = run.began
      BY <1>1, <1>7 DEF Busy
    <3>3. \A f \in Filings : filed'[f] = d => filed[f] = d /\ (Kept(f) => Kept(f)')
      BY <1>1, <1>11
    <3>4. time' \in Nat /\ time <= time'
      BY <1>1, <1>3
    <3> QED
      BY <1>9, <3>1, <3>2, <3>3, <3>4, CoverKept
  <2> QED
    BY <2>1, <2>2
<1>13. RunOk'
  <2>1. x >= 1 /\ x >= Today - Lookback /\ x <= Today + 1
    BY <1>2, <1>3, <1>6, DaysAre
  <2>2. \A d \in run.skip : d < Today /\ Finalized(d)'
    BY <1>2, <1>3, <1>9
  <2>3. ASSUME NEW d \in Days, Today - Lookback <= d, d < x, d < Today PROVE Finalized(d)'
    <3>1. CASE d < c
      BY <1>2, <1>9, <2>3, <3>1
    <3>2. CASE d = c
      BY <1>9, <2>3, <3>2
    <3>3. CASE d > c
      BY <1>2, <1>3, <1>6, <1>9, <2>3, <3>3, DaysAre
    <3> QED
      BY <1>3, <3>1, <3>2, <3>3, DaysAre
  <2>4. ASSUME NEW d \in Days, Today - Lookback <= d, d < Today, covered'[d].by = "collector"
        PROVE  d \in run.skip \/ d < x
    <3>1. CASE d = c
      BY <1>3, <1>6, <3>1
    <3>2. CASE d # c
      <4>1. d \in run.skip \/ d < c
        BY <1>2, <1>8, <2>4, <3>2
      <4> QED
        BY <1>3, <1>6, <4>1, DaysAre
    <3> QED
      BY <3>1, <3>2
  <2> QED
    BY <1>1, <1>2, <1>6, <1>7, <2>1, <2>2, <2>3, <2>4 DEF RunOk
<1> QED
  BY <1>0, <1>10, <1>12, <1>13 DEF PitInv

\* The rows a command of the operator writes become the operator's.
LEMMA CommandStoresKeeps == ASSUME PitInv, Next, CommandStores PROVE PitInv'
<1>0. PitTyped' /\ PitTyped /\ RunOk /\ run \in RunRecord /\ command \in CommandRecord
  BY TypesKept DEF PitInv, PitTyped, CommandTyped
<1> DEFINE c == command.chunk
<1>1. PICK page \in (SUBSET (Listed(c) \ command.seen)) \ {{}} :
        events' = Upserted(page, command.known, "operator")
  BY DEF CommandStores
<1>2. UNCHANGED <<time, filed, covered, run>>
  BY DEF CommandStores
<1>3. /\ c \in Nat /\ c >= 1 /\ command.known \in SUBSET Sessions
      /\ time' \in Nat /\ time <= time' /\ Day \in Nat /\ Day' = Day
  BY <1>0, <1>2, TodayIs DEF CommandRecord, PitTyped, Day
<1>4. \A f \in page : f \in Filings /\ filed[f] = c
  BY <1>1 DEF Listed
<1>5. \A f \in Filings :
        events'[f] = IF f \in page THEN EventRow(c, command.known, "operator") ELSE events[f]
  BY <1>1, <1>4 DEF Upserted
<1>6. \A f \in Filings : f \in page => events'[f].by = "operator"
  BY <1>5 DEF EventRow
<1>7. ASSUME NEW f \in Filings PROVE EventOk(f)'
  <2>1. EventOk(f) /\ filed'[f] = filed[f]
    BY <1>2 DEF PitInv
  <2>2. CASE f \in page
    BY <1>3, <1>4, <1>5, <2>1, <2>2, EventRowIs DEF EventOk, Writers
  <2>3. CASE f \notin page
    BY <1>3, <1>5, <2>1, <2>3 DEF EventOk
  <2> QED
    BY <2>2, <2>3
<1>8. \A f \in Filings : Kept(f) => Kept(f)'
  <2> SUFFICES ASSUME NEW f \in Filings, Kept(f) PROVE Kept(f)'
    OBVIOUS
  <2>1. CASE f \in page
    BY <1>6, <2>1 DEF Kept
  <2>2. CASE f \notin page
    BY <1>2, <1>3, <1>5, <2>2, KeptKept
  <2> QED
    BY <2>1, <2>2
<1>9. \A e \in Days : Finalized(e) => Finalized(e)'
  BY <1>2 DEF Finalized
<1>10. ASSUME NEW d \in Days PROVE CoverOk(d)'
  <2>1. covered'[d] = covered[d] /\ UNCHANGED run /\ UNCHANGED filed
    BY <1>2
  <2> QED
    BY <1>3, <1>8, <1>9, <2>1, CoverKept
<1>11. RunOk'
  <2>1. \A f \in run.seen : /\ filed'[f] = filed[f]
                            /\ events'[f].by = "operator" \/ events'[f] = events[f]
    BY <1>0, <1>2, <1>5, <1>6 DEF RunRecord
  <2>2. UNCHANGED run /\ UNCHANGED covered
    BY <1>2
  <2> QED
    BY <1>3, <1>9, <2>1, <2>2, RunKept
<1> QED
  BY <1>0, <1>7, <1>10, <1>11 DEF PitInv

\* So do the days it checks off.
LEMMA CommandChecksOffKeeps == ASSUME PitInv, Next, CommandChecksOff PROVE PitInv'
<1>0. PitTyped' /\ PitTyped /\ RunOk
  BY TypesKept DEF PitInv
<1> PICK c : c = command.chunk
  OBVIOUS
<1>1. covered' = Checked(c, "operator") /\ UNCHANGED <<time, filed, events, run>>
  BY DEF CommandChecksOff
<1>2. time' \in Nat /\ time <= time' /\ time' = time /\ Day \in Nat /\ Day' = Day
  BY <1>0, <1>1, TodayIs DEF PitTyped, Day
<1>3. \A d \in Days :
        covered'[d] = IF d = c THEN [completed |-> time, by |-> "operator"] ELSE covered[d]
  BY <1>0, <1>1 DEF Checked, PitTyped
<1>4. \A e \in Days : Finalized(e) => Finalized(e)'
  <2> SUFFICES ASSUME NEW e \in Days, Finalized(e) PROVE Finalized(e)'
    OBVIOUS
  <2>1. CASE e = c
    <3>1. /\ covered[e].completed \in Nat /\ covered[e].completed <= time /\ e \in Nat
          /\ covered'[e].completed = time
      BY <1>0, <1>3, <2>1, DaysAre DEF PitInv, PitTyped, CoverOk, CoverRecord
    <3> QED
      BY <1>2, <3>1 DEF Finalized, At, Slots
  <2>2. CASE e # c
    BY <1>3, <2>2 DEF Finalized
  <2> QED
    BY <2>1, <2>2
<1>5. ASSUME NEW f \in Filings PROVE EventOk(f)'
  BY <1>1, <1>2 DEF PitInv, EventOk
<1>6. \A f \in Filings : Kept(f) => Kept(f)'
  BY <1>1, <1>2, KeptKept
<1>7. ASSUME NEW d \in Days PROVE CoverOk(d)'
  <2>1. CASE d = c
    <3>1. covered'[d].completed = time /\ covered'[d].by = "operator"
      BY <1>3, <2>1
    <3> QED
      BY <1>2, <3>1 DEF CoverOk
  <2>2. CASE d # c
    <3>1. covered'[d] = covered[d] /\ UNCHANGED run /\ UNCHANGED filed
      BY <1>1, <1>3, <2>2
    <3> QED
      BY <1>2, <1>4, <1>6, <3>1, CoverKept
  <2> QED
    BY <2>1, <2>2
<1>8. RunOk'
  <2>1. \A d \in Days : covered'[d].by = "collector" => covered[d].by = "collector"
    BY <1>3
  <2>2. UNCHANGED run /\ \A f \in run.seen : filed'[f] = filed[f] /\ events'[f] = events[f]
    BY <1>1
  <2> QED
    BY <1>2, <1>4, <2>1, <2>2, RunKept
<1> QED
  BY <1>0, <1>5, <1>7, <1>8 DEF PitInv

\* No day that was checked off by the collector receives another filing.
LEMMA ReceiveKeeps ==
  ASSUME PitInv, Next, NEW g \in Filings, Receive(g)
  PROVE  PitInv'
<1>0. PitTyped' /\ PitTyped /\ RunOk /\ run \in RunRecord
  BY TypesKept DEF PitInv, PitTyped
<1>1. filed[g] = 0 /\ filed' = [filed EXCEPT ![g] = Day] /\ UNCHANGED <<time, events, covered, run>>
  BY DEF Receive
<1>2. /\ Day \in Nat /\ Day' = Day /\ time \in Nat /\ time' \in Nat /\ time <= time'
      /\ time < 3 * Day + 3
  BY <1>0, <1>1, TodayIs DEF PitTyped, Day
<1>3. \A f \in Filings : filed'[f] = IF f = g THEN Day ELSE filed[f]
  BY <1>0, <1>1 DEF PitTyped
<1>4. \A e \in Days : Finalized(e) => Finalized(e)'
  BY <1>1 DEF Finalized
<1>5. ASSUME NEW f \in Filings PROVE EventOk(f)'
  <2>1. EventOk(f) /\ events' = events
    BY <1>1 DEF PitInv
  <2>2. CASE f = g
    <3>1. filed'[f] = Day /\ filed[f] = 0 /\ ~events[f].stored
      BY <1>1, <1>3, <2>1, <2>2 DEF EventOk
    <3> QED
      BY <1>2, <2>1, <3>1 DEF EventOk
  <2>3. CASE f # g
    <3>1. filed'[f] = filed[f]
      BY <1>3, <2>3
    <3> QED
      BY <1>2, <2>1, <3>1 DEF EventOk
  <2> QED
    BY <2>2, <2>3
<1>6. ASSUME NEW d \in Days PROVE CoverOk(d)'
  <2>1. ASSUME covered[d].by = "collector" PROVE d # Day
    <3>1. /\ covered[d].completed >= 3 * (d + 1) /\ covered[d].completed <= time
          /\ covered[d].completed \in Nat /\ d \in Nat
      BY <1>0, <2>1, DaysAre DEF PitInv, PitTyped, CoverOk, CoverRecord, Finalized, At, Slots
    <3> QED
      BY <1>2, <3>1
  <2>2. ASSUME NEW f \in Filings, filed'[f] = d, covered[d].by = "collector"
        PROVE  filed[f] = d /\ (Kept(f) => Kept(f)')
    <3>1. f # g /\ filed'[f] = filed[f] /\ events'[f] = events[f]
      BY <1>1, <1>3, <2>1, <2>2
    <3> QED
      BY <1>2, <2>2, <3>1, KeptKept
  <2>3. covered'[d] = covered[d] /\ UNCHANGED run
    BY <1>1
  <2> QED
    BY <1>2, <1>4, <2>2, <2>3, CoverKept
<1>7. RunOk'
  <2>1. ASSUME run.pc = "events", NEW f \in run.seen PROVE filed'[f] = filed[f]
    <3>1. f \in Filings /\ filed[f] = run.chunk /\ run.chunk >= 1
      BY <1>0, <2>1 DEF RunOk, RunRecord
    <3> QED
      BY <1>1, <1>3, <3>1
  <2>2. UNCHANGED run /\ UNCHANGED covered /\ \A f \in run.seen : events'[f] = events[f]
    BY <1>1
  <2> QED
    BY <1>2, <1>4, <2>1, <2>2, RunKept
<1> QED
  BY <1>0, <1>5, <1>6, <1>7 DEF PitInv

\* The days the collector checked off, the rows of their filings and the run in
\* progress stay as PitInv says, whatever crashes, is slow or is done by hand: a
\* command that wrote pages from what it had read before, and died, leaves its mark on
\* the rows it wrote, and on no others.
THEOREM CollectedDaysAreWhole == Spec => []PitInv
<1>1. Init => PitInv
  BY PitInit
<1>2. PitInv /\ [Next]_vars => PitInv'
  <2> SUFFICES ASSUME PitInv, [Next]_vars PROVE PitInv'
    OBVIOUS
  <2>0. Start.pc = "universe" /\ PitTyped /\ run \in RunRecord
    BY DEF PitInv, PitTyped, Start
  <2>1. CASE BeginEvents
    BY <2>1, BeginEventsKeeps DEF Next, Collector
  <2>2. CASE StoreFilings
    BY <2>2, StoreFilingsKeeps DEF Next, Collector
  <2>3. CASE CheckOff
    BY <2>3, CheckOffKeeps DEF Next, Collector
  <2>4. CASE CommandStores
    BY <2>4, CommandStoresKeeps DEF Next, Operator
  <2>15. CASE CommandChecksOff
    BY <2>15, CommandChecksOffKeeps DEF Next, Operator
  <2>16. CASE CommandEnds
    BY <2>16, QuietKeeps DEF CommandEnds, Next, Operator
  <2>17. ASSUME NEW e \in {Day - 1, Day}, NEW d \in {e - 1, e} \cap Days, BeginCommand(d, e)
         PROVE  PitInv'
    <3>1. Next
      BY <2>17 DEF Next, Operator
    <3> QED
      BY <2>17, <3>1, QuietKeeps DEF BeginCommand
  <2>5. ASSUME NEW f \in Filings, Receive(f) PROVE PitInv'
    BY <2>5, ReceiveKeeps DEF Next
  <2>6. CASE Begin \/ Restart
    BY <2>6, QuietKeeps DEF Begin, Restart, Next, Collector
  <2>7. CASE StorePage
    BY <2>7, QuietKeeps DEF StorePage, Next, Collector
  <2>8. CASE BeginFlow
    <3>1. run'.pc = "flow" /\ run.pc \in Busy /\ run'.began = run.began
      BY <2>0, <2>8 DEF BeginFlow, RunRecord, Busy
    <3> QED
      BY <2>8, <3>1, QuietKeeps DEF BeginFlow, Next, Collector
  <2>9. CASE CollectFlow \/ SkipFlow
    <3>1. run'.pc = "waiting"
      BY <2>0, <2>9 DEF CollectFlow, SkipFlow, Rest, RunRecord
    <3> QED
      BY <2>9, <3>1, QuietKeeps DEF CollectFlow, SkipFlow, Next, Collector
  <2>10. CASE FlowRaises \/ Crash
    <3>1. run'.pc = "down"
      BY <2>10 DEF FlowRaises, Crash, Stop, Start
    <3> QED
      BY <2>10, <3>1, QuietKeeps DEF FlowRaises, Crash, Stop, Next, Collector
  <2>11. ASSUME NEW d \in Days, Backfill(d) PROVE PitInv'
    <3>1. Next
      BY <2>11 DEF Next, Operator
    <3> QED
      BY <2>11, <3>1, QuietKeeps DEF Backfill
  <2>12. ASSUME NEW s \in {r \in Sessions : time >= At(r, Slots.evening)}, ImportFlow(s) PROVE PitInv'
    <3>1. Next
      BY <2>12 DEF Next, Operator
    <3> QED
      BY <2>12, <3>1, QuietKeeps DEF ImportFlow
  <2>13. CASE Tick
    BY <2>13, QuietKeeps DEF Tick, Next
  <2>14. CASE UNCHANGED vars
    <3>1. /\ UNCHANGED <<filed, events, covered, run>> /\ time' \in Nat /\ time <= time'
          /\ PitTyped'
      BY <2>0, <2>14 DEF vars, PitTyped, Day, CommandTyped
    <3>2. (\A f \in Filings : EventOk(f))' /\ (\A d \in Days : CoverOk(d))'
      BY <3>1, TableFrame
    <3>3. \A e \in Days : Finalized(e) => Finalized(e)'
      BY <3>1 DEF Finalized
    <3>4. RunOk'
      BY <3>1, <3>3, RunKept
    <3> QED
      BY <3>1, <3>2, <3>4 DEF PitInv
  <2> QED
    BY <2>1, <2>2, <2>3, <2>4, <2>5, <2>6, <2>7, <2>8, <2>9, <2>10, <2>11, <2>12, <2>13, <2>14,
       <2>15, <2>16, <2>17 DEF Next, Collector, Operator
<1> QED
  BY <1>1, <1>2, PTL DEF Spec

-----------------------------------------------------------------------------
(* No block is missed *)

\* A good row of a blocking filing is seen, and blocks, on the first two sessions
\* after the filing was received.
LEMMA KnownBlocks ==
  ASSUME PitInv, Day \in Sessions, NEW f \in Blocking, Known(f), NEW k \in {1, 2},
         Day = Nth(k, filed[f], Sessions)
  PROVE  Blocks(f, Day)
<1> DEFINE d == filed[f]
<1>1. /\ f \in Filings /\ d \in Nat /\ Day \in Nat /\ Day # 0
      /\ \A s \in Sessions : s \in Nat
  BY PitAssumption DEF PitInv, PitTyped
<1>2. PICK day \in Days, known \in SUBSET Sessions :
        /\ d < day /\ day <= Day /\ FutureSessions(day) \subseteq known
        /\ events[f] = EventRow(d, known, "collector")
  BY DEF Known
<1>3. day \in Nat
  BY DaysAre
<1>4. d < Day /\ Cardinality(Between(d, Day, Sessions)) = k
  BY <1>1, NthIs
<1>5. Between(d, Day, Sessions) \in SUBSET Sessions /\ IsFiniteSet(Between(d, Day, Sessions))
  BY SessionsFinite DEF Between
<1>6. Day \in known
  <2> DEFINE upto == {r \in Sessions : day <= r /\ r <= Day}
  <2>1. upto \in SUBSET Between(d, Day, Sessions)
    <3>1. d \in Nat /\ d < day
      BY <1>1, <1>2
    <3>2. ASSUME NEW r \in Sessions, day <= r PROVE d < r
      BY <1>1, <1>3, <3>1, <3>2
    <3> QED
      BY <3>2 DEF Between
  <2> HIDE DEF upto
  <2>2. Cardinality(upto) <= Cardinality(Between(d, Day, Sessions)) /\ Cardinality(upto) \in Nat
    BY <1>5, <2>1, FS_Subset, SessionsFinite
  <2>3. Cardinality(upto) <= 4
    BY <1>4, <2>2
  <2> QED
    BY <1>2, <2>3 DEF FutureSessions, upto
<1>7. Nth(1, d, known) # 0 /\ Nth(1, d, known) <= Day
  BY <1>1, <1>4, <1>6, NextIs
<1>8. Day < Nth(3, d, known)
  <2>1. Between(d, Day, known) \in SUBSET Between(d, Day, Sessions)
    BY DEF Between
  <2>2. /\ Cardinality(Between(d, Day, known)) <= Cardinality(Between(d, Day, Sessions))
        /\ Cardinality(Between(d, Day, known)) \in Nat
    BY <1>5, <2>1, FS_Subset, SessionsFinite
  <2>3. Cardinality(Between(d, Day, known)) <= 2
    BY <1>4, <2>2
  <2>4. Cardinality({s \in known : s > d}) >= 3
    BY <1>1, <1>2, ThreeToCome
  <2> QED
    BY <1>1, <2>3, <2>4, ThirdIs
<1> QED
  BY <1>2, <1>7, <1>8 DEF Blocks, Visible, EventRow

\* A decision the event gate lets pass has missed no block of the days the
\* collector checked off, but for rows a command of the operator wrote last.
THEOREM BlocksAreSeen == Spec => []NoMissedBlock
<1>1. PitInv => NoMissedBlock
  <2> SUFFICES ASSUME PitInv, Day \in Sessions, NEW s \in Sessions, s < Day,
                      EventGate(s, Day) = "none", NEW f \in Blocking, filed[f] \in 1..s,
                      covered[filed[f]].by = "collector", events[f].by # "operator",
                      NEW k \in {1, 2}, Day = Nth(k, filed[f], Sessions)
               PROVE  FALSE
    BY DEF NoMissedBlock
  <2>1. f \in Filings /\ filed[f] \in Nat /\ s \in Nat /\ Day \in Nat /\ 3 * Day <= time
    BY PitAssumption, TodayIs DEF PitInv, PitTyped
  <2>2. Day >= 2
    BY <2>1
  <2>3. Day <= LastDay
    BY <2>1, <2>2 DEF PitInv, PitTyped
  <2>4. filed[f] \in Days
    BY <2>1, <2>3, DaysAre
  <2>5. Known(f)
    BY <2>1, <2>4 DEF PitInv, CoverOk, Kept
  <2>6. Blocks(f, Day)
    BY <2>5, KnownBlocks
  <2> QED
    BY <2>1, <2>6 DEF EventGate
<1> QED
  BY <1>1, CollectedDaysAreWhole, PTL

-----------------------------------------------------------------------------
(* A decision that is past *)

\* Rows that are not seen, before or after, do not change the event gate.
LEMMA GateStays ==
  ASSUME NEW s, NEW d, CheckedOff(s, d)' <=> CheckedOff(s, d),
         CheckedOff(s, d) =>
           \A f \in Filings : events'[f] = events[f] \/ (~Visible(f, d) /\ ~Visible(f, d)'),
         Blocking \subseteq Filings
  PROVE  EventGate(s, d)' = EventGate(s, d)
<1>1. CASE ~CheckedOff(s, d)
  BY <1>1 DEF EventGate
<1>2. CASE CheckedOff(s, d)
  <2>1. \A f \in Filings : events'[f] = events[f] \/ (~Visible(f, d) /\ ~Visible(f, d)')
    BY <1>2
  <2>2. \A f \in Filings : Visible(f, d)' <=> Visible(f, d)
    BY <2>1 DEF Visible
  <2>3. \A f \in Filings : Visible(f, d) => events'[f] = events[f]
    BY <2>1
  <2>4. \A f \in Filings : Blocks(f, d)' <=> Blocks(f, d)
    BY <2>2, <2>3 DEF Blocks
  <2>5. \A f \in Filings : Announces(f, d)' <=> Announces(f, d)
    BY <2>2, <2>3 DEF Announces
  <2> DEFINE open == {f \in Filings : Announces(f, d)}
             expired == \E f \in open : d >= events[f].through
             blocked == \E f \in Filings : Blocks(f, d)
  <2>6. open' = open
    BY <2>5
  <2>7. expired' <=> expired
    BY <2>3, <2>6 DEF Announces
  <2>8. blocked' <=> blocked
    BY <2>4
  <2>9. EventGate(s, d) = IF ~CheckedOff(s, d) THEN "unknown"
                          ELSE IF blocked THEN "active-entry-block"
                          ELSE IF open = {} THEN "none"
                          ELSE IF expired THEN "expired-unresolved" ELSE "preannounced-unknown"
    BY DEF EventGate
  <2>10. EventGate(s, d)' = IF ~CheckedOff(s, d)' THEN "unknown"
                            ELSE IF blocked' THEN "active-entry-block"
                            ELSE IF open' = {} THEN "none"
                            ELSE IF expired' THEN "expired-unresolved" ELSE "preannounced-unknown"
    BY DEF EventGate
  <2> QED
    BY <2>6, <2>7, <2>8, <2>9, <2>10
<1> QED
  BY <1>1, <1>2

\* Flow that is stored later than a decision is not seen by it.
LEMMA FlowStays ==
  ASSUME PitTyped, NEW src \in Sources, NEW ss, NEW through, NEW seenAt \in Nat,
         flow' = Inserted(src, ss, through, seenAt),
         NEW d \in Nat, seenAt > At(d, Slots.open), NEW s
  PROVE  FlowAt(s, d)' = FlowAt(s, d)
<1>1. ASSUME NEW q \in Sources, NEW r \in Sessions
      PROVE  /\ flow[q][r] # NoFlow => flow'[q][r] = flow[q][r]
             /\ flow[q][r] = NoFlow => flow'[q][r] = NoFlow \/ flow'[q][r].at = seenAt
  <2>1. CASE q = src
    BY <2>1 DEF Inserted, PitTyped
  <2>2. CASE q # src
    BY <2>2 DEF Inserted, PitTyped
  <2> QED
    BY <2>1, <2>2
<1>2. At(d, Slots.open) \in Nat /\ ~(seenAt <= At(d, Slots.open))
  BY DEF At, Slots
<1>3. ASSUME NEW q \in Sources, NEW r \in Sessions
      PROVE  /\ Seen(q, r, d)' <=> Seen(q, r, d)
             /\ Seen(q, r, d) => flow'[q][r] = flow[q][r]
  BY <1>1, <1>2 DEF Seen
<1> DEFINE seen == {q \in Sessions : q <= s /\ \E c \in Sources : Seen(c, q, d)}
           best(r) == (IF Seen("krx", r, d) THEN flow["krx"] ELSE flow["kis"])[r].index
           later(r) == (IF Seen("krx", r, d)' THEN flow'["krx"] ELSE flow'["kis"])[r].index
<1>4. seen' = seen
  BY <1>3
<1>5. ASSUME NEW r \in seen PROVE later(r) = best(r)
  <2>1. r \in Sessions /\ (Seen("krx", r, d) \/ Seen("kis", r, d))
    BY DEF Sources
  <2>2. CASE Seen("krx", r, d)
    BY <1>3, <2>1, <2>2 DEF Sources
  <2>3. CASE ~Seen("krx", r, d)
    BY <1>3, <2>1, <2>3 DEF Sources
  <2> QED
    BY <2>2, <2>3
<1>6. FlowAt(s, d) = {[session |-> r, index |-> best(r)] : r \in seen}
  BY DEF FlowAt
<1>7. FlowAt(s, d)' = {[session |-> r, index |-> later(r)] : r \in seen'}
  BY DEF FlowAt
<1> HIDE DEF seen, best, later
<1> QED
  BY <1>4, <1>5, <1>6, <1>7

\* A decision depends on what is stored through its context.
LEMMA DecisionStays ==
  ASSUME NEW p, NEW s, NEW d, EventGate(s, d)' = EventGate(s, d), FlowAt(s, d)' = FlowAt(s, d)
  PROVE  Decision(p, s, d)' = Decision(p, s, d)
<1>1. Context(s, d)' = Context(s, d)
  BY DEF Context
<1> QED
  BY <1>1 DEF Decision

\* The day before a decision that found it checked off was checked off by the
\* collector, and so were the days the run looks back on.
LEMMA LookedBack ==
  ASSUME PitInv, NEW d \in Days, d - 1 \in Days, CheckedOff(d - 1, d),
         \A e \in Days : covered[e].by # "operator"
  PROVE  /\ covered[d - 1].by = "collector"
         /\ \A e \in Days : d - Lookback <= e /\ e < d => Finalized(e) /\ covered[e].by = "collector"
         /\ run.pc \in Busy => Today >= d
<1>0. /\ d \in Nat /\ d >= 2 /\ Lookback \in Nat /\ PitTyped /\ RunOk
      /\ \A e \in Days : /\ e \in Nat /\ covered[e].completed \in Nat /\ CoverOk(e)
                         /\ covered[e].by \in {"nobody", "collector", "operator"}
  BY DaysAre DEF PitInv, PitTyped, CoverRecord, Writers
<1>1. \A e \in Days : Finalized(e) => covered[e].by = "collector"
  BY <1>0 DEF CoverOk, Finalized, At, Slots
<1>2. covered[d - 1].completed # 0 /\ covered[d - 1].completed <= 3 * d + 1
  BY DEF CheckedOff, At, Slots
<1>3. covered[d - 1].by = "collector"
  BY <1>0, <1>2 DEF CoverOk
<1>4. covered[d - 1].completed >= 3 * d /\ Finalized(d - 1)
  <2>1. Finalized(d - 1)
    BY <1>0, <1>3 DEF CoverOk
  <2> QED
    BY <1>0, <2>1 DEF Finalized, At, Slots
<1>5. covered[d - 1].completed \div 3 = d
  <2>1. ASSUME NEW n \in Nat, 3 * d <= n, n <= 3 * d + 1 PROVE n \div 3 = d
    <3> DEFINE q == n \div 3
    <3>1. q \in Nat /\ 3 * q <= n /\ n < 3 * q + 3
      BY DayOf
    <3> HIDE DEF q
    <3>2. q = d
      BY <1>0, <2>1, <3>1
    <3> QED
      BY <3>2 DEF q
  <2> QED
    BY <1>0, <1>2, <1>4, <2>1
<1>6. ASSUME NEW e \in Days, d - Lookback <= e, e < d PROVE Finalized(e)
  <2>1. CASE e = d - 1
    BY <1>4, <2>1
  <2>2. CASE e # d - 1
    <3>1. e < d - 1
      BY <1>0, <1>6, <2>2
    <3> QED
      BY <1>0, <1>3, <1>5, <1>6, <3>1 DEF CoverOk
  <2> QED
    BY <2>1, <2>2
<1>7. run.pc \in Busy => Today >= d
  <2> SUFFICES ASSUME run.pc \in Busy, Today < d PROVE FALSE
    BY <1>0, TodayIs
  <2>1. Today \in Nat /\ run.began < 3 * Today + 3 /\ run.began \in Nat
    BY <1>0, TodayIs DEF PitTyped, RunRecord
  <2>2. covered[d - 1].completed > run.began
    BY <1>0, <1>4, <2>1
  <2>3. d - 1 < Today
    BY <1>0, <1>3, <2>2 DEF CoverOk
  <2> QED
    BY <1>0, <2>1, <2>3
<1> QED
  BY <1>1, <1>3, <1>6, <1>7

\* A page of filings changes no event a past decision sees.
LEMMA StoreFilingsIsLate ==
  ASSUME PitInv, StoreFilings, NEW d \in Days, d - 1 \in Days,
         \A e \in Days : covered[e].by # "operator"
  PROVE  EventGate(d - 1, d)' = EventGate(d - 1, d)
<1>0. /\ PitTyped /\ RunOk /\ Blocking \subseteq Filings /\ d \in Nat /\ Lookback \in Nat
  BY PitAssumption, DaysAre DEF PitInv
<1> PICK c \in Nat : c = run.chunk
  BY <1>0 DEF PitTyped, RunRecord
<1>1. PICK page \in (SUBSET (Listed(c) \ run.seen)) \ {{}} :
        events' = Upserted(page, run.known, "collector")
  BY DEF StoreFilings
<1>2. /\ run.pc = "events" /\ c <= Today /\ UNCHANGED <<filed, covered>>
      /\ run.known \in SUBSET Sessions /\ Today \in Nat
  BY <1>0, TodayIs DEF StoreFilings, PitTyped, RunRecord
<1>3. \A f \in page : f \in Filings /\ filed[f] = c
  BY <1>1 DEF Listed
<1>4. \A f \in Filings : events'[f] = IF f \in page THEN EventRow(c, run.known, "collector") ELSE events[f]
  BY <1>1, <1>3 DEF Upserted
<1>5. CheckedOff(d - 1, d)' <=> CheckedOff(d - 1, d)
  BY <1>2 DEF CheckedOff
<1>6. CheckedOff(d - 1, d) => c >= d
  <2> SUFFICES ASSUME CheckedOff(d - 1, d), c < d PROVE FALSE
    BY <1>0
  <2>1. /\ \A e \in Days : d - Lookback <= e /\ e < d => Finalized(e) /\ covered[e].by = "collector"
        /\ Today >= d
    BY <1>2, LookedBack DEF Busy
  <2>2. c >= 1 /\ c >= Today - Lookback /\ c \notin run.skip
    BY <1>0, <1>2 DEF RunOk
  <2>3. c \in Days /\ d - Lookback <= c
    BY <1>0, <1>2, <2>1, <2>2, DaysAre
  <2>4. covered[c].by = "collector" /\ Today - Lookback <= c /\ c < Today
    BY <1>0, <1>2, <2>1, <2>2, <2>3
  <2> QED
    BY <1>0, <1>2, <2>2, <2>3, <2>4 DEF RunOk
<1>7. ASSUME c >= d, NEW f \in page PROVE ~Visible(f, d) /\ ~Visible(f, d)'
  <2>1. f \in Filings /\ filed[f] = c /\ EventOk(f) /\ events[f] \in EventRecord
    BY <1>3 DEF PitInv, PitTyped
  <2>2. ~Visible(f, d)
    BY <1>0, <1>7, <2>1 DEF EventOk, Visible, EventRecord
  <2>3. /\ events'[f] = EventRow(c, run.known, "collector") /\ events'[f] \in EventRecord
        /\ events'[f].available = 0 \/ events'[f].available > c
    BY <1>2, <1>4, <2>1, EventRowIs DEF Writers
  <2>4. ~Visible(f, d)'
    BY <1>0, <1>7, <2>3 DEF Visible, EventRecord
  <2> QED
    BY <2>2, <2>4
<1>8. CheckedOff(d - 1, d) =>
        \A f \in Filings : events'[f] = events[f] \/ (~Visible(f, d) /\ ~Visible(f, d)')
  BY <1>4, <1>6, <1>7
<1> QED
  BY <1>0, <1>5, <1>8, GateStays

\* A day that a past decision found checked off is not checked off again.
LEMMA CheckOffIsLate ==
  ASSUME PitInv, CheckOff, NEW d \in Days, d - 1 \in Days, At(d, Slots.open) < time,
         \A e \in Days : covered[e].by # "operator"
  PROVE  EventGate(d - 1, d)' = EventGate(d - 1, d)
<1>0. /\ PitTyped /\ RunOk /\ Blocking \subseteq Filings /\ d \in Nat /\ time \in Nat
  BY PitAssumption, DaysAre DEF PitInv, PitTyped
<1> PICK c \in Nat : c = run.chunk
  BY <1>0 DEF PitTyped, RunRecord
<1>1. /\ run.pc = "events" /\ UNCHANGED <<filed, events>> /\ Today \in Nat
      /\ covered' = IF c <= Finalizable(Today) THEN Checked(c, "collector") ELSE covered
  BY <1>0, TodayIs DEF CheckOff
<1>2. \A e \in Days : /\ ~(e = c /\ c < Today) => covered'[e] = covered[e]
                      /\ e = c /\ c < Today => covered'[e].completed = time
  BY <1>0, <1>1 DEF Checked, Finalizable, PitTyped
<1>3. CASE d - 1 = c /\ c < Today
  <2>1. ~CheckedOff(d - 1, d)'
    <3>1. covered'[d - 1].completed = time /\ ~(time <= At(d, Slots.open))
      BY <1>0, <1>2, <1>3 DEF At, Slots
    <3> QED
      BY <3>1 DEF CheckedOff
  <2>2. ~CheckedOff(d - 1, d)
    <3> SUFFICES ASSUME CheckedOff(d - 1, d) PROVE FALSE
      OBVIOUS
    <3>1. covered[c].by = "collector"
      BY <1>3, LookedBack
    <3>2. c \in Days /\ Today - Lookback <= c /\ c \notin run.skip
      BY <1>0, <1>1, <1>3 DEF RunOk
    <3> QED
      BY <1>0, <1>1, <1>3, <3>1, <3>2 DEF RunOk
  <2> QED
    BY <2>1, <2>2 DEF EventGate
<1>4. CASE ~(d - 1 = c /\ c < Today)
  <2>1. covered'[d - 1] = covered[d - 1]
    BY <1>2, <1>4
  <2>2. CheckedOff(d - 1, d)' <=> CheckedOff(d - 1, d)
    BY <2>1 DEF CheckedOff
  <2> QED
    BY <1>0, <1>1, <2>2, GateStays
<1> QED
  BY <1>3, <1>4

\* What is collected after a decision does not change how it is made again.
THEOREM PastStays == Spec => PastDecisionIsFixed
<1>1. PitInv /\ [Next]_vars =>
        [<<events, covered, flow>>' # <<events, covered, flow>> =>
           \A d \in Days :
             /\ {d - 1, d} \subseteq Sessions
             /\ At(d, Slots.open) < time /\ (run.pc = "flow" => run.began > At(d, Slots.open))
             /\ \A e \in Days : "operator" \notin {covered[e].by, covered'[e].by}
             /\ \A f \in Filings : "operator" \notin {events[f].by, events'[f].by}
             => \A p \in PriceFacts : Decision(p, d - 1, d)' = Decision(p, d - 1, d)]_vars
  <2> SUFFICES ASSUME PitInv, Next, <<events, covered, flow>>' # <<events, covered, flow>>,
                      NEW d \in Days, {d - 1, d} \subseteq Sessions,
                      At(d, Slots.open) < time, run.pc = "flow" => run.began > At(d, Slots.open),
                      \A e \in Days : "operator" \notin {covered[e].by, covered'[e].by},
                      \A f \in Filings : "operator" \notin {events[f].by, events'[f].by},
                      NEW p \in PriceFacts
               PROVE  Decision(p, d - 1, d)' = Decision(p, d - 1, d)
    OBVIOUS
  <2>0. /\ PitTyped /\ RunOk /\ d \in Nat /\ d - 1 \in Days /\ time \in Nat /\ time > 3
        /\ run.began \in Nat /\ Blocking \subseteq Filings
        /\ \A e \in Days : covered[e].by # "operator" /\ covered'[e].by # "operator"
    <3>1. Sessions \subseteq Nat \ {0} /\ Blocking \subseteq Filings
      BY PitAssumption
    <3>2. d \in Nat /\ d <= LastDay /\ LastDay \in Nat /\ d - 1 >= 1 /\ d - 1 \in Nat
      BY <3>1, DaysAre
    <3>3. d - 1 \in Days
      BY <3>2, DaysAre
    <3>4. time \in Nat /\ time > 3
      BY <3>2 DEF PitInv, PitTyped, At, Slots
    <3> QED
      BY <3>1, <3>2, <3>3, <3>4 DEF PitInv, PitTyped, RunRecord
  <2>1. UNCHANGED flow => FlowAt(d - 1, d)' = FlowAt(d - 1, d)
    BY DEF FlowAt, Seen
  <2>2. UNCHANGED <<events, covered>> => EventGate(d - 1, d)' = EventGate(d - 1, d)
    <3> SUFFICES ASSUME UNCHANGED <<events, covered>>
                 PROVE  EventGate(d - 1, d)' = EventGate(d - 1, d)
      OBVIOUS
    <3>1. CheckedOff(d - 1, d)' <=> CheckedOff(d - 1, d)
      BY DEF CheckedOff
    <3> QED
      BY <2>0, <3>1, GateStays
  <2>3. CASE StoreFilings
    <3>1. EventGate(d - 1, d)' = EventGate(d - 1, d)
      BY <2>0, <2>3, StoreFilingsIsLate
    <3> QED
      BY <2>1, <2>3, <3>1, DecisionStays DEF StoreFilings
  <2>4. CASE CheckOff
    <3>1. EventGate(d - 1, d)' = EventGate(d - 1, d)
      BY <2>0, <2>4, CheckOffIsLate
    <3> QED
      BY <2>1, <2>4, <3>1, DecisionStays DEF CheckOff
  <2>5. CASE CommandStores
    <3>1. PICK page \in (SUBSET Listed(command.chunk)) \ {{}} :
            events' = Upserted(page, command.known, "operator")
      BY <2>5 DEF CommandStores
    <3>2. PICK f \in Filings : f \in page
      BY <3>1 DEF Listed
    <3>3. events'[f].by = "operator"
      BY <3>1, <3>2 DEF Upserted, EventRow
    <3> QED
      BY <3>3
  <2>11. CASE CommandChecksOff
    <3>1. covered' = Checked(command.chunk, "operator") /\ UNCHANGED <<events, flow>>
      BY <2>11 DEF CommandChecksOff
    <3>2. command.chunk \notin Days
      BY <2>0, <3>1 DEF Checked, PitTyped
    <3>3. covered' = covered
      BY <2>0, <3>1, <3>2 DEF Checked, PitTyped
    <3> QED
      BY <3>1, <3>3
  <2>12. ASSUME NEW e, NEW a, BeginCommand(a, e) \/ CommandEnds PROVE FALSE
    BY <2>12 DEF BeginCommand, CommandEnds
  <2>6. CASE CollectFlow
    <3>1. PICK ss : flow' = Inserted("kis", ss, Today, run.began)
      BY <2>6 DEF CollectFlow
    <3>2. run.began > At(d, Slots.open) /\ UNCHANGED <<events, covered>>
      BY <2>6 DEF CollectFlow
    <3>3. FlowAt(d - 1, d)' = FlowAt(d - 1, d)
      BY <2>0, <3>1, <3>2, FlowStays DEF Sources
    <3> QED
      BY <2>2, <3>2, <3>3, DecisionStays
  <2>7. ASSUME NEW s \in Sessions, ImportFlow(s)
        PROVE  Decision(p, d - 1, d)' = Decision(p, d - 1, d)
    <3>1. flow' = Inserted("krx", {s}, s, time) /\ UNCHANGED <<events, covered>>
      BY <2>7 DEF ImportFlow
    <3>2. time > At(d, Slots.open)
      BY <2>0 DEF At, Slots
    <3>3. FlowAt(d - 1, d)' = FlowAt(d - 1, d)
      BY <2>0, <3>1, <3>2, FlowStays DEF Sources
    <3> QED
      BY <2>2, <3>1, <3>3, DecisionStays
  <2>8. CASE \/ Begin \/ StorePage \/ BeginEvents \/ BeginFlow \/ SkipFlow \/ FlowRaises \/ Crash
             \/ Restart \/ Tick
    BY <2>8 DEF Begin, StorePage, BeginEvents, BeginFlow, SkipFlow, FlowRaises, Crash, Restart,
       Stop, Tick
  <2>9. ASSUME NEW e \in Days, Backfill(e) PROVE FALSE
    BY <2>9 DEF Backfill
  <2>10. ASSUME NEW f \in Filings, Receive(f) PROVE FALSE
    BY <2>10 DEF Receive
  <2> QED
    BY <2>3, <2>4, <2>5, <2>6, <2>7, <2>8, <2>9, <2>10, <2>11, <2>12 DEF Next, Collector, Operator
<1> QED
  BY <1>1, CollectedDaysAreWhole, PTL DEF Spec, PastDecisionIsFixed

-----------------------------------------------------------------------------
(* The numbers of the sessions of flow *)

\* Sessions are counted up to a day and from there on.
LEMMA CountOn ==
  ASSUME NEW m \in Nat, NEW n \in Nat, NEW s \in Nat, m <= n, n <= s
  PROVE  /\ Cardinality(SessionsTo(m, s)) =
              Cardinality(SessionsTo(m, n)) + Cardinality(Between(n, s, Sessions))
         /\ Cardinality(SessionsTo(m, n)) \in Nat /\ Cardinality(Between(n, s, Sessions)) \in Nat
<1> DEFINE A == SessionsTo(m, n)  B == Between(n, s, Sessions)
<1>1. \A u \in Sessions : u \in Nat
  BY SessionsFinite
<1>2. IsFiniteSet(A) /\ IsFiniteSet(B) /\ Cardinality(A) \in Nat /\ Cardinality(B) \in Nat
  BY SessionsFinite DEF SessionsTo, Between
<1>3. A \cap B = {}
  BY <1>1 DEF SessionsTo, Between
<1>4. SessionsTo(m, s) = A \cup B
  <2>1. \A u \in Sessions : (m <= u /\ u <= s) <=> ((m <= u /\ u <= n) \/ (n < u /\ u <= s))
    BY <1>1
  <2> QED
    BY <2>1 DEF SessionsTo, Between
<1> HIDE DEF A, B
<1>5. Cardinality(A \cap B) = 0
  BY <1>3, FS_EmptySet
<1>6. Cardinality(A \cup B) = Cardinality(A) + Cardinality(B) - Cardinality(A \cap B)
  BY <1>2, FS_Union
<1>7. Cardinality(A \cup B) = Cardinality(A) + Cardinality(B)
  BY <1>2, <1>5, <1>6
<1> QED
  BY <1>2, <1>4, <1>7 DEF A, B

\* A session of a ledger without gaps is ranked from its first one.
LEMMA RankCounts ==
  ASSUME PitTyped, ledger # {}, NEW n \in ledger,
         \A s \in Sessions : Min(ledger) <= s /\ s <= Max(ledger) => s \in ledger
  PROVE  Rank(n) = Cardinality(SessionsTo(Min(ledger), n))
<1>1. ledger \in SUBSET Sessions /\ ledger \in SUBSET Nat /\ IsFiniteSet(ledger)
  BY SessionsFinite DEF PitTyped
<1>2. Min(ledger) \in ledger /\ \A y \in ledger : Min(ledger) <= y
  BY <1>1, LeastIs
<1>3. n <= Max(ledger) /\ Max(ledger) \in Nat
  BY <1>1, GreatestIs
<1>4. \A u \in Sessions : u \in Nat
  BY SessionsFinite
<1>5. \A u \in Sessions : (u \in ledger /\ u <= n) <=> (Min(ledger) <= u /\ u <= n)
  BY <1>1, <1>2, <1>3, <1>4
<1>6. {r \in ledger : r <= n} = SessionsTo(Min(ledger), n)
  BY <1>1, <1>5 DEF SessionsTo
<1> QED
  BY <1>6 DEF Rank

\* What a session is numbered with counts the sessions from the first of the ledger.
LEMMA IndexCounts ==
  ASSUME PitTyped, NEW through \in Sessions, NEW s \in Sessions, s \in Numbered(through),
         through \notin ledger => Before(through) # {}
  PROVE  /\ ledger # {} /\ Min(ledger) <= s
         /\ (\A u \in Sessions : Min(ledger) <= u /\ u <= Max(ledger) => u \in ledger) =>
              Index(through, s) = Cardinality(SessionsTo(Min(ledger), s))
<1> DEFINE last == Max(Before(through))
           whole == \A u \in Sessions : Min(ledger) <= u /\ u <= Max(ledger) => u \in ledger
<1>1. /\ ledger \in SUBSET Sessions /\ ledger \in SUBSET Nat /\ IsFiniteSet(ledger)
      /\ s \in Nat /\ through \in Nat
  BY SessionsFinite DEF PitTyped
<1>2. ledger # {}
  BY DEF Numbered, Before
<1>3. Min(ledger) \in ledger /\ Min(ledger) \in Nat /\ \A y \in ledger : Min(ledger) <= y
  BY <1>1, <1>2, LeastIs
<1>4. CASE s \in ledger /\ ~(through \notin ledger /\ s > last)
  <2>1. Index(through, s) = Rank(s)
    BY <1>4 DEF Index
  <2> QED
    BY <1>2, <1>3, <1>4, <2>1, RankCounts
<1>5. CASE through \notin ledger /\ s > last
  <2>1. Before(through) \in SUBSET Nat /\ IsFiniteSet(Before(through)) /\ Before(through) # {}
    BY <1>1, <1>5, FS_Subset DEF Before
  <2>2. last \in Before(through)
    BY <2>1, GreatestIs
  <2>3. last \in ledger /\ last \in Nat
    BY <1>1, <2>2 DEF Before
  <2> HIDE DEF last
  <2>4. Min(ledger) <= last /\ last <= s
    BY <1>1, <1>3, <1>5, <2>3
  <2>5. Index(through, s) = Rank(last) + Cardinality(Between(last, s, Sessions))
    BY <1>5 DEF Index, IndexFrom, Between, last
  <2>6. whole => Rank(last) = Cardinality(SessionsTo(Min(ledger), last))
    BY <1>2, <2>3, RankCounts
  <2>7. Cardinality(SessionsTo(Min(ledger), s)) =
          Cardinality(SessionsTo(Min(ledger), last)) + Cardinality(Between(last, s, Sessions))
    BY <1>1, <1>3, <2>3, <2>4, CountOn
  <2> QED
    BY <1>1, <1>2, <1>3, <2>3, <2>4, <2>5, <2>6, <2>7
<1>6. s \in ledger \/ (through \notin ledger /\ s > last)
  BY <1>1 DEF Numbered
<1> QED
  BY <1>4, <1>5, <1>6

\* Only rows that count are added.
LEMMA InsertedCounts ==
  ASSUME FlowInv, PitTyped', NEW c \in Sources, NEW ss, NEW through \in Sessions, NEW seenAt \in Nat,
         flow' = Inserted(c, ss, through, seenAt), ss \cap Sessions \in SUBSET Numbered(through),
         through \notin ledger => Before(through) # {}
  PROVE  FlowInv'
<1>1. PitTyped /\ flow \in [Sources -> [Sessions -> FlowRecord]]
  BY DEF FlowInv, PitTyped
<1>2. ASSUME NEW src \in Sources, NEW s \in Sessions PROVE FlowOk(src, s)'
  <2> DEFINE row == [index |-> Index(through, s), at |-> seenAt, ledger |-> ledger]
  <2>1. CASE flow'[src][s] = flow[src][s]
    <3>1. FlowOk(src, s)
      BY DEF FlowInv
    <3> QED
      BY <2>1, <3>1 DEF FlowOk, Gapless
  <2>2. CASE flow'[src][s] # flow[src][s]
    <3>1. src = c /\ s \in ss /\ flow'[src][s] = row
      BY <1>1, <2>2 DEF Inserted
    <3>2. s \in Numbered(through)
      BY <3>1
    <3>3. /\ ledger # {} /\ Min(ledger) <= s
          /\ (\A u \in Sessions : Min(ledger) <= u /\ u <= Max(ledger) => u \in ledger) =>
               Index(through, s) = Cardinality(SessionsTo(Min(ledger), s))
      BY <1>1, <3>2, IndexCounts
    <3>4. flow'[src][s].ledger = ledger /\ flow'[src][s].index = Index(through, s)
      BY <3>1
    <3> QED
      BY <3>3, <3>4 DEF FlowOk, Gapless
  <2> QED
    BY <2>1, <2>2
<1> QED
  BY <1>2 DEF FlowInv

LEMMA FlowStep == ASSUME PitInv, FlowInv, Next PROVE FlowInv'
<1>0. PitTyped' /\ PitTyped
  BY TypesKept DEF PitInv
<1>1. ASSUME UNCHANGED flow PROVE FlowInv'
  BY <1>0, <1>1 DEF FlowInv, FlowOk, Gapless
<1>2. CASE CollectFlow
  <2> DEFINE ss == {s \in Numbered(Today) : Today - KisDays <= s /\ s <= Today}
  <2>1. /\ Today \in Sessions /\ (Today \notin ledger => Before(Today) # {})
        /\ flow' = Inserted("kis", ss, Today, run.began)
    BY <1>2 DEF CollectFlow, FlowDue, NoNumbers
  <2>2. ss \cap Sessions \in SUBSET Numbered(Today) /\ run.began \in Nat
    BY <1>0 DEF PitTyped, RunRecord
  <2> HIDE DEF ss
  <2> QED
    BY <1>0, <2>1, <2>2, InsertedCounts DEF Sources
<1>3. ASSUME NEW s \in Sessions, ImportFlow(s) PROVE FlowInv'
  <2>1. /\ s \notin ledger => Before(s) # {}
        /\ flow' = Inserted("krx", {s}, s, time) /\ time \in Nat
    BY <1>0, <1>3 DEF ImportFlow, PitTyped
  <2>2. s \in Numbered(s)
    <3>1. CASE s \in ledger
      BY <3>1 DEF Numbered
    <3>2. CASE s \notin ledger
      <4>1. s \in Nat /\ Before(s) \in SUBSET Nat /\ IsFiniteSet(Before(s))
        BY <1>0, SessionsFinite DEF Before, PitTyped
      <4>2. Max(Before(s)) \in Before(s)
        BY <2>1, <3>2, <4>1, GreatestIs
      <4>3. Max(Before(s)) < s
        BY <4>2 DEF Before
      <4> QED
        BY <3>2, <4>1, <4>3 DEF Numbered
    <3> QED
      BY <3>1, <3>2
  <2>3. {s} \cap Sessions \in SUBSET Numbered(s)
    BY <2>2
  <2> QED
    BY <1>0, <2>1, <2>3, InsertedCounts DEF Sources
<1>4. CASE \/ Begin \/ StorePage \/ BeginEvents \/ StoreFilings \/ CheckOff \/ BeginFlow \/ SkipFlow
           \/ FlowRaises \/ Crash \/ Restart \/ Tick
  <2>1. UNCHANGED flow
    BY <1>4 DEF Begin, StorePage, BeginEvents, StoreFilings, CheckOff, BeginFlow, SkipFlow,
       FlowRaises, Crash, Restart, Stop, Tick
  <2> QED
    BY <1>1, <2>1
<1>5. ASSUME NEW d \in Days, Backfill(d) PROVE FlowInv'
  BY <1>1, <1>5 DEF Backfill
<1>6. ASSUME NEW d, NEW e, BeginCommand(d, e) \/ CommandStores \/ CommandChecksOff \/ CommandEnds
      PROVE  FlowInv'
  BY <1>1, <1>6 DEF BeginCommand, CommandStores, CommandChecksOff, CommandEnds
<1>7. ASSUME NEW f \in Filings, Receive(f) PROVE FlowInv'
  BY <1>1, <1>7 DEF Receive
<1> QED
  BY <1>2, <1>3, <1>4, <1>5, <1>6, <1>7 DEF Next, Collector, Operator

LEMMA FlowRowsCount == Spec => []FlowInv
<1>1. Init => FlowInv
  BY PitInit DEF Init, FlowInv, FlowOk, PitInv
<1>2. PitInv /\ FlowInv /\ [Next]_vars => FlowInv'
  <2>1. PitInv /\ FlowInv /\ Next => FlowInv'
    BY FlowStep
  <2>2. FlowInv /\ UNCHANGED vars => FlowInv'
    BY DEF FlowInv, FlowOk, Gapless, vars, PitTyped, Day, CommandTyped
  <2> QED
    BY <2>1, <2>2
<1> QED
  BY <1>1, <1>2, CollectedDaysAreWhole, PTL DEF Spec

\* Rows of flow that were numbered alike are as far apart as their sessions.
THEOREM FlowIsConsecutive == Spec => []IndexIsDistance
<1>1. FlowInv => IndexIsDistance
  <2> SUFFICES ASSUME FlowInv, NEW src \in Sources, NEW dst \in Sources,
                      NEW s \in HasFlow(src), NEW t \in HasFlow(dst), s < t,
                      Gapless(flow[src][s]), Gapless(flow[dst][t]),
                      Min(flow[src][s].ledger) = Min(flow[dst][t].ledger)
               PROVE  flow[dst][t].index - flow[src][s].index =
                        Cardinality({u \in Sessions : s < u /\ u <= t})
    BY DEF IndexIsDistance
  <2> DEFINE r == flow[src][s]  q == flow[dst][t]  m == Min(r.ledger)
  <2>1. s \in Sessions /\ t \in Sessions /\ r # NoFlow /\ q # NoFlow /\ s \in Nat /\ t \in Nat
    BY SessionsFinite DEF HasFlow
  <2>2. FlowOk(src, s) /\ FlowOk(dst, t)
    BY <2>1 DEF FlowInv
  <2>3. /\ r.ledger # {} /\ m <= s /\ r.index = Cardinality(SessionsTo(m, s))
        /\ q.index = Cardinality(SessionsTo(m, t))
    BY <2>1, <2>2 DEF FlowOk
  <2>4. r.ledger \in SUBSET Sessions
    BY <2>1 DEF FlowInv, PitTyped, FlowRecord
  <2>5. r.ledger \in SUBSET Nat
    BY <2>4, SessionsFinite
  <2>6. m \in Nat
    BY <2>3, <2>5, LeastIs
  <2> HIDE DEF m, r, q
  <2>7. /\ Cardinality(SessionsTo(m, t)) =
             Cardinality(SessionsTo(m, s)) + Cardinality(Between(s, t, Sessions))
        /\ Cardinality(SessionsTo(m, s)) \in Nat /\ Cardinality(Between(s, t, Sessions)) \in Nat
    BY <2>1, <2>3, <2>6, CountOn
  <2>8. q.index - r.index = Cardinality(Between(s, t, Sessions))
    BY <2>3, <2>7
  <2> QED
    BY <2>8 DEF Between, r, q
<1> QED
  BY <1>1, FlowRowsCount, PTL
=============================================================================
