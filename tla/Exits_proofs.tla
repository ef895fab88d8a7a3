------------------------------ MODULE Exits_proofs ------------------------------
(***************************************************************************)
(* The exits of positions: those of the three replays of stored bars       *)
(* (Replay), for any symbols, bars, indicator windows, rates and limits;   *)
(* and those of the paper cycle on the bars of a session (PositionExit),   *)
(* for any sessions, windows and faults.                                   *)
(***************************************************************************)
EXTENDS PositionExit, Replay, FiniteSetTheorems, WellFoundedInduction, TLAPS

-----------------------------------------------------------------------------
(* Induction. The library states induction with an operator as a parameter; *)
(* with a set in its place it follows from the order of the naturals.       *)

\* Every set of naturals has a least one.
LEMMA LeastNumber ==
  ASSUME NEW T, T \subseteq Nat, T # {}
  PROVE  \E x \in T : \A y \in T : x <= y
<1>1. PICK x \in T : \A y \in T : ~(<<y, x>> \in OpToRel(<, Nat))
  BY NatLessThanWellFounded, WFMin
<1>2. ASSUME NEW y \in T, y < x PROVE FALSE
  <2>1. <<y, x>> \in OpToRel(<, Nat)
    BY <1>2 DEF OpToRel
  <2> QED BY <2>1, <1>1
<1>3. ASSUME NEW y \in T PROVE x <= y
  <2>1. ~(y < x) /\ x \in Nat /\ y \in Nat
    BY ONLY <1>2, T \subseteq Nat, x \in T, y \in T
  <2> QED BY ONLY <2>1
<1> HIDE <1>1
<1> QED BY <1>3

\* A set that has 0 and the successor of each of its members has 0..N.
LEMMA UpTo ==
  ASSUME NEW N \in Nat, NEW T, 0 \in T, \A n \in 1..N : n - 1 \in T => n \in T
  PROVE  0..N \subseteq T
<1> DEFINE Bad == {n \in 0..N : n \notin T}
<1>1. SUFFICES ASSUME Bad # {} PROVE FALSE
  OBVIOUS
<1>2. PICK n \in Bad : \A m \in Bad : n <= m
  <2>1. Bad \subseteq Nat
    OBVIOUS
  <2> HIDE DEF Bad
  <2> QED BY <1>1, <2>1, LeastNumber
<1>3. n \in 1..N /\ n \notin T
  BY <1>2
<1>4. n - 1 \notin Bad
  BY <1>2, <1>3
<1>5. n - 1 \in T
  BY <1>3, <1>4
<1> QED BY <1>3, <1>5

-----------------------------------------------------------------------------
(* Sums *)

\* The recursive function is there: the sums up to each number can be extended.
LEMMA SumsExist ==
  ASSUME NEW N \in Nat, NEW f \in [1..N -> Int]
  PROVE  \E g \in [0..N -> Int] :
           g = [n \in 0..N |-> IF n = 0 THEN 0 ELSE g[n - 1] + f[n]]
<1> DEFINE Sums(n, g) == /\ g \in [0..n -> Int] /\ g[0] = 0
                         /\ \A k \in 1..n : g[k] = g[k - 1] + f[k]
           Good == {n \in 0..N : \E g : Sums(n, g)}
<1>1. 0 \in Good
  <2>1. Sums(0, [k \in 0..0 |-> 0])
    OBVIOUS
  <2> HIDE DEF Sums
  <2> QED BY <2>1
<1>2. ASSUME NEW n \in 1..N, n - 1 \in Good PROVE n \in Good
  <2>1. PICK g : Sums(n - 1, g)
    BY <1>2
  <2> DEFINE h == [k \in 0..n |-> IF k = n THEN g[n - 1] + f[n] ELSE g[k]]
  <2>2. g[n - 1] \in Int /\ f[n] \in Int
    BY <2>1
  <2>3. h \in [0..n -> Int] /\ h[0] = 0
    BY <2>1, <2>2
  <2>4. ASSUME NEW k \in 1..n PROVE h[k] = h[k - 1] + f[k]
    <3>1. CASE k = n
      BY <3>1
    <3>2. CASE k # n
      BY <2>1, <3>2
    <3> QED BY <3>1, <3>2
  <2>5. Sums(n, h)
    BY <2>3, <2>4
  <2> HIDE DEF Sums
  <2> QED BY <2>5
<1>3. N \in Good
  <2> HIDE DEF Good
  <2>1. \A n \in 1..N : n - 1 \in Good => n \in Good
    BY <1>2
  <2>2. 0..N \subseteq Good
    BY <1>1, <2>1, UpTo
  <2> QED BY <2>2
<1>4. PICK g : Sums(N, g)
  <2> HIDE DEF Sums
  <2> QED BY <1>3
<1>5. \A n \in 0..N : g[n] = IF n = 0 THEN 0 ELSE g[n - 1] + f[n]
  BY <1>4
<1>6. g = [n \in 0..N |-> IF n = 0 THEN 0 ELSE g[n - 1] + f[n]]
  BY <1>4, <1>5
<1> QED BY <1>4, <1>6

\* What the sums of a sequence of numbers are.
LEMMA SumsOf ==
  ASSUME NEW s \in Seq(Int)
  PROVE  /\ PartialSums(s) \in [0..Len(s) -> Int]
         /\ PartialSums(s)[0] = 0
         /\ \A n \in 1..Len(s) : PartialSums(s)[n] = PartialSums(s)[n - 1] + s[n]
         /\ SumOf(s) = PartialSums(s)[Len(s)] /\ SumOf(s) \in Int
<1>1. Len(s) \in Nat /\ s \in [1..Len(s) -> Int]
  OBVIOUS
<1> DEFINE Is(g) == g = [n \in 0..Len(s) |-> IF n = 0 THEN 0 ELSE g[n - 1] + s[n]]
<1>2. PICK g \in [0..Len(s) -> Int] : Is(g)
  BY <1>1, SumsExist
<1>3. PartialSums(s) = CHOOSE h : Is(h)
  BY DEF PartialSums
<1>4. Is(PartialSums(s))
  BY <1>2, <1>3
<1> DEFINE p == PartialSums(s)
<1>5. \A n \in 0..Len(s) : p[n] = IF n = 0 THEN 0 ELSE p[n - 1] + s[n]
  BY <1>4
<1> DEFINE T == {n \in 0..Len(s) : p[n] \in Int}
<1>6. 0..Len(s) \subseteq T
  <2>1. 0 \in T
    BY <1>1, <1>5
  <2>2. \A n \in 1..Len(s) : n - 1 \in T => n \in T
    BY <1>1, <1>5
  <2> HIDE DEF T
  <2> QED BY <1>1, <2>1, <2>2, UpTo
<1>7. p \in [0..Len(s) -> Int]
  BY <1>4, <1>6
<1> HIDE DEF p
<1>8. p[0] = 0 /\ (\A n \in 1..Len(s) : p[n] = p[n - 1] + s[n]) /\ p[Len(s)] \in Int
  BY <1>1, <1>5, <1>7
<1> QED BY <1>7, <1>8 DEF p, SumOf

\* Sums add up term by term.
LEMMA SumPlus ==
  ASSUME NEW r \in Seq(Int), NEW s \in Seq(Int), NEW t \in Seq(Int),
         Len(s) = Len(r), Len(t) = Len(r), \A i \in 1..Len(r) : r[i] = s[i] + t[i]
  PROVE  SumOf(r) = SumOf(s) + SumOf(t)
<1> DEFINE N == Len(r)
           p == PartialSums(r)
           q == PartialSums(s)
           o == PartialSums(t)
           T == {n \in 0..N : p[n] = q[n] + o[n]}
<1>1. N \in Nat /\ r \in [1..N -> Int] /\ s \in [1..N -> Int] /\ t \in [1..N -> Int]
  OBVIOUS
<1>2. /\ p \in [0..N -> Int] /\ p[0] = 0 /\ \A n \in 1..N : p[n] = p[n - 1] + r[n]
      /\ q \in [0..N -> Int] /\ q[0] = 0 /\ \A n \in 1..N : q[n] = q[n - 1] + s[n]
      /\ o \in [0..N -> Int] /\ o[0] = 0 /\ \A n \in 1..N : o[n] = o[n - 1] + t[n]
      /\ SumOf(r) = p[N] /\ SumOf(s) = q[N] /\ SumOf(t) = o[N]
  BY SumsOf
<1>3. \A i \in 1..N : r[i] = s[i] + t[i]
  OBVIOUS
<1> HIDE DEF N, p, q, o
<1>4. 0 \in T
  BY <1>1, <1>2
<1>5. ASSUME NEW n \in 1..N, n - 1 \in T PROVE n \in T
  <2>1. n \in 0..N /\ n - 1 \in 0..N /\ p[n - 1] = q[n - 1] + o[n - 1]
    BY <1>1, <1>5
  <2>2. /\ p[n] = p[n - 1] + r[n] /\ q[n] = q[n - 1] + s[n] /\ o[n] = o[n - 1] + t[n]
        /\ r[n] = s[n] + t[n]
    BY <1>2, <1>3
  <2>3. /\ q[n - 1] \in Int /\ o[n - 1] \in Int /\ s[n] \in Int /\ t[n] \in Int
    BY <1>1, <1>2, <2>1
  <2>4. p[n] = q[n] + o[n]
    BY ONLY <2>1, <2>2, <2>3
  <2> QED BY <2>1, <2>4
<1>6. 0..N \subseteq T
  <2> HIDE DEF T
  <2> QED BY <1>1, <1>4, <1>5, UpTo
<1> QED BY <1>1, <1>2, <1>6

\* A sum with at most one term that is not zero.
LEMMA SumSingle ==
  ASSUME NEW s \in Seq(Int), NEW k \in 1..Len(s), \A i \in 1..Len(s) : i # k => s[i] = 0
  PROVE  SumOf(s) = s[k]
<1> DEFINE N == Len(s)
           p == PartialSums(s)
           T == {n \in 0..N : p[n] = IF n < k THEN 0 ELSE s[k]}
<1>1. N \in Nat /\ s \in [1..N -> Int] /\ k \in 1..N /\ \A i \in 1..N : i # k => s[i] = 0
  OBVIOUS
<1>2. /\ p \in [0..N -> Int] /\ p[0] = 0 /\ \A n \in 1..N : p[n] = p[n - 1] + s[n]
      /\ SumOf(s) = p[N]
  BY SumsOf
<1> HIDE DEF N, p
<1>3. 0 \in T
  BY <1>1, <1>2
<1>4. ASSUME NEW n \in 1..N, n - 1 \in T PROVE n \in T
  <2>1. /\ p[n] = p[n - 1] + s[n] /\ p[n - 1] = IF n - 1 < k THEN 0 ELSE s[k]
        /\ n # k => s[n] = 0
        /\ s[k] \in Int
    BY <1>1, <1>2, <1>4
  <2>2. CASE n < k
    <3>1. n - 1 < k /\ p[n] = 0 + 0
      BY <1>1, <2>1, <2>2
    <3> QED BY <1>1, <2>2, <3>1
  <2>3. CASE n = k
    BY <1>1, <2>1, <2>3
  <2>4. CASE n > k
    BY <1>1, <2>1, <2>4
  <2> QED BY <1>1, <2>2, <2>3, <2>4
<1>5. 0..N \subseteq T
  <2> HIDE DEF T
  <2> QED BY <1>1, <1>3, <1>4, UpTo
<1> QED BY <1>1, <1>2, <1>5

\* What comes last is added.
LEMMA SumAppend ==
  ASSUME NEW s \in Seq(Int), NEW c \in Int
  PROVE  SumOf(Append(s, c)) = SumOf(s) + c
<1> DEFINE N == Len(s)
           t == Append(s, c)
           p == PartialSums(s)
           q == PartialSums(t)
           T == {n \in 0..N : q[n] = p[n]}
<1>1. /\ N \in Nat /\ s \in [1..N -> Int]
      /\ t \in Seq(Int) /\ Len(t) = N + 1 /\ t[N + 1] = c /\ \A i \in 1..N : t[i] = s[i]
  OBVIOUS
<1> HIDE DEF t
<1>2. /\ p \in [0..N -> Int] /\ p[0] = 0 /\ \A n \in 1..N : p[n] = p[n - 1] + s[n]
      /\ q \in [0..N + 1 -> Int] /\ q[0] = 0 /\ \A n \in 1..N + 1 : q[n] = q[n - 1] + t[n]
      /\ SumOf(s) = p[N] /\ SumOf(t) = q[N + 1]
  BY <1>1, SumsOf
<1> HIDE DEF N, p, q
<1>3. 0 \in T
  BY <1>1, <1>2
<1>4. ASSUME NEW n \in 1..N, n - 1 \in T PROVE n \in T
  BY <1>1, <1>2, <1>4
<1>5. 0..N \subseteq T
  <2> HIDE DEF T
  <2> QED BY <1>1, <1>3, <1>4, UpTo
<1>6. SumOf(t) = SumOf(s) + c
  BY <1>1, <1>2, <1>5
<1> QED BY <1>6 DEF t

\* What comes first is left out of the tail.
LEMMA SumTail ==
  ASSUME NEW s \in Seq(Int), s # <<>>
  PROVE  SumOf(Tail(s)) = SumOf(s) - s[1]
<1> DEFINE N == Len(s) - 1
           t == Tail(s)
           p == PartialSums(s)
           q == PartialSums(t)
           T == {n \in 0..N : q[n] = p[n + 1] - s[1]}
<1>1. /\ N \in Nat /\ Len(s) = N + 1 /\ s \in [1..N + 1 -> Int]
      /\ t \in Seq(Int) /\ Len(t) = N /\ \A i \in 1..N : t[i] = s[i + 1]
  OBVIOUS
<1> HIDE DEF t
<1>2. /\ p \in [0..N + 1 -> Int] /\ p[0] = 0 /\ \A n \in 1..N + 1 : p[n] = p[n - 1] + s[n]
      /\ q \in [0..N -> Int] /\ q[0] = 0 /\ \A n \in 1..N : q[n] = q[n - 1] + t[n]
      /\ SumOf(s) = p[N + 1] /\ SumOf(t) = q[N]
  BY <1>1, SumsOf
<1> HIDE DEF N, p, q
<1>3. 0 \in T
  <2>1. p[1] = p[0] + s[1] /\ s[1] \in Int
    BY <1>1, <1>2
  <2> QED BY <1>1, <1>2, <2>1
<1>4. ASSUME NEW n \in 1..N, n - 1 \in T PROVE n \in T
  <2> DEFINE m == n + 1
  <2>1. m \in 1..N + 1 /\ m - 1 = n /\ n \in 0..N + 1
    BY <1>1
  <2> HIDE DEF m
  <2>2. p[m] = p[n] + s[m]
    <3>1. p[m] = p[m - 1] + s[m]
      BY <1>2, <2>1
    <3> QED BY <2>1, <3>1
  <2>5. p[n] \in Int /\ s[m] \in Int /\ s[1] \in Int
    <3>1. 1 \in 1..N + 1
      BY <1>1
    <3>2. p[n] \in Int
      BY <1>2, <2>1
    <3> QED BY <1>1, <2>1, <3>1, <3>2
  <2>3. q[n] = q[n - 1] + s[n + 1] /\ q[n - 1] = p[n - 1 + 1] - s[1]
    BY <1>1, <1>2, <1>4
  <2>4. n - 1 + 1 = n
    OBVIOUS
  <2> QED BY <2>2, <2>3, <2>4, <2>5 DEF m
<1>5. 0..N \subseteq T
  <2> HIDE DEF T
  <2> QED BY <1>1, <1>3, <1>4, UpTo
<1>6. SumOf(t) = SumOf(s) - s[1]
  BY <1>1, <1>2, <1>5
<1> QED BY <1>6 DEF t

LEMMA LastNIs ==
  ASSUME NEW s \in Seq(Int), NEW n \in 1..Len(s)
  PROVE  /\ LastN(s, n) \in Seq(Int) /\ Len(LastN(s, n)) = n
         /\ \A i \in 1..n : LastN(s, n)[i] = s[Len(s) - n + i]
BY DEF LastN

\* A window of n that moves on by one takes in the new close and gives up the one
\* that is n closes old.
LEMMA WindowMoves ==
  ASSUME NEW s \in Seq(Int), NEW c \in Int, NEW n \in 1..Len(s)
  PROVE  SumOf(LastN(Append(s, c), n)) = SumOf(LastN(s, n)) + c - s[Len(s) - n + 1]
<1> DEFINE w == LastN(s, n)
           v == Append(w, c)
<1>1. w \in Seq(Int) /\ Len(w) = n /\ \A i \in 1..n : w[i] = s[Len(s) - n + i]
  BY DEF LastN
<1>2. v \in Seq(Int) /\ Len(v) = n + 1 /\ v[n + 1] = c /\ (\A i \in 1..n : v[i] = w[i]) /\ v # <<>>
  <2> HIDE DEF w
  <2>1. v \in Seq(Int) /\ Len(v) = n + 1 /\ v[n + 1] = c
    BY <1>1
  <2>2. ASSUME NEW i \in 1..n PROVE v[i] = w[i]
    BY <1>1
  <2>3. v # <<>>
    BY <2>1
  <2> QED BY <2>1, <2>2, <2>3
<1>3. LastN(Append(s, c), n) = Tail(v)
  <2> DEFINE e == Append(s, c)
  <2>0. e \in Seq(Int) /\ Len(e) = Len(s) + 1 /\ e[Len(s) + 1] = c /\ \A i \in 1..Len(s) : e[i] = s[i]
    OBVIOUS
  <2> HIDE DEF e, v
  <2>1. /\ LastN(e, n) \in Seq(Int) /\ Len(LastN(e, n)) = n
        /\ \A i \in 1..n : LastN(e, n)[i] = e[Len(s) + 1 - n + i]
    <3>1. n \in 1..Len(e) /\ Len(e) - n = Len(s) + 1 - n /\ e \in Seq(Int)
      BY <2>0
    <3>2. /\ LastN(e, n) \in Seq(Int) /\ Len(LastN(e, n)) = n
          /\ \A i \in 1..n : LastN(e, n)[i] = e[Len(e) - n + i]
      BY ONLY <3>1, LastNIs
    <3> QED BY ONLY <3>1, <3>2
  <2>2. Tail(v) \in Seq(Int) /\ Len(Tail(v)) = n /\ \A i \in 1..n : Tail(v)[i] = v[i + 1]
    BY <1>2
  <2>3. ASSUME NEW i \in 1..n PROVE LastN(e, n)[i] = Tail(v)[i]
    <3>1. CASE i = n
      <4>1. Len(s) + 1 - n + i = Len(s) + 1 /\ i + 1 = n + 1
        BY <3>1
      <4> QED BY <1>2, <2>0, <2>1, <2>2, <4>1
    <3>2. CASE i < n
      <4>1. /\ i + 1 \in 1..n /\ Len(s) + 1 - n + i \in 1..Len(s)
            /\ Len(s) - n + (i + 1) = Len(s) + 1 - n + i
        BY <3>2
      <4>2. Tail(v)[i] = s[Len(s) - n + (i + 1)]
        BY <1>1, <1>2, <2>2, <4>1
      <4> QED BY <2>0, <2>1, <4>1, <4>2
    <3>3. n \in Nat
      OBVIOUS
    <3>4. i = n \/ i < n
      BY ONLY <3>3, i \in 1..n
    <3> QED BY ONLY <3>1, <3>2, <3>4
  <2>4. LastN(e, n) = Tail(v)
    <3> DEFINE f == LastN(e, n)
               g == Tail(v)
    <3>1. f \in [1..n -> Int] /\ g \in [1..n -> Int]
      <4> HIDE DEF f, g
      <4>1. f \in Seq(Int) /\ Len(f) = n /\ g \in Seq(Int) /\ Len(g) = n
        BY <2>1, <2>2 DEF f, g
      <4> QED BY <4>1
    <3>2. \A i \in 1..n : f[i] = g[i]
      BY <2>3
    <3> HIDE DEF f, g
    <3>3. f = g
      BY <3>1, <3>2
    <3> QED BY <3>3 DEF f, g
  <2> QED BY <2>4 DEF e
<1>4. v[1] = s[Len(s) - n + 1]
  BY <1>1, <1>2
<1> HIDE DEF w
<1>5. SumOf(v) = SumOf(w) + c
  BY <1>1, SumAppend
<1>6. SumOf(w) \in Int /\ s[Len(s) - n + 1] \in Int
  BY <1>1, SumsOf
<1> HIDE DEF v
<1>7. SumOf(Tail(v)) = SumOf(v) - v[1]
  BY <1>2, SumTail
<1> QED BY <1>3, <1>4, <1>5, <1>6, <1>7 DEF w

-----------------------------------------------------------------------------
(* Totals over the symbols *)

\* Every symbol has one place in the sequence of the names.
LEMMA NamesAre ==
  /\ Len(Names) \in Nat \ {0} /\ Names \in [1..Len(Names) -> Symbols] /\ Names \in Seq(Symbols)
  /\ DOMAIN Names = 1..Len(Names)
  /\ \A s \in Symbols : \E i \in 1..Len(Names) : Names[i] = s
  /\ \A i, j \in 1..Len(Names) : Names[i] = Names[j] => i = j
  /\ Symbols # {}
<1>1. /\ Names \in Seq(Symbols) /\ Names # <<>>
      /\ \A i, j \in DOMAIN Names : Names[i] = Names[j] => i = j
  BY ReplayAssumption DEF IsInjective
<1>2. Len(Names) \in Nat \ {0} /\ Names \in [1..Len(Names) -> Symbols] /\ DOMAIN Names = 1..Len(Names)
  BY <1>1
<1>3. \A s \in Symbols : \E i \in 1..Len(Names) : Names[i] = s
  BY <1>2 DEF Symbols, Range
<1>4. 1 \in 1..Len(Names)
  BY <1>2
<1>5. Symbols # {}
  BY <1>2, <1>4
<1> QED BY <1>1, <1>2, <1>3, <1>5

\* The sequence that a total sums up.
LEMMA TotalIs ==
  ASSUME NEW f \in [Symbols -> Int]
  PROVE  LET q == [i \in DOMAIN Names |-> f[Names[i]]]
         IN /\ q \in Seq(Int) /\ Len(q) = Len(Names) /\ Total(f) = SumOf(q)
            /\ \A i \in 1..Len(Names) : q[i] = f[Names[i]]
            /\ Total(f) \in Int
<1> DEFINE q == [i \in DOMAIN Names |-> f[Names[i]]]
<1>1. q \in [1..Len(Names) -> Int] /\ \A i \in 1..Len(Names) : q[i] = f[Names[i]]
  BY NamesAre
<1>2. Total(f) = SumOf(q)
  BY DEF Total
<1> HIDE DEF q
<1>3. q \in Seq(Int) /\ Len(q) = Len(Names)
  BY <1>1, NamesAre
<1>4. Total(f) \in Int
  BY <1>2, <1>3, SumsOf
<1> QED BY <1>1, <1>2, <1>3, <1>4 DEF q

LEMMA TotalPlus ==
  ASSUME NEW f \in [Symbols -> Int], NEW g \in [Symbols -> Int], NEW h \in [Symbols -> Int],
         \A s \in Symbols : f[s] = g[s] + h[s]
  PROVE  Total(f) = Total(g) + Total(h)
<1> DEFINE q(k) == [i \in DOMAIN Names |-> k[Names[i]]]
<1> DEFINE a == q(f)
           b == q(g)
           c == q(h)
<1>1. /\ a \in Seq(Int) /\ Len(a) = Len(Names) /\ Total(f) = SumOf(a)
      /\ \A i \in 1..Len(Names) : a[i] = f[Names[i]]
  BY TotalIs
<1>2. /\ b \in Seq(Int) /\ Len(b) = Len(Names) /\ Total(g) = SumOf(b)
      /\ \A i \in 1..Len(Names) : b[i] = g[Names[i]]
  BY TotalIs
<1>3. /\ c \in Seq(Int) /\ Len(c) = Len(Names) /\ Total(h) = SumOf(c)
      /\ \A i \in 1..Len(Names) : c[i] = h[Names[i]]
  BY TotalIs
<1> HIDE DEF a, b, c
<1>4. \A i \in 1..Len(a) : a[i] = b[i] + c[i]
  BY <1>1, <1>2, <1>3, NamesAre
<1> QED BY <1>1, <1>2, <1>3, <1>4, SumPlus

LEMMA TotalSingle ==
  ASSUME NEW f \in [Symbols -> Int], NEW s \in Symbols, \A r \in Symbols \ {s} : f[r] = 0
  PROVE  Total(f) = f[s]
<1> DEFINE q == [i \in DOMAIN Names |-> f[Names[i]]]
<1>1. /\ q \in Seq(Int) /\ Len(q) = Len(Names) /\ Total(f) = SumOf(q)
      /\ \A i \in 1..Len(Names) : q[i] = f[Names[i]]
  BY TotalIs
<1> HIDE DEF q
<1>2. PICK k \in 1..Len(Names) : Names[k] = s
  BY NamesAre
<1>3. ASSUME NEW i \in 1..Len(q), i # k PROVE q[i] = 0
  <2>1. i \in 1..Len(Names) /\ q[i] = f[Names[i]]
    BY <1>1
  <2>2. Names[i] \in Symbols \ {s}
    BY <1>2, <1>3, <2>1, NamesAre
  <2> QED BY <2>1, <2>2
<1>4. q \in Seq(Int) /\ k \in 1..Len(q)
  BY <1>1
<1>5. SumOf(q) = q[k]
  BY ONLY <1>3, <1>4, SumSingle
<1>6. q[k] = f[s]
  BY <1>1, <1>2
<1> QED BY <1>1, <1>5, <1>6

\* A total moves with the one term that differs.
LEMMA TotalChange ==
  ASSUME NEW f \in [Symbols -> Int], NEW g \in [Symbols -> Int], NEW s \in Symbols,
         \A r \in Symbols \ {s} : f[r] = g[r]
  PROVE  Total(f) = Total(g) + f[s] - g[s]
<1> DEFINE d == [r \in Symbols |-> f[r] - g[r]]
<1>1. /\ d \in [Symbols -> Int] /\ d[s] = f[s] - g[s] /\ f[s] \in Int /\ g[s] \in Int
      /\ \A r \in Symbols : f[r] = g[r] + d[r]
      /\ \A r \in Symbols \ {s} : d[r] = 0
  OBVIOUS
<1> HIDE DEF d
<1>2. Total(d) = d[s]
  BY <1>1, TotalSingle
<1>3. Total(f) = Total(g) + Total(d)
  BY <1>1, TotalPlus
<1>4. Total(g) \in Int
  BY TotalIs
<1> QED BY <1>1, <1>2, <1>3, <1>4

-----------------------------------------------------------------------------
(* Values *)

LEMMA NumbersAre ==
  /\ LongWindow \in Nat /\ ShortWindow \in Nat /\ 0 < ShortWindow /\ ShortWindow < LongWindow
  /\ {Quantity, InitialCash, DayLength, MinHold, AtrPeriod, AtrMultiple} \subseteq Nat \ {0}
  /\ {Times, Early, CommissionRate, TaxRate} \subseteq Nat
BY ReplayAssumption

Position ==
  {p \in [quantity : {0, Quantity}, cost : Nat, realized : Int, completed : Nat, won : Nat,
          fees : Nat] : p.quantity = 0 => p.cost = 0}
Signals == {NoSignal} \cup [side : {"BUY", "SELL"}, price : Nat, quantity : {Quantity}]
Reasons == {"order", "position", "daily", "open", "cash"}
Books == [cash : Nat, pos : [Symbols -> Position], pending : [Symbols -> Signals],
          buys : [Days -> Nat], refused : [Symbols -> SUBSET Reasons],
          peak : Nat \ {0}, worst : Nat]

LEMMA PositionIs ==
  ASSUME NEW p \in Position
  PROVE  /\ p.quantity \in {0, Quantity} /\ p.cost \in Nat /\ p.realized \in Int
         /\ p.completed \in Nat /\ p.won \in Nat /\ p.fees \in Nat
         /\ p.quantity = 0 => p.cost = 0
         /\ Quantity \in Nat \ {0} /\ (p.quantity > 0 => p.quantity = Quantity)
         /\ p.quantity \in Nat
<1>1. Quantity \in Nat \ {0}
  BY NumbersAre
<1>2. /\ p.quantity \in {0, Quantity} /\ p.cost \in Nat /\ p.realized \in Int
      /\ p.completed \in Nat /\ p.won \in Nat /\ p.fees \in Nat
      /\ p.quantity = 0 => p.cost = 0
  BY DEF Position
<1> QED BY ONLY <1>1, <1>2

LEMMA Division ==
  ASSUME NEW a \in Nat, NEW b \in Nat, NEW d \in Nat \ {0}, a <= b
  PROVE  a \div d \in 0..(b \div d)
<1>1. a \div d \in Nat /\ b \div d \in Nat
  OBVIOUS
<1>2. d * (a \div d) <= a /\ b < d * (b \div d) + d
  OBVIOUS
<1>3. ASSUME b \div d < a \div d PROVE FALSE
  <2>1. b \div d + 1 <= a \div d
    BY <1>1, <1>3
  <2> DEFINE x == a \div d
             y == b \div d
  <2>2. x \in Nat /\ y \in Nat /\ y + 1 <= x /\ d * x <= a /\ b < d * y + d
    BY <1>1, <1>2, <2>1
  <2> HIDE DEF x, y
  <2>3. d * (y + 1) <= d * x
    BY <2>2
  <2>4. d * (y + 1) = d * y + d
    BY <2>2
  <2> QED BY <2>2, <2>3, <2>4
<1> QED BY <1>1, <1>3

\* The taxes and commissions of an order are less than the order.
LEMMA FeeIs ==
  ASSUME NEW side \in {"BUY", "SELL"}, NEW notional \in Nat
  PROVE  Fee(side, notional) \in Nat /\ Fee(side, notional) <= notional
<1> DEFINE c == notional * CommissionRate
           t == notional * TaxRate
<1>1. CommissionRate \in Nat /\ TaxRate \in Nat /\ CommissionRate + TaxRate <= 1000
  BY ReplayAssumption
<1>2. c \in Nat /\ t \in Nat
  BY <1>1
<1>3. c + t <= notional * 1000
  <2>1. c + t = notional * (CommissionRate + TaxRate)
    BY <1>1
  <2>2. notional * (CommissionRate + TaxRate) <= notional * 1000
    BY <1>1
  <2> QED BY <1>2, <2>1, <2>2
<1> HIDE DEF c, t
<1>4. /\ c \div 1000 \in Nat /\ t \div 1000 \in Nat
      /\ 1000 * (c \div 1000) <= c /\ 1000 * (t \div 1000) <= t
  BY <1>2
<1>5. Fee(side, notional) = c \div 1000 + (IF side = "SELL" THEN t \div 1000 ELSE 0)
  BY DEF Fee, c, t
<1>6. c \div 1000 + t \div 1000 <= notional
  BY <1>2, <1>3, <1>4
<1> QED BY <1>4, <1>5, <1>6

LEMMA SlippedIs ==
  ASSUME NEW side, NEW open \in Nat
  PROVE  Slipped(side, open) \in Nat
<1>1. Slippage \in 0..99
  BY ReplayAssumption
<1> DEFINE r == IF side = "BUY" THEN 100 + Slippage ELSE 100 - Slippage
<1>2. r \in Nat
  BY <1>1
<1>3. open * r \in Nat
  <2> HIDE DEF r
  <2> QED BY <1>2
<1>4. (open * r) \div 100 \in Nat
  <2> HIDE DEF r
  <2> QED BY <1>3
<1> QED BY <1>4 DEF Slipped

\* What a buy and a sale leave of a position.
LEMMA TradesAre ==
  ASSUME NEW p \in Position, NEW price \in Nat
  PROVE  /\ Needed(price) \in Nat
         /\ p.quantity = 0 => /\ Bought(p, price) \in Position
                              /\ Bought(p, price).quantity = Quantity
                              /\ Bought(p, price).cost = Needed(price)
                              /\ Bought(p, price).realized = p.realized
         /\ Proceeds(p, price) \in Nat
         /\ Sold(p, price) \in Position
         /\ Sold(p, price).quantity = 0 /\ Sold(p, price).cost = 0
         /\ Sold(p, price).realized = p.realized + Proceeds(p, price) - p.cost
<1>1. Quantity \in Nat \ {0}
  BY ReplayAssumption
<1>2. /\ p \in [quantity : {0, Quantity}, cost : Nat, realized : Int, completed : Nat, won : Nat,
                fees : Nat]
      /\ p.quantity \in Nat
  BY <1>1 DEF Position
<1>3. price * Quantity \in Nat /\ price * p.quantity \in Nat
  BY <1>1, <1>2
<1>4. Fee("BUY", price * Quantity) \in Nat
  BY <1>3, FeeIs
<1>5. /\ Fee("SELL", price * p.quantity) \in Nat
      /\ Fee("SELL", price * p.quantity) <= price * p.quantity
  BY <1>3, FeeIs
<1>6. Needed(price) \in Nat
  BY <1>3, <1>4 DEF Needed
<1>7. Proceeds(p, price) \in Nat
  BY <1>3, <1>5 DEF Proceeds
<1>8. p.quantity = 0 => /\ Bought(p, price) \in Position
                        /\ Bought(p, price).quantity = Quantity
                        /\ Bought(p, price).cost = Needed(price)
                        /\ Bought(p, price).realized = p.realized
  <2> DEFINE fee == Fee("BUY", price * Quantity)
             cost == price * Quantity + fee
  <2>1. fee \in Nat /\ cost \in Nat
    BY <1>3, <1>4
  <2> HIDE DEF fee, cost
  <2>4. Bought(p, price) = [p EXCEPT !.quantity = Quantity, !.cost = cost, !.fees = @ + fee]
    BY DEF Bought, fee, cost
  <2>2. Bought(p, price) = [quantity |-> Quantity, cost |-> cost, realized |-> p.realized,
                            completed |-> p.completed, won |-> p.won, fees |-> p.fees + fee]
    BY <1>2, <2>4
  <2>3. /\ Bought(p, price).quantity = Quantity /\ Bought(p, price).cost = cost
        /\ Bought(p, price).realized = p.realized
        /\ Bought(p, price) \in [quantity : {0, Quantity}, cost : Nat, realized : Int,
                                 completed : Nat, won : Nat, fees : Nat]
    BY <1>2, <2>1, <2>2
  <2> QED BY <1>1, <2>3 DEF Position, Needed, fee, cost
<1>9. /\ Sold(p, price) \in Position
      /\ Sold(p, price).quantity = 0 /\ Sold(p, price).cost = 0
      /\ Sold(p, price).realized = p.realized + Proceeds(p, price) - p.cost
  <2> DEFINE gain == IF Proceeds(p, price) > p.cost THEN 1 ELSE 0
             fee == Fee("SELL", price * p.quantity)
             new == p.realized + Proceeds(p, price) - p.cost
  <2>1. gain \in Nat /\ fee \in Nat /\ new \in Int
    BY <1>2, <1>5, <1>7
  <2>2. Sold(p, price) = [quantity |-> 0, cost |-> 0, realized |-> new, completed |-> p.completed + 1,
                          won |-> p.won + gain, fees |-> p.fees + fee]
    BY DEF Sold
  <2> HIDE DEF gain, fee, new
  <2>3. Sold(p, price) \in Position /\ Sold(p, price).quantity = 0 /\ Sold(p, price).cost = 0
        /\ Sold(p, price).realized = new
    BY <1>2, <2>1, <2>2 DEF Position
  <2> QED BY <2>3 DEF new
<1> QED BY <1>6, <1>7, <1>8, <1>9

-----------------------------------------------------------------------------
(* The order of one symbol *)

Today == now \div DayLength

\* A book after the order of s: its cash, the position, the buys and the refusals.
AfterOrder(b, s, cash, p, buys, denied) ==
  [cash |-> cash, pos |-> [b.pos EXCEPT ![s] = p], pending |-> [b.pending EXCEPT ![s] = NoSignal],
   buys |-> buys, refused |-> [b.refused EXCEPT ![s] = denied],
   peak |-> b.peak, worst |-> b.worst]

LEMMA SameBook ==
  ASSUME NEW b \in Books, NEW s \in Symbols, b.pending[s] = NoSignal
  PROVE  b = AfterOrder(b, s, b.cash, b.pos[s], b.buys, b.refused[s])
<1>1. /\ [b.pos EXCEPT ![s] = b.pos[s]] = b.pos
      /\ [b.pending EXCEPT ![s] = NoSignal] = b.pending
      /\ [b.refused EXCEPT ![s] = b.refused[s]] = b.refused
  BY DEF Books
<1>2. b = [cash |-> b.cash, pos |-> b.pos, pending |-> b.pending, buys |-> b.buys,
           refused |-> b.refused, peak |-> b.peak, worst |-> b.worst]
  BY DEF Books
<1> QED BY <1>1, <1>2 DEF AfterOrder

\* One field of a book written.
LEMMA BookEdits ==
  ASSUME NEW cash, NEW p, NEW q, NEW y, NEW r, NEW k, NEW w, NEW v, NEW b,
         b = [cash |-> cash, pos |-> p, pending |-> q, buys |-> y, refused |-> r, peak |-> k,
              worst |-> w]
  PROVE  /\ [b EXCEPT !.cash = v] = [cash |-> v, pos |-> p, pending |-> q, buys |-> y,
                                     refused |-> r, peak |-> k, worst |-> w]
         /\ [b EXCEPT !.pos = v] = [cash |-> cash, pos |-> v, pending |-> q, buys |-> y,
                                    refused |-> r, peak |-> k, worst |-> w]
         /\ [b EXCEPT !.buys = v] = [cash |-> cash, pos |-> p, pending |-> q, buys |-> v,
                                     refused |-> r, peak |-> k, worst |-> w]
         /\ [b EXCEPT !.refused = v] = [cash |-> cash, pos |-> p, pending |-> q, buys |-> y,
                                        refused |-> v, peak |-> k, worst |-> w]
OBVIOUS

\* The six ways an order goes.
LEMMA FilledIs ==
  ASSUME NEW b \in Books, NEW s \in Symbols, NEW c, Candle(c), Today \in Days
  PROVE  LET signal == b.pending[s]
             p == b.pos[s]
             price == Slipped(signal.side, c.open)
             barred == Rejections(b, s, signal)
         IN \/ /\ signal = NoSignal
               /\ Filled(b, s, c) = AfterOrder(b, s, b.cash, p, b.buys, b.refused[s])
            \/ /\ signal # NoSignal /\ barred # {}
               /\ Filled(b, s, c) = AfterOrder(b, s, b.cash, p, b.buys, b.refused[s] \cup barred)
            \/ /\ signal # NoSignal /\ barred = {} /\ signal.side = "BUY" /\ p.quantity = 0
               /\ Needed(price) > b.cash
               /\ Filled(b, s, c) = AfterOrder(b, s, b.cash, p, b.buys, b.refused[s] \cup {"cash"})
            \/ /\ signal # NoSignal /\ barred = {} /\ signal.side = "BUY" /\ p.quantity = 0
               /\ Needed(price) <= b.cash
               /\ Filled(b, s, c) = AfterOrder(b, s, b.cash - Needed(price), Bought(p, price),
                                          [b.buys EXCEPT ![Today] = @ + 1], b.refused[s])
            \/ /\ signal # NoSignal /\ barred = {} /\ signal.side = "SELL" /\ p.quantity > 0
               /\ Filled(b, s, c) = AfterOrder(b, s, b.cash + Proceeds(p, price), Sold(p, price),
                                          b.buys, b.refused[s])
            \/ /\ signal # NoSignal /\ barred = {}
               /\ ~(signal.side = "BUY" /\ p.quantity = 0)
               /\ ~(signal.side = "SELL" /\ p.quantity > 0)
               /\ Filled(b, s, c) = AfterOrder(b, s, b.cash, p, b.buys, b.refused[s])
<1> DEFINE signal == b.pending[s]
           p == b.pos[s]
           price == Slipped(signal.side, c.open)
           barred == Rejections(b, s, signal)
           taken == [b EXCEPT !.pending[s] = NoSignal]
<1> HIDE DEF barred, price
<1>0. /\ b = [cash |-> b.cash, pos |-> b.pos, pending |-> b.pending, buys |-> b.buys,
              refused |-> b.refused, peak |-> b.peak, worst |-> b.worst]
      /\ p \in Position /\ p.quantity \in Nat /\ b.cash \in Nat /\ Needed(price) \in Nat
      /\ b.pos \in [Symbols -> Position] /\ b.refused \in [Symbols -> SUBSET Reasons]
      /\ b.buys \in [Days -> Nat]
  <2>1. p \in Position /\ p.quantity \in Nat /\ b.cash \in Nat
    BY PositionIs DEF Books
  <2>2. price \in Nat
    BY SlippedIs DEF Candle, price
  <2>3. Needed(price) \in Nat
    BY <2>1, <2>2, TradesAre
  <2> QED BY <2>1, <2>3 DEF Books
<1>1. taken = [cash |-> b.cash, pos |-> b.pos, pending |-> [b.pending EXCEPT ![s] = NoSignal],
               buys |-> b.buys, refused |-> b.refused, peak |-> b.peak, worst |-> b.worst]
  BY <1>0
<1>2. /\ [b.pos EXCEPT ![s] = p] = b.pos
      /\ [b.refused EXCEPT ![s] = b.refused[s]] = b.refused
  BY <1>0
<1>3. taken = AfterOrder(b, s, b.cash, p, b.buys, b.refused[s])
  BY <1>1, <1>2 DEF AfterOrder
<1> HIDE DEF taken
<1>4. ASSUME NEW more
      PROVE  [taken EXCEPT !.refused[s] = @ \cup more]
               = AfterOrder(b, s, b.cash, p, b.buys, b.refused[s] \cup more)
  <2> DEFINE denied == [b.refused EXCEPT ![s] = b.refused[s] \cup more]
  <2>1. [taken EXCEPT !.refused = [taken.refused EXCEPT ![s] = taken.refused[s] \cup more]]
          = [taken EXCEPT !.refused = denied]
    BY <1>1
  <2> HIDE DEF denied
  <2>2. [taken EXCEPT !.refused = denied]
          = [cash |-> b.cash, pos |-> b.pos, pending |-> [b.pending EXCEPT ![s] = NoSignal],
             buys |-> b.buys, refused |-> denied, peak |-> b.peak, worst |-> b.worst]
    BY <1>1, BookEdits
  <2> QED BY <1>2, <2>1, <2>2 DEF AfterOrder, denied
<1>5. CASE signal = NoSignal
  <2>1. Filled(b, s, c) = b
    BY <1>5 DEF Filled
  <2> QED BY <1>5, <2>1, SameBook
<1>6. CASE signal # NoSignal /\ barred # {}
  <2>1. Filled(b, s, c) = [taken EXCEPT !.refused[s] = @ \cup barred]
    BY <1>6 DEF Filled, barred, taken
  <2> QED BY <1>4, <1>6, <2>1 DEF barred, price
<1>7. CASE signal # NoSignal /\ barred = {}
  <2>1. Filled(b, s, c) = Executed(taken, s, signal.side, c.open)
    BY <1>7 DEF Filled, barred, taken
  <2>2. taken.pos[s] = p /\ taken.cash = b.cash
    BY <1>1
  <2>3. CASE signal.side = "BUY" /\ p.quantity = 0 /\ Needed(price) > b.cash
    <3>0. ~(Needed(price) <= b.cash)
      BY <1>0, <2>3
    <3>1. Executed(taken, s, signal.side, c.open) = [taken EXCEPT !.refused[s] = @ \cup {"cash"}]
      BY <2>2, <2>3, <3>0 DEF Executed, price
    <3> QED BY <1>4, <1>7, <2>1, <2>3, <3>1 DEF barred, price
  <2>4. CASE signal.side = "BUY" /\ p.quantity = 0 /\ Needed(price) <= b.cash
    <3>1. ~(Needed(price) > b.cash)
      BY <1>0, <2>4
    <3>2. Executed(taken, s, signal.side, c.open)
            = [taken EXCEPT !.cash = @ - Needed(price), !.pos[s] = Bought(p, price),
                            !.buys[Today] = @ + 1]
      BY <2>2, <2>4, <3>1 DEF Executed, price, Today
    <3>3. [taken EXCEPT !.cash = @ - Needed(price), !.pos[s] = Bought(p, price),
                        !.buys[Today] = @ + 1]
            = AfterOrder(b, s, b.cash - Needed(price), Bought(p, price),
                    [b.buys EXCEPT ![Today] = @ + 1], b.refused[s])
      <4> DEFINE cash == b.cash - Needed(price)
                 pos == [b.pos EXCEPT ![s] = Bought(p, price)]
                 buys == [b.buys EXCEPT ![Today] = b.buys[Today] + 1]
                 paid == [taken EXCEPT !.cash = cash]
                 held == [paid EXCEPT !.pos = pos]
      <4>1. [taken EXCEPT !.cash = @ - Needed(price), !.pos[s] = Bought(p, price),
                          !.buys[Today] = @ + 1]
              = [held EXCEPT !.buys = buys]
        BY <1>1
      <4> HIDE DEF cash, pos, buys
      <4>2. paid = [cash |-> cash, pos |-> b.pos, pending |-> [b.pending EXCEPT ![s] = NoSignal],
                    buys |-> b.buys, refused |-> b.refused, peak |-> b.peak, worst |-> b.worst]
        BY <1>1, BookEdits
      <4> HIDE DEF paid
      <4>3. held = [cash |-> cash, pos |-> pos, pending |-> [b.pending EXCEPT ![s] = NoSignal],
                    buys |-> b.buys, refused |-> b.refused, peak |-> b.peak, worst |-> b.worst]
        BY <4>2, BookEdits
      <4> HIDE DEF held
      <4>4. [held EXCEPT !.buys = buys]
              = [cash |-> cash, pos |-> pos, pending |-> [b.pending EXCEPT ![s] = NoSignal],
                 buys |-> buys, refused |-> b.refused, peak |-> b.peak, worst |-> b.worst]
        BY <4>3, BookEdits
      <4> QED BY <1>2, <4>1, <4>4 DEF AfterOrder, cash, pos, buys
    <3> QED BY <1>7, <2>1, <2>4, <3>2, <3>3 DEF barred, price
  <2>5. CASE signal.side = "SELL" /\ p.quantity > 0
    <3>1. Executed(taken, s, signal.side, c.open)
            = [taken EXCEPT !.cash = @ + Proceeds(p, price), !.pos[s] = Sold(p, price)]
      BY <2>2, <2>5 DEF Executed, price
    <3>2. [taken EXCEPT !.cash = @ + Proceeds(p, price), !.pos[s] = Sold(p, price)]
            = AfterOrder(b, s, b.cash + Proceeds(p, price), Sold(p, price), b.buys, b.refused[s])
      <4> DEFINE cash == b.cash + Proceeds(p, price)
                 pos == [b.pos EXCEPT ![s] = Sold(p, price)]
                 paid == [taken EXCEPT !.cash = cash]
      <4>1. [taken EXCEPT !.cash = @ + Proceeds(p, price), !.pos[s] = Sold(p, price)]
              = [paid EXCEPT !.pos = pos]
        BY <1>1
      <4> HIDE DEF cash, pos
      <4>2. paid = [cash |-> cash, pos |-> b.pos, pending |-> [b.pending EXCEPT ![s] = NoSignal],
                    buys |-> b.buys, refused |-> b.refused, peak |-> b.peak, worst |-> b.worst]
        BY <1>1, BookEdits
      <4> HIDE DEF paid
      <4>3. [paid EXCEPT !.pos = pos]
              = [cash |-> cash, pos |-> pos, pending |-> [b.pending EXCEPT ![s] = NoSignal],
                 buys |-> b.buys, refused |-> b.refused, peak |-> b.peak, worst |-> b.worst]
        BY <4>2, BookEdits
      <4> QED BY <1>2, <4>1, <4>3 DEF AfterOrder, cash, pos
    <3> QED BY <1>7, <2>1, <2>5, <3>1, <3>2 DEF barred, price
  <2>6. CASE ~(signal.side = "BUY" /\ p.quantity = 0) /\ ~(signal.side = "SELL" /\ p.quantity > 0)
    <3>1. Executed(taken, s, signal.side, c.open) = taken
      BY <2>2, <2>6 DEF Executed, price
    <3> QED BY <1>3, <1>7, <2>1, <2>6, <3>1 DEF barred, price
  <2>7. Needed(price) > b.cash \/ Needed(price) <= b.cash
    BY <1>0
  <2> QED BY <2>3, <2>4, <2>5, <2>6, <2>7
<1> QED BY <1>5, <1>6, <1>7

\* What an order that meets no limit leaves room for, and what stops a sale.
LEMMA RejectionsAre ==
  ASSUME NEW b \in Books, NEW s \in Symbols, NEW signal \in Signals, limits \in Limits, Today \in Days
  PROVE  /\ Rejections(b, s, signal) \subseteq Reasons
         /\ signal.side = "SELL" /\ Rejections(b, s, signal) # {}
              => "order" \in Rejections(b, s, signal)
         /\ signal.side = "BUY" /\ Rejections(b, s, signal) = {}
              => /\ b.buys[Today] < limits.daily
                 /\ b.pos[s].quantity = 0 => ~(OpenPositions(b) >= limits.open)
<1> DEFINE notional == signal.price * signal.quantity
           buying == signal.side = "BUY"
           order == notional > limits.order
           position == buying /\ b.pos[s].quantity * signal.price + notional > limits.position
           daily == buying /\ b.buys[Today] >= limits.daily
           open == buying /\ b.pos[s].quantity <= 0 /\ OpenPositions(b) >= limits.open
           rejected == [order |-> order, position |-> position, daily |-> daily, open |-> open]
           R == {name \in DOMAIN rejected : rejected[name]}
<1>1. Rejections(b, s, signal) = R
  BY DEF Rejections, Today
<1> HIDE DEF order, position, daily, open
<1>2. DOMAIN rejected = {"order", "position", "daily", "open"}
  OBVIOUS
<1>3. /\ rejected["order"] = order /\ rejected["position"] = position
      /\ rejected["daily"] = daily /\ rejected["open"] = open
  OBVIOUS
<1> HIDE DEF rejected
<1>4. R \subseteq Reasons
  BY <1>2 DEF Reasons
<1>5. ASSUME signal.side = "SELL", R # {} PROVE "order" \in R
  <2>1. ~position /\ ~daily /\ ~open
    BY <1>5 DEF position, daily, open
  <2> QED BY <1>2, <1>3, <1>5, <2>1
<1>6. ASSUME signal.side = "BUY", R = {}
      PROVE  /\ b.buys[Today] < limits.daily
             /\ b.pos[s].quantity = 0 => ~(OpenPositions(b) >= limits.open)
  <2>1. ~daily /\ ~open
    BY <1>2, <1>3, <1>6
  <2>2. b.buys[Today] \in Nat /\ limits.daily \in Nat
    BY ReplayAssumption DEF Books
  <2> QED BY <1>6, <2>1, <2>2 DEF daily, open
<1> QED BY <1>1, <1>4, <1>5, <1>6

\* What an order does to the position of its symbol, and what it leaves refused.
Outcome(p, signal, denied, open, q, refused) ==
  \/ /\ signal.side = "BUY" /\ p.quantity = 0
     /\ q = Bought(p, Slipped("BUY", open)) /\ refused = denied
  \/ /\ signal.side = "SELL" /\ p.quantity > 0
     /\ q = Sold(p, Slipped("SELL", open)) /\ refused = denied
  \/ /\ q = p /\ refused # {} /\ denied \subseteq refused
     /\ signal.side = "SELL" => "order" \in refused
  \/ /\ q = p /\ refused = denied
     /\ ~(signal.side = "BUY" /\ p.quantity = 0) /\ ~(signal.side = "SELL" /\ p.quantity > 0)

LEMMA FilledOutcome ==
  ASSUME NEW b \in Books, NEW s \in Symbols, NEW c, Candle(c), limits \in Limits, Today \in Days
  PROVE  Outcome(b.pos[s], b.pending[s], b.refused[s], c.open,
                 Filled(b, s, c).pos[s], Filled(b, s, c).refused[s])
<1> DEFINE signal == b.pending[s]
           p == b.pos[s]
           n == Filled(b, s, c)
<1>1. signal \in Signals /\ b.pos \in [Symbols -> Position]
      /\ b.refused \in [Symbols -> SUBSET Reasons]
  BY DEF Books
<1>2. ASSUME NEW cash, NEW q, NEW buys, NEW denied, n = AfterOrder(b, s, cash, q, buys, denied)
      PROVE  n.pos[s] = q /\ n.refused[s] = denied
  BY <1>1, <1>2 DEF AfterOrder
<1> DEFINE barred == Rejections(b, s, signal)
           price == Slipped(signal.side, c.open)
<1> HIDE DEF n, barred, price
<1>3. CASE signal = NoSignal /\ n = AfterOrder(b, s, b.cash, p, b.buys, b.refused[s])
  BY <1>2, <1>3 DEF Outcome, NoSignal, None, n
<1>4. CASE signal # NoSignal /\ barred # {}
           /\ n = AfterOrder(b, s, b.cash, p, b.buys, b.refused[s] \cup barred)
  <2>1. signal.side = "SELL" => "order" \in barred
    BY <1>1, <1>4, RejectionsAre DEF barred
  <2>2. n.pos[s] = p /\ n.refused[s] = b.refused[s] \cup barred
    BY <1>2, <1>4
  <2>3. n.refused[s] # {} /\ b.refused[s] \subseteq n.refused[s]
        /\ (signal.side = "SELL" => "order" \in n.refused[s])
    BY <1>4, <2>1, <2>2
  <2> QED BY <2>2, <2>3 DEF Outcome, n
<1>5. CASE signal.side = "BUY"
           /\ n = AfterOrder(b, s, b.cash, p, b.buys, b.refused[s] \cup {"cash"})
  <2>1. n.pos[s] = p /\ n.refused[s] = b.refused[s] \cup {"cash"}
    BY <1>2, <1>5
  <2>2. n.refused[s] # {} /\ b.refused[s] \subseteq n.refused[s] /\ signal.side # "SELL"
    BY <1>5, <2>1
  <2> QED BY <2>1, <2>2 DEF Outcome, n
<1>6. CASE signal.side = "BUY" /\ p.quantity = 0
           /\ n = AfterOrder(b, s, b.cash - Needed(price), Bought(p, price),
                        [b.buys EXCEPT ![Today] = @ + 1], b.refused[s])
  <2>1. n.pos[s] = Bought(p, price) /\ n.refused[s] = b.refused[s]
    BY <1>2, <1>6
  <2> QED BY <1>6, <2>1 DEF Outcome, n, price
<1>7. CASE signal.side = "SELL" /\ p.quantity > 0
           /\ n = AfterOrder(b, s, b.cash + Proceeds(p, price), Sold(p, price), b.buys, b.refused[s])
  <2>1. n.pos[s] = Sold(p, price) /\ n.refused[s] = b.refused[s]
    BY <1>2, <1>7
  <2> QED BY <1>7, <2>1 DEF Outcome, n, price
<1>8. CASE ~(signal.side = "BUY" /\ p.quantity = 0) /\ ~(signal.side = "SELL" /\ p.quantity > 0)
           /\ n = AfterOrder(b, s, b.cash, p, b.buys, b.refused[s])
  <2>1. n.pos[s] = p /\ n.refused[s] = b.refused[s]
    BY <1>2, <1>8
  <2> QED BY <1>8, <2>1 DEF Outcome, n
<1> QED BY <1>3, <1>4, <1>5, <1>6, <1>7, <1>8, FilledIs DEF n, barred, price

-----------------------------------------------------------------------------
(* The books *)

Flow(b) == [s \in Symbols |-> b.pos[s].realized - b.pos[s].cost]
Holding(b) == {s \in Symbols : b.pos[s].quantity > 0}

\* The cash is what was there at first and what the positions brought and cost;
\* the limits hold.
BookInv(b) ==
  /\ b \in Books
  /\ b.cash = InitialCash + Total(Flow(b))
  /\ OpenPositions(b) <= limits.open
  /\ \A d \in Days : b.buys[d] <= limits.daily

LEMMA HoldingIs ==
  ASSUME NEW b
  PROVE  IsFiniteSet(Holding(b)) /\ OpenPositions(b) = Cardinality(Holding(b)) /\ OpenPositions(b) \in Nat
<1>1. IsFiniteSet(Symbols)
  <2>1. IsFiniteSet(1..Len(Names))
    BY NamesAre, FS_Interval
  <2>2. Names \in Surjection(1..Len(Names), Symbols)
    BY NamesAre DEF Surjection
  <2> QED BY <2>1, <2>2, FS_Surjection
<1>2. IsFiniteSet(Holding(b))
  BY <1>1, FS_Subset DEF Holding
<1>3. OpenPositions(b) = Cardinality(Holding(b))
  BY DEF OpenPositions, Holding
<1> QED BY <1>2, <1>3, FS_CardinalityType

LEMMA FlowIs ==
  ASSUME NEW b \in Books
  PROVE  Flow(b) \in [Symbols -> Int] /\ Total(Flow(b)) \in Int
<1>1. \A s \in Symbols : b.pos[s].realized \in Int /\ b.pos[s].cost \in Int
  BY DEF Books, Position
<1>2. Flow(b) \in [Symbols -> Int]
  BY <1>1 DEF Flow
<1> QED BY <1>2, TotalIs

\* What an order leaves of the books.
LEMMA AfterIs ==
  ASSUME NEW b \in Books, NEW s \in Symbols, NEW cash \in Nat, NEW p \in Position,
         NEW buys \in [Days -> Nat], NEW denied \in SUBSET Reasons
  PROVE  LET n == AfterOrder(b, s, cash, p, buys, denied)
         IN /\ n \in Books
            /\ n.pos[s] = p /\ n.pending[s] = NoSignal /\ n.refused[s] = denied
            /\ n.cash = cash /\ n.buys = buys /\ n.peak = b.peak /\ n.worst = b.worst
            /\ \A r \in Symbols \ {s} : /\ n.pos[r] = b.pos[r] /\ n.pending[r] = b.pending[r]
                                        /\ n.refused[r] = b.refused[r]
            /\ Total(Flow(n)) = Total(Flow(b)) + (p.realized - p.cost)
                                  - (b.pos[s].realized - b.pos[s].cost)
            /\ OpenPositions(n) <= OpenPositions(b) + 1
            /\ p.quantity = 0 \/ b.pos[s].quantity > 0 => OpenPositions(n) <= OpenPositions(b)
<1> DEFINE n == AfterOrder(b, s, cash, p, buys, denied)
<1>1. /\ b.pos \in [Symbols -> Position] /\ b.pending \in [Symbols -> Signals]
      /\ b.refused \in [Symbols -> SUBSET Reasons] /\ b.peak \in Nat \ {0} /\ b.worst \in Nat
  BY DEF Books
<1>2. NoSignal \in Signals
  BY DEF Signals
<1>3. n \in Books
  BY <1>1, <1>2 DEF AfterOrder, Books
<1>4. /\ n.pos[s] = p /\ n.pending[s] = NoSignal /\ n.refused[s] = denied
      /\ n.cash = cash /\ n.buys = buys /\ n.peak = b.peak /\ n.worst = b.worst
      /\ \A r \in Symbols \ {s} : /\ n.pos[r] = b.pos[r] /\ n.pending[r] = b.pending[r]
                                  /\ n.refused[r] = b.refused[r]
  BY <1>1 DEF AfterOrder
<1> HIDE DEF n
<1>5. Total(Flow(n)) = Total(Flow(b)) + (p.realized - p.cost)
                         - (b.pos[s].realized - b.pos[s].cost)
  <2>1. Flow(n) \in [Symbols -> Int] /\ Flow(b) \in [Symbols -> Int]
    BY <1>3, FlowIs
  <2>2. \A r \in Symbols \ {s} : Flow(n)[r] = Flow(b)[r]
    BY <1>4 DEF Flow
  <2>3. Flow(n)[s] = p.realized - p.cost /\ Flow(b)[s] = b.pos[s].realized - b.pos[s].cost
    BY <1>4 DEF Flow
  <2> QED BY <2>1, <2>2, <2>3, TotalChange
<1>6. Holding(n) \subseteq Holding(b) \cup {s}
  BY <1>4 DEF Holding
<1>7. /\ IsFiniteSet(Holding(b)) /\ OpenPositions(b) = Cardinality(Holding(b)) /\ OpenPositions(b) \in Nat
      /\ OpenPositions(n) = Cardinality(Holding(n)) /\ OpenPositions(n) \in Nat
  BY HoldingIs
<1>8. OpenPositions(n) <= OpenPositions(b) + 1
  <2>1. /\ IsFiniteSet(Holding(b) \cup {s})
        /\ Cardinality(Holding(b) \cup {s}) = Cardinality(Holding(b))
             \/ Cardinality(Holding(b) \cup {s}) = Cardinality(Holding(b)) + 1
    BY <1>7, FS_AddElement
  <2>2. Cardinality(Holding(n)) <= Cardinality(Holding(b) \cup {s})
    BY <1>6, <2>1, FS_Subset
  <2> QED BY <1>7, <2>1, <2>2
<1>9. ASSUME p.quantity = 0 \/ b.pos[s].quantity > 0 PROVE OpenPositions(n) <= OpenPositions(b)
  <2>1. Holding(n) \subseteq Holding(b)
    BY <1>4, <1>6, <1>9 DEF Holding
  <2> QED BY <1>7, <2>1, FS_Subset
<1> QED BY <1>3, <1>4, <1>5, <1>8, <1>9 DEF n

\* An order keeps the books, and touches no other symbol.
LEMMA OrderKeepsBooks ==
  ASSUME NEW b, BookInv(b), NEW s \in Symbols, NEW c, Candle(c), limits \in Limits, Today \in Days
  PROVE  LET n == Filled(b, s, c)
         IN /\ BookInv(n)
            /\ n.pending[s] = NoSignal /\ n.peak = b.peak /\ n.worst = b.worst
            /\ \A r \in Symbols \ {s} : /\ n.pos[r] = b.pos[r] /\ n.pending[r] = b.pending[r]
                                        /\ n.refused[r] = b.refused[r]
<1> DEFINE n == Filled(b, s, c)
           signal == b.pending[s]
           p == b.pos[s]
           price == Slipped(signal.side, c.open)
           barred == Rejections(b, s, signal)
<1>1. /\ b \in Books /\ b.cash = InitialCash + Total(Flow(b)) /\ OpenPositions(b) <= limits.open
      /\ \A d \in Days : b.buys[d] <= limits.daily
  BY DEF BookInv
<1>2. /\ signal \in Signals /\ p \in Position /\ b.cash \in Nat /\ b.buys \in [Days -> Nat]
      /\ b.refused[s] \in SUBSET Reasons
      /\ p.quantity \in Nat /\ p.realized \in Int /\ p.cost \in Nat
  BY <1>1, PositionIs DEF Books
<1>3. /\ limits.open \in Nat /\ limits.daily \in Nat /\ InitialCash \in Nat
      /\ Total(Flow(b)) \in Int /\ OpenPositions(b) \in Nat
  BY <1>1, ReplayAssumption, FlowIs, HoldingIs
<1>4. price \in Nat
  BY SlippedIs DEF Candle
<1>5. barred \subseteq Reasons
  BY <1>1, <1>2, RejectionsAre
<1> HIDE DEF barred, price, n
<1> DEFINE Frame == /\ n.pending[s] = NoSignal /\ n.peak = b.peak /\ n.worst = b.worst
                    /\ \A r \in Symbols \ {s} : /\ n.pos[r] = b.pos[r]
                                                /\ n.pending[r] = b.pending[r]
                                                /\ n.refused[r] = b.refused[r]
<1>6. ASSUME NEW denied \in SUBSET Reasons, n = AfterOrder(b, s, b.cash, p, b.buys, denied)
      PROVE  BookInv(n) /\ Frame
  <2>1. /\ n \in Books /\ Frame /\ n.cash = b.cash /\ n.buys = b.buys
        /\ Total(Flow(n)) = Total(Flow(b)) + (p.realized - p.cost) - (p.realized - p.cost)
        /\ OpenPositions(n) <= OpenPositions(b)
    <3>1. p.quantity = 0 \/ p.quantity > 0
      BY <1>2
    <3> QED BY <1>1, <1>2, <1>6, <3>1, AfterIs
  <2>2. OpenPositions(n) \in Nat
    BY HoldingIs
  <2>3. Total(Flow(n)) = Total(Flow(b))
    BY <1>2, <1>3, <2>1
  <2> HIDE DEF Frame
  <2>4. OpenPositions(n) <= limits.open
    BY <1>1, <1>3, <2>1, <2>2
  <2> QED BY <1>1, <2>1, <2>3, <2>4 DEF BookInv
<1>7. ASSUME signal.side = "BUY", p.quantity = 0, barred = {}, Needed(price) <= b.cash,
             n = AfterOrder(b, s, b.cash - Needed(price), Bought(p, price),
                       [b.buys EXCEPT ![Today] = @ + 1], b.refused[s])
      PROVE  BookInv(n) /\ Frame
  <2> DEFINE cash == b.cash - Needed(price)
             q == Bought(p, price)
             buys == [b.buys EXCEPT ![Today] = @ + 1]
  <2>1. /\ cash \in Nat /\ q \in Position /\ Needed(price) \in Nat
        /\ q.cost = Needed(price) /\ q.realized = p.realized
    <3>1. Needed(price) \in Nat
      BY <1>2, <1>4, TradesAre
    <3>2. q \in Position /\ q.cost = Needed(price) /\ q.realized = p.realized
      BY <1>2, <1>4, <1>7, TradesAre
    <3> QED BY <1>2, <1>7, <3>1, <3>2
  <2>2. /\ buys \in [Days -> Nat] /\ buys[Today] = b.buys[Today] + 1
        /\ \A d \in Days \ {Today} : buys[d] = b.buys[d]
    BY <1>2
  <2>9. n = AfterOrder(b, s, cash, q, buys, b.refused[s])
    BY <1>7
  <2> HIDE DEF cash, q, buys
  <2>3. /\ n \in Books /\ Frame /\ n.cash = cash /\ n.buys = buys
        /\ Total(Flow(n)) = Total(Flow(b)) + (q.realized - q.cost) - (p.realized - p.cost)
        /\ OpenPositions(n) <= OpenPositions(b) + 1
    <3>1. /\ b \in Books /\ cash \in Nat /\ q \in Position /\ buys \in [Days -> Nat]
          /\ b.refused[s] \in SUBSET Reasons
      BY <1>1, <1>2, <2>1, <2>2
    <3>2. Frame
      BY <3>1, <2>9, AfterIs
    <3>3. n \in Books /\ n.cash = cash /\ n.buys = buys
      BY <3>1, <2>9, AfterIs
    <3>4. /\ Total(Flow(n)) = Total(Flow(b)) + (q.realized - q.cost) - (p.realized - p.cost)
          /\ OpenPositions(n) <= OpenPositions(b) + 1
      BY <3>1, <2>9, AfterIs
    <3> QED BY <3>2, <3>3, <3>4
  <2> HIDE DEF Frame
  <2>4. b.buys[Today] < limits.daily /\ ~(OpenPositions(b) >= limits.open)
    BY <1>1, <1>2, <1>7, RejectionsAre DEF barred
  <2>5. OpenPositions(n) \in Nat
    BY HoldingIs
  <2>6. OpenPositions(n) <= limits.open
    BY <1>3, <2>3, <2>4, <2>5
  <2>7. \A d \in Days : n.buys[d] <= limits.daily
    <3>1. b.buys[Today] \in Nat
      BY <1>2
    <3>2. n.buys[Today] <= limits.daily
      BY <1>3, <2>2, <2>3, <2>4, <3>1
    <3> QED BY <1>1, <2>2, <2>3, <3>2
  <2>8. n.cash = InitialCash + Total(Flow(n))
    <3>1. cash = b.cash - Needed(price)
      BY DEF cash
    <3>2. p.cost = 0
      BY <1>2, <1>7 DEF Position
    <3> QED BY <1>1, <1>2, <1>3, <2>1, <2>3, <3>1, <3>2
  <2> QED BY <2>3, <2>6, <2>7, <2>8 DEF BookInv
<1>8. ASSUME p.quantity > 0,
             n = AfterOrder(b, s, b.cash + Proceeds(p, price), Sold(p, price), b.buys, b.refused[s])
      PROVE  BookInv(n) /\ Frame
  <2> DEFINE cash == b.cash + Proceeds(p, price)
             q == Sold(p, price)
  <2>1. /\ cash \in Nat /\ q \in Position /\ Proceeds(p, price) \in Nat
        /\ q.cost = 0 /\ q.quantity = 0 /\ q.realized = p.realized + Proceeds(p, price) - p.cost
    <3>1. /\ Proceeds(p, price) \in Nat /\ q \in Position /\ q.cost = 0 /\ q.quantity = 0
          /\ q.realized = p.realized + Proceeds(p, price) - p.cost
      BY <1>2, <1>4, TradesAre
    <3> HIDE DEF q
    <3> QED BY <1>2, <3>1
  <2>5. n = AfterOrder(b, s, cash, q, b.buys, b.refused[s])
    BY <1>8
  <2> HIDE DEF cash, q
  <2>2. /\ n \in Books /\ Frame /\ n.cash = cash /\ n.buys = b.buys
        /\ Total(Flow(n)) = Total(Flow(b)) + (q.realized - q.cost) - (p.realized - p.cost)
        /\ OpenPositions(n) <= OpenPositions(b)
    <3>1. /\ b \in Books /\ cash \in Nat /\ q \in Position /\ b.buys \in [Days -> Nat]
          /\ b.refused[s] \in SUBSET Reasons
      BY <1>1, <1>2, <2>1
    <3>2. Frame
      BY <3>1, <2>5, AfterIs
    <3>3. n \in Books /\ n.cash = cash /\ n.buys = b.buys
      BY <3>1, <2>5, AfterIs
    <3>4. /\ Total(Flow(n)) = Total(Flow(b)) + (q.realized - q.cost) - (p.realized - p.cost)
          /\ OpenPositions(n) <= OpenPositions(b)
      BY <3>1, <1>8, <2>5, AfterIs
    <3> QED BY <3>2, <3>3, <3>4
  <2> HIDE DEF Frame
  <2>3. OpenPositions(n) <= limits.open
    <3>1. OpenPositions(n) \in Nat
      BY HoldingIs
    <3> QED BY <1>1, <1>3, <2>2, <3>1
  <2>4. n.cash = InitialCash + Total(Flow(n))
    <3>1. cash = b.cash + Proceeds(p, price)
      BY DEF cash
    <3> QED BY <1>1, <1>2, <1>3, <2>1, <2>2, <3>1
  <2> QED BY <1>1, <2>2, <2>3, <2>4 DEF BookInv
<1> HIDE DEF Frame
<1>9. "cash" \in Reasons
  BY DEF Reasons
<1>10. BookInv(n) /\ Frame
  <2>1. CASE n = AfterOrder(b, s, b.cash, p, b.buys, b.refused[s])
    BY <1>2, <1>6, <2>1
  <2>2. CASE n = AfterOrder(b, s, b.cash, p, b.buys, b.refused[s] \cup barred)
    BY <1>2, <1>5, <1>6, <2>2
  <2>3. CASE n = AfterOrder(b, s, b.cash, p, b.buys, b.refused[s] \cup {"cash"})
    BY <1>2, <1>6, <1>9, <2>3
  <2> QED BY <1>1, <1>7, <1>8, <2>1, <2>2, <2>3, FilledIs DEF n, price, barred
<1> QED BY <1>10 DEF n, Frame

-----------------------------------------------------------------------------
(* The orders of a timestamp, one after the other *)

LEMMA OrdersAre ==
  ASSUME NEW bar
  PROVE  LET o == Orders(bar)
         IN /\ o[0] = book
            /\ \A n \in 1..Len(Names) :
                 /\ Names[n] \notin DOMAIN bar => o[n] = o[n - 1]
                 /\ Names[n] \in DOMAIN bar => o[n] = Filled(o[n - 1], Names[n], bar[Names[n]])
<1> DEFINE N == Len(Names)
           Moved(n, b) == IF Names[n] \in DOMAIN bar THEN Filled(b, Names[n], bar[Names[n]]) ELSE b
           Steps(n, g) == /\ DOMAIN g = 0..n /\ g = [k \in 0..n |-> g[k]] /\ g[0] = book
                          /\ \A k \in 1..n : g[k] = Moved(k, g[k - 1])
           Good == {n \in 0..N : \E g : Steps(n, g)}
           Is(g) == g = [n \in 0..N |->
                           IF n = 0 THEN book
                           ELSE IF Names[n] \in DOMAIN bar
                                THEN Filled(g[n - 1], Names[n], bar[Names[n]])
                           ELSE g[n - 1]]
<1>0. N \in Nat
  BY NamesAre
<1> HIDE DEF N
<1>1. 0 \in Good
  <2> DEFINE g == [k \in 0..0 |-> book]
  <2> HIDE DEF Moved
  <2>1. DOMAIN g = 0..0 /\ g = [k \in 0..0 |-> g[k]] /\ g[0] = book
    OBVIOUS
  <2>2. \A k \in 1..0 : g[k] = Moved(k, g[k - 1])
    OBVIOUS
  <2>3. Steps(0, g)
    BY <2>1, <2>2
  <2> HIDE DEF Steps
  <2> QED BY <1>0, <2>3
<1>2. ASSUME NEW n \in 1..N, n - 1 \in Good PROVE n \in Good
  <2> HIDE DEF Moved
  <2>1. PICK g : Steps(n - 1, g)
    <3> HIDE DEF Steps
    <3> QED BY <1>2
  <2> DEFINE last == Moved(n, g[n - 1])
             h == [k \in 0..n |-> IF k = n THEN last ELSE g[k]]
  <2> HIDE DEF last
  <2>2. DOMAIN h = 0..n /\ h = [k \in 0..n |-> h[k]] /\ h[0] = book
    BY <1>0, <2>1
  <2>3. ASSUME NEW k \in 1..n PROVE h[k] = Moved(k, h[k - 1])
    <3>1. CASE k = n
      <4>1. h[n] = last /\ h[n - 1] = g[n - 1]
        BY <1>0
      <4> QED BY <3>1, <4>1 DEF last
    <3>2. CASE k # n
      <4>1. h[k] = g[k] /\ h[k - 1] = g[k - 1] /\ k \in 1..n - 1
        BY <1>0, <3>2
      <4> HIDE DEF h
      <4> QED BY <2>1, <4>1
    <3> QED BY <3>1, <3>2
  <2>4. Steps(n, h)
    <3> HIDE DEF h
    <3> QED BY <2>2, <2>3
  <2> HIDE DEF Steps, h
  <2> QED BY <1>0, <2>4
<1>3. N \in Good
  <2> HIDE DEF Good
  <2>1. 0..N \subseteq Good
    BY <1>0, <1>1, <1>2, UpTo
  <2> QED BY <1>0, <2>1
<1>4. PICK g : Steps(N, g)
  <2> HIDE DEF Steps
  <2> QED BY <1>3
<1>5. Is(g)
  <2>1. ASSUME NEW n \in 0..N
        PROVE  g[n] = IF n = 0 THEN book
                      ELSE IF Names[n] \in DOMAIN bar
                           THEN Filled(g[n - 1], Names[n], bar[Names[n]])
                      ELSE g[n - 1]
    <3>1. CASE n = 0
      BY <1>4, <3>1
    <3>2. CASE n > 0
      <4>1. g[n] = Moved(n, g[n - 1])
        <5>1. n \in 1..N
          BY <1>0, <3>2
        <5> HIDE DEF Moved
        <5> QED BY <1>4, <5>1
      <4> QED BY <3>2, <4>1
    <3> QED BY <1>0, <3>1, <3>2
  <2>2. g = [n \in 0..N |-> g[n]]
    BY <1>4
  <2> QED BY <2>1, <2>2
<1> DEFINE o == Orders(bar)
<1>6. Is(o)
  <2>1. o = CHOOSE h : Is(h)
    BY DEF Orders, N
  <2> HIDE DEF Is, o
  <2> QED BY <1>5, <2>1
<1> HIDE DEF o
<1>7. o[0] = book
  BY <1>0, <1>6
<1>8. ASSUME NEW n \in 1..N
      PROVE  /\ Names[n] \notin DOMAIN bar => o[n] = o[n - 1]
             /\ Names[n] \in DOMAIN bar => o[n] = Filled(o[n - 1], Names[n], bar[Names[n]])
  <2>1. n \in 0..N /\ n # 0 /\ n > 0
    BY <1>0
  <2>2. o[n] = IF n = 0 THEN book
               ELSE IF Names[n] \in DOMAIN bar
                    THEN Filled(o[n - 1], Names[n], bar[Names[n]])
               ELSE o[n - 1]
    BY <1>6, <2>1
  <2> QED BY <2>1, <2>2
<1> QED BY <1>7, <1>8 DEF o, N

\* What the orders of a timestamp leave of the books and of each symbol.
LEMMA OpenedIs ==
  ASSUME NEW bar, BookInv(book), limits \in Limits, Today \in Days,
         \A s \in DOMAIN bar : Candle(bar[s])
  PROVE  LET n == Opened(bar)
         IN /\ BookInv(n) /\ n.peak = book.peak /\ n.worst = book.worst
            /\ \A s \in Symbols \ DOMAIN bar :
                 /\ n.pos[s] = book.pos[s] /\ n.pending[s] = book.pending[s]
                 /\ n.refused[s] = book.refused[s]
            /\ \A s \in Symbols \cap DOMAIN bar :
                 /\ n.pending[s] = NoSignal
                 /\ Outcome(book.pos[s], book.pending[s], book.refused[s], bar[s].open,
                            n.pos[s], n.refused[s])
<1> DEFINE N == Len(Names)
           o == Orders(bar)
           Books1(b) == BookInv(b) /\ b.peak = book.peak /\ b.worst = book.worst
           Waits(b, s) == /\ b.pos[s] = book.pos[s] /\ b.pending[s] = book.pending[s]
                          /\ b.refused[s] = book.refused[s]
           Went(b, s) == /\ b.pending[s] = NoSignal
                         /\ Outcome(book.pos[s], book.pending[s], book.refused[s], bar[s].open,
                                    b.pos[s], b.refused[s])
           Before(n) == {Names[i] : i \in 1..n} \cap DOMAIN bar
           T == {n \in 0..N : /\ Books1(o[n])
                              /\ \A s \in Symbols \ Before(n) : Waits(o[n], s)
                              /\ \A s \in Symbols \cap Before(n) : Went(o[n], s)}
<1>0. /\ N \in Nat /\ Names \in [1..N -> Symbols]
      /\ \A i, j \in 1..N : Names[i] = Names[j] => i = j
      /\ {Names[i] : i \in 1..N} = Symbols
  BY NamesAre
<1>1. /\ o[0] = book
      /\ \A n \in 1..N : /\ Names[n] \notin DOMAIN bar => o[n] = o[n - 1]
                         /\ Names[n] \in DOMAIN bar
                              => o[n] = Filled(o[n - 1], Names[n], bar[Names[n]])
  BY OrdersAre
<1> HIDE DEF N, o
<1>2. 0 \in T
  <2>1. Before(0) = {}
    OBVIOUS
  <2>2. Books1(o[0]) /\ \A s \in Symbols : Waits(o[0], s)
    BY <1>1
  <2> HIDE DEF Books1, Waits, Went, Before
  <2> QED BY <1>0, <2>1, <2>2
<1>3. ASSUME NEW n \in 1..N, n - 1 \in T PROVE n \in T
  <2> DEFINE s == Names[n]
             b == o[n - 1]
  <2>1. /\ Books1(b)
        /\ \A r \in Symbols \ Before(n - 1) : Waits(b, r)
        /\ \A r \in Symbols \cap Before(n - 1) : Went(b, r)
    <3> HIDE DEF Books1, Waits, Went, Before
    <3> QED BY <1>3
  <2>2. s \in Symbols /\ s \notin Before(n - 1)
    BY <1>0
  <2>3. CASE s \notin DOMAIN bar
    <3>1. Before(n) = Before(n - 1)
      BY <1>0, <2>3
    <3>2. o[n] = b
      BY <1>1, <2>3
    <3> HIDE DEF Books1, Waits, Went, Before, b
    <3> QED BY <1>0, <2>1, <3>1, <3>2
  <2>4. CASE s \in DOMAIN bar
    <3>1. Before(n) = Before(n - 1) \cup {s}
      BY <1>0, <2>4
    <3>2. o[n] = Filled(b, s, bar[s])
      BY <1>1, <2>4
    <3>3. Candle(bar[s]) /\ BookInv(b) /\ b \in Books
      BY <2>1, <2>4 DEF BookInv
    <3> HIDE DEF b, s
    <3>4. /\ BookInv(o[n]) /\ o[n].pending[s] = NoSignal
          /\ o[n].peak = b.peak /\ o[n].worst = b.worst
          /\ \A r \in Symbols \ {s} : /\ o[n].pos[r] = b.pos[r] /\ o[n].pending[r] = b.pending[r]
                                      /\ o[n].refused[r] = b.refused[r]
      BY <2>2, <3>2, <3>3, OrderKeepsBooks
    <3>5. Outcome(b.pos[s], b.pending[s], b.refused[s], bar[s].open, o[n].pos[s], o[n].refused[s])
      BY <2>2, <3>2, <3>3, FilledOutcome
    <3>6. Waits(b, s)
      <4> HIDE DEF Before, Waits
      <4> QED BY <2>1, <2>2
    <3>7. Went(o[n], s)
      BY <3>4, <3>5, <3>6
    <3>8. Books1(o[n])
      BY <2>1, <3>4
    <3>9. ASSUME NEW r \in Symbols \ {s}
          PROVE  (Waits(b, r) => Waits(o[n], r)) /\ (Went(b, r) => Went(o[n], r))
      BY <3>4
    <3> HIDE DEF Books1, Waits, Went, Before
    <3>10. \A r \in Symbols \ Before(n) : Waits(o[n], r)
      BY <2>1, <3>1, <3>9
    <3>11. \A r \in Symbols \cap Before(n) : Went(o[n], r)
      BY <2>1, <3>1, <3>7, <3>9
    <3> QED BY <1>0, <3>8, <3>10, <3>11
  <2> QED BY <2>3, <2>4
<1>4. N \in T
  <2> HIDE DEF T
  <2>1. 0..N \subseteq T
    BY <1>0, <1>2, <1>3, UpTo
  <2> QED BY <1>0, <2>1
<1>5. /\ Books1(o[N])
      /\ \A s \in Symbols \ Before(N) : Waits(o[N], s)
      /\ \A s \in Symbols \cap Before(N) : Went(o[N], s)
  <2> HIDE DEF Books1, Waits, Went, Before
  <2> QED BY <1>4
<1>6. Symbols \cap Before(N) = Symbols \cap DOMAIN bar /\ Symbols \ Before(N) = Symbols \ DOMAIN bar
  BY <1>0
<1>7. Opened(bar) = o[N]
  BY DEF Opened, o, N
<1> HIDE DEF Before
<1> QED BY <1>5, <1>6, <1>7

-----------------------------------------------------------------------------
(* The averages *)

Candles == {c \in [open : Nat \ {0}, high : Nat \ {0}, low : Nat \ {0}, close : Nat \ {0}] : Candle(c)}
Relations == {None, "above", "below", "equal"}
Tapes == [count : Nat, last : Seq(Candles), short : Int, long : Int, relation : Relations,
          before : Relations, ranges : Int, atr : Int]

\* The running sums are the sums of the last closes that are kept.
TapeInv(t) ==
  /\ t \in Tapes
  /\ Len(t.last) = IF t.count <= LongWindow THEN t.count ELSE LongWindow + 1
  /\ t.count < LongWindow => t.relation = None
  /\ t.count >= LongWindow => /\ t.short = SumOf(LastN(Closes(t), ShortWindow))
                              /\ t.long = SumOf(LastN(Closes(t), LongWindow))
                              /\ t.relation = Relation(t.short, t.long)

LEMMA TapeIs ==
  ASSUME NEW t, TapeInv(t)
  PROVE  /\ t.count \in Nat /\ t.last \in Seq(Candles) /\ t.short \in Int /\ t.long \in Int
         /\ t.relation \in Relations /\ t.before \in Relations /\ t.ranges \in Int /\ t.atr \in Int
         /\ Len(t.last) = IF t.count <= LongWindow THEN t.count ELSE LongWindow + 1
BY DEF TapeInv, Tapes

\* Sequences of the same length with the same elements are the same.
LEMMA SameSeq ==
  ASSUME NEW s \in Seq(Int), NEW t \in Seq(Int), Len(s) = Len(t),
         \A i \in 1..Len(s) : s[i] = t[i]
  PROVE  s = t
<1>1. s \in [1..Len(s) -> Int] /\ t \in [1..Len(s) -> Int]
  OBVIOUS
<1> QED BY <1>1

LEMMA LastNOfTail ==
  ASSUME NEW s \in Seq(Int), NEW n \in Nat, 0 < n, n < Len(s)
  PROVE  LastN(Tail(s), n) = LastN(s, n)
<1> DEFINE t == Tail(s)
<1>1. t \in Seq(Int) /\ Len(t) = Len(s) - 1 /\ \A i \in 1..Len(t) : t[i] = s[i + 1]
  OBVIOUS
<1> HIDE DEF t
<1>2. n \in 1..Len(s) /\ n \in 1..Len(t) /\ Len(s) \in Nat
  BY <1>1
<1> DEFINE v == LastN(t, n)
           w == LastN(s, n)
<1>3. /\ v \in Seq(Int) /\ Len(v) = n /\ (\A i \in 1..n : v[i] = t[Len(t) - n + i])
      /\ w \in Seq(Int) /\ Len(w) = n /\ (\A i \in 1..n : w[i] = s[Len(s) - n + i])
  BY <1>1, <1>2, LastNIs
<1> HIDE DEF v, w
<1>4. ASSUME NEW i \in 1..n PROVE v[i] = w[i]
  <2>1. Len(t) - n + i \in 1..Len(t) /\ Len(t) - n + i + 1 = Len(s) - n + i
    BY <1>1, <1>2
  <2> QED BY <1>1, <1>3, <2>1
<1>5. v = w
  BY <1>3, <1>4, SameSeq
<1> QED BY <1>5 DEF v, w, t

LEMMA LastNOfAll ==
  ASSUME NEW s \in Seq(Int), s # <<>>
  PROVE  LastN(s, Len(s)) = s
<1>1. Len(s) \in 1..Len(s)
  OBVIOUS
<1> DEFINE v == LastN(s, Len(s))
<1>2. v \in Seq(Int) /\ Len(v) = Len(s) /\ \A i \in 1..Len(s) : v[i] = s[Len(s) - Len(s) + i]
  BY <1>1, LastNIs
<1> HIDE DEF v
<1>3. \A i \in 1..Len(s) : v[i] = s[i]
  BY <1>2
<1>4. v = s
  BY <1>2, <1>3, SameSeq
<1> QED BY <1>4 DEF v

\* The front of what was extended, with or without its oldest left out.
LEMMA FrontOfAppend ==
  ASSUME NEW s \in Seq(Int), NEW c \in Int
  PROVE  /\ Front(Append(s, c)) = s
         /\ s # <<>> => Front(Tail(Append(s, c))) = Tail(s)
<1> DEFINE a == Append(s, c)
<1>0. /\ a \in Seq(Int) /\ Len(a) = Len(s) + 1 /\ Len(s) \in Nat
      /\ \A i \in 1..Len(s) : a[i] = s[i]
  OBVIOUS
<1> HIDE DEF a
<1>1. /\ a \in Seq(Int) /\ Len(a) = Len(s) + 1 /\ a # <<>> /\ Len(s) \in Nat
      /\ \A i \in 1..Len(s) : a[i] = s[i]
  BY <1>0
<1>2. Front(a) = s
  <2>1. /\ Front(a) \in Seq(Int) /\ Len(Front(a)) = Len(s)
        /\ \A i \in 1..Len(s) : Front(a)[i] = a[i]
    BY <1>1 DEF Front
  <2> QED BY <1>1, <2>1, SameSeq
<1>3. ASSUME s # <<>> PROVE Front(Tail(a)) = Tail(s)
  <2> DEFINE t == Tail(a)
             f == Front(t)
             r == Tail(s)
  <2>1. t \in Seq(Int) /\ Len(t) = Len(s) /\ \A i \in 1..Len(s) : t[i] = a[i + 1]
    BY <1>1
  <2>2. r \in Seq(Int) /\ Len(r) = Len(s) - 1 /\ \A i \in 1..Len(s) - 1 : r[i] = s[i + 1]
    BY <1>3
  <2>3. Len(s) > 0
    BY <1>3
  <2> HIDE DEF t, r
  <2>4. f \in Seq(Int) /\ Len(f) = Len(s) - 1 /\ \A i \in 1..Len(s) - 1 : f[i] = t[i]
    <3>1. t \in Seq(Int) /\ Len(t) \in Nat /\ Len(t) > 0 /\ Len(t) = Len(s)
      BY <1>1, <2>1, <2>3
    <3>2. f = SubSeq(t, 1, Len(t) - 1)
      BY DEF Front
    <3> HIDE DEF f
    <3>3. f \in Seq(Int) /\ Len(f) = Len(t) - 1 /\ \A i \in 1..Len(t) - 1 : f[i] = t[i]
      BY ONLY <3>1, <3>2
    <3> QED BY ONLY <3>1, <3>3
  <2> HIDE DEF f, r
  <2>5. ASSUME NEW i \in 1..Len(s) - 1 PROVE f[i] = r[i]
    <3>1. i \in 1..Len(s) /\ i + 1 \in 1..Len(s)
      BY <1>1
    <3> QED BY <1>1, <2>1, <2>2, <2>4, <3>1
  <2>6. f = r
    BY <2>2, <2>4, <2>5, SameSeq
  <2> QED BY <2>6 DEF f, r, t
<1> QED BY <1>2, <1>3 DEF a

LEMMA CandleIs ==
  ASSUME NEW c \in Candles
  PROVE  /\ c.open \in Nat /\ c.high \in Nat /\ c.low \in Nat /\ c.close \in Nat
         /\ c.low <= c.open /\ c.low <= c.close
BY DEF Candles, Candle

LEMMA ClosesAre ==
  ASSUME NEW s \in Seq(Candles)
  PROVE  LET closes == [i \in DOMAIN s |-> s[i].close]
         IN /\ closes \in Seq(Int) /\ Len(closes) = Len(s)
            /\ \A i \in 1..Len(s) : closes[i] = s[i].close
<1> DEFINE closes == [i \in DOMAIN s |-> s[i].close]
<1>1. s \in [1..Len(s) -> Candles] /\ DOMAIN s = 1..Len(s) /\ Len(s) \in Nat
  OBVIOUS
<1>2. \A i \in 1..Len(s) : s[i].close \in Int
  BY <1>1, CandleIs
<1>3. closes \in [1..Len(s) -> Int] /\ \A i \in 1..Len(s) : closes[i] = s[i].close
  BY <1>1, <1>2
<1> HIDE DEF closes
<1>4. closes \in Seq(Int) /\ Len(closes) = Len(s)
  BY <1>1, <1>3
<1> QED BY <1>3, <1>4 DEF closes

\* The sums that cross, before and after the last close.
LEMMA LeadIs ==
  ASSUME NEW t, TapeInv(t), t.count >= LongWindow
  PROVE  /\ Closes(t) \in Seq(Int) /\ Len(Closes(t)) = Len(t.last) /\ Len(t.last) >= LongWindow
         /\ t.short \in Int /\ t.long \in Int
         /\ Lead(Closes(t)) = t.short * LongWindow - t.long * ShortWindow
<1>1. t.last \in Seq(Candles) /\ t.short \in Int /\ t.long \in Int /\ t.count \in Nat
  BY DEF TapeInv, Tapes
<1>2. Len(t.last) >= LongWindow
  BY <1>1, ReplayAssumption DEF TapeInv
<1>3. Closes(t) \in Seq(Int) /\ Len(Closes(t)) = Len(t.last)
  BY <1>1, ClosesAre DEF Closes
<1> QED BY <1>1, <1>2, <1>3 DEF Lead, TapeInv

LEMMA TrueRangeIs ==
  ASSUME NEW t, TapeInv(t), NEW c \in Candles
  PROVE  TrueRange(t, c) \in Int
<1>1. c.high \in Int /\ c.low \in Int
  BY DEF Candles
<1>2. CASE t.count = 0
  BY <1>1, <1>2 DEF TrueRange
<1>3. CASE t.count # 0
  <2>1. t.last \in Seq(Candles) /\ Len(t.last) \in Nat /\ Len(t.last) # 0
    <3>1. t.last \in Seq(Candles) /\ t.count \in Nat /\ LongWindow \in Nat
      BY TapeIs, NumbersAre
    <3> QED BY <1>3, <3>1 DEF TapeInv
  <2>2. Last(t.last) \in Candles
    BY <2>1 DEF Last
  <2>3. Last(t.last).close \in Int
    BY <2>2, CandleIs
  <2> QED BY <1>1, <1>3, <2>3 DEF TrueRange, Larger, Abs
<1> QED BY <1>2, <1>3

LEMMA AverageIs ==
  ASSUME NEW t, TapeInv(t), NEW c \in Candles
  PROVE  Average(t, c) \in Int
<1>1. t.atr \in Int /\ t.ranges \in Int /\ t.count \in Nat /\ AtrPeriod \in Nat \ {0}
  BY TapeIs, NumbersAre
<1> DEFINE range == TrueRange(t, c)
<1>2. range \in Int
  BY TrueRangeIs
<1> HIDE DEF range
<1>3. /\ t.ranges + range \in Int
      /\ t.atr * (AtrPeriod - 1) + range \in Int
  BY <1>1, <1>2
<1>4. /\ (t.ranges + range) \div AtrPeriod \in Int
      /\ (t.atr * (AtrPeriod - 1) + range) \div AtrPeriod \in Int
  BY <1>1, <1>3
<1> QED BY <1>1, <1>4 DEF Average, NoAverage, range

\* The bars that are kept, and their closes.
LEMMA KeptIs ==
  ASSUME NEW t, TapeInv(t), NEW c \in Candles
  PROVE  LET bars == Append(t.last, c)
             closes == [i \in DOMAIN bars |-> bars[i].close]
             u == Extended(t, c)
         IN /\ Closes(t) \in Seq(Int) /\ Len(Closes(t)) = Len(t.last)
            /\ c.close \in Int /\ closes = Append(Closes(t), c.close)
            /\ u.last \in Seq(Candles) /\ u.last # <<>> /\ Last(u.last) = c
            /\ t.count <= LongWindow => Len(u.last) = t.count + 1 /\ Closes(u) = closes
            /\ t.count > LongWindow => Len(u.last) = LongWindow + 1 /\ Closes(u) = Tail(closes)
<1> DEFINE bars == Append(t.last, c)
           closes == [i \in DOMAIN bars |-> bars[i].close]
           u == Extended(t, c)
           m == Len(t.last)
           C == Closes(t)
<1>1. /\ t.last \in Seq(Candles) /\ m \in Nat /\ t.count \in Nat /\ LongWindow \in Nat
      /\ m = IF t.count <= LongWindow THEN t.count ELSE LongWindow + 1
      /\ c.close \in Int
  BY TapeIs, CandleIs, NumbersAre
<1>2. C \in Seq(Int) /\ Len(C) = m /\ \A i \in 1..m : C[i] = t.last[i].close
  BY <1>1, ClosesAre DEF Closes
<1>3. /\ bars \in Seq(Candles) /\ Len(bars) = m + 1 /\ bars[m + 1] = c
      /\ \A i \in 1..m : bars[i] = t.last[i]
  BY <1>1
<1>4. u.last = IF Len(bars) > LongWindow + 1 THEN Tail(bars) ELSE bars
  BY DEF Extended
<1> HIDE DEF bars, u, C
<1>5. closes \in Seq(Int) /\ Len(closes) = m + 1 /\ \A i \in 1..m + 1 : closes[i] = bars[i].close
  BY <1>1, <1>3, ClosesAre
<1> HIDE DEF closes
<1>6. closes = Append(C, c.close)
  <2> DEFINE d == Append(C, c.close)
  <2>1. /\ d \in Seq(Int) /\ Len(d) = m + 1 /\ d[m + 1] = c.close
        /\ \A i \in 1..m : d[i] = C[i]
    BY <1>1, <1>2
  <2> HIDE DEF d, m
  <2>2. ASSUME NEW i \in 1..m + 1 PROVE closes[i] = d[i]
    <3>1. CASE i \in 1..m
      BY <1>2, <1>3, <1>5, <2>1, <3>1
    <3>2. CASE i = m + 1
      BY <1>3, <1>5, <2>1, <3>2
    <3> QED BY <1>1, <3>1, <3>2
  <2>3. closes = d
    BY <1>5, <2>1, <2>2, SameSeq
  <2> QED BY <2>3 DEF d
<1>7. ASSUME t.count <= LongWindow
      PROVE  u.last = bars /\ Len(u.last) = t.count + 1 /\ Closes(u) = closes
  <2>1. u.last = bars
    BY <1>1, <1>3, <1>4, <1>7
  <2> QED BY <1>1, <1>3, <1>7, <2>1 DEF Closes, closes
<1>8. ASSUME t.count > LongWindow
      PROVE  u.last = Tail(bars) /\ Len(u.last) = LongWindow + 1 /\ Closes(u) = Tail(closes)
  <2>1. u.last = Tail(bars) /\ m = LongWindow + 1
    BY <1>1, <1>3, <1>4, <1>8
  <2> DEFINE w == Tail(bars)
             e == Closes(u)
             f == Tail(closes)
  <2>2. w \in Seq(Candles) /\ Len(w) = m /\ \A i \in 1..m : w[i] = bars[i + 1]
    BY <1>1, <1>3
  <2>3. e = [i \in DOMAIN w |-> w[i].close]
    BY <2>1 DEF Closes
  <2>4. f \in Seq(Int) /\ Len(f) = m /\ \A i \in 1..m : f[i] = closes[i + 1]
    BY <1>1, <1>5
  <2> HIDE DEF w, e, f
  <2>5. e \in Seq(Int) /\ Len(e) = m /\ \A i \in 1..m : e[i] = w[i].close
    BY <1>1, <2>2, <2>3, ClosesAre
  <2>6. ASSUME NEW i \in 1..m PROVE e[i] = f[i]
    <3>1. i + 1 \in 1..m + 1
      BY <1>1
    <3> QED BY <1>5, <2>2, <2>4, <2>5, <3>1
  <2>7. e = f
    BY <2>4, <2>5, <2>6, SameSeq
  <2> QED BY <2>1, <2>2, <2>7 DEF e, f, w
<1>9. u.last \in Seq(Candles) /\ u.last # <<>> /\ Last(u.last) = c
  <2>1. CASE t.count <= LongWindow
    BY <1>1, <1>3, <1>7, <2>1 DEF Last
  <2>2. CASE t.count > LongWindow
    <3> DEFINE w == Tail(bars)
    <3>1. m = LongWindow + 1 /\ u.last = w
      BY <1>1, <1>8, <2>2
    <3>2. w \in Seq(Candles) /\ Len(w) = m /\ w[m] = bars[m + 1]
      BY <1>1, <1>3, <3>1
    <3> HIDE DEF w
    <3> QED BY <1>1, <1>3, <3>1, <3>2 DEF Last
  <2> QED BY <1>1, <2>1, <2>2
<1> QED BY <1>1, <1>2, <1>6, <1>7, <1>8, <1>9 DEF bars, closes, u, C

\* The sums of the next tape are those of its own last closes.
LEMMA SumsMove ==
  ASSUME NEW t, TapeInv(t), NEW c \in Candles, t.count + 1 >= LongWindow
  PROVE  LET u == Extended(t, c)
         IN /\ u.short = SumOf(LastN(Closes(u), ShortWindow))
            /\ u.long = SumOf(LastN(Closes(u), LongWindow))
            /\ u.short \in Int /\ u.long \in Int
            /\ t.count >= LongWindow => Lead(Front(Closes(u))) = Lead(Closes(t))
<1> DEFINE bars == Append(t.last, c)
           closes == [i \in DOMAIN bars |-> bars[i].close]
           u == Extended(t, c)
           C == Closes(t)
           D == Closes(u)
           m == Len(C)
<1>1. /\ C \in Seq(Int) /\ m = Len(t.last) /\ c.close \in Int /\ closes = Append(C, c.close)
      /\ t.count <= LongWindow => D = closes
      /\ t.count > LongWindow => D = Tail(closes)
  BY KeptIs
<1>2. /\ t.count \in Nat /\ m \in Nat /\ LongWindow \in Nat /\ ShortWindow \in Nat
      /\ 0 < ShortWindow /\ ShortWindow < LongWindow
      /\ m = IF t.count <= LongWindow THEN t.count ELSE LongWindow + 1
  BY <1>1, TapeIs, NumbersAre
<1>3. /\ u.short = ShortSum(t, closes) /\ u.long = LongSum(t, closes)
  BY DEF Extended
<1> HIDE DEF closes, u, C, D
<1>4. /\ closes \in Seq(Int) /\ Len(closes) = m + 1 /\ Last(closes) = c.close
      /\ \A i \in 1..m : closes[i] = C[i]
  <2>1. C \in Seq(Int) /\ c.close \in Int /\ closes = Append(C, c.close)
    BY <1>1
  <2>2. closes \in Seq(Int) /\ Len(closes) = m + 1
    BY <2>1
  <2>3. closes[m + 1] = c.close /\ \A i \in 1..m : closes[i] = C[i]
    BY <2>1
  <2> QED BY <2>2, <2>3 DEF Last
<1> HIDE DEF m
<1>5. u.short = SumOf(LastN(closes, ShortWindow)) /\ u.long = SumOf(LastN(closes, LongWindow))
  <2>1. CASE t.count + 1 = LongWindow
    <3>1. Len(closes) = LongWindow /\ closes # <<>>
      BY <1>2, <1>4, <2>1
    <3>2. LastN(closes, LongWindow) = closes
      BY <1>4, <3>1, LastNOfAll
    <3> QED BY <1>2, <1>3, <3>1, <3>2 DEF ShortSum, LongSum
  <2>2. CASE t.count >= LongWindow
    <3>1. /\ Len(closes) > LongWindow /\ m >= LongWindow
          /\ Len(closes) - ShortWindow = m - ShortWindow + 1 /\ m - ShortWindow + 1 \in 1..m
          /\ Len(closes) - LongWindow = m - LongWindow + 1 /\ m - LongWindow + 1 \in 1..m
          /\ ShortWindow \in 1..m /\ LongWindow \in 1..m
      <4>1. m >= LongWindow
        BY <1>2, <2>2
      <4>2. Len(closes) = m + 1
        BY <1>4
      <4> QED BY ONLY <1>2, <4>1, <4>2
    <3>2. /\ u.short = t.short + c.close - C[m - ShortWindow + 1]
          /\ u.long = t.long + c.close - C[m - LongWindow + 1]
      <4>1. /\ ~(Len(closes) < LongWindow) /\ ~(Len(closes) = LongWindow)
        <5>1. Len(closes) = m + 1 /\ m \in Nat /\ LongWindow \in Nat /\ m >= LongWindow
          BY <1>2, <1>4, <3>1
        <5> QED BY ONLY <5>1
      <4>2. /\ u.short = t.short + Last(closes) - closes[Len(closes) - ShortWindow]
            /\ u.long = t.long + Last(closes) - closes[Len(closes) - LongWindow]
        BY <1>3, <4>1 DEF ShortSum, LongSum
      <4> QED BY <1>4, <3>1, <4>2
    <3>3. t.short = SumOf(LastN(C, ShortWindow)) /\ t.long = SumOf(LastN(C, LongWindow))
      BY <2>2 DEF TapeInv, C
    <3>4. SumOf(LastN(closes, ShortWindow)) = SumOf(LastN(C, ShortWindow)) + c.close - C[m - ShortWindow + 1]
      BY <1>1, <3>1, WindowMoves DEF m
    <3>5. SumOf(LastN(closes, LongWindow)) = SumOf(LastN(C, LongWindow)) + c.close - C[m - LongWindow + 1]
      BY <1>1, <3>1, WindowMoves DEF m
    <3> QED BY <3>2, <3>3, <3>4, <3>5
  <2> QED BY <1>2, <2>1, <2>2
<1>6. /\ LastN(D, ShortWindow) = LastN(closes, ShortWindow)
      /\ LastN(D, LongWindow) = LastN(closes, LongWindow)
  <2>1. CASE t.count <= LongWindow
    BY <1>1, <2>1
  <2>2. CASE t.count > LongWindow
    <3>1. LongWindow < Len(closes) /\ ShortWindow < Len(closes)
      BY <1>2, <1>4, <2>2
    <3>2. LastN(Tail(closes), ShortWindow) = LastN(closes, ShortWindow)
      BY <1>2, <1>4, <3>1, LastNOfTail
    <3>3. LastN(Tail(closes), LongWindow) = LastN(closes, LongWindow)
      BY <1>2, <1>4, <3>1, LastNOfTail
    <3> QED BY <1>1, <2>2, <3>2, <3>3
  <2> QED BY <1>2, <2>1, <2>2
<1>7. u.short \in Int /\ u.long \in Int
  <2>1. ShortWindow \in 1..Len(closes) /\ LongWindow \in 1..Len(closes)
    BY <1>2, <1>4
  <2>2. LastN(closes, ShortWindow) \in Seq(Int) /\ LastN(closes, LongWindow) \in Seq(Int)
    BY <1>4, <2>1, LastNIs
  <2> QED BY <1>5, <2>2, SumsOf
<1>8. ASSUME t.count >= LongWindow
      PROVE  Lead(Front(D)) = Lead(C)
  <2>1. CASE t.count = LongWindow
    <3>1. D = Append(C, c.close)
      BY <1>1, <1>2, <2>1
    <3> QED BY <1>1, <3>1, FrontOfAppend
  <2>2. CASE t.count > LongWindow
    <3>1. /\ D = Tail(Append(C, c.close))
          /\ m = LongWindow + 1 /\ m > 0
      <4>1. D = Tail(Append(C, c.close))
        BY <1>1, <2>2
      <4>2. m = LongWindow + 1 /\ m > 0
        BY <1>2, <2>2
      <4> QED BY <4>1, <4>2
    <3>2. C # <<>> /\ LongWindow < Len(C) /\ ShortWindow < Len(C)
      BY <1>1, <1>2, <3>1 DEF m
    <3>3. Front(D) = Tail(C)
      BY <1>1, <3>1, <3>2, FrontOfAppend
    <3>4. LastN(Tail(C), ShortWindow) = LastN(C, ShortWindow)
      BY <1>1, <1>2, <3>2, LastNOfTail
    <3>5. LastN(Tail(C), LongWindow) = LastN(C, LongWindow)
      BY <1>1, <1>2, <3>2, LastNOfTail
    <3> QED BY <3>3, <3>4, <3>5 DEF Lead
  <2> QED BY <1>2, <1>8, <2>1, <2>2
<1> QED BY <1>5, <1>6, <1>7, <1>8 DEF u, C, D

\* The tape after a bar.
LEMMA ExtendedIs ==
  ASSUME NEW t, TapeInv(t), NEW c \in Candles
  PROVE  LET u == Extended(t, c)
         IN /\ TapeInv(u)
            /\ u.count = t.count + 1 /\ u.before = t.relation
            /\ u.last # <<>> /\ Last(u.last) = c
            /\ u.atr = Average(t, c)
<1> DEFINE bars == Append(t.last, c)
           u == Extended(t, c)
<1>1. /\ u.count = t.count + 1 /\ u.before = t.relation /\ u.atr = Average(t, c)
      /\ u.relation = IF Len(bars) < LongWindow THEN None ELSE Relation(u.short, u.long)
      /\ u.ranges = IF t.count < AtrPeriod THEN t.ranges + TrueRange(t, c) ELSE t.ranges
      /\ u = [count |-> u.count, last |-> u.last, short |-> u.short, long |-> u.long,
              relation |-> u.relation, before |-> u.before, ranges |-> u.ranges, atr |-> u.atr]
  BY DEF Extended
<1>2. /\ u.last \in Seq(Candles) /\ u.last # <<>> /\ Last(u.last) = c
      /\ t.count <= LongWindow => Len(u.last) = t.count + 1
      /\ t.count > LongWindow => Len(u.last) = LongWindow + 1
  BY KeptIs
<1>3. /\ t.count \in Nat /\ LongWindow \in Nat /\ t.last \in Seq(Candles) /\ t.ranges \in Int
      /\ t.relation \in Relations
      /\ Len(t.last) = IF t.count <= LongWindow THEN t.count ELSE LongWindow + 1
  BY TapeIs, NumbersAre
<1>4. Len(bars) = Len(t.last) + 1
  BY <1>3
<1>5. t.count + 1 < LongWindow => u.short = 0 /\ u.long = 0
  <2> DEFINE closes == [i \in DOMAIN bars |-> bars[i].close]
  <2>1. u.short = ShortSum(t, closes) /\ u.long = LongSum(t, closes)
    BY DEF Extended
  <2>2. closes \in Seq(Int) /\ Len(closes) = Len(bars)
    <3>1. bars \in Seq(Candles)
      BY <1>3
    <3> QED BY <3>1, ClosesAre
  <2> HIDE DEF closes
  <2> QED BY <1>3, <1>4, <2>1, <2>2 DEF ShortSum, LongSum
<1>6. t.count + 1 >= LongWindow
        => /\ u.short = SumOf(LastN(Closes(u), ShortWindow))
           /\ u.long = SumOf(LastN(Closes(u), LongWindow))
           /\ u.short \in Int /\ u.long \in Int
  BY SumsMove
<1>7. Average(t, c) \in Int /\ TrueRange(t, c) \in Int
  BY AverageIs, TrueRangeIs
<1> HIDE DEF u, bars
<1>8. /\ t.count + 1 < LongWindow => u.relation = None
      /\ t.count + 1 >= LongWindow => u.relation = Relation(u.short, u.long)
  BY <1>1, <1>3, <1>4
<1>9. u.relation \in Relations
  <2>1. Relation(u.short, u.long) \in Relations
    BY DEF Relation, Relations
  <2> QED BY <1>3, <1>8, <2>1 DEF Relations
<1>10. u.short \in Int /\ u.long \in Int /\ u.count \in Nat /\ u.ranges \in Int
  BY <1>1, <1>3, <1>5, <1>6, <1>7
<1>11. u \in Tapes
  BY <1>1, <1>2, <1>3, <1>7, <1>9, <1>10 DEF Tapes
<1>12. TapeInv(u)
  <2>1. Len(u.last) = IF u.count <= LongWindow THEN u.count ELSE LongWindow + 1
    BY <1>1, <1>2, <1>3
  <2>2. u.count < LongWindow => u.relation = None
    BY <1>1, <1>8
  <2>3. u.count >= LongWindow => /\ u.short = SumOf(LastN(Closes(u), ShortWindow))
                                 /\ u.long = SumOf(LastN(Closes(u), LongWindow))
                                 /\ u.relation = Relation(u.short, u.long)
    BY <1>1, <1>6, <1>8
  <2> QED BY <1>11, <2>1, <2>2, <2>3 DEF TapeInv
<1> QED BY <1>1, <1>2, <1>12 DEF u

\* A crossing is a change of the relation of the averages.
LEMMA CrossingIs ==
  ASSUME NEW t, TapeInv(t), NEW c \in Candles
  PROVE  LET u == Extended(t, c)
         IN /\ Crossing(Closes(u)) \in {"BUY", "SELL", None}
            /\ u.count > LongWindow =>
                 /\ Crossing(Closes(u)) = "BUY"
                      <=> (u.relation = "above" /\ u.before \in {"below", "equal"})
                 /\ Crossing(Closes(u)) = "SELL"
                      <=> (u.relation = "below" /\ u.before \in {"above", "equal"})
                 /\ u.before # None /\ u.relation # None
            /\ u.count <= LongWindow => u.before = None
<1> DEFINE u == Extended(t, c)
<1>1. Crossing(Closes(u)) \in {"BUY", "SELL", None}
  BY DEF Crossing
<1>2. /\ TapeInv(u) /\ u.count = t.count + 1 /\ u.before = t.relation
      /\ t.count \in Nat /\ LongWindow \in Nat /\ ShortWindow \in Nat
  <2>1. TapeInv(u) /\ u.count = t.count + 1 /\ u.before = t.relation
    BY ExtendedIs
  <2> QED BY <2>1, TapeIs, NumbersAre
<1>3. u.count <= LongWindow => u.before = None
  BY <1>2 DEF TapeInv
<1>4. ASSUME u.count > LongWindow
      PROVE  /\ Crossing(Closes(u)) = "BUY"
                  <=> (u.relation = "above" /\ u.before \in {"below", "equal"})
             /\ Crossing(Closes(u)) = "SELL"
                  <=> (u.relation = "below" /\ u.before \in {"above", "equal"})
             /\ u.before # None /\ u.relation # None
  <2>1. t.count >= LongWindow /\ t.count + 1 >= LongWindow /\ u.count >= LongWindow
    BY <1>2, <1>4
  <2>2. Lead(Front(Closes(u))) = Lead(Closes(t))
    BY <2>1, SumsMove
  <2>3. /\ t.short \in Int /\ t.long \in Int
        /\ Lead(Closes(t)) = t.short * LongWindow - t.long * ShortWindow
    BY <2>1, LeadIs
  <2>4. /\ u.short \in Int /\ u.long \in Int
        /\ Lead(Closes(u)) = u.short * LongWindow - u.long * ShortWindow
    BY <1>2, <2>1, LeadIs
  <2>5. u.before = Relation(t.short, t.long) /\ u.relation = Relation(u.short, u.long)
    BY <1>2, <2>1 DEF TapeInv
  <2> DEFINE g == t.short * LongWindow - t.long * ShortWindow
             h == u.short * LongWindow - u.long * ShortWindow
             x == Crossing(Closes(u))
  <2>6. g \in Int /\ h \in Int
    BY <1>2, <2>3, <2>4
  <2>7. x = CASE g <= 0 /\ h > 0 -> "BUY" [] g >= 0 /\ h < 0 -> "SELL" [] OTHER -> None
    BY <2>2, <2>3, <2>4 DEF Crossing
  <2>8. /\ u.before = IF g > 0 THEN "above" ELSE IF g < 0 THEN "below" ELSE "equal"
        /\ u.relation = IF h > 0 THEN "above" ELSE IF h < 0 THEN "below" ELSE "equal"
    BY <2>5 DEF Relation
  <2> HIDE DEF g, h, x
  <2>9. /\ x = "BUY" <=> (g <= 0 /\ h > 0)
        /\ x = "SELL" <=> (g >= 0 /\ h < 0)
    BY <2>6, <2>7 DEF None
  <2>10. /\ u.relation = "above" <=> h > 0
         /\ u.relation = "below" <=> h < 0
         /\ u.before \in {"below", "equal"} <=> g <= 0
         /\ u.before \in {"above", "equal"} <=> g >= 0
         /\ u.before # None /\ u.relation # None
    BY <2>6, <2>8 DEF None
  <2> QED BY <2>9, <2>10 DEF x
<1> QED BY <1>1, <1>3, <1>4

-----------------------------------------------------------------------------
(* One symbol alone *)

Sides == {None, "BUY", "SELL"}
Alones == [cash : Nat, pos : Position, pending : Sides, missed : BOOLEAN, peak : Nat \ {0},
           worst : Nat]

\* The order that a position makes of the last crossing.
SideOf(p, t) ==
  IF t.count > LongWindow /\ Wanted(p, Crossing(Closes(t))) THEN Crossing(Closes(t)) ELSE None

LEMMA SidesAre ==
  ASSUME NEW t, TapeInv(t), NEW c \in Candles, NEW p \in Position
  PROVE  LET u == Extended(t, c)
             side == SideOf(p, u)
         IN /\ side \in Sides
            /\ side = "BUY" <=> (/\ p.quantity = 0
                                 /\ u.relation = "above" /\ u.before \in {"below", "equal"})
            /\ side = "SELL" <=> (/\ p.quantity > 0
                                  /\ u.relation = "below" /\ u.before \in {"above", "equal"})
            /\ side # None => u.count > LongWindow
<1> DEFINE u == Extended(t, c)
           x == Crossing(Closes(u))
<1>1. /\ x \in {"BUY", "SELL", None}
      /\ u.count > LongWindow =>
           /\ x = "BUY" <=> (u.relation = "above" /\ u.before \in {"below", "equal"})
           /\ x = "SELL" <=> (u.relation = "below" /\ u.before \in {"above", "equal"})
      /\ u.count <= LongWindow => u.before = None
  BY CrossingIs
<1>2. u.count \in Nat /\ LongWindow \in Nat
  <2>1. TapeInv(u)
    BY ExtendedIs
  <2> HIDE DEF u
  <2> QED BY <2>1, TapeIs, NumbersAre
<1>3. p.quantity = 0 \/ p.quantity > 0
  <2>1. p.quantity \in {0, Quantity} /\ Quantity \in Nat \ {0}
    BY NumbersAre DEF Position
  <2> QED BY ONLY <2>1
<1>4. ~(p.quantity = 0 /\ p.quantity > 0)
  OBVIOUS
<1>5. SideOf(p, u) = IF u.count > LongWindow /\ Wanted(p, x) THEN x ELSE None
  BY DEF SideOf
<1> DEFINE side == SideOf(p, u)
<1> HIDE DEF x, side
<1>6. side = IF u.count > LongWindow /\ Wanted(p, x) THEN x ELSE None
  BY <1>5 DEF side
<1> HIDE DEF u
<1>7. u.count > LongWindow \/ u.count <= LongWindow
  BY <1>2
<1>8. side \in Sides /\ (side # None => u.count > LongWindow)
  BY <1>1, <1>6 DEF Sides, None
<1>9. side = "BUY" <=> (/\ p.quantity = 0
                        /\ u.relation = "above" /\ u.before \in {"below", "equal"})
  BY <1>1, <1>3, <1>4, <1>6, <1>7 DEF Wanted, None
<1>10. side = "SELL" <=> (/\ p.quantity > 0
                          /\ u.relation = "below" /\ u.before \in {"above", "equal"})
  BY <1>1, <1>3, <1>4, <1>6, <1>7 DEF Wanted, None
<1> QED BY <1>8, <1>9, <1>10 DEF u, side

\* The peak and the deepest fall after an equity is seen.
NewPeak(peak, equity) == Larger(peak, equity)
NewWorst(peak, worst, equity) ==
  Larger(worst, ((Larger(peak, equity) - equity) * 1000) \div Larger(peak, equity))
Seen(peak, worst, equity) == peak >= equity /\ worst >= ((peak - equity) * 1000) \div peak

\* Once seen, an equity changes neither.
LEMMA DrawnIs ==
  ASSUME NEW peak \in Nat \ {0}, NEW worst \in Nat, NEW equity \in Int
  PROVE  LET k == NewPeak(peak, equity)
             w == NewWorst(peak, worst, equity)
         IN /\ k \in Nat \ {0} /\ w \in Nat /\ Seen(k, w, equity)
            /\ Seen(peak, worst, equity) => k = peak /\ w = worst
<1> DEFINE k == Larger(peak, equity)
           fall == ((k - equity) * 1000) \div k
<1>1. k \in Nat \ {0} /\ k >= equity /\ (peak >= equity => k = peak)
  BY DEF Larger
<1> HIDE DEF k
<1>2. fall \in Int
  BY <1>1
<1>3. (peak >= equity => fall = ((peak - equity) * 1000) \div peak)
  BY <1>1
<1> HIDE DEF fall
<1> DEFINE w == Larger(worst, fall)
<1>4. w \in Nat /\ w >= fall /\ (worst >= fall => w = worst)
  BY <1>2 DEF Larger
<1> HIDE DEF w
<1>5. NewPeak(peak, equity) = k /\ NewWorst(peak, worst, equity) = w
  BY DEF NewPeak, NewWorst, w, fall, k
<1>6. Seen(k, w, equity)
  BY <1>1, <1>4 DEF Seen, fall
<1>7. Seen(peak, worst, equity) => k = peak /\ w = worst
  BY <1>1, <1>3, <1>4 DEF Seen
<1> QED BY <1>1, <1>4, <1>5, <1>6, <1>7

\* What the pending order of the replay of one symbol does.
LEMMA FilledAloneIs ==
  ASSUME NEW a \in Alones, NEW c, Candle(c)
  PROVE  LET f == FilledAlone(a, c)
             p == a.pos
             price == Slipped(a.pending, c.open)
         IN /\ f \in Alones /\ f.pending = None /\ f.peak = a.peak /\ f.worst = a.worst
            /\ f.cash - f.pos.realized + f.pos.cost = a.cash - p.realized + p.cost
            /\ \/ /\ a.pending = "BUY" /\ p.quantity = 0
                  /\ f.pos = Bought(p, price) /\ f.missed = a.missed
               \/ /\ a.pending = "BUY" /\ p.quantity = 0
                  /\ f.pos = p /\ f.missed
               \/ /\ a.pending = "SELL" /\ p.quantity > 0
                  /\ f.pos = Sold(p, price) /\ f.missed = a.missed
               \/ /\ ~(a.pending = "BUY" /\ p.quantity = 0) /\ ~(a.pending = "SELL" /\ p.quantity > 0)
                  /\ f.pos = p /\ f.missed = a.missed
<1> DEFINE f == FilledAlone(a, c)
           p == a.pos
           price == Slipped(a.pending, c.open)
<1>1. c.open \in Nat
  BY DEF Candle
<1>2. price \in Nat
  BY <1>1, SlippedIs
<1>3. /\ p \in Position /\ a.cash \in Nat /\ p.realized \in Int /\ p.cost \in Nat
      /\ p.quantity \in {0, Quantity}
  BY DEF Alones, Position
<1>4. a = [cash |-> a.cash, pos |-> a.pos, pending |-> a.pending, missed |-> a.missed,
           peak |-> a.peak, worst |-> a.worst]
  BY DEF Alones
<1> DEFINE After4(cash, q, missed) ==
             [cash |-> cash, pos |-> q, pending |-> None, missed |-> missed,
              peak |-> a.peak, worst |-> a.worst]
<1>5. ASSUME NEW cash \in Nat, NEW q \in Position, NEW missed \in BOOLEAN
      PROVE  After4(cash, q, missed) \in Alones
  BY DEF Alones, Sides
<1>6. /\ Needed(price) \in Nat /\ Proceeds(p, price) \in Nat
      /\ p.quantity = 0 => /\ Bought(p, price) \in Position
                           /\ Bought(p, price).cost = Needed(price)
                           /\ Bought(p, price).realized = p.realized
      /\ Sold(p, price) \in Position /\ Sold(p, price).cost = 0
      /\ Sold(p, price).realized = p.realized + Proceeds(p, price) - p.cost
  BY <1>2, <1>3, TradesAre
<1>7. a.missed \in BOOLEAN
  BY DEF Alones
<1>8. p.quantity = 0 => p.cost = 0
  BY <1>3 DEF Position
<1>9. CASE a.pending = "BUY" /\ p.quantity = 0 /\ Needed(price) <= a.cash
  <2>1. f = After4(a.cash - Needed(price), Bought(p, price), a.missed)
    <3>1. ~(Needed(price) > a.cash)
      BY <1>3, <1>6, <1>9
    <3> QED BY <1>4, <1>9, <3>1 DEF FilledAlone
  <2>2. a.cash - Needed(price) \in Nat
    BY <1>3, <1>6, <1>9
  <2>3. f \in Alones
    BY <1>5, <1>6, <1>7, <1>9, <2>1, <2>2
  <2> HIDE DEF f, price
  <2>4. /\ f.cash = a.cash - Needed(price) /\ f.pos = Bought(p, price) /\ f.missed = a.missed
        /\ f.pending = None /\ f.peak = a.peak /\ f.worst = a.worst
    BY <2>1
  <2>5. f.cash - f.pos.realized + f.pos.cost = a.cash - p.realized + p.cost
    BY <1>3, <1>6, <1>8, <1>9, <2>4
  <2> QED BY <1>9, <2>3, <2>4, <2>5 DEF f, price
<1>10. CASE a.pending = "BUY" /\ p.quantity = 0 /\ ~(Needed(price) <= a.cash)
  <2>1. Needed(price) > a.cash
    BY <1>3, <1>6, <1>10
  <2>2. f = After4(a.cash, p, TRUE)
    BY <1>4, <1>10, <2>1 DEF FilledAlone
  <2>3. f \in Alones
    BY <1>3, <1>5, <2>2
  <2> HIDE DEF f, price
  <2>4. /\ f.cash = a.cash /\ f.pos = p /\ f.missed
        /\ f.pending = None /\ f.peak = a.peak /\ f.worst = a.worst
    BY <2>2
  <2> QED BY <1>10, <2>3, <2>4 DEF f, price
<1>11. CASE a.pending = "SELL" /\ p.quantity > 0
  <2>1. f = After4(a.cash + Proceeds(p, price), Sold(p, price), a.missed)
    BY <1>4, <1>11 DEF FilledAlone
  <2>2. a.cash + Proceeds(p, price) \in Nat
    BY <1>3, <1>6
  <2>3. f \in Alones
    BY <1>5, <1>6, <1>7, <2>1, <2>2
  <2> HIDE DEF f, price
  <2>4. /\ f.cash = a.cash + Proceeds(p, price) /\ f.pos = Sold(p, price) /\ f.missed = a.missed
        /\ f.pending = None /\ f.peak = a.peak /\ f.worst = a.worst
    BY <2>1
  <2>5. f.cash - f.pos.realized + f.pos.cost = a.cash - p.realized + p.cost
    BY <1>3, <1>6, <2>4
  <2> QED BY <1>11, <2>3, <2>4, <2>5 DEF f, price
<1>12. CASE ~(a.pending = "BUY" /\ p.quantity = 0) /\ ~(a.pending = "SELL" /\ p.quantity > 0)
  <2>1. f = After4(a.cash, p, a.missed)
    BY <1>4, <1>12 DEF FilledAlone
  <2>2. f \in Alones
    BY <1>3, <1>5, <1>7, <2>1
  <2> HIDE DEF f, price
  <2>3. /\ f.cash = a.cash /\ f.pos = p /\ f.missed = a.missed
        /\ f.pending = None /\ f.peak = a.peak /\ f.worst = a.worst
    BY <2>1
  <2> QED BY <1>12, <2>2, <2>3 DEF f, price
<1> QED BY <1>9, <1>10, <1>11, <1>12

\* A pending order opens or closes the position; the averages are there before.
Rule(p, side, t) ==
  /\ side = "BUY" => p.quantity = 0 /\ t.relation = "above"
  /\ side = "SELL" => p.quantity > 0
  /\ p.quantity > 0 => t.count > LongWindow

\* A position that the averages fell below is about to be sold, and the equity
\* that the last snapshot saw is that of now.
AloneInv(a, t) ==
  /\ a \in Alones
  /\ a.cash = InitialCash + a.pos.realized - a.pos.cost
  /\ Rule(a.pos, a.pending, t)
  /\ (a.pos.quantity > 0 /\ t.relation = "below") => a.pending = "SELL"
  /\ t.count = 0 => a.pos = Flat /\ a.peak = InitialCash /\ a.worst = 0
  /\ t.count > 0 => Seen(a.peak, a.worst, EquityAlone(a, t))

\* What a bar leaves of the replay of one symbol.
LEMMA AfterBarIs ==
  ASSUME NEW a \in Alones, NEW t, TapeInv(t), NEW c \in Candles
  PROVE  LET u == Extended(t, c)
             f == FilledAlone(a, c)
             e == EquityAlone(f, u)
             n == AfterBar(a, c, u)
         IN /\ n \in Alones /\ e \in Nat
            /\ n.cash = f.cash /\ n.pos = f.pos /\ n.missed = f.missed
            /\ n.pending = SideOf(f.pos, u)
            /\ n.peak = NewPeak(a.peak, e) /\ n.worst = NewWorst(a.peak, a.worst, e)
            /\ EquityAlone(n, u) = e
            /\ Seen(n.peak, n.worst, EquityAlone(n, u))
<1> DEFINE u == Extended(t, c)
           f == FilledAlone(a, c)
           e == EquityAlone(f, u)
           n == AfterBar(a, c, u)
           k == NewPeak(a.peak, e)
           w == NewWorst(a.peak, a.worst, e)
           side == SideOf(f.pos, u)
<1>1. /\ f \in Alones /\ f.pending = None /\ f.peak = a.peak /\ f.worst = a.worst
  BY FilledAloneIs DEF Candles
<1>2. /\ f.cash \in Nat /\ f.pos \in Position /\ a.peak \in Nat \ {0} /\ a.worst \in Nat
      /\ f.missed \in BOOLEAN
  BY <1>1 DEF Alones
<1>3. f.pos.quantity \in Nat
  BY <1>2, PositionIs
<1>4. Last(u.last) = c /\ c.close \in Nat
  BY ExtendedIs, CandleIs
<1>5. e \in Nat
  <2>1. f.pos.quantity * c.close \in Nat
    BY <1>3, <1>4
  <2> QED BY <1>2, <1>4, <2>1 DEF EquityAlone
<1>6. side \in Sides
  BY <1>2, SidesAre
<1>7. k \in Nat \ {0} /\ w \in Nat /\ Seen(k, w, e)
  <2> HIDE DEF e
  <2>1. a.peak \in Nat \ {0} /\ a.worst \in Nat /\ e \in Int
    BY <1>2, <1>5
  <2> QED BY ONLY <2>1, DrawnIs
<1>8. Drawn(f, e) = [f EXCEPT !.peak = k, !.worst = w]
  BY <1>1 DEF Drawn, NewPeak, NewWorst
<1>9. n = SignalledAlone(Drawn(f, e), u)
  BY DEF AfterBar
<1> HIDE DEF k, w, e, f, u, n
<1>10. f = [cash |-> f.cash, pos |-> f.pos, pending |-> None, missed |-> f.missed,
            peak |-> f.peak, worst |-> f.worst]
  BY <1>1 DEF Alones
<1>11. Drawn(f, e) = [cash |-> f.cash, pos |-> f.pos, pending |-> None, missed |-> f.missed,
                      peak |-> k, worst |-> w]
  <2> DEFINE b == [f EXCEPT !.peak = k]
  <2>1. b = [cash |-> f.cash, pos |-> f.pos, pending |-> None, missed |-> f.missed,
             peak |-> k, worst |-> f.worst]
    BY <1>10
  <2>2. Drawn(f, e) = [b EXCEPT !.worst = w]
    BY <1>8
  <2> HIDE DEF b
  <2> QED BY <2>1, <2>2
<1>12. n = [cash |-> f.cash, pos |-> f.pos, pending |-> side, missed |-> f.missed,
            peak |-> k, worst |-> w]
  <2> DEFINE d == Drawn(f, e)
  <2>1. d.pos = f.pos /\ d = [cash |-> f.cash, pos |-> f.pos, pending |-> None,
                              missed |-> f.missed, peak |-> k, worst |-> w]
    BY <1>11
  <2>2. n = SignalledAlone(d, u)
    BY <1>9
  <2> HIDE DEF d
  <2>3. CASE u.count > LongWindow /\ Wanted(f.pos, Crossing(Closes(u)))
    <3>1. side = Crossing(Closes(u))
      BY <2>3 DEF SideOf
    <3>2. n = [d EXCEPT !.pending = side]
      BY <2>1, <2>2, <2>3, <3>1 DEF SignalledAlone
    <3> HIDE DEF side
    <3> QED BY <2>1, <3>2
  <2>4. CASE ~(u.count > LongWindow /\ Wanted(f.pos, Crossing(Closes(u))))
    <3>1. side = None
      BY <2>4 DEF SideOf
    <3>2. n = d
      BY <2>1, <2>2, <2>4 DEF SignalledAlone
    <3> HIDE DEF side
    <3> QED BY <2>1, <3>1, <3>2
  <2> QED BY <2>3, <2>4
<1> HIDE DEF side
<1>13. /\ n.cash = f.cash /\ n.pos = f.pos /\ n.missed = f.missed /\ n.pending = side
       /\ n.peak = k /\ n.worst = w
  BY <1>12
<1>14. n \in Alones
  BY <1>2, <1>6, <1>7, <1>12 DEF Alones
<1>15. EquityAlone(n, u) = e
  BY <1>13 DEF EquityAlone, e
<1> QED BY <1>5, <1>7, <1>13, <1>14, <1>15 DEF k, w, e, f, u, n, side

LEMMA AloneMoves ==
  ASSUME NEW a, NEW t, AloneInv(a, t), TapeInv(t), NEW c \in Candles
  PROVE  AloneInv(AfterBar(a, c, Extended(t, c)), Extended(t, c))
<1> DEFINE u == Extended(t, c)
           f == FilledAlone(a, c)
           n == AfterBar(a, c, u)
<1>1. /\ a \in Alones /\ a.cash = InitialCash + a.pos.realized - a.pos.cost
      /\ Rule(a.pos, a.pending, t)
      /\ (a.pos.quantity > 0 /\ t.relation = "below") => a.pending = "SELL"
  BY DEF AloneInv
<1>2. /\ n \in Alones /\ n.cash = f.cash /\ n.pos = f.pos /\ n.pending = SideOf(f.pos, u)
      /\ Seen(n.peak, n.worst, EquityAlone(n, u))
  BY <1>1, AfterBarIs
<1>3. /\ f \in Alones
      /\ f.cash - f.pos.realized + f.pos.cost = a.cash - a.pos.realized + a.pos.cost
      /\ \/ /\ a.pending = "BUY" /\ a.pos.quantity = 0
         \/ /\ f.pos = Sold(a.pos, Slipped(a.pending, c.open))
         \/ /\ ~(a.pending = "SELL" /\ a.pos.quantity > 0)
            /\ f.pos = a.pos
  BY <1>1, FilledAloneIs DEF Candles
<1>4. /\ TapeInv(u) /\ u.count = t.count + 1 /\ u.before = t.relation /\ t.count \in Nat
      /\ LongWindow \in Nat
  BY ExtendedIs, TapeIs, NumbersAre
<1>5. /\ a.cash \in Int /\ a.pos.realized \in Int /\ a.pos.cost \in Int /\ InitialCash \in Int
      /\ f.cash \in Int /\ f.pos.realized \in Int /\ f.pos.cost \in Int
      /\ a.pos \in Position /\ f.pos \in Position
  BY <1>1, <1>3, PositionIs, NumbersAre DEF Alones
<1>6. Sold(a.pos, Slipped(a.pending, c.open)).quantity = 0
  BY DEF Sold
<1>7. f.pos.quantity > 0 => \/ a.pending = "BUY" /\ a.pos.quantity = 0
                            \/ ~(a.pending = "SELL") /\ a.pos.quantity > 0
  BY <1>3, <1>6
<1>8. /\ SideOf(f.pos, u) = "BUY" <=> (/\ f.pos.quantity = 0
                                       /\ u.relation = "above" /\ u.before \in {"below", "equal"})
      /\ SideOf(f.pos, u) = "SELL" <=> (/\ f.pos.quantity > 0
                                        /\ u.relation = "below" /\ u.before \in {"above", "equal"})
  BY <1>5, SidesAre
<1> HIDE DEF n, f, u
<1>9. n.cash = InitialCash + n.pos.realized - n.pos.cost
  BY <1>1, <1>2, <1>3, <1>5
<1>10. ASSUME f.pos.quantity > 0
       PROVE  u.count > LongWindow
  <2>1. CASE a.pos.quantity > 0
    BY <1>1, <1>4, <2>1 DEF Rule
  <2>2. CASE a.pending = "BUY"
    <3>1. t.relation = "above"
      BY <1>1, <2>2 DEF Rule
    <3>2. t.count >= LongWindow
      BY <1>4, <3>1 DEF TapeInv, None
    <3> QED BY <1>4, <3>2
  <2> QED BY <1>7, <1>10, <2>1, <2>2
<1>11. Rule(n.pos, n.pending, u)
  BY <1>2, <1>8, <1>10 DEF Rule
<1>12. ASSUME f.pos.quantity > 0, u.relation = "below"
       PROVE  SideOf(f.pos, u) = "SELL"
  <2>1. u.before # "below"
    <3>1. SUFFICES ASSUME t.relation = "below" PROVE FALSE
      BY <1>4
    <3>2. a.pending # "BUY"
      BY <1>1, <3>1 DEF Rule
    <3> QED BY <1>1, <1>7, <1>12, <3>1, <3>2
  <2>2. u.before \in {"above", "equal"}
    <3>1. u.before # None
      BY <1>4, <1>10, <1>12, CrossingIs DEF u
    <3> QED BY <1>4, <2>1, <3>1 DEF TapeInv, Tapes, Relations
  <2> QED BY <1>8, <1>12, <2>2
<1>13. u.count # 0
  BY <1>4
<1> QED BY <1>2, <1>9, <1>11, <1>12, <1>13 DEF AloneInv, n, u

-----------------------------------------------------------------------------
(* The counterfactual of one symbol and variant *)

Summaries == [won : Int, profit : Int, loss : Int, early : Int, bars : Int, costs : Int]
Trials == [pending : Sides, held : BOOLEAN, since : Int, cost : Int, high : Int, stop : Int,
           realized : Int, completed : Int, done : Summaries]

\* What was realized is what the report counts as profit and loss.
TrialInv(x) == x \in Trials /\ x.realized = x.done.profit - x.done.loss

\* What a sale earns.
Earned(x, raw) ==
  Slipped("SELL", raw) * Quantity - Fee("SELL", Slipped("SELL", raw) * Quantity) - x.cost

\* What the sale leaves.
ClosedBy(y, x, raw) ==
  /\ TrialInv(y) /\ Earned(x, raw) \in Int
  /\ y.pending = None /\ ~y.held /\ y.cost = 0
  /\ y.completed = x.completed + 1 /\ y.realized = x.realized + Earned(x, raw)
  /\ y.done.won = x.done.won + (IF Earned(x, raw) > 0 THEN 1 ELSE 0)
  /\ y.done.costs = x.done.costs + Fee("SELL", Slipped("SELL", raw) * Quantity)

LEMMA ClosedIs ==
  ASSUME NEW x, TrialInv(x), NEW raw \in Nat, NEW index \in Int
  PROVE  ClosedBy(Closed(x, raw, index), x, raw)
<1> DEFINE y == Closed(x, raw, index)
           notional == Slipped("SELL", raw) * Quantity
           costs == Fee("SELL", notional)
           pnl == notional - costs - x.cost
           sum == Summarized(x.done, pnl, index - x.since, costs)
<1>1. /\ x \in Trials /\ x.realized = x.done.profit - x.done.loss
  BY DEF TrialInv
<1>2. /\ x.done \in Summaries /\ x.cost \in Int /\ x.since \in Int /\ x.realized \in Int
      /\ x.completed \in Int
  BY <1>1 DEF Trials
<1>3. /\ x.done.won \in Int /\ x.done.profit \in Int /\ x.done.loss \in Int /\ x.done.early \in Int
      /\ x.done.bars \in Int /\ x.done.costs \in Int
  BY <1>2 DEF Summaries
<1>4. notional \in Nat
  <2>1. Slipped("SELL", raw) \in Nat /\ Quantity \in Nat
    BY SlippedIs, NumbersAre
  <2> QED BY <2>1
<1> HIDE DEF notional
<1>5. costs \in Nat
  BY <1>4, FeeIs
<1> HIDE DEF costs
<1>6. pnl \in Int
  BY <1>2, <1>4, <1>5
<1>7. Earned(x, raw) = pnl
  BY DEF Earned, pnl, costs, notional
<1> HIDE DEF pnl
<1>8. /\ sum = [won |-> sum.won, profit |-> sum.profit, loss |-> sum.loss, early |-> sum.early,
                bars |-> sum.bars, costs |-> sum.costs]
      /\ sum.won = x.done.won + (IF pnl > 0 THEN 1 ELSE 0)
      /\ sum.profit = x.done.profit + Larger(pnl, 0)
      /\ sum.loss = x.done.loss + Larger(-pnl, 0)
      /\ sum.early = x.done.early + (IF pnl < 0 /\ index - x.since <= Early THEN 1 ELSE 0)
      /\ sum.bars = x.done.bars + (index - x.since)
      /\ sum.costs = x.done.costs + costs
  BY DEF Summarized
<1>9. y = [pending |-> None, held |-> FALSE, since |-> 0, cost |-> 0, high |-> 0, stop |-> NoStop,
           realized |-> x.realized + pnl, completed |-> x.completed + 1, done |-> sum]
  BY DEF Closed, pnl, costs, notional
<1> HIDE DEF sum, y
<1>10. Larger(pnl, 0) \in Int /\ Larger(-pnl, 0) \in Int /\ Larger(pnl, 0) - Larger(-pnl, 0) = pnl
  BY <1>6 DEF Larger
<1>11. /\ sum.won \in Int /\ sum.profit \in Int /\ sum.loss \in Int /\ sum.early \in Int
       /\ sum.bars \in Int /\ sum.costs \in Int
  BY <1>2, <1>3, <1>5, <1>6, <1>8, <1>10
<1>12. sum \in Summaries
  BY <1>8, <1>11 DEF Summaries
<1>13. x.realized + pnl = sum.profit - sum.loss /\ x.realized + pnl \in Int
  BY <1>1, <1>2, <1>3, <1>6, <1>8, <1>10
<1>14. y \in Trials
  <2>1. NoStop \in Int /\ x.completed + 1 \in Int
    BY <1>2 DEF NoStop
  <2> QED BY <1>9, <1>12, <1>13, <2>1 DEF Trials, Sides
<1>15. TrialInv(y)
  BY <1>9, <1>13, <1>14 DEF TrialInv
<1>16. costs = Fee("SELL", Slipped("SELL", raw) * Quantity)
  BY DEF costs, notional
<1> QED BY <1>6, <1>7, <1>8, <1>9, <1>15, <1>16 DEF ClosedBy, y

LEMMA AtOpenIs ==
  ASSUME NEW x, TrialInv(x), NEW c \in Candles, NEW index \in Int
  PROVE  LET y == AtOpen(x, c, index)
             price == Slipped("BUY", c.open)
         IN /\ TrialInv(y) /\ y.pending = None
            /\ \/ /\ x.pending = "BUY" /\ ~x.held
                  /\ y.held /\ y.since = index /\ y.cost = Needed(price)
                  /\ y.realized = x.realized /\ y.completed = x.completed
                  /\ y.done.won = x.done.won
                  /\ y.done.costs = x.done.costs + Fee("BUY", price * Quantity)
               \/ /\ x.pending # None /\ x.held
                  /\ ClosedBy(y, x, c.open)
               \/ /\ ~(x.pending = "BUY" /\ ~x.held) /\ ~(x.pending # None /\ x.held)
                  /\ y.held = x.held /\ y.since = x.since /\ y.cost = x.cost /\ y.stop = x.stop
                  /\ y.realized = x.realized /\ y.completed = x.completed /\ y.done = x.done
<1> DEFINE y == AtOpen(x, c, index)
           price == Slipped("BUY", c.open)
           fee == Fee("BUY", price * Quantity)
<1>1. /\ x \in Trials /\ x.realized = x.done.profit - x.done.loss
      /\ x.done \in Summaries
  BY DEF TrialInv, Trials
<1>2. price \in Nat /\ c.open \in Nat /\ Quantity \in Nat
  BY SlippedIs, CandleIs, NumbersAre
<1>3. Needed(price) \in Nat /\ fee \in Nat
  <2>1. Position # {}
    <3>1. [quantity |-> 0, cost |-> 0, realized |-> 0, completed |-> 0, won |-> 0, fees |-> 0]
            \in Position
      BY DEF Position
    <3> QED BY <3>1
  <2>2. price * Quantity \in Nat
    BY <1>2
  <2> QED BY <1>2, <2>1, <2>2, TradesAre, FeeIs
<1>4. CASE x.pending = "BUY" /\ ~x.held
  <2> DEFINE d == [x.done EXCEPT !.costs = @ + fee]
             yes == TRUE
             needed == Needed(price)
             w == [x EXCEPT !.pending = None, !.held = yes, !.since = index]
             z == [w EXCEPT !.cost = needed, !.high = price, !.done = d]
  <2>1. y = z
    BY <1>1, <1>4 DEF AtOpen
  <2>4. needed \in Int /\ price \in Int /\ yes \in BOOLEAN /\ yes = TRUE /\ needed = Needed(price)
    BY <1>2, <1>3
  <2> HIDE DEF y, fee, price, needed, yes
  <2>2. d \in Summaries /\ d.profit = x.done.profit /\ d.loss = x.done.loss
        /\ d.won = x.done.won /\ d.costs = x.done.costs + fee
    BY <1>1, <1>3 DEF Summaries
  <2> HIDE DEF d
  <2>5. /\ w \in Trials /\ w.realized = x.realized /\ w.completed = x.completed
        /\ w.pending = None /\ w.held = yes /\ w.since = index
    BY <1>1, <2>4 DEF Trials, Sides
  <2> HIDE DEF w
  <2>3. /\ z \in Trials /\ z.done = d /\ z.realized = x.realized /\ z.completed = x.completed
        /\ z.pending = None /\ z.held = yes /\ z.since = index /\ z.cost = needed
    BY <2>2, <2>4, <2>5 DEF Trials
  <2> HIDE DEF z
  <2>6. TrialInv(y)
    BY <1>1, <2>1, <2>2, <2>3 DEF TrialInv
  <2> QED BY <1>4, <2>1, <2>2, <2>3, <2>4, <2>6 DEF y, price, fee
<1>5. CASE x.pending # None /\ x.held
  <2>1. y = Closed(x, c.open, index)
    BY <1>5 DEF AtOpen
  <2>2. ClosedBy(y, x, c.open)
    BY <1>2, <2>1, ClosedIs
  <2>3. TrialInv(y) /\ y.pending = None
    BY <2>2 DEF ClosedBy
  <2> QED BY <1>5, <2>2, <2>3
<1>6. CASE ~(x.pending = "BUY" /\ ~x.held) /\ ~(x.pending # None /\ x.held)
  <2>1. y = [x EXCEPT !.pending = None]
    BY <1>6 DEF AtOpen
  <2> HIDE DEF y
  <2>2. /\ y \in Trials /\ y.pending = None /\ y.done = x.done
        /\ y.held = x.held /\ y.since = x.since /\ y.cost = x.cost /\ y.stop = x.stop
        /\ y.realized = x.realized /\ y.completed = x.completed
    BY <1>1, <2>1 DEF Trials, Sides
  <2>3. TrialInv(y)
    BY <1>1, <2>2 DEF TrialInv
  <2> QED BY <1>6, <2>2, <2>3 DEF y
<1> QED BY <1>4, <1>5, <1>6

LEMMA AtStopIs ==
  ASSUME NEW x, TrialInv(x), NEW c \in Candles, NEW index \in Int
  PROVE  LET y == AtStop(x, c, index)
         IN /\ TrialInv(y) /\ (x.pending = None => y.pending = None)
            /\ (x.held /\ c.low <= x.stop) => y.completed = x.completed + 1
            /\ ~x.held => y = x
<1> DEFINE y == AtStop(x, c, index)
<1>1. x.stop \in Int /\ c.open \in Nat /\ c.low \in Nat /\ c.low <= c.open
  BY CandleIs DEF TrialInv, Trials
<1>2. CASE x.held /\ c.open < x.stop
  <2>1. y = Closed(x, c.open, index)
    BY <1>1, <1>2 DEF AtStop
  <2>2. ClosedBy(y, x, c.open)
    BY <1>1, <2>1, ClosedIs
  <2> QED BY <1>2, <2>2 DEF ClosedBy
<1>3. CASE x.held /\ c.low <= x.stop /\ x.stop <= c.open
  <2>1. ~(c.open < x.stop) /\ x.stop \in Nat
    BY <1>1, <1>3
  <2>2. y = Closed(x, x.stop, index)
    BY <1>3, <2>1 DEF AtStop
  <2>3. ClosedBy(y, x, x.stop)
    BY <2>1, <2>2, ClosedIs
  <2> QED BY <1>3, <2>3 DEF ClosedBy
<1>4. CASE ~(x.held /\ c.open < x.stop) /\ ~(x.held /\ c.low <= x.stop /\ x.stop <= c.open)
  <2>1. y = x
    BY <1>4 DEF AtStop
  <2>2. ~(x.held /\ c.low <= x.stop)
    BY <1>1, <1>4
  <2> QED BY <2>1, <2>2
<1> QED BY <1>2, <1>3, <1>4

LEMMA AtCloseIs ==
  ASSUME NEW x, TrialInv(x), NEW v \in Variants, NEW c \in Candles, NEW t \in Tapes
  PROVE  LET y == AtClose(x, v, c, t)
         IN /\ TrialInv(y)
            /\ y.held = x.held /\ y.since = x.since /\ y.cost = x.cost
            /\ y.realized = x.realized /\ y.completed = x.completed /\ y.done = x.done
            /\ ~x.held => y.pending = IF t.relation = "above" /\ t.before \in {"below", "equal"}
                                      THEN "BUY" ELSE x.pending
            /\ (x.held /\ v = "dead-cross")
                 => y.pending = IF t.relation = "below" /\ t.before \in {"above", "equal"}
                                THEN "SELL" ELSE x.pending
            /\ (/\ x.held /\ v = "min-hold" /\ t.count - x.since + 1 >= MinHold
                /\ t.relation = "below")
                 => y.pending = "SELL"
<1> DEFINE y == AtClose(x, v, c, t)
           rises == t.relation = "above" /\ t.before \in {"below", "equal"}
           falls == t.relation = "below" /\ t.before \in {"above", "equal"}
           h == Larger(x.high, c.high)
           risen == [x EXCEPT !.high = h]
<1>1. x \in Trials /\ x.realized = x.done.profit - x.done.loss
  BY DEF TrialInv
<1>2. h \in Int
  BY <1>1, CandleIs DEF Larger, Trials
<1> HIDE DEF h
<1>3. /\ risen \in Trials /\ risen.held = x.held /\ risen.since = x.since /\ risen.cost = x.cost
      /\ risen.realized = x.realized /\ risen.completed = x.completed /\ risen.done = x.done
      /\ risen.pending = x.pending /\ risen.stop \in Int /\ risen.high \in Int
  BY <1>1, <1>2 DEF Trials
<1>4. y = CASE ~x.held -> IF rises THEN [x EXCEPT !.pending = "BUY"] ELSE x
            [] x.held /\ v = "dead-cross" /\ falls -> [risen EXCEPT !.pending = "SELL"]
            [] x.held /\ v = "min-hold" /\ t.count - x.since + 1 >= MinHold
               /\ t.relation = "below" -> [risen EXCEPT !.pending = "SELL"]
            [] x.held /\ v = "atr-trailing" /\ t.atr # NoAverage ->
                 [risen EXCEPT !.stop = Trailed(risen, t.atr)]
            [] OTHER -> risen
  BY DEF AtClose, h
<1> HIDE DEF y, risen, rises, falls
<1>5. CASE ~x.held
  <2>1. y = IF rises THEN [x EXCEPT !.pending = "BUY"] ELSE x
    BY <1>4, <1>5
  <2>2. /\ y \in Trials /\ y.held = x.held /\ y.since = x.since /\ y.cost = x.cost
        /\ y.realized = x.realized /\ y.completed = x.completed /\ y.done = x.done
        /\ y.pending = IF rises THEN "BUY" ELSE x.pending
    BY <1>1, <2>1 DEF Trials, Sides
  <2>3. TrialInv(y)
    BY <1>1, <2>2 DEF TrialInv
  <2> QED BY <1>5, <2>2, <2>3 DEF y, rises
<1>6. CASE x.held /\ v = "dead-cross"
  <2>1. y = IF falls THEN [risen EXCEPT !.pending = "SELL"] ELSE risen
    BY <1>4, <1>6
  <2>2. /\ y \in Trials /\ y.held = x.held /\ y.since = x.since /\ y.cost = x.cost
        /\ y.realized = x.realized /\ y.completed = x.completed /\ y.done = x.done
        /\ y.pending = IF falls THEN "SELL" ELSE x.pending
    BY <1>3, <2>1 DEF Trials, Sides
  <2>3. TrialInv(y)
    BY <1>1, <2>2 DEF TrialInv
  <2> QED BY <1>6, <2>2, <2>3 DEF y, falls
<1>7. CASE x.held /\ v = "min-hold"
  <2> DEFINE due == t.count - x.since + 1 >= MinHold /\ t.relation = "below"
  <2>1. y = IF due THEN [risen EXCEPT !.pending = "SELL"] ELSE risen
    BY <1>4, <1>7
  <2> HIDE DEF due
  <2>2. /\ y \in Trials /\ y.held = x.held /\ y.since = x.since /\ y.cost = x.cost
        /\ y.realized = x.realized /\ y.completed = x.completed /\ y.done = x.done
        /\ y.pending = IF due THEN "SELL" ELSE x.pending
    BY <1>3, <2>1 DEF Trials, Sides
  <2>3. TrialInv(y)
    BY <1>1, <2>2 DEF TrialInv
  <2> QED BY <1>7, <2>2, <2>3 DEF y, due
<1>8. CASE x.held /\ v = "atr-trailing"
  <2> DEFINE k == Trailed(risen, t.atr)
  <2>1. k \in Int
    <3>1. AtrMultiple * t.atr \in Int
      <4>1. AtrMultiple \in Int /\ t.atr \in Int
        BY NumbersAre DEF Tapes
      <4> QED BY ONLY <4>1
    <3> QED BY <1>3, <3>1 DEF Trailed, Larger
  <2>2. y = IF t.atr # NoAverage THEN [risen EXCEPT !.stop = k] ELSE risen
    BY <1>4, <1>8
  <2> HIDE DEF k
  <2>3. /\ y \in Trials /\ y.held = x.held /\ y.since = x.since /\ y.cost = x.cost
        /\ y.realized = x.realized /\ y.completed = x.completed /\ y.done = x.done
    BY <1>3, <2>1, <2>2 DEF Trials
  <2>4. TrialInv(y)
    BY <1>1, <2>3 DEF TrialInv
  <2> QED BY <1>8, <2>3, <2>4 DEF y
<1> QED BY <1>5, <1>6, <1>7, <1>8 DEF Variants

\* A bar of a counterfactual: what it keeps, and what it takes of what its rule sells.
SimulatedWell(y, x, v, c, t) ==
  /\ TrialInv(y)
  /\ (v = "atr-trailing" /\ x.held /\ c.low <= x.stop) => y.completed = x.completed + 1
  /\ (/\ v = "min-hold" /\ y.held /\ t.relation = "below"
      /\ t.count - y.since + 1 >= MinHold) => y.pending = "SELL"

LEMMA SimulatedIs ==
  ASSUME NEW x, TrialInv(x), NEW v \in Variants, NEW c \in Candles, NEW t \in Tapes
  PROVE  SimulatedWell(Simulated(x, v, c, t), x, v, c, t)
<1> DEFINE index == t.count
           o == AtOpen(x, c, index)
           z == IF v = "atr-trailing" THEN AtStop(o, c, index) ELSE o
           y == AtClose(z, v, c, t)
<1>1. index \in Int
  BY DEF Tapes
<1>2. Simulated(x, v, c, t) = y
  BY DEF Simulated
<1> HIDE DEF index
<1>3. /\ TrialInv(o) /\ o.pending = None
      /\ x.held => \/ ClosedBy(o, x, c.open)
                   \/ o.held /\ o.stop = x.stop /\ o.completed = x.completed
  BY <1>1, AtOpenIs
<1> HIDE DEF o
<1>4. TrialInv(z)
  BY <1>1, <1>3, AtStopIs
<1>5. ASSUME v = "atr-trailing", x.held, c.low <= x.stop
      PROVE  z.completed = x.completed + 1
  <2>1. CASE ClosedBy(o, x, c.open)
    <3>1. ~o.held /\ o.completed = x.completed + 1
      BY <2>1 DEF ClosedBy
    <3> QED BY <1>1, <1>3, <1>5, <3>1, AtStopIs
  <2>2. CASE o.held /\ o.stop = x.stop /\ o.completed = x.completed
    BY <1>1, <1>3, <1>5, <2>2, AtStopIs
  <2> QED BY <1>3, <1>5, <2>1, <2>2
<1> HIDE DEF z
<1>6. /\ TrialInv(y) /\ y.held = z.held /\ y.since = z.since /\ y.completed = z.completed
      /\ (/\ z.held /\ v = "min-hold" /\ t.count - z.since + 1 >= MinHold
          /\ t.relation = "below") => y.pending = "SELL"
  BY <1>4, AtCloseIs
<1> HIDE DEF y
<1> QED BY <1>2, <1>5, <1>6 DEF SimulatedWell

\* The counterfactual of the dead cross holds what the replay of the symbol does.
Mirrors(x, a) ==
  /\ x.held = (a.pos.quantity > 0) /\ x.pending = a.pending /\ x.cost = a.pos.cost
  /\ x.realized = a.pos.realized /\ x.completed = a.pos.completed
  /\ x.done.costs = a.pos.fees /\ x.done.won = a.pos.won

LEMMA MirrorsOpen ==
  ASSUME NEW a, NEW t, AloneInv(a, t), NEW c \in Candles, NEW x, TrialInv(x), Mirrors(x, a),
         NEW index \in Int, ~FilledAlone(a, c).missed
  PROVE  Mirrors(AtOpen(x, c, index), FilledAlone(a, c))
<1> DEFINE f == FilledAlone(a, c)
           p == a.pos
           price == Slipped(a.pending, c.open)
           o == AtOpen(x, c, index)
           buy == Slipped("BUY", c.open)
           sell == Slipped("SELL", c.open)
<1>1. a \in Alones /\ Rule(a.pos, a.pending, t) /\ a.pending \in Sides /\ p \in Position
  BY DEF AloneInv, Alones
<1>2. /\ f \in Alones /\ f.pending = None
      /\ \/ /\ a.pending = "BUY" /\ p.quantity = 0
            /\ f.pos = Bought(p, price) /\ f.missed = a.missed
         \/ /\ a.pending = "SELL" /\ p.quantity > 0
            /\ f.pos = Sold(p, price) /\ f.missed = a.missed
         \/ /\ ~(a.pending = "BUY" /\ p.quantity = 0) /\ ~(a.pending = "SELL" /\ p.quantity > 0)
            /\ f.pos = p /\ f.missed = a.missed
  BY <1>1, FilledAloneIs DEF Candles
<1>3. /\ o.pending = None
      /\ \/ /\ x.pending = "BUY" /\ ~x.held
            /\ o.held /\ o.cost = Needed(buy)
            /\ o.realized = x.realized /\ o.completed = x.completed
            /\ o.done.won = x.done.won
            /\ o.done.costs = x.done.costs + Fee("BUY", buy * Quantity)
         \/ /\ x.pending # None /\ x.held /\ ClosedBy(o, x, c.open)
         \/ /\ ~(x.pending = "BUY" /\ ~x.held) /\ ~(x.pending # None /\ x.held)
            /\ o.held = x.held /\ o.cost = x.cost
            /\ o.realized = x.realized /\ o.completed = x.completed /\ o.done = x.done
  BY AtOpenIs
<1>4. /\ p.quantity \in {0, Quantity} /\ p.cost \in Nat /\ p.realized \in Int
      /\ p.completed \in Nat /\ p.won \in Nat /\ p.fees \in Nat
      /\ Quantity \in Nat \ {0} /\ (p.quantity > 0 => p.quantity = Quantity)
      /\ p.quantity \in Nat
  BY <1>1, PositionIs
<1>5. /\ x.held = (p.quantity > 0) /\ x.pending = a.pending /\ x.cost = p.cost
      /\ x.realized = p.realized /\ x.completed = p.completed
      /\ x.done.costs = p.fees /\ x.done.won = p.won
  BY DEF Mirrors
<1>6. ASSUME a.pending = "BUY"
      PROVE  Mirrors(o, f)
  <2>1. p.quantity = 0 /\ price = buy
    BY <1>1, <1>6 DEF Rule
  <2>2. f.pos = Bought(p, buy)
    BY <1>2, <1>6, <2>1
  <2>3. /\ f.pos.quantity = Quantity /\ f.pos.cost = Needed(buy)
        /\ f.pos.realized = p.realized /\ f.pos.completed = p.completed /\ f.pos.won = p.won
        /\ f.pos.fees = p.fees + Fee("BUY", buy * Quantity)
    <3>1. p = [quantity |-> p.quantity, cost |-> p.cost, realized |-> p.realized,
               completed |-> p.completed, won |-> p.won, fees |-> p.fees]
      BY <1>1 DEF Position
    <3> HIDE DEF f, buy, p
    <3> QED BY <2>2, <3>1 DEF Bought, Needed
  <2>4. x.pending = "BUY" /\ ~x.held
    BY <1>4, <1>5, <1>6, <2>1
  <2> HIDE DEF o, f, p, buy
  <2>5. /\ o.held /\ o.cost = Needed(buy) /\ o.realized = x.realized /\ o.completed = x.completed
        /\ o.done.won = x.done.won /\ o.done.costs = x.done.costs + Fee("BUY", buy * Quantity)
    BY <1>3, <2>4
  <2>6. f.pos.quantity > 0
    BY <1>4, <2>3
  <2> QED BY <1>2, <1>3, <1>5, <2>3, <2>5, <2>6 DEF Mirrors
<1>7. ASSUME a.pending = "SELL"
      PROVE  Mirrors(o, f)
  <2>1. p.quantity > 0 /\ p.quantity = Quantity /\ price = sell /\ a.pending # "BUY"
    BY <1>1, <1>4, <1>7 DEF Rule
  <2>2. f.pos = Sold(p, sell)
    BY <1>2, <1>7, <2>1
  <2>3. x.pending # None /\ x.held
    BY <1>5, <1>7, <2>1 DEF None
  <2>4. ClosedBy(o, x, c.open)
    BY <1>3, <2>3
  <2> DEFINE costs == Fee("SELL", sell * Quantity)
             gross == sell * Quantity
  <2>5. Proceeds(p, sell) = gross - costs
    BY <2>1 DEF Proceeds
  <2>6. gross \in Nat /\ costs \in Nat
    <3>1. sell \in Nat
      BY SlippedIs, CandleIs
    <3>2. gross \in Nat
      BY <1>4, <3>1
    <3> QED BY <3>2, FeeIs
  <2>7. Earned(x, c.open) = gross - costs - p.cost
    BY <1>5 DEF Earned
  <2>8. /\ f.pos.quantity = 0 /\ f.pos.cost = 0
        /\ f.pos.realized = p.realized + Proceeds(p, sell) - p.cost
        /\ f.pos.completed = p.completed + 1
        /\ f.pos.won = p.won + (IF Proceeds(p, sell) > p.cost THEN 1 ELSE 0)
        /\ f.pos.fees = p.fees + costs
    BY <2>1, <2>2 DEF Sold
  <2>9. /\ ~o.held /\ o.cost = 0
        /\ o.completed = x.completed + 1 /\ o.realized = x.realized + Earned(x, c.open)
        /\ o.done.won = x.done.won + (IF Earned(x, c.open) > 0 THEN 1 ELSE 0)
        /\ o.done.costs = x.done.costs + costs
    BY <2>4 DEF ClosedBy
  <2> HIDE DEF o, f, p, sell, gross, costs
  <2>10. Earned(x, c.open) > 0 <=> Proceeds(p, sell) > p.cost
    BY <1>4, <2>5, <2>6, <2>7
  <2>11. p.realized + Proceeds(p, sell) - p.cost = x.realized + Earned(x, c.open)
    BY <1>4, <1>5, <2>5, <2>6, <2>7
  <2>12. o.held = (f.pos.quantity > 0)
    <3>1. o.held \in BOOLEAN
      BY AtOpenIs DEF TrialInv, Trials, o
    <3> QED BY <2>8, <2>9, <3>1
  <2>13. o.done.won = f.pos.won
    BY <1>5, <2>8, <2>9, <2>10
  <2> QED BY <1>2, <1>3, <1>5, <2>8, <2>9, <2>11, <2>12, <2>13 DEF Mirrors
<1>8. ASSUME a.pending = None
      PROVE  Mirrors(o, f)
  <2>1. a.pending # "BUY" /\ a.pending # "SELL"
    BY <1>8 DEF None
  <2>2. f.pos = p
    BY <1>2, <2>1
  <2>3. x.pending = None /\ x.pending # "BUY"
    BY <1>5, <1>8, <2>1
  <2> HIDE DEF o, f, p
  <2>4. /\ o.held = x.held /\ o.cost = x.cost
        /\ o.realized = x.realized /\ o.completed = x.completed /\ o.done = x.done
    BY <1>3, <2>3
  <2> QED BY <1>2, <1>3, <1>5, <2>2, <2>4 DEF Mirrors
<1> QED BY <1>1, <1>6, <1>7, <1>8 DEF Sides

LEMMA DeadCross ==
  ASSUME NEW a, NEW t, AloneInv(a, t), TapeInv(t), NEW c \in Candles, NEW x, TrialInv(x),
         ~a.missed => Mirrors(x, a), ~AfterBar(a, c, Extended(t, c)).missed
  PROVE  Mirrors(Simulated(x, "dead-cross", c, Extended(t, c)), AfterBar(a, c, Extended(t, c)))
<1> DEFINE u == Extended(t, c)
           f == FilledAlone(a, c)
           n == AfterBar(a, c, u)
           o == AtOpen(x, c, u.count)
           y == AtClose(o, "dead-cross", c, u)
<1>1. a \in Alones
  BY DEF AloneInv
<1>2. /\ n.pos = f.pos /\ n.missed = f.missed /\ n.pending = SideOf(f.pos, u)
  BY <1>1, AfterBarIs
<1>3. ~f.missed /\ f \in Alones /\ f.pos \in Position
  BY <1>1, <1>2, FilledAloneIs DEF Candles, Alones
<1>4. ~a.missed
  BY <1>1, <1>3, FilledAloneIs DEF Candles
<1>5. u \in Tapes /\ u.count \in Int
  BY ExtendedIs DEF TapeInv, Tapes
<1>6. Mirrors(o, f) /\ TrialInv(o) /\ o.pending = None
  BY <1>3, <1>4, <1>5, MirrorsOpen, AtOpenIs
<1>7. Simulated(x, "dead-cross", c, u) = y
  BY DEF Simulated
<1>8. /\ SideOf(f.pos, u) \in Sides
      /\ SideOf(f.pos, u) = "BUY" <=> (/\ f.pos.quantity = 0
                                       /\ u.relation = "above" /\ u.before \in {"below", "equal"})
      /\ SideOf(f.pos, u) = "SELL" <=> (/\ f.pos.quantity > 0
                                        /\ u.relation = "below" /\ u.before \in {"above", "equal"})
  BY <1>3, SidesAre
<1>9. f.pos.quantity = 0 \/ f.pos.quantity > 0
  BY <1>3, PositionIs
<1>10. ~(f.pos.quantity = 0 /\ f.pos.quantity > 0)
  OBVIOUS
<1> HIDE DEF o, f, u, n
<1>11. /\ y.held = o.held /\ y.cost = o.cost
       /\ y.realized = o.realized /\ y.completed = o.completed /\ y.done = o.done
       /\ ~o.held => y.pending = IF u.relation = "above" /\ u.before \in {"below", "equal"}
                                 THEN "BUY" ELSE o.pending
       /\ o.held => y.pending = IF u.relation = "below" /\ u.before \in {"above", "equal"}
                                THEN "SELL" ELSE o.pending
  BY <1>5, <1>6, AtCloseIs DEF Variants
<1> HIDE DEF y
<1>12. o.held = (f.pos.quantity > 0)
  BY <1>6 DEF Mirrors
<1>13. y.pending = SideOf(f.pos, u)
  BY <1>6, <1>8, <1>9, <1>10, <1>11, <1>12 DEF Sides, None
<1>14. Mirrors(y, n)
  BY <1>2, <1>6, <1>11, <1>13 DEF Mirrors
<1> QED BY <1>7, <1>14 DEF n, u

-----------------------------------------------------------------------------
(* A symbol of the portfolio *)

\* The same rule in the portfolio, which may have had the sale refused.
PosInv(p, signal, denied, t) ==
  /\ p \in Position /\ signal \in Signals
  /\ Rule(p, signal.side, t)
  /\ (p.quantity > 0 /\ t.relation = "below" /\ "order" \notin denied) => signal.side = "SELL"
  /\ t.count = 0 => p = Flat

LEMMA OutcomeIs ==
  ASSUME NEW p \in Position, NEW signal, NEW denied, NEW open \in Nat, NEW q, NEW refused,
         Outcome(p, signal, denied, open, q, refused)
  PROVE  /\ q \in Position /\ denied \subseteq refused
         /\ q = Flat => p = Flat
<1>1. CASE signal.side = "BUY" /\ p.quantity = 0 /\ q = Bought(p, Slipped("BUY", open)) /\ refused = denied
  <2>1. /\ q \in Position /\ q.quantity = Quantity
    BY <1>1, SlippedIs, TradesAre
  <2>2. q # Flat
    BY <2>1, ReplayAssumption DEF Flat
  <2> QED BY <1>1, <2>1, <2>2
<1>2. CASE signal.side = "SELL" /\ p.quantity > 0 /\ q = Sold(p, Slipped("SELL", open)) /\ refused = denied
  <2>1. q \in Position
    BY <1>2, SlippedIs, TradesAre
  <2>2. q.completed = p.completed + 1
    BY <1>2 DEF Sold
  <2>3. q # Flat
    BY <2>2, PositionIs DEF Flat
  <2> QED BY <1>2, <2>1, <2>3
<1>3. CASE q = p /\ denied \subseteq refused
  BY <1>3
<1> QED BY <1>1, <1>2, <1>3 DEF Outcome

LEMMA SignalMoves ==
  ASSUME NEW p, NEW signal, NEW denied, NEW t, PosInv(p, signal, denied, t), TapeInv(t),
         NEW c \in Candles, NEW q, NEW refused, Outcome(p, signal, denied, c.open, q, refused),
         NEW pend \in Signals, pend.side = SideOf(q, Extended(t, c))
  PROVE  PosInv(q, pend, refused, Extended(t, c))
<1> DEFINE u == Extended(t, c)
<1>1. /\ p \in Position /\ Rule(p, signal.side, t)
      /\ (p.quantity > 0 /\ t.relation = "below" /\ "order" \notin denied) => signal.side = "SELL"
  BY DEF PosInv
<1>2. q \in Position /\ denied \subseteq refused
  BY <1>1, OutcomeIs, CandleIs
<1>3. /\ TapeInv(u) /\ u.count = t.count + 1 /\ u.before = t.relation /\ t.count \in Nat
      /\ LongWindow \in Nat
  BY ExtendedIs, TapeIs, NumbersAre
<1>4. /\ pend.side = "BUY" <=> (/\ q.quantity = 0
                                /\ u.relation = "above" /\ u.before \in {"below", "equal"})
      /\ pend.side = "SELL" <=> (/\ q.quantity > 0
                                 /\ u.relation = "below" /\ u.before \in {"above", "equal"})
  BY <1>2, SidesAre
<1>5. Sold(p, Slipped("SELL", c.open)).quantity = 0
  BY DEF Sold
<1>6. \/ signal.side = "BUY" /\ p.quantity = 0
      \/ q.quantity = 0
      \/ q = p /\ (signal.side = "SELL" => "order" \in refused \/ p.quantity = 0)
  <2>1. p.quantity = 0 \/ p.quantity > 0
    BY <1>1, PositionIs
  <2> QED BY <1>5, <2>1 DEF Outcome
<1> HIDE DEF u
<1>7. ASSUME q.quantity > 0
      PROVE  u.count > LongWindow
  <2>1. CASE p.quantity > 0
    BY <1>1, <1>3, <2>1 DEF Rule
  <2>2. CASE signal.side = "BUY"
    <3>1. t.relation = "above"
      BY <1>1, <2>2 DEF Rule
    <3>2. t.count >= LongWindow
      BY <1>3, <3>1 DEF TapeInv, None
    <3> QED BY <1>3, <3>2
  <2> QED BY <1>6, <1>7, <2>1, <2>2
<1>8. Rule(q, pend.side, u)
  BY <1>4, <1>7 DEF Rule
<1>9. ASSUME q.quantity > 0, u.relation = "below", "order" \notin refused
      PROVE  pend.side = "SELL"
  <2>1. u.before # "below"
    <3>1. SUFFICES ASSUME t.relation = "below" PROVE FALSE
      BY <1>3
    <3>2. signal.side # "BUY"
      BY <1>1, <3>1 DEF Rule
    <3>3. q = p /\ p.quantity > 0 /\ signal.side # "SELL"
      BY <1>6, <1>9, <3>2
    <3> QED BY <1>1, <1>2, <1>9, <3>1, <3>3
  <2>2. u.before \in {"above", "equal"}
    <3>1. u.before # None
      BY <1>3, <1>7, <1>9, CrossingIs DEF u
    <3> QED BY <1>3, <2>1, <3>1 DEF TapeInv, Tapes, Relations
  <2> QED BY <1>4, <1>9, <2>2
<1>10. u.count # 0
  BY <1>3
<1> QED BY <1>2, <1>8, <1>9, <1>10 DEF PosInv, u

\* A symbol of which nothing was refused is as in the replay of that symbol.
Agrees(p, signal, denied, a) ==
  (denied = {} /\ ~a.missed) => p = a.pos /\ signal.side = a.pending

LEMMA AgreesStill ==
  ASSUME NEW p, NEW signal, NEW denied, NEW t, PosInv(p, signal, denied, t), TapeInv(t),
         NEW a, AloneInv(a, t), Agrees(p, signal, denied, a),
         NEW c \in Candles, NEW q, NEW refused, Outcome(p, signal, denied, c.open, q, refused),
         NEW pend, pend.side = SideOf(q, Extended(t, c))
  PROVE  /\ Agrees(q, pend, refused, AfterBar(a, c, Extended(t, c)))
         /\ ~AfterBar(a, c, Extended(t, c)).missed => ~a.missed
<1> DEFINE u == Extended(t, c)
           f == FilledAlone(a, c)
           n == AfterBar(a, c, u)
<1>1. a \in Alones /\ a.pos \in Position /\ p \in Position
  BY DEF AloneInv, Alones, PosInv
<1>2. /\ n.pos = f.pos /\ n.missed = f.missed /\ n.pending = SideOf(f.pos, u)
  BY <1>1, AfterBarIs
<1>3. \/ /\ a.pending = "BUY" /\ a.pos.quantity = 0
         /\ f.pos = Bought(a.pos, Slipped("BUY", c.open)) /\ f.missed = a.missed
      \/ f.missed
      \/ /\ a.pending = "SELL" /\ a.pos.quantity > 0
         /\ f.pos = Sold(a.pos, Slipped("SELL", c.open)) /\ f.missed = a.missed
      \/ /\ ~(a.pending = "BUY" /\ a.pos.quantity = 0)
         /\ ~(a.pending = "SELL" /\ a.pos.quantity > 0)
         /\ f.pos = a.pos /\ f.missed = a.missed
  BY <1>1, FilledAloneIs DEF Candles
<1>4. denied \subseteq refused
  BY <1>1, OutcomeIs, CandleIs
<1>5. ~f.missed => ~a.missed
  BY <1>3
<1>6. ASSUME refused = {}, ~f.missed
      PROVE  q = f.pos
  <2>1. denied = {} /\ p = a.pos /\ signal.side = a.pending
    BY <1>4, <1>5, <1>6 DEF Agrees
  <2>2. \/ /\ a.pending = "BUY" /\ a.pos.quantity = 0
           /\ q = Bought(a.pos, Slipped("BUY", c.open))
        \/ /\ a.pending = "SELL" /\ a.pos.quantity > 0
           /\ q = Sold(a.pos, Slipped("SELL", c.open))
        \/ /\ ~(a.pending = "BUY" /\ a.pos.quantity = 0)
           /\ ~(a.pending = "SELL" /\ a.pos.quantity > 0)
           /\ q = a.pos
    BY <1>6, <2>1 DEF Outcome
  <2> QED BY <1>3, <1>6, <2>2
<1> QED BY <1>2, <1>5, <1>6 DEF Agrees

-----------------------------------------------------------------------------
(* The portfolio after a timestamp *)

\* The crossings and the drawdown leave the books as the orders left them.
LEMMA NextBookIs ==
  ASSUME NEW b, BookInv(b), NEW tapes, NEW active, NEW e \in Int,
         \A s \in Symbols \cap active : /\ Last(tapes[s].last).close \in Nat
                                        /\ b.pending[s] = NoSignal
  PROVE  LET n == Drawn(Signalled(b, tapes, active), e)
         IN /\ BookInv(n)
            /\ n.cash = b.cash /\ n.pos = b.pos /\ n.refused = b.refused /\ n.buys = b.buys
            /\ n.peak = NewPeak(b.peak, e) /\ n.worst = NewWorst(b.peak, b.worst, e)
            /\ \A s \in Symbols : s \notin active => n.pending[s] = b.pending[s]
            /\ \A s \in Symbols \cap active : n.pending[s].side = SideOf(b.pos[s], tapes[s])
<1> DEFINE Crossed(s) == /\ s \in active /\ tapes[s].count > LongWindow
                         /\ Wanted(b.pos[s], Crossing(Closes(tapes[s])))
           pending == [s \in Symbols |-> IF Crossed(s) THEN SignalOf(tapes[s]) ELSE b.pending[s]]
           m == Signalled(b, tapes, active)
           k == NewPeak(b.peak, e)
           w == NewWorst(b.peak, b.worst, e)
           z == [m EXCEPT !.peak = k]
           n == Drawn(m, e)
<1>1. /\ b \in Books /\ b.cash = InitialCash + Total(Flow(b)) /\ OpenPositions(b) <= limits.open
      /\ \A d \in Days : b.buys[d] <= limits.daily
  BY DEF BookInv
<1>2. /\ b = [cash |-> b.cash, pos |-> b.pos, pending |-> b.pending, buys |-> b.buys,
              refused |-> b.refused, peak |-> b.peak, worst |-> b.worst]
      /\ b.peak \in Nat \ {0} /\ b.worst \in Nat
      /\ b.pending \in [Symbols -> Signals]
  BY <1>1 DEF Books
<1>3. m = [b EXCEPT !.pending = pending]
  BY DEF Signalled
<1>4. ASSUME NEW s \in Symbols
      PROVE  /\ pending[s] = IF Crossed(s) THEN SignalOf(tapes[s]) ELSE b.pending[s]
             /\ Crossed(s) => /\ SignalOf(tapes[s]) \in Signals
                              /\ SignalOf(tapes[s]).side = SideOf(b.pos[s], tapes[s])
             /\ (s \in active /\ ~Crossed(s)) => SideOf(b.pos[s], tapes[s]) = None
  <2>1. ASSUME Crossed(s)
        PROVE  /\ SignalOf(tapes[s]) \in Signals
               /\ SignalOf(tapes[s]).side = SideOf(b.pos[s], tapes[s])
    <3> DEFINE x == Crossing(Closes(tapes[s]))
               price == Last(tapes[s].last).close
    <3>1. x \in {"BUY", "SELL"} /\ SideOf(b.pos[s], tapes[s]) = x
      BY <2>1 DEF Wanted, SideOf
    <3>2. price \in Nat
      BY <2>1
    <3>3. SignalOf(tapes[s]) = [side |-> x, price |-> price, quantity |-> Quantity]
      BY DEF SignalOf
    <3> HIDE DEF x, price
    <3>4. SignalOf(tapes[s]) \in Signals
      BY <3>1, <3>2, <3>3 DEF Signals
    <3> QED BY <3>1, <3>3, <3>4
  <2>2. (s \in active /\ ~Crossed(s)) => SideOf(b.pos[s], tapes[s]) = None
    BY DEF SideOf
  <2> QED BY <2>1, <2>2
<1>5. pending \in [Symbols -> Signals]
  <2>1. ASSUME NEW s \in Symbols PROVE pending[s] \in Signals
    BY <1>2, <1>4
  <2> HIDE DEF Crossed
  <2>2. pending = [s \in Symbols |-> pending[s]]
    OBVIOUS
  <2> HIDE DEF pending
  <2> QED BY <2>1, <2>2
<1>6. /\ \A s \in Symbols : s \notin active => pending[s] = b.pending[s]
      /\ \A s \in Symbols \cap active : pending[s].side = SideOf(b.pos[s], tapes[s])
  <2>1. NoSignal.side = None
    BY DEF NoSignal
  <2>2. ASSUME NEW s \in Symbols, s \notin active PROVE pending[s] = b.pending[s]
    BY <1>4, <2>2
  <2>3. ASSUME NEW s \in Symbols \cap active PROVE pending[s].side = SideOf(b.pos[s], tapes[s])
    <3>1. CASE Crossed(s)
      BY <1>4, <3>1
    <3>2. CASE ~Crossed(s)
      BY <1>4, <2>1, <3>2
    <3> QED BY <3>1, <3>2
  <2> QED BY <2>2, <2>3
<1> HIDE DEF pending, k, w, m
<1>7. m = [cash |-> b.cash, pos |-> b.pos, pending |-> pending, buys |-> b.buys,
           refused |-> b.refused, peak |-> b.peak, worst |-> b.worst]
  BY <1>2, <1>3
<1>8. z = [cash |-> b.cash, pos |-> b.pos, pending |-> pending, buys |-> b.buys,
           refused |-> b.refused, peak |-> k, worst |-> b.worst]
  BY <1>7
<1>9. n = [z EXCEPT !.worst = w]
  <2>1. m.peak = b.peak /\ m.worst = b.worst
    BY <1>7
  <2> QED BY <2>1 DEF Drawn, k, w, NewPeak, NewWorst
<1> HIDE DEF z, n
<1>10. n = [cash |-> b.cash, pos |-> b.pos, pending |-> pending, buys |-> b.buys,
            refused |-> b.refused, peak |-> k, worst |-> w]
  BY <1>8, <1>9
<1>11. k \in Nat \ {0} /\ w \in Nat
  BY <1>2, DrawnIs DEF k, w
<1>12. n \in Books
  BY <1>1, <1>5, <1>10, <1>11 DEF Books
<1>13. n.cash = b.cash /\ n.pos = b.pos /\ n.buys = b.buys
  BY <1>10
<1>14. Flow(n) = Flow(b) /\ OpenPositions(n) = OpenPositions(b)
  BY <1>13 DEF Flow, OpenPositions
<1>15. BookInv(n)
  BY <1>1, <1>12, <1>13, <1>14 DEF BookInv
<1> QED BY <1>6, <1>10, <1>15 DEF n, m, k, w

\* The snapshot of a position: its value is its cost and what it would earn.
LEMMA SnapshotIs ==
  ASSUME NEW p \in Position, NEW t, TapeInv(t), t.count = 0 => p = Flat
  PROVE  /\ SnapshotPosition(p, t).value \in Int /\ SnapshotPosition(p, t).unrealized \in Int
         /\ SnapshotPosition(p, t).value = SnapshotPosition(p, t).unrealized + p.cost
<1>1. CASE t.count = 0
  <2>1. p.cost = 0
    BY <1>1 DEF Flat
  <2> QED BY <1>1, <2>1 DEF SnapshotPosition
<1>2. CASE t.count # 0
  <2> DEFINE close == Last(t.last).close
             value == p.quantity * close
  <2>1. close \in Nat
    <3>1. t.last \in Seq(Candles) /\ t.last # <<>>
      <4>1. t.last \in Seq(Candles) /\ t.count \in Nat /\ LongWindow \in Nat
            /\ Len(t.last) = IF t.count <= LongWindow THEN t.count ELSE LongWindow + 1
        BY TapeIs, NumbersAre
      <4>2. Len(t.last) # 0
        BY <1>2, <4>1
      <4> QED BY <4>1, <4>2
    <3>2. Last(t.last) \in Candles
      BY <3>1 DEF Last
    <3> QED BY <3>2, CandleIs
  <2> HIDE DEF close
  <2>2. p.quantity \in Nat /\ p.cost \in Nat /\ (p.quantity = 0 => p.cost = 0)
    BY PositionIs
  <2>3. value \in Nat /\ (p.quantity = 0 => value = 0)
    BY <2>1, <2>2
  <2>4. /\ SnapshotPosition(p, t).value = value
        /\ SnapshotPosition(p, t).unrealized = IF p.quantity > 0 THEN value - p.cost ELSE 0
    BY <1>2 DEF SnapshotPosition, close
  <2> HIDE DEF value
  <2> QED BY <2>2, <2>3, <2>4
<1> QED BY <1>1, <1>2

\* A snapshot that balances.
Even(snapshot) == snapshot.equity = InitialCash + snapshot.realized + snapshot.unrealized

\* The snapshot of the books balances.
LEMMA ValuedIs ==
  ASSUME NEW b, BookInv(b), NEW tapes,
         \A s \in Symbols : TapeInv(tapes[s]) /\ (tapes[s].count = 0 => b.pos[s] = Flat)
  PROVE  Even(Valued(b, tapes)) /\ Valued(b, tapes).equity \in Int
<1> DEFINE seen == [s \in Symbols |-> SnapshotPosition(b.pos[s], tapes[s])]
           values == [s \in Symbols |-> seen[s].value]
           open == [s \in Symbols |-> seen[s].unrealized]
           earned == [s \in Symbols |-> b.pos[s].realized]
           costs == [s \in Symbols |-> b.pos[s].cost]
           flow == Flow(b)
<1>1. /\ b \in Books /\ b.cash = InitialCash + Total(flow) /\ b.cash \in Nat
      /\ flow \in [Symbols -> Int] /\ Total(flow) \in Int
  BY FlowIs DEF BookInv, Books
<1>2. ASSUME NEW s \in Symbols
      PROVE  /\ values[s] \in Int /\ open[s] \in Int /\ values[s] = open[s] + costs[s]
             /\ earned[s] \in Int /\ costs[s] \in Int /\ earned[s] = flow[s] + costs[s]
  <2>1. b.pos[s] \in Position
    BY <1>1 DEF Books
  <2>2. b.pos[s].realized \in Int /\ b.pos[s].cost \in Int
    BY <2>1, PositionIs
  <2>3. flow[s] = b.pos[s].realized - b.pos[s].cost
    BY DEF Flow
  <2> QED BY <2>1, <2>2, <2>3, SnapshotIs
<1>3. /\ Valued(b, tapes).equity = b.cash + Total(values)
      /\ Valued(b, tapes).realized = Total(earned)
      /\ Valued(b, tapes).unrealized = Total(open)
  BY DEF Valued
<1>4. /\ values \in [Symbols -> Int] /\ open \in [Symbols -> Int] /\ earned \in [Symbols -> Int]
      /\ costs \in [Symbols -> Int]
  <2>1. values \in [Symbols -> Int]
    BY <1>2
  <2>2. open \in [Symbols -> Int]
    BY <1>2
  <2>3. earned \in [Symbols -> Int]
    BY <1>2
  <2>4. costs \in [Symbols -> Int]
    BY <1>2
  <2> QED BY <2>1, <2>2, <2>3, <2>4
<1> HIDE DEF values, open, earned, costs, flow
<1>5. Total(values) = Total(open) + Total(costs)
  BY <1>2, <1>4, TotalPlus
<1>6. Total(earned) = Total(flow) + Total(costs)
  BY <1>1, <1>2, <1>4, TotalPlus
<1>7. Total(values) \in Int /\ Total(open) \in Int /\ Total(costs) \in Int /\ Total(earned) \in Int
  BY <1>4, TotalIs
<1>8. InitialCash \in Int
  BY ReplayAssumption
<1>9. b.cash + Total(values) = InitialCash + Total(earned) + Total(open)
  BY <1>1, <1>5, <1>6, <1>7, <1>8
<1>10. b.cash + Total(values) \in Int
  BY <1>1, <1>7
<1> QED BY <1>3, <1>9, <1>10 DEF Even

\* The books of which only one symbol ever traded are the books of that symbol.
LEMMA SoleIs ==
  ASSUME NEW b, BookInv(b), NEW tapes,
         \A s \in Symbols : TapeInv(tapes[s]) /\ (tapes[s].count = 0 => b.pos[s] = Flat),
         NEW s \in Symbols, \A r \in Symbols \ {s} : b.pos[r] = Flat
  PROVE  /\ b.cash = InitialCash + b.pos[s].realized - b.pos[s].cost
         /\ Valued(b, tapes).equity = b.cash + SnapshotPosition(b.pos[s], tapes[s]).value
<1> DEFINE seen == [r \in Symbols |-> SnapshotPosition(b.pos[r], tapes[r])]
           values == [r \in Symbols |-> seen[r].value]
           flow == Flow(b)
<1>1. /\ b \in Books /\ b.cash = InitialCash + Total(flow) /\ b.cash \in Nat
      /\ flow \in [Symbols -> Int]
  BY FlowIs DEF BookInv, Books
<1>2. ASSUME NEW r \in Symbols
      PROVE  values[r] \in Int /\ values[r] = SnapshotPosition(b.pos[r], tapes[r]).value
  <2>1. b.pos[r] \in Position
    BY <1>1 DEF Books
  <2> QED BY <2>1, SnapshotIs
<1>3. values \in [Symbols -> Int]
  BY <1>2
<1>4. ASSUME NEW r \in Symbols \ {s}
      PROVE  values[r] = 0 /\ flow[r] = 0
  <2>1. b.pos[r] = Flat /\ b.pos[r] \in Position /\ r \in Symbols
    BY <1>1, <1>4 DEF Books
  <2>2. flow[r] = 0
    BY <2>1 DEF Flow, Flat
  <2>3. /\ SnapshotPosition(b.pos[r], tapes[r]).value
             = SnapshotPosition(b.pos[r], tapes[r]).unrealized + b.pos[r].cost
        /\ SnapshotPosition(b.pos[r], tapes[r]).unrealized = 0
    <3>1. SnapshotPosition(b.pos[r], tapes[r]).value
            = SnapshotPosition(b.pos[r], tapes[r]).unrealized + b.pos[r].cost
      BY <2>1, SnapshotIs
    <3>2. b.pos[r].quantity = 0
      BY <2>1 DEF Flat
    <3>3. SnapshotPosition(b.pos[r], tapes[r]).unrealized = 0
      BY <3>2 DEF SnapshotPosition
    <3> QED BY <3>1, <3>3
  <2>4. b.pos[r].cost = 0
    BY <2>1 DEF Flat
  <2>5. values[r] = SnapshotPosition(b.pos[r], tapes[r]).value
    BY <1>2, <2>1
  <2> QED BY <2>2, <2>3, <2>4, <2>5
<1>5. Valued(b, tapes).equity = b.cash + Total(values)
  BY DEF Valued
<1>6. flow[s] = b.pos[s].realized - b.pos[s].cost
  BY DEF Flow
<1> HIDE DEF values, flow
<1>7. Total(values) = values[s] /\ Total(flow) = flow[s]
  BY <1>1, <1>3, <1>4, TotalSingle
<1>8. values[s] = SnapshotPosition(b.pos[s], tapes[s]).value
  BY <1>2
<1>9. b.pos[s].realized \in Int /\ b.pos[s].cost \in Int /\ InitialCash \in Int
  BY <1>1, PositionIs, NumbersAre DEF Books
<1>10. b.cash = InitialCash + Total(flow) /\ b.cash \in Nat
  BY <1>1
<1> QED BY ONLY <1>5, <1>6, <1>7, <1>8, <1>9, <1>10

\* What the replay of that symbol is worth, and has seen.
LEMMA AloneSees ==
  ASSUME NEW a, NEW t, TapeInv(t), AloneInv(a, t), NEW cash,
         cash = InitialCash + a.pos.realized - a.pos.cost
  PROVE  /\ t.count > 0 => cash + SnapshotPosition(a.pos, t).value = EquityAlone(a, t)
         /\ Seen(a.peak, a.worst, cash + SnapshotPosition(a.pos, t).value)
         /\ a.peak \in Nat \ {0} /\ a.worst \in Nat
         /\ cash + SnapshotPosition(a.pos, t).value \in Int
<1>1. /\ a \in Alones /\ cash = a.cash /\ a.pos \in Position /\ a.cash \in Nat
      /\ t.count = 0 => a.pos = Flat /\ a.peak = InitialCash /\ a.worst = 0
      /\ t.count > 0 => Seen(a.peak, a.worst, EquityAlone(a, t))
      /\ a.peak \in Nat \ {0} /\ a.worst \in Nat
  BY DEF AloneInv, Alones
<1>2. t.count \in Nat
  BY DEF TapeInv, Tapes
<1>3. t.count > 0 => cash + SnapshotPosition(a.pos, t).value = EquityAlone(a, t)
  BY <1>1, <1>2 DEF SnapshotPosition, EquityAlone
<1>4. SnapshotPosition(a.pos, t).value \in Int
  BY <1>1, SnapshotIs
<1>5. CASE t.count = 0
  <2>1. a.cash = InitialCash /\ SnapshotPosition(a.pos, t).value = 0
    <3>1. a.pos.realized = 0 /\ a.pos.cost = 0
      BY <1>1, <1>5 DEF Flat
    <3>2. InitialCash \in Int
      BY ReplayAssumption
    <3> QED BY <1>1, <1>5, <3>1, <3>2 DEF SnapshotPosition
  <2>2. InitialCash \in Nat \ {0}
    BY ReplayAssumption
  <2>3. ((InitialCash - InitialCash) * 1000) \div InitialCash = 0
    BY <2>2
  <2>4. Seen(InitialCash, 0, InitialCash)
    BY <2>2, <2>3 DEF Seen
  <2>5. cash + SnapshotPosition(a.pos, t).value = InitialCash
    BY <1>1, <2>1, <2>2
  <2> QED BY <1>1, <1>3, <1>5, <2>2, <2>4, <2>5
<1>6. CASE t.count > 0
  <2>1. cash + SnapshotPosition(a.pos, t).value \in Int
    BY <1>1, <1>4
  <2> QED BY <1>1, <1>3, <1>6, <2>1
<1> QED BY <1>2, <1>5, <1>6

-----------------------------------------------------------------------------
(* The invariant *)

\* Only s ever traded, and nothing of it was refused or missed.
OnlyTraded(s) ==
  /\ book.refused[s] = {} /\ ~alone[s].missed
  /\ \A r \in Symbols \ {s} : book.pos[r] = Flat

\* What holds of one symbol: each replay by itself, and one compared with the next.
SymbolInv(s) ==
  /\ TapeInv(tape[s])
  /\ PosInv(book.pos[s], book.pending[s], book.refused[s], tape[s])
  /\ AloneInv(alone[s], tape[s])
  /\ Agrees(book.pos[s], book.pending[s], book.refused[s], alone[s])
  /\ \A v \in Variants : TrialInv(trial[s][v])
  /\ ~alone[s].missed => Mirrors(trial[s]["dead-cross"], alone[s])
  /\ OnlyTraded(s) => book.peak = alone[s].peak /\ book.worst = alone[s].worst

\* The inductive invariant: the books, the timeline so far with the snapshot of the
\* last timestamp being that of now, and every symbol.
ReplayInv ==
  /\ now \in 0..Times /\ limits \in Limits
  /\ BookInv(book)
  /\ timeline = [d \in Days |-> timeline[d]] /\ \A d \in Days : Even(timeline[d])
  /\ now = 0 => \A s \in Symbols : tape[s].count = 0
  /\ now > 0 => timeline[(now - 1) \div DayLength] = Valued(book, tape)
  /\ \A s \in Symbols : SymbolInv(s)

LEMMA DaysAre ==
  ASSUME NEW n \in 0..Times
  PROVE  n \div DayLength \in Days
<1>1. Times \in Nat /\ DayLength \in Nat \ {0} /\ n \in Nat /\ n <= Times
  BY ReplayAssumption
<1> QED BY <1>1, Division DEF Days

LEMMA InitHolds == ReplayInit => ReplayInv
<1> SUFFICES ASSUME ReplayInit PROVE ReplayInv
  OBVIOUS
<1> USE DEF ReplayInit
<1>1. now \in 0..Times /\ limits \in Limits
  BY ReplayAssumption
<1>2. Flat \in Position
  BY ReplayAssumption DEF Flat, Position
<1>3. /\ \A s \in Symbols : /\ book.pos[s] = Flat /\ book.pending[s] = NoSignal
                            /\ book.refused[s] = {}
      /\ book.cash = InitialCash /\ \A d \in Days : book.buys[d] = 0
      /\ book.peak = InitialCash /\ book.worst = 0
  OBVIOUS
<1>4. BookInv(book)
  <2>1. limits.open \in Nat /\ limits.daily \in Nat /\ InitialCash \in Nat \ {0}
    BY ReplayAssumption
  <2>2. book \in Books
    <3>1. [s \in Symbols |-> Flat] \in [Symbols -> Position]
      BY <1>2
    <3>2. [s \in Symbols |-> NoSignal] \in [Symbols -> Signals]
      BY DEF Signals
    <3>3. [d \in Days |-> 0] \in [Days -> Nat]
      OBVIOUS
    <3>4. [s \in Symbols |-> {}] \in [Symbols -> SUBSET Reasons]
      OBVIOUS
    <3> QED BY <2>1, <3>1, <3>2, <3>3, <3>4 DEF Books
  <2>3. \A s \in Symbols : Flow(book)[s] = 0
    BY <1>3 DEF Flow, Flat
  <2>4. PICK s \in Symbols : TRUE
    BY NamesAre
  <2>5. Total(Flow(book)) = 0
    BY <2>2, <2>3, <2>4, FlowIs, TotalSingle
  <2>6. OpenPositions(book) = 0
    <3>1. Holding(book) = {}
      BY <1>3 DEF Holding, Flat
    <3> QED BY <3>1, HoldingIs, FS_EmptySet
  <2> QED BY <1>3, <2>1, <2>2, <2>5, <2>6 DEF BookInv
<1>5. timeline = [d \in Days |-> timeline[d]] /\ \A d \in Days : Even(timeline[d])
  BY ReplayAssumption DEF Even, Unseen
<1>6. now = 0 /\ \A s \in Symbols : tape[s].count = 0
  BY DEF NewTape
<1>7. ASSUME NEW s \in Symbols PROVE SymbolInv(s)
  <2>1. /\ tape[s] = NewTape /\ trial[s] = [v \in Variants |-> NewTrial]
        /\ alone[s] = [cash |-> InitialCash, pos |-> Flat, pending |-> None, missed |-> FALSE,
                       peak |-> InitialCash, worst |-> 0]
    OBVIOUS
  <2>2. /\ LongWindow \in Nat /\ ShortWindow \in Nat /\ ShortWindow < LongWindow /\ 0 < ShortWindow
        /\ InitialCash \in Nat \ {0} /\ LongWindow > 0
    BY ReplayAssumption
  <2>3. TapeInv(NewTape)
    <3>1. NewTape \in Tapes
      BY DEF NewTape, Tapes, Relations, NoAverage
    <3>2. /\ NewTape.count = 0 /\ NewTape.last = <<>> /\ NewTape.relation = None
      BY DEF NewTape
    <3> QED BY <2>2, <3>1, <3>2 DEF TapeInv
  <2>4. PosInv(Flat, NoSignal, {}, NewTape)
    <3>1. /\ NoSignal \in Signals /\ NoSignal.side # "BUY" /\ NoSignal.side # "SELL"
          /\ Flat.quantity = 0
      BY DEF NoSignal, Signals, Flat, None
    <3> QED BY <1>2, <3>1 DEF PosInv, Rule
  <2>5. AloneInv(alone[s], NewTape)
    <3>1. alone[s] \in Alones
      BY <1>2, <2>1, <2>2 DEF Alones, Sides
    <3>2. /\ alone[s].cash = InitialCash /\ alone[s].pos = Flat /\ alone[s].pending = None
          /\ alone[s].peak = InitialCash /\ alone[s].worst = 0
      BY <2>1
    <3>3. /\ Flat.realized = 0 /\ Flat.cost = 0 /\ Flat.quantity = 0
          /\ NewTape.count = 0 /\ NewTape.relation = None
      BY DEF Flat, NewTape
    <3>4. Rule(Flat, None, NewTape)
      BY <3>3 DEF Rule, None
    <3>5. InitialCash = InitialCash + Flat.realized - Flat.cost
      BY <2>2, <3>3
    <3> QED BY <3>1, <3>2, <3>3, <3>4, <3>5 DEF AloneInv
  <2>6. Agrees(Flat, NoSignal, {}, alone[s])
    BY <2>1 DEF Agrees, NoSignal
  <2>7. TrialInv(NewTrial)
    <3>1. NewTrial \in Trials
      <4>1. NoSummary \in Summaries
        BY DEF NoSummary, Summaries
      <4>2. NoStop \in Int /\ None \in Sides
        BY DEF NoStop, Sides
      <4> QED BY <4>1, <4>2 DEF NewTrial, Trials
    <3> QED BY <3>1 DEF TrialInv, NewTrial, NoSummary
  <2>8. Mirrors(NewTrial, alone[s])
    <3>1. alone[s].pos = Flat /\ alone[s].pending = None
      BY <2>1
    <3>2. /\ Flat.quantity = 0 /\ Flat.cost = 0 /\ Flat.realized = 0 /\ Flat.completed = 0
          /\ Flat.fees = 0 /\ Flat.won = 0
      BY DEF Flat
    <3>3. /\ NewTrial.held = FALSE /\ NewTrial.pending = None /\ NewTrial.cost = 0
          /\ NewTrial.realized = 0 /\ NewTrial.completed = 0
          /\ NewTrial.done.costs = 0 /\ NewTrial.done.won = 0
      BY DEF NewTrial, NoSummary
    <3>4. ~(Flat.quantity > 0)
      BY <3>2
    <3>5. NewTrial.held = (alone[s].pos.quantity > 0)
      <4>1. (alone[s].pos.quantity > 0) = FALSE
        BY <3>1, <3>4
      <4>2. NewTrial.held = FALSE
        BY <3>3
      <4> HIDE DEF ReplayInit
      <4> QED BY <4>1, <4>2
    <3> QED BY <3>1, <3>2, <3>3, <3>5 DEF Mirrors
  <2>9. book.peak = alone[s].peak /\ book.worst = alone[s].worst
    BY <1>3, <2>1
  <2>10. "dead-cross" \in Variants
    BY DEF Variants
  <2>11. \A v \in Variants : trial[s][v] = NewTrial
    BY <2>1
  <2> QED BY <1>3, <2>1, <2>3, <2>4, <2>5, <2>6, <2>7, <2>8, <2>9, <2>10, <2>11 DEF SymbolInv
<1>8. ~(now > 0)
  BY <1>6
<1> QED BY <1>1, <1>4, <1>5, <1>6, <1>7, <1>8 DEF ReplayInv

\* What a timestamp does to the symbols with a bar, and to the others.
Barred(s, c) ==
  /\ c \in Candles
  /\ tape'[s] = Extended(tape[s], c)
  /\ alone'[s] = AfterBar(alone[s], c, tape'[s])
  /\ \A v \in Variants : trial'[s][v] = Simulated(trial[s][v], v, c, tape'[s])
  /\ Outcome(book.pos[s], book.pending[s], book.refused[s], c.open, book'.pos[s], book'.refused[s])
  /\ book'.pending[s] \in Signals /\ book'.pending[s].side = SideOf(book'.pos[s], tape'[s])

Barless(s) ==
  /\ tape'[s] = tape[s] /\ alone'[s] = alone[s] /\ trial'[s] = trial[s]
  /\ book'.pos[s] = book.pos[s] /\ book'.pending[s] = book.pending[s]
  /\ book'.refused[s] = book.refused[s]

Stepped(bar) ==
  LET seen == Valued(book', tape')
  IN /\ now \in 0..Times /\ now' \in 0..Times /\ now' = now + 1 /\ limits' = limits
     /\ BookInv(book')
     /\ book'.peak = NewPeak(book.peak, seen.equity)
     /\ book'.worst = NewWorst(book.peak, book.worst, seen.equity)
     /\ seen.equity \in Int /\ Even(seen)
     /\ timeline' = [timeline EXCEPT ![Today] = seen]
     /\ \A s \in Symbols : TapeInv(tape'[s]) /\ (tape'[s].count = 0 => book'.pos[s] = Flat)
     /\ \A s \in DOMAIN bar : Barred(s, bar[s])
     /\ \A s \in Symbols \ DOMAIN bar : Barless(s)

LEMMA CandlesAre ==
  ASSUME NEW c \in Shapes \cup {Warm}
  PROVE  Candle(c) /\ c \in Candles
BY ReplayAssumption DEF Candle, Candles

LEMMA StepIs ==
  ASSUME ReplayInv, NEW bar, DOMAIN bar \subseteq Symbols, \A s \in DOMAIN bar : bar[s] \in Shapes \cup {Warm},
         Timestamp(bar)
  PROVE  Stepped(bar)
<1> DEFINE active == DOMAIN bar
           b == Opened(bar)
           tapes == [s \in Symbols |-> IF s \in active THEN Extended(tape[s], bar[s]) ELSE tape[s]]
           e == Valued(b, tapes).equity
<1>1. /\ now \in 0..Times /\ limits \in Limits /\ BookInv(book)
      /\ \A s \in Symbols : SymbolInv(s)
  BY DEF ReplayInv
<1>2. /\ now < Times /\ now' = now + 1 /\ limits' = limits
      /\ tape' = tapes
      /\ book' = Drawn(Signalled(b, tapes, active), e)
      /\ timeline' = [timeline EXCEPT ![Today] = Valued(b, tapes)]
      /\ alone' = [s \in Symbols |->
           IF s \in active THEN AfterBar(alone[s], bar[s], tapes[s]) ELSE alone[s]]
      /\ trial' = [s \in Symbols |->
           IF s \in active
           THEN [v \in Variants |-> Simulated(trial[s][v], v, bar[s], tapes[s])]
           ELSE trial[s]]
  BY DEF Timestamp, Today
<1>3. now' \in 0..Times
  BY <1>1, <1>2, ReplayAssumption
<1>4. Today \in Days
  BY <1>1, DaysAre DEF Today
<1>5. \A s \in active : Candle(bar[s]) /\ bar[s] \in Candles
  BY CandlesAre
<1>6. /\ BookInv(b) /\ b.peak = book.peak /\ b.worst = book.worst
      /\ \A s \in Symbols \ active :
           /\ b.pos[s] = book.pos[s] /\ b.pending[s] = book.pending[s]
           /\ b.refused[s] = book.refused[s]
      /\ \A s \in Symbols \cap active :
           /\ b.pending[s] = NoSignal
           /\ Outcome(book.pos[s], book.pending[s], book.refused[s], bar[s].open,
                      b.pos[s], b.refused[s])
  BY <1>1, <1>4, <1>5, OpenedIs
<1>7. ASSUME NEW s \in Symbols
      PROVE  /\ s \in active => tapes[s] = Extended(tape[s], bar[s])
             /\ s \notin active => tapes[s] = tape[s]
             /\ TapeInv(tapes[s]) /\ (tapes[s].count = 0 => b.pos[s] = Flat)
             /\ s \in active => Last(tapes[s].last).close \in Nat
  <2>1. /\ s \in active => tapes[s] = Extended(tape[s], bar[s])
        /\ s \notin active => tapes[s] = tape[s]
    OBVIOUS
  <2> HIDE DEF tapes, b
  <2>2. TapeInv(tape[s]) /\ (tape[s].count = 0 => book.pos[s] = Flat) /\ tape[s].count \in Nat
    BY <1>1 DEF SymbolInv, PosInv, TapeInv, Tapes
  <2>3. CASE s \in active
    <3>1. /\ TapeInv(tapes[s]) /\ tapes[s].count = tape[s].count + 1
          /\ Last(tapes[s].last) = bar[s]
      BY <1>5, <2>1, <2>2, <2>3, ExtendedIs
    <3>2. bar[s].close \in Nat
      BY <1>5, <2>3, CandleIs
    <3> QED BY <2>1, <2>2, <3>1, <3>2
  <2>4. CASE s \notin active
    BY <1>6, <2>1, <2>2, <2>4
  <2> QED BY <2>3, <2>4, <2>1
<1> HIDE DEF tapes, b, e, active
<1>8. e \in Int /\ Even(Valued(b, tapes))
  BY <1>6, <1>7, ValuedIs DEF e
<1>9. /\ BookInv(book')
      /\ book'.cash = b.cash /\ book'.pos = b.pos /\ book'.refused = b.refused
      /\ book'.peak = NewPeak(b.peak, e) /\ book'.worst = NewWorst(b.peak, b.worst, e)
      /\ \A s \in Symbols : s \notin active => book'.pending[s] = b.pending[s]
      /\ \A s \in Symbols \cap active : book'.pending[s].side = SideOf(b.pos[s], tapes[s])
  BY <1>2, <1>6, <1>7, <1>8, NextBookIs
<1>10. Valued(book', tape') = Valued(b, tapes)
  BY <1>2, <1>9 DEF Valued
<1>11. ASSUME NEW s \in DOMAIN bar PROVE Barred(s, bar[s])
  <2>1. s \in Symbols /\ s \in active /\ bar[s] \in Candles
    BY <1>5 DEF active
  <2>2. tape'[s] = Extended(tape[s], bar[s])
    BY <1>2, <1>7, <2>1
  <2>3. alone'[s] = AfterBar(alone[s], bar[s], tape'[s])
    BY <1>2, <2>1
  <2>4. \A v \in Variants : trial'[s][v] = Simulated(trial[s][v], v, bar[s], tape'[s])
    BY <1>2, <2>1
  <2>5. book'.pending[s] \in Signals
    BY <1>9, <2>1 DEF BookInv, Books
  <2>6. book'.pending[s].side = SideOf(book'.pos[s], tape'[s])
    BY <1>2, <1>9, <2>1
  <2>7. Outcome(book.pos[s], book.pending[s], book.refused[s], bar[s].open, book'.pos[s],
                book'.refused[s])
    BY <1>6, <1>9, <2>1
  <2> QED BY <2>1, <2>2, <2>3, <2>4, <2>5, <2>6, <2>7 DEF Barred
<1>12. ASSUME NEW s \in Symbols \ DOMAIN bar PROVE Barless(s)
  <2>1. s \in Symbols /\ s \notin active
    BY DEF active
  <2>2. tape'[s] = tape[s]
    BY <1>2, <1>7, <2>1
  <2>3. alone'[s] = alone[s]
    BY <1>2, <2>1
  <2>4. trial'[s] = trial[s]
    BY <1>2, <2>1
  <2> QED BY <1>6, <1>9, <2>1, <2>2, <2>3, <2>4 DEF Barless
<1>13. \A s \in Symbols : TapeInv(tape'[s]) /\ (tape'[s].count = 0 => book'.pos[s] = Flat)
  BY <1>2, <1>7, <1>9
<1> QED BY <1>1, <1>2, <1>3, <1>6, <1>8, <1>9, <1>10, <1>11, <1>12, <1>13 DEF Stepped, e

\* The parts of the invariant that are about one symbol, after a bar of it and without.
LEMMA BarredMoves ==
  ASSUME NEW s \in Symbols, SymbolInv(s), NEW c, Barred(s, c)
  PROVE  /\ PosInv(book'.pos[s], book'.pending[s], book'.refused[s], tape'[s])
         /\ AloneInv(alone'[s], tape'[s])
         /\ Agrees(book'.pos[s], book'.pending[s], book'.refused[s], alone'[s])
         /\ \A v \in Variants : TrialInv(trial'[s][v])
         /\ ~alone'[s].missed => Mirrors(trial'[s]["dead-cross"], alone'[s])
         /\ book'.refused[s] = {} => book.refused[s] = {}
         /\ ~alone'[s].missed => ~alone[s].missed
         /\ book'.pos[s] = Flat => book.pos[s] = Flat
<1>1. /\ TapeInv(tape[s]) /\ AloneInv(alone[s], tape[s])
      /\ PosInv(book.pos[s], book.pending[s], book.refused[s], tape[s])
      /\ Agrees(book.pos[s], book.pending[s], book.refused[s], alone[s])
      /\ \A v \in Variants : TrialInv(trial[s][v])
      /\ ~alone[s].missed => Mirrors(trial[s]["dead-cross"], alone[s])
      /\ book.pos[s] \in Position
  BY DEF SymbolInv, PosInv
<1>2. /\ c \in Candles /\ c.open \in Nat
      /\ tape'[s] = Extended(tape[s], c)
      /\ alone'[s] = AfterBar(alone[s], c, Extended(tape[s], c))
      /\ \A v \in Variants : trial'[s][v] = Simulated(trial[s][v], v, c, Extended(tape[s], c))
      /\ Outcome(book.pos[s], book.pending[s], book.refused[s], c.open, book'.pos[s],
                 book'.refused[s])
      /\ book'.pending[s] \in Signals
      /\ book'.pending[s].side = SideOf(book'.pos[s], Extended(tape[s], c))
  BY CandleIs DEF Barred
<1>3. PosInv(book'.pos[s], book'.pending[s], book'.refused[s], Extended(tape[s], c))
  BY <1>1, <1>2, SignalMoves
<1>4. AloneInv(AfterBar(alone[s], c, Extended(tape[s], c)), Extended(tape[s], c))
  BY <1>1, <1>2, AloneMoves
<1>5. /\ Agrees(book'.pos[s], book'.pending[s], book'.refused[s],
                AfterBar(alone[s], c, Extended(tape[s], c)))
      /\ ~AfterBar(alone[s], c, Extended(tape[s], c)).missed => ~alone[s].missed
  BY <1>1, <1>2, AgreesStill
<1>6. ASSUME NEW v \in Variants PROVE TrialInv(trial'[s][v])
  <2>1. Extended(tape[s], c) \in Tapes
    BY <1>1, <1>2, ExtendedIs DEF TapeInv
  <2>2. SimulatedWell(Simulated(trial[s][v], v, c, Extended(tape[s], c)), trial[s][v], v, c,
                      Extended(tape[s], c))
    BY <1>1, <1>2, <2>1, SimulatedIs
  <2> QED BY <1>2, <2>2 DEF SimulatedWell
<1>7. ~AfterBar(alone[s], c, Extended(tape[s], c)).missed
        => Mirrors(Simulated(trial[s]["dead-cross"], "dead-cross", c, Extended(tape[s], c)),
                   AfterBar(alone[s], c, Extended(tape[s], c)))
  <2>1. TrialInv(trial[s]["dead-cross"])
    BY <1>1 DEF Variants
  <2> QED BY <1>1, <1>2, <2>1, DeadCross
<1>8. trial'[s]["dead-cross"]
        = Simulated(trial[s]["dead-cross"], "dead-cross", c, Extended(tape[s], c))
  BY <1>2 DEF Variants
<1>9. /\ book.refused[s] \subseteq book'.refused[s]
      /\ book'.pos[s] = Flat => book.pos[s] = Flat
  BY <1>1, <1>2, OutcomeIs
<1> QED BY <1>2, <1>3, <1>4, <1>5, <1>6, <1>7, <1>8, <1>9

LEMMA SymbolMoves ==
  ASSUME ReplayInv, NEW bar, DOMAIN bar \subseteq Symbols, Stepped(bar), NEW s \in Symbols
  PROVE  /\ PosInv(book'.pos[s], book'.pending[s], book'.refused[s], tape'[s])
         /\ AloneInv(alone'[s], tape'[s])
         /\ Agrees(book'.pos[s], book'.pending[s], book'.refused[s], alone'[s])
         /\ \A v \in Variants : TrialInv(trial'[s][v])
         /\ ~alone'[s].missed => Mirrors(trial'[s]["dead-cross"], alone'[s])
         /\ book'.refused[s] = {} => book.refused[s] = {}
         /\ ~alone'[s].missed => ~alone[s].missed
         /\ book'.pos[s] = Flat => book.pos[s] = Flat
<1>1. SymbolInv(s)
  BY DEF ReplayInv
<1>2. CASE s \in DOMAIN bar
  <2>1. Barred(s, bar[s])
    BY <1>2 DEF Stepped
  <2> QED BY <1>1, <2>1, BarredMoves
<1>3. CASE s \notin DOMAIN bar
  <2>1. Barless(s)
    BY <1>3 DEF Stepped
  <2> QED BY <1>1, <2>1 DEF Barless, SymbolInv
<1> QED BY <1>2, <1>3

\* Of which only one symbol ever traded, the portfolio falls as deep as that symbol alone.
LEMMA DeepestMoves ==
  ASSUME ReplayInv, NEW bar, DOMAIN bar \subseteq Symbols, Stepped(bar), NEW s \in Symbols,
         book'.refused[s] = {}, ~alone'[s].missed,
         \A r \in Symbols \ {s} : book'.pos[r] = Flat
  PROVE  book'.peak = alone'[s].peak /\ book'.worst = alone'[s].worst
<1> DEFINE seen == Valued(book', tape')
           e == seen.equity
           a == alone[s]
           n == alone'[s]
<1>1. /\ SymbolInv(s) /\ BookInv(book)
  BY DEF ReplayInv
<1>2. OnlyTraded(s)
  BY SymbolMoves DEF OnlyTraded
<1>3. book.peak = a.peak /\ book.worst = a.worst
  BY <1>1, <1>2 DEF SymbolInv
<1>4. /\ AloneInv(a, tape[s]) /\ TapeInv(tape[s]) /\ a \in Alones
  BY <1>1 DEF SymbolInv, AloneInv
<1>5. /\ AloneInv(n, tape'[s]) /\ TapeInv(tape'[s]) /\ book'.pos[s] = n.pos
  BY SymbolMoves DEF Agrees, Stepped
<1>6. book'.peak = NewPeak(book.peak, e) /\ book'.worst = NewWorst(book.peak, book.worst, e)
  BY DEF Stepped
<1>7. /\ BookInv(book')
      /\ \A r \in Symbols : TapeInv(tape'[r]) /\ (tape'[r].count = 0 => book'.pos[r] = Flat)
  BY DEF Stepped
<1>8. /\ book'.cash = InitialCash + n.pos.realized - n.pos.cost
      /\ e = book'.cash + SnapshotPosition(n.pos, tape'[s]).value
  BY <1>5, <1>7, SoleIs
<1>9. /\ tape'[s].count > 0 => e = EquityAlone(n, tape'[s])
      /\ Seen(n.peak, n.worst, e) /\ n.peak \in Nat \ {0} /\ n.worst \in Nat /\ e \in Int
  BY <1>5, <1>8, AloneSees
<1> HIDE DEF e, n
<1>10. CASE s \in DOMAIN bar
  <2> DEFINE c == bar[s]
             u == Extended(tape[s], c)
             f == FilledAlone(a, c)
             g == EquityAlone(f, u)
  <2>1. Barred(s, c)
    BY <1>10 DEF Stepped
  <2>2. c \in Candles /\ tape'[s] = u /\ n = AfterBar(a, c, u)
    BY <2>1 DEF Barred, n
  <2>3. tape'[s].count > 0
    <3>1. u.count = tape[s].count + 1 /\ tape[s].count \in Nat
      BY <1>4, <2>2, ExtendedIs DEF TapeInv, Tapes
    <3> QED BY <2>2, <3>1
  <2>4. /\ n.peak = NewPeak(a.peak, g) /\ n.worst = NewWorst(a.peak, a.worst, g)
        /\ EquityAlone(n, u) = g
    BY <1>4, <2>2, AfterBarIs
  <2>5. g = e
    BY <1>9, <2>2, <2>3, <2>4
  <2> QED BY <1>3, <1>6, <2>4, <2>5 DEF n
<1>11. CASE s \notin DOMAIN bar
  <2>1. n = a
    BY <1>11 DEF Stepped, Barless, n
  <2>2. NewPeak(a.peak, e) = a.peak /\ NewWorst(a.peak, a.worst, e) = a.worst
    <3>1. Seen(a.peak, a.worst, e) /\ a.peak \in Nat \ {0} /\ a.worst \in Nat /\ e \in Int
      BY <1>9, <2>1
    <3> HIDE DEF a
    <3> QED BY <3>1, DrawnIs
  <2> QED BY <1>3, <1>6, <2>1, <2>2 DEF n
<1> QED BY <1>10, <1>11

LEMMA NextHolds ==
  ReplayInv /\ [ReplayNext]_replayVars => ReplayInv'
<1> SUFFICES ASSUME ReplayInv, [ReplayNext]_replayVars PROVE ReplayInv'
  OBVIOUS
<1>1. CASE UNCHANGED replayVars
  BY <1>1 DEF replayVars, ReplayInv, SymbolInv, OnlyTraded, BookInv, OpenPositions, Flow
<1>2. CASE ReplayNext
  <2>1. PICK active \in (SUBSET Symbols) \ {{}} : \E b \in [active -> Shapes \cup {Warm}] : Timestamp(b)
    BY <1>2 DEF ReplayNext
  <2>2. PICK bar \in [active -> Shapes \cup {Warm}] : Timestamp(bar)
    BY <2>1
  <2>3. DOMAIN bar \subseteq Symbols /\ \A s \in DOMAIN bar : bar[s] \in Shapes \cup {Warm}
    BY <2>1, <2>2
  <2>4. Stepped(bar)
    BY <2>2, <2>3, StepIs
  <2> DEFINE seen == Valued(book', tape')
  <2>5. /\ now \in 0..Times /\ now' \in 0..Times /\ now' = now + 1 /\ limits' = limits
        /\ BookInv(book') /\ Even(seen)
        /\ timeline' = [timeline EXCEPT ![Today] = seen]
        /\ \A s \in Symbols : TapeInv(tape'[s])
    BY <2>4 DEF Stepped
  <2>6. /\ limits \in Limits /\ timeline = [d \in Days |-> timeline[d]]
        /\ \A d \in Days : Even(timeline[d])
    BY DEF ReplayInv
  <2>7. BookInv(book)'
    BY <2>5 DEF BookInv, OpenPositions, Flow
  <2> HIDE DEF seen
  <2>8. Today \in Days
    BY <2>5, DaysAre DEF Today
  <2>9. /\ timeline' = [d \in Days |-> timeline'[d]]
        /\ \A d \in Days : Even(timeline'[d])
        /\ timeline'[Today] = seen
    BY <2>5, <2>6, <2>8
  <2>10. now' > 0 /\ now' # 0 /\ (now' - 1) \div DayLength = Today
    BY <2>5 DEF Today
  <2>11. ASSUME NEW s \in Symbols PROVE SymbolInv(s)'
    <3>1. /\ PosInv(book'.pos[s], book'.pending[s], book'.refused[s], tape'[s])
          /\ AloneInv(alone'[s], tape'[s])
          /\ Agrees(book'.pos[s], book'.pending[s], book'.refused[s], alone'[s])
          /\ \A v \in Variants : TrialInv(trial'[s][v])
          /\ ~alone'[s].missed => Mirrors(trial'[s]["dead-cross"], alone'[s])
      BY <2>3, <2>4, SymbolMoves
    <3>2. OnlyTraded(s)' => book'.peak = alone'[s].peak /\ book'.worst = alone'[s].worst
      BY <2>3, <2>4, DeepestMoves DEF OnlyTraded
    <3> QED BY <2>5, <3>1, <3>2 DEF SymbolInv
  <2> QED BY <2>5, <2>6, <2>7, <2>9, <2>10, <2>11 DEF ReplayInv, seen
<1> QED BY <1>1, <1>2

-----------------------------------------------------------------------------
(* The theorems *)

\* The invariant the others follow from: after every timestamp of the three replays
\* their books, averages, positions and pending orders are as it says.
THEOREM ReplayInvariant == ReplaySpec => []ReplayInv
<1>1. ReplayInit => ReplayInv
  BY InitHolds
<1>2. ReplayInv /\ [ReplayNext]_replayVars => ReplayInv'
  BY NextHolds
<1> QED BY <1>1, <1>2, PTL DEF ReplaySpec

\* The report of accepted bars values the positions as the last snapshot does.
LEMMA ReportIs ==
  ASSUME ReplayInv, Accepted
  PROVE  LET last == timeline[(now - 1) \div DayLength]
         IN /\ Report.equity = last.equity
            /\ Report.realized = last.realized
            /\ Report.unrealized = last.unrealized
<1>1. /\ now \in 0..Times /\ (now = 0 => \A s \in Symbols : tape[s].count = 0)
      /\ (now > 0 => timeline[(now - 1) \div DayLength] = Valued(book, tape))
      /\ \A s \in Symbols : tape[s].count \in Nat
  BY DEF ReplayInv, SymbolInv, TapeInv, Tapes
<1>2. \A s \in Symbols : tape[s].count # 0
  BY <1>1, NumbersAre DEF Accepted, AcceptedAlone
<1>3. now > 0
  <2>1. PICK s \in Symbols : TRUE
    BY NamesAre
  <2> QED BY <1>1, <1>2, <2>1
<1>4. timeline[(now - 1) \div DayLength] = Valued(book, tape)
  BY <1>1, <1>3
<1> DEFINE result == [s \in Symbols |-> PositionResult(s)]
           seen == [s \in Symbols |-> SnapshotPosition(book.pos[s], tape[s])]
<1>5. ASSUME NEW s \in Symbols
      PROVE  /\ result[s].value = seen[s].value /\ result[s].unrealized = seen[s].unrealized
             /\ result[s].realized = book.pos[s].realized
  BY <1>2 DEF PositionResult, SnapshotPosition
<1>6. /\ Report.equity = book.cash + Total([s \in Symbols |-> result[s].value])
      /\ Report.realized = Total([s \in Symbols |-> result[s].realized])
      /\ Report.unrealized = Total([s \in Symbols |-> result[s].unrealized])
  BY DEF Report
<1>7. /\ Valued(book, tape).equity = book.cash + Total([s \in Symbols |-> seen[s].value])
      /\ Valued(book, tape).realized = Total([s \in Symbols |-> book.pos[s].realized])
      /\ Valued(book, tape).unrealized = Total([s \in Symbols |-> seen[s].unrealized])
  BY DEF Valued
<1> HIDE DEF result, seen
<1>8. /\ [s \in Symbols |-> result[s].value] = [s \in Symbols |-> seen[s].value]
      /\ [s \in Symbols |-> result[s].realized] = [s \in Symbols |-> book.pos[s].realized]
      /\ [s \in Symbols |-> result[s].unrealized] = [s \in Symbols |-> seen[s].unrealized]
  BY <1>5
<1> QED BY <1>4, <1>6, <1>7, <1>8

\* Every snapshot of the portfolio is worth the initial cash, what was realized and
\* what is open, the report is worth the last of them, the cash is never overdrawn
\* and the limits of positions and daily buys hold: for any symbols, bars and limits.
THEOREM ReplayBooksBalance == ReplaySpec => []BooksBalance
<1>1. ReplayInv => BooksBalance
  <2> SUFFICES ASSUME ReplayInv PROVE BooksBalance
    OBVIOUS
  <2>1. /\ BookInv(book) /\ \A d \in Days : Even(timeline[d])
    BY DEF ReplayInv
  <2>2. book.cash >= 0
    BY <2>1 DEF BookInv, Books
  <2>3. Accepted => LET last == timeline[(now - 1) \div DayLength]
                    IN /\ Report.equity = last.equity
                       /\ Report.realized = last.realized
                       /\ Report.unrealized = last.unrealized
    BY ReportIs
  <2> QED BY <2>1, <2>2, <2>3 DEF BooksBalance, BookInv, Even
<1> QED BY <1>1, ReplayInvariant, PTL

\* The report of a portfolio of which only s ever traded.
LEMMA SoleReport ==
  ASSUME ReplayInv, NEW s \in Symbols, Accepted, OnlyTraded(s)
  PROVE  Report = ReportAlone(s)
<1> DEFINE a == alone[s]
           close == Last(tape[s].last).close
           p == book.pos[s]
           result == [r \in Symbols |-> PositionResult(r)]
           values == [r \in Symbols |-> result[r].value]
           earned == [r \in Symbols |-> result[r].realized]
           open == [r \in Symbols |-> result[r].unrealized]
           costs == [r \in Symbols |-> result[r].costs]
           completed == [r \in Symbols |-> result[r].completed]
           won == [r \in Symbols |-> result[r].won]
<1>1. /\ BookInv(book) /\ book \in Books
      /\ \A r \in Symbols : SymbolInv(r)
  BY DEF ReplayInv, BookInv
<1>2. /\ TapeInv(tape[s]) /\ AloneInv(a, tape[s]) /\ p = a.pos
      /\ book.peak = a.peak /\ book.worst = a.worst
      /\ \A r \in Symbols \ {s} : book.pos[r] = Flat
  BY <1>1 DEF SymbolInv, Agrees, OnlyTraded
<1>3. ASSUME NEW r \in Symbols
      PROVE  /\ TapeInv(tape[r]) /\ (tape[r].count = 0 => book.pos[r] = Flat)
             /\ tape[r].count # 0 /\ book.pos[r] \in Position
  <2>1. TapeInv(tape[r]) /\ (tape[r].count = 0 => book.pos[r] = Flat) /\ book.pos[r] \in Position
    BY <1>1 DEF SymbolInv, PosInv
  <2> QED BY <2>1, NumbersAre DEF Accepted, AcceptedAlone
<1>4. book.cash = InitialCash + p.realized - p.cost
  BY <1>1, <1>2, <1>3, SoleIs
<1>5. book.cash = a.cash /\ a.cash \in Nat
  BY <1>2, <1>4 DEF AloneInv, Alones
<1>6. ASSUME NEW r \in Symbols
      PROVE  /\ values[r] = SnapshotPosition(book.pos[r], tape[r]).value
             /\ open[r] = SnapshotPosition(book.pos[r], tape[r]).unrealized
             /\ earned[r] = book.pos[r].realized /\ costs[r] = book.pos[r].fees
             /\ completed[r] = book.pos[r].completed /\ won[r] = book.pos[r].won
  BY <1>3 DEF PositionResult, SnapshotPosition
<1>7. ASSUME NEW r \in Symbols
      PROVE  /\ values[r] \in Int /\ open[r] \in Int /\ earned[r] \in Int /\ costs[r] \in Int
             /\ completed[r] \in Int /\ won[r] \in Int
  BY <1>3, <1>6, SnapshotIs, PositionIs
<1>8. ASSUME NEW r \in Symbols \ {s}
      PROVE  /\ values[r] = 0 /\ open[r] = 0 /\ earned[r] = 0 /\ costs[r] = 0
             /\ completed[r] = 0 /\ won[r] = 0
  <2>1. r \in Symbols /\ book.pos[r] = Flat
    BY <1>2
  <2>2. /\ Flat.quantity = 0 /\ Flat.realized = 0 /\ Flat.cost = 0 /\ Flat.fees = 0
        /\ Flat.completed = 0 /\ Flat.won = 0
    BY DEF Flat
  <2>3. SnapshotPosition(Flat, tape[r]).unrealized = 0
    BY <2>2 DEF SnapshotPosition
  <2>4. SnapshotPosition(Flat, tape[r]).value
          = SnapshotPosition(Flat, tape[r]).unrealized + Flat.cost
    BY <1>3, <2>1, SnapshotIs
  <2> QED BY <1>6, <2>1, <2>2, <2>3, <2>4
<1>9. /\ values \in [Symbols -> Int] /\ open \in [Symbols -> Int] /\ earned \in [Symbols -> Int]
      /\ costs \in [Symbols -> Int] /\ completed \in [Symbols -> Int] /\ won \in [Symbols -> Int]
  <2> DEFINE keys == Symbols
  <2>1. values \in [Symbols -> Int]
    BY <1>7
  <2>2. open \in [Symbols -> Int]
    BY <1>7
  <2>3. earned \in [Symbols -> Int]
    BY <1>7
  <2>4. costs \in [Symbols -> Int]
    BY <1>7
  <2>5. completed \in [Symbols -> Int]
    BY <1>7
  <2>6. won \in [Symbols -> Int]
    BY <1>7
  <2> QED BY <2>1, <2>2, <2>3, <2>4, <2>5, <2>6
<1>10. Report = [equity |-> book.cash + Total(values), realized |-> Total(earned),
                 unrealized |-> Total(open), costs |-> Total(costs),
                 completed |-> Total(completed), won |-> Total(won), worst |-> book.worst]
  BY DEF Report
<1> HIDE DEF values, open, earned, costs, completed, won
<1>11. /\ Total(values) = values[s] /\ Total(open) = open[s] /\ Total(earned) = earned[s]
       /\ Total(costs) = costs[s] /\ Total(completed) = completed[s] /\ Total(won) = won[s]
  <2>1. Total(values) = values[s]
    BY <1>8, <1>9, TotalSingle
  <2>2. Total(open) = open[s]
    BY <1>8, <1>9, TotalSingle
  <2>3. Total(earned) = earned[s]
    BY <1>8, <1>9, TotalSingle
  <2>4. Total(costs) = costs[s]
    BY <1>8, <1>9, TotalSingle
  <2>5. Total(completed) = completed[s]
    BY <1>8, <1>9, TotalSingle
  <2>6. Total(won) = won[s]
    BY <1>8, <1>9, TotalSingle
  <2> QED BY <2>1, <2>2, <2>3, <2>4, <2>5, <2>6
<1>12. /\ SnapshotPosition(p, tape[s]).value = p.quantity * close
       /\ SnapshotPosition(p, tape[s]).unrealized
            = IF p.quantity > 0 THEN p.quantity * close - p.cost ELSE 0
       /\ p.quantity * close \in Int /\ p.cost \in Int
  BY <1>3, SnapshotIs, PositionIs DEF SnapshotPosition
<1> DEFINE equity == EquityAlone(a, tape[s])
<1>13. equity = a.cash + p.quantity * close
  BY <1>2 DEF EquityAlone
<1>14. ReportAlone(s) = [equity |-> equity, realized |-> a.pos.realized,
         unrealized |-> IF a.pos.quantity > 0 THEN equity - a.cash - a.pos.cost ELSE 0,
         costs |-> a.pos.fees, completed |-> a.pos.completed, won |-> a.pos.won,
         worst |-> a.worst]
  BY DEF ReportAlone
<1> HIDE DEF equity, a, p, close
<1>15. equity - a.cash - p.cost = p.quantity * close - p.cost
  BY <1>5, <1>12, <1>13
<1>16. /\ values[s] = p.quantity * close
       /\ open[s] = IF p.quantity > 0 THEN equity - a.cash - p.cost ELSE 0
       /\ earned[s] = p.realized /\ costs[s] = p.fees /\ completed[s] = p.completed
       /\ won[s] = p.won
  BY <1>6, <1>12, <1>15 DEF p
<1> QED BY <1>2, <1>5, <1>10, <1>11, <1>13, <1>14, <1>16

\* The counterfactual of the dead cross over all symbols.
LEMMA MatrixIs ==
  ASSUME ReplayInv, MatrixAccepted, \A s \in Symbols : ~alone[s].missed
  PROVE  LET sum == Matrix["dead-cross"]
             one == [s \in Symbols |-> ReportAlone(s)]
         IN /\ sum.realized = sum.profit - sum.loss
            /\ sum.marked = Total([s \in Symbols |-> one[s].realized + one[s].unrealized])
            /\ sum.costs = Total([s \in Symbols |-> one[s].costs])
            /\ sum.completed = Total([s \in Symbols |-> one[s].completed])
            /\ sum.won = Total([s \in Symbols |-> one[s].won])
<1> DEFINE x == [s \in Symbols |-> trial[s]["dead-cross"]]
           one == [s \in Symbols |-> ReportAlone(s)]
           sum == Matrix["dead-cross"]
           realized == [s \in Symbols |-> x[s].realized]
           profit == [s \in Symbols |-> x[s].done.profit]
           loss == [s \in Symbols |-> x[s].done.loss]
<1>1. /\ sum.realized = Total(realized) /\ sum.profit = Total(profit) /\ sum.loss = Total(loss)
      /\ sum.marked = Total([s \in Symbols |-> x[s].realized + Marked(x[s], s)])
      /\ sum.costs = Total([s \in Symbols |-> x[s].done.costs])
      /\ sum.completed = Total([s \in Symbols |-> x[s].completed])
      /\ sum.won = Total([s \in Symbols |-> x[s].done.won])
  <2>1. sum = Summary("dead-cross")
    BY DEF Matrix, Variants
  <2> HIDE DEF sum
  <2>2. /\ sum.realized = Total(realized) /\ sum.profit = Total(profit)
        /\ sum.loss = Total(loss)
    BY <2>1 DEF Summary
  <2>3. /\ sum.marked = Total([s \in Symbols |-> x[s].realized + Marked(x[s], s)])
        /\ sum.costs = Total([s \in Symbols |-> x[s].done.costs])
    BY <2>1 DEF Summary
  <2>4. /\ sum.completed = Total([s \in Symbols |-> x[s].completed])
        /\ sum.won = Total([s \in Symbols |-> x[s].done.won])
    BY <2>1 DEF Summary
  <2> QED BY <2>2, <2>3, <2>4
<1>2. ASSUME NEW s \in Symbols
      PROVE  /\ x[s] \in Trials /\ x[s].realized = x[s].done.profit - x[s].done.loss
             /\ Mirrors(x[s], alone[s])
             /\ AloneInv(alone[s], tape[s]) /\ TapeInv(tape[s]) /\ tape[s].count > 0
  <2>1. SymbolInv(s) /\ x[s] = trial[s]["dead-cross"] /\ "dead-cross" \in Variants
    BY DEF ReplayInv, Variants
  <2>2. tape[s].count \in Nat
    BY <2>1 DEF SymbolInv, TapeInv, Tapes
  <2>3. tape[s].count > 0
    BY <2>2, NumbersAre DEF MatrixAccepted
  <2>4. /\ trial[s]["dead-cross"] \in Trials
        /\ trial[s]["dead-cross"].realized
             = trial[s]["dead-cross"].done.profit - trial[s]["dead-cross"].done.loss
    BY <2>1 DEF SymbolInv, TrialInv
  <2>5. /\ Mirrors(trial[s]["dead-cross"], alone[s])
        /\ AloneInv(alone[s], tape[s]) /\ TapeInv(tape[s])
    BY <2>1 DEF SymbolInv
  <2> HIDE DEF x
  <2> QED BY <2>1, <2>3, <2>4, <2>5
<1>3. ASSUME NEW s \in Symbols
      PROVE  /\ realized[s] \in Int /\ profit[s] \in Int /\ loss[s] \in Int
             /\ profit[s] = realized[s] + loss[s]
  <2>1. /\ realized[s] = x[s].realized /\ profit[s] = x[s].done.profit /\ loss[s] = x[s].done.loss
    OBVIOUS
  <2> HIDE DEF x, realized, profit, loss
  <2>2. /\ x[s].realized \in Int /\ x[s].done.profit \in Int /\ x[s].done.loss \in Int
        /\ x[s].realized = x[s].done.profit - x[s].done.loss
    BY <1>2 DEF Trials, Summaries
  <2> QED BY <2>1, <2>2
<1>4. Total(realized) = Total(profit) - Total(loss)
  <2>1. realized \in [Symbols -> Int]
    BY <1>3
  <2>2. profit \in [Symbols -> Int]
    BY <1>3
  <2>3. loss \in [Symbols -> Int]
    BY <1>3
  <2> HIDE DEF realized, profit, loss
  <2>4. Total(profit) = Total(realized) + Total(loss)
    BY <1>3, <2>1, <2>2, <2>3, TotalPlus
  <2>5. Total(profit) \in Int /\ Total(realized) \in Int /\ Total(loss) \in Int
    BY <2>1, <2>2, <2>3, TotalIs
  <2> QED BY <2>4, <2>5
<1> HIDE DEF x
<1>5. ASSUME NEW s \in Symbols
      PROVE  /\ x[s].realized + Marked(x[s], s) = one[s].realized + one[s].unrealized
             /\ x[s].done.costs = one[s].costs /\ x[s].completed = one[s].completed
             /\ x[s].done.won = one[s].won
  <2> DEFINE a == alone[s]
             close == Last(tape[s].last).close
             equity == EquityAlone(a, tape[s])
             y == x[s]
  <2>1. /\ one[s].realized = a.pos.realized
        /\ one[s].unrealized = IF a.pos.quantity > 0 THEN equity - a.cash - a.pos.cost ELSE 0
        /\ one[s].costs = a.pos.fees /\ one[s].completed = a.pos.completed /\ one[s].won = a.pos.won
    BY DEF ReportAlone
  <2>2. Mirrors(y, a) /\ AloneInv(a, tape[s]) /\ TapeInv(tape[s]) /\ tape[s].count > 0
    BY <1>2
  <2>3. a.pos \in Position /\ a.cash \in Nat
    BY <2>2 DEF AloneInv, Alones
  <2>4. a.pos.quantity > 0 => a.pos.quantity = Quantity
    BY <2>3, PositionIs
  <2>5. Marked(y, s) = IF y.held THEN close * Quantity - y.cost ELSE 0
    BY DEF Marked
  <2>6. equity = a.cash + a.pos.quantity * close
    BY DEF EquityAlone
  <2>7. Quantity \in Nat /\ close \in Nat /\ a.pos.cost \in Nat
    <3>1. SnapshotPosition(a.pos, tape[s]).value \in Int
      BY <2>2, <2>3, SnapshotIs DEF AloneInv
    <3>2. tape[s].last \in Seq(Candles) /\ tape[s].last # <<>>
      <4>1. tape[s].last \in Seq(Candles) /\ tape[s].count \in Nat /\ LongWindow \in Nat
            /\ Len(tape[s].last)
                 = IF tape[s].count <= LongWindow THEN tape[s].count ELSE LongWindow + 1
        BY <2>2, TapeIs, NumbersAre
      <4>2. Len(tape[s].last) # 0
        BY <2>2, <4>1
      <4> QED BY <4>1, <4>2
    <3>3. Last(tape[s].last) \in Candles
      BY <3>2 DEF Last
    <3> QED BY <2>3, <3>3, CandleIs, PositionIs
  <2> HIDE DEF a, close, equity, y, one
  <2>8. /\ y.held = (a.pos.quantity > 0) /\ y.cost = a.pos.cost /\ y.realized = a.pos.realized
        /\ y.completed = a.pos.completed /\ y.done.costs = a.pos.fees /\ y.done.won = a.pos.won
    BY <2>2 DEF Mirrors
  <2>9. Marked(y, s) = one[s].unrealized
    <3>1. CASE a.pos.quantity > 0
      <4>1. a.pos.quantity * close = close * Quantity /\ close * Quantity \in Int
        BY <2>4, <2>7, <3>1
      <4>2. equity - a.cash - a.pos.cost = close * Quantity - y.cost
        BY <2>3, <2>6, <2>7, <2>8, <4>1
      <4> QED BY <2>1, <2>5, <2>8, <3>1, <4>2
    <3>2. CASE ~(a.pos.quantity > 0)
      BY <2>1, <2>5, <2>8, <3>2
    <3> QED BY <3>1, <3>2
  <2> QED BY <2>1, <2>8, <2>9 DEF y
<1> HIDE DEF one, sum, realized, profit, loss
<1>6. /\ [s \in Symbols |-> x[s].realized + Marked(x[s], s)]
           = [s \in Symbols |-> one[s].realized + one[s].unrealized]
      /\ [s \in Symbols |-> x[s].done.costs] = [s \in Symbols |-> one[s].costs]
      /\ [s \in Symbols |-> x[s].completed] = [s \in Symbols |-> one[s].completed]
      /\ [s \in Symbols |-> x[s].done.won] = [s \in Symbols |-> one[s].won]
  BY <1>5
<1>7. sum.realized = sum.profit - sum.loss
  BY <1>1, <1>4
<1>8. /\ sum.marked = Total([s \in Symbols |-> one[s].realized + one[s].unrealized])
      /\ sum.costs = Total([s \in Symbols |-> one[s].costs])
      /\ sum.completed = Total([s \in Symbols |-> one[s].completed])
      /\ sum.won = Total([s \in Symbols |-> one[s].won])
  BY <1>1, <1>6
<1> QED BY <1>7, <1>8 DEF sum, one

\* The three replays agree on every symbol, and so do their reports, for any symbols,
\* bars, windows, rates and limits.
THEOREM ReplayAgreement == ReplaySpec => []ReplaysAgree
<1>1. ReplayInv => ReplaysAgree
  <2> SUFFICES ASSUME ReplayInv PROVE ReplaysAgree
    OBVIOUS
  <2>1. ASSUME NEW s \in Symbols
        PROVE  LET a == alone[s]
                   x == trial[s]["dead-cross"]
               IN /\ (book.refused[s] = {} /\ ~a.missed) =>
                       /\ book.pos[s] = a.pos
                       /\ book.pending[s].side = a.pending
                  /\ ~a.missed =>
                       /\ x.held = (a.pos.quantity > 0) /\ x.pending = a.pending
                       /\ x.cost = a.pos.cost
                       /\ x.realized = a.pos.realized /\ x.completed = a.pos.completed
    <3>1. /\ Agrees(book.pos[s], book.pending[s], book.refused[s], alone[s])
          /\ ~alone[s].missed => Mirrors(trial[s]["dead-cross"], alone[s])
      BY DEF ReplayInv, SymbolInv
    <3> QED BY <3>1 DEF Agrees, Mirrors
  <2>2. ASSUME NEW s \in Symbols, Accepted, book.refused[s] = {}, ~alone[s].missed,
               \A r \in Symbols \ {s} : book.pos[r] = Flat
        PROVE  Report = ReportAlone(s)
    BY <2>2, SoleReport DEF OnlyTraded
  <2>3. ASSUME MatrixAccepted, \A s \in Symbols : ~alone[s].missed
        PROVE  LET sum == Matrix["dead-cross"]
                   one == [s \in Symbols |-> ReportAlone(s)]
               IN /\ sum.realized = sum.profit - sum.loss
                  /\ sum.marked = Total([s \in Symbols |-> one[s].realized + one[s].unrealized])
                  /\ sum.costs = Total([s \in Symbols |-> one[s].costs])
                  /\ sum.completed = Total([s \in Symbols |-> one[s].completed])
                  /\ sum.won = Total([s \in Symbols |-> one[s].won])
    BY <2>3, MatrixIs
  <2> QED BY <2>1, <2>2, <2>3 DEF ReplaysAgree
<1> QED BY <1>1, ReplayInvariant, PTL

\* What one bar of s does, in the words of the property.
ExitTaken(s) ==
  LET t == tape'[s]
      falls == t.relation = "below"
      min == trial'[s]["min-hold"]
      atr == trial[s]["atr-trailing"]
  IN /\ falls /\ alone'[s].pos.quantity > 0 => alone'[s].pending = "SELL"
     /\ falls /\ book'.pos[s].quantity > 0 /\ "order" \notin book'.refused[s]
          => book'.pending[s].side = "SELL"
     /\ falls /\ min.held /\ t.count - min.since + 1 >= MinHold
          => min.pending = "SELL"
     /\ atr.held /\ Last(t.last).low <= atr.stop
          => trial'[s]["atr-trailing"].completed = atr.completed + 1

LEMMA ExitIsTaken ==
  ASSUME ReplayInv, NEW bar, DOMAIN bar \subseteq Symbols, Stepped(bar), NEW s \in Symbols,
         tape'[s] # tape[s]
  PROVE  ExitTaken(s)
<1> DEFINE t == tape'[s]
           c == bar[s]
<1>1. Barred(s, c)
  BY DEF Stepped, Barless
<1>2. /\ c \in Candles /\ t = Extended(tape[s], c)
      /\ \A v \in Variants : trial'[s][v] = Simulated(trial[s][v], v, c, t)
  BY <1>1 DEF Barred
<1>3. TapeInv(tape[s]) /\ \A v \in Variants : TrialInv(trial[s][v])
  BY DEF ReplayInv, SymbolInv
<1>4. t \in Tapes /\ Last(t.last) = c
  BY <1>2, <1>3, ExtendedIs DEF TapeInv
<1>5. /\ PosInv(book'.pos[s], book'.pending[s], book'.refused[s], tape'[s])
      /\ AloneInv(alone'[s], tape'[s])
  BY SymbolMoves
<1> HIDE DEF t, c
<1>6. ASSUME NEW v \in Variants
      PROVE  SimulatedWell(trial'[s][v], trial[s][v], v, c, t)
  BY <1>2, <1>3, <1>4, SimulatedIs
<1>7. "min-hold" \in Variants /\ "atr-trailing" \in Variants
  BY DEF Variants
<1>8. /\ SimulatedWell(trial'[s]["min-hold"], trial[s]["min-hold"], "min-hold", c, t)
      /\ SimulatedWell(trial'[s]["atr-trailing"], trial[s]["atr-trailing"], "atr-trailing", c, t)
  BY <1>6, <1>7
<1>9. (t.relation = "below" /\ alone'[s].pos.quantity > 0) => alone'[s].pending = "SELL"
  BY <1>5 DEF AloneInv, t
<1>10. (t.relation = "below" /\ book'.pos[s].quantity > 0 /\ "order" \notin book'.refused[s])
         => book'.pending[s].side = "SELL"
  BY <1>5 DEF PosInv, t
<1>11. (/\ t.relation = "below" /\ trial'[s]["min-hold"].held
        /\ t.count - trial'[s]["min-hold"].since + 1 >= MinHold)
         => trial'[s]["min-hold"].pending = "SELL"
  BY <1>8 DEF SimulatedWell
<1>12. (trial[s]["atr-trailing"].held /\ Last(t.last).low <= trial[s]["atr-trailing"].stop)
         => trial'[s]["atr-trailing"].completed = trial[s]["atr-trailing"].completed + 1
  BY <1>4, <1>8 DEF SimulatedWell
<1> QED BY <1>9, <1>10, <1>11, <1>12 DEF ExitTaken, t

\* After a bar no replay still holds what its rule sells, except a portfolio that had the
\* sale refused, whatever the bars were.
THEOREM ReplayExitsAreTaken == ReplaySpec => ExitsAreTaken
<1>1. ASSUME ReplayInv, ReplayNext, NEW s \in Symbols, tape'[s] # tape[s]
      PROVE  ExitTaken(s)
  <2>1. PICK active \in (SUBSET Symbols) \ {{}} : \E b \in [active -> Shapes \cup {Warm}] : Timestamp(b)
    BY <1>1 DEF ReplayNext
  <2>2. PICK bar \in [active -> Shapes \cup {Warm}] : Timestamp(bar)
    BY <2>1
  <2>3. DOMAIN bar \subseteq Symbols /\ \A r \in DOMAIN bar : bar[r] \in Shapes \cup {Warm}
    BY <2>1, <2>2
  <2> QED BY <1>1, <2>2, <2>3, StepIs, ExitIsTaken
<1>2. ReplayInv /\ [ReplayNext]_replayVars
        => [\A s \in Symbols : tape'[s] # tape[s] => ExitTaken(s)]_replayVars
  BY <1>1
<1>3. ReplaySpec => [][\A s \in Symbols : tape'[s] # tape[s] => ExitTaken(s)]_replayVars
  BY <1>2, ReplayInvariant, PTL DEF ReplaySpec
<1> QED BY <1>3 DEF ExitsAreTaken, ExitTaken

-----------------------------------------------------------------------------
(* The exits of the paper cycle *)

USE TimesAssumption

-----------------------------------------------------------------------------
(* The earliest bar and the lowest price of a set *)

LEMMA EarliestIs ==
  ASSUME NEW S \in SUBSET Nat, S # {}
  PROVE  Earliest(S) \in S /\ \A n \in S : Earliest(S) <= n
BY LeastNumber DEF Earliest

LEMMA LowestIs ==
  ASSUME NEW S \in SUBSET Nat, S # {}
  PROVE  Lowest(S) \in S /\ \A q \in S : Lowest(S) <= q
BY LeastNumber DEF Lowest

-----------------------------------------------------------------------------
(* The inductive invariant *)

\* No exit was triggered by a bar that is still to come, nor by the newest one.
ExitsInv ==
  /\ \A d, m \in Nat : ExitId(<<d, m>>) \in fills => d <= day
  /\ \A m \in Nat : m > 0 /\ ExitId(<<day, m>>) \in fills => \E n \in stored : n > m

\* A pending exit has a bar as its trigger, and none had its id before; the
\* daily bars that triggered exits are not later than the entry.
PlanInv ==
  Held =>
    /\ plan.opened[1] <= day
    /\ Pending => /\ plan.pending[1] <= day /\ plan.pending[2] > 0
                  /\ ExitId(plan.pending) \notin fills
    /\ \A d \in Nat : ExitId(<<d, 0>>) \in fills => d <= plan.opened[1]

ExitInv == TypeOK /\ ExitsInv /\ PlanInv /\ FirstStopHonored /\ SoldAfterTrigger

LEMMA ExitInit == Init => ExitInv
<1> SUFFICES ASSUME Init PROVE ExitInv
  OBVIOUS
<1> USE DEF Init
<1>1. TypeOK
  <2>1. market \in [1..Minutes -> Bar \cup {NoBar}] /\ minute \in 0..Minutes /\ day \in Nat
    OBVIOUS
  <2>2. NoSale \in [reason : {"none", "hard-stop", "structure-invalidated"},
                   opened : Time, trigger : Time, bar : Time]
    BY DEF NoSale, Time, NoTime
  <2> QED BY <2>1, <2>2 DEF TypeOK
<1>2. ExitsInv /\ PlanInv /\ FirstStopHonored /\ SoldAfterTrigger
  BY DEF ExitsInv, PlanInv, FirstStopHonored, SoldAfterTrigger, Held
<1> QED BY <1>1, <1>2 DEF ExitInv

\* A collection keeps what is stored and adds bars of the market.
LEMMA CollectedBars ==
  ASSUME TypeOK, NEW S \in Collected \cup Fetched
  PROVE  stored \subseteq S /\ S \subseteq {m \in 1..minute : market[m] # NoBar}
<1> DEFINE traded == {m \in 1..minute : market[m] # NoBar}
<1>1. ASSUME NEW T \in Collected PROVE stored \subseteq T /\ T \subseteq traded
  <2>1. PICK late \in Late : T = stored \cup (LatestPage \ late)
    BY <1>1 DEF Collected
  <2> QED BY <2>1 DEF TypeOK, LatestPage
<1>2. ASSUME NEW T \in Collected PROVE stored \subseteq Complete(T) /\ Complete(T) \subseteq traded
  <2>1. \A k : BackTo(k) \subseteq traded
    BY DEF BackTo
  <2> QED BY <1>1, <2>1 DEF Complete
<1>3. CASE S \in Collected
  BY <1>1, <1>3
<1>4. CASE S \in Fetched /\ ~(S \in Collected)
  <2>1. PICK T \in Collected : S = Complete(T)
    BY <1>4 DEF Fetched
  <2> QED BY <1>2, <2>1
<1> QED BY <1>3, <1>4

\* What a cycle decides of a position.
LEMMA DecisionFacts ==
  ASSUME ExitInv, Held, NEW S \in SUBSET (1..Minutes)
  PROVE  LET d == Decision(S)
         IN /\ d.do \in {"wait", "mark", "sell"}
            /\ d.do = "wait" /\ ~Pending => Touching(S, plan.stop) = {}
            /\ d.do = "mark" => /\ ~Pending
                                /\ \E t \in S : /\ d.trigger = <<day, t>>
                                               /\ \A n \in S : n <= t
            /\ d.do = "sell" =>
                 /\ d.bar \in S /\ d.trigger \in Time
                 /\ d.reason \in {"hard-stop", "structure-invalidated"}
                 /\ After(<<day, d.bar>>, d.trigger)
                 /\ \/ Pending /\ d.trigger = plan.pending
                    \/ ~Pending /\ Invalidated /\ d.trigger = <<day, 0>>
                    \/ ~Pending /\ \E t \in S : t < d.bar /\ d.trigger = <<day, t>>
<1> DEFINE touching == Touching(S, plan.stop)
           touch == Earliest(touching)
           after == {m \in S : m > touch}
           next == {m \in S : After(<<day, m>>, plan.pending)}
<1>0. day \in Nat /\ plan.pending \in Time /\ Minutes \in Nat
  BY DEF ExitInv, TypeOK, Held
<1>1. /\ S \in SUBSET Nat /\ next \in SUBSET Nat /\ after \in SUBSET Nat
      /\ touching \in SUBSET Nat /\ touching \subseteq S
  <2>1. S \in SUBSET Nat
    BY <1>0
  <2>2. touching \subseteq S
    BY DEF Touching
  <2> QED BY <2>1, <2>2
<1>2. CASE Pending
  <2>1. CASE next = {}
    BY <1>2, <2>1 DEF Decision, PendingExit, Wait
  <2>2. CASE next # {}
    <3>1. Decision(S) = SellAt(plan.pending, Earliest(next), "hard-stop")
      BY <1>2, <2>2 DEF Decision, PendingExit
    <3>2. Earliest(next) \in next
      BY <1>1, <2>2, EarliestIs
    <3> QED BY <1>0, <1>2, <3>1, <3>2 DEF SellAt
  <2> QED BY <2>1, <2>2
<1>3. CASE ~Pending /\ Invalidated
  <2>1. CASE S = {}
    BY <1>3, <2>1 DEF Decision, StructureExit, Wait, Touching
  <2>2. CASE S # {}
    <3>1. Decision(S) = SellAt(<<day, 0>>, Earliest(S), "structure-invalidated")
      BY <1>3, <2>2 DEF Decision, StructureExit
    <3>2. Earliest(S) \in S
      BY <1>1, <2>2, EarliestIs
    <3>3. Earliest(S) \in Nat /\ Earliest(S) > 0
      <4>1. \A m \in S : m \in Nat /\ m > 0
        BY <1>0
      <4> QED BY <3>2, <4>1
    <3>4. After(<<day, Earliest(S)>>, <<day, 0>>) /\ <<day, 0>> \in Time
      BY <1>0, <3>3 DEF After, Time
    <3> QED BY <1>3, <3>1, <3>2, <3>4 DEF SellAt
  <2> QED BY <2>1, <2>2
<1>4. CASE ~Pending /\ ~Invalidated
  <2>1. CASE touching = {}
    BY <1>4, <2>1 DEF Decision, StopExit, Wait
  <2>2. CASE touching # {}
    <3>1. touch \in S /\ touch \in Nat
      BY <1>1, <2>2, EarliestIs
    <3> HIDE DEF touch
    <3>2. CASE after = {}
      <4>1. Decision(S) = [do |-> "mark", trigger |-> <<day, touch>>,
                           bar |-> 0, reason |-> "hard-stop"]
        BY <1>4, <2>2, <3>2 DEF Decision, StopExit, touch
      <4>2. \A n \in S : n <= touch
        BY <1>1, <3>1, <3>2
      <4> QED BY <1>4, <3>1, <4>1, <4>2
    <3>3. CASE after # {}
      <4> DEFINE bar == Earliest(after)
      <4>1. Decision(S) = SellAt(<<day, touch>>, bar, "hard-stop")
        BY <1>4, <2>2, <3>3 DEF Decision, StopExit, touch
      <4>2. bar \in S /\ bar > touch /\ bar \in Nat
        BY <1>1, <3>3, EarliestIs
      <4> HIDE DEF bar
      <4>3. After(<<day, bar>>, <<day, touch>>) /\ <<day, touch>> \in Time
        BY <1>0, <3>1, <4>2 DEF After, Time
      <4> QED BY <1>4, <3>1, <4>1, <4>2, <4>3 DEF SellAt
    <3> QED BY <3>2, <3>3
  <2> QED BY <2>1, <2>2
<1> QED BY <1>2, <1>3, <1>4

-----------------------------------------------------------------------------
(* The steps *)

\* A cycle that leaves the position and the fills as they are.
LEMMA QuietCycle ==
  ASSUME ExitInv, stored' \in Collected \cup Fetched,
         UNCHANGED <<clockVars, plan, fills, sale>>,
         evaluated' \in BOOLEAN,
         evaluated' /\ Held /\ ~Pending =>
           \/ Touching(stored', plan.stop) = {}
           \/ \E t \in stored' : ExitId(<<day, t>>) \in fills
  PROVE  ExitInv'
<1>1. /\ stored \subseteq stored'
      /\ stored' \subseteq {m \in 1..minute : market[m] # NoBar}
  BY CollectedBars DEF ExitInv
<1>2. TypeOK'
  BY <1>1 DEF ExitInv, TypeOK, clockVars
<1>3. ExitsInv' /\ PlanInv' /\ SoldAfterTrigger'
  BY <1>1 DEF ExitInv, ExitsInv, PlanInv, SoldAfterTrigger, Held, Pending, clockVars
<1>4. FirstStopHonored'
  <2>1. \A t \in stored' : t \in 0..Minutes
    BY <1>1 DEF ExitInv, TypeOK
  <2> QED BY <2>1 DEF FirstStopHonored, Held, Pending, SoldToday, TouchedSinceEntry,
                      Touching, clockVars
<1> QED BY <1>2, <1>3, <1>4 DEF ExitInv

LEMMA HoldStep == ASSUME ExitInv, Hold \/ SellRefused \/ StayFlat PROVE ExitInv'
<1>1. stored' \in Collected \cup Fetched /\ UNCHANGED <<clockVars, plan, fills, sale>>
  BY DEF Hold, SellRefused, StayFlat
<1>2. stored' \in SUBSET (1..Minutes)
  BY <1>1, CollectedBars DEF ExitInv, TypeOK
<1>3. evaluated' => Held /\ Decision(stored').do = "wait"
  BY DEF Hold, SellRefused, StayFlat
<1>4. evaluated' \in BOOLEAN
  BY DEF Hold, SellRefused, StayFlat
<1> QED BY <1>1, <1>2, <1>3, <1>4, QuietCycle, DecisionFacts

\* An exit is refused as a duplicate only if its trigger is a bar of this
\* session that triggered an exit before.
LEMMA DuplicateStep == ASSUME ExitInv, SellDuplicate PROVE ExitInv'
<1> DEFINE d == Decision(stored')
<1>1. /\ stored' \in Collected /\ UNCHANGED <<clockVars, plan, fills, sale>>
      /\ Held /\ d.do = "sell" /\ ExitId(d.trigger) \in fills /\ evaluated'
  BY DEF SellDuplicate
<1>2. stored' \in SUBSET (1..Minutes)
  BY <1>1, CollectedBars DEF ExitInv, TypeOK
<1>3. \/ Pending /\ d.trigger = plan.pending
      \/ ~Pending /\ Invalidated /\ d.trigger = <<day, 0>>
      \/ ~Pending /\ \E t \in stored' : t < d.bar /\ d.trigger = <<day, t>>
  BY <1>1, <1>2, DecisionFacts
<1>4. ~(~Pending /\ Invalidated /\ d.trigger = <<day, 0>>)
  <2>1. day \in Nat /\ plan.opened[1] \in Nat
    BY <1>1 DEF ExitInv, TypeOK, Held, Time
  <2>2. Invalidated => day > plan.opened[1]
    BY DEF Invalidated
  <2>3. ExitId(<<day, 0>>) \in fills => day <= plan.opened[1]
    BY <1>1, <2>1 DEF ExitInv, PlanInv
  <2> QED BY <1>1, <2>1, <2>2, <2>3
<1>5. ~Pending => \E t \in stored' : ExitId(<<day, t>>) \in fills
  BY <1>1, <1>3, <1>4
<1>6. evaluated' \in BOOLEAN
  BY DEF SellDuplicate
<1> QED BY <1>1, <1>5, <1>6, QuietCycle

LEMMA MarkStep == ASSUME ExitInv, MarkPending PROVE ExitInv'
<1>1. stored' \in Collected /\ UNCHANGED <<clockVars, fills, sale>> /\ Held
  BY DEF MarkPending
<1>2. /\ stored \subseteq stored'
      /\ stored' \subseteq {m \in 1..minute : market[m] # NoBar}
      /\ stored' \in SUBSET (1..Minutes)
  BY <1>1, CollectedBars DEF ExitInv, TypeOK
<1>3. PICK t \in stored' : /\ plan' = [plan EXCEPT !.pending = <<day, t>>]
                          /\ \A n \in stored' : n <= t
  BY <1>1, <1>2, DecisionFacts DEF MarkPending
<1>4. t \in Nat /\ t > 0 /\ day \in Nat
  BY <1>2 DEF ExitInv, TypeOK
<1>5. /\ plan' \in [kind : Kinds, stop : Prices, opened : Time, pullback : BOOLEAN,
                   pending : Time]
      /\ plan'.opened = plan.opened /\ plan'.pending = <<day, t>>
      /\ Pending'
  <2>1. plan \in [kind : Kinds, stop : Prices, opened : Time, pullback : BOOLEAN,
                  pending : Time]
    BY <1>1 DEF ExitInv, TypeOK, Held
  <2>2. <<day, t>> \in Time /\ <<day, t>> # NoTime
    BY <1>4 DEF Time, NoTime
  <2> QED BY <1>3, <2>1, <2>2 DEF Pending
<1>6. ExitId(<<day, t>>) \notin fills
  <2>1. \A n \in stored : ~(n > t)
    BY <1>2, <1>3, <1>4 DEF ExitInv, TypeOK
  <2> QED BY <1>4, <2>1 DEF ExitInv, ExitsInv
<1>7. TypeOK'
  BY <1>1, <1>2, <1>5 DEF ExitInv, TypeOK, clockVars, MarkPending
<1>8. ExitsInv' /\ SoldAfterTrigger'
  BY <1>1, <1>2 DEF ExitInv, ExitsInv, SoldAfterTrigger, clockVars
<1>9. PlanInv'
  BY <1>1, <1>4, <1>5, <1>6 DEF ExitInv, PlanInv, clockVars
<1>10. FirstStopHonored'
  BY <1>5 DEF FirstStopHonored
<1> QED BY <1>7, <1>8, <1>9, <1>10 DEF ExitInv

\* A sale is of a trigger of this session, or an earlier one, and priced at a
\* bar after it.
LEMMA SellStep == ASSUME ExitInv, Sell PROVE ExitInv'
<1> DEFINE d == Decision(stored')
<1>1. /\ stored' \in Collected /\ UNCHANGED clockVars /\ Held
      /\ d.do = "sell" /\ fills' = fills \cup {ExitId(d.trigger)}
      /\ sale' = [reason |-> d.reason, opened |-> plan.opened,
                  trigger |-> d.trigger, bar |-> <<day, d.bar>>]
      /\ plan' = NoPlan /\ evaluated'
  BY DEF Sell
<1>2. /\ stored \subseteq stored'
      /\ stored' \subseteq {m \in 1..minute : market[m] # NoBar}
      /\ stored' \in SUBSET (1..Minutes) /\ day \in Nat /\ plan.opened \in Time
  BY <1>1, CollectedBars DEF ExitInv, TypeOK, Held
<1>3. /\ d.bar \in stored' /\ d.trigger \in Time
      /\ d.reason \in {"hard-stop", "structure-invalidated"}
      /\ After(<<day, d.bar>>, d.trigger)
  BY <1>1, <1>2, DecisionFacts
<1> HIDE DEF d
<1>4. d.bar \in Nat
  <2>1. d.bar \in 1..Minutes
    BY <1>2, <1>3
  <2> QED BY <2>1
<1>5. PICK td, tm \in Nat : d.trigger = <<td, tm>>
  BY <1>3 DEF Time
<1>6. td <= day /\ (td = day => d.bar > tm)
  BY <1>2, <1>3, <1>4, <1>5 DEF After
<1>7. ~Held'
  BY <1>1 DEF Held
<1>8. TypeOK'
  <2>1. fills' \subseteq (Kinds \cup {"exit"}) \X Time
    BY <1>1, <1>3 DEF ExitInv, TypeOK, ExitId
  <2>2. sale' \in [reason : {"none", "hard-stop", "structure-invalidated"},
                   opened : Time, trigger : Time, bar : Time]
    <3>1. <<day, d.bar>> \in Time
      BY <1>2, <1>4 DEF Time
    <3> QED BY <1>1, <1>2, <1>3, <3>1
  <2>3. evaluated' \in BOOLEAN
    BY DEF Sell
  <2> QED BY <1>1, <1>2, <2>1, <2>2, <2>3 DEF ExitInv, TypeOK, clockVars
<1>9. ExitsInv'
  <2>1. ASSUME NEW e \in Nat, NEW m \in Nat, ExitId(<<e, m>>) \in fills'
        PROVE  e <= day /\ (e = day /\ m > 0 => \E n \in stored' : n > m)
    <3>1. CASE ExitId(<<e, m>>) \in fills
      BY <1>2, <2>1, <3>1 DEF ExitInv, ExitsInv
    <3>2. CASE ExitId(<<e, m>>) = ExitId(d.trigger)
      <4>1. e = td /\ m = tm
        BY <1>5, <3>2 DEF ExitId
      <4> QED BY <1>3, <1>6, <4>1
    <3> QED BY <1>1, <2>1, <3>1, <3>2
  <2>2. day' = day
    BY <1>1 DEF clockVars
  <2> QED BY <1>2, <2>1, <2>2 DEF ExitsInv, ExitId
<1>10. PlanInv' /\ FirstStopHonored'
  BY <1>7 DEF PlanInv, FirstStopHonored
<1>11. SoldAfterTrigger'
  BY <1>1, <1>3 DEF SoldAfterTrigger, After
<1> QED BY <1>8, <1>9, <1>10, <1>11 DEF ExitInv

\* A position is opened with the current bar, after every exit before it.
LEMMA OpenStep ==
  ASSUME ExitInv, stored' \in Collected \cup Fetched, UNCHANGED <<clockVars, sale>>,
         NEW kind \in Kinds, NEW stop \in Prices, NEW pullback \in BOOLEAN,
         Open(kind, stop, pullback)
  PROVE  ExitInv'
<1>1. /\ stored \subseteq stored'
      /\ stored' \subseteq {m \in 1..minute : market[m] # NoBar}
  BY CollectedBars DEF ExitInv
<1>2. /\ fills' = fills \cup {EntryId(kind)}
      /\ plan' = [kind |-> kind, stop |-> stop, opened |-> <<day, minute>>,
                  pullback |-> pullback, pending |-> NoTime]
      /\ evaluated' = FALSE
  BY DEF Open
<1>3. day \in Nat /\ minute \in Nat /\ kind # "exit"
  BY DEF ExitInv, TypeOK
<1>4. <<day, minute>> \in Time /\ NoTime \in Time /\ <<day, 0>> \in Time
  BY <1>3 DEF Time, NoTime
<1>5. TypeOK'
  <2>1. plan' \in [kind : Kinds, stop : Prices, opened : Time, pullback : BOOLEAN,
                   pending : Time]
    BY <1>2, <1>4
  <2>2. fills' \subseteq (Kinds \cup {"exit"}) \X Time
    <3>1. fills \subseteq (Kinds \cup {"exit"}) \X Time
      BY DEF ExitInv, TypeOK
    <3>2. EntryId(kind) \in (Kinds \cup {"exit"}) \X Time
      BY <1>4 DEF EntryId
    <3> QED BY <1>2, <3>1, <3>2
  <2> QED BY <1>1, <1>2, <2>1, <2>2 DEF ExitInv, TypeOK, clockVars
<1>6. \A t : ExitId(t) \in fills' <=> ExitId(t) \in fills
  BY <1>2, <1>3 DEF ExitId, EntryId
<1>7. ExitsInv'
  BY <1>1, <1>6 DEF ExitInv, ExitsInv, ExitId, clockVars
<1>8. PlanInv'
  <2>1. ~Pending' /\ plan'.opened[1] = day /\ day' = day
    BY <1>2 DEF Pending, clockVars
  <2>2. \A e \in Nat : ExitId(<<e, 0>>) \in fills' => e <= day
    BY <1>6 DEF ExitInv, ExitsInv
  <2> QED BY <1>3, <2>1, <2>2 DEF PlanInv, ExitId
<1>9. FirstStopHonored' /\ SoldAfterTrigger'
  BY <1>2 DEF ExitInv, FirstStopHonored, SoldAfterTrigger
<1> QED BY <1>5, <1>7, <1>8, <1>9 DEF ExitInv

LEMMA EnterStep == ASSUME ExitInv, EnterV2 \/ EnterHunter PROVE ExitInv'
<1>1. stored' \in Collected \cup Fetched /\ UNCHANGED <<clockVars, sale>>
  BY DEF EnterV2, EnterHunter
<1>2. CASE EnterV2
  <2>1. "v2" \in Kinds
    BY <1>2 DEF EnterV2, Armable
  <2> QED BY <1>1, <1>2, <2>1, OpenStep DEF EnterV2
<1>3. CASE EnterHunter
  <2>1. PICK first \in {m \in stored' : m <= Cutoff} :
          LET stop == Lowest({market[m].low : m \in {n \in stored' : first <= n /\ n <= Cutoff}})
          IN stop < market[minute].close /\ Open("hunter", stop, FALSE)
    BY <1>3 DEF EnterHunter
  <2> DEFINE pullback == {n \in stored' : first <= n /\ n <= Cutoff}
             lows == {market[m].low : m \in pullback}
  <2>2. \A m \in stored' : m \in 1..Minutes /\ market[m] \in Bar
    BY <1>1, CollectedBars DEF ExitInv, TypeOK
  <2>3. first \in pullback
    BY <2>1, <2>2
  <2>4. lows \subseteq Prices /\ lows # {}
    BY <2>2, <2>3 DEF Bar
  <2>5. Lowest(lows) \in Prices
    BY <2>4, LowestIs
  <2> QED BY <1>1, <1>3, <2>1, <2>5, OpenStep DEF EnterHunter
<1> QED BY <1>2, <1>3

LEMMA TickStep == ASSUME ExitInv, Tick PROVE ExitInv'
<1>1. /\ minute < Minutes /\ minute' = minute + 1 /\ evaluated' = FALSE
      /\ UNCHANGED <<day, below, setup, stored, plan, fills, sale>>
  BY DEF Tick
<1>2. PICK b \in Bar \cup {NoBar} : market' = [market EXCEPT ![minute + 1] = b]
  BY DEF Tick
<1>3. minute \in 0..Minutes /\ market \in [1..Minutes -> Bar \cup {NoBar}]
  BY DEF ExitInv, TypeOK
<1>4. minute' \in 0..Minutes /\ market' \in [1..Minutes -> Bar \cup {NoBar}]
  BY <1>1, <1>2, <1>3
<1>5. stored' \subseteq {m \in 1..minute' : market'[m] # NoBar}
  <2>1. ASSUME NEW m \in stored PROVE m \in 1..minute /\ market[m] # NoBar
    BY DEF ExitInv, TypeOK
  <2>2. ASSUME NEW m \in 1..minute PROVE m \in 1..minute' /\ market'[m] = market[m]
    BY <1>1, <1>2, <1>3
  <2> QED BY <1>1, <2>1, <2>2
<1>6. TypeOK'
  <2>0. opening' \in Prices \cup {0}
    BY DEF ExitInv, TypeOK, Tick
  <2>1. /\ day' \in Nat /\ below' \in BOOLEAN /\ evaluated' \in BOOLEAN
        /\ setup' \in Setups
        /\ plan' \in [kind : Kinds, stop : Prices, opened : Time, pullback : BOOLEAN,
                      pending : Time] \cup {NoPlan}
        /\ fills' \subseteq (Kinds \cup {"exit"}) \X Time
        /\ sale' \in [reason : {"none", "hard-stop", "structure-invalidated"},
                      opened : Time, trigger : Time, bar : Time]
    BY <1>1 DEF ExitInv, TypeOK
  <2> QED BY <1>4, <1>5, <2>0, <2>1, Zenon DEF TypeOK
<1>7. ExitsInv' /\ PlanInv' /\ FirstStopHonored' /\ SoldAfterTrigger'
  BY <1>1 DEF ExitInv, ExitsInv, PlanInv, FirstStopHonored, SoldAfterTrigger, Held, Pending
<1> QED BY <1>6, <1>7 DEF ExitInv

\* No exit was triggered by a bar of the session that begins.
LEMMA NextDayStep == ASSUME ExitInv, NextDay PROVE ExitInv'
<1>1. /\ day' = day + 1 /\ minute' = 0 /\ market' = [m \in 1..Minutes |-> NoBar]
      /\ stored' = {} /\ below' \in BOOLEAN /\ evaluated' = FALSE
      /\ UNCHANGED <<plan, fills, sale>>
  BY DEF NextDay
<1>2. day \in Nat
  BY DEF ExitInv, TypeOK
<1>3. market' \in [1..Minutes -> Bar \cup {NoBar}] /\ minute' \in 0..Minutes
  BY <1>1
<1>4. TypeOK'
  <2>1. day' \in Nat
    BY <1>1, <1>2
  <2>2. below' \in BOOLEAN /\ evaluated' \in BOOLEAN
    BY <1>1, Zenon
  <2>5. setup' \in Setups /\ opening' \in Prices \cup {0}
    BY DEF NextDay
  <2>3. /\ plan' \in [kind : Kinds, stop : Prices, opened : Time, pullback : BOOLEAN,
                      pending : Time] \cup {NoPlan}
        /\ fills' \subseteq (Kinds \cup {"exit"}) \X Time
        /\ sale' \in [reason : {"none", "hard-stop", "structure-invalidated"},
                      opened : Time, trigger : Time, bar : Time]
    BY <1>1 DEF ExitInv, TypeOK
  <2>4. stored' \subseteq {m \in 1..minute' : market'[m] # NoBar}
    BY <1>1
  <2> QED BY <1>3, <2>1, <2>2, <2>3, <2>4, <2>5, Zenon DEF TypeOK
<1>5. ExitsInv'
  <2>1. \A e, m \in Nat : ExitId(<<e, m>>) \in fills => e <= day
    BY DEF ExitInv, ExitsInv
  <2> QED BY <1>1, <1>2, <2>1 DEF ExitsInv, ExitId
<1>6. PlanInv'
  <2>1. Held => plan.opened \in Time /\ plan.pending \in Time
    BY DEF ExitInv, TypeOK, Held
  <2>2. Held => plan.opened[1] \in Nat /\ plan.pending[1] \in Nat
    BY <2>1 DEF Time
  <2> QED BY <1>1, <1>2, <2>2 DEF ExitInv, PlanInv, Held, Pending, ExitId
<1>7. FirstStopHonored' /\ SoldAfterTrigger'
  BY <1>1 DEF ExitInv, FirstStopHonored, SoldAfterTrigger
<1> QED BY <1>4, <1>5, <1>6, <1>7 DEF ExitInv

LEMMA ExitStep == ASSUME ExitInv, [Next]_vars PROVE ExitInv'
<1>1. CASE Hold \/ SellRefused \/ StayFlat  BY <1>1, HoldStep
<1>2. CASE MarkPending                      BY <1>2, MarkStep
<1>3. CASE Sell                             BY <1>3, SellStep
<1>4. CASE SellDuplicate                    BY <1>4, DuplicateStep
<1>5. CASE EnterV2 \/ EnterHunter           BY <1>5, EnterStep
<1>6. CASE Tick                             BY <1>6, TickStep
<1>7. CASE NextDay                          BY <1>7, NextDayStep
<1>8. CASE UNCHANGED vars
  BY <1>8 DEF vars, clockVars, ExitInv, TypeOK, ExitsInv, PlanInv, FirstStopHonored,
              SoldAfterTrigger, Held, Pending, SoldToday, TouchedSinceEntry
<1> QED BY <1>1, <1>2, <1>3, <1>4, <1>5, <1>6, <1>7, <1>8 DEF Next, Cycle

-----------------------------------------------------------------------------
(* The theorems *)

\* The invariant the others follow from.
THEOREM ExitInvariant == Spec => []ExitInv
<1>1. Init => ExitInv  BY ExitInit
<1>2. ExitInv /\ [Next]_vars => ExitInv'  BY ExitStep
<1> QED BY <1>1, <1>2, PTL DEF Spec

\* Only bars of the market are stored, and every variable keeps its type, for
\* any length of sessions and any windows.
THEOREM ExitTypeCorrect == Spec => []TypeOK
<1>1. ExitInv => TypeOK  BY DEF ExitInv
<1> QED BY <1>1, ExitInvariant, PTL

\* Whatever order the bars come in, a decision on them leaves no first position
\* of a session open with a touched stop and no pending exit.
THEOREM FirstStopStaysHonored == Spec => []FirstStopHonored
<1>1. ExitInv => FirstStopHonored  BY DEF ExitInv
<1> QED BY <1>1, ExitInvariant, PTL

\* No exit is priced at the bar that triggered it, or before.
THEOREM SalesFollowTriggers == Spec => []SoldAfterTrigger
<1>1. ExitInv => SoldAfterTrigger  BY DEF ExitInv
<1> QED BY <1>1, ExitInvariant, PTL

\* A pending exit, and one on the daily bar, can not be refused as duplicates.
THEOREM WaitingExitsStayNew == Spec => []WaitingExitIsNew
<1>1. ExitInv => WaitingExitIsNew
  <2> SUFFICES ASSUME ExitInv, Held PROVE WaitingExitIsNew
    BY DEF WaitingExitIsNew
  <2>1. day \in Nat /\ plan.opened[1] \in Nat
    BY DEF ExitInv, TypeOK, Held, Time
  <2>2. Pending => ExitId(plan.pending) \notin fills
    BY DEF ExitInv, PlanInv
  <2>3. ExitId(<<day, 0>>) \in fills => day <= plan.opened[1]
    BY <2>1 DEF ExitInv, PlanInv
  <2>4. Invalidated => day > plan.opened[1]
    BY DEF Invalidated
  <2> QED BY <2>1, <2>2, <2>3, <2>4 DEF WaitingExitIsNew
<1> QED BY <1>1, ExitInvariant, PTL

\* A pending exit waits for a bar, and is sold with the trigger it was marked
\* with, whatever later bars and sessions bring.
THEOREM PendingStaysKept == Spec => PendingKept
<1> DEFINE Kept == Held /\ Pending =>
                     plan' = plan \/ (plan' = NoPlan /\ sale'.trigger = plan.pending)
<1>1. ExitInv /\ [Next]_vars => [Kept]_vars
  <2> SUFFICES ASSUME ExitInv, Next, Held, Pending
               PROVE  plan' = plan \/ (plan' = NoPlan /\ sale'.trigger = plan.pending)
    OBVIOUS
  <2>1. stored' \in Collected \cup Fetched => stored' \in SUBSET (1..Minutes)
    BY CollectedBars DEF ExitInv, TypeOK
  <2>2. CASE MarkPending
    BY <2>1, <2>2, DecisionFacts DEF MarkPending
  <2>3. CASE Sell
    BY <2>1, <2>3, DecisionFacts DEF Sell
  <2>4. CASE Hold \/ SellDuplicate \/ SellRefused \/ StayFlat \/ Tick \/ NextDay
    BY <2>4 DEF Hold, SellDuplicate, SellRefused, StayFlat, Tick, NextDay
  <2>5. CASE EnterV2 \/ EnterHunter
    BY <2>5 DEF EnterV2, EnterHunter, Armable
  <2> QED BY <2>2, <2>3, <2>4, <2>5 DEF Next, Cycle
<1> QED BY <1>1, ExitInvariant, PTL DEF PendingKept, Spec

-----------------------------------------------------------------------------
(* The reclaim that is reported *)

\* A traded bar that was missed is out of reach of the pages to come.
MissedIsGone ==
  \A n \in stored, b \in 1..minute :
    market[b] # NoBar /\ b \notin stored /\ b < n => b + Page <= minute

\* What a step may do to the bars that are stored.
BarsGrow ==
  \/ stored' \in Collected \cup Fetched /\ UNCHANGED clockVars
  \/ Tick \/ NextDay

LEMMA StepBars == ASSUME [Next]_vars PROVE BarsGrow \/ UNCHANGED <<clockVars, stored>>
BY DEF Next, Cycle, Hold, MarkPending, Sell, SellDuplicate, SellRefused, EnterV2,
       EnterHunter, StayFlat, BarsGrow, vars

\* A collection takes the latest page, but for its newest bar perhaps, and older
\* pages only if the opening bar is not there yet.
LEMMA NewBars ==
  ASSUME TypeOK, stored' \in Collected \cup Fetched
  PROVE  /\ \A b \in LatestPage : b \in stored' \/ b = minute
         /\ 1 \in stored => stored' \subseteq stored \cup LatestPage
<1> DEFINE Good(T) == /\ \A b \in LatestPage : b \in T \/ b = minute
                      /\ T \subseteq stored \cup LatestPage /\ stored \subseteq T
<1>1. ASSUME NEW T \in Collected PROVE Good(T)
  <2>1. PICK late \in Late : T = stored \cup (LatestPage \ late)
    BY <1>1 DEF Collected
  <2>2. late \subseteq {minute}
    BY DEF Late
  <2> QED BY <2>1, <2>2
<1>2. CASE stored' \in Collected
  BY <1>1, <1>2
<1>3. CASE stored' \in Fetched /\ stored' \notin Collected
  <2>1. PICK T \in Collected : stored' = Complete(T)
    BY <1>3 DEF Fetched
  <2>2. Good(T)
    BY <1>1
  <2>3. 1 \in stored => Complete(T) = T
    BY <2>2 DEF Complete
  <2>4. T \subseteq Complete(T)
    BY DEF Complete
  <2> QED BY <2>1, <2>2, <2>3, <2>4
<1> QED BY <1>2, <1>3

LEMMA MissedStep == ASSUME TypeOK, MissedIsGone, [Next]_vars PROVE MissedIsGone'
<1>1. CASE stored' \in Collected \cup Fetched /\ UNCHANGED clockVars
  <2> SUFFICES ASSUME NEW n \in stored', NEW b \in 1..minute,
                      market[b] # NoBar, b \notin stored', b < n
               PROVE  b + Page <= minute
    BY <1>1 DEF MissedIsGone, clockVars
  <2>1. stored \subseteq stored' /\ n \in 1..minute
    BY <1>1, CollectedBars
  <2>2. b # minute /\ b \notin LatestPage
    BY <1>1, <2>1, NewBars DEF TypeOK
  <2>3. ~(b + Page > minute)
    BY <2>2 DEF LatestPage
  <2> QED BY <2>3 DEF TypeOK
<1>2. CASE Tick
  <2>1. minute \in Nat /\ minute' = minute + 1 /\ stored' = stored
    BY <1>2 DEF Tick, TypeOK
  <2>2. \A b \in 1..minute : market'[b] = market[b]
    BY <1>2 DEF Tick, TypeOK
  <2>3. stored \subseteq 1..minute
    BY DEF TypeOK
  <2> SUFFICES ASSUME NEW n \in stored, NEW b \in 1..minute',
                      market'[b] # NoBar, b \notin stored, b < n
               PROVE  b + Page <= minute'
    BY <2>1 DEF MissedIsGone
  <2>4. b \in 1..minute
    BY <2>1, <2>3
  <2>5. b + Page <= minute
    BY <2>2, <2>4 DEF MissedIsGone
  <2> QED BY <2>1, <2>4, <2>5
<1>3. CASE NextDay
  BY <1>3 DEF NextDay, MissedIsGone
<1>4. CASE UNCHANGED <<clockVars, stored>>
  BY <1>4 DEF clockVars, MissedIsGone
<1> QED BY <1>1, <1>2, <1>3, <1>4, StepBars DEF BarsGrow

\* Newer bars do not change the first reclaim that held.
LEMMA NewerBarsKeepReclaim ==
  ASSUME NEW S \in SUBSET Nat, NEW T \in SUBSET Nat, S \subseteq T,
         \A b \in T \ S : \A n \in S : n < b,
         Reclaim(S) # 0
  PROVE  Reclaim(T) = Reclaim(S)
<1> DEFINE kept(R) == {m \in Reclaims(R) : HoldsAfter(m, R)}
           r == Earliest(kept(S))
<1>0. ASSUME NEW k \in T, NEW m \in S, k < m PROVE k \in S
  <2>1. k \in Nat /\ m \in Nat
    OBVIOUS
  <2>2. k \notin S => m < k
    OBVIOUS
  <2> QED BY <1>0, <2>1, <2>2
<1>1. 1 \in S /\ setup # 0 /\ opening <= setup /\ kept(S) # {} /\ Reclaim(S) = r
  BY DEF Reclaim
<1>2. kept(S) \subseteq S /\ kept(T) \subseteq T
  BY DEF Reclaims, Watched
<1>3. r \in kept(S) /\ \A q \in kept(S) : r <= q
  BY <1>1, <1>2, EarliestIs
<1> HIDE DEF r
<1>4. \A m \in S : m \in Reclaims(T) <=> m \in Reclaims(S)
  <2> SUFFICES ASSUME NEW m \in S PROVE m \in Reclaims(T) <=> m \in Reclaims(S)
    OBVIOUS
  <2>1. \A k \in T : k < m => k \in S
    BY <1>0
  <2>2. \A k \in T : m <= k \/ k \in S
    BY <2>1
  <2>3. \A n \in Watched(S) : (\A k \in Watched(S) : k <= n \/ m <= k)
                               <=> (\A k \in Watched(T) : k <= n \/ m <= k)
    BY <2>2 DEF Watched
  <2>4. \A n \in Watched(T) : n < m => n \in Watched(S)
    BY <2>1 DEF Watched
  <2>5. \A n \in Watched(S) : n \in Watched(T)
    BY DEF Watched
  <2>6. m \in Watched(S) <=> m \in Watched(T)
    BY DEF Watched
  <2> QED BY <2>3, <2>4, <2>5, <2>6 DEF Reclaims
<1>5. r \in kept(T)
  <2>1. \A n \in Watched(S) : n \in Watched(T)
    BY DEF Watched
  <2> QED BY <1>2, <1>3, <1>4, <2>1 DEF HoldsAfter
<1>6. ASSUME NEW q \in kept(T), q < r PROVE FALSE
  <2>1. q \in S
    <3>1. q \in T /\ r \in S
      BY <1>2, <1>3
    <3> QED BY <1>0, <1>6, <3>1
  <2>2. q \in Reclaims(S)
    BY <1>4, <2>1
  <2>3. ASSUME NEW n \in (q + 1)..(q + HoldBars) PROVE n \in Watched(S) /\ HoldFloorKept(n)
    <3>1. n \in Watched(T) /\ HoldFloorKept(n)
      BY <2>3 DEF HoldsAfter
    <3>2. HoldBars \in Nat /\ HoldBars > 0 /\ q \in Nat /\ r \in Nat /\ n \in Nat
      BY <1>2, <1>3, <2>1, <2>3
    <3>3. r + HoldBars \in S
      BY <1>3, <3>2 DEF HoldsAfter, Watched
    <3>4. n < r + HoldBars
      BY <1>6, <2>3, <3>2
    <3>5. n \in S
      BY <3>1, <3>2, <3>3, <3>4 DEF Watched
    <3> QED BY <3>1, <3>5 DEF Watched
  <2>4. q \in kept(S)
    BY <2>2, <2>3 DEF HoldsAfter
  <2>5. q \in Nat /\ r \in Nat /\ r <= q
    BY <1>2, <1>3, <2>1, <2>4
  <2> QED BY <1>6, <2>5
<1>7. Earliest(kept(T)) = r
  <2>1. kept(T) # {}
    BY <1>5
  <2>2. /\ Earliest(kept(T)) \in kept(T)
        /\ \A q \in kept(T) : Earliest(kept(T)) <= q
    BY <1>2, <2>1, EarliestIs
  <2>3. r \in Nat /\ Earliest(kept(T)) \in Nat
    BY <1>2, <1>3, <2>2
  <2> QED BY <1>5, <1>6, <2>2, <2>3
<1>8. Reclaim(T) = Earliest(kept(T))
  BY <1>1, <1>5 DEF Reclaim
<1> QED BY <1>1, <1>7, <1>8

\* A step of the clock does not touch the bars that are stored.
LEMMA TickKeepsReclaim ==
  ASSUME TypeOK, Tick, Reclaim(stored) # 0
  PROVE  Reclaim(stored)' = Reclaim(stored)
<1>1. 1 \in stored /\ stored \subseteq 1..minute /\ stored' = stored /\ setup' = setup
  BY DEF TypeOK, Reclaim, Tick
<1>2. minute \in Nat /\ minute # 0
  BY <1>1 DEF TypeOK
<1>3. opening' = opening
  BY <1>2 DEF Tick
<1>4. \A m \in stored : market'[m] = market[m]
  BY <1>1, <1>2 DEF Tick, TypeOK
<1>5. Watched(stored)' = Watched(stored) /\ Watched(stored) \subseteq stored
  BY <1>1 DEF Watched
<1>6. \A m \in stored : /\ Above(m)' <=> Above(m)
                        /\ HoldFloorKept(m)' <=> HoldFloorKept(m)
  <2> SUFFICES ASSUME NEW m \in stored
               PROVE  /\ Above(m)' <=> Above(m)
                      /\ HoldFloorKept(m)' <=> HoldFloorKept(m)
    OBVIOUS
  <2>1. market[m]' = market[m] /\ setup' = setup
    BY <1>1, <1>4
  <2>2. Above(m)' <=> Above(m)
    BY <2>1 DEF Above
  <2>3. HoldFloorKept(m)' <=> HoldFloorKept(m)
    BY <2>1 DEF HoldFloorKept
  <2> QED BY <2>2, <2>3
<1>7. Reclaims(stored)' = Reclaims(stored)
  BY <1>5, <1>6 DEF Reclaims
<1>8. \A m : HoldsAfter(m, stored)' <=> HoldsAfter(m, stored)
  BY <1>5, <1>6 DEF HoldsAfter
<1> QED BY <1>1, <1>3, <1>7, <1>8 DEF Reclaim

\* The reclaim of a session that was reported once is reported to its end, in
\* whatever order bars arrive and however many cycles are missed.
THEOREM ReclaimStaysFixed == Spec => ReclaimIsFixed
<1> DEFINE Fixed == Reclaim(stored) # 0 /\ day' = day => Reclaim(stored)' = Reclaim(stored)
<1>1. Init => MissedIsGone
  BY DEF Init, MissedIsGone
<1>2. ExitInv /\ MissedIsGone /\ [Next]_vars => MissedIsGone'
  BY MissedStep DEF ExitInv
<1>3. ExitInv /\ MissedIsGone /\ [Next]_vars => [Fixed]_vars
  <2> SUFFICES ASSUME ExitInv, MissedIsGone, [Next]_vars, Reclaim(stored) # 0, day' = day
               PROVE  Reclaim(stored)' = Reclaim(stored)
    OBVIOUS
  <2>1. CASE stored' \in Collected \cup Fetched /\ UNCHANGED clockVars
    <3>1. /\ stored \subseteq stored' /\ stored' \subseteq {m \in 1..minute : market[m] # NoBar}
          /\ stored' \subseteq stored \cup LatestPage
      BY <2>1, CollectedBars, NewBars DEF ExitInv, Reclaim
    <3>2. stored \in SUBSET Nat /\ stored' \in SUBSET Nat /\ minute \in Nat
      BY <3>1 DEF ExitInv, TypeOK
    <3>3. ASSUME NEW b \in stored' \ stored, NEW n \in stored PROVE n < b
      <4>1. b \in 1..minute /\ market[b] # NoBar /\ b + Page > minute
        BY <3>1, <3>3 DEF LatestPage
      <4>2. ~(b < n)
        BY <3>2, <3>3, <4>1 DEF MissedIsGone
      <4> QED BY <3>2, <3>3, <4>2
    <3>4. Reclaim(stored') = Reclaim(stored)
      BY <3>1, <3>2, <3>3, NewerBarsKeepReclaim
    <3>5. Reclaim(stored)' = Reclaim(stored')
      BY <2>1 DEF clockVars, Reclaim, Reclaims, Watched, Above, HoldsAfter, HoldFloorKept
    <3> QED BY <3>4, <3>5
  <2>2. CASE Tick
    BY <2>2, TickKeepsReclaim DEF ExitInv
  <2>3. CASE NextDay
    BY <2>3 DEF NextDay, ExitInv, TypeOK
  <2>4. CASE UNCHANGED <<clockVars, stored>>
    BY <2>4 DEF clockVars, Reclaim, Reclaims, Watched, Above, HoldsAfter, HoldFloorKept
  <2> QED BY <2>1, <2>2, <2>3, <2>4, StepBars DEF BarsGrow
<1> QED BY <1>1, <1>2, <1>3, ExitInvariant, PTL DEF ReclaimIsFixed, Spec

=================================================================================
