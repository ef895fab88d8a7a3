------------------------ MODULE CandleCollection_proofs ------------------------
(* Proofs about CandleCollection. *)
EXTENDS CandleCollection, TLAPS

-----------------------------------------------------------------------------
Collected == ToSet(Symbols)

\* What the proof needs of the types: symbols in progress are symbols of the
\* list, and the age of bars is a number.
BarsTyped ==
  /\ now \in Nat
  /\ at \in [Processes -> {"idle", "slot", "send", "answer", "asleep", "write"}]
  /\ todo \in [Processes -> Seq(Collected)]
  /\ store \in [Collected -> Nat]
  /\ got \in [Processes -> [Collected -> Nat]]
  /\ met \in [Processes -> BOOLEAN]
  /\ DOMAIN call = Processes

\* A request in progress is a record of these fields; its symbol and its bars
\* have their types.
Shaped(c) ==
  DOMAIN c = {"of", "attempt", "auth", "relay", "until", "status", "bars", "remaining", "reset"}

CallTyped(p) ==
  at[p] \in {"send", "answer", "asleep", "write"} =>
    Shaped(call[p]) /\ call[p].of \in Collected /\ call[p].bars \in Nat

\* Between its requests a process that met no other has received nothing newer
\* than what is stored; after an answer that is what it writes next.
NotNewer(p) ==
  /\ ~Alive(p) => got[p] = Nothing
  /\ Alive(p) /\ ~met[p] =>
       /\ \A q \in Processes : Alive(q) => q = p
       /\ at[p] = "write" => got[p][call[p].of] = call[p].bars
       /\ \A s \in Collected :
            ~(at[p] = "write" /\ s = call[p].of) => got[p][s] <= store[s]

FreshInv == BarsTyped /\ \A p \in Processes : CallTyped(p) /\ NotNewer(p)

LEMMA FreshInit == Init => FreshInv
<1> SUFFICES ASSUME Init PROVE FreshInv
  OBVIOUS
<1>1. BarsTyped
  BY DEF Init, BarsTyped, Nothing, Collected
<1>2. \A p \in Processes : CallTyped(p) /\ NotNewer(p)
  BY DEF Init, CallTyped, NotNewer, Alive
<1> QED
  BY <1>1, <1>2 DEF FreshInv

\* A step of p that keeps the table and what p received, and does not end p,
\* matters only for where p is.
LEMMA Elsewhere ==
  ASSUME FreshInv, NEW p \in Processes, Alive(p), at[p] # "write",
         NEW place \in {"slot", "send", "answer", "asleep"}, at' = [at EXCEPT ![p] = place],
         DOMAIN call' = Processes, \A q \in Processes : q # p => call'[q] = call[q],
         place # "slot" =>
           Shaped(call'[p]) /\ call'[p].of \in Collected /\ call'[p].bars \in Nat,
         todo' \in [Processes -> Seq(Collected)], UNCHANGED <<now, store, got, met>>
  PROVE  FreshInv'
<1>1. BarsTyped'
  BY DEF FreshInv, BarsTyped
<1>2. \A q \in Processes : Alive(q)' <=> Alive(q)
  BY DEF FreshInv, BarsTyped, Alive
<1>3. \A q \in Processes : q # p => at'[q] = at[q] /\ call'[q] = call[q]
  BY DEF FreshInv, BarsTyped
<1>4. at'[p] = place
  BY DEF FreshInv, BarsTyped
<1>5. ASSUME NEW q \in Processes PROVE CallTyped(q)'
  BY <1>3, <1>4 DEF FreshInv, CallTyped
<1>6. ASSUME NEW q \in Processes PROVE NotNewer(q)'
  <2>1. CASE q = p
    <3>1. ~met[p] => /\ \A o \in Processes : Alive(o) => o = p
                     /\ \A s \in Collected : got[p][s] <= store[s]
      BY DEF FreshInv, NotNewer
    <3> QED
      BY <1>3, <1>4, <2>1, <3>1 DEF NotNewer, Alive
  <2>2. CASE q # p
    <3>1. at'[q] = at[q] /\ call'[q] = call[q] /\ (Alive(q)' <=> Alive(q)) /\ NotNewer(q)
      BY <1>2, <1>3, <2>2 DEF FreshInv
    <3> QED
      BY <1>2, <3>1 DEF NotNewer, Nothing
  <2> QED
    BY <2>1, <2>2
<1> QED
  BY <1>1, <1>5, <1>6 DEF FreshInv

LEMMA BeginStep ==
  ASSUME FreshInv, NEW p \in Processes, Begin(p)
  PROVE  FreshInv'
<1>t. BarsTyped /\ got[p] = Nothing /\ ~Alive(p)
  BY DEF FreshInv, NotNewer, Begin
<1>1. /\ at' = [at EXCEPT ![p] = "slot"] /\ todo' = [todo EXCEPT ![p] = Symbols]
      /\ UNCHANGED <<now, call, store, got>>
  BY DEF Begin, Goto
<1>2. met' = [q \in Processes |-> IF q = p THEN {o \in Processes \ {p} : Alive(o)} # {}
                                 ELSE met[q] \/ q \in {o \in Processes \ {p} : Alive(o)}]
  BY DEF Begin
<1>3. BarsTyped'
  BY <1>t, <1>1, <1>2, CollectionAssumption DEF BarsTyped, Collected
<1>4. /\ at'[p] = "slot" /\ \A q \in Processes : q # p => at'[q] = at[q]
      /\ Nothing' = Nothing
  BY <1>t, <1>1 DEF BarsTyped, Nothing
<1>5. \A q \in Processes : CallTyped(q)'
  BY <1>1, <1>4 DEF FreshInv, CallTyped
<1>6. ASSUME NEW q \in Processes PROVE NotNewer(q)'
  <2>1. CASE q = p
    <3>1. \A s \in Collected : got[p][s] <= store[s]
      BY <1>t DEF BarsTyped, Nothing, Collected
    <3>2. ~met'[p] => \A o \in Processes : at'[o] # "idle" => o = p
      BY <1>2, <1>4 DEF Alive
    <3> QED
      BY <1>1, <1>4, <2>1, <3>1, <3>2 DEF NotNewer, Alive
  <2>2. CASE q # p
    <3>1. CASE ~Alive(q)
      BY <1>1, <1>4, <2>2, <3>1 DEF FreshInv, NotNewer, Alive
    <3>2. CASE Alive(q)
      BY <1>1, <1>2, <1>4, <2>2, <3>2 DEF NotNewer, Alive
    <3> QED
      BY <3>1, <3>2
  <2> QED
    BY <2>1, <2>2
<1> QED
  BY <1>3, <1>5, <1>6 DEF FreshInv

LEMMA ReceivedStep ==
  ASSUME FreshInv, NEW p \in Processes, at[p] = "answer",
         at' = [at EXCEPT ![p] = "write"], UNCHANGED <<now, todo, call, store, met>>,
         got' = [got EXCEPT ![p][call[p].of] = call[p].bars]
  PROVE  FreshInv'
<1>t. /\ BarsTyped /\ call[p].of \in Collected /\ call[p].bars \in Nat /\ Alive(p)
  BY DEF FreshInv, CallTyped, Alive
<1>1. /\ got' \in [Processes -> [Collected -> Nat]]
      /\ got'[p][call[p].of] = call[p].bars
      /\ \A s \in Collected : s # call[p].of => got'[p][s] = got[p][s]
      /\ \A q \in Processes : q # p => got'[q] = got[q]
  BY <1>t DEF BarsTyped
<1>2. BarsTyped'
  BY <1>t, <1>1 DEF BarsTyped
<1>3. at'[p] = "write" /\ \A q \in Processes : q # p => at'[q] = at[q]
  BY <1>t DEF BarsTyped
<1>4. \A q \in Processes : CallTyped(q)'
  BY <1>t, <1>3 DEF FreshInv, CallTyped
<1>5. \A q \in Processes : Alive(q)' <=> Alive(q)
  BY <1>t, <1>3 DEF Alive
<1>6. ASSUME NEW q \in Processes PROVE NotNewer(q)'
  <2>1. CASE q = p
    <3>1. ~met[p] => /\ \A o \in Processes : Alive(o) => o = p
                     /\ \A s \in Collected : got[p][s] <= store[s]
      BY <1>t DEF FreshInv, NotNewer
    <3> QED
      BY <1>1, <1>3, <1>t, <2>1, <3>1 DEF NotNewer, Alive
  <2>2. CASE q # p
    <3>1. at'[q] = at[q] /\ got'[q] = got[q] /\ NotNewer(q)
      BY <1>1, <1>3, <2>2 DEF FreshInv
    <3> QED
      BY <1>5, <3>1 DEF NotNewer, Nothing
  <2> QED
    BY <2>1, <2>2
<1> QED
  BY <1>2, <1>4, <1>6 DEF FreshInv

LEMMA WriteStep ==
  ASSUME FreshInv, NEW p \in Processes, Write(p)
  PROVE  FreshInv'
<1> DEFINE s0 == call[p].of
<1>t. BarsTyped /\ s0 \in Collected /\ Alive(p) /\ at[p] = "write"
  BY DEF FreshInv, CallTyped, Alive, Write
<1>1. /\ at' = [at EXCEPT ![p] = "slot"] /\ call' = [call EXCEPT ![p] = NoCall]
      /\ store' = [store EXCEPT ![s0] = call[p].bars] /\ UNCHANGED <<now, todo, got, met>>
  BY DEF Write, NextSymbol, Goto, Upserted
<1>n. \A q \in Processes : Alive(q) /\ ~met[q] => q = p /\ call[p].bars = got[p][s0]
  BY <1>t DEF FreshInv, NotNewer
<1>2. at'[p] = "slot" /\ \A q \in Processes : q # p => at'[q] = at[q] /\ call'[q] = call[q]
  BY <1>t, <1>1 DEF BarsTyped
<1>3. \A q \in Processes : Alive(q)' <=> Alive(q)
  BY <1>t, <1>2 DEF Alive
<1>4. \A q \in Processes : CallTyped(q)'
  BY <1>2 DEF FreshInv, CallTyped
<1>5. BarsTyped'
  <2>1. call[p].bars \in Nat
    BY <1>t DEF FreshInv, CallTyped
  <2> QED
    BY <1>t, <1>1, <2>1 DEF BarsTyped
<1>6. ASSUME NEW q \in Processes PROVE NotNewer(q)'
  <2>1. CASE ~Alive(q)
    BY <1>1, <1>3, <2>1 DEF FreshInv, NotNewer, Nothing
  <2>2. CASE Alive(q) /\ met[q]
    BY <1>1, <1>3, <2>2 DEF NotNewer
  <2>3. CASE Alive(q) /\ ~met[q]
    <3>1. q = p /\ call[p].bars = got[p][s0]
      BY <1>n, <2>3
    <3>2. /\ \A o \in Processes : Alive(o) => o = p
          /\ \A s \in Collected : got[p][s] <= store[s] \/ s = s0
      BY <2>3, <3>1 DEF FreshInv, NotNewer
    <3>3. \A s \in Collected : got[p][s] <= store'[s]
      <4>1. store'[s0] = got[p][s0] /\ got[p][s0] \in Nat
        BY <1>t, <1>1, <3>1 DEF BarsTyped
      <4>2. \A s \in Collected : s # s0 => store'[s] = store[s]
        BY <1>t, <1>1 DEF BarsTyped
      <4> QED
        BY <3>2, <4>1, <4>2
    <3> QED
      BY <1>1, <1>2, <1>t, <3>1, <3>2, <3>3 DEF NotNewer, Alive
  <2> QED
    BY <2>1, <2>2, <2>3
<1> QED
  BY <1>4, <1>5, <1>6 DEF FreshInv

LEMMA EvaluateStep ==
  ASSUME FreshInv, NEW p \in Processes, Evaluate(p)
  PROVE  FreshInv'
<1>t. BarsTyped /\ Alive(p)
  BY DEF FreshInv, Alive, Evaluate
<1>1. /\ at' = [at EXCEPT ![p] = "idle"] /\ got' = [got EXCEPT ![p] = Nothing]
      /\ met' = [met EXCEPT ![p] = FALSE] /\ UNCHANGED <<now, todo, call, store>>
  BY DEF Evaluate, Goto
<1>2. /\ at'[p] = "idle" /\ got'[p] = Nothing
      /\ \A q \in Processes : q # p => at'[q] = at[q] /\ got'[q] = got[q] /\ met'[q] = met[q]
  BY <1>t, <1>1 DEF BarsTyped
<1>3. Nothing \in [Collected -> Nat]
  BY DEF Nothing, Collected
<1>4. BarsTyped'
  BY <1>t, <1>1, <1>3 DEF BarsTyped
<1>5. \A q \in Processes : CallTyped(q)'
  BY <1>1, <1>2 DEF FreshInv, CallTyped
<1>6. ASSUME NEW q \in Processes PROVE NotNewer(q)'
  <2>1. CASE q = p
    BY <1>2, <2>1 DEF NotNewer, Alive, Nothing
  <2>2. CASE q # p
    <3>1. NotNewer(q)
      BY DEF FreshInv
    <3> QED
      BY <1>1, <1>2, <2>2, <3>1 DEF NotNewer, Alive, Nothing
  <2> QED
    BY <2>1, <2>2
<1> QED
  BY <1>4, <1>5, <1>6 DEF FreshInv

\* What is left to show of a step that moves the request of p on.
LEMMA Onward ==
  ASSUME FreshInv, NEW p \in Processes, NEW place \in {"send", "answer", "asleep"},
         at[p] \in {"send", "answer", "asleep"}, at' = [at EXCEPT ![p] = place],
         DOMAIN call' = Processes, \A q \in Processes : q # p => call'[q] = call[q],
         Shaped(call'[p]), call'[p].of = call[p].of, call'[p].bars \in Nat,
         UNCHANGED <<now, todo, store, got, met>>
  PROVE  FreshInv'
<1>1. Alive(p) /\ at[p] # "write" /\ call[p].of \in Collected
  BY DEF Alive, FreshInv, CallTyped
<1>2. todo' \in [Processes -> Seq(Collected)]
  BY DEF FreshInv, BarsTyped
<1> QED
  BY <1>1, <1>2, Elsewhere

\* The request is given up: the next symbol.
LEMMA GivenUp ==
  ASSUME FreshInv, NEW p \in Processes, at[p] \in {"send", "answer"}, NextSymbol(p),
         UNCHANGED <<now, todo, store, got, met>>
  PROVE  FreshInv'
<1>1. Alive(p) /\ todo' \in [Processes -> Seq(Collected)]
  BY DEF Alive, FreshInv, BarsTyped
<1>2. /\ at' = [at EXCEPT ![p] = "slot"]
      /\ DOMAIN call' = Processes /\ \A q \in Processes : q # p => call'[q] = call[q]
  BY DEF NextSymbol, Goto, FreshInv, BarsTyped
<1> QED
  BY <1>1, <1>2, Elsewhere

LEMMA TakeSlotStep ==
  ASSUME FreshInv, NEW p \in Processes, TakeSlot(p)
  PROVE  FreshInv'
<1>1. Head(todo[p]) \in Collected /\ todo' \in [Processes -> Seq(Collected)]
  BY DEF TakeSlot, FreshInv, BarsTyped
<1>2. /\ at' = [at EXCEPT ![p] = "send"] /\ at[p] = "slot" /\ Alive(p)
      /\ UNCHANGED <<now, store, got, met>>
  BY DEF TakeSlot, Goto, Alive
<1>3. /\ DOMAIN call' = Processes /\ call'[p] = NewCall(Head(todo[p]))
      /\ \A q \in Processes : q # p => call'[q] = call[q]
  BY DEF TakeSlot, FreshInv, BarsTyped
<1>4. Shaped(call'[p]) /\ call'[p].of = Head(todo[p]) /\ call'[p].bars = 0
  BY <1>3 DEF NewCall, Shaped
<1>5. at[p] # "write" /\ call'[p].of \in Collected /\ call'[p].bars \in Nat
  BY <1>1, <1>2, <1>4
<1> QED
  BY <1>1, <1>2, <1>3, <1>4, <1>5, Elsewhere

\* The steps that only move the request of a process on.
LEMMA RequestStep ==
  ASSUME FreshInv, NEW p \in Processes,
         Accepted(p) \/ Refused(p) \/ Wake(p) \/ NoToken(p) \/ Unauthorised(p) \/ Lost(p)
  PROVE  FreshInv'
<1>t. BarsTyped /\ CallTyped(p)
  BY DEF FreshInv
<1>s. /\ at[p] \in {"send", "answer", "asleep"} /\ at[p] \in {"send", "asleep"}
      /\ Shaped(call[p]) /\ call[p].of \in Collected /\ call[p].bars \in Nat
  BY <1>t DEF CallTyped, Accepted, Refused, Wake, NoToken, Unauthorised, Lost, Sending
<1>1. CASE Accepted(p)
  <2>1. /\ at' = [at EXCEPT ![p] = "answer"] /\ UNCHANGED <<now, todo, store, got, met>>
        /\ DOMAIN call' = Processes /\ \A q \in Processes : q # p => call'[q] = call[q]
        /\ Shaped(call'[p]) /\ call'[p].of = call[p].of /\ call'[p].bars \in Nat
    BY <1>1, <1>t, <1>s DEF Accepted, Goto, Shaped, BarsTyped
  <2> QED
    BY <1>s, <2>1, Onward
<1>2. CASE Refused(p)
  <2>1. /\ at' = [at EXCEPT ![p] = "answer"] /\ UNCHANGED <<now, todo, store, got, met>>
        /\ DOMAIN call' = Processes /\ \A q \in Processes : q # p => call'[q] = call[q]
        /\ Shaped(call'[p]) /\ call'[p].of = call[p].of /\ call'[p].bars \in Nat
    BY <1>2, <1>t, <1>s DEF Refused, Goto, Shaped, BarsTyped
  <2> QED
    BY <1>s, <2>1, Onward
<1>3. CASE Unauthorised(p)
  <2>1. /\ at' = [at EXCEPT ![p] = "answer"] /\ UNCHANGED <<now, todo, store, got, met>>
        /\ DOMAIN call' = Processes /\ \A q \in Processes : q # p => call'[q] = call[q]
        /\ Shaped(call'[p]) /\ call'[p].of = call[p].of /\ call'[p].bars \in Nat
    BY <1>3, <1>t, <1>s DEF Unauthorised, Goto, Shaped, BarsTyped
  <2> QED
    BY <1>s, <2>1, Onward
<1>4. CASE Wake(p)
  <2>1. /\ at' = [at EXCEPT ![p] = "send"] /\ UNCHANGED <<now, todo, store, got, met>>
        /\ DOMAIN call' = Processes /\ \A q \in Processes : q # p => call'[q] = call[q]
        /\ Shaped(call'[p]) /\ call'[p].of = call[p].of /\ call'[p].bars \in Nat
    BY <1>4, <1>t, <1>s DEF Wake, Goto, Shaped, BarsTyped
  <2> QED
    BY <1>s, <2>1, Onward
<1>5. CASE NoToken(p)
  BY <1>5, GivenUp DEF NoToken
<1>6. CASE Lost(p)
  <2>1. CASE call[p].relay > 0
    <3>1. /\ at' = [at EXCEPT ![p] = "asleep"] /\ UNCHANGED <<now, todo, store, got, met>>
          /\ call' = [call EXCEPT ![p].relay = @ - 1, ![p].until = now + 2]
      BY <1>6, <2>1 DEF Lost, Goto
    <3>2. /\ DOMAIN call' = Processes /\ \A q \in Processes : q # p => call'[q] = call[q]
          /\ Shaped(call'[p]) /\ call'[p].of = call[p].of /\ call'[p].bars \in Nat
      BY <1>t, <1>s, <3>1 DEF Shaped, BarsTyped
    <3> QED
      BY <1>s, <3>1, <3>2, Onward
  <2>2. CASE ~(call[p].relay > 0)
    BY <1>6, <2>2, GivenUp DEF Lost, Sending
  <2> QED
    BY <2>1, <2>2
<1> QED
  BY <1>1, <1>2, <1>3, <1>4, <1>5, <1>6

LEMMA ReceiveStep ==
  ASSUME FreshInv, NEW p \in Processes, Receive(p)
  PROVE  FreshInv'
<1>t. BarsTyped /\ CallTyped(p) /\ at[p] = "answer" /\ UNCHANGED <<now, todo, store, met>>
  BY DEF FreshInv, Receive
<1>s. Shaped(call[p]) /\ call[p].of \in Collected /\ call[p].bars \in Nat
  BY <1>t DEF CallTyped
<1>1. CASE call[p].status = 200
  BY <1>1, <1>t, ReceivedStep DEF Receive, Goto
<1>2. CASE call[p].status # 200 /\ call[p].status = 401 /\ call[p].auth
  <2>1. at' = [at EXCEPT ![p] = "send"] /\ UNCHANGED got
    BY <1>2 DEF Receive, Goto
  <2>2. PICK f : call' = [call EXCEPT ![p].auth = f, ![p].relay = 1]
    BY <1>2 DEF Receive
  <2>3. /\ DOMAIN call' = Processes /\ \A q \in Processes : q # p => call'[q] = call[q]
        /\ Shaped(call'[p]) /\ call'[p].of = call[p].of /\ call'[p].bars \in Nat
    BY <1>t, <1>s, <2>2 DEF Shaped, BarsTyped
  <2> QED
    BY <1>t, <2>1, <2>3, Onward
<1>3. CASE /\ call[p].status # 200 /\ ~(call[p].status = 401 /\ call[p].auth)
           /\ call[p].status = 429 /\ call[p].attempt < MaxRetries
  <2>1. at' = [at EXCEPT ![p] = "asleep"] /\ UNCHANGED got
    BY <1>3 DEF Receive, Goto
  <2>2. PICK w : call' = [call EXCEPT ![p].attempt = @ + 1, ![p].relay = 1, ![p].until = now + w]
    BY <1>3 DEF Receive
  <2>3. /\ DOMAIN call' = Processes /\ \A q \in Processes : q # p => call'[q] = call[q]
        /\ Shaped(call'[p]) /\ call'[p].of = call[p].of /\ call'[p].bars \in Nat
    BY <1>t, <1>s, <2>2 DEF Shaped, BarsTyped
  <2> QED
    BY <1>t, <2>1, <2>3, Onward
<1>4. CASE /\ call[p].status # 200 /\ ~(call[p].status = 401 /\ call[p].auth)
           /\ ~(call[p].status = 429 /\ call[p].attempt < MaxRetries)
  BY <1>4, <1>t, GivenUp DEF Receive
<1> QED
  BY <1>1, <1>2, <1>3, <1>4

LEMMA FreshStep == ASSUME FreshInv, [Next]_vars PROVE FreshInv'
<1>1. CASE UNCHANGED <<now, at, todo, call, store, got, met>>
  BY <1>1 DEF FreshInv, BarsTyped, CallTyped, NotNewer, Alive, Nothing
<1>2. CASE Tick
  <2>1. now' \in Nat /\ UNCHANGED <<at, todo, call, store, got, met>>
    BY <1>2 DEF Tick, FreshInv, BarsTyped
  <2> QED
    BY <2>1 DEF FreshInv, BarsTyped, CallTyped, NotNewer, Alive, Nothing
<1>3. ASSUME NEW p \in Processes, Authenticate(p) PROVE FreshInv'
  BY <1>1, <1>3 DEF Authenticate
<1> QED
  BY <1>1, <1>2, <1>3, BeginStep, TakeSlotStep, RequestStep, ReceiveStep, WriteStep, EvaluateStep
     DEF Next, Step, vars

\* A step of a process leaves the others where they are.
LEMMA OthersStay ==
  ASSUME DOMAIN at = Processes, NEW p \in Processes, NEW q \in Processes, q # p,
         Begin(q) \/ Step(q) \/ NoToken(q) \/ Unauthorised(q) \/ Lost(q)
  PROVE  at'[p] = at[p]
<1>1. CASE Receive(q)
  BY <1>1 DEF Receive, NextSymbol, Goto
<1>2. CASE Lost(q)
  BY <1>2 DEF Lost, NextSymbol, Goto
<1> QED
  BY <1>1, <1>2
     DEF Begin, Step, NoToken, Unauthorised, TakeSlot, Authenticate, Accepted, Refused,
         Wake, Write, Evaluate, NextSymbol, Goto

\* A process that has bars to write does not end with its next step.
LEMMA WritesGoOn ==
  ASSUME FreshInv, [Next]_vars, NEW p \in Processes, at[p] = "write"
  PROVE  at'[p] # "idle"
<1>t. at \in [Processes -> {"idle", "slot", "send", "answer", "asleep", "write"}]
  BY DEF FreshInv, BarsTyped
<1>1. CASE UNCHANGED vars
  BY <1>1 DEF vars
<1>2. CASE Tick
  BY <1>2 DEF Tick
<1>3. ASSUME NEW q \in Processes, q # p,
             Begin(q) \/ Step(q) \/ NoToken(q) \/ Unauthorised(q) \/ Lost(q)
      PROVE  at'[p] = at[p]
  BY <1>t, <1>3, OthersStay
<1>4. ASSUME Begin(p) \/ Step(p) \/ NoToken(p) \/ Unauthorised(p) \/ Lost(p)
      PROVE  at'[p] # "idle"
  <2>1. Write(p)
    BY <1>4 DEF Begin, Step, NoToken, Unauthorised, Lost, TakeSlot, Authenticate, Accepted,
                Refused, Wake, Receive, Evaluate, Sending, Alive
  <2> QED
    BY <1>t, <2>1 DEF Write, NextSymbol, Goto
<1> QED
  BY <1>1, <1>2, <1>3, <1>4 DEF Next

-----------------------------------------------------------------------------
(* Theorem *)

\* A process that ran beside no other reads bars at least as new as those it
\* received, whatever was refused, lost or not authorised on the way.
THEOREM AloneReadsFresh == Spec => FreshWhenAlone
<1> DEFINE Fresh ==
      \A p \in Processes :
        (Alive(p) /\ at'[p] = "idle" /\ ~met[p]) =>
          \A s \in Received(p) : store[s] >= got[p][s]
<1>1. ASSUME FreshInv, [Next]_vars PROVE [Fresh]_vars
  <2> SUFFICES ASSUME NEW p \in Processes, Alive(p), at'[p] = "idle", ~met[p],
                      NEW s \in Received(p)
               PROVE  store[s] >= got[p][s]
    OBVIOUS
  <2>1. s \in Collected
    BY DEF Received, Collected
  <2>2. at[p] # "write"
    BY <1>1, WritesGoOn DEF Alive
  <2>3. got[p][s] <= store[s]
    BY <1>1, <2>1, <2>2 DEF FreshInv, NotNewer
  <2>4. got[p][s] \in Nat /\ store[s] \in Nat
    BY <1>1, <2>1 DEF FreshInv, BarsTyped
  <2> QED
    BY <2>3, <2>4
<1> QED
  BY <1>1, FreshInit, FreshStep, PTL DEF Spec, FreshWhenAlone

-----------------------------------------------------------------------------
(* The pace *)

ClientRecord == [token : BOOLEAN, next : Int, interval : Int]

PaceTyped ==
  /\ {now, used} \subseteq Nat
  /\ own \in [Processes -> Nat] /\ unheard \in [Processes -> Nat]
  /\ at \in [Processes -> {"idle", "slot", "send", "answer", "asleep", "write"}]
  /\ client \in [Processes -> ClientRecord]
  /\ DOMAIN call = Processes

\* The headers of an answer are numbers.
Answered(p) == /\ Shaped(call[p])
               /\ at[p] = "answer" => call[p].remaining \in Int /\ call[p].reset \in Int

\* Another process uses the window, or two requests of p got no answer.
Crowded(p) == used > own[p] \/ unheard[p] >= 2

\* There is room for this request, and after it for one that gets no answer.
Room(p) == used + 2 <= Limit + unheard[p]

\* The next request waits for the end of the window, or the answer says so.
Held(p) ==
  \/ at[p] \in {"slot", "write"} /\ client[p].next >= now + Reset
  \/ /\ at[p] = "answer" /\ call[p].status = 200
     /\ call[p].remaining <= 1 /\ call[p].reset >= Reset

Paced(p) == own[p] <= used /\ (Alive(p) => Crowded(p) \/ Room(p) \/ Held(p))

PaceInv == PaceTyped /\ \A p \in Processes : Answered(p) /\ Paced(p)

LEMMA NewClientTyped == NewClient \in ClientRecord
BY CollectionAssumption DEF NewClient, ClientRecord

LEMMA NewCallShaped == ASSUME NEW s PROVE Shaped(NewCall(s))
BY DEF NewCall, Shaped

LEMMA PaceInit == Init => PaceInv
<1> SUFFICES ASSUME Init PROVE PaceInv
  OBVIOUS
<1>1. PaceTyped
  BY NewClientTyped DEF Init, PaceTyped
<1>2. \A p \in Processes : Answered(p)
  BY NewCallShaped DEF Init, Answered, NoCall
<1>3. \A p \in Processes : Paced(p)
  BY DEF Init, Paced, Alive
<1> QED
  BY <1>1, <1>2, <1>3 DEF PaceInv

LEMMA ResetTyped == ASSUME now \in Nat PROVE Reset \in 1..Window
BY CollectionAssumption DEF Reset

\* Until the window is over its end stays where it is.
LEMMA EndStays ==
  ASSUME now \in Nat, now' = now + 1, now' % Window # 0
  PROVE  Reset' = Reset - 1
<1> DEFINE r == now % Window   d == now \div Window
           s == now' % Window  e == now' \div Window
<1>1. /\ Window \in Nat \ {0} /\ d \in Int /\ e \in Int
      /\ r \in 0..(Window - 1) /\ s \in 1..(Window - 1)
      /\ now = Window * d + r /\ now' = Window * e + s
  <2>1. Window \in Nat \ {0} /\ now \in Int /\ now' \in Int
    BY CollectionAssumption
  <2>2. d \in Int /\ r \in 0..(Window - 1) /\ now = Window * d + r
    BY <2>1
  <2>3. e \in Int /\ s \in 0..(Window - 1) /\ now' = Window * e + s
    BY <2>1
  <2> QED
    BY <2>1, <2>2, <2>3
<1> HIDE DEF r, d, s, e
<1>2. Window * e = Window * d + Window * (e - d)
  BY <1>1
<1>3. Window * (e - d) = r + 1 - s /\ e - d \in Int
  BY <1>1, <1>2
<1>4. \A i \in Int : (i >= 1 => Window * i >= Window) /\ (i <= -1 => Window * i <= -Window)
  BY <1>1
<1>5. e - d = 0
  BY <1>1, <1>3, <1>4
<1>6. s = r + 1
  BY <1>1, <1>3, <1>5
<1> QED
  BY <1>1, <1>6 DEF Reset, r, s

\* A step of p leaves the others their pace; a request of p crowds them.
LEMMA OneSteps ==
  ASSUME PaceInv, NEW p \in Processes, PaceTyped', Answered(p)', Paced(p)',
         now' = now, used' \in {used, used + 1},
         \A q \in Processes : q # p => /\ at'[q] = at[q] /\ call'[q] = call[q]
                                       /\ client'[q] = client[q]
                                       /\ own'[q] = own[q] /\ unheard'[q] = unheard[q]
  PROVE  PaceInv'
<1>1. Reset' = Reset
  BY DEF Reset
<1>2. used \in Nat /\ \A q \in Processes : own[q] \in Nat /\ unheard[q] \in Nat
  BY DEF PaceInv, PaceTyped
<1>3. ASSUME NEW q \in Processes, q # p PROVE Answered(q)' /\ Paced(q)'
  <2>1. /\ at'[q] = at[q] /\ call'[q] = call[q] /\ client'[q] = client[q]
        /\ own'[q] = own[q] /\ unheard'[q] = unheard[q] /\ Answered(q) /\ Paced(q)
    BY <1>3 DEF PaceInv
  <2>2. Answered(q)'
    BY <2>1 DEF Answered, Shaped
  <2>3. CASE used' = used
    <3>1. /\ Crowded(q)' <=> Crowded(q)
          /\ Room(q)' <=> Room(q)
          /\ Held(q)' <=> Held(q)
      BY <1>1, <2>1, <2>3 DEF Crowded, Room, Held
    <3> QED
      BY <2>1, <2>2, <2>3, <3>1 DEF Paced, Alive
  <2>4. CASE used' = used + 1
    <3>1. Crowded(q)' /\ own'[q] <= used'
      BY <1>2, <2>1, <2>4 DEF Paced, Crowded
    <3> QED
      BY <2>2, <3>1 DEF Paced
  <2> QED
    BY <2>3, <2>4
<1> QED
  BY <1>3 DEF PaceInv

LEMMA PaceBegin ==
  ASSUME Limit >= 2, PaceInv, NEW p \in Processes, Begin(p)
  PROVE  PaceInv'
<1>t. PaceTyped /\ Limit \in Nat
  BY CollectionAssumption DEF PaceInv
<1>1. /\ at' = [at EXCEPT ![p] = "slot"] /\ client' = [client EXCEPT ![p] = NewClient]
      /\ own' = [own EXCEPT ![p] = 0] /\ unheard' = [unheard EXCEPT ![p] = 0]
      /\ UNCHANGED <<now, used, call>>
  BY DEF Begin, Goto
<1>2. PaceTyped'
  BY <1>t, <1>1, NewClientTyped DEF PaceTyped
<1>3. /\ at'[p] = "slot" /\ own'[p] = 0 /\ unheard'[p] = 0
      /\ \A q \in Processes : q # p => /\ at'[q] = at[q] /\ client'[q] = client[q]
                                       /\ own'[q] = own[q] /\ unheard'[q] = unheard[q]
  BY <1>t, <1>1 DEF PaceTyped
<1>4. Answered(p)'
  BY <1>1, <1>3 DEF PaceInv, Answered, Shaped
<1>5. Paced(p)'
  BY <1>t, <1>1, <1>3 DEF PaceTyped, Paced, Crowded, Room
<1> QED
  BY <1>1, <1>2, <1>3, <1>4, <1>5, OneSteps

\* A request begins with room for it: the slot is not that of a held process.
LEMMA PaceTakeSlot ==
  ASSUME PaceInv, NEW p \in Processes, TakeSlot(p)
  PROVE  PaceInv'
<1>t. PaceTyped /\ client[p] \in ClientRecord
  BY DEF PaceInv, PaceTyped
<1>1. /\ at[p] = "slot" /\ now >= client[p].next
      /\ at' = [at EXCEPT ![p] = "send"]
      /\ client' = [client EXCEPT ![p].next = now + client[p].interval]
      /\ call' = [call EXCEPT ![p] = NewCall(Head(todo[p]))]
      /\ UNCHANGED <<now, used, own, unheard>>
  BY DEF TakeSlot, Goto, serverVars
<1>2. PaceTyped'
  <2>1. now + client[p].interval \in Int
    BY <1>t DEF PaceTyped, ClientRecord
  <2>2. client' \in [Processes -> ClientRecord]
    BY <1>t, <1>1, <2>1 DEF PaceTyped, ClientRecord
  <2> QED
    BY <1>t, <1>1, <2>2 DEF PaceTyped
<1>3. /\ at'[p] = "send" /\ call'[p] = NewCall(Head(todo[p]))
      /\ \A q \in Processes : q # p => /\ at'[q] = at[q] /\ client'[q] = client[q]
                                       /\ call'[q] = call[q]
  BY <1>t, <1>1 DEF PaceTyped
<1>4. Answered(p)'
  BY <1>3, NewCallShaped DEF Answered
<1>5. ~Held(p)
  BY <1>t, <1>1, ResetTyped, CollectionAssumption DEF PaceTyped, Held, ClientRecord
<1>6. own[p] <= used /\ (Crowded(p) \/ Room(p))
  BY <1>1, <1>5 DEF PaceInv, Paced, Alive
<1>7. Paced(p)'
  BY <1>1, <1>6 DEF Paced, Crowded, Room
<1> QED
  BY <1>1, <1>2, <1>3, <1>4, <1>7, OneSteps

\* A step of p that is about no answer of the server: there is room as before.
LEMMA PaceOnward ==
  ASSUME PaceInv, NEW p \in Processes, Alive(p), ~Held(p), PaceTyped', Shaped(call'[p]),
         NEW place \in {"slot", "send", "asleep"}, at' = [at EXCEPT ![p] = place],
         UNCHANGED <<now, used, own, unheard>>,
         \A q \in Processes : q # p => client'[q] = client[q] /\ call'[q] = call[q]
  PROVE  PaceInv'
<1>1. PaceTyped
  BY DEF PaceInv
<1>2. at'[p] = place /\ \A q \in Processes : q # p => at'[q] = at[q]
  BY <1>1 DEF PaceTyped
<1>3. Answered(p)'
  BY <1>2 DEF Answered, Shaped
<1>4. Paced(p)'
  BY DEF PaceInv, Paced, Crowded, Room
<1> QED
  BY <1>2, <1>3, <1>4, OneSteps

\* The server counts a request of p, whether p hears of it or not.
LEMMA PaceAccepted ==
  ASSUME PaceInv, NEW p \in Processes, Accepted(p)
  PROVE  PaceInv'
<1>t. PaceTyped /\ Shaped(call[p]) /\ Limit \in Nat
  BY CollectionAssumption DEF PaceInv, Answered
<1>1. /\ at[p] = "send" /\ at' = [at EXCEPT ![p] = "answer"]
      /\ used' = used + 1 /\ own' = [own EXCEPT ![p] = @ + 1]
      /\ call' = [call EXCEPT ![p].status = 200, ![p].bars = now,
                              ![p].remaining = Limit - used - 1, ![p].reset = Reset]
      /\ UNCHANGED <<now, unheard, client>>
  BY DEF Accepted, Sending, Goto
<1>2. Reset \in Int /\ Reset' = Reset
  BY <1>t, <1>1, ResetTyped DEF PaceTyped, Reset
<1>3. /\ at'[p] = "answer" /\ own'[p] = own[p] + 1
      /\ Shaped(call'[p]) /\ call'[p].status = 200
      /\ call'[p].remaining = Limit - used - 1 /\ call'[p].reset = Reset
      /\ \A q \in Processes : q # p =>
           at'[q] = at[q] /\ own'[q] = own[q] /\ call'[q] = call[q]
  BY <1>t, <1>1 DEF PaceTyped, Shaped
<1>4. PaceTyped'
  BY <1>t, <1>1 DEF PaceTyped
<1>5. Answered(p)'
  BY <1>t, <1>2, <1>3 DEF Answered, PaceTyped
<1>6. own[p] <= used /\ (Crowded(p) \/ Room(p))
  BY <1>1 DEF PaceInv, Paced, Alive, Held
<1>7. Paced(p)'
  <2>1. used \in Nat /\ own[p] \in Nat /\ unheard[p] \in Nat /\ unheard'[p] = unheard[p]
    BY <1>t, <1>1 DEF PaceTyped
  <2>2. own'[p] <= used'
    BY <1>1, <1>3, <1>6, <2>1
  <2>3. CASE Crowded(p)
    BY <1>1, <1>3, <2>1, <2>2, <2>3 DEF Paced, Crowded
  <2>4. CASE Room(p)
    <3>1. Room(p)' \/ call'[p].remaining <= 1
      BY <1>t, <1>1, <1>3, <2>1, <2>4 DEF Room
    <3>2. call'[p].remaining <= 1 => Held(p)'
      BY <1>2, <1>3 DEF Held
    <3> QED
      BY <2>2, <3>1, <3>2 DEF Paced
  <2> QED
    BY <1>6, <2>3, <2>4
<1> QED
  BY <1>1, <1>3, <1>4, <1>5, <1>7, OneSteps

LEMMA PaceLost ==
  ASSUME PaceInv, NEW p \in Processes, Lost(p)
  PROVE  PaceInv'
<1>t. PaceTyped /\ Shaped(call[p])
  BY DEF PaceInv, Answered
<1>1. at[p] = "send" /\ UNCHANGED <<now, client>>
  BY DEF Lost, Sending
<1>2. PICK place \in {"asleep", "slot"} : at' = [at EXCEPT ![p] = place]
  BY DEF Lost, NextSymbol, Goto
<1>3. /\ DOMAIN call' = Processes /\ Shaped(call'[p])
      /\ \A q \in Processes : q # p => call'[q] = call[q]
  <2>1. CASE call[p].relay > 0
    BY <1>t, <2>1 DEF Lost, PaceTyped, Shaped
  <2>2. CASE ~(call[p].relay > 0)
    BY <1>t, <2>2, NewCallShaped DEF Lost, NextSymbol, NoCall, PaceTyped
  <2> QED
    BY <2>1, <2>2
<1>4. /\ at'[p] = place
      /\ \A q \in Processes : q # p => at'[q] = at[q]
  BY <1>t, <1>2 DEF PaceTyped
<1>5. CASE UNCHANGED serverVars
  <2>1. PaceTyped'
    BY <1>t, <1>1, <1>2, <1>3, <1>5 DEF PaceTyped, serverVars
  <2>2. ~Held(p) /\ Alive(p)
    BY <1>1 DEF Held, Alive
  <2> QED
    BY <1>1, <1>2, <1>3, <1>5, <2>1, <2>2, PaceOnward DEF serverVars
<1>6. CASE /\ used' = used + 1 /\ own' = [own EXCEPT ![p] = @ + 1]
           /\ unheard' = [unheard EXCEPT ![p] = @ + 1]
  <2>1. PaceTyped'
    BY <1>t, <1>1, <1>2, <1>3, <1>6 DEF PaceTyped
  <2>2. /\ own'[p] = own[p] + 1 /\ unheard'[p] = unheard[p] + 1
        /\ \A q \in Processes : q # p => own'[q] = own[q] /\ unheard'[q] = unheard[q]
        /\ used \in Nat /\ own[p] \in Nat /\ unheard[p] \in Nat
    BY <1>t, <1>6 DEF PaceTyped
  <2>3. own[p] <= used /\ (Crowded(p) \/ Room(p))
    BY <1>1 DEF PaceInv, Paced, Alive, Held
  <2>4. Paced(p)'
    <3>1. Limit \in Nat
      BY CollectionAssumption
    <3>2. own'[p] <= used' /\ (Crowded(p)' \/ Room(p)')
      BY <1>6, <2>2, <2>3, <3>1 DEF Crowded, Room
    <3> QED
      BY <3>2 DEF Paced
  <2>5. Answered(p)'
    BY <1>3, <1>4 DEF Answered, Shaped
  <2> QED
    BY <1>1, <1>3, <1>4, <1>6, <2>1, <2>2, <2>4, <2>5, OneSteps
<1> QED
  BY <1>5, <1>6 DEF Lost

\* What is learnt of the limit holds p until the window is over when it has to.
LEMMA LearntTyped ==
  ASSUME NEW c \in ClientRecord, NEW r, r.remaining \in Int, r.reset \in Int, now \in Nat
  PROVE  /\ Learnt(c, r) \in ClientRecord
         /\ r.remaining <= 1 => Learnt(c, r).next >= now + r.reset
<1>1. c.next \in Int /\ now + r.reset \in Int
  BY DEF ClientRecord
<1> DEFINE next == IF r.remaining <= 1 THEN Larger(c.next, now + r.reset) ELSE c.next
           interval == Larger(MinInterval, CeilDiv(Second, Limit))
<1>2. next \in Int /\ (r.remaining <= 1 => next >= now + r.reset)
  BY <1>1 DEF Larger
<1>3. interval \in Int
  <2>1. Limit \in Nat \ {0} /\ MinInterval \in Int
    BY CollectionAssumption
  <2>2. CeilDiv(Second, Limit) \in Int
    <3>1. \A n \in Int : n \div Limit \in Int
      BY <2>1
    <3>2. Second + Limit - 1 \in Int
      BY <2>1 DEF Second
    <3> QED
      BY <3>1, <3>2 DEF CeilDiv
  <2> QED
    BY <2>1, <2>2 DEF Larger
<1>4. Learnt(c, r) = [c EXCEPT !.interval = interval, !.next = next]
  BY DEF Learnt
<1> HIDE DEF next, interval
<1> QED
  BY <1>2, <1>3, <1>4 DEF ClientRecord

LEMMA PaceReceive ==
  ASSUME PaceInv, NEW p \in Processes, Receive(p)
  PROVE  PaceInv'
<1> DEFINE c == call[p]
<1>t. /\ PaceTyped /\ Shaped(c) /\ client[p] \in ClientRecord /\ at[p] = "answer"
      /\ c.remaining \in Int /\ c.reset \in Int /\ now \in Nat
      /\ UNCHANGED <<now, used, own, unheard>>
  BY DEF PaceInv, PaceTyped, Answered, Receive, serverVars
<1> DEFINE learnt == Learnt(client[p], c)
<1>1. learnt \in ClientRecord /\ (c.remaining <= 1 => learnt.next >= now + c.reset)
  BY <1>t, LearntTyped
<1>2. CASE c.status = 200
  <2>1. /\ at' = [at EXCEPT ![p] = "write"] /\ client' = [client EXCEPT ![p] = learnt]
        /\ call' = call
    BY <1>2 DEF Receive, Goto
  <2>2. PaceTyped'
    BY <1>t, <1>1, <2>1 DEF PaceTyped
  <2>3. /\ at'[p] = "write" /\ client'[p] = learnt
        /\ \A q \in Processes : q # p => at'[q] = at[q] /\ client'[q] = client[q]
    BY <1>t, <2>1 DEF PaceTyped
  <2>4. Answered(p)'
    BY <1>t, <2>1, <2>3 DEF Answered, Shaped
  <2>5. Reset \in Int /\ Reset' = Reset
    BY <1>t, ResetTyped DEF Reset
  <2>6. Held(p) => Held(p)'
    <3>1. learnt.next \in Int
      BY <1>1 DEF ClientRecord
    <3> HIDE DEF learnt
    <3> QED
      BY <1>t, <1>1, <2>3, <2>5, <3>1 DEF Held
  <2>7. Paced(p)'
    BY <1>t, <2>6 DEF PaceInv, Paced, Alive, Crowded, Room
  <2> QED
    BY <1>t, <2>1, <2>2, <2>3, <2>4, <2>7, OneSteps
<1>3. CASE c.status # 200
  <2>1. ~Held(p) /\ Alive(p)
    BY <1>t, <1>3 DEF Held, Alive
  <2>2. PICK place \in {"slot", "send", "asleep"} : at' = [at EXCEPT ![p] = place]
    BY <1>3 DEF Receive, NextSymbol, Goto
  <2>3. /\ DOMAIN call' = Processes /\ Shaped(call'[p])
        /\ \A q \in Processes : q # p => call'[q] = call[q]
    <3>1. CASE c.status = 401 /\ c.auth
      BY <1>t, <1>3, <3>1 DEF Receive, PaceTyped, Shaped
    <3>2. CASE ~(c.status = 401 /\ c.auth) /\ c.status = 429 /\ c.attempt < MaxRetries
      <4>1. PICK w : call' = [call EXCEPT ![p].attempt = @ + 1, ![p].relay = 1, ![p].until = now + w]
        BY <1>3, <3>2 DEF Receive
      <4> QED
        BY <1>t, <4>1 DEF PaceTyped, Shaped
    <3>3. CASE ~(c.status = 401 /\ c.auth) /\ ~(c.status = 429 /\ c.attempt < MaxRetries)
      BY <1>t, <1>3, <3>3, NewCallShaped DEF Receive, NextSymbol, NoCall, PaceTyped
    <3> QED
      BY <3>1, <3>2, <3>3
  <2>4. PICK new \in ClientRecord : client' = [client EXCEPT ![p] = new]
    <3>1. [learnt EXCEPT !.token = FALSE] \in ClientRecord
      BY <1>1 DEF ClientRecord
    <3> HIDE DEF learnt
    <3>2. \/ client' = [client EXCEPT ![p] = learnt]
          \/ client' = [client EXCEPT ![p] = [learnt EXCEPT !.token = FALSE]]
      BY <1>3 DEF Receive, learnt
    <3> QED
      BY <1>1, <3>1, <3>2
  <2>5. PaceTyped' /\ \A q \in Processes : q # p => client'[q] = client[q]
    BY <1>t, <2>2, <2>3, <2>4 DEF PaceTyped
  <2> QED
    BY <1>t, <2>1, <2>2, <2>3, <2>5, PaceOnward
<1> QED
  BY <1>2, <1>3

\* The other steps of a process.
LEMMA PaceQuiet ==
  ASSUME PaceInv, NEW p \in Processes,
         Authenticate(p) \/ NoToken(p) \/ Refused(p) \/ Unauthorised(p) \/ Wake(p)
           \/ Write(p) \/ Evaluate(p)
  PROVE  PaceInv'
<1>t. PaceTyped /\ Shaped(call[p]) /\ client[p] \in ClientRecord
  BY DEF PaceInv, PaceTyped, Answered
<1>1. CASE Authenticate(p)
  <2>1. at[p] = "send" /\ client' = [client EXCEPT ![p].token = TRUE]
        /\ UNCHANGED <<now, used, own, unheard, at, call>>
    BY <1>1 DEF Authenticate, serverVars
  <2>2. at' = [at EXCEPT ![p] = "send"]
    BY <1>t, <2>1 DEF PaceTyped
  <2>3. client' \in [Processes -> ClientRecord]
    BY <1>t, <2>1 DEF PaceTyped, ClientRecord
  <2>4. PaceTyped' /\ \A q \in Processes : q # p => client'[q] = client[q]
    BY <1>t, <2>1, <2>3 DEF PaceTyped
  <2>5. ~Held(p) /\ Alive(p)
    BY <2>1 DEF Held, Alive
  <2> QED
    BY <1>t, <2>1, <2>2, <2>4, <2>5, PaceOnward DEF Shaped
<1>2. CASE NoToken(p)
  <2>1. /\ at[p] = "send" /\ at' = [at EXCEPT ![p] = "slot"]
        /\ call' = [call EXCEPT ![p] = NoCall]
        /\ UNCHANGED <<now, used, own, unheard, client>>
    BY <1>2 DEF NoToken, NextSymbol, Goto, serverVars
  <2>2. PaceTyped' /\ \A q \in Processes : q # p => call'[q] = call[q]
    BY <1>t, <2>1 DEF PaceTyped
  <2>3. Shaped(call'[p])
    BY <1>t, <2>1, NewCallShaped DEF NoCall, PaceTyped
  <2>4. ~Held(p) /\ Alive(p)
    BY <2>1 DEF Held, Alive
  <2> QED
    BY <2>1, <2>2, <2>3, <2>4, PaceOnward
<1>3. CASE Wake(p)
  <2>1. /\ at[p] = "asleep" /\ at' = [at EXCEPT ![p] = "send"]
        /\ UNCHANGED <<now, used, own, unheard, client, call>>
    BY <1>3 DEF Wake, Goto, serverVars
  <2>2. PaceTyped'
    BY <1>t, <2>1 DEF PaceTyped
  <2>3. ~Held(p) /\ Alive(p)
    BY <2>1 DEF Held, Alive
  <2> QED
    BY <1>t, <2>1, <2>2, <2>3, PaceOnward DEF Shaped
<1>4. CASE Refused(p) \/ Unauthorised(p)
  <2>1. /\ at[p] = "send" /\ at' = [at EXCEPT ![p] = "answer"]
        /\ UNCHANGED <<now, used, own, unheard, client>>
    BY <1>4 DEF Refused, Unauthorised, Sending, Goto, serverVars
  <2>2. Reset \in Int /\ Limit - used \in Int
    BY <1>t, ResetTyped, CollectionAssumption DEF PaceTyped
  <2>3. /\ DOMAIN call' = Processes /\ Shaped(call'[p])
        /\ call'[p].remaining \in {0, Limit - used} /\ call'[p].reset = Reset
        /\ \A q \in Processes : q # p => call'[q] = call[q]
    <3>1. CASE Refused(p)
      BY <1>t, <3>1 DEF Refused, PaceTyped, Shaped
    <3>2. CASE Unauthorised(p)
      BY <1>t, <3>2 DEF Unauthorised, PaceTyped, Shaped
    <3> QED
      BY <1>4, <3>1, <3>2
  <2>4. at'[p] = "answer" /\ \A q \in Processes : q # p => at'[q] = at[q]
    BY <1>t, <2>1 DEF PaceTyped
  <2>5. PaceTyped'
    BY <1>t, <2>1, <2>3 DEF PaceTyped
  <2>6. Answered(p)'
    BY <2>2, <2>3, <2>4 DEF Answered, Shaped
  <2>7. Paced(p)'
    BY <2>1 DEF PaceInv, Paced, Alive, Held, Crowded, Room
  <2> QED
    BY <2>1, <2>3, <2>4, <2>5, <2>6, <2>7, OneSteps
<1>5. CASE Write(p)
  <2>1. /\ at[p] = "write" /\ at' = [at EXCEPT ![p] = "slot"]
        /\ call' = [call EXCEPT ![p] = NoCall]
        /\ UNCHANGED <<now, used, own, unheard, client>>
    BY <1>5 DEF Write, NextSymbol, Goto, serverVars
  <2>2. /\ at'[p] = "slot" /\ call'[p] = NoCall
        /\ \A q \in Processes : q # p => at'[q] = at[q] /\ call'[q] = call[q]
    BY <1>t, <2>1 DEF PaceTyped
  <2>3. PaceTyped'
    BY <1>t, <2>1 DEF PaceTyped
  <2>4. Answered(p)'
    BY <2>2, NewCallShaped DEF Answered, NoCall
  <2>5. Paced(p)'
    BY <2>1, <2>2 DEF PaceInv, Paced, Alive, Held, Crowded, Room, Reset
  <2> QED
    BY <2>1, <2>2, <2>3, <2>4, <2>5, OneSteps
<1>6. CASE Evaluate(p)
  <2>1. /\ at' = [at EXCEPT ![p] = "idle"] /\ client' = [client EXCEPT ![p] = NewClient]
        /\ UNCHANGED <<now, used, own, unheard, call>>
    BY <1>6 DEF Evaluate, Goto, serverVars
  <2>2. /\ at'[p] = "idle"
        /\ \A q \in Processes : q # p => at'[q] = at[q] /\ client'[q] = client[q]
    BY <1>t, <2>1 DEF PaceTyped
  <2>3. PaceTyped'
    BY <1>t, <2>1, NewClientTyped DEF PaceTyped
  <2>4. Answered(p)' /\ Paced(p)'
    BY <1>t, <2>1, <2>2 DEF PaceInv, Answered, Shaped, Paced, Alive
  <2> QED
    BY <2>1, <2>2, <2>3, <2>4, OneSteps
<1> QED
  BY <1>1, <1>2, <1>3, <1>4, <1>5, <1>6

\* A window that begins has room for everybody; otherwise its end is no nearer.
LEMMA PaceTick == ASSUME Limit >= 2, PaceInv, Tick PROVE PaceInv'
<1>t. PaceTyped /\ Limit \in Nat
  BY CollectionAssumption DEF PaceInv
<1>1. now' = now + 1 /\ UNCHANGED <<at, client, call>>
  BY DEF Tick
<1>2. CASE now' % Window = 0
  <2>1. used' = 0 /\ own' = [p \in Processes |-> 0] /\ unheard' = [p \in Processes |-> 0]
    BY <1>2 DEF Tick
  <2>2. PaceTyped'
    BY <1>t, <1>1, <2>1 DEF PaceTyped
  <2>3. \A p \in Processes : Answered(p)' /\ Paced(p)'
    BY <1>t, <1>1, <2>1 DEF PaceInv, Answered, Shaped, Paced, Room
  <2> QED
    BY <2>2, <2>3 DEF PaceInv
<1>3. CASE now' % Window # 0
  <2>1. UNCHANGED <<used, own, unheard>>
    BY <1>3 DEF Tick, serverVars
  <2>2. PaceTyped'
    BY <1>t, <1>1, <2>1 DEF PaceTyped
  <2>3. Reset \in Int /\ now \in Int /\ Reset' = Reset - 1
    BY <1>t, <1>1, <1>3, EndStays, ResetTyped DEF PaceTyped
  <2>4. ASSUME NEW p \in Processes PROVE Answered(p)' /\ Paced(p)'
    <3>1. Answered(p) /\ Paced(p) /\ client[p].next \in Int
      BY <1>t DEF PaceInv, PaceTyped, ClientRecord
    <3>2. Answered(p)'
      BY <1>1, <3>1 DEF Answered, Shaped
    <3>3. Held(p) => Held(p)'
      BY <1>1, <2>3, <3>1 DEF Held, Answered
    <3>4. Paced(p)'
      BY <1>1, <2>1, <3>1, <3>3 DEF Paced, Alive, Crowded, Room
    <3> QED
      BY <3>2, <3>4
  <2> QED
    BY <2>2, <2>4 DEF PaceInv
<1> QED
  BY <1>2, <1>3

LEMMA PaceStep == ASSUME Limit >= 2, PaceInv, [Next]_vars PROVE PaceInv'
<1>1. CASE UNCHANGED vars
  BY <1>1 DEF vars, serverVars, PaceInv, PaceTyped, Answered, Shaped, Paced, Alive, Crowded,
              Room, Held, Reset
<1> QED
  BY <1>1, PaceBegin, PaceTakeSlot, PaceAccepted, PaceLost, PaceReceive, PaceQuiet, PaceTick
     DEF Next, Step

\* A process that has the window to itself is refused only after two of its
\* requests were counted without an answer, whatever the window, the limit, the
\* faults and the other processes before it.  The pace leaves a window with one
\* request to spare, which a limit of one does not have.
THEOREM AloneIsAnswered == ASSUME Limit >= 2 PROVE Spec => AloneNeverRefused
<1> DEFINE Unrefused ==
      \A p \in Processes :
        (at[p] = "send" /\ at'[p] = "answer" /\ call'[p].status = 429) =>
          \/ used > own[p]
          \/ unheard[p] >= 2
<1>1. ASSUME PaceInv, [Next]_vars PROVE [Unrefused]_vars
  <2> SUFFICES ASSUME NEW p \in Processes, at[p] = "send", at'[p] = "answer",
                      call'[p].status = 429
               PROVE  used > own[p] \/ unheard[p] >= 2
    OBVIOUS
  <2>t. PaceTyped /\ Limit \in Nat
    BY <1>1, CollectionAssumption DEF PaceInv
  <2>1. used >= Limit
    <3>1. CASE UNCHANGED vars
      BY <3>1 DEF vars
    <3>2. CASE Tick
      BY <3>2 DEF Tick
    <3>3. ASSUME NEW q \in Processes, q # p,
                 Begin(q) \/ Step(q) \/ NoToken(q) \/ Unauthorised(q) \/ Lost(q)
          PROVE  at'[p] = at[p]
      BY <2>t, <3>3, OthersStay DEF PaceTyped
    <3>4. CASE Begin(p) \/ Step(p) \/ NoToken(p) \/ Unauthorised(p) \/ Lost(p)
      <4>1. CASE Accepted(p) \/ Unauthorised(p)
        <5>1. Shaped(call[p])
          BY <1>1 DEF PaceInv, Answered
        <5>2. call'[p].status \in {200, 401}
          BY <2>t, <4>1, <5>1 DEF Accepted, Unauthorised, Shaped, PaceTyped
        <5> QED
          BY <5>2
      <4>2. CASE Refused(p)
        BY <4>2 DEF Refused
      <4>3. CASE Authenticate(p)
        BY <4>3 DEF Authenticate
      <4>4. CASE NoToken(p) \/ Lost(p)
        BY <2>t, <4>4 DEF NoToken, Lost, NextSymbol, Goto, PaceTyped
      <4> QED
        BY <3>4, <4>1, <4>2, <4>3, <4>4
           DEF Begin, Step, Alive, TakeSlot, Wake, Receive, Write, Evaluate
    <3> QED
      BY <1>1, <3>1, <3>2, <3>3, <3>4 DEF Next
  <2>2. Crowded(p) \/ Room(p)
    BY <1>1 DEF PaceInv, Paced, Alive, Held
  <2> QED
    BY <2>t, <2>1, <2>2 DEF PaceTyped, Crowded, Room
<1>2. PaceInv /\ [Next]_vars => PaceInv'
  BY PaceStep
<1> QED
  BY <1>1, <1>2, PaceInit, PTL DEF Spec, AloneNeverRefused
=============================================================================
