--------------------------- MODULE CandleCollection ---------------------------
(***************************************************************************)
(* The processes that collect candles: MarketCollector of market_data.py   *)
(* over TossClient of client.py, into the table of repository.py.          *)
(*                                                                         *)
(* A process (a cycle, a scan, a backfill) collects its symbols one after  *)
(* another and then reads what is stored.  Its client paces the requests   *)
(* and keeps what it learnt of the limit in memory, for as long as the     *)
(* process lives and for this process only; the server counts the requests *)
(* of all of them, window by window.                                       *)
(*                                                                         *)
(* Time is counted in quarters of a second.                                *)
(***************************************************************************)
EXTENDS Integers, Sequences, SequencesExt

CONSTANTS
  Processes,
  Symbols,      \* in the order they are collected
  MinInterval,  \* candle_min_interval_seconds
  Window,       \* ticks of a window of the server
  Limit,        \* requests the server answers in a window
  MaxRetries,   \* max_get_retries
  MaxStarts,    \* bound: processes that are started
  MaxFaults,    \* bound: transmissions that get lost or are not authorised, tokens refused
  Horizon       \* bound: time

ASSUME CollectionAssumption ==
  /\ Symbols \in Seq(ToSet(Symbols))
  /\ {MinInterval, MaxRetries, MaxStarts, MaxFaults, Horizon} \subseteq Nat
  /\ {Window, Limit} \subseteq Nat \ {0}

Second == 4

VARIABLES
  now,
  used,      \* requests the server counted in this window
  own,       \* history: process -> those of them that are its own
  unheard,   \* history: process -> those of them it got no answer to
  at,        \* process -> where it is
  todo,      \* process -> the symbols it still collects or reads
  client,    \* process -> the client it has in memory
  call,      \* process -> the request in progress
  store,     \* symbol -> how new the stored bars are
  got, \* process -> symbol -> how new the bars it received, and read, are
  met,       \* history: process -> whether another one ran beside it
  starts, faults

serverVars == <<used, own, unheard>>
vars == <<now, serverVars, at, todo, client, call, store, got, met, starts, faults>>

-----------------------------------------------------------------------------
Larger(a, b) == IF a >= b THEN a ELSE b
CeilDiv(a, b) == (a + b - 1) \div b

\* What a client knows when its process starts: no token, no limit.
NewClient == [token |-> FALSE, next |-> 0, interval |-> MinInterval]

\* The request in progress: the symbol, the retries it has left of each kind,
\* the time it sleeps until, and what came back.
NewCall(s) ==
  [of |-> s, attempt |-> 0, auth |-> TRUE, relay |-> 1, until |-> 0,
   status |-> 0, bars |-> 0, remaining |-> 0, reset |-> 0]

NoCall == NewCall(Symbols[1])
Nothing == [s \in ToSet(Symbols) |-> 0]

Reset == Window - (now % Window)
Alive(p) == at[p] # "idle"
Goto(p, s) == at' = [at EXCEPT ![p] = s]
NextSymbol(p) == Goto(p, "slot") /\ call' = [call EXCEPT ![p] = NoCall]

Fault == /\ faults < MaxFaults
         /\ faults' = faults + 1

Begin(p) ==
  /\ ~Alive(p) /\ starts < MaxStarts
  /\ starts' = starts + 1
  /\ Goto(p, "slot")
  /\ todo' = [todo EXCEPT ![p] = Symbols]
  /\ client' = [client EXCEPT ![p] = NewClient]
  /\ own' = [own EXCEPT ![p] = 0] /\ unheard' = [unheard EXCEPT ![p] = 0]
  /\ LET others == {q \in Processes \ {p} : Alive(q)}
     IN  met' = [q \in Processes |-> IF q = p THEN others # {} ELSE met[q] \/ q \in others]
  /\ UNCHANGED <<now, used, call, store, got, faults>>

-----------------------------------------------------------------------------
(* The pace *)

\* The process sleeps until its next slot and takes it.
TakeSlot(p) ==
  /\ at[p] = "slot" /\ todo[p] # <<>>
  /\ now >= client[p].next
  /\ client' = [client EXCEPT ![p].next = now + client[p].interval]
  /\ call' = [call EXCEPT ![p] = NewCall(Head(todo[p]))]
  /\ todo' = [todo EXCEPT ![p] = Tail(@)]
  /\ Goto(p, "send")
  /\ UNCHANGED <<now, serverVars, store, got, met, starts, faults>>

\* Mutant: what the response says of the limit is not used.
LearntNothing(c, r) == c

\* The limit and the end of the window, from the headers of a response.
Learnt(c, r) ==
  [c EXCEPT !.interval = Larger(MinInterval, CeilDiv(Second, Limit)),
            !.next = IF r.remaining <= 1 THEN Larger(@, now + r.reset) ELSE @]

-----------------------------------------------------------------------------
(* A request and the server *)

\* A token is fetched first when there is none.
Authenticate(p) ==
  /\ at[p] = "send" /\ ~client[p].token
  /\ client' = [client EXCEPT ![p].token = TRUE]
  /\ UNCHANGED <<now, serverVars, at, todo, call, store, got, met, starts, faults>>

\* The token request is not answered, or refused: the symbol has an error.
NoToken(p) ==
  /\ at[p] = "send" /\ ~client[p].token /\ Fault
  /\ NextSymbol(p)
  /\ UNCHANGED <<now, serverVars, todo, client, store, got, met, starts>>

Sending(p) == at[p] = "send" /\ client[p].token

\* The bars are those of the time the server answers.
Accepted(p) ==
  /\ Sending(p) /\ used < Limit
  /\ used' = used + 1 /\ own' = [own EXCEPT ![p] = @ + 1]
  /\ call' = [call EXCEPT ![p].status = 200, ![p].bars = now,
                          ![p].remaining = Limit - used - 1, ![p].reset = Reset]
  /\ Goto(p, "answer")
  /\ UNCHANGED <<now, unheard, todo, client, store, got, met, starts, faults>>

Refused(p) ==
  /\ Sending(p) /\ used >= Limit
  /\ call' = [call EXCEPT ![p].status = 429, ![p].remaining = 0, ![p].reset = Reset]
  /\ Goto(p, "answer")
  /\ UNCHANGED <<now, serverVars, todo, client, store, got, met, starts, faults>>

\* The token was revoked; such a request does not count.
Unauthorised(p) ==
  /\ Sending(p) /\ Fault
  /\ call' = [call EXCEPT ![p].status = 401, ![p].remaining = Limit - used, ![p].reset = Reset]
  /\ Goto(p, "answer")
  /\ UNCHANGED <<now, serverVars, todo, client, store, got, met, starts>>

\* No response: the transport sends once more after half a second, whatever
\* the pace; the server may have counted the request.
Lost(p) ==
  /\ Sending(p) /\ Fault
  /\ \/ UNCHANGED serverVars
     \/ /\ used < Limit
        /\ used' = used + 1 /\ own' = [own EXCEPT ![p] = @ + 1]
        /\ unheard' = [unheard EXCEPT ![p] = @ + 1]
  /\ IF call[p].relay > 0
     THEN /\ call' = [call EXCEPT ![p].relay = @ - 1, ![p].until = now + 2]
          /\ Goto(p, "asleep")
     ELSE NextSymbol(p)
  /\ UNCHANGED <<now, todo, client, store, got, met, starts>>

Wake(p) ==
  /\ at[p] = "asleep" /\ now >= call[p].until
  /\ Goto(p, "send")
  /\ UNCHANGED <<now, serverVars, todo, client, call, store, got, met, starts, faults>>

\* Seconds to wait after a refusal: what the server says, or 1, 2, 4...
RetryAfter(c) == {c.reset, Second * 2 ^ c.attempt}

\* The response is looked at: bars to store, one more request with a new
\* token, one after a while, or an error, and the next symbol.
Receive(p) ==
  LET c == call[p] IN
  /\ at[p] = "answer"
  /\ CASE c.status = 200 ->
            /\ Goto(p, "write") /\ UNCHANGED call
            /\ client' = [client EXCEPT ![p] = Learnt(@, c)]
            /\ got' = [got EXCEPT ![p][c.of] = c.bars]
       [] c.status = 401 /\ c.auth ->
            /\ Goto(p, "send")
            /\ call' = [call EXCEPT ![p].auth = FALSE, ![p].relay = 1]
            /\ client' = [client EXCEPT ![p] = [Learnt(@, c) EXCEPT !.token = FALSE]]
            /\ UNCHANGED got
       [] c.status = 429 /\ c.attempt < MaxRetries ->
            /\ Goto(p, "asleep")
            /\ \E w \in RetryAfter(c) :
                 call' = [call EXCEPT ![p].attempt = @ + 1, ![p].relay = 1, ![p].until = now + w]
            /\ client' = [client EXCEPT ![p] = Learnt(@, c)]
            /\ UNCHANGED got
       [] OTHER ->
            /\ NextSymbol(p) /\ UNCHANGED got
            /\ client' = [client EXCEPT ![p] = Learnt(@, c)]
  /\ UNCHANGED <<now, serverVars, todo, store, met, starts, faults>>

-----------------------------------------------------------------------------
(* The table *)

\* Mutant: a bar that is stored already is left as it is.
UpsertedFirst(s, bars) == IF store[s] = 0 THEN [store EXCEPT ![s] = bars] ELSE store

\* INSERT ... ON CONFLICT DO UPDATE: the last writer wins.
Upserted(s, bars) == [store EXCEPT ![s] = bars]

Write(p) ==
  /\ at[p] = "write"
  /\ store' = Upserted(call[p].of, call[p].bars)
  /\ NextSymbol(p)
  /\ UNCHANGED <<now, serverVars, todo, client, got, met, starts, faults>>

Received(p) == {s \in ToSet(Symbols) : got[p][s] # 0}

\* The process goes on with the stored bars of the symbols it received, which
\* is all the rest of it here, and ends.
Evaluate(p) ==
  /\ at[p] = "slot" /\ todo[p] = <<>>
  /\ Goto(p, "idle")
  /\ got' = [got EXCEPT ![p] = Nothing]
  /\ met' = [met EXCEPT ![p] = FALSE]
  /\ client' = [client EXCEPT ![p] = NewClient]
  /\ UNCHANGED <<now, serverVars, todo, call, store, starts, faults>>

-----------------------------------------------------------------------------
\* A process sends as soon as it may; a response, and the table, may take
\* their time.
Tick ==
  /\ now < Horizon
  /\ \A p \in Processes : at[p] # "send"
  /\ now' = now + 1
  /\ IF now' % Window = 0
     THEN used' = 0 /\ own' = [p \in Processes |-> 0] /\ unheard' = own'
     ELSE UNCHANGED serverVars
  /\ UNCHANGED <<at, todo, client, call, store, got, met, starts, faults>>

Init ==
  /\ now = 1
  /\ used = 0 /\ own = [p \in Processes |-> 0] /\ unheard = own
  /\ at = [p \in Processes |-> "idle"]
  /\ todo = [p \in Processes |-> <<>>]
  /\ client = [p \in Processes |-> NewClient]
  /\ call = [p \in Processes |-> NoCall]
  /\ store = Nothing
  /\ got = [p \in Processes |-> Nothing]
  /\ met = [p \in Processes |-> FALSE]
  /\ starts = 0 /\ faults = 0

Step(p) ==
  \/ TakeSlot(p) \/ Authenticate(p) \/ Accepted(p) \/ Refused(p) \/ Wake(p)
  \/ Receive(p) \/ Write(p) \/ Evaluate(p)

Next ==
  \/ \E p \in Processes : Begin(p) \/ Step(p) \/ NoToken(p) \/ Unauthorised(p) \/ Lost(p)
  \/ Tick

Spec == Init /\ [][Next]_vars

-----------------------------------------------------------------------------
(* Properties *)

\* The pace of a client keeps within the limit of the server: a request is
\* refused only in a window that another process uses as well, or in which two
\* requests of the process itself were counted without an answer.
AloneNeverRefused ==
  [][\A p \in Processes :
       (at[p] = "send" /\ at'[p] = "answer" /\ call'[p].status = 429) =>
         \/ used > own[p]
         \/ unheard[p] >= 2]_vars

\* What a process reads after it collected is at least as new as what it
\* received, unless another process ran beside it: then that one may have
\* stored older bars over them.
FreshWhenAlone ==
  [][\A p \in Processes :
       (Alive(p) /\ at'[p] = "idle" /\ ~met[p]) =>
         \A s \in Received(p) : store[s] >= got[p][s]]_vars
=============================================================================
