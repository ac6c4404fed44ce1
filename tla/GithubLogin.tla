------------------------------ MODULE GithubLogin ------------------------------
(***************************************************************************)
(* modules/github: the OAuth login.  The client gets an authentication     *)
(* state; GitHub redirects the browser to the callback, which consumes the *)
(* state, exchanges the code for a token (two HTTP requests with a         *)
(* timeout) and completes the state; a client on another origin fetches    *)
(* the result by polling, a client on the same origin has it from the      *)
(* callback page.  States expire, exchanges are limited in number and in   *)
(* rate, and stopping the module forgets the states but not the exchanges  *)
(* under way.                                                              *)
(***************************************************************************)
EXTENDS Integers, Sequences, FiniteSets, FiniteSetsExt, FiniteSetTheorems, SequenceTheorems, TLAPS

CONSTANTS
  Owner,          \* client addresses
  Context,        \* callback and client origins
  SameOrigin,     \* the contexts whose client is on the callback's origin
  MaxPending, MaxPerOwner, StateLife,
  MaxExchanges, GlobalLimit, OwnerLimit, Window,
  MaxIds, MaxTime, MaxStops,
  None

LimitAssumption ==
  {MaxPending, MaxPerOwner, StateLife, MaxExchanges, GlobalLimit, OwnerLimit, Window} \subseteq Nat \ {0}
\* A stored state, and what a callback may have decided about it.
Results == {None, "ok", "error", "denied"}
States == [ctx : Context, owner : Owner, phase : {"issued", "processing", "complete"}, expires : Int, result : Results]
ContextAssumption == SameOrigin \subseteq Context /\ None \notin States

VARIABLES
  now,
  states,       \* id -> [ctx, owner, phase, expires, result] or None
  count,        \* stateCountByOwner
  inFlight,     \* authExchangesInFlight
  starts,       \* authExchangeStarts
  startsBy,     \* authExchangeStartsByOwner
  running,      \* ids whose callback awaits an exchange of this resolver
  orphaned,     \* ids whose callback awaits an exchange of a resolver that was dropped
  nextId, stops,
  exchanges,    \* ghost: exchanges begun for each id
  polled,       \* ghost: results handed to a poll, for each id
  answer,       \* ghost: what the callback of each id decided, or None
  log,          \* ghost: <<owner, time>> of every exchange begun
  full          \* ghost: the owner the last step turned away for lack of room, or None

store == <<states, count>>
budget == <<inFlight, starts, startsBy>>
vars == <<now, store, budget, running, orphaned, nextId, stops, exchanges, polled, answer, log, full>>

Id == 1..MaxIds
NoStates == [i \in Id |-> None]

Init ==
  /\ now = 0 /\ states = NoStates /\ count = [o \in Owner |-> 0]
  /\ inFlight = 0 /\ starts = <<>> /\ startsBy = [o \in Owner |-> <<>>] /\ running = {} /\ orphaned = {}
  /\ nextId = 1 /\ stops = 0
  /\ exchanges = [i \in Id |-> 0] /\ polled = [i \in Id |-> 0] /\ answer = [i \in Id |-> None]
  /\ log = <<>> /\ full = None

-----------------------------------------------------------------------------
(* GithubAuthStateStore *)

Store == [states |-> states, count |-> count]
SetStore(S) == states' = S.states /\ count' = S.count
Stored(S) == {i \in Id : S.states[i] # None}
Expired(S, i) == now >= S.states[i].expires
\* delete, of every state in D that is stored
Delete(S, D) ==
  LET gone(o) == {i \in D \cap Stored(S) : S.states[i].owner = o}
  IN [states |-> [i \in Id |-> IF i \in D THEN None ELSE S.states[i]],
      count |-> [o \in Owner |-> S.count[o] - Cardinality(gone(o))]]
PruneExpired(S) == Delete(S, {i \in Stored(S) : Expired(S, i)})
OwnerFull(S, o) == S.count[o] >= MaxPerOwner
Full(S) == Cardinality(Stored(S)) >= MaxPending

\* issue, by processGithubAuthState; nextId stands for the random state
Issue(o, c) ==
  /\ nextId <= MaxIds
  /\ LET S == PruneExpired(Store)
     IN IF Full(S) \/ OwnerFull(S, o)
        THEN SetStore(S) /\ full' = o /\ UNCHANGED nextId
        ELSE /\ states' = [S.states EXCEPT ![nextId] = [ctx |-> c, owner |-> o, phase |-> "issued",
                                                        expires |-> now + StateLife, result |-> None]]
             /\ count' = [S.count EXCEPT ![o] = @ + 1]
             /\ nextId' = nextId + 1 /\ full' = None
  /\ UNCHANGED <<now, budget, running, orphaned, stops, exchanges, polled, answer, log>>

\* sameContext and matchesBrowserBinding; bound: the request carries the state's cookie. One that
\* is not bound carries another browser's, or none: a request without any from another origin
\* is answered before it looks at the state, one with another's finds the state as it is.
Matches(i, c, bound) == states[i].ctx = c /\ (c \in SameOrigin \/ bound)
IsIssued(i) == states[i].phase = "issued"
\* consume, for a state that is stored
Consumed(S, i) == [S EXCEPT !.states[i] = [@ EXCEPT !.phase = "processing", !.expires = now + StateLife]]
\* complete: the store after it
Complete(S, i, r) ==
  IF S.states[i] = None THEN S
  ELSE IF S.states[i].phase # "processing" THEN S
  ELSE IF Expired(S, i) \/ S.states[i].ctx \in SameOrigin THEN Delete(S, {i})
  ELSE [S EXCEPT !.states[i] = [@ EXCEPT !.phase = "complete", !.expires = now + StateLife, !.result = r]]

-----------------------------------------------------------------------------
(* GithubResolver.createAuthInfo *)

\* pruneAuthExchangeStarts: the first starts are dropped while they are out of the window
PruneAuthExchangeStarts(s) ==
  LET recent == {n \in DOMAIN s : s[n] > now - Window}
  IN IF recent = {} THEN <<>> ELSE SubSeq(s, Min(recent), Len(s))
PrunedStarts == PruneAuthExchangeStarts(starts)
PrunedStartsBy == [o \in Owner |-> PruneAuthExchangeStarts(startsBy[o])]
RateAllows(o) == Len(PrunedStarts) < GlobalLimit /\ Len(PrunedStartsBy[o]) < OwnerLimit
\* reserveAuthExchange
ReserveAuthExchange(o) ==
  /\ starts' = Append(PrunedStarts, now)
  /\ startsBy' = [PrunedStartsBy EXCEPT ![o] = Append(@, now)]

\* the finally of createAuthInfo
LeaveExchange == inFlight' = inFlight - 1

-----------------------------------------------------------------------------
(* Callback and result *)

\* a callback that ends without an exchange completes its state in the same step
EndNow(i, r) ==
  /\ SetStore(Complete(Consumed(Store, i), i, r))
  /\ answer' = [answer EXCEPT ![i] = r]
  /\ UNCHANGED <<running, exchanges, log>>
\* createAuthInfo up to its await
BeginExchange(i) ==
  LET o == states[i].owner
  IN IF inFlight >= MaxExchanges THEN EndNow(i, "error") /\ UNCHANGED budget
     ELSE IF ~RateAllows(o)
     THEN EndNow(i, "error") /\ starts' = PrunedStarts /\ startsBy' = PrunedStartsBy /\ UNCHANGED inFlight
     ELSE /\ ReserveAuthExchange(o) /\ inFlight' = inFlight + 1
          /\ SetStore(Consumed(Store, i)) /\ running' = running \cup {i}
          /\ exchanges' = [exchanges EXCEPT ![i] = @ + 1] /\ log' = Append(log, <<o, now>>)
          /\ UNCHANGED answer
\* processGithubAuthCallback for a known state: GitHub reports an error, sends a code or
\* sends no usable code. consume deletes a state that expired before it compares anything, so
\* any well-formed cookie does that; a request that is refused leaves the state alone.
Callback(i, c, bound, query) ==
  /\ states[i] # None /\ full' = None
  /\ IF Expired(Store, i)
     THEN SetStore(Delete(Store, {i})) /\ UNCHANGED <<budget, running, exchanges, answer, log>>
     ELSE /\ Matches(i, c, bound) /\ IsIssued(i)
          /\ CASE query = "error" -> EndNow(i, "denied") /\ UNCHANGED budget
               [] query = "none"  -> EndNow(i, "error") /\ UNCHANGED budget
               [] query = "code"  -> BeginExchange(i)
  /\ UNCHANGED <<now, orphaned, nextId, stops, polled>>
\* the callback after its await: every outcome of the exchange is completed
CompleteResult(S, i, r) == Complete(S, i, r)
\* exchangeAuthInfo returns or throws, and the callback ends
ExchangeEnds(i, r) ==
  /\ \/ i \in running /\ running' = running \ {i} /\ LeaveExchange /\ UNCHANGED orphaned
     \/ i \in orphaned /\ orphaned' = orphaned \ {i} /\ UNCHANGED <<running, inFlight>>
  /\ SetStore(CompleteResult(Store, i, r)) /\ full' = None
  /\ answer' = [answer EXCEPT ![i] = r]
  /\ UNCHANGED <<now, starts, startsBy, nextId, stops, exchanges, polled, log>>

\* Mutant: the result stays in the store.
KeepResult(S, i) == S
\* consumeResult: a complete result leaves the store
TakeResult(S, i) == Delete(S, {i})
\* processGithubAuthResult for a known state
Poll(i, c, bound) ==
  /\ states[i] # None /\ full' = None
  /\ IF Expired(Store, i) THEN SetStore(Delete(Store, {i})) /\ UNCHANGED polled
     ELSE /\ Matches(i, c, bound) /\ states[i].phase = "complete"
          /\ SetStore(TakeResult(Store, i)) /\ polled' = [polled EXCEPT ![i] = @ + 1]
  /\ UNCHANGED <<now, budget, running, orphaned, nextId, stops, exchanges, answer, log>>

Clear == states' = NoStates /\ count' = [o \in Owner |-> 0]
\* stopModule and a later startModule, which makes a new resolver: exchanges under way go on
\* against the old one.
Stop ==
  /\ stops < MaxStops /\ stops' = stops + 1 /\ Clear /\ full' = None
  /\ inFlight' = 0 /\ starts' = <<>> /\ startsBy' = [o \in Owner |-> <<>>]
  /\ running' = {} /\ orphaned' = orphaned \cup running /\ log' = <<>>
  /\ UNCHANGED <<now, nextId, exchanges, polled, answer>>
Tick ==
  /\ now < MaxTime /\ now' = now + 1 /\ full' = None
  /\ UNCHANGED <<store, budget, running, orphaned, nextId, stops, exchanges, polled, answer, log>>

EndSome(i) == \E r \in {"ok", "error"} : ExchangeEnds(i, r)
Next ==
  \/ \E o \in Owner, c \in Context : Issue(o, c)
  \/ \E i \in Id, c \in Context, bound \in BOOLEAN, query \in {"error", "none", "code"} : Callback(i, c, bound, query)
  \/ \E i \in Id : EndSome(i)
  \/ \E i \in Id, c \in Context, bound \in BOOLEAN : Poll(i, c, bound)
  \/ Stop \/ Tick
Spec == Init /\ [][Next]_vars

\* The steps that are weakly fair. Both requests of an exchange end within their
\* timeout.
Weak == {"exchange"} \X Id
WeakStep(k) ==
  CASE k[1] = "exchange" -> EndSome(k[2])
-----------------------------------------------------------------------------
Live == {i \in Id : states[i] # None}

\* The store and the counters hold what their types allow, and a state has a result exactly
\* when its callback has completed it for a client on another origin.
TypeOK ==
  /\ count \in [Owner -> Nat] /\ inFlight \in Nat /\ startsBy \in [Owner -> Seq(Nat)]
  /\ \A i \in Live : /\ states[i].phase \in {"issued", "processing", "complete"}
                     /\ (states[i].phase = "complete") = (states[i].result # None)
                     /\ states[i].phase = "complete" => states[i].ctx \notin SameOrigin

\* Every client's counter is the number of its states, no client and not all of them together
\* hold more than their limit, and a login is turned away for lack of room only by states
\* that can still be used.
RoomIsAccounted ==
  /\ \A o \in Owner : /\ count[o] = Cardinality({i \in Live : states[i].owner = o})
                      /\ count[o] <= MaxPerOwner
  /\ Cardinality(Live) <= MaxPending
  /\ full # None => \A i \in Live : now < states[i].expires

\* The exchanges under way are counted, whatever way they end, and in any window no client
\* and not all clients together begin more of them than their limit.
ExchangesAreLimited ==
  LET recent == {n \in DOMAIN log : log[n][2] + Window > now}
  IN /\ inFlight = Cardinality(running) /\ inFlight <= MaxExchanges
     /\ Cardinality(recent) <= GlobalLimit
     /\ \A o \in Owner : Cardinality({n \in recent : log[n][1] = o}) <= OwnerLimit

\* A state buys at most one exchange and hands its result to at most one poll, also when the
\* redirect is repeated, when polls race and when the module restarts.
UsedOnce == \A i \in Id : exchanges[i] <= 1 /\ polled[i] <= 1

\* A result that waits for its client is the one its own callback reported, and it leaves
\* the store only to that client, after its lifetime or with the module.
ResultIsKeptStep ==
  \A i \in Id : IF states[i] = None THEN TRUE
                ELSE IF states[i].phase # "complete" THEN TRUE
                ELSE /\ states[i].result = answer[i]
                     /\ states'[i] = states[i] \/ polled'[i] = polled[i] + 1
                        \/ now >= states[i].expires \/ stops' # stops

\* What comes in the end: a login that was begun comes to an end, no state waits forever for its callback.
LoginsEnded == \A i \in Live : states[i].phase # "processing"

-----------------------------------------------------------------------------
(* What is proved for every number of clients, states, restarts and limits. *)
(* UsedOnce is not inductive: a second exchange or poll is ruled out by     *)
(* where the state stands.  The invariant says what each place means.       *)

StateMap == [Id -> States \union {None}]

\* A state that was not given out is new; a stored one has not been polled, an issued one
\* has had no exchange, and none of its callbacks is under way.
StateOnce(i) ==
  /\ exchanges[i] \in {0, 1} /\ polled[i] \in {0, 1}
  /\ i >= nextId => states[i] = None /\ exchanges[i] = 0 /\ polled[i] = 0 /\ i \notin running \union orphaned
  /\ states[i] # None => polled[i] = 0
  /\ states[i] # None /\ states[i].phase = "issued" => exchanges[i] = 0 /\ i \notin running \union orphaned

\* The inductive invariant.
LoginInv ==
  /\ now \in Nat /\ nextId \in Nat \ {0} /\ states \in StateMap
  /\ exchanges \in [Id -> Nat] /\ polled \in [Id -> Nat]
  /\ running \subseteq Id /\ orphaned \subseteq Id /\ IsFiniteSet(running)
  /\ inFlight = Cardinality(running) /\ inFlight <= MaxExchanges
  /\ \A i \in Id : StateOnce(i)

\* How a step may change the states: one is removed, stays, or leaves the phase "issued".
Onward(F, T) ==
  /\ T \in StateMap
  /\ \A i \in Id : T[i] \in {None, F[i]} \/ (F[i] # None /\ T[i] # None /\ T[i].phase # "issued")

\* delete removes the states of D and changes no other.
LEMMA DeleteEffect ==
  ASSUME NEW F \in StateMap, NEW C, NEW D
  PROVE  LET T == Delete([states |-> F, count |-> C], D).states
         IN  /\ Onward(F, T) /\ T = [i \in Id |-> IF i \in D THEN None ELSE F[i]]
BY DEF Delete, Onward, StateMap

\* consume moves a state on.
LEMMA ConsumedEffect ==
  ASSUME LoginInv, LimitAssumption, ContextAssumption, NEW i \in Id, states[i] # None
  PROVE  LET S == Consumed(Store, i)
         IN  /\ S = [states |-> S.states, count |-> S.count]
             /\ Onward(states, S.states) /\ S.states[i] # None /\ S.states[i].phase = "processing"
             /\ \A j \in Id : j # i => S.states[j] = states[j]
<1> DEFINE o == [states[i] EXCEPT !.phase = "processing", !.expires = now + StateLife]
<1> DEFINE F == [states EXCEPT ![i] = o]
<1>1. states[i] \in States /\ now + StateLife \in Int BY DEF LoginInv, StateMap, LimitAssumption
<1>2. o \in States /\ o.phase = "processing" BY <1>1 DEF States
<1> HIDE DEF o
<1>3. F \in StateMap /\ F[i] = o /\ \A j \in Id : j # i => F[j] = states[j] BY <1>2 DEF LoginInv, StateMap
<1>4. Consumed(Store, i) = [states |-> F, count |-> count] BY DEF Consumed, Store, o
<1> HIDE DEF F
<1>5. Onward(states, F) /\ F[i] # None BY <1>2, <1>3 DEF Onward, ContextAssumption
<1> QED BY <1>2, <1>3, <1>4, <1>5

\* complete removes the state, leaves it or stores its result.
LEMMA CompleteEffect ==
  ASSUME LoginInv, LimitAssumption, ContextAssumption, NEW F \in StateMap, NEW C, NEW i \in Id, NEW r \in Results
  PROVE  LET T == Complete([states |-> F, count |-> C], i, r).states
         IN  Onward(F, T) /\ \A j \in Id : j # i => T[j] = F[j]
<1> DEFINE S == [states |-> F, count |-> C]
<1>1. CASE F[i] = None \/ F[i].phase # "processing"
  <2>1. Complete(S, i, r) = S BY <1>1 DEF Complete
  <2> QED BY <2>1 DEF Onward
<1>2. CASE Complete(S, i, r) = Delete(S, {i})
  <2>1. Complete(S, i, r).states = [j \in Id |-> IF j \in {i} THEN None ELSE F[j]] BY <1>2, DeleteEffect
  <2>2. Onward(F, Complete(S, i, r).states) BY <2>1 DEF Onward, StateMap
  <2> QED BY <2>1, <2>2
<1>3. CASE F[i] # None /\ F[i].phase = "processing" /\ Complete(S, i, r) # Delete(S, {i})
  <2> DEFINE o == [F[i] EXCEPT !.phase = "complete", !.expires = now + StateLife, !.result = r]
  <2> DEFINE T == [F EXCEPT ![i] = o]
  <2>1. F[i] \in States /\ now + StateLife \in Int BY <1>3 DEF LoginInv, StateMap, LimitAssumption
  <2>2. o \in States /\ o.phase = "complete" BY <2>1 DEF States
  <2>3. Complete(S, i, r) = [S EXCEPT !.states[i] = o] BY <1>3 DEF Complete
  <2>4. [S EXCEPT !.states[i] = o] = [states |-> T, count |-> C] OBVIOUS
  <2> HIDE DEF o
  <2>5. T \in StateMap /\ T[i] = o /\ \A j \in Id : j # i => T[j] = F[j] BY <2>2 DEF StateMap
  <2> HIDE DEF T
  <2>6. Onward(F, T) BY <1>3, <2>2, <2>5 DEF Onward, ContextAssumption
  <2> QED BY <2>3, <2>4, <2>5, <2>6
<1> QED BY <1>1, <1>2, <1>3

\* A step that only moves states onward keeps the invariant.
LEMMA OnwardStep ==
  ASSUME LoginInv, Onward(states, states'), now' \in Nat,
         UNCHANGED <<nextId, exchanges, polled, running, orphaned, inFlight>>
  PROVE  LoginInv'
<1>1. ASSUME NEW i \in Id PROVE StateOnce(i)'
  <2>1. StateOnce(i) BY DEF LoginInv
  <2>2. states'[i] \in {None, states[i]} \/ (states[i] # None /\ states'[i] # None /\ states'[i].phase # "issued")
    BY DEF Onward
  <2> QED BY <2>1, <2>2 DEF StateOnce
<1> QED BY <1>1 DEF LoginInv, Onward

\* A callback that ends without an exchange completes its state.
LEMMA EndNowStep ==
  ASSUME LoginInv, LimitAssumption, ContextAssumption, NEW i \in Id, states[i] # None,
         NEW r \in Results, EndNow(i, r), UNCHANGED <<now, nextId, polled, orphaned, inFlight>>
  PROVE  LoginInv'
<1> DEFINE S == Consumed(Store, i)
<1>1. S = [states |-> S.states, count |-> S.count] /\ Onward(states, S.states) /\ S.states[i] # None
      /\ S.states[i].phase = "processing" /\ \A j \in Id : j # i => S.states[j] = states[j]
  BY ConsumedEffect
<1>2. S.states \in StateMap BY <1>1 DEF Onward
<1>3. states' = Complete(S, i, r).states BY DEF EndNow, SetStore
<1> HIDE DEF S
<1> DEFINE T == Complete([states |-> S.states, count |-> S.count], i, r).states
<1>4. Onward(S.states, T) /\ \A j \in Id : j # i => T[j] = S.states[j] BY <1>2, CompleteEffect
<1>5. states' = T BY <1>1, <1>3
<1> HIDE DEF T
<1>6. Onward(states, T) BY <1>1, <1>4 DEF Onward
<1> QED BY <1>5, <1>6, OnwardStep DEF EndNow, LoginInv

\* createAuthInfo counts the exchange it begins.
LEMMA BeginStep ==
  ASSUME LoginInv, LimitAssumption, ContextAssumption, NEW i \in Id, states[i] # None, IsIssued(i),
         BeginExchange(i), UNCHANGED <<now, nextId, polled, orphaned>>
  PROVE  LoginInv'
<1>1. CASE EndNow(i, "error") /\ UNCHANGED inFlight
  BY <1>1, EndNowStep DEF Results
<1>2. CASE ~(EndNow(i, "error") /\ UNCHANGED inFlight)
  <2> DEFINE S == Consumed(Store, i)
  <2>1. /\ inFlight < MaxExchanges /\ inFlight' = inFlight + 1 /\ states' = S.states
        /\ running' = running \union {i} /\ exchanges' = [exchanges EXCEPT ![i] = @ + 1]
    <3>1. inFlight \in Nat /\ MaxExchanges \in Nat BY FS_CardinalityType DEF LoginInv, LimitAssumption
    <3>2. ~(inFlight >= MaxExchanges) /\ RateAllows(states[i].owner)
      <4>1. inFlight >= MaxExchanges => EndNow(i, "error") /\ UNCHANGED inFlight BY DEF BeginExchange, budget
      <4>2. ~(inFlight >= MaxExchanges) /\ ~RateAllows(states[i].owner) => EndNow(i, "error") /\ UNCHANGED inFlight
        BY DEF BeginExchange
      <4> QED BY <1>2, <4>1, <4>2
    <3>3. inFlight' = inFlight + 1 /\ SetStore(S) /\ running' = running \union {i}
          /\ exchanges' = [exchanges EXCEPT ![i] = @ + 1]
      BY <3>2 DEF BeginExchange
    <3> QED BY <3>1, <3>2, <3>3 DEF SetStore
  <2>2. StateOnce(i) /\ i \notin running /\ exchanges[i] = 0 BY DEF LoginInv, StateOnce, IsIssued
  <2>3. IsFiniteSet(running') /\ Cardinality(running') = Cardinality(running) + 1
    BY <2>1, <2>2, FS_AddElement DEF LoginInv
  <2>4. Onward(states, S.states) /\ S.states[i] # None /\ S.states[i].phase = "processing"
        /\ \A j \in Id : j # i => S.states[j] = states[j]
    BY ConsumedEffect
  <2> HIDE DEF S
  <2>5. ASSUME NEW j \in Id PROVE StateOnce(j)'
    <3>1. StateOnce(j) BY DEF LoginInv
    <3>2. CASE j = i BY <2>1, <2>2, <2>4, <3>1, <3>2 DEF StateOnce, LoginInv
    <3>3. CASE j # i BY <2>1, <2>4, <3>1, <3>3 DEF StateOnce, LoginInv
    <3> QED BY <3>2, <3>3
  <2>6. inFlight' = Cardinality(running') /\ inFlight' <= MaxExchanges
    <3>1. inFlight \in Nat BY FS_CardinalityType DEF LoginInv
    <3> QED BY <2>1, <2>3, <3>1 DEF LoginInv, LimitAssumption
  <2> QED BY <2>1, <2>3, <2>4, <2>5, <2>6 DEF LoginInv, Onward
<1> QED BY <1>1, <1>2

\* Every end of a callback keeps the invariant.
LEMMA CallbackStep ==
  ASSUME LoginInv, LimitAssumption, ContextAssumption, NEW i \in Id, NEW c, NEW bound,
         NEW query \in {"error", "none", "code"}, Callback(i, c, bound, query)
  PROVE  LoginInv'
<1>1. states[i] # None /\ UNCHANGED <<now, orphaned, nextId, polled>> BY DEF Callback
<1>2. CASE Expired(Store, i)
  <2>1. states' = Delete([states |-> states, count |-> count], {i}).states
        /\ UNCHANGED <<inFlight, running, exchanges>>
    BY <1>2 DEF Callback, SetStore, Store, budget
  <2>2. Onward(states, states') BY <2>1, DeleteEffect DEF LoginInv
  <2> QED BY <1>1, <2>1, <2>2, OnwardStep DEF LoginInv
<1>3. CASE ~Expired(Store, i) /\ query = "error"
  <2>1. EndNow(i, "denied") /\ UNCHANGED inFlight BY <1>3 DEF Callback, budget
  <2> QED BY <1>1, <2>1, EndNowStep DEF Results
<1>4. CASE ~Expired(Store, i) /\ query = "none"
  <2>1. EndNow(i, "error") /\ UNCHANGED inFlight BY <1>4 DEF Callback, budget
  <2> QED BY <1>1, <2>1, EndNowStep DEF Results
<1>5. CASE ~Expired(Store, i) /\ query = "code"
  <2>1. BeginExchange(i) /\ IsIssued(i) BY <1>5 DEF Callback
  <2> QED BY <1>1, <2>1, BeginStep
<1> QED BY <1>2, <1>3, <1>4, <1>5

\* The end of an exchange takes it off the count of its own resolver only.
LEMMA ExchangeEndsStep ==
  ASSUME LoginInv, LimitAssumption, ContextAssumption, NEW i \in Id, NEW r \in {"ok", "error"}, ExchangeEnds(i, r)
  PROVE  LoginInv'
<1> DEFINE T == Complete([states |-> states, count |-> count], i, r).states
<1>1. Onward(states, T) BY CompleteEffect DEF LoginInv, Results
<1>2. states' = T /\ UNCHANGED <<now, nextId, exchanges, polled>>
  BY DEF ExchangeEnds, SetStore, CompleteResult, Store
<1> HIDE DEF T
<1>3. inFlight \in Nat BY FS_CardinalityType DEF LoginInv
<1>4. /\ running' \subseteq running /\ orphaned' \subseteq orphaned /\ IsFiniteSet(running')
      /\ inFlight' = Cardinality(running') /\ inFlight' <= MaxExchanges
  <2>1. CASE i \in running /\ running' = running \ {i} /\ LeaveExchange /\ UNCHANGED orphaned
    <3>1. IsFiniteSet(running') /\ Cardinality(running') = Cardinality(running) - 1
      BY <2>1, FS_RemoveElement DEF LoginInv
    <3> QED BY <1>3, <2>1, <3>1 DEF LeaveExchange, LoginInv, LimitAssumption
  <2>2. CASE i \in orphaned /\ orphaned' = orphaned \ {i} /\ UNCHANGED <<running, inFlight>>
    BY <2>2 DEF LoginInv
  <2> QED BY <2>1, <2>2 DEF ExchangeEnds
<1>5. ASSUME NEW j \in Id PROVE StateOnce(j)'
  <2>1. StateOnce(j) BY DEF LoginInv
  <2>2. states'[j] \in {None, states[j]} \/ (states[j] # None /\ states'[j] # None /\ states'[j].phase # "issued")
    BY <1>1, <1>2 DEF Onward
  <2> QED BY <1>2, <1>4, <2>1, <2>2 DEF StateOnce
<1> QED BY <1>1, <1>2, <1>4, <1>5 DEF LoginInv, Onward

\* The poll that hands out a result takes the state from the store.
LEMMA PollStep ==
  ASSUME LoginInv, NEW i \in Id, NEW c, NEW bound, Poll(i, c, bound)
  PROVE  LoginInv'
<1> DEFINE T == Delete([states |-> states, count |-> count], {i}).states
<1>1. Onward(states, T) /\ T = [j \in Id |-> IF j \in {i} THEN None ELSE states[j]]
  BY DeleteEffect DEF LoginInv
<1>2. states' = T /\ states[i] # None /\ UNCHANGED <<now, inFlight, running, orphaned, nextId, exchanges>>
      /\ (UNCHANGED polled \/ polled' = [polled EXCEPT ![i] = @ + 1])
  BY DEF Poll, SetStore, Store, TakeResult, budget
<1> HIDE DEF T
<1>3. CASE UNCHANGED polled BY <1>1, <1>2, <1>3, OnwardStep DEF LoginInv
<1>4. CASE polled' = [polled EXCEPT ![i] = @ + 1]
  <2>1. StateOnce(i) /\ polled[i] = 0 BY <1>2 DEF LoginInv, StateOnce
  <2>2. ASSUME NEW j \in Id PROVE StateOnce(j)'
    <3>1. StateOnce(j) BY DEF LoginInv
    <3>2. CASE j = i BY <1>1, <1>2, <1>4, <2>1, <3>1, <3>2 DEF StateOnce, LoginInv
    <3>3. CASE j # i BY <1>1, <1>2, <1>4, <3>1, <3>3 DEF StateOnce, LoginInv
    <3> QED BY <3>2, <3>3
  <2> QED BY <1>1, <1>2, <1>4, <2>2 DEF LoginInv, Onward
<1> QED BY <1>2, <1>3, <1>4

\* issue gives out a state nobody has used.
LEMMA IssueStep ==
  ASSUME LoginInv, LimitAssumption, ContextAssumption, NEW o \in Owner, NEW c \in Context, Issue(o, c)
  PROVE  LoginInv'
<1> DEFINE D == {i \in Stored(Store) : Expired(Store, i)}
<1> DEFINE S == Delete([states |-> states, count |-> count], D)
<1> DEFINE e == [ctx |-> c, owner |-> o, phase |-> "issued", expires |-> now + StateLife, result |-> None]
<1>1. Onward(states, S.states) BY DeleteEffect DEF LoginInv
<1>2. PruneExpired(Store) = S BY DEF PruneExpired, Store
<1>3. /\ UNCHANGED <<now, inFlight, running, orphaned, exchanges, polled>> /\ nextId <= MaxIds
      /\ \/ states' = S.states /\ UNCHANGED nextId
         \/ states' = [S.states EXCEPT ![nextId] = e] /\ nextId' = nextId + 1
  BY <1>2 DEF Issue, SetStore, budget
<1>4. e \in States
  <2>1. now + StateLife \in Int BY DEF LoginInv, LimitAssumption
  <2> QED BY <2>1 DEF States, Results
<1>5. e # None /\ e.phase = "issued" BY <1>4 DEF ContextAssumption
<1> HIDE DEF S, e
<1>6. CASE states' = S.states /\ UNCHANGED nextId BY <1>1, <1>3, <1>6, OnwardStep DEF LoginInv
<1>7. CASE states' = [S.states EXCEPT ![nextId] = e] /\ nextId' = nextId + 1
  <2>1. nextId \in Id /\ nextId \in Nat BY <1>3 DEF LoginInv, Id
  <2>2. states' \in StateMap /\ states'[nextId] = e /\ \A j \in Id : j # nextId => states'[j] = S.states[j]
    BY <1>1, <1>4, <1>7, <2>1 DEF Onward, StateMap
  <2>3. ASSUME NEW j \in Id PROVE StateOnce(j)'
    <3>1. StateOnce(j) /\ j \in Int BY DEF LoginInv, Id
    <3>2. CASE j = nextId BY <1>3, <1>5, <1>7, <2>1, <2>2, <3>1, <3>2 DEF StateOnce
    <3>3. CASE j # nextId
      <4>1. S.states[j] \in {None, states[j]}
            \/ (states[j] # None /\ S.states[j] # None /\ S.states[j].phase # "issued")
        BY <1>1 DEF Onward
      <4> QED BY <1>3, <1>7, <2>1, <2>2, <3>1, <3>3, <4>1 DEF StateOnce
    <3> QED BY <3>2, <3>3
  <2> QED BY <1>3, <1>7, <2>1, <2>2, <2>3 DEF LoginInv
<1> QED BY <1>3, <1>6, <1>7

\* A stop forgets the states; its exchanges belong to the dropped resolver.
LEMMA StopStep ==
  ASSUME LoginInv, LimitAssumption, Stop
  PROVE  LoginInv'
<1>1. /\ states' = NoStates /\ inFlight' = 0 /\ running' = {} /\ orphaned' = orphaned \union running
      /\ UNCHANGED <<now, nextId, exchanges, polled>>
  BY DEF Stop, Clear
<1>2. IsFiniteSet(running') /\ Cardinality(running') = 0 BY <1>1, FS_EmptySet
<1>3. states' \in StateMap /\ \A j \in Id : states'[j] = None BY <1>1 DEF NoStates, StateMap
<1>4. ASSUME NEW j \in Id PROVE StateOnce(j)'
  <2>1. StateOnce(j) BY DEF LoginInv
  <2> QED BY <1>1, <1>3, <2>1 DEF StateOnce
<1> QED BY <1>1, <1>2, <1>3, <1>4 DEF LoginInv, LimitAssumption

\* The exchanges a resolver has under way are the ones it counts, and never more than its limit.
RunningIsLimited == inFlight = Cardinality(running) /\ inFlight <= MaxExchanges

\* Initially nothing was given out.
LEMMA LoginInit ==
  ASSUME LimitAssumption, Init PROVE LoginInv
<1>1. states \in StateMap /\ \A i \in Id : states[i] = None BY DEF Init, NoStates, StateMap
<1>2. IsFiniteSet(running) /\ Cardinality(running) = 0 BY FS_EmptySet DEF Init
<1>3. \A i \in Id : StateOnce(i) BY <1>1 DEF Init, StateOnce
<1> QED BY <1>1, <1>2, <1>3 DEF Init, LoginInv, LimitAssumption

\* LoginInv is inductive.
LEMMA LoginNext ==
  ASSUME LimitAssumption, ContextAssumption, LoginInv, [Next]_vars PROVE LoginInv'
<1>1. CASE \E o \in Owner, c \in Context : Issue(o, c) BY <1>1, IssueStep
<1>2. CASE \E i \in Id, c \in Context, bound \in BOOLEAN, query \in {"error", "none", "code"} : Callback(i, c, bound, query)
  BY <1>2, CallbackStep
<1>3. CASE \E i \in Id : EndSome(i) BY <1>3, ExchangeEndsStep DEF EndSome
<1>4. CASE \E i \in Id, c \in Context, bound \in BOOLEAN : Poll(i, c, bound) BY <1>4, PollStep
<1>5. CASE Stop BY <1>5, StopStep
<1>6. ASSUME UNCHANGED <<states, nextId, exchanges, polled, running, orphaned, inFlight>>, now' \in Nat
      PROVE  LoginInv'
  BY <1>6, OnwardStep DEF Onward, LoginInv
<1>7. CASE Tick BY <1>6, <1>7 DEF Tick, store, budget, LoginInv
<1>8. CASE UNCHANGED vars BY <1>6, <1>8 DEF vars, store, budget, LoginInv
<1> QED BY <1>1, <1>2, <1>3, <1>4, <1>5, <1>7, <1>8 DEF Next

\* So it holds in every state.
THEOREM LoginInvariance == ASSUME LimitAssumption, ContextAssumption PROVE Spec => []LoginInv
<1>1. Init => LoginInv BY LoginInit
<1>2. LoginInv /\ [Next]_vars => LoginInv' BY LoginNext
<1> QED BY <1>1, <1>2, PTL DEF Spec

\* For every number of clients, states and restarts, and however redirects, polls, expiries
\* and restarts interleave: no state buys a second exchange or gives its result to a second
\* poll, and the exchanges under way are counted exactly and stay within the limit.
THEOREM LoginsAreUsedOnce ==
  ASSUME LimitAssumption, ContextAssumption
  PROVE  Spec => [](UsedOnce /\ RunningIsLimited)
<1>1. LoginInv => UsedOnce /\ RunningIsLimited
  BY DEF LoginInv, StateOnce, UsedOnce, RunningIsLimited
<1> QED BY <1>1, LoginInvariance, PTL

-----------------------------------------------------------------------------
(* The room of the store and the results in it.                             *)

BoundAssumption == MaxIds \in Nat /\ None \notin {"ok", "error", "denied"}

Kept(F) == {i \in Id : F[i] # None}
Owned(F, o) == {i \in Kept(F) : F[i].owner = o}
\* The counters C fit the states F, and both stay within the limits.
Roomy(F, C) ==
  /\ C \in [Owner -> Nat]
  /\ \A o \in Owner : C[o] = Cardinality(Owned(F, o)) /\ C[o] <= MaxPerOwner
  /\ Cardinality(Kept(F)) <= MaxPending

\* What a state x holds when its callback has answered a.
Shaped(x, a) ==
  x # None => IF x.phase = "complete" THEN x.result = a /\ a # None /\ x.ctx \notin SameOrigin
              ELSE x.result = None
\* No callback of a completed state is under way.
Quiet(i) == states[i] # None /\ states[i].phase = "complete" => i \notin running \union orphaned

\* The inductive invariant of the store.
StoreInv ==
  /\ LoginInv /\ stops \in Nat /\ answer \in [Id -> Results]
  /\ \A i \in Id : Shaped(states[i], answer[i]) /\ Quiet(i)
  /\ running \intersect orphaned = {}
  /\ Roomy(states, count)
  /\ full # None => \A i \in Live : now < states[i].expires

-----------------------------------------------------------------------------
(* The windows.  Pruned starts and the log of all exchanges agree on every  *)
(* exchange that is still in the window.                                    *)

Since(s, c) == {n \in DOMAIN s : s[n] > c}
Begun(L, c) == {n \in DOMAIN L : L[n][2] > c}
BegunBy(L, o, c) == {n \in Begun(L, c) : L[n][1] = o}

WindowTypes == starts \in Seq(Nat) /\ startsBy \in [Owner -> Seq(Nat)] /\ log \in Seq(Owner \X Nat)
\* The inductive invariant of the windows.
WindowInv ==
  /\ WindowTypes
  /\ \A c \in Int : c >= now - Window =>
       /\ Cardinality(Since(starts, c)) = Cardinality(Begun(log, c))
       /\ \A o \in Owner : Cardinality(Since(startsBy[o], c)) = Cardinality(BegunBy(log, o, c))
  /\ Cardinality(Begun(log, now - Window)) <= GlobalLimit
  /\ \A o \in Owner : Cardinality(BegunBy(log, o, now - Window)) <= OwnerLimit

\* A nonempty set of natural numbers has a smallest element.
LEMMA Smallest ==
  ASSUME NEW S \in SUBSET Nat, S # {}
  PROVE  Min(S) \in S /\ \A m \in S : Min(S) <= m
<1> DEFINE R == OpToRel(<, Nat)
<1>1. IsWellFoundedOn(R, Nat) BY NatLessThanWellFounded
<1>2. \A m, n \in Nat : m < n => <<m, n>> \in R BY DEF OpToRel
<1> HIDE DEF R
<1>3. \E n \in S : \A m \in S : <<m, n>> \notin R BY <1>1, WFMin
<1>4. PICK n \in S : \A m \in S : <<m, n>> \notin R BY <1>3
<1>5. ASSUME NEW m \in S PROVE n <= m
  <2>1. ~(m < n) BY <1>2, <1>4
  <2> QED BY <2>1
<1>6. \E x \in S : \A y \in S : x <= y BY <1>5
<1> QED BY <1>6 DEF Min

\* The exchanges counted in a window of s, one of them for each place in s.
LEMMA SinceIsFinite ==
  ASSUME NEW s \in Seq(Nat), NEW c \in Int
  PROVE  IsFiniteSet(Since(s, c)) /\ Cardinality(Since(s, c)) \in Nat /\ Cardinality(Since(s, c)) <= Len(s)
<1>1. IsFiniteSet(1..Len(s)) /\ Cardinality(1..Len(s)) = Len(s)
  <2>1. Len(s) \in Nat /\ 1 \in Int OBVIOUS
  <2> DEFINE k == Len(s)
  <2>2. k \in Int BY <2>1
  <2> HIDE DEF k
  <2>3. IsFiniteSet(1..k) /\ Cardinality(1..k) = (IF 1 > k THEN 0 ELSE k - 1 + 1) BY <2>2, FS_Interval
  <2> QED BY <2>1, <2>3 DEF k
<1>2. Since(s, c) \in SUBSET (1..Len(s)) BY DEF Since
<1> QED BY <1>1, <1>2, FS_Subset, FS_CardinalityType

\* A start that is appended is counted once.
LEMMA SinceAppend ==
  ASSUME NEW s \in Seq(Nat), NEW t \in Nat, NEW c \in Int
  PROVE  Cardinality(Since(Append(s, t), c)) = Cardinality(Since(s, c)) + (IF t > c THEN 1 ELSE 0)
<1>1. IsFiniteSet(Since(s, c)) /\ Cardinality(Since(s, c)) \in Nat BY SinceIsFinite
<1>2. Len(s) + 1 \notin Since(s, c) BY DEF Since
<1>3. Since(Append(s, t), c) = IF t > c THEN Since(s, c) \union {Len(s) + 1} ELSE Since(s, c)
  <2>1. DOMAIN Append(s, t) = 1..(Len(s) + 1) /\ DOMAIN s = 1..Len(s) OBVIOUS
  <2>2. \A n \in 1..(Len(s) + 1) : Append(s, t)[n] = IF n = Len(s) + 1 THEN t ELSE s[n] OBVIOUS
  <2>3. \A n : n \in 1..(Len(s) + 1) <=> n \in 1..Len(s) \/ n = Len(s) + 1 OBVIOUS
  <2> QED BY <1>2, <2>1, <2>2, <2>3 DEF Since
<1>4. CASE t > c BY <1>1, <1>2, <1>3, <1>4, FS_AddElement
<1>5. CASE ~(t > c) BY <1>1, <1>3, <1>5
<1> QED BY <1>4, <1>5

\* Pruning drops no start that is still in the window.
LEMMA PruneKeeps ==
  ASSUME NEW s \in Seq(Nat), NEW c \in Int, c >= now - Window, now \in Nat, Window \in Nat
  PROVE  /\ PruneAuthExchangeStarts(s) \in Seq(Nat)
         /\ Cardinality(Since(PruneAuthExchangeStarts(s), c)) = Cardinality(Since(s, c))
<1> DEFINE recent == {n \in DOMAIN s : s[n] > now - Window}
<1>1. \A n \in DOMAIN s : n \in Nat /\ n >= 1 /\ n <= Len(s) /\ s[n] \in Nat OBVIOUS
<1>2. \A n \in Since(s, c) : n \in recent BY <1>1 DEF Since
<1>3. CASE recent = {}
  <2>1. PruneAuthExchangeStarts(s) = <<>> BY <1>3 DEF PruneAuthExchangeStarts
  <2>2. Since(s, c) = {} /\ Since(<<>>, c) = {} /\ <<>> \in Seq(Nat) BY <1>2, <1>3 DEF Since
  <2> QED BY <2>1, <2>2
<1>4. CASE recent # {}
  <2> DEFINE m == Min(recent)
  <2> DEFINE p == SubSeq(s, m, Len(s))
  <2>1. PruneAuthExchangeStarts(s) = p BY <1>4 DEF PruneAuthExchangeStarts
  <2>2. recent \in SUBSET Nat BY <1>1
  <2>3. m \in recent /\ \A n \in recent : m <= n BY <1>4, <2>2, Smallest
  <2>4. m \in 1..Len(s) BY <1>1, <2>3
  <2> HIDE DEF m
  <2>5. /\ p \in Seq(Nat) /\ Len(p) = Len(s) - m + 1
        /\ \A k \in 1..(Len(s) - m + 1) : p[k] = s[m + k - 1]
    BY <2>4, SubSeqProperties
  <2> HIDE DEF p
  <2> DEFINE f == [n \in Since(s, c) |-> n - m + 1]
  <2>6. f \in Bijection(Since(s, c), Since(p, c))
    <3>1. ASSUME NEW n \in Since(s, c) PROVE f[n] \in Since(p, c)
      <4>1. n \in 1..Len(s) /\ s[n] > c /\ m <= n BY <1>1, <1>2, <2>3 DEF Since
      <4>2. n - m + 1 \in 1..(Len(s) - m + 1) /\ m + (n - m + 1) - 1 = n BY <2>4, <4>1
      <4>3. p[n - m + 1] = s[n] BY <2>5, <4>2
      <4> QED BY <2>5, <4>1, <4>2, <4>3 DEF Since
    <3>2. ASSUME NEW k \in Since(p, c) PROVE \E n \in Since(s, c) : f[n] = k
      <4>1. k \in 1..(Len(s) - m + 1) /\ p[k] > c BY <2>5 DEF Since
      <4>2. m + k - 1 \in 1..Len(s) /\ s[m + k - 1] > c BY <2>4, <2>5, <4>1
      <4>3. m + k - 1 \in Since(s, c) BY <4>2 DEF Since
      <4>4. f[m + k - 1] = k BY <2>4, <4>1, <4>3
      <4> QED BY <4>3, <4>4
    <3>3. \A a, b \in Since(s, c) : f[a] = f[b] => a = b
      <4>1. \A n \in Since(s, c) : n \in Nat BY <1>1 DEF Since
      <4> QED BY <2>4, <4>1
    <3> HIDE DEF f
    <3>4. f \in [Since(s, c) -> Since(p, c)] BY <3>1 DEF f
    <3> QED BY <3>2, <3>3, <3>4 DEF Bijection, Injection, Surjection, IsInjective
  <2>7. IsFiniteSet(Since(s, c)) BY SinceIsFinite
  <2>8. Cardinality(Since(p, c)) = Cardinality(Since(s, c))
    <3>1. ExistsBijection(Since(s, c), Since(p, c)) BY <2>6 DEF ExistsBijection
    <3> QED BY <2>7, <3>1, FS_Bijection
  <2> QED BY <2>1, <2>5, <2>8
<1> QED BY <1>3, <1>4

\* The windows of the log are finite.
LEMMA LogIsFinite ==
  ASSUME NEW L \in Seq(Owner \X Nat), NEW c
  PROVE  IsFiniteSet(Begun(L, c)) /\ \A q : IsFiniteSet(BegunBy(L, q, c))
<1>1. IsFiniteSet(1..Len(L)) BY FS_Interval
<1>2. Begun(L, c) \in SUBSET (1..Len(L)) /\ \A q : BegunBy(L, q, c) \in SUBSET (1..Len(L)) BY DEF Begun, BegunBy
<1> QED BY <1>1, <1>2, FS_Subset

\* One more exchange is counted once.
LEMMA BegunAppend ==
  ASSUME NEW L \in Seq(Owner \X Nat), NEW o \in Owner, NEW t \in Nat, NEW c \in Int
  PROVE  /\ Cardinality(Begun(L, c)) \in Nat
         /\ Cardinality(Begun(Append(L, <<o, t>>), c)) = Cardinality(Begun(L, c)) + (IF t > c THEN 1 ELSE 0)
<1> DEFINE N == Len(L) + 1
<1> DEFINE M == Append(L, <<o, t>>)
<1>1. DOMAIN M = 1..N /\ DOMAIN L = 1..Len(L) /\ N \notin 1..Len(L) OBVIOUS
<1>2. \A n \in 1..N : M[n] = IF n = N THEN <<o, t>> ELSE L[n] OBVIOUS
<1>3. \A n : n \in 1..N <=> n \in 1..Len(L) \/ n = N OBVIOUS
<1>4. <<o, t>>[2] = t OBVIOUS
<1> HIDE DEF M, N
<1>5. Begun(M, c) = (IF t > c THEN Begun(L, c) \union {N} ELSE Begun(L, c)) /\ N \notin Begun(L, c)
  BY <1>1, <1>2, <1>3, <1>4 DEF Begun
<1>6. IsFiniteSet(Begun(L, c)) /\ Cardinality(Begun(L, c)) \in Nat BY LogIsFinite, FS_CardinalityType
<1>7. CASE t > c BY <1>5, <1>6, <1>7, FS_AddElement DEF M
<1>8. CASE ~(t > c) BY <1>5, <1>6, <1>8 DEF M
<1> QED BY <1>7, <1>8

\* It is counted for its client only.
LEMMA BegunByAppend ==
  ASSUME NEW L \in Seq(Owner \X Nat), NEW o \in Owner, NEW t \in Nat, NEW c \in Int
  PROVE  /\ \A q : Cardinality(BegunBy(L, q, c)) \in Nat
         /\ Cardinality(BegunBy(Append(L, <<o, t>>), o, c)) = Cardinality(BegunBy(L, o, c)) + (IF t > c THEN 1 ELSE 0)
         /\ \A q : q # o => BegunBy(Append(L, <<o, t>>), q, c) = BegunBy(L, q, c)
<1> DEFINE N == Len(L) + 1
<1> DEFINE M == Append(L, <<o, t>>)
<1>1. DOMAIN M = 1..N /\ DOMAIN L = 1..Len(L) /\ N \notin 1..Len(L) OBVIOUS
<1>2. \A n \in 1..N : M[n] = IF n = N THEN <<o, t>> ELSE L[n] OBVIOUS
<1>3. \A n : n \in 1..N <=> n \in 1..Len(L) \/ n = N OBVIOUS
<1>4. <<o, t>>[1] = o /\ <<o, t>>[2] = t OBVIOUS
<1> HIDE DEF M, N
<1>5. BegunBy(M, o, c) = (IF t > c THEN BegunBy(L, o, c) \union {N} ELSE BegunBy(L, o, c)) /\ N \notin BegunBy(L, o, c)
  BY <1>1, <1>2, <1>3, <1>4 DEF Begun, BegunBy
<1>6. ASSUME NEW q, q # o PROVE BegunBy(M, q, c) = BegunBy(L, q, c)
  BY <1>1, <1>2, <1>3, <1>4, <1>6 DEF Begun, BegunBy
<1>7. \A q : IsFiniteSet(BegunBy(L, q, c)) /\ Cardinality(BegunBy(L, q, c)) \in Nat BY LogIsFinite, FS_CardinalityType
<1>8. CASE t > c BY <1>5, <1>6, <1>7, <1>8, FS_AddElement DEF M
<1>9. CASE ~(t > c) BY <1>5, <1>6, <1>7, <1>9 DEF M
<1> QED BY <1>8, <1>9

\* A step that begins no exchange keeps the windows, whether it prunes or not.
LEMMA WindowsPass ==
  ASSUME LimitAssumption, WindowInv, now \in Nat, now' \in Nat, now <= now', UNCHANGED log,
         \/ UNCHANGED <<starts, startsBy>>
         \/ UNCHANGED now /\ starts' = PrunedStarts /\ startsBy' = PrunedStartsBy
  PROVE  WindowInv'
<1> USE DEF LimitAssumption
<1>1. /\ WindowTypes'
      /\ \A c \in Int : c >= now - Window =>
           /\ Cardinality(Since(starts', c)) = Cardinality(Begun(log, c))
           /\ \A o \in Owner : Cardinality(Since(startsBy'[o], c)) = Cardinality(BegunBy(log, o, c))
  <2>1. CASE UNCHANGED <<starts, startsBy>> BY <2>1 DEF WindowInv, WindowTypes
  <2>2. CASE starts' = PrunedStarts /\ startsBy' = PrunedStartsBy
    <3>1. starts \in Seq(Nat) /\ \A o \in Owner : startsBy[o] \in Seq(Nat) BY DEF WindowInv, WindowTypes
    <3>2. starts' = PruneAuthExchangeStarts(starts)
          /\ startsBy' = [o \in Owner |-> PruneAuthExchangeStarts(startsBy[o])]
      BY <2>2 DEF PrunedStarts, PrunedStartsBy
    <3>3. WindowTypes'
      <4>1. 0 - 0 \in Int /\ now - Window \in Int /\ now - Window >= now - Window OBVIOUS
      <4>2. starts' \in Seq(Nat) BY <3>1, <3>2, <4>1, PruneKeeps
      <4>3. \A o \in Owner : PruneAuthExchangeStarts(startsBy[o]) \in Seq(Nat) BY <3>1, <4>1, PruneKeeps
      <4> QED BY <3>2, <4>2, <4>3 DEF WindowInv, WindowTypes
    <3>4. ASSUME NEW c \in Int, c >= now - Window
          PROVE  /\ Cardinality(Since(starts', c)) = Cardinality(Begun(log, c))
                 /\ \A o \in Owner : Cardinality(Since(startsBy'[o], c)) = Cardinality(BegunBy(log, o, c))
      <4>1. Cardinality(Since(starts', c)) = Cardinality(Since(starts, c)) BY <3>1, <3>2, <3>4, PruneKeeps
      <4>2. \A o \in Owner : Cardinality(Since(startsBy'[o], c)) = Cardinality(Since(startsBy[o], c))
        BY <3>1, <3>2, <3>4, PruneKeeps
      <4> QED BY <3>4, <4>1, <4>2 DEF WindowInv
    <3> QED BY <3>3, <3>4
  <2> QED BY <2>1, <2>2
<1>2. ASSUME NEW c \in Int, c >= now' - Window' PROVE c >= now - Window BY <1>2
<1>3. Cardinality(Begun(log, now' - Window)) <= GlobalLimit
  <2>1. Begun(log, now' - Window) \in SUBSET Begun(log, now - Window)
    <3>1. \A n \in DOMAIN log : log[n][2] \in Nat BY DEF WindowInv, WindowTypes
    <3> QED BY <3>1 DEF Begun
  <2>2. IsFiniteSet(Begun(log, now - Window)) BY LogIsFinite DEF WindowInv, WindowTypes
  <2>3. /\ Cardinality(Begun(log, now' - Window)) <= Cardinality(Begun(log, now - Window))
        /\ Cardinality(Begun(log, now' - Window)) \in Nat /\ Cardinality(Begun(log, now - Window)) \in Nat
    BY <2>1, <2>2, FS_Subset, FS_CardinalityType
  <2> QED BY <2>3 DEF WindowInv
<1>4. ASSUME NEW o \in Owner PROVE Cardinality(BegunBy(log, o, now' - Window)) <= OwnerLimit
  <2>1. BegunBy(log, o, now' - Window) \in SUBSET BegunBy(log, o, now - Window)
    <3>1. \A n \in DOMAIN log : log[n][2] \in Nat BY DEF WindowInv, WindowTypes
    <3> QED BY <3>1 DEF Begun, BegunBy
  <2>2. IsFiniteSet(BegunBy(log, o, now - Window)) BY LogIsFinite DEF WindowInv, WindowTypes
  <2>3. /\ Cardinality(BegunBy(log, o, now' - Window)) <= Cardinality(BegunBy(log, o, now - Window))
        /\ Cardinality(BegunBy(log, o, now' - Window)) \in Nat
        /\ Cardinality(BegunBy(log, o, now - Window)) \in Nat
    BY <2>1, <2>2, FS_Subset, FS_CardinalityType
  <2> QED BY <2>3 DEF WindowInv
<1> QED BY <1>1, <1>2, <1>3, <1>4 DEF WindowInv

\* An exchange begins within both limits and is entered in the starts and in the log.
LEMMA WindowsBegin ==
  ASSUME LimitAssumption, WindowInv, now \in Nat, UNCHANGED now, NEW o \in Owner, RateAllows(o),
         ReserveAuthExchange(o), log' = Append(log, <<o, now>>)
  PROVE  WindowInv'
<1> USE DEF LimitAssumption
<1> DEFINE p == PrunedStarts
<1> DEFINE by == PrunedStartsBy
<1>1. /\ p \in Seq(Nat) /\ by \in [Owner -> Seq(Nat)] /\ log \in Seq(Owner \X Nat)
      /\ \A c \in Int : c >= now - Window =>
           /\ Cardinality(Since(p, c)) = Cardinality(Begun(log, c))
           /\ \A q \in Owner : Cardinality(Since(by[q], c)) = Cardinality(BegunBy(log, q, c))
  <2>1. starts \in Seq(Nat) /\ startsBy \in [Owner -> Seq(Nat)] /\ log \in Seq(Owner \X Nat)
    BY DEF WindowInv, WindowTypes
  <2>2. p = PruneAuthExchangeStarts(starts) /\ by = [q \in Owner |-> PruneAuthExchangeStarts(startsBy[q])]
    BY DEF PrunedStarts, PrunedStartsBy
  <2> HIDE DEF p, by
  <2>3. now - Window \in Int /\ now - Window >= now - Window OBVIOUS
  <2>4. p \in Seq(Nat) BY <2>1, <2>2, <2>3, PruneKeeps
  <2>5. \A q \in Owner : PruneAuthExchangeStarts(startsBy[q]) \in Seq(Nat) BY <2>1, <2>3, PruneKeeps
  <2>6. ASSUME NEW c \in Int, c >= now - Window
        PROVE  /\ Cardinality(Since(p, c)) = Cardinality(Begun(log, c))
               /\ \A q \in Owner : Cardinality(Since(by[q], c)) = Cardinality(BegunBy(log, q, c))
    <3>1. Cardinality(Since(p, c)) = Cardinality(Since(starts, c)) BY <2>1, <2>2, <2>6, PruneKeeps
    <3>2. \A q \in Owner : Cardinality(Since(by[q], c)) = Cardinality(Since(startsBy[q], c))
      BY <2>1, <2>2, <2>6, PruneKeeps
    <3> QED BY <2>6, <3>1, <3>2 DEF WindowInv
  <2> QED BY <2>1, <2>2, <2>4, <2>5, <2>6
<1>2. /\ starts' = Append(p, now) /\ Len(p) < GlobalLimit /\ Len(by[o]) < OwnerLimit
      /\ startsBy' = [by EXCEPT ![o] = Append(by[o], now)]
  BY DEF ReserveAuthExchange, RateAllows
<1> HIDE DEF p, by
<1>3. /\ starts' \in Seq(Nat) /\ startsBy' \in [Owner -> Seq(Nat)]
      /\ startsBy'[o] = Append(by[o], now) /\ \A q \in Owner : q # o => startsBy'[q] = by[q]
  <2>1. by[o] \in Seq(Nat) BY <1>1
  <2>2. Append(p, now) \in Seq(Nat) /\ Append(by[o], now) \in Seq(Nat) BY <1>1, <2>1
  <2> QED BY <1>1, <1>2, <2>2
<1>4. WindowTypes'
  <2>1. <<o, now>> \in Owner \X Nat OBVIOUS
  <2> QED BY <1>1, <1>3, <2>1 DEF WindowTypes
<1>10. ASSUME NEW c \in Int
       PROVE  /\ \A q : Cardinality(BegunBy(log, q, c)) \in Nat
              /\ Cardinality(BegunBy(log', o, c)) = Cardinality(BegunBy(log, o, c)) + (IF now > c THEN 1 ELSE 0)
              /\ \A q : q # o => BegunBy(log', q, c) = BegunBy(log, q, c)
  <2>1. log \in Seq(Owner \X Nat) BY <1>1
  <2>2. \A q : Cardinality(BegunBy(log, q, c)) \in Nat BY <2>1, BegunByAppend
  <2> DEFINE M == Append(log, <<o, now>>)
  <2>3. Cardinality(BegunBy(M, o, c)) = Cardinality(BegunBy(log, o, c)) + (IF now > c THEN 1 ELSE 0)
    BY <2>1, BegunByAppend
  <2>4. \A q : q # o => BegunBy(M, q, c) = BegunBy(log, q, c) BY <2>1, BegunByAppend
  <2>5. log' = M OBVIOUS
  <2> QED BY <2>2, <2>3, <2>4, <2>5
<1>5. ASSUME NEW c \in Int, c >= now - Window
      PROVE  /\ Cardinality(Since(starts', c)) = Cardinality(Begun(log', c))
             /\ \A q \in Owner : Cardinality(Since(startsBy'[q], c)) = Cardinality(BegunBy(log', q, c))
  <2>1. Cardinality(Since(starts', c)) = Cardinality(Since(p, c)) + (IF now > c THEN 1 ELSE 0)
    BY <1>1, <1>2, SinceAppend
  <2>2. Cardinality(Begun(log', c)) = Cardinality(Begun(log, c)) + (IF now > c THEN 1 ELSE 0)
    BY <1>1, BegunAppend
  <2>3. ASSUME NEW q \in Owner PROVE Cardinality(Since(startsBy'[q], c)) = Cardinality(BegunBy(log', q, c))
    <3>1. by[q] \in Seq(Nat) BY <1>1
    <3>2. Cardinality(Since(by[q], c)) = Cardinality(BegunBy(log, q, c)) BY <1>1, <1>5
    <3>3. CASE q = o
      <4>1. Cardinality(Since(Append(by[o], now), c)) = Cardinality(Since(by[o], c)) + (IF now > c THEN 1 ELSE 0)
        BY <3>1, <3>3, SinceAppend
      <4>2. Cardinality(Since(by[o], c)) = Cardinality(BegunBy(log, o, c)) BY <3>2, <3>3
      <4>3. Cardinality(Since(startsBy'[o], c)) = Cardinality(BegunBy(log', o, c)) BY <1>3, <1>10, <4>1, <4>2
      <4> QED BY <3>3, <4>3
    <3>4. CASE q # o
      <4>1. startsBy'[q] = by[q] /\ BegunBy(log', q, c) = BegunBy(log, q, c) BY <1>3, <1>10, <3>4
      <4> QED BY <3>2, <4>1
    <3> QED BY <3>3, <3>4
  <2> QED BY <1>1, <1>5, <2>1, <2>2, <2>3
<1>6. PICK c \in Int : c = now - Window OBVIOUS
<1>9. GlobalLimit \in Nat /\ OwnerLimit \in Nat OBVIOUS
<1>7. Cardinality(Begun(log', c)) <= GlobalLimit
  <2>1. Cardinality(Since(starts', c)) <= Len(starts')
        /\ Cardinality(Since(starts', c)) \in Nat
    BY <1>3, SinceIsFinite
  <2>2. Len(starts') = Len(p) + 1 /\ Len(p) \in Nat BY <1>1, <1>2
  <2>3. Cardinality(Since(starts', c)) = Cardinality(Begun(log', c)) BY <1>5, <1>6
  <2> QED BY <1>2, <1>9, <2>1, <2>2, <2>3
<1>8. ASSUME NEW q \in Owner PROVE Cardinality(BegunBy(log', q, c)) <= OwnerLimit
  <2>1. CASE q = o
    <3>1. startsBy'[o] \in Seq(Nat) BY <1>3
    <3>2. Cardinality(Since(startsBy'[o], c)) <= Len(startsBy'[o])
          /\ Cardinality(Since(startsBy'[o], c)) \in Nat
      BY <3>1, SinceIsFinite
    <3>3. by[o] \in Seq(Nat) BY <1>1
    <3>4. Len(startsBy'[o]) = Len(by[o]) + 1 /\ Len(by[o]) \in Nat BY <1>3, <3>3
    <3>6. Cardinality(Since(startsBy'[o], c)) = Cardinality(BegunBy(log', o, c)) BY <1>5, <1>6
    <3>5. Cardinality(BegunBy(log', o, c)) <= OwnerLimit BY <1>2, <1>9, <3>2, <3>4, <3>6
    <3> QED BY <2>1, <3>5
  <2>2. CASE q # o
    <3>1. Cardinality(BegunBy(log', q, c)) = Cardinality(BegunBy(log, q, c))
          /\ Cardinality(BegunBy(log, q, c)) \in Nat
      BY <1>10, <2>2
    <3> QED BY <1>6, <3>1 DEF WindowInv
  <2> QED BY <2>1, <2>2
<1> QED BY <1>4, <1>5, <1>6, <1>7, <1>8 DEF WindowInv

\* A new resolver has empty windows, and so has the log.
LEMMA WindowsEmpty ==
  \A c, o : /\ Cardinality(Since(<<>>, c)) = 0 /\ Cardinality(Begun(<<>>, c)) = 0
            /\ Cardinality(BegunBy(<<>>, o, c)) = 0
<1>1. \A c : Since(<<>>, c) = {} /\ Begun(<<>>, c) = {} BY DEF Since, Begun
<1>2. \A c, o : BegunBy(<<>>, o, c) = {} BY <1>1 DEF BegunBy
<1> QED BY <1>1, <1>2, FS_EmptySet

-----------------------------------------------------------------------------
\* Sets of states are finite.
LEMMA KeptIsFinite ==
  ASSUME BoundAssumption, NEW F
  PROVE  /\ IsFiniteSet(Kept(F)) /\ Cardinality(Kept(F)) \in Nat
         /\ \A o : IsFiniteSet(Owned(F, o)) /\ Cardinality(Owned(F, o)) \in Nat
<1>1. IsFiniteSet(Id)
  <2>1. MaxIds \in Int /\ 1 \in Int BY DEF BoundAssumption
  <2> QED BY <2>1, FS_Interval DEF Id
<1>2. Kept(F) \in SUBSET Id /\ \A o : Owned(F, o) \in SUBSET Id BY DEF Kept, Owned
<1> QED BY <1>1, <1>2, FS_Subset, FS_CardinalityType

\* delete keeps the counters exact.
LEMMA DeleteRoom ==
  ASSUME BoundAssumption, LimitAssumption, NEW F \in StateMap, NEW C, Roomy(F, C), NEW D
  PROVE  LET T == Delete([states |-> F, count |-> C], D)
         IN  /\ T.states \in StateMap /\ T.states = [i \in Id |-> IF i \in D THEN None ELSE F[i]]
             /\ Roomy(T.states, T.count)
<1> DEFINE S == [states |-> F, count |-> C]
<1> DEFINE G == [i \in Id |-> IF i \in D THEN None ELSE F[i]]
<1> DEFINE gone(o) == {i \in D \intersect Stored(S) : S.states[i].owner = o}
<1> DEFINE K == [o \in Owner |-> C[o] - Cardinality(gone(o))]
<1>1. Delete(S, D) = [states |-> G, count |-> K] BY DEF Delete
<1>2. G \in StateMap BY DEF StateMap
<1>3. \A i \in Id : G[i] = IF i \in D THEN None ELSE F[i] OBVIOUS
<1>4. \A o : gone(o) = Owned(F, o) \intersect D BY DEF Stored, Owned, Kept
<1>5. \A o \in Owner : K[o] = C[o] - Cardinality(Owned(F, o) \intersect D) BY <1>4
<1>6. K = [o \in Owner |-> K[o]] OBVIOUS
<1> HIDE DEF G, gone, K
<1>7. Kept(G) \in SUBSET Kept(F) /\ \A o : Owned(G, o) = Owned(F, o) \ D BY <1>3 DEF Kept, Owned
<1>8. ASSUME NEW o \in Owner PROVE K[o] \in Nat /\ K[o] = Cardinality(Owned(G, o)) /\ K[o] <= MaxPerOwner
  <2>1. C[o] \in Nat /\ C[o] = Cardinality(Owned(F, o)) /\ C[o] <= MaxPerOwner BY DEF Roomy
  <2>2. IsFiniteSet(Owned(F, o)) BY KeptIsFinite
  <2>3. Cardinality(Owned(F, o) \ D) = Cardinality(Owned(F, o)) - Cardinality(Owned(F, o) \intersect D)
    BY <2>2, FS_Difference
  <2>4. Cardinality(Owned(G, o)) \in Nat /\ Cardinality(Owned(G, o)) <= Cardinality(Owned(F, o))
    <3>1. Owned(G, o) \in SUBSET Owned(F, o) BY <1>7
    <3> QED BY <2>2, <3>1, FS_Subset, FS_CardinalityType
  <2>5. MaxPerOwner \in Nat BY DEF LimitAssumption
  <2> QED BY <1>5, <1>7, <2>1, <2>3, <2>4, <2>5
<1>9. Cardinality(Kept(G)) <= MaxPending
  <2>1. IsFiniteSet(Kept(F)) /\ Cardinality(Kept(F)) \in Nat /\ Cardinality(Kept(G)) \in Nat BY KeptIsFinite
  <2>2. Cardinality(Kept(G)) <= Cardinality(Kept(F)) BY <1>7, <2>1, FS_Subset
  <2> QED BY <2>1, <2>2 DEF Roomy, LimitAssumption
<1>10. Roomy(G, K) BY <1>6, <1>8, <1>9 DEF Roomy
<1> QED BY <1>1, <1>2, <1>10 DEF G

\* A state that changes its phase keeps its place.
LEMMA SamePlaces ==
  ASSUME NEW F, NEW G, NEW C, Roomy(F, C),
         \A i \in Id : (G[i] = None <=> F[i] = None) /\ (F[i] # None => G[i].owner = F[i].owner)
  PROVE  Roomy(G, C)
<1>1. Kept(G) = Kept(F) BY DEF Kept
<1>2. \A o : Owned(G, o) = Owned(F, o) BY <1>1 DEF Owned, Kept
<1> QED BY <1>1, <1>2 DEF Roomy

\* consume moves a state to "processing" in its place.
LEMMA ConsumedRoom ==
  ASSUME LimitAssumption, ContextAssumption, StoreInv, NEW i \in Id, states[i] # None
  PROVE  LET S == Consumed(Store, i)
         IN  /\ S = [states |-> S.states, count |-> count] /\ S.states \in StateMap
             /\ Roomy(S.states, count)
             /\ S.states[i] # None /\ S.states[i].phase = "processing" /\ S.states[i].result = states[i].result
             /\ \A j \in Id : j # i => S.states[j] = states[j]
<1> DEFINE o == [states[i] EXCEPT !.phase = "processing", !.expires = now + StateLife]
<1> DEFINE F == [states EXCEPT ![i] = o]
<1>1. states[i] \in States /\ now + StateLife \in Int
  BY DEF StoreInv, LoginInv, StateMap, LimitAssumption
<1>2. o \in States /\ o.phase = "processing" /\ o.owner = states[i].owner /\ o.result = states[i].result
  BY <1>1 DEF States
<1> HIDE DEF o
<1>3. F \in StateMap /\ F[i] = o /\ \A j \in Id : j # i => F[j] = states[j]
  BY <1>2 DEF StoreInv, LoginInv, StateMap
<1>4. Consumed(Store, i) = [states |-> F, count |-> count] BY DEF Consumed, Store, o
<1> HIDE DEF F
<1>5. F[i] # None BY <1>2, <1>3 DEF ContextAssumption
<1>6. Roomy(F, count) BY <1>2, <1>3, <1>5, SamePlaces DEF StoreInv
<1> QED BY <1>2, <1>3, <1>4, <1>5, <1>6

\* complete stores the result, for a client on another origin only, or frees the place.
LEMMA CompleteRoom ==
  ASSUME BoundAssumption, LimitAssumption, ContextAssumption, now \in Nat,
         NEW F \in StateMap, NEW C, Roomy(F, C), NEW i \in Id, NEW r \in {"ok", "error", "denied"},
         F[i] # None => F[i].phase # "complete" /\ F[i].result = None
  PROVE  LET T == Complete([states |-> F, count |-> C], i, r)
         IN  /\ T.states \in StateMap /\ Roomy(T.states, T.count)
             /\ Shaped(T.states[i], r) /\ \A j \in Id : j # i => T.states[j] = F[j]
<1> DEFINE S == [states |-> F, count |-> C]
<1>1. CASE F[i] = None \/ F[i].phase # "processing"
  <2>1. Complete(S, i, r) = S BY <1>1 DEF Complete
  <2> QED BY <2>1 DEF Shaped
<1>2. CASE Complete(S, i, r) = Delete(S, {i})
  <2> DEFINE T == Delete(S, {i})
  <2>1. /\ T.states \in StateMap /\ T.states = [j \in Id |-> IF j \in {i} THEN None ELSE F[j]]
        /\ Roomy(T.states, T.count)
    BY DeleteRoom
  <2> HIDE DEF T
  <2>2. T.states[i] = None /\ \A j \in Id : j # i => T.states[j] = F[j] BY <2>1
  <2> QED BY <1>2, <2>1, <2>2 DEF T, Shaped
<1>3. CASE F[i] # None /\ F[i].phase = "processing" /\ Complete(S, i, r) # Delete(S, {i})
  <2> DEFINE o == [F[i] EXCEPT !.phase = "complete", !.expires = now + StateLife, !.result = r]
  <2> DEFINE G == [F EXCEPT ![i] = o]
  <2>1. F[i] \in States /\ now + StateLife \in Int /\ r \in Results
    BY <1>3 DEF StateMap, LimitAssumption, Results
  <2>2. o \in States /\ o.phase = "complete" /\ o.owner = F[i].owner /\ o.ctx = F[i].ctx /\ o.result = r
    BY <2>1 DEF States
  <2>3. F[i].ctx \notin SameOrigin /\ Complete(S, i, r) = [S EXCEPT !.states[i] = o] BY <1>3 DEF Complete
  <2>4. [S EXCEPT !.states[i] = o] = [states |-> G, count |-> C] OBVIOUS
  <2> HIDE DEF o
  <2>5. G \in StateMap /\ G[i] = o /\ \A j \in Id : j # i => G[j] = F[j] BY <2>2 DEF StateMap
  <2> HIDE DEF G
  <2>6. G[i] # None BY <2>2, <2>5 DEF ContextAssumption
  <2>7. Roomy(G, C) BY <1>3, <2>2, <2>5, <2>6, SamePlaces
  <2>8. Shaped(G[i], r) BY <2>2, <2>3, <2>5 DEF Shaped, BoundAssumption
  <2> QED BY <2>3, <2>4, <2>5, <2>7, <2>8
<1> QED BY <1>1, <1>2, <1>3

\* What a step may do to a completed state.
Leaves(i) ==
  states'[i] = states[i] \/ polled'[i] = polled[i] + 1 \/ now >= states[i].expires \/ stops' # stops

\* A step that moves one state.
LEMMA OneMoves ==
  ASSUME StoreInv, LoginInv', UNCHANGED stops, full' = None, NEW i \in Id, answer' \in [Id -> Results],
         \A j \in Id : j # i => states'[j] = states[j] /\ answer'[j] = answer[j],
         \A j \in Id : j # i /\ j \in running' \union orphaned' => j \in running \union orphaned,
         running' \intersect orphaned' = {}, Roomy(states, count)',
         Shaped(states'[i], answer'[i]), Quiet(i)',
         states[i] # None /\ states[i].phase = "complete" => Leaves(i)
  PROVE  StoreInv' /\ ResultIsKeptStep
<1>1. ASSUME NEW j \in Id PROVE Shaped(states'[j], answer'[j]) /\ Quiet(j)'
  BY DEF StoreInv, Shaped, Quiet
<1>2. StoreInv' BY <1>1 DEF StoreInv
<1>3. ASSUME NEW j \in Id, states[j] # None, states[j].phase = "complete"
      PROVE  states[j].result = answer[j] /\ Leaves(j)
  <2>1. Shaped(states[j], answer[j]) BY DEF StoreInv
  <2>2. states[j].result = answer[j] BY <1>3, <2>1 DEF Shaped
  <2>3. CASE j = i BY <1>3, <2>2, <2>3
  <2>4. CASE j # i BY <2>2, <2>4 DEF Leaves
  <2> QED BY <2>3, <2>4
<1> QED BY <1>2, <1>3 DEF ResultIsKeptStep, Leaves

\* A callback that ends without an exchange.
LEMMA EndNowStore ==
  ASSUME BoundAssumption, LimitAssumption, ContextAssumption, StoreInv, LoginInv',
         NEW i \in Id, states[i] # None, IsIssued(i), NEW r \in {"ok", "error", "denied"}, EndNow(i, r),
         UNCHANGED <<stops, orphaned>>, full' = None
  PROVE  StoreInv' /\ ResultIsKeptStep
<1> DEFINE S == Consumed(Store, i)
<1> DEFINE F == S.states
<1>1. /\ S = [states |-> F, count |-> count] /\ F \in StateMap /\ Roomy(F, count)
      /\ F[i] # None /\ F[i].phase = "processing" /\ F[i].result = states[i].result
      /\ \A j \in Id : j # i => F[j] = states[j]
  BY ConsumedRoom
<1>2. Shaped(states[i], answer[i]) /\ StateOnce(i) /\ now \in Nat BY DEF StoreInv, LoginInv
<1>3. states[i].result = None /\ i \notin running \union orphaned
  BY <1>2 DEF IsIssued, Shaped, StateOnce
<1>4. SetStore(Complete(S, i, r)) /\ answer' = [answer EXCEPT ![i] = r] /\ UNCHANGED running
  BY DEF EndNow
<1> HIDE DEF S, F
<1> DEFINE T == Complete([states |-> F, count |-> count], i, r)
<1>5. /\ T.states \in StateMap /\ Roomy(T.states, T.count)
      /\ Shaped(T.states[i], r) /\ \A j \in Id : j # i => T.states[j] = F[j]
  BY <1>1, <1>2, <1>3, CompleteRoom
<1>6. states' = T.states /\ count' = T.count BY <1>1, <1>4 DEF SetStore
<1> HIDE DEF T
<1>7. answer' \in [Id -> Results] /\ answer'[i] = r /\ \A j \in Id : j # i => answer'[j] = answer[j]
  BY <1>4 DEF StoreInv, Results
<1>8. Shaped(states'[i], answer'[i]) /\ Quiet(i)' BY <1>3, <1>4, <1>5, <1>6, <1>7 DEF Quiet
<1>9. Roomy(states, count)' BY <1>5, <1>6 DEF Roomy, Owned, Kept
<1>10. running' \intersect orphaned' = {} BY <1>4 DEF StoreInv
<1> QED BY <1>1, <1>4, <1>5, <1>6, <1>7, <1>8, <1>9, <1>10, OneMoves DEF IsIssued

\* A callback that begins an exchange.
LEMMA BeginStore ==
  ASSUME BoundAssumption, LimitAssumption, ContextAssumption, StoreInv, LoginInv',
         NEW i \in Id, states[i] # None, IsIssued(i), BeginExchange(i), UNCHANGED <<stops, orphaned>>, full' = None
  PROVE  StoreInv' /\ ResultIsKeptStep
<1>1. CASE EndNow(i, "error") BY <1>1, EndNowStore
<1>2. CASE ~EndNow(i, "error")
  <2> DEFINE S == Consumed(Store, i)
  <2> DEFINE F == S.states
  <2>1. SetStore(S) /\ running' = running \union {i} /\ UNCHANGED answer BY <1>2 DEF BeginExchange
  <2>2. /\ S = [states |-> F, count |-> count] /\ F \in StateMap /\ Roomy(F, count)
        /\ F[i] # None /\ F[i].phase = "processing" /\ F[i].result = states[i].result
        /\ \A j \in Id : j # i => F[j] = states[j]
    BY ConsumedRoom
  <2> HIDE DEF S
  <2>3. states' = F /\ count' = count BY <2>1, <2>2 DEF SetStore
  <2> HIDE DEF F
  <2>4. Shaped(states[i], answer[i]) /\ StateOnce(i) BY DEF StoreInv, LoginInv
  <2>5. Shaped(states'[i], answer'[i]) /\ Quiet(i)' /\ i \notin orphaned
    BY <2>1, <2>2, <2>3, <2>4 DEF IsIssued, Shaped, Quiet, StateOnce
  <2>6. Roomy(states, count)' BY <2>2, <2>3 DEF Roomy, Owned, Kept
  <2>7. running' \intersect orphaned' = {} /\ answer' \in [Id -> Results] BY <2>1, <2>5 DEF StoreInv
  <2> QED BY <2>1, <2>2, <2>3, <2>5, <2>6, <2>7, OneMoves DEF IsIssued
<1> QED BY <1>1, <1>2

\* A state that expired is removed instead.
LEMMA ExpiredStore ==
  ASSUME BoundAssumption, LimitAssumption, ContextAssumption, StoreInv, LoginInv', NEW i \in Id,
         SetStore(Delete(Store, {i})), UNCHANGED <<stops, running, orphaned, answer>>, full' = None,
         Expired(Store, i) \/ polled'[i] = polled[i] + 1
  PROVE  StoreInv' /\ ResultIsKeptStep
<1> DEFINE T == Delete([states |-> states, count |-> count], {i})
<1>1. /\ T.states = [j \in Id |-> IF j \in {i} THEN None ELSE states[j]] /\ Roomy(T.states, T.count)
  BY DeleteRoom DEF StoreInv, LoginInv
<1>2. states' = T.states /\ count' = T.count BY DEF SetStore, Store
<1> HIDE DEF T
<1>3. states'[i] = None /\ \A j \in Id : j # i => states'[j] = states[j] BY <1>1, <1>2
<1>4. Shaped(states'[i], answer'[i]) /\ Quiet(i)' BY <1>3 DEF Shaped, Quiet
<1>5. Roomy(states, count)' BY <1>1, <1>2 DEF Roomy, Owned, Kept
<1>6. Leaves(i) BY DEF Leaves, Expired, Store
<1>7. running' \intersect orphaned' = {} /\ answer' \in [Id -> Results] BY DEF StoreInv
<1> QED BY <1>3, <1>4, <1>5, <1>6, <1>7, OneMoves

\* Every callback keeps the store, and a result that waits in it.
LEMMA CallbackStore ==
  ASSUME BoundAssumption, LimitAssumption, ContextAssumption, StoreInv, NEW i \in Id, NEW c, NEW bound,
         NEW query \in {"error", "none", "code"}, Callback(i, c, bound, query)
  PROVE  StoreInv' /\ ResultIsKeptStep
<1>1. states[i] # None /\ full' = None /\ UNCHANGED <<stops, orphaned>> BY DEF Callback
<1>2. LoginInv' BY CallbackStep DEF StoreInv
<1>3. CASE Expired(Store, i)
  <2>1. SetStore(Delete(Store, {i})) /\ UNCHANGED <<running, answer>> BY <1>3 DEF Callback
  <2> QED BY <1>1, <1>2, <1>3, <2>1, ExpiredStore
<1>4. CASE ~Expired(Store, i)
  <2>1. IsIssued(i) /\ (EndNow(i, "denied") \/ EndNow(i, "error") \/ BeginExchange(i)) BY <1>4 DEF Callback
  <2> QED BY <1>1, <1>2, <2>1, EndNowStore, BeginStore
<1> QED BY <1>3, <1>4

\* The end of an exchange completes a state that is not completed yet.
LEMMA ExchangeEndsStore ==
  ASSUME BoundAssumption, LimitAssumption, ContextAssumption, StoreInv, NEW i \in Id, NEW r \in {"ok", "error"},
         ExchangeEnds(i, r)
  PROVE  StoreInv' /\ ResultIsKeptStep
<1> DEFINE T == Complete([states |-> states, count |-> count], i, r)
<1>1. LoginInv' BY ExchangeEndsStep DEF StoreInv
<1>2. /\ running' \subseteq running /\ orphaned' \subseteq orphaned
      /\ i \in running \union orphaned /\ i \notin running' \union orphaned'
  BY DEF ExchangeEnds, StoreInv
<1>3. Shaped(states[i], answer[i]) /\ Quiet(i) /\ states \in StateMap /\ now \in Nat /\ Roomy(states, count)
  BY DEF StoreInv, LoginInv
<1>4. states[i] # None => states[i].phase # "complete" /\ states[i].result = None
  BY <1>2, <1>3 DEF Quiet, Shaped
<1>5. /\ Roomy(T.states, T.count)
      /\ Shaped(T.states[i], r) /\ \A j \in Id : j # i => T.states[j] = states[j]
  BY <1>3, <1>4, CompleteRoom
<1>6. states' = T.states /\ count' = T.count BY DEF ExchangeEnds, SetStore, CompleteResult, Store
<1> HIDE DEF T
<1>7. UNCHANGED stops /\ full' = None /\ answer' = [answer EXCEPT ![i] = r] BY DEF ExchangeEnds
<1>8. answer' \in [Id -> Results] /\ answer'[i] = r /\ \A j \in Id : j # i => answer'[j] = answer[j]
  BY <1>7 DEF StoreInv, Results
<1>9. Shaped(states'[i], answer'[i]) /\ Quiet(i)' BY <1>2, <1>5, <1>6, <1>8 DEF Quiet
<1>10. Roomy(states, count)' BY <1>5, <1>6 DEF Roomy, Owned, Kept
<1>11. running' \intersect orphaned' = {} BY <1>2 DEF StoreInv
<1> QED BY <1>1, <1>2, <1>4, <1>5, <1>6, <1>7, <1>8, <1>9, <1>10, <1>11, OneMoves

\* A poll takes a result only by handing it out.
LEMMA PollStore ==
  ASSUME BoundAssumption, LimitAssumption, ContextAssumption, StoreInv, NEW i \in Id, NEW c, NEW bound,
         Poll(i, c, bound)
  PROVE  StoreInv' /\ ResultIsKeptStep
<1>1. LoginInv' BY PollStep DEF StoreInv
<1>2. SetStore(Delete(Store, {i})) /\ full' = None /\ UNCHANGED <<stops, running, orphaned, answer>>
  BY DEF Poll, TakeResult
<1>3. Expired(Store, i) \/ polled'[i] = polled[i] + 1
  <2>1. ~Expired(Store, i) => polled' = [polled EXCEPT ![i] = @ + 1] BY DEF Poll
  <2> QED BY <2>1 DEF StoreInv, LoginInv
<1> QED BY <1>1, <1>2, <1>3, ExpiredStore

\* issue turns a client away only after it has removed what expired.
LEMMA IssueStore ==
  ASSUME BoundAssumption, LimitAssumption, ContextAssumption, StoreInv, NEW o \in Owner, NEW c \in Context,
         Issue(o, c)
  PROVE  StoreInv' /\ ResultIsKeptStep
<1> DEFINE D == {i \in Stored(Store) : Expired(Store, i)}
<1> DEFINE S == Delete([states |-> states, count |-> count], D)
<1> DEFINE F == S.states
<1> DEFINE C == S.count
<1> DEFINE e == [ctx |-> c, owner |-> o, phase |-> "issued", expires |-> now + StateLife, result |-> None]
<1>1. LoginInv' BY IssueStep DEF StoreInv
<1>2. /\ F \in StateMap /\ F = [i \in Id |-> IF i \in D THEN None ELSE states[i]] /\ Roomy(F, C)
  BY DeleteRoom DEF StoreInv, LoginInv
<1>3. PruneExpired(Store) = S /\ S = [states |-> F, count |-> C] BY DEF PruneExpired, Store, Delete
<1>4. UNCHANGED <<stops, running, orphaned, answer, now>> /\ nextId <= MaxIds BY DEF Issue
<1>5. \/ states' = F /\ count' = C /\ full' = o
      \/ /\ ~Full(S) /\ ~OwnerFull(S, o) /\ full' = None
         /\ states' = [F EXCEPT ![nextId] = e] /\ count' = [C EXCEPT ![o] = @ + 1]
  BY <1>3 DEF Issue, SetStore
<1>6. e \in States /\ e.owner = o /\ e.phase = "issued" /\ e.result = None
  <2>1. now + StateLife \in Int BY DEF StoreInv, LoginInv, LimitAssumption
  <2> QED BY <2>1 DEF States, Results
<1>7. e # None BY <1>6 DEF ContextAssumption
<1>8. \A i \in Id : F[i] = states[i] \/ (F[i] = None /\ states[i] # None /\ now >= states[i].expires)
  BY <1>2 DEF Stored, Expired, Store
<1>9. \A i \in Id : F[i] # None => F[i] = states[i] /\ ~(now >= states[i].expires)
  BY <1>2 DEF Stored, Expired, Store
<1>10. \A i \in Kept(F) : now < F[i].expires
  <2>1. \A i \in Kept(F) : F[i] \in States /\ F[i] = states[i] /\ ~(now >= states[i].expires)
    BY <1>2, <1>9 DEF Kept, StateMap
  <2> QED BY <2>1 DEF StoreInv, LoginInv, States
<1>11. Cardinality(Stored(S)) = Cardinality(Kept(F)) BY DEF Stored, Kept
<1> HIDE DEF F, C, S, e, D
<1>12. nextId \in Id /\ states[nextId] = None
  <2>1. nextId \in Id BY <1>4 DEF StoreInv, LoginInv, Id, BoundAssumption
  <2>2. StateOnce(nextId) BY <2>1 DEF StoreInv, LoginInv
  <2>3. nextId >= nextId BY DEF StoreInv, LoginInv
  <2> QED BY <2>1, <2>2, <2>3 DEF StateOnce
<1>13. \A i \in Id : states[i] # None /\ states[i].phase = "complete" => states[i].result = answer[i]
  BY DEF StoreInv, Shaped
<1>14. CASE states' = F /\ count' = C /\ full' = o
  <2>1. \A i \in Id : Shaped(states'[i], answer'[i]) /\ Quiet(i)'
    BY <1>4, <1>8, <1>14 DEF StoreInv, Shaped, Quiet
  <2>2. Roomy(states, count)' BY <1>2, <1>14 DEF Roomy, Owned, Kept
  <2>3. \A i \in Live' : now' < states'[i].expires BY <1>4, <1>10, <1>14 DEF Live, Kept
  <2>4. StoreInv' BY <1>1, <1>4, <2>1, <2>2, <2>3 DEF StoreInv
  <2> QED BY <1>8, <1>13, <1>14, <2>4 DEF ResultIsKeptStep
<1>15. CASE /\ ~Full(S) /\ ~OwnerFull(S, o) /\ full' = None
            /\ states' = [F EXCEPT ![nextId] = e] /\ count' = [C EXCEPT ![o] = @ + 1]
  <2>1. F[nextId] = None /\ states'[nextId] = e /\ \A i \in Id : i # nextId => states'[i] = F[i]
    BY <1>2, <1>8, <1>12, <1>15 DEF StateMap
  <2>2. \A i \in Id : Shaped(states'[i], answer'[i]) /\ Quiet(i)'
    BY <1>4, <1>6, <1>8, <2>1 DEF StoreInv, Shaped, Quiet
  <2>3. Roomy(states', count')
    <3>1. Kept(states') = Kept(F) \union {nextId} /\ nextId \notin Kept(F) BY <1>7, <1>12, <2>1 DEF Kept
    <3>2. Owned(states', o) = Owned(F, o) \union {nextId} /\ nextId \notin Owned(F, o)
      BY <1>6, <2>1, <3>1 DEF Owned, Kept
    <3>3. \A q : q # o => Owned(states', q) = Owned(F, q) BY <1>6, <2>1, <3>1 DEF Owned, Kept
    <3>4. /\ Cardinality(Kept(states')) = Cardinality(Kept(F)) + 1
          /\ Cardinality(Owned(states', o)) = Cardinality(Owned(F, o)) + 1
      BY <3>1, <3>2, KeptIsFinite, FS_AddElement
    <3>5. Cardinality(Kept(F)) < MaxPending /\ C[o] < MaxPerOwner /\ C[o] \in Nat
      <4>1. Cardinality(Kept(F)) \in Nat /\ C[o] \in Nat BY <1>2, KeptIsFinite DEF Roomy
      <4>2. MaxPending \in Nat /\ MaxPerOwner \in Nat BY DEF LimitAssumption
      <4>3. S.count[o] = C[o] BY DEF C
      <4> QED BY <1>11, <1>15, <4>1, <4>2, <4>3 DEF Full, OwnerFull
    <3>6. /\ count' \in [Owner -> Nat] /\ count'[o] = C[o] + 1 /\ \A q \in Owner : q # o => count'[q] = C[q]
      BY <1>2, <1>15, <3>5 DEF Roomy
    <3>7. ASSUME NEW q \in Owner PROVE count'[q] = Cardinality(Owned(states', q)) /\ count'[q] <= MaxPerOwner
      <4>1. C[q] = Cardinality(Owned(F, q)) /\ C[q] <= MaxPerOwner BY <1>2 DEF Roomy
      <4>2. CASE q = o BY <3>4, <3>5, <3>6, <4>1, <4>2 DEF LimitAssumption
      <4>3. CASE q # o BY <3>3, <3>6, <4>1, <4>3
      <4> QED BY <4>2, <4>3
    <3>8. Cardinality(Kept(states')) <= MaxPending
      <4>1. Cardinality(Kept(F)) \in Nat BY KeptIsFinite
      <4> QED BY <3>4, <3>5, <4>1 DEF LimitAssumption
    <3> QED BY <3>6, <3>7, <3>8 DEF Roomy
  <2>4. Roomy(states, count)' BY <2>3 DEF Roomy, Owned, Kept
  <2>5. StoreInv' BY <1>1, <1>4, <1>15, <2>2, <2>4 DEF StoreInv
  <2>6. \A i \in Id : states[i] # None => i # nextId BY <1>12
  <2> QED BY <1>8, <1>13, <2>1, <2>5, <2>6 DEF ResultIsKeptStep
<1> QED BY <1>5, <1>14, <1>15

\* A stop empties the store, and time changes nothing in it.
LEMMA StopStore ==
  ASSUME BoundAssumption, LimitAssumption, ContextAssumption, StoreInv, Stop
  PROVE  StoreInv' /\ ResultIsKeptStep
<1>1. LoginInv' BY StopStep DEF StoreInv
<1>2. /\ states' = NoStates /\ count' = [o \in Owner |-> 0] /\ full' = None /\ stops' = stops + 1
      /\ running' = {} /\ UNCHANGED answer
  BY DEF Stop, Clear
<1>3. \A i \in Id : states'[i] = None BY <1>2 DEF NoStates
<1>4. \A i \in Id : Shaped(states'[i], answer'[i]) /\ Quiet(i)' BY <1>3 DEF Shaped, Quiet
<1>5. Roomy(states, count)'
  <2>1. Kept(states') = {} /\ \A o : Owned(states', o) = {} BY <1>3 DEF Kept, Owned
  <2>2. Roomy(states', count') BY <1>2, <2>1, FS_EmptySet DEF Roomy, LimitAssumption
  <2> QED BY <2>2 DEF Roomy, Owned, Kept
<1>6. stops \in Nat /\ stops' # stops BY <1>2 DEF StoreInv
<1>7. StoreInv' BY <1>1, <1>2, <1>4, <1>5, <1>6 DEF StoreInv
<1>8. \A i \in Id : states[i] # None /\ states[i].phase = "complete" => states[i].result = answer[i]
  BY DEF StoreInv, Shaped
<1> QED BY <1>6, <1>7, <1>8 DEF ResultIsKeptStep

\* StoreInv is inductive, and no step loses a result that waits.
LEMMA StoreStep ==
  ASSUME BoundAssumption, LimitAssumption, ContextAssumption, StoreInv, [Next]_vars
  PROVE  StoreInv' /\ [ResultIsKeptStep]_vars
<1>1. CASE \E o \in Owner, c \in Context : Issue(o, c) BY <1>1, IssueStore
<1>2. CASE \E i \in Id, c \in Context, bound \in BOOLEAN, query \in {"error", "none", "code"} : Callback(i, c, bound, query)
  BY <1>2, CallbackStore
<1>3. CASE \E i \in Id : EndSome(i) BY <1>3, ExchangeEndsStore DEF EndSome
<1>4. CASE \E i \in Id, c \in Context, bound \in BOOLEAN : Poll(i, c, bound) BY <1>4, PollStore
<1>5. CASE Stop BY <1>5, StopStore
<1>6. ASSUME LoginInv', UNCHANGED <<states, count, running, orphaned, stops, answer>>,
             full' = None \/ UNCHANGED <<full, now>>
      PROVE  StoreInv' /\ ResultIsKeptStep
  <2>1. \A i \in Id : Shaped(states[i], answer[i])' /\ Quiet(i)' BY <1>6 DEF StoreInv, Shaped, Quiet
  <2>2. Roomy(states, count)' BY <1>6 DEF StoreInv, Roomy, Owned, Kept
  <2>3. full' # None => \A i \in Live' : now' < states'[i].expires BY <1>6 DEF StoreInv, Live
  <2>4. \A i \in Id : states[i] # None /\ states[i].phase = "complete" => states[i].result = answer[i]
    BY DEF StoreInv, Shaped
  <2>5. ResultIsKeptStep BY <1>6, <2>4 DEF ResultIsKeptStep
  <2> QED BY <1>6, <2>1, <2>2, <2>3, <2>5 DEF StoreInv
<1>7. CASE Tick
  <2>1. LoginInv' BY <1>7, LoginNext DEF StoreInv, Next
  <2> QED BY <1>6, <1>7, <2>1 DEF Tick, store, budget
<1>8. CASE UNCHANGED vars
  <2>1. LoginInv' BY <1>8, LoginNext DEF StoreInv
  <2> QED BY <1>6, <1>8, <2>1 DEF vars, store, budget
<1> QED BY <1>1, <1>2, <1>3, <1>4, <1>5, <1>7, <1>8 DEF Next

\* WindowInv is inductive: every exchange is entered in starts and log together.
LEMMA WindowStep ==
  ASSUME LimitAssumption, ContextAssumption, LoginInv, WindowInv, [Next]_vars
  PROVE  WindowInv'
<1>1. now \in Nat BY DEF LoginInv
<1>2. ASSUME UNCHANGED <<starts, startsBy, log>>, now' = now \/ now' = now + 1 PROVE WindowInv'
  BY <1>1, <1>2, WindowsPass
<1>3. ASSUME NEW i \in Id, NEW c, NEW bound, NEW query \in {"error", "none", "code"}, Callback(i, c, bound, query)
      PROVE  WindowInv'
  <2>1. UNCHANGED now /\ states[i] # None BY <1>3 DEF Callback
  <2>2. CASE UNCHANGED <<starts, startsBy, log>> BY <1>2, <2>1, <2>2
  <2>3. CASE ~UNCHANGED <<starts, startsBy, log>>
    <3>1. BeginExchange(i) /\ ~UNCHANGED <<budget, log>> BY <1>3, <2>3 DEF Callback, EndNow, budget
    <3>2. inFlight < MaxExchanges \/ ~(inFlight >= MaxExchanges) BY <3>1 DEF BeginExchange, EndNow
    <3>3. CASE RateAllows(states[i].owner)
      <4>1. ReserveAuthExchange(states[i].owner) /\ log' = Append(log, <<states[i].owner, now>>)
        BY <3>1, <3>3 DEF BeginExchange, EndNow
      <4>2. states[i].owner \in Owner BY <2>1 DEF LoginInv, StateMap, States
      <4> QED BY <1>1, <2>1, <3>3, <4>1, <4>2, WindowsBegin
    <3>4. CASE ~RateAllows(states[i].owner)
      <4>1. starts' = PrunedStarts /\ startsBy' = PrunedStartsBy /\ UNCHANGED log
        BY <3>1, <3>4 DEF BeginExchange, EndNow
      <4> QED BY <1>1, <2>1, <4>1, WindowsPass
    <3> QED BY <3>3, <3>4
  <2> QED BY <2>2, <2>3
<1>4. CASE Stop
  <2>1. log' = <<>> /\ starts' = <<>> /\ startsBy' = [o \in Owner |-> <<>>] /\ UNCHANGED now BY <1>4 DEF Stop
  <2>2. WindowTypes' BY <2>1 DEF WindowTypes
  <2>3. \A o \in Owner : startsBy'[o] = <<>> BY <2>1
  <2>4. 0 <= GlobalLimit /\ 0 <= OwnerLimit BY DEF LimitAssumption
  <2> QED BY <2>1, <2>2, <2>3, <2>4, WindowsEmpty DEF WindowInv
<1>5. CASE \E o \in Owner, c \in Context : Issue(o, c) BY <1>2, <1>5 DEF Issue, budget
<1>6. CASE \E i \in Id : EndSome(i) BY <1>2, <1>6 DEF EndSome, ExchangeEnds
<1>7. CASE \E i \in Id, c \in Context, bound \in BOOLEAN : Poll(i, c, bound) BY <1>2, <1>7 DEF Poll, budget
<1>8. CASE Tick \/ UNCHANGED vars BY <1>2, <1>8 DEF Tick, vars, budget
<1> QED BY <1>3, <1>4, <1>5, <1>6, <1>7, <1>8 DEF Next

\* What holds of the store and of the windows in every state.
THEOREM LoginStoreInvariance ==
  ASSUME BoundAssumption, LimitAssumption, ContextAssumption
  PROVE  Spec => [](StoreInv /\ WindowInv)
<1>1. Init => StoreInv /\ WindowInv
  <2> SUFFICES ASSUME Init PROVE StoreInv /\ WindowInv OBVIOUS
  <2>1. LoginInv BY LoginInit
  <2>2. \A i \in Id : states[i] = None BY DEF Init, NoStates
  <2>3. Roomy(states, count)
    <3>1. Kept(states) = {} /\ \A o : Owned(states, o) = {} BY <2>2 DEF Kept, Owned
    <3>2. count = [o \in Owner |-> 0] BY DEF Init
    <3> QED BY <3>1, <3>2, FS_EmptySet DEF Roomy, LimitAssumption
  <2>4. StoreInv BY <2>1, <2>2, <2>3 DEF Init, StoreInv, Shaped, Quiet, Results
  <2>5. WindowInv
    <3>1. WindowTypes BY DEF Init, WindowTypes
    <3>2. \A o \in Owner : startsBy[o] = <<>> BY DEF Init
    <3>3. 0 <= GlobalLimit /\ 0 <= OwnerLimit BY DEF LimitAssumption
    <3>4. log = <<>> /\ starts = <<>> BY DEF Init
    <3> QED BY <3>1, <3>2, <3>3, <3>4, WindowsEmpty DEF WindowInv
  <2> QED BY <2>4, <2>5
<1>2. StoreInv /\ WindowInv /\ [Next]_vars => (StoreInv /\ WindowInv)'
  BY StoreStep, WindowStep DEF StoreInv
<1> QED BY <1>1, <1>2, PTL DEF Spec

\* A client's counter is the number of its states, over expiry in four places, completion, delivery
\* and restarts; nobody holds more states than the limits, and a login is turned away only by states that
\* can still be used.  A state has a result exactly when it waits for a client on another origin.
THEOREM LoginRoomCorrect ==
  ASSUME BoundAssumption, LimitAssumption, ContextAssumption
  PROVE  Spec => [](RoomIsAccounted /\ TypeOK)
<1>1. StoreInv /\ WindowInv => RoomIsAccounted /\ TypeOK
  <2> SUFFICES ASSUME StoreInv, WindowInv PROVE RoomIsAccounted /\ TypeOK OBVIOUS
  <2>1. Live = Kept(states) /\ \A o : {i \in Live : states[i].owner = o} = Owned(states, o)
    BY DEF Live, Kept, Owned
  <2>2. RoomIsAccounted BY <2>1 DEF StoreInv, Roomy, RoomIsAccounted
  <2>3. ASSUME NEW i \in Live
        PROVE  /\ states[i].phase \in {"issued", "processing", "complete"}
               /\ (states[i].phase = "complete") = (states[i].result # None)
               /\ states[i].phase = "complete" => states[i].ctx \notin SameOrigin
    <3>1. i \in Id /\ states[i] # None BY DEF Live
    <3>2. states[i] \in States /\ Shaped(states[i], answer[i]) BY <3>1 DEF StoreInv, LoginInv, StateMap
    <3> QED BY <3>1, <3>2 DEF States, Shaped
  <2>4. inFlight \in Nat BY FS_CardinalityType DEF StoreInv, LoginInv
  <2> QED BY <2>2, <2>3, <2>4 DEF TypeOK, StoreInv, WindowInv, WindowTypes, Roomy
<1> QED BY <1>1, LoginStoreInvariance, PTL

\* In any window, from any point in time on, neither one client nor all of them begin more exchanges than
\* their limits, although both lists of starts are pruned only when an exchange is asked for.
THEOREM ExchangesCorrect ==
  ASSUME BoundAssumption, LimitAssumption, ContextAssumption
  PROVE  Spec => []ExchangesAreLimited
<1>1. StoreInv /\ WindowInv => ExchangesAreLimited
  <2> SUFFICES ASSUME StoreInv, WindowInv PROVE ExchangesAreLimited OBVIOUS
  <2> DEFINE recent == {n \in DOMAIN log : log[n][2] + Window > now}
  <2>1. now \in Nat /\ Window \in Nat BY DEF StoreInv, LoginInv, LimitAssumption
  <2>2. \A n \in DOMAIN log : log[n][2] \in Nat BY DEF WindowInv, WindowTypes
  <2>3. recent = Begun(log, now - Window) BY <2>1, <2>2 DEF Begun
  <2>4. \A o \in Owner : {n \in recent : log[n][1] = o} = BegunBy(log, o, now - Window) BY <2>3 DEF BegunBy
  <2> HIDE DEF recent
  <2>5. Cardinality(recent) <= GlobalLimit BY <2>3 DEF WindowInv
  <2>6. \A o \in Owner : Cardinality({n \in recent : log[n][1] = o}) <= OwnerLimit BY <2>4 DEF WindowInv
  <2> QED BY <2>5, <2>6 DEF ExchangesAreLimited, StoreInv, LoginInv, recent
<1> QED BY <1>1, LoginStoreInvariance, PTL

\* A result that waits is the one its own callback reported, and leaves the store only by the poll that
\* hands it out, after its lifetime or with the module.
THEOREM ResultsAreKept ==
  ASSUME BoundAssumption, LimitAssumption, ContextAssumption
  PROVE  Spec => [][ResultIsKeptStep]_vars
<1>1. StoreInv /\ [Next]_vars => [ResultIsKeptStep]_vars BY StoreStep
<1> QED BY <1>1, LoginStoreInvariance, PTL DEF Spec
=============================================================================
