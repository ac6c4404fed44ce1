------------------------------ MODULE ZupassLogin ------------------------------
(***************************************************************************)
(* modules/zupass: the login flow around the proof verifier.  A login      *)
(* issues a challenge for a browser context; the callback consumes it,     *)
(* reserves a verification and, when the proof is valid, gets a token that *)
(* carries the id of the verifier policy; a session start presents the     *)
(* token.  The challenge store keeps four indexes and a rate budget per    *)
(* client address.  A configuration reload interrupts all verifications    *)
(* and then replaces the policy; a restart forgets everything but tokens.  *)
(***************************************************************************)
EXTENDS Integers, Sequences, FiniteSets

CONSTANTS
  Owner,           \* client addresses
  Context,         \* callback contexts (state, callback origin, client origin)
  MaxPending, MaxPerOwner, MaxIssues, MaxCallbacks, MaxRateOwners, RateWindow,
  ChallengeLife, TokenLife,
  Policy,          \* policy ids; a configuration may come back to an earlier one
  MaxIds, MaxTime, MaxReloads,
  None

LimitAssumption ==
  {MaxPending, MaxPerOwner, MaxIssues, MaxCallbacks, MaxRateOwners, RateWindow} \subseteq Nat \ {0}

VARIABLES
  now,
  policy,       \* verifierPolicy, or None
  reloading,    \* onConfigReload waits for the verifier
  ch,           \* challenges: id -> [ctx, owner, policy, expires] or None
  byContext,    \* challengeByContext: context -> id, 0 when absent
  count,        \* challengeCountByOwner
  idsOf,        \* challengeIdsByOwner
  budget,       \* rateBudgetByOwner: owner -> [issue, callback] (expiries) or None
  proving,      \* verifications in flight: [id, ctx, policy]
  tokens,       \* faucet tokens given out: [policy, issued]
  nextId, reloads,
  log,          \* ghost: times of the issues and callbacks let through since the last clear
  last          \* ghost: what the last step decided

store == <<ch, byContext, count, idsOf>>
vars == <<now, policy, reloading, store, budget, proving, tokens, nextId, reloads, log, last>>

Id == 1..MaxIds
Kind == {"issue", "callback"}
NoChallenges == [ch |-> [i \in Id |-> None], byContext |-> [c \in Context |-> 0],
                 count |-> [o \in Owner |-> 0], idsOf |-> [o \in Owner |-> {}]]
Store == [ch |-> ch, byContext |-> byContext, count |-> count, idsOf |-> idsOf]
SetStore(S) == ch' = S.ch /\ byContext' = S.byContext /\ count' = S.count /\ idsOf' = S.idsOf
NoLog == [o \in Owner |-> [issue |-> <<>>, callback |-> <<>>]]
Idle == [kind |-> "none"]

Init ==
  /\ now = 0 /\ policy \in Policy /\ reloading = FALSE
  /\ ch = NoChallenges.ch /\ byContext = NoChallenges.byContext
  /\ count = NoChallenges.count /\ idsOf = NoChallenges.idsOf
  /\ budget = [o \in Owner |-> None] /\ proving = {} /\ tokens = {}
  /\ nextId = 1 /\ reloads = 0 /\ log = NoLog /\ last = Idle

-----------------------------------------------------------------------------
(* ZupassChallengeStore *)

Stored(S) == {i \in Id : S.ch[i] # None}
\* delete, of every challenge in D that is stored
Delete(S, D) ==
  LET gone(o) == {i \in D \cap Stored(S) : S.ch[i].owner = o}
      left(o) == S.count[o] - Cardinality(gone(o))
  IN [ch |-> [i \in Id |-> IF i \in D THEN None ELSE S.ch[i]],
      byContext |-> [c \in Context |-> IF S.byContext[c] \in D THEN 0 ELSE S.byContext[c]],
      count |-> [o \in Owner |-> IF left(o) <= 0 THEN 0 ELSE left(o)],
      idsOf |-> [o \in Owner |-> IF gone(o) # {} /\ left(o) <= 0 THEN {} ELSE S.idsOf[o] \ gone(o)]]
Expired(S) == {i \in Stored(S) : now >= S.ch[i].expires}
PruneOwnerChallenges(S, o) == Delete(S, Expired(S) \cap S.idsOf[o])
PruneAllExpiredChallenges(S) == IF Cardinality(Stored(S)) >= MaxPending THEN Delete(S, Expired(S)) ELSE S

\* pruneRateBudget
PruneRateBudget(b) ==
  LET keep(s) == SelectSeq(s, LAMBDA e : e > now)
      p == [issue |-> keep(b.issue), callback |-> keep(b.callback)]
  IN IF p.issue = <<>> /\ p.callback = <<>> THEN None ELSE p
Pruned(B, o) == IF B[o] = None THEN B ELSE [B EXCEPT ![o] = PruneRateBudget(@)]
\* pruneExpiredRateOwners, when a new owner finds the table full
PruneExpiredRateOwners(B) == [o \in Owner |-> IF B[o] = None THEN None ELSE PruneRateBudget(B[o])]
RateOwners(B) == Cardinality({o \in Owner : B[o] # None})
Limit(k) == IF k = "issue" THEN MaxIssues ELSE MaxCallbacks
\* consumeRateBudget: the new table and whether the request may proceed
ConsumeRateBudget(o, k) ==
  LET own == Pruned(budget, o)
      room == IF own[o] = None /\ RateOwners(own) >= MaxRateOwners THEN PruneExpiredRateOwners(own) ELSE own
      mine == IF room[o] = None THEN [issue |-> <<>>, callback |-> <<>>] ELSE room[o]
  IN IF room[o] = None /\ RateOwners(room) >= MaxRateOwners THEN [ok |-> FALSE, budget |-> room]
     ELSE IF Len(mine[k]) >= Limit(k) THEN [ok |-> FALSE, budget |-> [room EXCEPT ![o] = mine]]
     ELSE [ok |-> TRUE, budget |-> [room EXCEPT ![o] = [mine EXCEPT ![k] = Append(@, now + RateWindow)]]]
Spend(o, k) ==
  /\ budget' = ConsumeRateBudget(o, k).budget
  /\ log' = IF ConsumeRateBudget(o, k).ok THEN [log EXCEPT ![o][k] = Append(@, now)] ELSE log

-----------------------------------------------------------------------------
(* Login and callback *)

\* issue: the store that the capacity checks look at
BeforeCheck(o, c) ==
  LET p == PruneOwnerChallenges(Store, o)
  IN PruneAllExpiredChallenges(IF p.byContext[c] = 0 THEN p ELSE Delete(p, {p.byContext[c]}))
Add(S, o, c) ==
  [ch |-> [S.ch EXCEPT ![nextId] = [ctx |-> c, owner |-> o, policy |-> policy, expires |-> now + ChallengeLife]],
   byContext |-> [S.byContext EXCEPT ![c] = nextId],
   count |-> [S.count EXCEPT ![o] = @ + 1], idsOf |-> [S.idsOf EXCEPT ![o] = @ \cup {nextId}]]
Full(S) == Cardinality(Stored(S)) >= MaxPending
OwnerFull(S, o) == S.count[o] >= MaxPerOwner
\* processZupassLogin: the URL of the proof request may fail to build, and then the
\* challenge is discarded.
ProcessZupassLogin(o, c) ==
  /\ policy # None /\ nextId <= MaxIds /\ Spend(o, "issue")
  /\ LET S == BeforeCheck(o, c)
     IN IF ~ConsumeRateBudget(o, "issue").ok
        THEN SetStore(PruneOwnerChallenges(Store, o)) /\ last' = [kind |-> "rate", owner |-> o] /\ UNCHANGED nextId
        ELSE IF Full(S) \/ OwnerFull(S, o)
        THEN SetStore(S) /\ last' = [kind |-> "full", owner |-> o] /\ UNCHANGED nextId
        ELSE /\ SetStore(Add(S, o, c)) \/ SetStore(S)
             /\ nextId' = nextId + 1 /\ last' = Idle
  /\ UNCHANGED <<now, policy, reloading, proving, tokens, reloads>>

Accepts(i, c) == now < ch[i].expires /\ ch[i].policy = policy /\ ch[i].ctx = c
Deletes(i) == now >= ch[i].expires \/ ch[i].policy # policy
\* consume, for a challenge that is stored
Consume(i, c) == IF Deletes(i) \/ Accepts(i, c) THEN Delete(Store, {i}) ELSE Store
\* validateZupassProof up to the await of verifyTicket: a rejected challenge, a verifier
\* that refuses (always while it is reloaded) or a ticket that does not match the challenge
\* and the policy end it at once.
BeginProof(i, c) ==
  \/ UNCHANGED proving
  \/ Accepts(i, c) /\ ~reloading /\ proving' = proving \cup {[id |-> i, ctx |-> c, policy |-> policy]}
ProcessZupassAuthCallback(o, c, i) ==
  /\ policy # None /\ i < nextId /\ Spend(o, "callback")
  /\ IF ~ConsumeRateBudget(o, "callback").ok
     THEN last' = [kind |-> "rate", owner |-> o] /\ UNCHANGED <<store, proving>>
     ELSE IF ch[i] = None THEN last' = Idle /\ UNCHANGED <<store, proving>>
     ELSE SetStore(Consume(i, c)) /\ last' = Idle /\ BeginProof(i, c)
  /\ UNCHANGED <<now, policy, reloading, tokens, nextId, reloads>>
\* createZupassTokenPayload
NewToken(p) == [policy |-> p, issued |-> now]
\* validateZupassProof after the await: the token carries the policy that was read before it
ValidateZupassProof(v) ==
  /\ proving' = proving \ {v}
  /\ \E valid \in BOOLEAN : tokens' = IF valid THEN tokens \cup {NewToken(v.policy)} ELSE tokens
  /\ last' = Idle
  /\ UNCHANGED <<now, policy, reloading, store, budget, nextId, reloads, log>>

\* parseZupassTokenPayload
TokenIsGood(t) == policy # None /\ t.policy = policy /\ now < t.issued + TokenLife
\* processSessionStart with a token
SessionStart(t) ==
  /\ last' = IF TokenIsGood(t) THEN [kind |-> "start", token |-> t] ELSE Idle
  /\ UNCHANGED <<now, policy, reloading, store, budget, proving, tokens, nextId, reloads, log>>

-----------------------------------------------------------------------------
(* Configuration, restart, time *)

Clear == SetStore(NoChallenges) /\ budget' = [o \in Owner |-> None] /\ log' = NoLog
\* Mutant: verifications go on during a reload.
InterruptNothing == UNCHANGED proving
Interrupt == proving' = {}
\* onConfigReload: the verifier is reloaded, which rejects every verification
ConfigReload ==
  /\ ~reloading /\ reloads < MaxReloads /\ reloading' = TRUE /\ reloads' = reloads + 1
  /\ Interrupt /\ last' = Idle
  /\ UNCHANGED <<now, policy, store, budget, tokens, nextId, log>>
\* buildZupassVerifierPolicy rejects an invalid configuration
BuildPolicy == Policy \cup {None}
\* applyVerifierPolicy, which may reject the configuration; a verifier that could not be
\* reloaded leaves the old policy.
ApplyVerifierPolicy ==
  /\ reloading /\ reloading' = FALSE /\ last' = Idle
  /\ \/ Clear /\ policy' \in BuildPolicy
     \/ UNCHANGED <<policy, store, budget, log>>
  /\ UNCHANGED <<now, proving, tokens, nextId, reloads>>
\* stopModule and a later startModule, or a restart of the process
Restart ==
  /\ reloads < MaxReloads /\ reloads' = reloads + 1
  /\ Clear /\ proving' = {} /\ policy' \in Policy /\ reloading' = FALSE /\ last' = Idle
  /\ UNCHANGED <<now, tokens, nextId>>
Tick ==
  /\ now < MaxTime /\ now' = now + 1 /\ last' = Idle
  /\ UNCHANGED <<policy, reloading, store, budget, proving, tokens, nextId, reloads, log>>

Next ==
  \/ \E o \in Owner, c \in Context : ProcessZupassLogin(o, c)
  \/ \E o \in Owner, c \in Context, i \in Id : ProcessZupassAuthCallback(o, c, i)
  \/ \E v \in proving : ValidateZupassProof(v)
  \/ \E t \in tokens : SessionStart(t)
  \/ ConfigReload \/ ApplyVerifierPolicy \/ Restart \/ Tick
Spec == Init /\ [][Next]_vars

-----------------------------------------------------------------------------
Live == {i \in Id : ch[i] # None}

\* The store holds what its types allow.
TypeOK ==
  /\ policy \in Policy \cup {None} /\ byContext \in [Context -> 0..MaxIds]
  /\ count \in [Owner -> 0..MaxPending] /\ idsOf \in [Owner -> SUBSET Id]
  /\ \A o \in Owner : IF budget[o] = None THEN TRUE ELSE budget[o].issue # <<>> \/ budget[o].callback # <<>>

\* The four indexes of the store agree: every challenge is the one of its context and is
\* counted and listed exactly under the address that asked for it.
IndexesAgree ==
  /\ \A c \in Context : byContext[c] # 0 => byContext[c] \in Live
  /\ \A i \in Live : byContext[ch[i].ctx] = i
  /\ \A o \in Owner : idsOf[o] = {i \in Live : ch[i].owner = o} /\ count[o] = Cardinality(idsOf[o])

\* The store is bounded, and it turns a login away for lack of room only while it is full of
\* challenges that can still be used, or the address has its share of them.
FullOfLiveChallenges ==
  /\ Cardinality(Live) <= MaxPending /\ \A o \in Owner : count[o] <= MaxPerOwner
  /\ last.kind = "full" => LET usable == {i \in Live : now < ch[i].expires}
                           IN \/ Cardinality(usable) >= MaxPending
                              \/ Cardinality({i \in usable : ch[i].owner = last.owner}) >= MaxPerOwner

\* Within any window an address gets no more than its share of challenges and callbacks,
\* also when other addresses push into a full table.
RateIsBounded ==
  \A o \in Owner, k \in Kind :
    Len(SelectSeq(log[o][k], LAMBDA t : t + RateWindow > now)) <= Limit(k)

\* A challenge is answered once, and a proof is never in flight across a change of policy.
ProofBelongsToPolicy ==
  /\ \A v \in proving : v.policy = policy /\ v.id \notin Live
  /\ \A v, w \in proving : v.id = w.id => v = w

\* A session is admitted only with a token whose proof was checked against the policy in
\* force when it starts, and before the token's lifetime has passed.
StartIsVerified ==
  last.kind = "start" => last.token.policy = policy /\ now - last.token.issued < TokenLife
=============================================================================
