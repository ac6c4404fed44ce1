-------------------------- MODULE RpcEndpointPool --------------------------
(***************************************************************************)
(* eth/RpcEndpointPool.ts: the pool of RPC endpoints behind the wallet.    *)
(* Health checks run beside each other and may be answered late and out of *)
(* order; the providers report errors and lost connections at any time;    *)
(* a lost connection is replaced after a delay; a transaction is sent to   *)
(* the best endpoints.  Clock intervals are abstracted: a check is due, or *)
(* a delay is over, at any moment.                                         *)
(***************************************************************************)
EXTENDS Integers, Sequences, FiniteSets, SequencesExt

CONSTANTS
  Endpoint,       \* configured endpoints
  Priority,       \* priority of the endpoint after normalizeConfig
  Position,       \* its place in the configured list
  MaxDiff,        \* ethRpcMaxBlockHeightDiff
  BroadcastCount, \* ethTxBroadcastCount
  MaxHeight, MaxChecks, MaxEvents   \* bounds

PoolAssumption ==
  /\ Priority \in [Endpoint -> Nat]
  /\ Position \in [Endpoint -> Nat] /\ \A e, f \in Endpoint : Position[e] = Position[f] => e = f
  /\ {MaxDiff, MaxHeight, MaxChecks, MaxEvents} \subseteq Nat /\ BroadcastCount \in Nat \ {0}

\* External: what the node behind an endpoint has.
VARIABLES
  remote,    \* endpoint -> [up, height]
  ep,        \* endpoint -> [online, height, lag, provider] of RpcEndpointState
  checks,    \* endpoint -> answers of the checks in flight
  timers,    \* endpoint -> pending recreateProvider timers
  disposed,
  sent,      \* targets of the broadcast in progress
  events     \* provider events so far

vars == <<remote, ep, checks, timers, disposed, sent, events>>

\* createEndpoint, and the first health check of initialize.
Init ==
  /\ remote = [e \in Endpoint |-> [up |-> TRUE, height |-> 1]]
  /\ ep = [e \in Endpoint |-> [online |-> FALSE, height |-> 0, lag |-> FALSE, provider |-> "open"]]
  /\ checks = [e \in Endpoint |-> <<1>>]
  /\ timers = [e \in Endpoint |-> 0]
  /\ disposed = FALSE
  /\ sent = {}
  /\ events = 0

-----------------------------------------------------------------------------
Online(state) == {e \in Endpoint : state[e].online}
Ready(state) == {e \in Endpoint : state[e].online /\ ~state[e].lag}

\* Mutant: only the endpoint that was checked is compared with the head.
LagOfOne(state, e) ==
  LET head == Max({0} \cup {state[f].height : f \in Online(state)})
  IN  [state EXCEPT ![e].lag = state[e].online /\ head > 0 /\ head - state[e].height > MaxDiff]
\* updateBlockLagStatus, after a check of e.
UpdateBlockLagStatus(state, e) ==
  LET head == Max({0} \cup {state[f].height : f \in Online(state)})
  IN  [f \in Endpoint |->
         [state[f] EXCEPT !.lag = state[f].online /\ head > 0 /\ head - state[f].height > MaxDiff]]

\* getReadyEndpoints, by priority, and the last resort of the callers, the list as it is
\* configured: the first BroadcastCount of them.
Before(e, f) ==
  \/ Ready(ep) # {} /\ Priority[e] > Priority[f]
  \/ (Ready(ep) = {} \/ Priority[e] = Priority[f]) /\ Position[e] < Position[f]
Candidates == IF Ready(ep) # {} THEN Ready(ep) ELSE Endpoint
Targets == {e \in Candidates : Cardinality({f \in Candidates : Before(f, e)}) < BroadcastCount}

-----------------------------------------------------------------------------
\* runMonitorTick: a due endpoint is asked for its block number; 0 stands for a failure.
MonitorTick(e) ==
  /\ ~disposed /\ Len(checks[e]) < MaxChecks
  /\ checks' = [checks EXCEPT ![e] = Append(@, IF remote[e].up /\ ep[e].provider = "open"
                                               THEN remote[e].height ELSE 0)]
  /\ UNCHANGED <<remote, ep, timers, disposed, sent, events>>

CheckFailed(state) == [state EXCEPT !.online = FALSE]
CheckPassed(state, height) == [state EXCEPT !.online = TRUE, !.height = height]

\* checkEndpoint after its await; the endpoints of a disposed pool are no longer listed.
CheckAnswered(e, i) ==
  /\ i \in 1..Len(checks[e])
  /\ LET h == checks[e][i]
         checked == [ep EXCEPT ![e] = IF h = 0 THEN CheckFailed(@) ELSE CheckPassed(@, h)]
     IN  ep' = IF disposed THEN ep ELSE UpdateBlockLagStatus(checked, e)
  /\ checks' = [checks EXCEPT ![e] = RemoveAt(@, i)]
  /\ UNCHANGED <<remote, timers, disposed, sent, events>>

\* attachProviderHandlers: an error event.
ProviderError(e) ==
  /\ events < MaxEvents /\ ep[e].provider = "open"
  /\ ep' = [ep EXCEPT ![e].online = FALSE]
  /\ events' = events + 1
  /\ UNCHANGED <<remote, checks, timers, disposed, sent>>

\* The connection ends; a new one is made after a delay.
ProviderEnd(e) ==
  /\ events < MaxEvents /\ ep[e].provider = "open"
  /\ ep' = [ep EXCEPT ![e].online = FALSE, ![e].provider = "ended"]
  /\ timers' = [timers EXCEPT ![e] = @ + 1]
  /\ events' = events + 1
  /\ UNCHANGED <<remote, checks, disposed, sent>>

MayRecreate == ~disposed

RecreateProvider(e) ==
  /\ timers[e] > 0
  /\ timers' = [timers EXCEPT ![e] = @ - 1]
  /\ ep' = IF MayRecreate THEN [ep EXCEPT ![e].provider = "open"] ELSE ep
  /\ UNCHANGED <<remote, checks, disposed, sent, events>>

\* dispose, from the shutdown or a reload of the wallet manager.
Dispose ==
  /\ ~disposed
  /\ disposed' = TRUE
  /\ ep' = [e \in Endpoint |-> [ep[e] EXCEPT !.online = FALSE, !.provider = "closed"]]
  /\ UNCHANGED <<remote, checks, timers, sent, events>>

-----------------------------------------------------------------------------
\* broadcastSendRawTransaction; it ends when every target has answered, with success if one accepted.
Broadcast ==
  /\ ~disposed /\ sent = {}
  /\ sent' = Targets
  /\ UNCHANGED <<remote, ep, checks, timers, disposed, events>>
Broadcasted ==
  /\ sent # {}
  /\ sent' = {}
  /\ UNCHANGED <<remote, ep, checks, timers, disposed, events>>

\* External: the nodes import blocks, one after the other, and go up and down.
Grow(e) ==
  /\ remote[e].height < MaxHeight
  /\ remote' = [remote EXCEPT ![e].height = @ + 1]
  /\ UNCHANGED <<ep, checks, timers, disposed, sent, events>>
Flip(e) ==
  /\ events < MaxEvents /\ events' = events + 1
  /\ remote' = [remote EXCEPT ![e].up = ~@]
  /\ UNCHANGED <<ep, checks, timers, disposed, sent>>

Next ==
  \/ \E e \in Endpoint : \/ MonitorTick(e) \/ ProviderError(e) \/ ProviderEnd(e) \/ RecreateProvider(e)
                         \/ Grow(e) \/ Flip(e) \/ \E i \in 1..MaxChecks : CheckAnswered(e, i)
  \/ Dispose \/ Broadcast \/ Broadcasted

Spec == Init /\ [][Next]_vars

\* The steps that are weakly fair. The monitor's interval, the delay of a reconnection
\* and the answers of the checks come.
Weak == {"tick", "recreate", "check"} \X Endpoint
WeakStep(k) ==
  CASE k[1] = "tick" -> MonitorTick(k[2])
    [] k[1] = "recreate" -> RecreateProvider(k[2])
    [] k[1] = "check" -> CheckAnswered(k[2], 1)

-----------------------------------------------------------------------------
TypeOK ==
  /\ ep \in [Endpoint -> [online : BOOLEAN, height : 0..MaxHeight, lag : BOOLEAN,
                          provider : {"open", "ended", "closed"}]]
  /\ timers \in [Endpoint -> 0..MaxEvents]
  /\ sent \subseteq Endpoint

\* An endpoint the wallet may read from is at most ethRpcMaxBlockHeightDiff blocks behind
\* every online endpoint, whatever the order in which checks, errors and ends arrive.
ReadyIsCurrent == \A e \in Ready(ep), f \in Online(ep) : ep[f].height - ep[e].height <= MaxDiff

\* A disposed pool holds no open connection: a reconnection that was due does not happen.
DisposedIsClosed == disposed => \A e \in Endpoint : ep[e].provider # "open"

\* Transactions never go to an endpoint known to be offline or behind while another is ready.
SentToReadyStep == (sent' # {} /\ sent = {} /\ Ready(ep) # {}) => sent' \subseteq Ready(ep)

\* After every check some endpoint is ready if any is online: the endpoints never all lag.
CheckLeavesReadyStep ==
  (checks' # checks /\ ep' # ep /\ Online(ep') # {}) => Ready(ep') # {}

\* What comes in the end: an endpoint whose node is up and level with the other nodes is
\* ready, and one whose node is down is left, unless the pool is disposed.
Healthy(e) == remote[e].up /\ \A f \in Endpoint : remote[f].height - remote[e].height <= MaxDiff
HealthIsSeen ==
  \A e \in Endpoint : (Healthy(e) /\ ~disposed => e \in Ready(ep)) /\ (~remote[e].up => ~ep[e].online)
=============================================================================
