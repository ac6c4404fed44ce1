------------------------------ MODULE PoWServer ------------------------------
(***************************************************************************)
(* The main process' side of proof of work: PoWModule spreads sessions     *)
(* over PoWServers, each of which talks to a child process over IPC.       *)
(* Rewards and aborts that a child reports run as message operations; the  *)
(* destruction of a session waits for its operations, and a message that   *)
(* is not confirmed in time costs the whole child.  Messages arrive in     *)
(* order; a child may die or hang at any time.                             *)
(***************************************************************************)
EXTENDS Naturals, FiniteSets, Sequences, FiniteSetsExt

CONSTANTS
  Server,              \* identities of servers that can be created
  Session,             \* mining sessions
  SessionsPerServer,   \* moduleConfig.powSessionsPerServer
  MaxFaults,           \* bound on children that die or hang and on lost confirmations
  NoServer

BoundsAssumption == SessionsPerServer \in Nat \ {0} /\ MaxFaults \in Nat

VARIABLES
  srv,         \* server -> [life, open, shut, listed, table, child, inside, down, up]
  sess,        \* session -> [st, at]
  op,          \* <<session, kind>> -> state of the message operation
  destroy,     \* session -> state of its destruction
  accepting,   \* acceptingSessionWork
  faults

vars == <<srv, sess, op, destroy, accepting, faults>>

Kind == {"reward", "abort"}
\* life: lifecycle; open: acceptingMessages; shut: shutdownPromise is set; listed: in
\* module.powServers; table: sessions; child: the child process; inside: the
\* sessions it has; down, up: messages to and from it.
NewServer == [life |-> "absent", open |-> FALSE, shut |-> FALSE, listed |-> FALSE, table |-> {},
              child |-> "none", inside |-> {}, down |-> <<>>, up |-> <<>>]
Started == [NewServer EXCEPT !.life = "starting", !.open = TRUE, !.listed = TRUE, !.child = "up"]

Init ==
  /\ srv = [p \in Server |-> NewServer]
  /\ sess = [s \in Session |-> [st |-> "new", at |-> NoServer]]
  /\ op = [k \in Session \X Kind |-> "none"]
  /\ destroy = [s \in Session |-> "none"]
  /\ accepting = TRUE
  /\ faults = 0

Msg(type, s) == [type |-> type, s |-> s]
At(s) == sess[s].at
Running(s) == \E k \in Kind : op[<<s, k>>] \in {"run", "ack", "doomed"}
DestroyPending(s) == destroy[s] \in {"waiting", "queued", "sending", "doomed"}
\* sendMessage: dropped once the child is closed.
Send(z, m) == IF z.open THEN [z EXCEPT !.down = Append(@, m)] ELSE z

-----------------------------------------------------------------------------
(* PoWModule: placing sessions *)

Suitable(p) ==
  /\ srv[p].listed /\ srv[p].life \in {"starting", "ready"}
  /\ Cardinality(srv[p].table) < SessionsPerServer
\* The suitable servers with the most sessions; a new one if there is none.
Chosen ==
  LET ok == {p \in Server : Suitable(p)} IN
  IF ok # {} THEN {p \in ok : \A q \in ok : Cardinality(srv[p].table) >= Cardinality(srv[q].table)}
  ELSE {p \in Server : srv[p].life = "absent"}

\* getPoWServerForSession for a session that starts or is restored.
WorkAdmission == accepting
Placed(p) == [st |-> "registering", at |-> p]
StartSession(s) ==
  /\ WorkAdmission /\ sess[s].st = "new"
  /\ \E p \in Chosen :
       LET z == IF srv[p].life = "absent" THEN Started ELSE srv[p] IN
       /\ srv' = [srv EXCEPT ![p] = [z EXCEPT !.table = @ \cup {s}]]
       /\ sess' = [sess EXCEPT ![s] = Placed(p)]
  /\ UNCHANGED <<op, destroy, accepting, faults>>

\* registerSession after waitUntilReady.
Register(s) ==
  LET p == At(s) IN
  /\ sess[s].st = "registering" /\ srv[p].life # "starting"
  /\ IF srv[p].life = "ready"
     THEN /\ srv' = [srv EXCEPT ![p] = Send(@, Msg("register", s))]
          /\ sess' = [sess EXCEPT ![s].st = "mining"]
     ELSE /\ srv' = [srv EXCEPT ![p].table = @ \ {s}]
          /\ sess' = [sess EXCEPT ![s].st = "done"]
  /\ UNCHANGED <<op, destroy, accepting, faults>>

-----------------------------------------------------------------------------
(* Shutdown of a server *)

\* shutdown, performShutdown up to its wait.
BeginShutdown(z) ==
  IF z.shut THEN z
  ELSE Send([z EXCEPT !.shut = TRUE, !.life = IF @ = "closed" THEN @ ELSE "closing"], Msg("shutdown", 0))
\* The then-branch in processSessionComplete, once the destruction is resolved: a server
\* left empty is stopped when there is another one.
Emptied(z) ==
  IF z.table = {} /\ Cardinality({p \in Server : srv[p].listed}) > 1 THEN BeginShutdown(z) ELSE z
\* quiesceRewardProducer
Quiesce ==
  /\ accepting /\ accepting' = FALSE
  /\ srv' = [p \in Server |-> IF srv[p].listed THEN BeginShutdown(srv[p]) ELSE srv[p]]
  /\ UNCHANGED <<sess, op, destroy, faults>>
KillTimer(p) == srv[p].shut /\ srv[p].open
Kill(p) ==
  /\ KillTimer(p) /\ srv[p].child \in {"up", "hung"}
  /\ srv' = [srv EXCEPT ![p].child = "gone"]
  /\ UNCHANGED <<sess, op, destroy, accepting, faults>>

\* The child's close event: nothing waits for the child any more.
AcksAfterClose(p, k) == IF At(k[1]) = p /\ op[k] = "ack" THEN "done" ELSE op[k]
DestroyAfterClose(p, s) ==
  IF At(s) # p \/ ~DestroyPending(s) THEN destroy[s]
  ELSE IF destroy[s] = "doomed" THEN "rejected" ELSE "resolved"
ChildClose(p) ==
  /\ srv[p].child = "gone" /\ srv[p].open
  /\ LET closed == [srv[p] EXCEPT !.open = FALSE, !.life = "closed", !.table = {}, !.inside = {},
                                   !.down = <<>>, !.up = <<>>]
         resolves == \E s \in Session : At(s) = p /\ DestroyPending(s) /\ destroy[s] # "doomed" IN
     srv' = [srv EXCEPT ![p] = IF resolves THEN Emptied(closed) ELSE closed]
  /\ op' = [k \in DOMAIN op |-> IF op[k] = "sent" /\ At(k[1]) = p THEN "done" ELSE AcksAfterClose(p, k)]
  /\ destroy' = [s \in Session |-> DestroyAfterClose(p, s)]
  /\ UNCHANGED <<sess, accepting, faults>>

\* performShutdown is through: the server is taken off the module's list.
Drained(p) == \A s \in Session : At(s) = p => ~Running(s)
ShutdownDone(p) ==
  /\ srv[p].shut /\ ~srv[p].open /\ srv[p].listed /\ Drained(p)
  /\ srv' = [srv EXCEPT ![p].listed = FALSE]
  /\ UNCHANGED <<sess, op, destroy, accepting, faults>>

-----------------------------------------------------------------------------
(* Destruction of a session *)

Flushable(s) == destroy[s] = "waiting" /\ ~Running(s) /\ ~srv[At(s)].shut
\* flushPendingSessionDestroy when an operation of the session ends.
FlushPendingSessionDestroy(s) ==
  /\ Flushable(s)
  /\ destroy' = [destroy EXCEPT ![s] = "queued"]
  /\ UNCHANGED <<srv, sess, op, accepting, faults>>

\* processSessionComplete, 500 ms later: destroySession.
SessionCompletes(s) ==
  /\ sess[s].st = "mining"
  /\ sess' = [sess EXCEPT ![s].st = "completing"]
  /\ UNCHANGED <<srv, op, destroy, accepting, faults>>
DestroySession(s) ==
  /\ sess[s].st = "completing"
  /\ sess' = [sess EXCEPT ![s].st = "done"]
  /\ destroy' = [destroy EXCEPT ![s] = IF s \notin srv[At(s)].table THEN "resolved"
                                        ELSE IF Running(s) \/ srv[At(s)].shut THEN "waiting" ELSE "queued"]
  /\ srv' = [srv EXCEPT ![At(s)] = IF s \notin @.table THEN Emptied(@) ELSE @]
  /\ UNCHANGED <<op, accepting, faults>>

\* The queued microtask sends the request.
\* Mutant: the request is only noted, not sent.
SendNothing(s) ==
  /\ destroy[s] = "queued"
  /\ destroy' = [destroy EXCEPT ![s] = "sending"]
  /\ UNCHANGED <<srv, sess, op, accepting, faults>>
SendDestroy(s) ==
  /\ destroy[s] = "queued"
  /\ IF srv[At(s)].open
     THEN /\ srv' = [srv EXCEPT ![At(s)] = Send(@, Msg("destroy", s))]
          /\ destroy' = [destroy EXCEPT ![s] = "sending"]
     ELSE /\ srv' = [srv EXCEPT ![At(s)] = BeginShutdown(@)]
          /\ destroy' = [destroy EXCEPT ![s] = "doomed"]
  /\ UNCHANGED <<sess, op, accepting, faults>>

\* completeSentSessionDestroy
CompleteDestroy(s) ==
  /\ destroy[s] = "sending"
  /\ destroy' = [destroy EXCEPT ![s] = "resolved"]
  /\ srv' = [srv EXCEPT ![At(s)] = Emptied([@ EXCEPT !.table = @ \ {s}])]
  /\ UNCHANGED <<sess, op, accepting, faults>>
\* waitForWorkerCloseAfterDestroyFailure: not confirmed in time, or refused.
DestroyUnconfirmed(s) ==
  /\ destroy[s] = "sending" /\ faults < MaxFaults /\ faults' = faults + 1
  /\ destroy' = [destroy EXCEPT ![s] = "doomed"]
  /\ srv' = [srv EXCEPT ![At(s)] = BeginShutdown(@)]
  /\ UNCHANGED <<sess, op, accepting>>

-----------------------------------------------------------------------------
(* Messages of the child and the operations they start *)

Taken(s) == ~DestroyPending(s)
\* onMessage
OnMessage(p) ==
  LET m == Head(srv[p].up)
      k == <<m.s, m.type>> IN
  /\ srv[p].open /\ srv[p].up # <<>>
  /\ srv' = [srv EXCEPT ![p].up = Tail(@)]
  /\ op' = IF m.type = "ack"
           THEN [op EXCEPT ![<<m.s, "abort">>] = IF @ = "ack" THEN "done" ELSE @]
           ELSE [op EXCEPT ![k] = IF ~Taken(m.s) THEN "done" ELSE "run"]
  /\ UNCHANGED <<sess, destroy, accepting, faults>>

\* onSessionReward: the reward is applied, or fails, and the child is told.
RewardDone(s) ==
  /\ op[<<s, "reward">>] = "run"
  /\ op' = [op EXCEPT ![<<s, "reward">>] = "done"]
  /\ srv' = [srv EXCEPT ![At(s)] = Send(@, Msg("answer", s))]
  /\ UNCHANGED <<sess, destroy, accepting, faults>>

\* onSessionAbort: the session is slashed or proceeds, either way it completes;
\* then sendSessionClose waits for an acknowledgement.
AbortProceeds(s) ==
  LET z == srv[At(s)] IN
  /\ op[<<s, "abort">>] = "run"
  /\ IF s \notin z.table
     THEN op' = [op EXCEPT ![<<s, "abort">>] = "done"] /\ UNCHANGED <<srv, sess>>
     ELSE /\ sess' = [sess EXCEPT ![s].st = IF @ = "mining" THEN "completing" ELSE @]
          /\ op' = [op EXCEPT ![<<s, "abort">>] = IF z.open THEN "ack" ELSE "done"]
          /\ srv' = [srv EXCEPT ![At(s)] = Send(@, Msg("close", s))]
  /\ UNCHANGED <<destroy, accepting, faults>>
\* The acknowledgement times out, or the message could not be sent.
AckTimeout(s) ==
  /\ op[<<s, "abort">>] = "ack"
  /\ \/ srv[At(s)].child = "hung" /\ UNCHANGED faults
     \/ faults < MaxFaults /\ faults' = faults + 1
  /\ op' = [op EXCEPT ![<<s, "abort">>] = "doomed"]
  /\ srv' = [srv EXCEPT ![At(s)] = BeginShutdown(@)]
  /\ UNCHANGED <<sess, destroy, accepting>>
DoomedEnds(s) ==
  /\ op[<<s, "abort">>] = "doomed" /\ ~srv[At(s)].open
  /\ op' = [op EXCEPT ![<<s, "abort">>] = "done"]
  /\ UNCHANGED <<srv, sess, destroy, accepting, faults>>

-----------------------------------------------------------------------------
(* The child process: PoWServerWorker *)

ChildInit(p) ==
  /\ srv[p].child = "up" /\ srv[p].life = "starting"
  /\ srv' = [srv EXCEPT ![p].life = "ready"]
  /\ UNCHANGED <<sess, op, destroy, accepting, faults>>

ChildReceives(p) ==
  LET z == [srv[p] EXCEPT !.down = Tail(@)]
      m == Head(srv[p].down) IN
  /\ srv[p].child = "up" /\ srv[p].down # <<>>
  /\ srv' = [srv EXCEPT ![p] =
       CASE m.type = "register" -> [z EXCEPT !.inside = @ \cup {m.s}]
         [] m.type = "destroy"  -> [z EXCEPT !.inside = @ \ {m.s}]
         [] m.type = "close"    -> [z EXCEPT !.up = Append(@, Msg("ack", m.s))]
         [] m.type = "answer"   -> z
         [] m.type = "shutdown" -> [z EXCEPT !.inside = {}, !.child = "gone"]]
  /\ UNCHANGED <<sess, op, destroy, accepting, faults>>

\* A share or verdict is rewarded; a session is slashed, closed or idle.
ChildReports(p, s, kind) ==
  /\ srv[p].child = "up" /\ s \in srv[p].inside /\ op[<<s, kind>>] = "none"
  /\ srv' = [srv EXCEPT ![p].up = Append(@, Msg(kind, s))]
  /\ op' = [op EXCEPT ![<<s, kind>>] = "sent"]
  /\ UNCHANGED <<sess, destroy, accepting, faults>>

ChildFails(p, how) ==
  /\ srv[p].child = "up" /\ faults < MaxFaults /\ faults' = faults + 1
  /\ srv' = [srv EXCEPT ![p].child = how]
  /\ UNCHANGED <<sess, op, destroy, accepting>>

SessionStep(s) ==
  \/ Register(s) \/ FlushPendingSessionDestroy(s) \/ DestroySession(s) \/ SendDestroy(s) \/ CompleteDestroy(s)
  \/ RewardDone(s) \/ AbortProceeds(s) \/ DoomedEnds(s)
ServerStep(p) == Kill(p) \/ ChildClose(p) \/ ShutdownDone(p) \/ OnMessage(p) \/ ChildInit(p) \/ ChildReceives(p)

Next ==
  \/ \E s \in Session : SessionStep(s) \/ StartSession(s) \/ SessionCompletes(s) \/ DestroyUnconfirmed(s) \/ AckTimeout(s)
  \/ \E p \in Server :
       \/ ServerStep(p) \/ \E how \in {"gone", "hung"} : ChildFails(p, how)
       \/ \E s \in Session, kind \in Kind : ChildReports(p, s, kind)
  \/ Quiesce

Spec == Init /\ [][Next]_vars

\* The steps that are weakly fair. Promises and timers make progress, a child that is up
\* handles its messages, and one that was killed is closed.  A session need not end and
\* a child need not fail.
Weak ==
  ({"session", "timeout"} \X Session)
  \cup ({"kill", "close", "shutdown", "message", "init", "receive"} \X Server)
WeakStep(k) ==
  CASE k[1] = "session" -> SessionStep(k[2])
    [] k[1] = "timeout" -> AckTimeout(k[2]) /\ srv[At(k[2])].child = "hung"
    [] k[1] = "kill" -> Kill(k[2])
    [] k[1] = "close" -> ChildClose(k[2])
    [] k[1] = "shutdown" -> ShutdownDone(k[2])
    [] k[1] = "message" -> OnMessage(k[2])
    [] k[1] = "init" -> ChildInit(k[2])
    [] k[1] = "receive" -> ChildReceives(k[2])

-----------------------------------------------------------------------------
TypeOK ==
  /\ \A p \in Server :
       /\ srv[p].life \in {"absent", "starting", "ready", "closing", "closed"}
       /\ srv[p].child \in {"none", "up", "hung", "gone"}
       /\ srv[p].table \subseteq Session /\ srv[p].inside \subseteq Session
  /\ \A s \in Session : sess[s].st \in {"new", "registering", "mining", "completing", "done"}
                        /\ IF sess[s].st = "new" THEN At(s) = NoServer ELSE At(s) \in Server
  /\ op \in [Session \X Kind -> {"none", "sent", "run", "ack", "doomed", "done"}]
  /\ destroy \in [Session -> {"none", "waiting", "queued", "sending", "doomed", "resolved", "rejected"}]
  /\ faults \in 0..MaxFaults

\* No server carries more sessions than configured, and a session is on one server.
Placement ==
  /\ \A p \in Server : Cardinality(srv[p].table) <= SessionsPerServer
  /\ \A s \in Session, p \in Server : s \in srv[p].table => At(s) = p

\* A session is destroyed only when nothing it reported is still being applied: a
\* reward in progress is not lost, and no reward is applied to a destroyed session.
DestroyAfterOperations ==
  \A s \in Session : destroy[s] \in {"queued", "sending"} => ~Running(s)

\* A session whose destruction was confirmed is gone from the child too, or the
\* request is on its way: nobody mines for a session that is over.
NoGhostSession ==
  \A s \in Session, p \in Server :
    /\ destroy[s] = "resolved" /\ srv[p].child = "up" /\ s \in srv[p].inside =>
         \E i \in DOMAIN srv[p].down : srv[p].down[i].type \in {"destroy", "shutdown"}

\* A server taken off the list has no child, and no operation of it runs.
StoppedIsQuiet ==
  \A p \in Server : srv[p].life # "absent" /\ ~srv[p].listed =>
    ~srv[p].open /\ \A s \in Session : At(s) = p => ~Running(s)

\* Once the producers are stopped and the servers are down no server appears: after
\* the drain of rewards nothing can add one.
QuiescedStaysStep ==
  ~accepting => \A p \in Server : srv'[p].listed => srv[p].listed

\* What comes in the end: no destruction is pending and no server that was shut down is
\* listed, also when the child hangs or dies.
AtRest == (\A s \in Session : ~DestroyPending(s)) /\ \A p \in Server : srv[p].shut => ~srv[p].listed
=============================================================================
