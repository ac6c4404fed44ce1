--------------------------- MODULE PoWVerification ---------------------------
(***************************************************************************)
(* The PoW worker process: PoWClient, PoWShareVerification, PoWSession and *)
(* the session part of PoWServerWorker.  A share is validated locally and, *)
(* beside that, by other miners; a wrong share or a wrong verdict slashes  *)
(* the session.  A session that wants to leave must not escape a slash     *)
(* that is being decided, so every open decision holds its benign close    *)
(* (holdBenignCloseForSecurityDecision).  A share is identified by its     *)
(* session and nonce.  Balances are not modelled: whether a miner has      *)
(* enough to be asked for a verdict is left open.                          *)
(***************************************************************************)
EXTENDS Naturals, FiniteSets, FiniteSetsExt

CONSTANTS
  Session,
  MaxNonce,      \* bound on the nonces of a session
  MaxShares,     \* bound on the shares found
  Individuals,   \* verifyMinerIndividuals
  MaxMissed,     \* verifyMinerMaxMissed
  MaxPending,    \* verifyMinerMaxPending
  MaxConnects    \* bound on reconnects

BoundsAssumption ==
  {MaxNonce, MaxShares, Individuals, MaxMissed, MaxPending, MaxConnects} \subseteq Nat

Share == Session \X (1..MaxNonce)
Owner(x) == x[1]
Nonce(x) == x[2]

VARIABLES
  sess,      \* session -> the PoWSession
  share,     \* share -> the PoWShareVerification
  task,      \* <<share, session>> -> a verdict that is being processed
  penalty,   \* <<share, session>>: miss penalties that are being applied
  paid,      \* share, <<share, session>> -> rewards requested for it
  connects

vars == <<sess, share, task, penalty, paid, connects>>

NewSession == [live |-> TRUE, client |-> TRUE, idle |-> FALSE, last |-> 0, pending |-> 0, missed |-> 0,
               holds |-> 0, type |-> "none", sent |-> "none", closed |-> FALSE]
NewShare == [st |-> "new", local |-> "none", wait |-> "none", peers |-> "idle", asked |-> {}, guards |-> {},
             held |-> FALSE, listed |-> FALSE]
NewTask == [st |-> "none", verdict |-> "none"]

\* Sessions as onPoWRegisterSession and onPoWConnection leave them.
Init ==
  /\ sess = [s \in Session |-> NewSession]
  /\ share = [x \in Share |-> NewShare]
  /\ task = [k \in Share \X Session |-> NewTask]
  /\ penalty = {}
  /\ paid = [k \in Share \cup (Share \X Session) |-> 0]
  /\ connects = 0

-----------------------------------------------------------------------------
(* PoWSession *)

\* Mutant: a benign close does not wait for open decisions.
MaySendAny(z) == z.type # "none"
MaySend(z) == z.type # "none" /\ (z.type = "slashed" \/ z.holds = 0)
TrySendSessionClose(z) == IF z.live /\ MaySend(z) THEN [z EXCEPT !.sent = z.type] ELSE z

CloseType(z, type) == IF z.type = "none" \/ type = "slashed" THEN type ELSE z.type
CloseSession(z, type) ==
  IF z.live THEN TrySendSessionClose([z EXCEPT !.type = CloseType(z, type)]) ELSE z

Hold(z) == IF z.live THEN [z EXCEPT !.holds = @ + 1] ELSE z
Unhold(z) == TrySendSessionClose([z EXCEPT !.holds = IF @ > 0 THEN @ - 1 ELSE 0])
Release(ss, S) == [s \in Session |-> IF s \in S THEN Unhold(ss[s]) ELSE ss[s]]

\* dispose: rewards are refused and the wait for the close ends; of the rest of a
\* disposed session only the last nonce is looked at.
Disposed(z) == [NewSession EXCEPT !.live = FALSE, !.closed = TRUE, !.client = FALSE, !.last = z.last]

-----------------------------------------------------------------------------
(* PoWShareVerification *)

\* tryRelease
Listed(h) == h.st \in {"pending", "settling"} \/ h.peers = "open"
TryRelease(h) == [h EXCEPT !.listed = @ /\ Listed(h)]

\* closePeerTelemetry: the verifiers that did not answer are given up; after the
\* timeout each is charged, and its guard is kept until that is done.
ClosedPeers(h) == TryRelease([h EXCEPT !.peers = "closed", !.asked = {}, !.guards = {}])
GivenUp(z, late) ==
  [z EXCEPT !.pending = @ - 1, !.missed = IF late THEN @ + 1 ELSE @]
Charged(ss, h, late) == IF late THEN {s \in h.asked : ss[s].live} ELSE {}
ClosePeerTelemetry(ss, h, late) ==
  Release([s \in Session |-> IF s \in h.asked /\ ss[s].live THEN GivenUp(ss[s], late) ELSE ss[s]],
          h.guards \ Charged(ss, h, late))

\* The telemetry is closed if it is open.
ClosePeers(ss, h) == IF h.peers = "open" THEN ClosePeerTelemetry(ss, h, FALSE) ELSE ss
AfterClose(h) == IF h.peers = "open" THEN ClosedPeers(h) ELSE h

ReleaseSubmitter(ss, x, h) == IF h.held THEN Release(ss, {Owner(x)}) ELSE ss

\* failVerification and cancel: the share ends as st without a result.
Ended(h, st) == TryRelease([AfterClose(h) EXCEPT !.st = st, !.local = IF @ = "none" THEN "null" ELSE @,
                                                 !.held = FALSE])
EndShare(ss, x) == ReleaseSubmitter(ClosePeers(ss, share[x]), x, share[x])

\* cancelVerifier
CancelledVerifier(h, s) ==
  LET rest == [h EXCEPT !.asked = @ \ {s}, !.guards = @ \ {s}] IN
  IF h.peers # "open" \/ s \notin h.asked THEN h ELSE IF rest.asked = {} THEN ClosedPeers(rest) ELSE rest

Verifiers(x) ==
  {s \in Session : /\ s # Owner(x) /\ sess[s].live /\ sess[s].client
                   /\ sess[s].missed < MaxMissed /\ sess[s].pending < MaxPending}

-----------------------------------------------------------------------------
(* Client messages. A client that was killed, for a ping timeout, a second connection or
   the end of its session, still delivers messages until its socket is closed. *)

FreshNonce(x) == Nonce(x) > sess[Owner(x)].last

\* startPeerTelemetry: the miners V (perhaps none) are asked for a verdict.
StartPeerTelemetry(ss, V) == [s \in Session |-> IF s \in V THEN [Hold(ss[s]) EXCEPT !.pending = @ + 1] ELSE ss[s]]
\* startVerification: the validator took the share.
StartVerification(V) ==
  [NewShare EXCEPT !.st = "pending", !.held = TRUE, !.listed = TRUE, !.asked = V, !.guards = V,
                   !.peers = IF V = {} THEN "closed" ELSE "open"]
\* onCliFoundShare; the validator may refuse the share. That of a session that is gone is
\* verified like any other, here also after a shutdown, when the validator refuses it.
FoundShare(x) ==
  LET o == Owner(x)
      z == [sess[o] EXCEPT !.last = Nonce(x), !.missed = 0] IN
  /\ FreshNonce(x)
  /\ Cardinality({y \in Share : share[y].st # "new"}) < MaxShares
  /\ \/ /\ sess' = [sess EXCEPT ![o] = Unhold(Hold(z))]
        /\ share' = [share EXCEPT ![x] = [NewShare EXCEPT !.st = "settled", !.local = "null"]]
     \/ \E V \in SUBSET Verifiers(x) :
          /\ Cardinality(V) <= Individuals
          /\ sess' = StartPeerTelemetry([sess EXCEPT ![o] = Hold(z)], V)
          /\ share' = [share EXCEPT ![x] = StartVerification(V)]
  /\ UNCHANGED <<task, penalty, paid, connects>>

\* onCliVerifyResult, processVerificationResult up to the wait for the local result.
AcceptsVerdict(x, s) == share[x].peers = "open" /\ s \in share[x].asked
VerifyResult(x, s) ==
  LET rest == [share[x] EXCEPT !.asked = @ \ {s}, !.guards = @ \ {s}] IN
  /\ sess[s].live /\ share[x].listed
  /\ AcceptsVerdict(x, s) /\ task[<<x, s>>].st \in {"none", "done"}
  /\ \E verdict \in {"valid", "invalid"} :
       task' = [task EXCEPT ![<<x, s>>] = [st |-> "await", verdict |-> verdict]]
  /\ sess' = [sess EXCEPT ![s].pending = @ - 1]
  /\ share' = [share EXCEPT ![x] = IF rest.asked = {} THEN ClosedPeers(rest) ELSE rest]
  /\ UNCHANGED <<penalty, paid, connects>>

\* The rest of processVerificationResult, once the local result is known.
VerdictDone(x, s) ==
  /\ task' = [task EXCEPT ![<<x, s>>].st = "done"]
  /\ sess' = Release(sess, {s})
  /\ UNCHANGED paid
VerdictContinues(x, s) ==
  LET k == task[<<x, s>>]
      local == share[x].local IN
  /\ k.st = "await" /\ local # "none"
  /\ IF local # "null" /\ k.verdict # local
     THEN /\ sess' = [sess EXCEPT ![s] = CloseSession(@, "slashed")]
          /\ task' = [task EXCEPT ![<<x, s>>].st = "close"] /\ UNCHANGED paid
     ELSE IF local = "valid" /\ sess[s].live
     THEN \* a reward that is configured as zero is not requested
          \/ VerdictDone(x, s)
          \/ /\ task' = [task EXCEPT ![<<x, s>>].st = "reward"]
             /\ paid' = [paid EXCEPT ![<<x, s>>] = @ + 1] /\ UNCHANGED sess
     ELSE VerdictDone(x, s)
  /\ UNCHANGED <<share, penalty, connects>>
VerdictSettled(x, s) ==
  /\ \/ task[<<x, s>>].st = "reward"
     \/ task[<<x, s>>].st = "close" /\ sess[s].closed
  /\ VerdictDone(x, s)
  /\ UNCHANGED <<share, penalty, connects>>

CliCloseSession(s) ==
  /\ sess[s].live /\ sess[s].type = "none"
  /\ sess' = [sess EXCEPT ![s] = CloseSession(@, "closed")]
  /\ UNCHANGED <<share, task, penalty, paid, connects>>

\* onClientDisconnected (also a ping timeout), onPoWConnection, the idle timer.
ClientDisconnected(s) ==
  /\ sess[s].client
  /\ sess' = [sess EXCEPT ![s].client = FALSE, ![s].idle = TRUE]
  /\ UNCHANGED <<share, task, penalty, paid, connects>>
PoWConnect(s) ==
  /\ sess[s].live /\ ~sess[s].client /\ connects < MaxConnects
  /\ connects' = connects + 1
  /\ sess' = [sess EXCEPT ![s].client = TRUE, ![s].idle = FALSE]
  /\ UNCHANGED <<share, task, penalty, paid>>
IdleTimeout(s) ==
  /\ sess[s].idle
  /\ sess' = [sess EXCEPT ![s] = CloseSession([@ EXCEPT !.idle = FALSE], "timeout")]
  /\ UNCHANGED <<share, task, penalty, paid, connects>>

-----------------------------------------------------------------------------
(* Settlement *)

\* settleShare up to its wait: for the reward, which a disposed session refuses, or for
\* the close of the slashed session.
SettleShare(x, local) ==
  LET o == Owner(x) IN
  /\ share[x].st = "pending"
  /\ share' = [share EXCEPT ![x].st = "settling", ![x].local = local,
                            ![x].wait = IF local = "valid" THEN "reward" ELSE "close"]
  /\ sess' = IF local = "valid" THEN sess ELSE [sess EXCEPT ![o] = CloseSession(@, "slashed")]
  /\ paid' = [paid EXCEPT ![x] = IF local = "valid" /\ sess[o].live THEN @ + 1 ELSE @]
  /\ UNCHANGED <<task, penalty, connects>>
FinishSettlement(x) ==
  /\ share' = [share EXCEPT ![x] =
       TryRelease([@ EXCEPT !.st = IF @ = "cancelled" THEN @ ELSE "settled", !.wait = "none", !.held = FALSE])]
  /\ sess' = ReleaseSubmitter(sess, x, share[x])
ShareSettled(x) ==
  /\ \/ share[x].wait = "reward"
     \/ share[x].wait = "close" /\ sess[Owner(x)].closed
  /\ FinishSettlement(x)
  /\ UNCHANGED <<task, penalty, paid, connects>>

\* failVerification: the validation failed, timed out or was cancelled, or the
\* verifiers could not be asked.
FailVerification(x) ==
  /\ share[x].st = "pending"
  /\ sess' = EndShare(sess, x)
  /\ share' = [share EXCEPT ![x] = Ended(@, "settled")]
  /\ UNCHANGED <<task, penalty, paid, connects>>

\* The verifiers' time is over.
PeerTimeout(x) ==
  /\ share[x].peers = "open"
  /\ sess' = ClosePeerTelemetry(sess, share[x], TRUE)
  /\ penalty' = penalty \cup {<<x, s>> : s \in Charged(sess, share[x], TRUE)}
  /\ share' = [share EXCEPT ![x] = ClosedPeers(@)]
  /\ UNCHANGED <<task, paid, connects>>
PenaltySettled(k) ==
  /\ k \in penalty
  /\ penalty' = penalty \ {k}
  /\ sess' = Release(sess, {k[2]})
  /\ UNCHANGED <<share, task, paid, connects>>

-----------------------------------------------------------------------------
(* The main process *)

\* onPoWSessionClose answers an abort.
SessionClosed(s) ==
  /\ sess[s].live /\ sess[s].sent # "none" /\ ~sess[s].closed
  /\ sess' = [sess EXCEPT ![s].closed = TRUE]
  /\ UNCHANGED <<share, task, penalty, paid, connects>>

\* onPoWDestroySession: the session is disposed, its shares are cancelled and its
\* verdicts on other shares are not waited for.
Open(x) == share[x].listed /\ share[x].st \in {"pending", "settling"}
DestroySession(s) ==
  LET mine == {x \in Share : Owner(x) = s /\ Open(x)}
      asked == {x \in Share : Owner(x) # s /\ share[x].peers = "open" /\ s \in share[x].asked}
      gone == [sess EXCEPT ![s] = Disposed(@)] IN
  /\ sess[s].live
  /\ share' = [x \in Share |-> IF x \in mine THEN Ended(share[x], "cancelled")
                               ELSE IF x \in asked THEN CancelledVerifier(share[x], s) ELSE share[x]]
  /\ sess' = FoldSet(LAMBDA x, ss : EndShare(ss, x), gone, mine)
  /\ UNCHANGED <<task, penalty, paid, connects>>

\* shutdown: all sessions are disposed, then all shares cancelled.
Shutdown ==
  /\ \E s \in Session : sess[s].live
  /\ sess' = [s \in Session |-> Disposed(sess[s])]
  /\ share' = [x \in Share |-> IF Open(x) THEN Ended(share[x], "cancelled") ELSE share[x]]
  /\ UNCHANGED <<task, penalty, paid, connects>>

Next ==
  \/ \E x \in Share : \/ FoundShare(x) \/ ShareSettled(x) \/ FailVerification(x) \/ PeerTimeout(x)
                      \/ SettleShare(x, "valid") \/ SettleShare(x, "invalid")
  \/ \E x \in Share, s \in Session :
       VerifyResult(x, s) \/ VerdictContinues(x, s) \/ VerdictSettled(x, s) \/ PenaltySettled(<<x, s>>)
  \/ \E s \in Session : \/ CliCloseSession(s) \/ ClientDisconnected(s) \/ PoWConnect(s) \/ IdleTimeout(s)
                        \/ SessionClosed(s) \/ DestroySession(s)
  \/ Shutdown

Spec == Init /\ [][Next]_vars

\* The steps that are weakly fair. The validator decides every share it took
\* (PoWValidator), timers fire, the main process answers aborts and rewards (or the
\* reward request times out).
Weak ==
  ({"decide", "settle", "timeout"} \X Share)
  \cup ({"verdict", "settled", "penalty"} \X (Share \X Session))
  \cup ({"close"} \X Session)
WeakStep(k) ==
  CASE k[1] = "decide" -> SettleShare(k[2], "valid") \/ SettleShare(k[2], "invalid") \/ FailVerification(k[2])
    [] k[1] = "settle" -> ShareSettled(k[2])
    [] k[1] = "timeout" -> PeerTimeout(k[2])
    [] k[1] = "verdict" -> VerdictContinues(k[2][1], k[2][2])
    [] k[1] = "settled" -> VerdictSettled(k[2][1], k[2][2])
    [] k[1] = "penalty" -> PenaltySettled(k[2])
    [] k[1] = "close" -> SessionClosed(k[2])

-----------------------------------------------------------------------------
TypeOK ==
  /\ \A s \in Session :
       /\ sess[s].last \in 0..MaxNonce /\ sess[s].pending \in Nat /\ sess[s].missed \in Nat
       /\ sess[s].holds \in Nat
       /\ {sess[s].type, sess[s].sent} \subseteq {"none", "closed", "timeout", "slashed"}
       /\ {sess[s].live, sess[s].client, sess[s].idle, sess[s].closed} \subseteq BOOLEAN
  /\ \A x \in Share :
       /\ share[x].st \in {"new", "pending", "settling", "settled", "cancelled"}
       /\ share[x].local \in {"none", "valid", "invalid", "null"}
       /\ share[x].peers \in {"idle", "open", "closed"}
       /\ share[x].guards \subseteq Session /\ share[x].asked \subseteq Session
  /\ penalty \subseteq Share \X Session

\* The decisions that are open about a session: its own undecided shares, and the
\* verdicts it owes, has given, or is charged for not giving.
OpenDecisions(s) ==
  {x \in Share : Owner(x) = s /\ share[x].st \in {"pending", "settling"}}
  \cup {<<x, "asked">> : x \in {x \in Share : share[x].peers = "open" /\ s \in share[x].asked}}
  \cup {<<x, "given">> : x \in {x \in Share : task[<<x, s>>].st \in {"await", "close", "reward"}}}
  \cup {<<x, "missed">> : x \in {x \in Share : <<x, s>> \in penalty}}

\* Every open decision holds the close of a live session once, and nothing else
\* does: a guard lost lets a session escape, a guard too many keeps it for ever.
GuardsBalanced == \A s \in Session : sess[s].live => sess[s].holds = Cardinality(OpenDecisions(s))

\* A session never leaves the worker by a benign close while a decision about it
\* is open.
BenignCloseIsCleanStep ==
  \A s \in Session :
    sess'[s].sent # sess[s].sent /\ sess'[s].sent \in {"closed", "timeout"} => OpenDecisions(s)' = {}

\* The number of verdicts a miner owes is what limits the ones it is asked for.
PendingIsOwed ==
  \A s \in Session : sess[s].live =>
    /\ sess[s].pending = Cardinality({x \in Share : share[x].peers = "open" /\ s \in share[x].asked})
    /\ sess[s].pending <= MaxPending

\* A share is rewarded at most once to its finder and to each verifier, and none
\* of them for a share that the local validation did not find valid.
PaidOnce ==
  /\ \A k \in DOMAIN paid : paid[k] <= 1
  /\ \A x \in Share : share[x].local # "valid" => paid[x] = 0 /\ \A s \in Session : paid[<<x, s>>] = 0

\* The list of shares being verified has no leak: it holds what still waits for
\* its settlement or for verdicts.
ListedIsOpen == \A x \in Share : share[x].listed <=> share[x].st # "new" /\ Listed(share[x])

\* A session with a proven fault is closed as slashed, also when it asked to be
\* closed before.
FaultIsSlashed ==
  \A s \in Session : sess[s].live =>
    /\ (\E x \in Share : Owner(x) = s /\ share[x].local = "invalid") => sess[s].sent = "slashed"
    /\ (\E x \in Share : /\ task[<<x, s>>].st \in {"close", "done"} /\ share[x].local \in {"valid", "invalid"}
                         /\ task[<<x, s>>].verdict # share[x].local) => sess[s].sent = "slashed"

\* What comes in the end: a requested close is sent, and a share is forgotten.
AtRest ==
  /\ \A s \in Session : sess[s].type # "none" => sess[s].sent = sess[s].type \/ ~sess[s].live
  /\ \A x \in Share : ~share[x].listed
=============================================================================
