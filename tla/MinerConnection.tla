--------------------------- MODULE MinerConnection ---------------------------
(***************************************************************************)
(* The browser's connection to the proof-of-work server: PoWClient (web    *)
(* socket, requests, reconnect) and PoWSession (share queue, verification  *)
(* results) of faucet-client/src/pow, with the miner's verify workers. The *)
(* miner submits shares in order; the session sends one at a time and      *)
(* waits for the answer.  A socket that closes takes with it every request *)
(* and answer under way.                                                   *)
(***************************************************************************)
EXTENDS Integers, Sequences, FiniteSets, SequencesExt

CONSTANTS
  MaxShares,        \* bound: shares the miner finds, numbered in order
  MaxVerify,        \* bound: verifications the server asks for
  MaxDrops,         \* bound: connections lost
  DropsInFlight     \* whether a connection may be lost while a share awaits its answer

\* The algorithm is one of the parameters; where they change it is taken to change too.
Algos == 1..2

BoundAssumption == {MaxShares, MaxVerify, MaxDrops} \subseteq Nat /\ DropsInFlight \in BOOLEAN

VARIABLES
  status,         \* clientStatus: idle, reconnect, connecting, ready
  timer,          \* reconnectTimer is set
  requests,       \* requestQueue: requests whose promise is not settled, [kind, n, params]
  wire,           \* requests under way on the current socket, in order
  shareQueue,     \* [n, params]
  processing,     \* shareQueueProcessing
  verifyQueue,    \* verifyResultQueue
  worker,         \* verifyWorkers, by algorithm: none, starting, ready
  jobs,           \* verifications the workers have or will have, [n, algo]
  closing,        \* closeSession: none, waiting (for the ready promise), sent, done
  nextShare, nextVerify, drops,
  params,         \* parameters the miner works with; the server may want others
  serverParams,
  sentShares,     \* ghost: numbers of the shares sent, in order
  answered        \* ghost: verification results sent, in order

session == <<shareQueue, processing, verifyQueue>>
client == <<status, timer, requests, wire>>
vars == <<session, client, worker, jobs, closing, nextShare, nextVerify, drops, params, serverParams,
          sentShares, answered>>

Init ==
  /\ status = "connecting" /\ timer = FALSE /\ requests = {} /\ wire = <<>>
  /\ shareQueue = <<>> /\ processing = FALSE /\ verifyQueue = <<>>
  /\ worker = [a \in Algos |-> IF a = 1 THEN "starting" ELSE "none"] /\ jobs = <<>> /\ closing = "none"
  /\ nextShare = 1 /\ nextVerify = 1 /\ drops = 0 /\ params = 1 /\ serverParams = 1
  /\ sentShares = <<>> /\ answered = <<>>

-----------------------------------------------------------------------------
(* State of client and session as one record, for steps that send several requests *)

C == [requests |-> requests, wire |-> wire, queue |-> shareQueue, processing |-> processing,
      verify |-> verifyQueue, shares |-> sentShares, answered |-> answered]
SetC(c) == /\ requests' = c.requests /\ wire' = c.wire /\ shareQueue' = c.queue /\ processing' = c.processing
           /\ verifyQueue' = c.verify /\ sentShares' = c.shares /\ answered' = c.answered

\* _sendRequest
Send(c, r) == [c EXCEPT !.requests = @ \cup {r}, !.wire = Append(@, r)]
Share(s) == [kind |-> "foundShare", n |-> s.n, params |-> s.params]
Verdict(n) == [kind |-> "verifyResult", n |-> n, params |-> 0]
Close == [kind |-> "closeSession", n |-> 0, params |-> 0]

StopLoop(c) == [c EXCEPT !.processing = FALSE]
\* one turn of the queue loop, up to its await
QueueLoop(c, ready) ==
  IF c.queue = <<>> THEN [c EXCEPT !.processing = FALSE]
  ELSE IF ~ready THEN StopLoop(c)
  ELSE LET s == Head(c.queue)
       IN [Send([c EXCEPT !.queue = Tail(@), !.processing = TRUE], Share(s)) EXCEPT !.shares = Append(@, s.n)]
\* Mutant: a second loop may run.
LoopRunsNever(c) == FALSE
\* the test of processShareQueue
LoopRuns(c) == c.processing
\* processShareQueue
ProcessShareQueue(c, ready) == IF LoopRuns(c) THEN c ELSE QueueLoop(c, ready)
\* _submitVerifyResult
SubmitVerdict(c, v) == [Send(c, Verdict(v.n)) EXCEPT !.answered = Append(@, v)]
\* processVerifyQueue
ProcessVerifyQueue(c) == [FoldLeft(SubmitVerdict, c, c.verify) EXCEPT !.verify = <<>>]

-----------------------------------------------------------------------------
(* Miner and user *)

\* submitShare
SubmitShare ==
  /\ nextShare <= MaxShares /\ nextShare' = nextShare + 1
  /\ SetC(ProcessShareQueue([C EXCEPT !.queue = Append(@, [n |-> nextShare, params |-> params])], status = "ready"))
  /\ UNCHANGED <<status, timer, worker, jobs, closing, nextVerify, drops, params, serverParams>>
\* getVerifyWorker: there is one worker for each algorithm, started when it is first needed
Started(a) == [worker EXCEPT ![a] = IF @ = "none" THEN "starting" ELSE @]
\* a verify worker has loaded its code: onWorkerInit
VerifyWorkerInit(a) ==
  /\ worker[a] = "starting" /\ worker' = [worker EXCEPT ![a] = "ready"]
  /\ UNCHANGED <<session, client, jobs, closing, nextShare, nextVerify, drops, params, serverParams, sentShares, answered>>
\* onCtrlVerify in the worker of the algorithm and onWorkerVerifyResult, submitVerifyResult
VerifyResult(a) ==
  /\ worker[a] = "ready"
  /\ \E k \in DOMAIN jobs :
       /\ jobs[k].algo = a /\ \A j \in 1..(k - 1) : jobs[j].algo # a
       /\ jobs' = RemoveAt(jobs, k)
       /\ SetC(IF status = "ready" /\ verifyQueue = <<>> THEN SubmitVerdict(C, jobs[k])
               ELSE [C EXCEPT !.verify = Append(@, jobs[k])])
  /\ UNCHANGED <<status, timer, worker, closing, nextShare, nextVerify, drops, params, serverParams>>
\* closeSession: rejected at once without a connection, delayed while one is being made
CloseSession ==
  /\ closing = "none"
  /\ CASE status = "ready" -> SetC(Send(C, Close)) /\ closing' = "sent"
       [] status = "connecting" -> closing' = "waiting" /\ UNCHANGED <<session, requests, wire, sentShares, answered>>
       [] OTHER -> UNCHANGED <<closing, session, requests, wire, sentShares, answered>>
  /\ UNCHANGED <<status, timer, worker, jobs, nextShare, nextVerify, drops, params, serverParams>>

-----------------------------------------------------------------------------
(* Server, as the client sees it *)

\* a verification for this client, under the server's parameters: processVerification
AskVerification ==
  /\ status = "ready" /\ nextVerify <= MaxVerify /\ nextVerify' = nextVerify + 1
  /\ jobs' = Append(jobs, [n |-> nextVerify, algo |-> serverParams])
  /\ worker' = Started(serverParams)
  /\ UNCHANGED <<session, client, closing, nextShare, drops, params, serverParams, sentShares, answered>>
\* the operator changes the parameters
ChangeParams ==
  /\ serverParams = 1 /\ serverParams' = 2
  /\ UNCHANGED <<session, client, worker, jobs, closing, nextShare, nextVerify, drops, params, sentShares, answered>>
\* refreshConfig loads them, the miner's queue of found nonces starts anew, and startStopWorkers
\* starts the verify worker of the algorithm
RefreshConfig ==
  /\ params # serverParams /\ params' = serverParams /\ worker' = Started(serverParams)
  /\ UNCHANGED <<session, client, jobs, closing, nextShare, nextVerify, drops, serverParams, sentShares, answered>>
Settled(c, r) == [c EXCEPT !.requests = @ \ {r}]
\* onClientMessage for an answer; the server answers in any order. An answer to a share
\* continues the queue loop, and "Invalid share params" drops the shares with the same ones
Answer ==
  /\ status = "ready"
  /\ \E k \in DOMAIN wire :
     LET r == wire[k]
         c == [Settled(C, r) EXCEPT !.wire = RemoveAt(@, k)]
         stale == r.params # serverParams
     IN /\ SetC(IF r.kind # "foundShare" THEN c
                ELSE QueueLoop(IF stale THEN [c EXCEPT !.queue = SelectSeq(@, LAMBDA s : s.params # r.params)] ELSE c, TRUE))
        /\ closing' = IF r.kind = "closeSession" THEN "done" ELSE closing
  /\ UNCHANGED <<status, timer, worker, jobs, nextShare, nextVerify, drops, params, serverParams>>

-----------------------------------------------------------------------------
(* Socket *)

\* the socket opens: onClientReady resolves the ready promise and emits "open", on which the
\* session processes both of its queues
OnClientReady ==
  /\ status = "connecting" /\ status' = "ready"
  /\ LET opened == ProcessVerifyQueue(ProcessShareQueue(C, TRUE))
     IN IF closing = "waiting" THEN SetC(Send(opened, Close)) /\ closing' = "sent"
        ELSE SetC(opened) /\ UNCHANGED closing
  /\ UNCHANGED <<timer, worker, jobs, nextShare, nextVerify, drops, params, serverParams>>
\* Mutant: a lost connection is not made again.
ReconnectNever == UNCHANGED timer
\* reconnectClient
ReconnectClient == timer' = TRUE
\* onClientClose: the socket failed to open, broke, or was closed after its 24 hours; the
\* requests under way keep their promises
OnClientClose ==
  /\ status \in {"connecting", "ready"} /\ drops < MaxDrops /\ drops' = drops + 1
  /\ DropsInFlight \/ ~processing
  /\ status' = "reconnect" /\ wire' = <<>> /\ ReconnectClient
  /\ UNCHANGED <<requests, session, worker, jobs, closing, nextShare, nextVerify, params, serverParams, sentShares, answered>>
\* the status after the timer fired
Restarts == IF status = "reconnect" THEN "connecting" ELSE status
\* the timer of reconnectClient: startClient
StartClient ==
  /\ timer /\ timer' = FALSE
  /\ status' = Restarts
  /\ UNCHANGED <<requests, wire, session, worker, jobs, closing, nextShare, nextVerify, drops, params, serverParams,
                 sentShares, answered>>

\* stop: the page is left, or the server ended the session; the reconnect timer is not
\* cleared, and the close event of the socket finds the client idle
StopClient ==
  /\ status # "idle" /\ status' = "idle" /\ wire' = <<>>
  /\ UNCHANGED <<timer, requests, session, worker, jobs, closing, nextShare, nextVerify, drops, params, serverParams,
                 sentShares, answered>>

Next ==
  \/ SubmitShare \/ CloseSession
  \/ \E a \in Algos : VerifyWorkerInit(a) \/ VerifyResult(a)
  \/ AskVerification \/ ChangeParams \/ RefreshConfig \/ Answer
  \/ OnClientReady \/ OnClientClose \/ StartClient \/ StopClient
Spec == Init /\ [][Next]_vars

\* The steps that are weakly fair. Timers fire, the server answers on a socket that
\* stays open, and a connection attempt that does not fail succeeds.
Weak == ({"start", "ready", "answer"} \X {0}) \cup ({"worker", "result"} \X Algos)
WeakStep(k) ==
  CASE k[1] = "start" -> StartClient
    [] k[1] = "ready" -> OnClientReady
    [] k[1] = "answer" -> Answer
    [] k[1] = "worker" -> VerifyWorkerInit(k[2])
    [] k[1] = "result" -> VerifyResult(k[2])
FairSpec == Spec /\ \A k \in Weak : WF_vars(WeakStep(k))
-----------------------------------------------------------------------------
Waiting(kind) == {r \in requests : r.kind = kind}
Sorted(s) == \A i, j \in DOMAIN s : i < j => s[i] < s[j]

\* Requests on the wire are requests whose promise is open, and the loop's flag is set
\* exactly while a share awaits its answer.
TypeOK ==
  /\ \A k \in DOMAIN wire : wire[k] \in requests
  /\ processing = (Waiting("foundShare") # {})
  /\ timer => status \in {"reconnect", "idle"}

\* The server gets one share at a time and in the order in which they were found, across
\* lost connections and dropped shares.
SharesInOrder ==
  /\ Cardinality(Waiting("foundShare")) <= 1 /\ Sorted(sentShares)
  /\ \A k \in DOMAIN shareQueue : \A j \in DOMAIN sentShares : sentShares[j] < shareQueue[k].n

\* Every verification is answered at most once, and those of one algorithm in the order in
\* which they were asked for; the workers of two algorithms may overtake each other.
VerdictsInOrder ==
  LET all == answered \o verifyQueue \o jobs IN
  \A i, j \in DOMAIN all : i < j =>
    all[i].n # all[j].n /\ (all[i].algo = all[j].algo => all[i].n < all[j].n)

\* A client that was stopped stays stopped, whatever timers and events are still to come.
StoppedForGoodStep == status = "idle" => status' = "idle" /\ sentShares' = sentShares

\* What comes in the end: a lost connection is made again, unless the page is left, and once
\* it stays up the queued shares are sent and every verification has its result sent.
AtRest == status # "reconnect" /\ (status = "ready" => shareQueue = <<>> /\ verifyQueue = <<>> /\ jobs = <<>>)

\* Once the connection stays up the shares that were queued are sent: the handler of the
\* "open" event calls processShareQueue for them.
SharesResume == (<>[](status = "ready")) => []<>(shareQueue = <<>>)
=============================================================================
