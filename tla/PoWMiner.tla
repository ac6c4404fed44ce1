------------------------------- MODULE PoWMiner -------------------------------
(***************************************************************************)
(* The browser's miner (faucet-client/src/pow/PoWMiner.ts) and its web     *)
(* workers (worker/PoWWorker.ts).  The session hands out ranges of nonces, *)
(* each worker works through its own, and what it finds is held back until *)
(* no other worker can still find a lower nonce, because the server only   *)
(* takes increasing ones.  Workers and miner talk through message queues;  *)
(* workers are added, terminated and given other parameters meanwhile.     *)
(***************************************************************************)
EXTENDS Integers, Sequences, FiniteSets, SequencesExt

CONSTANTS
  Worker,         \* web workers that may be started
  Params,         \* proof-of-work parameters with their difficulty
  OtherAlgo,      \* those of Params that use another hash algorithm than the rest
  Prefill,        \* targetNoncePrefill
  MaxNonce,       \* bound: nonces the session hands out
  MaxCount,       \* bound: setting of the worker count
  MaxChanges,     \* bound: changes of parameters or of the worker count
  MaxQueue,       \* bound: messages a worker has sent that were not handled yet
  None

BoundAssumption == {Prefill, MaxNonce, MaxCount} \subseteq Nat \ {0} /\ OtherAlgo \subseteq Params

VARIABLES
  params,       \* options.powParams and powParamsStr
  workers,      \* the miner's list of workers
  wanted,       \* settings.workerCount
  w,            \* state of each worker, see NewWorker
  nonceQueue,   \* found nonces held back, sorted
  lastSave,     \* lastSaveNonce, or None
  nextNonce,    \* lastNonce of PoWSession: the first nonce not handed out yet
  changes,
  hashed,       \* ghost: nonces a worker has tried
  found,        \* ghost: <<nonce, params>> of every hash that met its difficulty
  sent          \* ghost: the shares submitted, in order

vars == <<params, workers, wanted, w, nonceQueue, lastSave, nextNonce, changes, hashed, found, sent>>

\* a worker that was never started; active and ready are the miner's view of it, stage,
\* params, ranges and workNonce its own, down and up the messages on their way
NewWorker == [active |-> FALSE, ready |-> FALSE, lastNonce |-> 0, stage |-> "none", params |-> None,
              ranges |-> <<>>, workNonce |-> 0, down |-> <<>>, up |-> <<>>]
StartWorker(W, x) == [W EXCEPT ![x].active = TRUE, ![x].stage = "preinit"]
Unlaunched(W) == {x \in Worker : W[x].stage = "none"}

Init ==
  /\ params \in Params /\ workers = <<>> /\ wanted = 0 /\ w = [x \in Worker |-> NewWorker]
  /\ nonceQueue = <<>> /\ lastSave = None /\ nextNonce = 1 /\ changes = 0
  /\ hashed = {} /\ found = {} /\ sent = <<>>

-----------------------------------------------------------------------------
(* Shares: all the miner's state that submission touches, as one record *)

M == [workers |-> workers, w |-> w, queue |-> nonceQueue, save |-> lastSave, sent |-> sent]
SetM(m) == /\ workers' = m.workers /\ w' = m.w /\ nonceQueue' = m.queue
           /\ lastSave' = m.save /\ sent' = m.sent

AllWorkers(m) == {m.workers[k] : k \in DOMAIN m.workers}
\* the lowest nonce a worker that is ready has come to
SaveNonce(m) ==
  LET last == {m.w[x].lastNonce : x \in {y \in AllWorkers(m) : m.w[y].ready}}
  IN IF last = {} THEN None ELSE CHOOSE n \in last : \A k \in last : n <= k
\* processNonceQueue
ProcessNonceQueue(m) ==
  LET save == SaveNonce(m)
      isSafe(n) == n <= save
  IN IF save = None \/ save = m.save THEN m
     ELSE [m EXCEPT !.save = save,
                    !.queue = SelectSeq(m.queue, LAMBDA n : ~isSafe(n)),
                    !.sent = @ \o [k \in DOMAIN SelectSeq(m.queue, isSafe) |->
                                     [nonce |-> SelectSeq(m.queue, isSafe)[k], params |-> params]]]
\* the sorted insertion of onWorkerNonce
InsertNonce(q, n) == SelectSeq(q, LAMBDA k : k < n) \o <<n>> \o SelectSeq(q, LAMBDA k : ~(k < n))

-----------------------------------------------------------------------------
(* Starting and stopping workers *)

\* stopWorker: the last worker of the list
StopWorker(m) ==
  ProcessNonceQueue([m EXCEPT !.w[Last(m.workers)].active = FALSE,
                              !.w[Last(m.workers)].stage = "terminated",
                              !.workers = Front(m.workers)])
RECURSIVE StopDownTo(_, _)
StopDownTo(m, n) == IF Len(m.workers) <= n THEN m ELSE StopDownTo(StopWorker(m), n)
StartOne(m) == LET x == CHOOSE y \in Unlaunched(m.w) : TRUE
               IN [m EXCEPT !.w = StartWorker(m.w, x), !.workers = Append(@, x)]
RECURSIVE StartUpTo(_, _)
StartUpTo(m, n) == IF Len(m.workers) >= n THEN m ELSE StartUpTo(StartOne(m), n)
\* startStopWorkers
StartStopWorkers(m, n) == StartUpTo(StopDownTo(m, n), n)
CanStart(m, n) == Cardinality(Unlaunched(m.w)) >= n - Len(m.workers)

\* setWorkerCount; startMiner is the first one
SetWorkerCount(n) ==
  /\ n # wanted /\ changes < MaxChanges /\ CanStart(M, n)
  /\ wanted' = n /\ changes' = changes + 1 /\ SetM(StartStopWorkers(M, n))
  /\ UNCHANGED <<params, nextNonce, hashed, found>>
QueueAfterChange(q) == <<>>
\* setPoWParams: another algorithm needs other workers, the rest is told to those that are ready
SetPoWParams(p) ==
  LET restart == (p \in OtherAlgo) # (params \in OtherAlgo)
      cleared == [M EXCEPT !.queue = QueueAfterChange(nonceQueue)]
  IN /\ p # params /\ changes < MaxChanges /\ params' = p /\ changes' = changes + 1
     /\ IF restart
        THEN CanStart([M EXCEPT !.workers = <<>>], wanted) /\ SetM(StartStopWorkers(StopDownTo(cleared, 0), wanted))
        ELSE SetM([cleared EXCEPT !.w = [x \in Worker |->
                     IF x \in AllWorkers(M) /\ w[x].ready
                     THEN [w[x] EXCEPT !.down = Append(@, [action |-> "setParams", params |-> p])] ELSE w[x]]])
     /\ UNCHANGED <<wanted, nextNonce, hashed, found>>

-----------------------------------------------------------------------------
(* Messages of a worker *)

\* the first test of onWorkerMessage
IsActive(x) == w[x].active
Received(x) == [w EXCEPT ![x].up = Tail(@)]
HasMessage(x, action) == w[x].up # <<>> /\ Head(w[x].up).action = action
Ignore == UNCHANGED <<workers, nonceQueue, lastSave, nextNonce, sent>>

\* onWorkerPreInit: the worker loads its code, unless it was terminated
OnWorkerPreInit(x) ==
  /\ w[x].stage = "preinit"
  /\ w' = [w EXCEPT ![x].stage = "loaded", ![x].up = Append(@, [action |-> "init"])]
  /\ UNCHANGED <<params, workers, wanted, nonceQueue, lastSave, nextNonce, changes, hashed, found, sent>>
\* getLimitedNonceRefillCount: with a hashrate limit the refill may be anything down to one
LimitedRefill(requested) == IF requested > 0 THEN 1..requested ELSE {0}
\* Mutant: the next range begins with the last nonce of this one.
NonceRangeShort(count) == nextNonce + count - 1
\* getNonceRange: the first nonce that is left
NonceRange(count) == nextNonce + count
GetNonceRange(count) == nextNonce' = NonceRange(count) /\ nextNonce + count - 1 <= MaxNonce
\* onWorkerInit of a mining worker
OnWorkerInit(x) ==
  /\ HasMessage(x, "init")
  /\ IF ~IsActive(x) THEN w' = Received(x) /\ Ignore
     ELSE \E count \in LimitedRefill(Prefill) :
       /\ GetNonceRange(count)
       /\ w' = [Received(x) EXCEPT ![x].ready = TRUE, ![x].lastNonce = nextNonce,
                  ![x].down = Append(@, [action |-> "setWork", params |-> params,
                                         first |-> nextNonce, last |-> nextNonce + count - 1])]
       /\ UNCHANGED <<workers, nonceQueue, lastSave, sent>>
  /\ UNCHANGED <<params, wanted, changes, hashed, found>>
\* onWorkerNonce: what was found with other parameters is ignored
OnWorkerNonce(x) ==
  /\ HasMessage(x, "nonce")
  /\ LET n == Head(w[x].up)
     IN IF ~IsActive(x) \/ n.params # params THEN w' = Received(x) /\ Ignore
        ELSE /\ SetM(ProcessNonceQueue([M EXCEPT !.w = [Received(x) EXCEPT ![x].lastNonce = n.nonce],
                                                 !.queue = InsertNonce(@, n.nonce)]))
             /\ UNCHANGED nextNonce
  /\ UNCHANGED <<params, wanted, changes, hashed, found>>
\* onWorkerStats: a worker that runs low gets another range
OnWorkerStats(x) ==
  /\ HasMessage(x, "stats")
  /\ LET s == Head(w[x].up)
         told == [Received(x) EXCEPT ![x].lastNonce = s.last]
     IN IF ~IsActive(x) THEN w' = Received(x) /\ Ignore
        ELSE IF s.nonces < Prefill /\ nextNonce <= MaxNonce
        THEN \E count \in LimitedRefill(Prefill - s.nonces) :
               /\ GetNonceRange(count)
               /\ SetM(ProcessNonceQueue([M EXCEPT !.w =
                    [told EXCEPT ![x].down = Append(@, [action |-> "addRange", first |-> nextNonce,
                                                        last |-> nextNonce + count - 1])]]))
        ELSE SetM(ProcessNonceQueue([M EXCEPT !.w = told])) /\ UNCHANGED nextNonce
  /\ UNCHANGED <<params, wanted, changes, hashed, found>>

-----------------------------------------------------------------------------
(* The worker's own thread *)

Runs(x) == w[x].stage = "loaded"
\* onCtrlAddRange: the range is begun at once only when no other is left
StartsAt(x, m) == IF w[x].ranges = <<>> THEN m.first ELSE w[x].workNonce
\* onCtrlSetWork, onCtrlAddRange, onCtrlSetParams
OnCtrlMessage(x) ==
  /\ Runs(x) /\ w[x].down # <<>>
  /\ LET m == Head(w[x].down)
         rest == [w EXCEPT ![x].down = Tail(@)]
     IN w' = CASE m.action = "setWork" ->
                    [rest EXCEPT ![x].params = m.params, ![x].ranges = <<[first |-> m.first, last |-> m.last]>>,
                                 ![x].workNonce = m.first]
               [] m.action = "addRange" ->
                    [rest EXCEPT ![x].workNonce = StartsAt(x, m),
                                 ![x].ranges = Append(@, [first |-> m.first, last |-> m.last])]
               [] m.action = "setParams" -> [rest EXCEPT ![x].params = m.params]
  /\ UNCHANGED <<params, workers, wanted, nonceQueue, lastSave, nextNonce, changes, hashed, found, sent>>
RangeDone(x) == w[x].workNonce >= w[x].ranges[1].last
Posts(x, m) == Append(w[x].up, m)
\* work: one nonce, whose hash may meet the difficulty
Work(x) ==
  /\ Runs(x) /\ w[x].ranges # <<>> /\ Len(w[x].up) < MaxQueue
  /\ LET nonce == w[x].workNonce
         left == IF RangeDone(x) THEN Tail(w[x].ranges) ELSE w[x].ranges
     IN /\ \E hit \in BOOLEAN :
             /\ w' = [w EXCEPT ![x].ranges = left,
                               ![x].workNonce = IF RangeDone(x) /\ left # <<>> THEN left[1].first ELSE @ + 1,
                               ![x].up = IF hit THEN Posts(x, [action |-> "nonce", nonce |-> nonce,
                                                               params |-> w[x].params]) ELSE @]
             /\ found' = IF hit THEN found \cup {<<nonce, w[x].params>>} ELSE found
        /\ hashed' = hashed \cup {nonce}
  /\ UNCHANGED <<params, workers, wanted, nonceQueue, lastSave, nextNonce, changes, sent>>
NoncesLeft(x) ==
  IF w[x].ranges = <<>> THEN 0
  ELSE FoldLeft(LAMBDA n, r : n + (r.last - r.first + 1), w[x].ranges[1].last - w[x].workNonce, Tail(w[x].ranges))
\* collectStats, every two seconds
CollectStats(x) ==
  /\ Runs(x) /\ w[x].params # None /\ Len(w[x].up) < MaxQueue /\ ~\E k \in DOMAIN w[x].up : w[x].up[k].action = "stats"
  /\ w' = [w EXCEPT ![x].up = Posts(x, [action |-> "stats", last |-> w[x].workNonce, nonces |-> NoncesLeft(x)])]
  /\ UNCHANGED <<params, workers, wanted, nonceQueue, lastSave, nextNonce, changes, hashed, found, sent>>

Next ==
  \/ \E n \in 0..MaxCount : SetWorkerCount(n)
  \/ \E p \in Params : SetPoWParams(p)
  \/ \E x \in Worker : \/ OnWorkerPreInit(x) \/ OnWorkerInit(x) \/ OnWorkerNonce(x) \/ OnWorkerStats(x)
                       \/ OnCtrlMessage(x) \/ Work(x) \/ CollectStats(x)
Spec == Init /\ [][Next]_vars

-----------------------------------------------------------------------------
\* The nonces a worker has still to try, as far as the worker and the messages to it know.
Ahead(x) ==
  LET rest(r, from) == {n \in 1..(MaxNonce + 1) : from <= n /\ n <= r.last}
      own == UNION {rest(w[x].ranges[k], IF k = 1 THEN w[x].workNonce ELSE w[x].ranges[k].first)
                     : k \in DOMAIN w[x].ranges}
      coming == UNION {rest(w[x].down[k], w[x].down[k].first)
                        : k \in {j \in DOMAIN w[x].down : w[x].down[j].action # "setParams"}}
  IN own \cup coming

\* The miner's lists hold what their types allow: the queue is sorted, and every worker in
\* the list is active.
TypeOK ==
  /\ \A k \in 1..(Len(nonceQueue) - 1) : nonceQueue[k] < nonceQueue[k + 1]
  /\ \A x \in Worker : w[x].active = (x \in AllWorkers(M))
  /\ Len(workers) = wanted

\* No nonce is tried twice: the ranges of the workers that run never overlap with each other
\* or with what was tried before, also after a worker was replaced.
NoNonceTwice ==
  /\ \A x \in Worker : Runs(x) => Ahead(x) \cap hashed = {}
  /\ \A x, y \in Worker : x # y /\ Runs(x) /\ Runs(y) => Ahead(x) \cap Ahead(y) = {}

\* Shares reach the session in strictly increasing order of their nonces, which is what the
\* server requires, whichever worker found them and whenever workers come and go.
SharesIncrease == \A k \in 1..(Len(sent) - 1) : sent[k].nonce < sent[k + 1].nonce

\* Every share was found, and with the parameters it is submitted under.
SharesAreFound == \A k \in DOMAIN sent : <<sent[k].nonce, sent[k].params>> \in found
=============================================================================
