--------------------------- MODULE EthClaimManager ---------------------------
(***************************************************************************)
(* The payout pipeline of the faucet (src/src/eth/EthClaimManager.ts) with *)
(* the rows of the session table it compares and sets                      *)
(* (src/src/db/FaucetDatabase.ts), the nonce and the reservations of the   *)
(* wallet (src/src/eth/EthWalletManager.ts) and the chain.                 *)
(*                                                                         *)
(* Every promise chain of the manager is a task.  A database call is three *)
(* steps: the task issues it, the database executes it (one action of the  *)
(* "database" section, which may also lose the acknowledgement), and the   *)
(* task continues with the reply.  A crash loses all tasks and all memory. *)
(***************************************************************************)
EXTENDS Naturals, Sequences, FiniteSets

CONSTANTS
  Sessions,        \* session ids
  Legacy,          \* sessions stored as "processing" by an older version
  Requests,        \* concurrent POST /claimReward handlers
  NoSession,       \* a value that is not a session
  EthMaxPending,   \* faucetConfig.ethMaxPending
  EthQueueNoFunds, \* faucetConfig.ethQueueNoFunds
  OrderedReplies,  \* TRUE: SQLite worker; FALSE: MySQL connection pool
  RpcLag,          \* how many mined nonces an RPC endpoint may not know yet
  MaxIdx,          \* bound on the claim indexes handed out
  MaxSigned,       \* bound on the transactions signed
  MaxRestarts,     \* bound on crashes and shutdowns
  MaxDbErrors      \* bound on database calls that raise an error

ASSUME ClaimAssumption ==
  /\ IsFiniteSet(Sessions) /\ Legacy \subseteq Sessions
  /\ NoSession \notin Sessions
  /\ EthMaxPending \in Nat /\ RpcLag \in Nat
  /\ MaxIdx \in Nat \ {0} /\ MaxSigned \in Nat /\ MaxRestarts \in Nat /\ MaxDbErrors \in Nat
  /\ EthQueueNoFunds \in BOOLEAN /\ OrderedReplies \in BOOLEAN

VARIABLES
  db,          \* db[s]: status and claim columns of the row of session s
  booked,      \* sessions the SessionClaimed hooks have accounted for
  pool,        \* transactions some RPC endpoint has accepted
  mined,       \* transactions on the chain, with their outcome
  chainNonce,  \* the next nonce of the faucet wallet on the chain
  phase,       \* "down", "up" (initialized) or "closing" (disposed)
  claims,      \* claims[s]: the claim held by the EthClaimInfo object of s
  dict,        \* claimTxDict
  queue,       \* claimTxQueue
  pending,     \* pendingTxQueue, by session
  reserved,    \* reservedClaims of the wallet
  nonce,       \* walletState.nonce
  ready,       \* walletState.ready
  nextIdx,     \* lastClaimTxIdx
  task,        \* task[t]: where promise chain t stands
  stats,       \* stats[s]: claim statistics written for s
  signed,      \* transactions signed so far
  restarts, dbErrors   \* what the bounds count

durable == <<db, booked, pool, mined, chainNonce>>
wallet  == <<reserved, nonce, ready>>
memory  == <<claims, dict, queue, pending, nextIdx>>
bounds  == <<stats, signed, restarts, dbErrors>>
vars    == <<durable, phase, memory, wallet, task, bounds>>

-----------------------------------------------------------------------------
(* Claims, rows and tasks.                                                 *)

NoTx    == [s |-> NoSession, nonce |-> 0, sig |-> 0]
NoClaim == [st |-> "none", idx |-> 0, tx |-> NoTx]
NoRow   == [status |-> "none", claim |-> NoClaim]

\* ClaimTxStatus: the claims isClaimData accepts; "processing" is legacy.
ClaimTxStatus == {"queue", "prepared", "pending", "confirmed", "reverted", "failed"}

QueuedClaim(idx)      == [st |-> "queue", idx |-> idx, tx |-> NoTx]
WithStatus(claim, st) == [claim EXCEPT !.st = st]
WithTx(claim, tx)     == [claim EXCEPT !.st = "prepared", !.tx = tx]
IsClaimData(claim)    == claim.st \in ClaimTxStatus
IsActiveSigned(claim) == claim.st \in {"prepared", "pending"}

Queue         == <<"queue", NoSession>>
Request(r)    == <<"request", r>>
Broadcast(s)  == <<"broadcast", s>>
Receipt(s)    == <<"receipt", s>>
Completion(s) == <<"completion", s>>
Reconcilers   == {Broadcast(s) : s \in Sessions} \union {Receipt(s) : s \in Sessions}
Transitioners == {Queue} \union Reconcilers
Tasks == Transitioners \union {Request(r) : r \in Requests}
           \union {Completion(s) : s \in Sessions}

\* A task at program point p on behalf of session s, with no call under way.
At(p, s) == [pc |-> p, s |-> s, exp |-> NoClaim, new |-> NoClaim, reply |-> "none",
             row |-> NoRow, err |-> FALSE, try |-> 0]
Off == At("off", NoSession)
\* The task issues compareAndSetClaim(s, exp, new).
CasCall(s, exp, new) == [At("cas", s) EXCEPT !.exp = exp, !.new = new]
Goto(t, k) == task' = [task EXCEPT ![t] = k]

Up == phase = "up"

-----------------------------------------------------------------------------
(* The database.                                                           *)

\* Replies of one SQLite worker arrive in the order of execution.
Turn(t, op) ==
  /\ task[t].pc = op /\ task[t].reply = "none"
  /\ OrderedReplies => \A u \in Tasks : task[u].reply = "none"

Answer(t, reply) == task' = [task EXCEPT ![t].reply = reply]

\* An UPDATE of the row of s whose WHERE clause holds iff hit.  An error may
\* be raised after the update was committed.
Update(t, hit, newRow) ==
  LET after == IF hit THEN [db EXCEPT ![task[t].s] = newRow] ELSE db
  IN \/ /\ db' = after
        /\ Answer(t, IF hit THEN "ok" ELSE "no")
        /\ UNCHANGED dbErrors
     \/ /\ dbErrors < MaxDbErrors
        /\ dbErrors' = dbErrors + 1
        /\ db' \in {db, after}
        /\ Answer(t, "error")

DbFrame == UNCHANGED <<booked, pool, mined, chainNonce, phase, memory, wallet,
                       stats, signed, restarts>>

TryCreateClaim(t) ==
  LET r == db[task[t].s]
  IN /\ Turn(t, "create")
     /\ Update(t, r.status = "claimable" /\ r.claim = NoClaim,
               [status |-> "claiming", claim |-> task[t].new])
     /\ DbFrame

\* Mutant: a confirmed claim is published as FINISHED before accounting.
CompareAndSetFinishes(t) ==
  LET r == db[task[t].s]
      to == CASE task[t].new.st \in {"reverted", "failed"} -> "failed"
              [] task[t].new.st = "confirmed" -> "finished"
              [] OTHER -> "claiming"
  IN /\ Turn(t, "cas")
     /\ Update(t, r.status = "claiming" /\ r.claim = task[t].exp,
               [status |-> to, claim |-> task[t].new])
     /\ DbFrame

\* The row of a confirmed claim stays CLAIMING until it is accounted for.
CompareAndSetClaim(t) ==
  LET r == db[task[t].s]
      to == IF task[t].new.st \in {"reverted", "failed"} THEN "failed" ELSE "claiming"
  IN /\ Turn(t, "cas")
     /\ Update(t, r.status = "claiming" /\ r.claim = task[t].exp,
               [status |-> to, claim |-> task[t].new])
     /\ DbFrame

FinalizeConfirmedRow(t) ==
  LET r == db[task[t].s]
  IN /\ Turn(t, "finalize")
     /\ Update(t, r.status = "claiming" /\ r.claim = task[t].exp,
               [r EXCEPT !.status = "finished"])
     /\ DbFrame

GetSession(t) ==
  /\ Turn(t, "read")
  /\ \/ /\ task' = [task EXCEPT ![t].reply = "ok", ![t].row = db[task[t].s]]
        /\ UNCHANGED dbErrors
     \/ /\ dbErrors < MaxDbErrors
        /\ dbErrors' = dbErrors + 1
        /\ Answer(t, "error")
  /\ UNCHANGED db
  /\ DbFrame

\* Mutant: the timeout does not look at the claim column.
TimeoutAnyUnfinished(s) ==
  /\ Up
  /\ db[s].status \in {"claimable", "claiming"} /\ s \notin Legacy
  /\ db' = [db EXCEPT ![s].status = "failed"]
  /\ UNCHANGED <<booked, pool, mined, chainNonce, phase, memory, wallet, task, bounds>>

\* A claimable session outlives sessionTimeout before anyone claimed it.
TryTimeoutSession(s) ==
  /\ Up
  /\ db[s].status = "claimable" /\ db[s].claim = NoClaim
  /\ db' = [db EXCEPT ![s].status = "failed"]
  /\ UNCHANGED <<booked, pool, mined, chainNonce, phase, memory, wallet, task, bounds>>

-----------------------------------------------------------------------------
(* The chain and the RPC view of it.                                       *)

\* A transaction is minable when it carries the wallet's next nonce.
Mine(x) ==
  /\ x \in pool /\ x.nonce = chainNonce
  /\ \E ok \in BOOLEAN : mined' = mined \union {[tx |-> x, ok |-> ok]}
  /\ chainNonce' = chainNonce + 1
  /\ UNCHANGED <<db, booked, pool, phase, memory, wallet, task, bounds>>

\* What getTransactionCount may return: a lagging endpoint knows fewer mined
\* transactions, and some of the contiguous unmined ones are counted.
RpcCount(n) ==
  /\ n + RpcLag >= chainNonce
  /\ \A m \in chainNonce .. (n - 1) : \E x \in pool : x.nonce = m

\* Mutant: the reservations are not consulted.
NonceFromRpc(n, txs) == {n}

\* nonce of loadWalletState: the maximum of n and the nonces after txs.
NonceAbove(n, txs) ==
  {m \in {n} \union {x.nonce + 1 : x \in txs} :
     m >= n /\ \A x \in txs : m >= x.nonce + 1}

\* loadWalletState: on failure the wallet is not ready and its nonce is reset.
LoadWalletState(txs, failedNonce) ==
  \/ \E n \in 0 .. MaxSigned : /\ RpcCount(n)
                               /\ nonce' \in NonceAbove(n, txs)
                               /\ ready' = TRUE
  \/ nonce' \in failedNonce /\ ready' = FALSE

-----------------------------------------------------------------------------
(* createSessionClaim, called by one HTTP handler per request.             *)

\* The handler reads the session and starts the SessionClaim hooks.
ClaimReward(r, s) ==
  /\ Up /\ task[Request(r)].pc = "off"
  /\ db[s].status = "claimable"
  /\ Goto(Request(r), At("hooks", s))
  /\ UNCHANGED <<durable, phase, memory, wallet, bounds>>

\* The hooks (captcha) reject the request, the manager shuts down or the
\* session is already owned: the handler answers with an error.
RejectClaim(r) ==
  /\ task[Request(r)].pc = "hooks"
  /\ Goto(Request(r), Off)
  /\ UNCHANGED <<durable, phase, memory, wallet, bounds>>

\* The hooks accept: the claim gets the next index and is written to the row.
CreateClaim(r) ==
  LET k == task[Request(r)]
  IN /\ Up /\ k.pc = "hooks" /\ k.s \notin dict
     /\ nextIdx <= MaxIdx
     /\ Goto(Request(r), [At("create", k.s) EXCEPT !.new = QueuedClaim(nextIdx)])
     /\ nextIdx' = nextIdx + 1
     /\ UNCHANGED <<durable, phase, claims, dict, queue, pending, wallet, bounds>>

\* Only an acknowledged write makes the manager own the claim.
ClaimCreated(r) ==
  LET k == task[Request(r)]
  IN /\ k.pc = "create" /\ k.reply # "none"
     /\ IF k.reply = "ok"
          THEN /\ queue' = Append(queue, k.s)
               /\ dict' = dict \union {k.s}
               /\ claims' = [claims EXCEPT ![k.s] = k.new]
          ELSE UNCHANGED <<queue, dict, claims>>
     /\ Goto(Request(r), Off)
     /\ UNCHANGED <<durable, phase, pending, nextIdx, wallet, bounds>>

-----------------------------------------------------------------------------
(* transitionClaim, shared by the queue and the two reconciliation tasks.  *)

\* What transitionClaim does with the row it reads after an unsuccessful CAS.
ReadOutcome(k) ==
  LET retry == IF Up THEN "again" ELSE "lost"
  IN CASE k.reply = "error" -> retry
       [] k.reply # "error" /\ k.row.claim = k.new
            /\ ~(k.new.st = "confirmed" /\ k.row.status = "finished") -> "won"
       [] k.reply # "error" /\ k.row.claim = k.exp /\ k.row.status = "claiming" -> retry
       [] OTHER -> IF k.err THEN "threw" ELSE "lost"

\* "won" and "lost" are the results of transitionClaim, "threw" its exception;
\* after "lookup" it reads the row, after "again" it retries the CAS.
Outcome(k) ==
  CASE k.pc = "cas" /\ k.reply = "ok" -> "won"
    [] k.pc = "cas" /\ k.reply # "ok" -> "lookup"
    [] OTHER -> ReadOutcome(k)

\* The claim the EthClaimInfo object holds after the reply.
Learned(k) ==
  IF k.pc = "cas" /\ k.reply = "ok" THEN k.new
  ELSE IF k.pc = "read" /\ k.reply = "ok" /\ IsClaimData(k.row.claim) THEN k.row.claim
  ELSE claims[k.s]
Learn(k) == claims' = [claims EXCEPT ![k.s] = Learned(k)]

\* The claim passed to reconcileObservedTerminal, if it is called.
Observed(k) ==
  IF k.pc = "read" /\ k.reply = "ok" /\ IsClaimData(k.row.claim)
     /\ ~(k.row.status = "claiming" /\ k.row.claim = k.exp)
    THEN k.row.claim ELSE NoClaim

\* Mutant: the slot in pendingTxQueue is not freed.
ForgetKeepsSlot(s, tx) ==
  /\ dict' = dict \ {s}
  /\ reserved' = reserved \ {tx}
  /\ UNCHANGED pending

\* finishClaimReconciliation forgets the claim and its reservation.
Forget(s, tx) ==
  /\ dict' = dict \ {s}
  /\ pending' = pending \ {s}
  /\ reserved' = reserved \ {tx}

\* The filter of claimTxQueue: a claim is pushed once, so that at most one
\* entry goes.
WithoutClaim(q, s) ==
  IF \E i \in DOMAIN q : q[i] = s
    THEN LET i == CHOOSE j \in DOMAIN q : q[j] = s
         IN SubSeq(q, 1, i - 1) \o SubSeq(q, i + 1, Len(q))
    ELSE q

\* reconcileObservedTerminal, except for the completion task it may start;
\* the caller also cancels the reservations in cancelled.
ReconcileTerminal(s, c, cancelled) ==
  LET reverted == c.st = "reverted" /\ s \in dict \union pending
      failed   == c.st = "failed" /\ s \in dict
  IN /\ dict' = IF reverted \/ failed THEN dict \ {s} ELSE dict
     /\ pending' = IF reverted THEN pending \ {s} ELSE pending
     /\ reserved' = (IF reverted THEN reserved \ {c.tx} ELSE reserved) \ cancelled
     /\ queue' = IF failed THEN WithoutClaim(queue, s) ELSE queue

\* getConfirmedClaimCompletion: one completion per session at a time.
Completing(tasks, s) ==
  IF Up /\ tasks[Completion(s)].pc = "off"
    THEN [tasks EXCEPT ![Completion(s)] = At("hooks", s)]
    ELSE tasks
Reconciled(tasks, s, c) ==
  IF c.st = "confirmed" /\ s \in dict THEN Completing(tasks, s) ELSE tasks

TransitionRetry(t) ==
  LET k == task[t]
  IN /\ k.pc \in {"cas", "read"} /\ k.reply # "none"
     /\ \/ /\ Outcome(k) = "lookup"
           /\ Goto(t, [k EXCEPT !.pc = "read", !.reply = "none", !.err = k.reply = "error"])
        \/ /\ Outcome(k) = "again"
           /\ Goto(t, [CasCall(k.s, k.exp, k.new) EXCEPT !.try = k.try])
     /\ Learn(k)
     /\ UNCHANGED <<durable, phase, dict, queue, pending, nextIdx, wallet, bounds>>

\* transitionClaim of task t is over with this outcome.
Over(t, outcome) ==
  /\ task[t].pc \in {"cas", "read"} /\ task[t].reply # "none"
  /\ Outcome(task[t]) = outcome
  /\ Learn(task[t])

-----------------------------------------------------------------------------
(* processQueue: at most one queue task at a time.                         *)

QueueFrame == UNCHANGED <<durable, phase, stats, restarts, dbErrors>>

ProcessQueue ==
  /\ Up /\ task[Queue].pc = "off"
  /\ Goto(Queue, At("loop", NoSession))
  /\ QueueFrame /\ UNCHANGED <<memory, wallet, signed>>

QueueBlocked == Cardinality(pending) >= EthMaxPending \/ queue = <<>>

\* The loop shifts the next claim; without a ready wallet the claim fails.
ProcessQueueTx ==
  \E s \in Sessions :
     /\ Up /\ task[Queue].pc = "loop" /\ ~QueueBlocked
     /\ EthQueueNoFunds => ready
     /\ s = Head(queue)
     /\ queue' = Tail(queue)
     /\ Goto(Queue, IF claims[s].st # "queue" THEN At("loop", NoSession)
                    ELSE IF ready THEN At("sign", s)
                    ELSE CasCall(s, claims[s], WithStatus(claims[s], "failed")))
     /\ QueueFrame /\ UNCHANGED <<claims, dict, pending, nextIdx, wallet, signed>>

\* Mutant: the bytes are handed to the RPC before they are durable.
PrepareAndBroadcast ==
  LET s  == task[Queue].s
      tx == [s |-> s, nonce |-> nonce, sig |-> signed + 1]
  IN /\ Up /\ task[Queue].pc = "sign" /\ signed < MaxSigned
     /\ signed' = signed + 1
     /\ reserved' = reserved \union {tx}
     /\ nonce' = nonce + 1
     /\ pool' = pool \union {tx}
     /\ Goto(Queue, CasCall(s, claims[s], WithTx(claims[s], tx)))
     /\ UNCHANGED <<db, booked, mined, chainNonce, phase, stats, restarts, dbErrors, memory, ready>>

\* prepareClaimTx signs with the wallet nonce; the wallet reserves the funds
\* before the signed bytes are written to the row.
PrepareClaimTx ==
  LET s  == task[Queue].s
      tx == [s |-> s, nonce |-> nonce, sig |-> signed + 1]
  IN /\ Up /\ task[Queue].pc = "sign" /\ signed < MaxSigned
     /\ signed' = signed + 1
     /\ reserved' = reserved \union {tx}
     /\ nonce' = nonce + 1
     /\ Goto(Queue, CasCall(s, claims[s], WithTx(claims[s], tx)))
     /\ QueueFrame /\ UNCHANGED <<memory, ready>>

\* Signing fails or the wallet cannot cover amount and fee.
PrepareFails ==
  LET s == task[Queue].s
  IN /\ Up /\ task[Queue].pc = "sign"
     /\ Goto(Queue, CasCall(s, claims[s], WithStatus(claims[s], "failed")))
     /\ QueueFrame /\ UNCHANGED <<memory, wallet, signed>>

\* Shutdown aborts the signature or ends the loop.
QueueAborted ==
  /\ phase = "closing" /\ task[Queue].pc \in {"loop", "sign"}
  /\ Goto(Queue, Off)
  /\ QueueFrame /\ UNCHANGED <<memory, wallet, signed>>

\* The signed claim is durable: broadcast it and watch for its receipt.
QueuePrepared ==
  LET s == task[Queue].s
  IN /\ Over(Queue, "won") /\ task[Queue].new.st = "prepared"
     /\ IF Up
          THEN /\ pending' = pending \union {s}
               /\ task' = [task EXCEPT ![Queue] = At("loop", NoSession),
                                       ![Broadcast(s)] = At("send", s),
                                       ![Receipt(s)] = At("watch", s)]
          ELSE /\ UNCHANGED pending
               /\ Goto(Queue, At("loop", NoSession))
     /\ QueueFrame /\ UNCHANGED <<dict, queue, nextIdx, wallet, signed>>

\* failQueuedClaim succeeded.
QueueFailed ==
  /\ Over(Queue, "won") /\ task[Queue].new.st = "failed"
  /\ dict' = dict \ {task[Queue].s}
  /\ Goto(Queue, At("loop", NoSession))
  /\ QueueFrame /\ UNCHANGED <<queue, pending, nextIdx, wallet, signed>>

\* The transition did not happen: a reservation is cancelled.  An exception
\* also ends this run of the queue.
QueueLost ==
  LET k == task[Queue]
      next == IF Outcome(k) = "threw" THEN Off ELSE At("loop", NoSession)
  IN /\ \E o \in {"lost", "threw"} : Over(Queue, o)
     /\ ReconcileTerminal(k.s, Observed(k), {k.new.tx})
     /\ task' = Reconciled([task EXCEPT ![Queue] = next], k.s, Observed(k))
     /\ QueueFrame /\ UNCHANGED <<nextIdx, nonce, ready, signed>>

\* The loop ends; an idle wallet may be refreshed.
QueueDone ==
  /\ Up /\ task[Queue].pc = "loop"
  /\ QueueBlocked \/ EthQueueNoFunds
  /\ \/ UNCHANGED <<nonce, ready>>
     \/ pending = {} /\ LoadWalletState(reserved, {0})
  /\ Goto(Queue, Off)
  /\ QueueFrame /\ UNCHANGED <<memory, reserved, signed>>

-----------------------------------------------------------------------------
(* rebroadcastClaim.                                                       *)

ReconcileFrame == UNCHANGED <<db, booked, mined, chainNonce, phase, nextIdx, nonce, ready, bounds>>

\* waitForRetry is over: the loop condition of rebroadcastClaim and
\* awaitTxReceipt decides whether the claim still needs the task.
Retry(t, start) ==
  LET s == task[t].s
  IN /\ task[t].pc = "retry"
     /\ Goto(t, IF Up /\ s \in dict /\ IsActiveSigned(claims[s]) THEN At(start, s) ELSE Off)
     /\ ReconcileFrame /\ UNCHANGED <<pool, claims, dict, queue, pending, reserved>>

\* An endpoint acknowledges the bytes; a PREPARED claim becomes PENDING.
BroadcastAcked(s) ==
  /\ Up /\ task[Broadcast(s)].pc = "send"
  /\ pool' = pool \union {claims[s].tx}
  /\ Goto(Broadcast(s), IF claims[s].st = "prepared"
                          THEN CasCall(s, claims[s], WithStatus(claims[s], "pending"))
                          ELSE Off)
  /\ ReconcileFrame /\ UNCHANGED <<claims, dict, queue, pending, reserved>>

\* No trustworthy acknowledgement, although the bytes may have arrived.
BroadcastUnacked(s) ==
  /\ task[Broadcast(s)].pc = "send"
  /\ pool' \in {pool, pool \union {claims[s].tx}}
  /\ Goto(Broadcast(s), IF Up THEN At("retry", s) ELSE Off)
  /\ ReconcileFrame /\ UNCHANGED <<claims, dict, queue, pending, reserved>>

\* The transition to PENDING is over; only an exception repeats the loop.
BroadcastTransition(s) ==
  LET k == task[Broadcast(s)]
      next == IF Outcome(k) = "threw" /\ Up THEN At("retry", s) ELSE Off
  IN /\ \/ /\ Over(Broadcast(s), "won")
           /\ Goto(Broadcast(s), Off)
           /\ UNCHANGED <<dict, pending, reserved, queue>>
        \/ /\ \E o \in {"lost", "threw"} : Over(Broadcast(s), o)
           /\ ReconcileTerminal(s, Observed(k), {})
           /\ task' = Reconciled([task EXCEPT ![Broadcast(s)] = next], s, Observed(k))
     /\ ReconcileFrame /\ UNCHANGED pool

-----------------------------------------------------------------------------
(* awaitTxReceipt and settleClaim.                                         *)

\* settleClaim starts attempt n with the claim the object holds now.
Settle(s, c, outcome, n) ==
  IF IsActiveSigned(c) /\ n < 3
    THEN [CasCall(s, c, WithStatus(c, outcome)) EXCEPT !.try = n]
    ELSE Off

ReceiptArrives(s) ==
  /\ Up /\ task[Receipt(s)].pc = "watch"
  /\ \E m \in mined :
       /\ m.tx = claims[s].tx
       /\ Goto(Receipt(s), Settle(s, claims[s], IF m.ok THEN "confirmed" ELSE "reverted", 0))
  /\ ReconcileFrame /\ UNCHANGED <<pool, claims, dict, queue, pending, reserved>>

\* Shutdown aborts the receipt poll.
ReceiptAborted(s) ==
  /\ phase = "closing" /\ task[Receipt(s)].pc = "watch"
  /\ Goto(Receipt(s), Off)
  /\ ReconcileFrame /\ UNCHANGED <<pool, claims, dict, queue, pending, reserved>>

\* The terminal claim is durable: complete the payout or give up the claim.
ReceiptSettled(s) ==
  LET k == task[Receipt(s)]
  IN /\ Over(Receipt(s), "won")
     /\ IF k.new.st = "confirmed"
          THEN /\ task' = Completing([task EXCEPT ![Receipt(s)] = Off], s)
               /\ UNCHANGED <<dict, pending, reserved>>
          ELSE /\ Goto(Receipt(s), Off)
               /\ Forget(s, k.new.tx)
     /\ ReconcileFrame /\ UNCHANGED <<pool, queue>>

\* Another writer moved the row: the next attempt uses what was read.  After
\* an exception the receipt is fetched again.
ReceiptLost(s) ==
  LET k == task[Receipt(s)]
      next == IF Outcome(k) = "lost" THEN Settle(s, Learned(k), k.new.st, k.try + 1)
              ELSE IF Up THEN At("retry", s) ELSE Off
  IN /\ \E o \in {"lost", "threw"} : Over(Receipt(s), o)
     /\ ReconcileTerminal(s, Observed(k), {})
     /\ task' = Reconciled([task EXCEPT ![Receipt(s)] = next], s, Observed(k))
     /\ ReconcileFrame /\ UNCHANGED pool

-----------------------------------------------------------------------------
(* completeConfirmedClaim.                                                 *)

CompletionFrame == UNCHANGED <<db, pool, mined, chainNonce, phase, nextIdx, nonce, ready,
                               signed, restarts, dbErrors>>

\* The SessionClaimed hooks account for the payout.
ClaimedHooks(s) ==
  /\ task[Completion(s)].pc = "hooks"
  /\ booked' = booked \union {s}
  /\ Goto(Completion(s), IF Up /\ claims[s].st = "confirmed"
                           THEN [At("finalize", s) EXCEPT !.exp = claims[s]] ELSE Off)
  /\ CompletionFrame /\ UNCHANGED <<claims, dict, queue, pending, reserved, stats>>

\* A hook fails: the loop retries while the claim is confirmed.
ClaimedHooksFail(s) ==
  /\ task[Completion(s)].pc = "hooks"
  /\ Goto(Completion(s), IF Up /\ claims[s].st = "confirmed" THEN At("hooks", s) ELSE Off)
  /\ CompletionFrame /\ UNCHANGED <<booked, claims, dict, queue, pending, reserved, stats>>

\* An unsuccessful finalization reads the row before it decides.
FinalizeLookup(s) ==
  LET k == task[Completion(s)]
  IN /\ k.pc = "finalize" /\ k.reply \in {"no", "error"}
     /\ Goto(Completion(s), At("read", s))
     /\ CompletionFrame /\ UNCHANGED <<booked, claims, dict, queue, pending, reserved, stats>>

\* The session is FINISHED: forget the claim and record the statistics.  When
\* a stale read has replaced the confirmed claim in the object meanwhile, the
\* missing fee raises an exception before the reservation is released.
CompletionDone(s) ==
  LET k == task[Completion(s)]
      seen == k.pc = "read" /\ k.reply = "ok"
      now == IF seen THEN k.row.claim ELSE claims[s]
  IN /\ \/ k.pc = "finalize" /\ k.reply = "ok"
        \/ seen /\ k.row.status = "finished" /\ k.row.claim.st = "confirmed"
     /\ claims' = [claims EXCEPT ![s] = now]
     /\ IF now.st = "confirmed"
          THEN Forget(s, now.tx) /\ stats' = [stats EXCEPT ![s] = @ + 1]
          ELSE dict' = dict \ {s} /\ pending' = pending \ {s} /\ UNCHANGED <<reserved, stats>>
     /\ Goto(Completion(s), Off)
     /\ CompletionFrame /\ UNCHANGED <<booked, queue>>

\* The row is still CLAIMING and CONFIRMED, or could not be read: try again.
\* Any other row ends the completion.
FinalizeRetry(s) ==
  LET k == task[Completion(s)]
      now == IF k.reply = "ok" THEN k.row.claim ELSE claims[s]
      again == k.reply = "ok" => k.row.status = "claiming" /\ now.st = "confirmed"
      seen == IF again THEN NoClaim ELSE now
  IN /\ k.pc = "read" /\ k.reply # "none"
     /\ ~(k.reply = "ok" /\ k.row.status = "finished" /\ now.st = "confirmed")
     /\ claims' = [claims EXCEPT ![s] = now]
     /\ ReconcileTerminal(s, seen, {})
     /\ task' = Reconciled([task EXCEPT ![Completion(s)] =
                               IF again /\ Up /\ now.st = "confirmed"
                                 THEN [At("finalize", s) EXCEPT !.exp = now] ELSE Off],
                           s, seen)
     /\ CompletionFrame /\ UNCHANGED <<booked, stats>>

-----------------------------------------------------------------------------
(* Shutdown, crash and restart.                                            *)

\* dispose: no new work; tasks stop where they next look at the flag.
Dispose ==
  /\ Up /\ restarts < MaxRestarts
  /\ phase' = "closing"
  /\ UNCHANGED <<durable, memory, wallet, task, bounds>>

\* The process ends, drained or killed; only the durable state survives.
Stop ==
  /\ phase # "down" /\ restarts < MaxRestarts
  /\ phase' = "down"
  /\ restarts' = restarts + 1
  /\ claims' = [s \in Sessions |-> NoClaim]
  /\ dict' = {} /\ queue' = <<>> /\ pending' = {} /\ nextIdx' = 1
  /\ reserved' = {} /\ nonce' = 0 /\ ready' = FALSE
  /\ task' = [t \in Tasks |-> Off]
  /\ UNCHANGED <<durable, stats, signed, dbErrors>>

\* Sessions whose row is CLAIMING with a claim in one of the states st.
Claiming(st) == {s \in Sessions : db[s].status = "claiming" /\ db[s].claim.st \in st}
OrderedByIdx(q) == \A i, j \in DOMAIN q : i < j => db[q[i]].claim.idx <= db[q[j]].claim.idx
Arrangements(S) == {q \in [1 .. Cardinality(S) -> S] : \A s \in S : \E i \in DOMAIN q : q[i] = s}

\* initialize after the wallet was loaded: queued claims are queued again in
\* index order, signed claims are reserved and reconciled, confirmed ones are
\* completed and legacy ones are left alone.
Initialize ==
  LET queued    == Claiming({"queue"})
      active    == Claiming({"prepared", "pending"})
      confirmed == Claiming({"confirmed"})
      owned     == queued \union active \union confirmed
      txs       == {db[s].claim.tx : s \in active}
      idxs      == {db[s].claim.idx : s \in Claiming(ClaimTxStatus \union {"processing"})}
  IN /\ phase = "down"
     /\ phase' = "up"
     /\ claims' = [s \in Sessions |-> IF s \in owned THEN db[s].claim ELSE NoClaim]
     /\ dict' = owned
     /\ \E q \in Arrangements(queued) : OrderedByIdx(q) /\ queue' = q
     /\ pending' = active
     /\ \E m \in idxs \union {0} : (\A i \in idxs : i <= m) /\ nextIdx' = m + 1
     /\ reserved' = txs
     /\ LoadWalletState(txs, NonceAbove(0, txs))
     /\ task' = [t \in Tasks |->
                   IF t \in {Broadcast(s) : s \in active} THEN At("send", t[2])
                   ELSE IF t \in {Receipt(s) : s \in active} THEN At("watch", t[2])
                   ELSE IF t \in {Completion(s) : s \in confirmed} THEN At("hooks", t[2])
                   ELSE Off]
     /\ UNCHANGED <<durable, bounds>>

-----------------------------------------------------------------------------
Init ==
  /\ db = [s \in Sessions |->
             IF s \in Legacy
               THEN [status |-> "claiming", claim |-> [NoClaim EXCEPT !.st = "processing", !.idx = 1]]
               ELSE [status |-> "claimable", claim |-> NoClaim]]
  /\ booked = {} /\ pool = {} /\ mined = {} /\ chainNonce = 0
  /\ phase = "down"
  /\ claims = [s \in Sessions |-> NoClaim]
  /\ dict = {} /\ queue = <<>> /\ pending = {} /\ nextIdx = 1
  /\ reserved = {} /\ nonce = 0 /\ ready = FALSE
  /\ task = [t \in Tasks |-> Off]
  /\ stats = [s \in Sessions |-> 0]
  /\ signed = 0 /\ restarts = 0 /\ dbErrors = 0

Database(t) ==
  TryCreateClaim(t) \/ CompareAndSetClaim(t) \/ FinalizeConfirmedRow(t) \/ GetSession(t)

Create(r) == RejectClaim(r) \/ CreateClaim(r) \/ ClaimCreated(r)

RunQueue ==
  \/ ProcessQueueTx \/ PrepareClaimTx \/ PrepareFails \/ QueueAborted
  \/ QueuePrepared \/ QueueFailed \/ QueueLost \/ QueueDone

Rebroadcast(s) ==
  \/ Retry(Broadcast(s), "send")
  \/ BroadcastAcked(s) \/ BroadcastUnacked(s) \/ BroadcastTransition(s)

AwaitReceipt(s) ==
  \/ Retry(Receipt(s), "watch")
  \/ ReceiptArrives(s) \/ ReceiptAborted(s) \/ ReceiptSettled(s) \/ ReceiptLost(s)

Complete(s) ==
  \/ ClaimedHooks(s) \/ ClaimedHooksFail(s)
  \/ FinalizeLookup(s) \/ CompletionDone(s) \/ FinalizeRetry(s)

Next ==
  \/ \E t \in Tasks : Database(t)
  \/ \E t \in Transitioners : TransitionRetry(t)
  \/ \E r \in Requests : Create(r) \/ \E s \in Sessions : ClaimReward(r, s)
  \/ ProcessQueue \/ RunQueue
  \/ \E s \in Sessions : Rebroadcast(s) \/ AwaitReceipt(s) \/ Complete(s) \/ TryTimeoutSession(s)
  \/ \E x \in pool : Mine(x)
  \/ Dispose \/ Stop \/ Initialize

Spec == Init /\ [][Next]_vars

-----------------------------------------------------------------------------
(* Properties.                                                             *)

Txs == [s : Sessions, nonce : 0 .. MaxSigned, sig : 1 .. MaxSigned]
Claims == [st : ClaimTxStatus \union {"none", "processing"}, idx : 0 .. MaxIdx,
           tx : Txs \union {NoTx}]
Rows == [status : {"claimable", "claiming", "finished", "failed"}, claim : Claims]
TaskStates ==
  [pc : {"off", "hooks", "create", "loop", "sign", "send", "watch", "retry",
         "cas", "read", "finalize"},
   s : Sessions \union {NoSession}, exp : Claims, new : Claims,
   reply : {"none", "ok", "no", "error"}, row : Rows \union {NoRow},
   err : BOOLEAN, try : 0 .. 2]

\* Every variable has the shape the code gives it.
TypeOK ==
  /\ db \in [Sessions -> Rows]
  /\ booked \subseteq Sessions
  /\ pool \subseteq Txs
  /\ mined \subseteq [tx : Txs, ok : BOOLEAN]
  /\ chainNonce \in Nat
  /\ phase \in {"down", "up", "closing"}
  /\ claims \in [Sessions -> Claims]
  /\ dict \subseteq Sessions /\ pending \subseteq Sessions
  /\ queue \in Seq(Sessions)
  /\ reserved \subseteq Txs
  /\ nonce \in Nat /\ ready \in BOOLEAN
  /\ nextIdx \in Nat
  /\ task \in [Tasks -> TaskStates]
  /\ stats \in [Sessions -> Nat]
  /\ signed \in 0 .. MaxSigned
  /\ restarts \in Nat /\ dbErrors \in Nat

\* Sessions with a successful payout on the chain.
Paid == {m.tx.s : m \in {p \in mined : p.ok}}

\* Bytes reach the network only after they are in the row of their session,
\* and the row never holds other bytes afterwards: whatever crashes, lost
\* acknowledgements and retries happen, one transaction exists per session.
DurableBeforeBroadcast == \A x \in pool : db[x.s].claim.tx = x

\* A session is paid by at most one transaction.
AtMostOnePayout ==
  \A p, q \in mined : p.ok /\ q.ok /\ p.tx.s = q.tx.s => p = q

\* A session that failed was not paid and no transaction is left that could
\* still pay it.
FailedIsNeverPaid ==
  \A s \in Sessions : db[s].status = "failed" =>
    /\ s \notin Paid
    /\ \A x \in pool : x.s = s => \E m \in mined : m.tx = x

\* FINISHED is published only after the payout is on the chain and the
\* accounting hooks ran.
FinishedIsPaidAndBooked ==
  \A s \in Sessions : db[s].status = "finished" => s \in Paid \intersect booked

\* Two signed claims never compete for one wallet nonce.
NoNonceReuse ==
  LET live == Claiming({"prepared", "pending", "confirmed"})
  IN \A a, b \in live : db[a].claim.tx.nonce = db[b].claim.tx.nonce => a = b

\* While the manager runs, the wallet holds a reservation for every signed
\* claim that is not settled.
ActiveIsReserved ==
  Up => \A s \in Claiming({"prepared", "pending"}) : db[s].claim.tx \in reserved

\* ethMaxPending bounds the signed claims in flight, across restarts.
InFlightBound == Cardinality(Claiming({"prepared", "pending"})) <= EthMaxPending

\* A row may hold a claim the manager does not own only until the handler
\* that wrote it continues, or when the acknowledgement of that write was
\* lost: then nothing but a restart picks the claim up.
UnownedOnlyByLostAck ==
  Up => \A s \in Claiming(ClaimTxStatus) \ dict :
    \/ \E r \in Requests : task[Request(r)].s = s /\ task[Request(r)].reply \in {"ok", "error"}
    \/ dbErrors > 0 /\ db[s].claim.st = "queue"

\* Claim statistics are written at most once per session.
StatsOnce == \A s \in Sessions : stats[s] <= 1

\* Over one SQLite worker, where replies come in order: no wallet nonce is shared, every signed
\* claim has its reservation, and the statistics of a session are written once.
NoncesAreExclusive == TypeOK /\ NoNonceReuse /\ ActiveIsReserved /\ StatsOnce

\* The implementation mapping to the abstract ledger.
Ledger == INSTANCE ClaimLedger WITH row <- [s \in Sessions |-> db[s].status],
                                    paid <- Paid, booked <- booked
LedgerSpec == Ledger!LedgerSpec

\* Fairness.  Promises settle: the database answers, tasks continue and the
\* 2s interval starts the queue.  The RPC and the hooks do not fail forever,
\* accepted transactions are mined, and a stopped process is restarted.
Weak ==
  ({"queue", "run", "mine", "initialize", "stop"} \X {0}) \cup ({"database"} \X Tasks)
  \cup ({"retry"} \X Transitioners) \cup ({"create"} \X Requests)
  \cup ({"rebroadcast", "receipt", "complete"} \X Sessions)
WeakStep(k) ==
  CASE k[1] = "database" -> Database(k[2])
    [] k[1] = "retry" -> TransitionRetry(k[2])
    [] k[1] = "create" -> Create(k[2])
    [] k[1] = "queue" -> ProcessQueue
    [] k[1] = "run" -> RunQueue
    [] k[1] = "rebroadcast" -> Rebroadcast(k[2])
    [] k[1] = "receipt" -> AwaitReceipt(k[2])
    [] k[1] = "complete" -> Complete(k[2])
    [] k[1] = "mine" -> \E x \in pool : Mine(x)
    [] k[1] = "initialize" -> Initialize
    [] k[1] = "stop" -> phase = "closing" /\ Stop
\* Strongly fair are the steps that may fail: some broadcast and some hook succeeds.
Strong == {"timer", "caller"}
StrongStep(k) ==
  CASE k = "timer" -> \E s \in Sessions : BroadcastAcked(s)
    [] k = "caller" -> \E s \in Sessions : ClaimedHooks(s)

FairSpec == Spec /\ (\A k \in Weak : WF_vars(WeakStep(k))) /\ \A k \in Strong : SF_vars(StrongStep(k))

\* A confirmed payout is published: the session becomes FINISHED.
Published == \A s \in Sessions : db[s].claim.st = "confirmed" => db[s].status = "finished"
ConfirmedIsPublished == []<>Published

\* What comes in the end: every claim the manager owns is decided, paid and finished or failed,
\* every confirmed payout is published, and every slot of the pending queue is freed, so that
\* ethMaxPending cannot block the queue.
ClaimsDecided ==
  pending = {} /\ Published /\ \A s \in dict : db[s].status \in {"finished", "failed"}
=============================================================================
