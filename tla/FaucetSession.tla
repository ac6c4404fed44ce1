---------------------------- MODULE FaucetSession ----------------------------
(***************************************************************************)
(* One session of the faucet (src/src/session/FaucetSession.ts) with its   *)
(* row in the session table, the reward chain and the session registry of  *)
(* SessionManager, and the shutdown of the process.                        *)
(*                                                                         *)
(* Two promise chains work on a session at the same time: the "chain"      *)
(* (SessionManager.rewardOperation: rewards, penalties, completion,        *)
(* failure, timeout, one after the other) and the "saver"                  *)
(* (FaucetSession.persistencePromise: saves, one after the other).  Each   *)
(* may have one database call in flight: it is issued, executed (or fails  *)
(* before or after its effect) and answered.  Awaiting persistencePromise  *)
(* is a "tail" entry in the queue of saves.                                *)
(***************************************************************************)
EXTENDS Integers, Sequences

CONSTANTS
  MinDropAmount,  \* faucetConfig.minDropAmount
  MaxDropAmount,  \* faucetConfig.maxDropAmount, the default reward
  MaxRequests,    \* bound on reward, penalty, completion and failure requests
  MaxData,        \* bound on changes of the session data
  MaxDbErrors,    \* bound on database calls that raise an error
  MaxRestarts     \* bound on crashes and restarts

SessionAssumption ==
  /\ MinDropAmount \in Nat /\ MaxDropAmount \in Nat
  /\ MaxRequests \in Nat /\ MaxData \in Nat /\ MaxDbErrors \in Nat /\ MaxRestarts \in Nat

VARIABLES
  row,         \* the row of the session
  mem,         \* the FaucetSession object
  timer,       \* saveTimer is set
  rollback,    \* startRollbacks: none, registered, ran or cleared
  reserved,    \* the session holds its reservation in the admission ledger
  registered,  \* the session is in SessionManager.faucetSessions
  start,       \* where startSession stands
  queue,       \* operations of the reward chain, the first one is running
  chain,       \* locals of the running operation
  saves,       \* who asked for the saves of persistencePromise, first one running
  pc,          \* program point of each worker
  call,        \* database call of each worker
  phase,       \* open, stopped, closed, saving, exited or failedExit
  accounted,   \* what the SessionRewarded hooks were told, less penalties
  completions, \* how often the SessionComplete hooks ran
  requests, dbErrors, restarts   \* what the bounds count

vars == <<row, mem, timer, rollback, reserved, registered, start, queue, chain, saves,
          pc, call, phase, accounted, completions, requests, dbErrors, restarts>>

Workers == {"chain", "saver"}
FaucetSessionStatus == {"unknown", "starting", "running", "committing", "claimable", "failed"}

Absent == [status |-> "absent", drop |-> -1, data |-> 0, code |-> "none"]
StoreData(m) == [status |-> m.status, drop |-> m.drop, data |-> m.data, code |-> m.code]
IsTerminalStatus(status) == status \in {"claimable", "failed"}

NewSession ==
  [status |-> "unknown", drop |-> -1, data |-> 0, code |-> "none", dirty |-> FALSE,
   persist |-> "absent", snapshot |-> Absent, failure |-> "none", expected |-> "none",
   already |-> FALSE, failed |-> Absent, disposed |-> FALSE, completion |-> FALSE,
   cancel |-> FALSE, depth |-> 0]

NoOp == [kind |-> "none", listed |-> Absent, amount |-> 0, default |-> FALSE, owns |-> FALSE,
         reject |-> FALSE, expected |-> "none", already |-> FALSE, data |-> Absent]
NoCall == [state |-> "none", op |-> "none", data |-> Absent, expected |-> "none",
           reply |-> "none", read |-> Absent]

Init ==
  /\ row = Absent /\ mem = NewSession /\ timer = FALSE /\ rollback = "none"
  /\ reserved = FALSE /\ registered = FALSE /\ start = "new"
  /\ queue = <<>> /\ chain = NoOp /\ saves = <<>>
  /\ pc = [w \in Workers |-> "idle"] /\ call = [w \in Workers |-> NoCall]
  /\ phase = "open" /\ accounted = 0 /\ completions = 0
  /\ requests = 0 /\ dbErrors = 0 /\ restarts = 0

CanApplyRewards == phase = "open"
CanAcceptRewardOperations == phase \in {"open", "stopped"}
CanCommitReward(m) == m.status \in {"starting", "running"}
CanStartReward(m) == CanApplyRewards /\ CanCommitReward(m)
Up == phase \notin {"exited", "failedExit"}

\* A save that was requested starts in the same turn when no other is running.
Settled == pc["saver"] # "idle" \/ saves = <<>>

-----------------------------------------------------------------------------
(* Database *)

\* Each operation yields the new row and the reply.
InsertRunningSession(c) == IF row = Absent THEN <<c.data, "ok">> ELSE <<row, "error">>
UpdateRunningSession(c) == IF row.status = "running" THEN <<c.data, "ok">> ELSE <<row, "no">>

TransitionSession(c) == IF row.status = c.expected THEN <<c.data, "ok">> ELSE <<row, "no">>

TryTimeoutSession(c) ==
  IF row.status = c.data.status /\ row.data = c.data.data
  THEN <<[row EXCEPT !.status = "failed", !.code = "timeout"], "ok">> ELSE <<row, "no">>

Effect(c) ==
  CASE c.op = "insert"     -> InsertRunningSession(c)
    [] c.op = "update"     -> UpdateRunningSession(c)
    [] c.op = "transition" -> TransitionSession(c)
    [] c.op = "timeout"    -> TryTimeoutSession(c)
    [] c.op = "read"       -> <<row, "ok">>

\* The database executes the call of worker w; an error may hide that it did.
DbExecute(w) ==
  /\ call[w].state = "sent"
  /\ \E outcome \in {"answer", "lost", "error"} :
       /\ outcome # "answer" => dbErrors < MaxDbErrors
       /\ dbErrors' = IF outcome = "answer" THEN dbErrors ELSE dbErrors + 1
       /\ row' = IF outcome = "error" THEN row ELSE Effect(call[w])[1]
       /\ call' = [call EXCEPT ![w].state = "done", ![w].read = row',
                     ![w].reply = IF outcome = "answer" THEN Effect(call[w])[2] ELSE "error"]
  /\ UNCHANGED <<mem, timer, rollback, reserved, registered, start, queue, chain, saves,
                 pc, phase, accounted, completions, requests, restarts>>

Sent(op, data, expected) == [NoCall EXCEPT !.state = "sent", !.op = op, !.data = data,
                                           !.expected = expected]
Answered(w, at) == pc[w] = at /\ call[w].state = "done"
Reply(w) == call[w].reply
Read(w) == call[w].read

\* Worker w goes to point at, with a database call or without.
Goto(w, at, c) == pc' = [pc EXCEPT ![w] = at] /\ call' = [call EXCEPT ![w] = c]

-----------------------------------------------------------------------------
(* What a step makes of the session object *)

LazySaved(m) == [m EXCEPT !.dirty = TRUE]
LazyTimer == timer' = (timer \/ CanApplyRewards)

FinalizedFailed(m) == [m EXCEPT !.failure = "complete", !.dirty = FALSE, !.disposed = TRUE]
SynchronizedTerminal(m, r) ==
  [m EXCEPT !.status = r.status, !.drop = r.drop, !.data = r.data, !.code = r.code,
            !.dirty = FALSE, !.persist = "durable", !.failure = "complete", !.disposed = TRUE]
Claimable(m) == [m EXCEPT !.status = "claimable", !.dirty = FALSE, !.persist = "durable",
                          !.disposed = TRUE]

\* Mutant: the reservation is released when the session fails in memory.
ReleaseEarly(m) ==
  /\ mem' = m
  /\ reserved' = (reserved /\ m.status # "failed")
  /\ registered' = (registered /\ ~m.disposed)

\* releaseAdmission and notifySessionUpdate when the object becomes disposed.
Release(m) ==
  /\ mem' = m
  /\ reserved' = (reserved /\ ~m.disposed)
  /\ registered' = (registered /\ ~m.disposed)

\* What reconcileUncertainInsert makes of the row it read: <<object, outcome>>.
Reconciled(m, r) ==
  IF r = Absent THEN <<[m EXCEPT !.persist = "absent"], "absent">>
  ELSE IF r = m.snapshot THEN <<[m EXCEPT !.persist = "durable"], "durable">>
  ELSE IF IsTerminalStatus(r.status) THEN <<SynchronizedTerminal(m, r), "terminal">>
  ELSE <<m, "mismatch">>

RunStartRollbacks(m) ==
  rollback' = IF rollback # "registered" \/ m.failure # "complete" \/ m.persist = "uncertain"
              THEN rollback
              ELSE IF m.persist = "durable" /\ m.status # "failed"
              THEN IF IsTerminalStatus(m.status) THEN "cleared" ELSE rollback
              ELSE "ran"

-----------------------------------------------------------------------------
(* Ends of the operations of the two workers *)

\* The running operation of the chain ends; a failed one gives up the completion.
EndOperation(m, reject) ==
  /\ Release([m EXCEPT !.completion =
       @ /\ ~(chain.owns /\ ~m.disposed /\ (reject \/ chain.kind = "timeout"))])
  /\ queue' = Tail(queue) /\ chain' = NoOp
  /\ Goto("chain", "idle", NoCall)

\* A save ends: whoever asked for it continues.
EndSave(m, ok) ==
  LET who == Head(saves) IN
  /\ Release(m)
  /\ saves' = Tail(saves)
  /\ start' = IF who = "start" THEN IF ok THEN "saved" ELSE "saveError" ELSE start
  /\ phase' = IF who = "exit" THEN IF ok THEN "exited" ELSE "failedExit" ELSE phase
  /\ pc' = [pc EXCEPT !["saver"] = "idle",
                      !["chain"] = IF who # "timeout" THEN @ ELSE IF ok THEN "saved" ELSE "saveError"]
  /\ call' = [call EXCEPT !["saver"] = NoCall]

\* persistFailedSession returns or throws: in a save, or in finishFailedSession.
PersistFailedEnds(w, m, ok) ==
  /\ IF w = "saver"
     THEN /\ IF ok THEN RunStartRollbacks(m) ELSE UNCHANGED rollback
          /\ EndSave(m, ok) /\ UNCHANGED <<queue, chain>>
     ELSE /\ RunStartRollbacks(m)
          /\ EndOperation(m, chain.reject \/ ~ok) /\ UNCHANGED <<saves, start, phase>>
  /\ UNCHANGED <<row, timer, accounted, completions, requests, dbErrors, restarts>>

PersistFailedCalls(w, m, at, c) ==
  /\ mem' = m /\ Goto(w, at, c)
  /\ UNCHANGED <<row, timer, rollback, reserved, registered, start, queue, chain, saves,
                 phase, accounted, completions, requests, dbErrors, restarts>>

PersistFailedSession(w) ==
  IF mem.failure # "pending" THEN PersistFailedEnds(w, mem, TRUE)
  ELSE IF mem.already \/ mem.persist = "absent"
  THEN PersistFailedEnds(w, FinalizedFailed(
         [mem EXCEPT !.persist = IF mem.already THEN "durable" ELSE @]), TRUE)
  ELSE IF mem.persist = "uncertain"
  THEN PersistFailedCalls(w, mem, "failReconcile", Sent("read", Absent, "none"))
  ELSE PersistFailedCalls(w, mem, "failTransition", Sent("transition", mem.failed, mem.expected))

FailReconcile(w) ==
  /\ Answered(w, "failReconcile")
  /\ LET r == Reconciled(mem, Read(w)) IN
     IF Reply(w) = "error" \/ r[2] = "mismatch" THEN PersistFailedEnds(w, mem, FALSE)
     ELSE IF r[2] = "durable"
     THEN PersistFailedCalls(w, r[1], "failTransition", Sent("transition", mem.failed, mem.expected))
     ELSE PersistFailedEnds(w, IF r[2] = "absent" THEN FinalizedFailed(r[1]) ELSE r[1], TRUE)

FailTransition(w) ==
  /\ Answered(w, "failTransition")
  /\ IF Reply(w) = "ok"
     THEN PersistFailedEnds(w, FinalizedFailed([mem EXCEPT !.persist = "durable"]), TRUE)
     ELSE PersistFailedCalls(w, mem, "failRead", Sent("read", Absent, "none"))

FailRead(w) ==
  /\ Answered(w, "failRead")
  /\ IF Reply(w) = "error" THEN PersistFailedEnds(w, mem, FALSE)
     ELSE IF Read(w) = mem.failed
     THEN PersistFailedEnds(w, FinalizedFailed([mem EXCEPT !.persist = "durable"]), TRUE)
     ELSE IF IsTerminalStatus(Read(w).status)
     THEN PersistFailedEnds(w, SynchronizedTerminal(mem, Read(w)), TRUE)
     ELSE PersistFailedEnds(w, mem, FALSE)

-----------------------------------------------------------------------------
(* The saver: persistSession *)

SaverCalls(m, at, c) ==
  /\ mem' = m /\ Goto("saver", at, c)
  /\ UNCHANGED <<row, timer, rollback, reserved, registered, start, queue, chain, saves,
                 phase, accounted, completions, requests, dbErrors, restarts>>
SaverEnds(m, ok) ==
  /\ EndSave(m, ok)
  /\ UNCHANGED <<row, timer, rollback, queue, chain, accounted, completions,
                 requests, dbErrors, restarts>>

Insert(m, data) == SaverCalls([m EXCEPT !.persist = "uncertain", !.snapshot = data],
                              "insert", Sent("insert", data, "none"))

PersistRunningSession ==
  IF ~mem.dirty \/ mem.disposed \/ mem.status # "running" THEN SaverEnds(mem, TRUE)
  ELSE LET m == [mem EXCEPT !.dirty = FALSE] IN
       CASE m.persist = "absent"    -> Insert(m, StoreData(m))
         [] m.persist = "uncertain" -> SaverCalls(m, "reconcile", Sent("read", StoreData(m), "none"))
         [] m.persist = "durable"   -> SaverCalls(m, "update", Sent("update", StoreData(m), "none"))

PersistSession ==
  /\ Up /\ pc["saver"] = "idle" /\ saves # <<>> /\ Head(saves) # "tail"
  /\ start \notin {"saved", "saveError"}
  /\ CASE mem.failure = "pending"  -> PersistFailedSession("saver")
       [] mem.failure = "complete" -> PersistFailedEnds("saver", mem, TRUE)
       [] OTHER                    -> PersistRunningSession

\* The tail of the saves is reached: the chain goes on.
TailReached ==
  /\ Up /\ pc["saver"] = "idle" /\ saves # <<>> /\ Head(saves) = "tail"
  /\ saves' = Tail(saves)
  /\ pc' = [pc EXCEPT !["chain"] = IF @ = "commitTail" THEN "commit" ELSE "persist"]
  /\ UNCHANGED <<row, mem, timer, rollback, reserved, registered, start, queue, chain, call,
                 phase, accounted, completions, requests, dbErrors, restarts>>

SaveThrows(m) == SaverEnds([m EXCEPT !.dirty = TRUE], FALSE)

Reconcile ==
  /\ Answered("saver", "reconcile")
  /\ LET r == Reconciled(mem, Read("saver")) IN
     IF Reply("saver") = "error" \/ r[2] = "mismatch" THEN SaveThrows(mem)
     ELSE IF r[2] = "absent" THEN Insert(r[1], call["saver"].data) ELSE SaverEnds(r[1], TRUE)

Inserted ==
  /\ Answered("saver", "insert")
  /\ IF Reply("saver") = "ok" THEN SaverEnds([mem EXCEPT !.persist = "durable"], TRUE)
     ELSE SaverCalls(mem, "insertRead", Sent("read", Absent, "none"))

InsertRead ==
  /\ Answered("saver", "insertRead")
  /\ LET r == Reconciled(mem, Read("saver")) IN
     IF Reply("saver") = "error" THEN SaveThrows(mem)
     ELSE IF r[2] \in {"durable", "terminal"} THEN SaverEnds(r[1], TRUE) ELSE SaveThrows(r[1])

Updated ==
  /\ Answered("saver", "update")
  /\ CASE Reply("saver") = "ok"    -> SaverEnds(mem, TRUE)
       [] Reply("saver") = "no"    -> SaverCalls([mem EXCEPT !.dirty = TRUE], "updateSync",
                                                 Sent("read", Absent, "none"))
       [] Reply("saver") = "error" -> SaveThrows(mem)

UpdateSync ==
  /\ Answered("saver", "updateSync")
  /\ IF Reply("saver") = "error" \/ ~IsTerminalStatus(Read("saver").status) THEN SaveThrows(mem)
     ELSE SaverEnds(SynchronizedTerminal(mem, Read("saver")), TRUE)

-----------------------------------------------------------------------------
(* The chain: failures *)

ChainGoes(m, l, at, c) ==
  /\ mem' = m /\ chain' = l /\ Goto("chain", at, c)
  /\ UNCHANGED <<row, rollback, reserved, registered, start, queue, phase,
                 requests, dbErrors, restarts>>

\* The part of finishFailedSession up to its first await; l holds the locals.
FinishFailedSession(m, l, code, runHooks) ==
  LET failing == [m EXCEPT !.failure = "preparing", !.code = code, !.status = "failed", !.dirty = TRUE]
      expected == IF l.expected # "none" THEN l.expected
                  ELSE IF m.status = "committing" THEN "running" ELSE m.status
      locals == [l EXCEPT !.expected = expected]
      pending == [failing EXCEPT !.failure = "pending", !.expected = expected,
                                 !.already = l.already, !.failed = StoreData(failing)]
  IN IF m.disposed
     THEN /\ EndOperation(m, l.reject)
          /\ UNCHANGED <<row, timer, rollback, saves, start, phase, completions,
                         requests, dbErrors, restarts>>
     ELSE IF m.failure # "none"
     THEN /\ ChainGoes(m, l, "tail", NoCall)
          /\ saves' = Append(saves, "tail") /\ UNCHANGED <<timer, completions>>
     ELSE /\ timer' = FALSE
          /\ IF runHooks /\ m.status \in {"running", "committing"}
             THEN /\ ChainGoes(failing, locals, "failHooks", NoCall)
                  /\ completions' = completions + 1 /\ UNCHANGED saves
             ELSE /\ ChainGoes(pending, locals, "tail", NoCall)
                  /\ saves' = Append(saves, "tail") /\ UNCHANGED completions

\* The SessionComplete hooks of a failed session end; an error is only collected.
FailHooksEnd ==
  /\ pc["chain"] = "failHooks"
  /\ \E thrown \in BOOLEAN :
       ChainGoes([mem EXCEPT !.failure = "pending", !.expected = chain.expected,
                             !.already = chain.already, !.failed = StoreData(mem)],
                 [chain EXCEPT !.reject = @ \/ thrown], "tail", NoCall)
  /\ saves' = Append(saves, "tail")
  /\ UNCHANGED <<timer, accounted, completions>>

PersistFailure == pc["chain"] = "persist" /\ PersistFailedSession("chain")

-----------------------------------------------------------------------------
(* The chain: completion *)

\* finishSession after the default reward.
FinishSession(m, l) ==
  /\ UNCHANGED accounted
  /\ IF m.status # "running"
     THEN /\ EndOperation(m, l.reject)
          /\ UNCHANGED <<row, timer, rollback, saves, start, phase, completions,
                         requests, dbErrors, restarts>>
     ELSE IF m.drop < MinDropAmount THEN FinishFailedSession(m, l, "low", TRUE)
     ELSE /\ ChainGoes([m EXCEPT !.status = "committing", !.dirty = TRUE], l, "completing", NoCall)
          /\ timer' = FALSE /\ completions' = completions + 1 /\ UNCHANGED saves

\* The catch block of finishSession.
CompletionFails ==
  /\ FinishFailedSession(mem, [chain EXCEPT !.reject = TRUE, !.already = FALSE,
       !.expected = IF mem.status = "committing" THEN "running" ELSE "claimable"],
       "complete", FALSE)
  /\ UNCHANGED accounted

CompleteHooksEnd ==
  /\ pc["chain"] = "completing"
  /\ \/ /\ ChainGoes(mem, chain, "commitTail", NoCall)
        /\ saves' = Append(saves, "tail") /\ UNCHANGED <<timer, accounted, completions>>
     \/ CompletionFails

\* Mutant: the claimable row is made from the snapshot of the insert.
CommitSnapshot ==
  /\ pc["chain"] = "commit"
  /\ LET claimable == [mem.snapshot EXCEPT !.status = "claimable"] IN
     ChainGoes(mem, [chain EXCEPT !.data = claimable], "claimable",
               Sent("transition", claimable, "running"))
  /\ UNCHANGED <<timer, saves, accounted, completions>>

Commit ==
  /\ pc["chain"] = "commit"
  /\ LET claimable == [StoreData(mem) EXCEPT !.status = "claimable"] IN
     ChainGoes(mem, [chain EXCEPT !.data = claimable], "claimable",
               Sent("transition", claimable, "running"))
  /\ UNCHANGED <<timer, saves, accounted, completions>>

ChainReads(at) == ChainGoes(mem, chain, at, Sent("read", Absent, "none"))
                  /\ UNCHANGED <<timer, saves, accounted, completions>>
ChainEnds(m, reject) ==
  /\ EndOperation(m, reject)
  /\ UNCHANGED <<row, timer, rollback, saves, start, phase, accounted, completions,
                 requests, dbErrors, restarts>>

Committed ==
  /\ Answered("chain", "claimable")
  /\ CASE Reply("chain") = "ok"    -> ChainEnds(Claimable(mem), chain.reject)
       [] Reply("chain") = "no"    -> ChainReads("sync")
       [] Reply("chain") = "error" -> ChainReads("claimableRead")

CommitRead ==
  /\ Answered("chain", "claimableRead")
  /\ IF Reply("chain") = "error" THEN CompletionFails
     ELSE IF Read("chain") = chain.data THEN ChainEnds(Claimable(mem), chain.reject)
     ELSE IF IsTerminalStatus(Read("chain").status)
     THEN ChainEnds(SynchronizedTerminal(mem, Read("chain")), chain.reject)
     ELSE CompletionFails

\* synchronizeTerminalState without an observed row, in a completion or a timeout.
SyncRead ==
  /\ Answered("chain", "sync")
  /\ IF Reply("chain") # "error" /\ IsTerminalStatus(Read("chain").status)
     THEN ChainEnds(SynchronizedTerminal(mem, Read("chain")), chain.reject)
     ELSE IF chain.kind = "timeout" THEN ChainEnds(mem, TRUE) ELSE CompletionFails

-----------------------------------------------------------------------------
(* The chain: rewards and penalties *)

\* applyReward up to the SessionRewardFactor hooks.
ApplyReward(m, l) ==
  IF ~CanStartReward(m) \/ l.amount = 0
  THEN IF l.default THEN FinishSession(m, l) ELSE ChainEnds(m, FALSE)
  ELSE /\ ChainGoes([m EXCEPT !.depth = @ + 1], l, "factors", NoCall)
       /\ UNCHANGED <<timer, saves, accounted, completions>>

RewardReturns(m) == IF chain.default THEN FinishSession(m, chain) ELSE ChainEnds(m, FALSE)

\* The factor hooks settle: with a terminal intent, with an error, or with a factor.
FactorHooksEnd ==
  /\ pc["chain"] = "factors"
  /\ \E intent \in {"none", "complete", "failed"}, thrown \in BOOLEAN, scaled \in 0..chain.amount :
       LET m == [mem EXCEPT !.depth = @ - 1]
           l == [chain EXCEPT !.reject = thrown]
       IN /\ (intent # "none" \/ thrown) => scaled = 0
          /\ CASE intent = "failed" -> FinishFailedSession(m, l, "other", TRUE) /\ UNCHANGED accounted
               [] intent = "complete" /\ ~m.completion -> FinishSession(m, l)
               [] intent = "complete" /\ m.completion  -> IF thrown THEN ChainEnds(m, TRUE)
                                                                    ELSE RewardReturns(m)
               [] intent = "none" /\ thrown -> ChainEnds(m, TRUE)
               [] OTHER ->
                    IF ~CanStartReward(m) \/ m.cancel THEN RewardReturns(m)
                    ELSE /\ ChainGoes([m EXCEPT !.drop = (IF @ = -1 THEN 0 ELSE @) + scaled,
                                                !.dirty = TRUE], l, "accounting", NoCall)
                         /\ accounted' = accounted + scaled
                         /\ UNCHANGED <<timer, saves, completions>>

AccountingHooksEnd ==
  /\ pc["chain"] = "accounting"
  /\ \E intent \in {"none", "complete", "failed"}, thrown \in BOOLEAN :
       CASE thrown \/ intent = "failed" ->
              FinishFailedSession(mem, [chain EXCEPT !.reject = thrown], "other", TRUE)
              /\ UNCHANGED accounted
         [] ~thrown /\ intent = "complete" -> FinishSession(mem, chain)
         [] ~thrown /\ intent = "none" ->
              IF mem.dirty /\ CanCommitReward(mem) /\ ~chain.default
              THEN /\ EndOperation(LazySaved(mem), FALSE) /\ LazyTimer
                   /\ UNCHANGED <<row, rollback, saves, start, phase, accounted, completions,
                                  requests, dbErrors, restarts>>
              ELSE RewardReturns(mem)

ApplyPenalty(m, l) ==
  IF ~CanStartReward(m) THEN ChainEnds(m, FALSE)
  ELSE LET drop == IF m.drop = -1 THEN 0 ELSE m.drop
           amount == IF l.amount > drop THEN drop ELSE l.amount
       IN /\ EndOperation([LazySaved(m) EXCEPT !.drop = drop - amount], FALSE) /\ LazyTimer
          /\ accounted' = accounted - amount
          /\ UNCHANGED <<row, rollback, saves, start, phase, completions,
                         requests, dbErrors, restarts>>

ApplyDropAmount(m, l) ==
  IF m.drop # -1 \/ ~CanStartReward(m) THEN ChainEnds(m, FALSE)
  ELSE IF l.amount > 0 THEN ApplyReward([m EXCEPT !.drop = 0], l)
  ELSE /\ EndOperation([LazySaved(m) EXCEPT !.drop = 0], FALSE) /\ LazyTimer
       /\ UNCHANGED <<row, rollback, saves, start, phase, accounted, completions,
                      requests, dbErrors, restarts>>

-----------------------------------------------------------------------------
(* The chain: timeouts *)

ApplyTimeout(m, l) ==
  IF ~registered
  THEN /\ ChainGoes(m, l, "bareTimeout", Sent("timeout", l.listed, "none"))
       /\ UNCHANGED <<timer, saves, accounted, completions>>
  ELSE IF m.failure = "pending"
  THEN /\ ChainGoes(m, l, "retry", NoCall) /\ saves' = Append(saves, "timeout")
       /\ timer' = FALSE /\ UNCHANGED <<accounted, completions>>
  ELSE IF m.completion \/ m.status # "running" THEN ChainEnds(m, FALSE)
  ELSE /\ ChainGoes([m EXCEPT !.completion = TRUE], [l EXCEPT !.owns = TRUE], "timeoutSave", NoCall)
       /\ saves' = Append(saves, "timeout")
       /\ timer' = FALSE /\ UNCHANGED <<accounted, completions>>

\* The save before the timeout is done (without ownership: it was only a retry).
TimeoutSaved ==
  /\ pc["chain"] \in {"saved", "saveError"}
  /\ IF pc["chain"] = "saveError" \/ ~chain.owns \/ mem.status # "running"
     THEN ChainEnds(mem, pc["chain"] = "saveError")
     ELSE /\ ChainGoes(mem, chain, "timeout", Sent("timeout", StoreData(mem), "none"))
          /\ UNCHANGED <<timer, saves, accounted, completions>>

TimedOut(m) == FinishFailedSession(m, [chain EXCEPT !.already = TRUE], "timeout", TRUE)
               /\ UNCHANGED accounted

TimeoutDecided ==
  /\ Answered("chain", "timeout")
  /\ CASE Reply("chain") = "ok"    -> TimedOut(mem)
       [] Reply("chain") = "no"    -> ChainReads("timeoutMissed")
       [] Reply("chain") = "error" -> ChainReads("timeoutRead")

TimeoutRead ==
  /\ Answered("chain", "timeoutRead")
  /\ LET r == Read("chain") IN
     IF Reply("chain") = "error" THEN ChainEnds(mem, TRUE)
     ELSE IF r.status = "failed" /\ r.code = "timeout"
     THEN TimedOut([mem EXCEPT !.persist = "durable"])
     ELSE IF IsTerminalStatus(r.status) THEN ChainEnds(SynchronizedTerminal(mem, r), FALSE)
     ELSE ChainEnds(mem, TRUE)

TimeoutMissed ==
  /\ Answered("chain", "timeoutMissed")
  /\ IF Reply("chain") # "error" /\ IsTerminalStatus(Read("chain").status)
     THEN ChainReads("sync") ELSE ChainEnds(mem, Reply("chain") = "error")

BareTimeout == Answered("chain", "bareTimeout") /\ ChainEnds(mem, Reply("chain") = "error")

-----------------------------------------------------------------------------
(* The chain starts its next operation *)

RunRewardOperation ==
  /\ Up /\ pc["chain"] = "idle" /\ queue # <<>>
  /\ LET l == Head(queue) IN
     CASE l.kind = "reward"  -> ApplyReward(mem, l)
       [] l.kind = "setDrop" -> ApplyDropAmount(mem, l)
       [] l.kind = "penalty" -> ApplyPenalty(mem, l)
       [] l.kind = "timeout" -> ApplyTimeout(mem, l)
       [] l.kind = "fail"    -> FinishFailedSession(mem, l, "other", TRUE) /\ UNCHANGED accounted
       [] l.kind = "complete" ->
            IF mem.drop = -1 /\ mem.depth = 0
            THEN ApplyReward(mem, [l EXCEPT !.default = TRUE, !.amount = MaxDropAmount])
            ELSE FinishSession(mem, l)

-----------------------------------------------------------------------------
(* Requests to the session *)

Op(kind, amount) == [NoOp EXCEPT !.kind = kind, !.amount = amount,
                                 !.owns = kind \in {"complete", "fail"}]

\* completeSession and setSessionFailed from outside the reward hooks.
Terminal(m, kind) ==
  IF m.completion \/ ~CanAcceptRewardOperations \/ (kind = "complete" /\ m.status # "running")
  THEN mem' = m /\ UNCHANGED queue
  ELSE /\ mem' = [m EXCEPT !.completion = TRUE, !.cancel = @ \/ m.depth > 0]
       /\ queue' = Append(queue, Op(kind, 0))

unchangedByRequest == <<row, reserved, registered, chain, saves, pc, call,
                        accounted, completions, dbErrors, restarts>>

\* addReward, subPenalty, completeSession and setSessionFailed of a started session.
Request(kind) ==
  /\ start = "done" /\ CanAcceptRewardOperations /\ requests < MaxRequests
  /\ requests' = requests + 1
  /\ IF kind \in {"reward", "penalty"}
     THEN queue' = Append(queue, Op(kind, 1)) /\ UNCHANGED mem
     ELSE Terminal(mem, kind) /\ (mem' # mem)
  /\ UNCHANGED unchangedByRequest /\ UNCHANGED <<timer, rollback, start, phase>>

\* setSessionData of a module; modules are stopped before the sessions are saved.
SetSessionData ==
  /\ start \in {"hooks", "saving", "done"} /\ phase \in {"open", "stopped", "closed"}
  /\ mem.data < MaxData
  /\ mem' = LazySaved([mem EXCEPT !.data = @ + 1]) /\ LazyTimer
  /\ UNCHANGED unchangedByRequest /\ UNCHANGED <<rollback, start, queue, phase, requests>>

SaveTimer ==
  /\ timer /\ Up
  /\ timer' = FALSE /\ saves' = Append(saves, "timer")
  /\ UNCHANGED <<row, mem, rollback, reserved, registered, start, queue, chain, pc, call,
                 phase, accounted, completions, requests, dbErrors, restarts>>

\* processSessionTimeouts lists the row, long after the start of the session.
ProcessSessionTimeouts ==
  /\ CanApplyRewards /\ row.status \notin {"absent", "failed"} /\ start = "done"
  /\ \A i \in DOMAIN queue : queue[i].kind # "timeout"
  /\ queue' = Append(queue, [Op("timeout", 0) EXCEPT !.listed = row])
  /\ UNCHANGED unchangedByRequest /\ UNCHANGED <<mem, timer, rollback, start, phase, requests>>

-----------------------------------------------------------------------------
(* startSession *)

unchangedByStart == <<row, chain, pc, call, phase, accounted, completions,
                      requests, dbErrors, restarts>>

StartSession ==
  /\ start = "new" /\ phase = "open"
  /\ start' = "hooks" /\ reserved' = TRUE
  /\ mem' = [mem EXCEPT !.status = "starting"]
  /\ UNCHANGED unchangedByStart /\ UNCHANGED <<timer, rollback, registered, queue, saves>>

RegisterStartRollback ==
  /\ start = "hooks" /\ rollback = "none" /\ rollback' = "registered"
  /\ UNCHANGED unchangedByStart
  /\ UNCHANGED <<mem, timer, reserved, registered, start, queue, saves>>

\* A SessionStart hook sets the drop amount and awaits it.
SetDropAmount(amount) ==
  /\ start = "hooks" /\ CanAcceptRewardOperations /\ mem.drop = -1 /\ queue = <<>>
  /\ queue' = Append(queue, Op("setDrop", amount))
  /\ UNCHANGED unchangedByStart
  /\ UNCHANGED <<mem, timer, rollback, reserved, registered, start, saves>>

\* A SessionStart hook throws: failStart.
StartFails ==
  /\ start = "hooks" /\ queue = <<>> /\ start' = "done" /\ Terminal(mem, "fail")
  /\ UNCHANGED unchangedByStart /\ UNCHANGED <<timer, rollback, reserved, registered, saves>>

Activate ==
  /\ start = "hooks" /\ queue = <<>> /\ start' = IF mem.status = "failed" THEN "done" ELSE "saving"
  /\ IF mem.status = "failed" THEN UNCHANGED <<mem, timer, registered, saves>>
     ELSE /\ mem' = [mem EXCEPT !.status = "running", !.dirty = TRUE]
          /\ registered' = TRUE /\ saves' = Append(saves, "start") /\ timer' = FALSE
  /\ UNCHANGED unchangedByStart /\ UNCHANGED <<rollback, reserved, queue>>

\* The first save is durable; tryProceedSession completes a session without tasks.
Activated ==
  /\ start = "saved" /\ start' = "done"
  /\ rollback' = IF rollback = "registered" THEN "cleared" ELSE rollback
  /\ UNCHANGED <<mem, queue>> \/ Terminal(mem, "complete")
  /\ UNCHANGED unchangedByStart /\ UNCHANGED <<timer, reserved, registered, saves>>

ActivationFails ==
  /\ start = "saveError" /\ start' = "done"
  /\ IF mem.status = "failed" THEN UNCHANGED <<mem, queue>> ELSE Terminal(mem, "fail")
  /\ UNCHANGED unchangedByStart /\ UNCHANGED <<timer, rollback, reserved, registered, saves>>

-----------------------------------------------------------------------------
(* Shutdown, crash and restart *)

unchangedByShutdown == <<row, mem, rollback, reserved, registered, start, queue, chain, pc, call,
                         accounted, completions, requests, dbErrors, restarts>>

StopRewardOperations ==
  /\ phase = "open" /\ phase' = "stopped"
  /\ timer' = (timer /\ ~registered)
  /\ UNCHANGED unchangedByShutdown /\ UNCHANGED saves

\* The producers (session starts and timeouts) are drained, admission closes.
CloseRewardOperations ==
  /\ phase = "stopped" /\ start \in {"new", "done"}
  /\ \A i \in DOMAIN queue : queue[i].kind # "timeout"
  /\ phase' = "closed"
  /\ UNCHANGED unchangedByShutdown /\ UNCHANGED <<timer, saves>>

SaveAllSessions ==
  /\ phase = "closed" /\ queue = <<>>
  /\ phase' = IF registered THEN "saving" ELSE "exited"
  /\ saves' = IF registered THEN Append(saves, "exit") ELSE saves
  /\ UNCHANGED unchangedByShutdown /\ UNCHANGED timer

\* The process ends, by a crash or after the shutdown, and restores the running session.
Restart ==
  /\ restarts < MaxRestarts /\ restarts' = restarts + 1
  /\ start # "new" /\ start' = "done"
  /\ mem' = IF row.status = "running"
            THEN [NewSession EXCEPT !.status = "running", !.drop = row.drop, !.data = row.data,
                                    !.persist = "durable"]
            ELSE [NewSession EXCEPT !.disposed = TRUE]
  /\ reserved' = (row.status = "running") /\ registered' = (row.status = "running")
  /\ rollback' = IF rollback = "registered" THEN "none" ELSE rollback
  /\ timer' = FALSE /\ queue' = <<>> /\ chain' = NoOp /\ saves' = <<>>
  /\ pc' = [w \in Workers |-> "idle"] /\ call' = [w \in Workers |-> NoCall]
  /\ phase' = "open"
  /\ accounted' = (IF row.drop = -1 THEN 0 ELSE row.drop)
  /\ completions' = 0
  /\ UNCHANGED <<row, requests, dbErrors>>

-----------------------------------------------------------------------------
Worker(w) ==
  \/ DbExecute(w)
  \/ FailReconcile(w) \/ FailTransition(w) \/ FailRead(w)

Saver == Reconcile \/ Inserted \/ InsertRead \/ Updated \/ UpdateSync

Chain ==
  \/ RunRewardOperation
  \/ FailHooksEnd \/ PersistFailure
  \/ CompleteHooksEnd \/ Commit \/ Committed \/ CommitRead \/ SyncRead
  \/ FactorHooksEnd \/ AccountingHooksEnd
  \/ TimeoutSaved \/ TimeoutDecided \/ TimeoutRead \/ TimeoutMissed \/ BareTimeout

Start ==
  \/ StartSession \/ RegisterStartRollback \/ StartFails \/ Activate
  \/ \E amount \in 0..1 : SetDropAmount(amount)

\* startSession goes on when its save ended, before the next save begins.
StartResumes == Activated \/ ActivationFails

Shutdown == StopRewardOperations \/ CloseRewardOperations \/ SaveAllSessions

Next ==
  \/ PersistSession \/ TailReached
  \/ Up /\ StartResumes
  \/ /\ Settled /\ Up
     /\ \/ \E w \in Workers : Worker(w)
        \/ Saver \/ Chain \/ Start \/ Shutdown
        \/ SetSessionData \/ SaveTimer \/ ProcessSessionTimeouts
        \/ \E kind \in {"reward", "penalty", "complete", "fail"} : Request(kind)
  \/ Settled /\ Restart

Spec == Init /\ [][Next]_vars

\* The steps that are weakly fair. Promises settle, hooks return, and the interval lists
\* sessions past sessionTimeout.
Weak == ({"persist", "save", "chain", "activate", "timeout"} \X {0}) \cup ({"worker"} \X Workers)
WeakStep(k) ==
  CASE k[1] = "persist" -> PersistSession \/ TailReached
    [] k[1] = "worker" -> Settled /\ Up /\ Worker(k[2])
    [] k[1] = "save" -> Settled /\ Up /\ Saver
    [] k[1] = "chain" -> Settled /\ Up /\ Chain
    [] k[1] = "activate" -> Up /\ ((Settled /\ Activate) \/ StartResumes)
    [] k[1] = "timeout" -> Settled /\ ProcessSessionTimeouts

-----------------------------------------------------------------------------
Row == [status : {"absent", "running", "claimable", "failed"}, drop : Nat \union {-1}, data : 0..MaxData,
        code : {"none", "low", "complete", "other", "timeout"}]

\* Types of the variables: the row, the object and the queues hold what the code stores there.
TypeOK ==
  /\ row \in Row
  /\ mem.status \in FaucetSessionStatus /\ mem.snapshot \in Row /\ mem.depth \in 0..1
  /\ mem.persist \in {"absent", "durable", "uncertain"}
  /\ mem.failure \in {"none", "preparing", "pending", "complete"}
  /\ rollback \in {"none", "registered", "ran", "cleared"}
  /\ \A i \in DOMAIN queue : queue[i].kind \in {"reward", "setDrop", "penalty", "complete", "fail", "timeout"}
  /\ \A i \in DOMAIN saves : saves[i] \in {"start", "timer", "timeout", "tail", "exit"}
  /\ phase \in {"open", "stopped", "closed", "saving", "exited", "failedExit"}

\* A start rollback (it returns a reserved voucher) ran only if the session never became
\* or will become payable: runStartRollbacks after an uncertain insert.
RollbackIsSafe == rollback = "ran" => row.status \in {"absent", "failed"}

\* Rollbacks are dropped without running only when the session became durable.
RollbackNotLost == rollback = "cleared" => row # Absent

\* A running row always holds its admission reservation: releaseAdmission is called by the
\* object only when the row is terminal or was never inserted.
RunningIsReserved == row.status = "running" => reserved

\* An object that reached its end agrees with the row (a claimable row may time out later).
DisposedAgrees ==
  (mem.disposed /\ mem.status # "unknown") =>
     \/ row.status = mem.status /\ (row.status = "claimable" => row.drop = mem.drop)
     \/ row = Absent /\ mem.status = "failed"
     \/ row.code = "timeout" /\ mem.status = "claimable"

\* What becomes claimable is what the SessionRewarded hooks were told, less the penalties.
ClaimableIsAccounted == row.status = "claimable" => row.drop = accounted

\* The SessionComplete hooks of a session run once in a process, also when the terminal
\* transition is retried.
CompletionHooksOnce == completions <= 1

\* A shutdown whose save step succeeded leaves in a running row, which the next start
\* restores, everything the object held.
CleanExitKeepsSession == (phase = "exited" /\ row.status = "running") => row = StoreData(mem)

\* What comes in the end: every stored running session ends, also after lost acknowledgements: the timeout
\* interval and the retried terminal transition reach it.
SessionEnded == row.status # "running" \/ phase # "open"

\* ... and the admission reservation of every session is given back.
ReservationEnded == ~reserved \/ phase # "open"

\* A terminal row changes only by the timeout of an unclaimed claimable session.
TerminalIsFinalStep ==
  IsTerminalStatus(row.status) =>
    row' = row \/ (row.status = "claimable" /\ row'.code = "timeout")
=============================================================================
