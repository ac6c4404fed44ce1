---------------------------- MODULE PoWValidator ----------------------------
(***************************************************************************)
(* modules/pow/validator: the shares of all mining sessions are validated  *)
(* one at a time by a worker thread.  Sessions take turns, a session that  *)
(* was served has to pause, and a validation that is cancelled or times    *)
(* out while the worker computes it costs the worker: its generation is    *)
(* terminated and the next one started.  Handlers run to completion, so an *)
(* action is a whole handler; the worker and the lifecycle queue           *)
(* (lifecycleTail) are what runs beside them.                              *)
(***************************************************************************)
EXTENDS Naturals, FiniteSets, Sequences, SequencesExt, FiniteSetsExt

CONSTANTS
  Session,            \* mining sessions
  SharesPerSession,   \* bound on the shares of a session
  MaxGlobalPending,   \* limits.maxGlobalPending
  MaxSessionPending,  \* limits.maxSessionPending
  MaxFaults,          \* bound on worker failures and failing calls
  NoShare

LimitsAssumption ==
  /\ MaxSessionPending \in Nat \ {0} /\ MaxGlobalPending \in Nat
  /\ MaxSessionPending < MaxGlobalPending
  /\ SharesPerSession \in Nat /\ MaxFaults \in Nat

Share == Session \X (1..SharesPerSession)
Owner(x) == x[1]

VARIABLES
  v,         \* the validator: state, generation id, queues, timer
  worker,    \* generation -> "absent", "live", "dead", "stuck" (terminate() rejected)
  job,       \* the share the worker of the current generation computes
  answer,    \* its answer in transit to the main thread
  tail,      \* lifecycleTail: operations [kind, gen] that wait
  result,    \* share -> "new", "pending", "resolved", "rejected", "refused"
  faults

vars == <<v, worker, job, answer, tail, result, faults>>

Generation == 1..(MaxFaults + Cardinality(Share) + 2)

\* The validator as the constructor leaves it: generation 1 is starting.
Init ==
  /\ v = [kind |-> "starting", gen |-> 1, pending |-> {}, active |-> NoShare,
          queue |-> [s \in Session |-> <<>>], sched |-> <<>>, cooling |-> {}, timer |-> FALSE]
  /\ worker = [g \in Generation |-> IF g = 1 THEN "live" ELSE "absent"]
  /\ job = NoShare
  /\ answer = NoShare
  /\ tail = <<>>
  /\ result = [x \in Share |-> "new"]
  /\ faults = 0

PendingOf(w, s) == {x \in w.pending : Owner(x) = s}
ActiveSession(w) == IF w.active = NoShare THEN {} ELSE {Owner(w.active)}

-----------------------------------------------------------------------------
\* The session gets a turn, unless it has one already or is being served.
EnqueueValidation(w, x) ==
  LET s == Owner(x) IN
  [w EXCEPT !.queue[s] = Append(@, x),
            !.sched = IF s \in ActiveSession(w) \cup ToSet(@) THEN @ ELSE Append(@, s)]

Reschedule(w, s) ==
  IF w.queue[s] # <<>> /\ s \notin ToSet(w.sched) THEN [w EXCEPT !.sched = Append(@, s)] ELSE w

ReleaseScheduledValidation(w, x) ==
  LET s == Owner(x)
      rest == Remove(w.queue[s], x) IN
  IF w.active = x THEN Reschedule([w EXCEPT !.active = NoShare], s)
  ELSE [w EXCEPT !.queue[s] = rest, !.sched = IF rest = <<>> THEN Remove(@, s) ELSE @]

\* The session that was served pauses: its cooldown is at least one millisecond.
RecordActiveSessionWork(w, x) ==
  IF w.active = x THEN [w EXCEPT !.cooling = @ \cup {Owner(x)}] ELSE w

ReleaseValidation(w, x) ==
  ReleaseScheduledValidation([RecordActiveSessionWork(w, x) EXCEPT !.pending = @ \ {x}], x)

RejectAll(w) ==
  [w EXCEPT !.pending = {}, !.active = NoShare, !.queue = [s \in Session |-> <<>>],
            !.sched = <<>>, !.timer = FALSE, !.cooling = @ \cup ActiveSession(w)]

\* dispatchNextValidation: the first session in turn that does not pause; the
\* sessions it passes over go to the end, and a timer wakes up when all pause.
Dispatchable(w) == w.kind = "ready" /\ w.active = NoShare
SleepUntilReady(w) == [w EXCEPT !.timer = w.sched # <<>>]
Dispatch(w) ==
  LET free == {i \in DOMAIN w.sched : w.sched[i] \notin w.cooling /\ w.queue[w.sched[i]] # <<>>}
      i == CHOOSE k \in free : \A j \in free : k <= j
      s == w.sched[i]
      passed == SelectSeq(SubSeq(w.sched, 1, i - 1), LAMBDA t : w.queue[t] # <<>>)
  IN IF ~Dispatchable(w) THEN w
     ELSE IF free = {} THEN SleepUntilReady(w)
     ELSE [w EXCEPT !.active = Head(w.queue[s]), !.queue[s] = Tail(@), !.timer = FALSE,
                    !.sched = SubSeq(w.sched, i + 1, Len(w.sched)) \o passed]

Settle(xs, how) == result' = [x \in Share |-> IF x \in xs THEN how ELSE result[x]]

\* requestRestart of validator w: nothing stays pending, the worker's events are
\* cut off, and its termination is queued.
RequestRestart(w) ==
  /\ v' = [RejectAll(w) EXCEPT !.kind = "restarting"]
  /\ tail' = Append(tail, [kind |-> "restart", gen |-> w.gen])
  /\ job' = NoShare /\ answer' = NoShare

\* The validator becomes w after the shares xs are settled; a share it starts is
\* posted to the worker, and a postMessage that throws costs the worker.
Becomes(w, xs, how, ans) ==
  \/ /\ v' = w /\ answer' = ans
     /\ job' = IF w.active = v.active THEN job ELSE w.active
     /\ Settle(xs, how)
     /\ UNCHANGED <<tail, faults>>
  \/ /\ w.active \notin {v.active, NoShare} /\ faults < MaxFaults
     /\ faults' = faults + 1
     /\ RequestRestart(w)
     /\ result' = [x \in Share |-> IF x \in w.pending THEN "rejected"
                                   ELSE IF x \in xs THEN how ELSE result[x]]

-----------------------------------------------------------------------------
\* tryValidateShare refuses or admits the share.
Admissible(x) ==
  /\ v.kind = "ready"
  /\ Owner(x) \notin v.cooling
  /\ Cardinality(v.pending) < MaxGlobalPending
  /\ Cardinality(PendingOf(v, Owner(x))) < MaxSessionPending
TryValidateShare(x) ==
  /\ result[x] = "new"
  /\ IF Admissible(x)
     THEN Becomes(Dispatch(EnqueueValidation([v EXCEPT !.pending = @ \cup {x}], x)),
                  {x}, "pending", answer)
     ELSE Settle({x}, "refused") /\ UNCHANGED <<v, job, tail, answer, faults>>
  /\ UNCHANGED worker

\* Shares end without an answer: the worker that computes one is given up, a
\* share that waits just leaves the queue.
Released(xs) == Dispatch(FoldSet(LAMBDA x, w : ReleaseValidation(w, x), v, xs))
\* Mutant: the share in progress is only forgotten, its worker goes on.
DropQuietly(xs, forget) ==
  Becomes([Released(xs) EXCEPT !.cooling = @ \ forget], xs, "rejected", answer)
Drop(xs, forget) ==
  IF v.active \in xs
  THEN /\ RequestRestart([v EXCEPT !.cooling = @ \ forget])
       /\ Settle(v.pending, "rejected") /\ UNCHANGED faults
  ELSE Becomes([Released(xs) EXCEPT !.cooling = @ \ forget], xs, "rejected", answer)

\* cancelValidation, and onValidationTimeout of a pending share.
CancelValidation(x) == x \in v.pending /\ Drop({x}, {}) /\ UNCHANGED worker

\* cancelSession also forgets the session's pause.
CancelSession(s) ==
  /\ s \in v.cooling \/ PendingOf(v, s) # {}
  /\ Drop(PendingOf(v, s), {s})
  /\ UNCHANGED worker

\* dispose
Dispose ==
  /\ v.kind # "disposed"
  /\ v' = [RejectAll(v) EXCEPT !.kind = "disposed", !.cooling = {}]
  /\ Settle(v.pending, "rejected")
  /\ tail' = Append(tail, [kind |-> "dispose", gen |-> v.gen])
  /\ job' = NoShare /\ answer' = NoShare
  /\ UNCHANGED <<worker, faults>>

-----------------------------------------------------------------------------
\* The worker announces itself; onWorkerReady.
WorkerReady ==
  /\ v.kind = "starting" /\ worker[v.gen] = "live"
  /\ Becomes(Dispatch([v EXCEPT !.kind = "ready"]), {}, "pending", answer)
  /\ UNCHANGED worker

\* onCtrlValidate in the worker: a validity or an error is sent back.
WorkerAnswers ==
  /\ job # NoShare /\ worker[v.gen] = "live"
  /\ answer' = job /\ job' = NoShare
  /\ UNCHANGED <<v, worker, tail, result, faults>>

\* onWorkerValidated, onWorkerValidationError.
WorkerValidated ==
  /\ answer # NoShare
  /\ IF v.kind = "ready" /\ answer \in v.pending /\ answer = v.active
     THEN \E how \in {"resolved", "rejected"} :
            Becomes(Dispatch(ReleaseValidation(v, answer)), {answer}, how, NoShare)
     ELSE answer' = NoShare /\ UNCHANGED <<v, job, tail, result, faults>>
  /\ UNCHANGED worker

\* The worker fails or exits, or does not announce itself in time.
WorkerFailure ==
  /\ v.kind \in {"starting", "ready"} /\ faults < MaxFaults
  /\ RequestRestart(v) /\ Settle(v.pending, "rejected")
  /\ \E after \in {"live", "dead"} : worker' = [worker EXCEPT ![v.gen] = after]
  /\ faults' = faults + 1

\* The restart was not overtaken by a disposal.
StillRestarting(op) == op.kind = "restart" /\ v.kind = "restarting" /\ v.gen = op.gen
Replace(g, next) == worker' = [worker EXCEPT ![g] = "dead", ![g + 1] = next]
\* The head of lifecycleTail: terminate the worker, then start the next one.
LifecycleStep ==
  LET op == Head(tail) IN
  /\ tail # <<>> /\ tail' = Tail(tail)
  /\ \/ /\ StillRestarting(op)
        /\ v' = [v EXCEPT !.kind = "starting", !.gen = op.gen + 1]
        /\ Replace(op.gen, "live") /\ UNCHANGED faults
     \/ /\ ~StillRestarting(op) /\ UNCHANGED <<v, faults>>
        /\ IF worker[op.gen] = "stuck" THEN UNCHANGED worker ELSE Replace(op.gen, "absent")
     \* terminate() rejects, or the factory of the next worker throws
     \/ /\ faults < MaxFaults /\ faults' = faults + 1
        /\ v' = [v EXCEPT !.kind = IF StillRestarting(op) THEN "failed" ELSE @]
        /\ \/ worker' = [worker EXCEPT ![op.gen] = "stuck"]
           \/ StillRestarting(op) /\ Replace(op.gen, "absent")
  /\ UNCHANGED <<job, answer, result>>

\* Time passes: a pause ends; the dispatch timer fires.
CooldownEnds(s) ==
  /\ s \in v.cooling
  /\ v' = [v EXCEPT !.cooling = @ \ {s}]
  /\ UNCHANGED <<worker, job, answer, tail, result, faults>>
DispatchTimer ==
  /\ v.timer
  /\ Becomes(Dispatch([v EXCEPT !.timer = FALSE]), {}, "pending", answer)
  /\ UNCHANGED worker

Next ==
  \/ \E x \in Share : TryValidateShare(x) \/ CancelValidation(x)
  \/ \E s \in Session : CancelSession(s) \/ CooldownEnds(s)
  \/ Dispose \/ WorkerReady \/ WorkerAnswers \/ WorkerValidated \/ WorkerFailure
  \/ LifecycleStep \/ DispatchTimer

Spec == Init /\ [][Next]_vars

\* The steps that are weakly fair. Timers fire, pauses end, a live worker answers and
\* the lifecycle queue advances.  No share has to time out.
Weak ==
  ({"ready", "answer", "validated", "lifecycle", "dispatch"} \X {0})
  \cup ({"cooldown"} \X Session)
WeakStep(k) ==
  CASE k[1] = "ready" -> WorkerReady
    [] k[1] = "answer" -> WorkerAnswers
    [] k[1] = "validated" -> WorkerValidated
    [] k[1] = "lifecycle" -> LifecycleStep
    [] k[1] = "dispatch" -> DispatchTimer
    [] k[1] = "cooldown" -> CooldownEnds(k[2])

-----------------------------------------------------------------------------
TypeOK ==
  /\ v.kind \in {"starting", "ready", "restarting", "failed", "disposed"}
  /\ v.gen \in Generation /\ v.pending \subseteq Share /\ v.active \in Share \cup {NoShare}
  /\ v.queue \in [Session -> Seq(Share)] /\ v.sched \in Seq(Session)
  /\ v.cooling \subseteq Session /\ v.timer \in BOOLEAN
  /\ worker \in [Generation -> {"absent", "live", "dead", "stuck"}]
  /\ job \in Share \cup {NoShare} /\ answer \in Share \cup {NoShare}
  /\ result \in [Share -> {"new", "pending", "resolved", "rejected", "refused"}]
  /\ faults \in 0..MaxFaults

\* A share whose promise is open is being computed or waits in its session's
\* queue, exactly once: no share is lost between the maps, none counted twice.
PendingIsScheduled ==
  /\ v.pending = {x \in Share : result[x] = "pending"}
  /\ \A s \in Session :
       /\ ToSet(v.queue[s]) = PendingOf(v, s) \ {v.active}
       /\ IsInjective(v.queue[s])
  /\ v.active = NoShare \/ v.active \in v.pending

\* Round robin: the sessions in turn are the ones with waiting shares, each
\* once, without the one that is served.
TurnsAreFair ==
  /\ IsInjective(v.sched)
  /\ ToSet(v.sched) = {s \in Session : v.queue[s] # <<>>} \ ActiveSession(v)

\* No lost wake-up: an idle worker and waiting shares mean that a timer is set.
WakeUpIsSet == Dispatchable(v) /\ v.sched # <<>> => v.timer

\* One session cannot fill the queue: as long as others leave room, the global
\* limit is never reached by the shares of a single session.
SessionShare ==
  /\ Cardinality(v.pending) <= MaxGlobalPending
  /\ \A s \in Session : v.pending # {} /\ v.pending = PendingOf(v, s) =>
       Cardinality(v.pending) < MaxGlobalPending

\* At most one worker thread runs (a termination that fails leaves one behind
\* and the validator failed).
OneWorker == Cardinality({g \in Generation : worker[g] \in {"live", "stuck"}}) <= 1

\* The worker computes, or has answered, the active share and nothing else: a
\* share given up is never computed beside the next one.
WorkerIsExclusive ==
  v.kind = "ready" /\ worker[v.gen] = "live" /\ v.active # NoShare =>
    {job, answer} \ {NoShare} = {v.active}

\* What comes in the end: an admitted share is settled although no share times out, and
\* a restart comes to an end.
AtRest == v.kind # "restarting" /\ \A x \in Share : result[x] # "pending"
\* Once the lifecycle queue is through, a disposed validator holds no worker,
\* unless its termination failed.
DisposedHasNoWorker ==
  v.kind = "disposed" /\ tail = <<>> => \A g \in Generation : worker[g] # "live"
=============================================================================
