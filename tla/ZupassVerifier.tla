---------------------------- MODULE ZupassVerifier ----------------------------
(***************************************************************************)
(* modules/zupass/ZupassPCD: ticket proofs are checked by one worker       *)
(* thread, one proof at a time.  A caller first reserves a place (an       *)
(* admission that belongs to the current worker) and later exchanges it    *)
(* for a queued verification.  A worker that fails or is too slow is       *)
(* terminated and replaced after a delay; a reload replaces it at once; a  *)
(* worker whose termination fails blocks the verifier until a reload or a  *)
(* dispose has terminated it.                                              *)
(***************************************************************************)
EXTENDS Integers, Sequences, FiniteSets

CONSTANTS
  Request,      \* callers of reserveVerification and verifyTicket
  MaxPending,   \* maxPendingVerifications
  MaxGens, MaxFaults, MaxReloads,
  None

CapacityAssumption ==
  /\ MaxPending \in Nat \ {0} /\ MaxGens \in Nat \ {0}
  /\ None \notin 1..MaxGens /\ None \notin Request /\ IsFiniteSet(Request)
  /\ None \notin [id : 1..MaxGens, ready : BOOLEAN, active : Request \cup {None}]

VARIABLES
  gen,         \* the current worker: [id, ready, active] or None
  live,        \* worker threads that were created and not terminated
  admission,   \* verificationAdmissions: caller -> generation id, 0 when it holds none
  queue,       \* verifyQueue, oldest first: [q, gen, inflight]
  state,       \* caller -> new, admitted, waiting, resolved, rejected
  timer,       \* restartTimer is set
  undrained,   \* the worker whose termination failed, or None
  disposed,
  job,         \* recovery, reload, dispose -> phase: idle, own, wait, retry, done
  jobGen,      \* the worker that a job terminates first
  nextId, faults, reloads

requests == <<admission, queue, state>>
workers == <<gen, live, nextId>>
bounds == <<faults, reloads>>
vars == <<requests, workers, timer, undrained, disposed, job, jobGen, bounds>>

Job == {"recovery", "reload", "dispose"}
Admitted == {q \in Request : admission[q] # 0}
InFlight == {i \in DOMAIN queue : queue[i].inflight}

Init ==
  /\ \/ /\ gen = [id |-> 1, ready |-> FALSE, active |-> None] /\ live = {1} /\ nextId = 2
        /\ timer = FALSE
     \/ gen = None /\ live = {} /\ nextId = 1 /\ timer = TRUE    \* the factory threw
  /\ admission = [q \in Request |-> 0] /\ queue = <<>> /\ state = [q \in Request |-> "new"]
  /\ undrained = None /\ disposed = FALSE
  /\ job = [j \in Job |-> "idle"] /\ jobGen = [j \in Job |-> None]
  /\ faults = 0 /\ reloads = 0

-----------------------------------------------------------------------------
(* Workers *)

\* startGeneration, once the job bookkeeping jobs is in force.  The factory may throw; then
\* a restart is scheduled.
MayStart(jobs) ==
  ~disposed /\ gen = None /\ jobs["reload"] = "idle" /\ jobs["recovery"] = "idle" /\ undrained' = None
StartGeneration(jobs) ==
  IF ~MayStart(jobs) THEN UNCHANGED workers /\ timer' = FALSE
  ELSE \/ /\ nextId <= MaxGens
          /\ gen' = [id |-> nextId, ready |-> FALSE, active |-> None] /\ live' = live \cup {nextId}
          /\ nextId' = nextId + 1 /\ timer' = FALSE
       \/ timer' = TRUE /\ UNCHANGED workers

\* dispatchNext: the oldest queued request goes to an idle worker
DispatchNext(g, s) ==
  LET next == {i \in DOMAIN s : ~s[i].inflight /\ s[i].gen = g.id}
  IN IF g = None \/ ~g.ready \/ g.active # None \/ next = {} THEN gen' = g /\ queue' = s
     ELSE LET i == CHOOSE k \in next : \A l \in next : k <= l
          IN gen' = [g EXCEPT !.active = s[i].q] /\ queue' = [s EXCEPT ![i].inflight = TRUE]

-----------------------------------------------------------------------------
(* Callers *)

Unavailable ==
  disposed \/ job["reload"] # "idle" \/ job["recovery"] # "idle" \/ undrained # None \/ gen = None
Busy == Len(queue) + Cardinality(Admitted) >= MaxPending
\* reserveVerification
ReserveVerification(q) ==
  /\ state[q] = "new"
  /\ IF Unavailable \/ Busy THEN state' = [state EXCEPT ![q] = "rejected"] /\ UNCHANGED admission
     ELSE state' = [state EXCEPT ![q] = "admitted"] /\ admission' = [admission EXCEPT ![q] = gen.id]
  /\ UNCHANGED <<queue, workers, timer, undrained, disposed, job, jobGen, bounds>>
\* releaseVerification by a caller that gives up; its admission may be gone already
ReleaseVerification(q) ==
  /\ state[q] = "admitted"
  /\ state' = [state EXCEPT ![q] = "rejected"] /\ admission' = [admission EXCEPT ![q] = 0]
  /\ UNCHANGED <<queue, workers, timer, undrained, disposed, job, jobGen, bounds>>
\* verifyTicket: refused when the admission was revoked or belongs to another worker;
\* otherwise the admission becomes a queued request.
AdmissionHolds(q) == admission[q] # 0 /\ ~disposed /\ gen # None /\ admission[q] = gen.id
VerifyTicket(q) ==
  /\ state[q] = "admitted" /\ admission' = [admission EXCEPT ![q] = 0]
  /\ IF AdmissionHolds(q)
     THEN /\ state' = [state EXCEPT ![q] = "waiting"]
          /\ DispatchNext(gen, Append(queue, [q |-> q, gen |-> gen.id, inflight |-> FALSE]))
     ELSE state' = [state EXCEPT ![q] = "rejected"] /\ UNCHANGED <<gen, queue>>
  /\ UNCHANGED <<live, nextId, timer, undrained, disposed, job, jobGen, bounds>>

-----------------------------------------------------------------------------
(* Messages of the current worker *)

WorkerInit ==
  /\ gen # None /\ ~gen.ready /\ DispatchNext([gen EXCEPT !.ready = TRUE], queue)
  /\ UNCHANGED <<admission, state, live, nextId, timer, undrained, disposed, job, jobGen, bounds>>

\* takeVerification
Without(q) ==
  LET i == CHOOSE k \in DOMAIN queue : queue[k].q = q
  IN [k \in 1..(Len(queue) - 1) |-> IF k < i THEN queue[k] ELSE queue[k + 1]]
TakeVerification(g, q) == IF g.active = q THEN [g EXCEPT !.active = None] ELSE g
\* onWorkerVerified: only the answer to the active request counts
OnWorkerVerified ==
  /\ gen # None /\ gen.ready /\ gen.active # None
  /\ state' = [state EXCEPT ![gen.active] = "resolved"]
  /\ DispatchNext(TakeVerification(gen, gen.active), Without(gen.active))
  /\ UNCHANGED <<admission, live, nextId, timer, undrained, disposed, job, jobGen, bounds>>

\* rejectGeneration and rejectAll: every queued request is rejected
RejectAll ==
  /\ queue' = <<>>
  /\ state' = [q \in Request |-> IF \E i \in DOMAIN queue : queue[i].q = q THEN "rejected" ELSE state[q]]
RevokeAdmissions == admission' = [q \in Request |-> 0]

\* recoverGeneration: an error, an exit, a throwing postMessage or a timer
RecoverGeneration ==
  /\ gen # None /\ ~disposed
  /\ RejectAll /\ RevokeAdmissions /\ gen' = None
  /\ job' = [job EXCEPT !["recovery"] = "own"] /\ jobGen' = [jobGen EXCEPT !["recovery"] = gen.id]
  /\ UNCHANGED <<live, nextId, timer, undrained, disposed, reloads>>
WorkerFails == faults < MaxFaults /\ faults' = faults + 1 /\ RecoverGeneration
\* The initialization timer is armed until "init", a request's timer while it is in flight.
Timeout == gen # None /\ (~gen.ready \/ InFlight # {}) /\ RecoverGeneration /\ UNCHANGED faults

-----------------------------------------------------------------------------
(* Terminations.  terminate() of a worker resolves or is rejected. *)

\* terminateTrackedGeneration
Terminated(g) ==
  live' = live \ {g} /\ undrained' = (IF undrained = g THEN None ELSE undrained) /\ UNCHANGED faults
TerminateFails(g) == faults < MaxFaults /\ faults' = faults + 1 /\ undrained' = g /\ UNCHANGED live

\* scheduleRestart
ScheduleRestart ==
  timer' = (timer \/ (~disposed /\ gen = None /\ job["reload"] = "idle" /\ undrained' = None))
RecoveryEnds ==
  /\ job["recovery"] = "own" /\ job' = [job EXCEPT !["recovery"] = "idle"]
  /\ \/ Terminated(jobGen["recovery"]) /\ ScheduleRestart
     \/ TerminateFails(jobGen["recovery"]) /\ UNCHANGED timer
  /\ UNCHANGED <<requests, gen, nextId, disposed, jobGen, reloads>>
RestartTimer ==
  /\ timer /\ UNCHANGED undrained /\ StartGeneration(job)
  /\ UNCHANGED <<requests, disposed, job, jobGen, bounds>>

\* reload and dispose: requests are rejected, the worker is taken away and terminated
Begin(j) ==
  /\ RejectAll /\ admission' = [q \in Request |-> 0] /\ timer' = FALSE /\ gen' = None
  /\ jobGen' = [jobGen EXCEPT ![j] = IF gen = None THEN None ELSE gen.id]
  /\ job' = [job EXCEPT ![j] = IF gen = None THEN "wait" ELSE "own"]
Reload ==
  /\ ~disposed /\ job["reload"] = "idle" /\ reloads < MaxReloads /\ reloads' = reloads + 1 /\ Begin("reload")
  /\ UNCHANGED <<live, nextId, undrained, disposed, faults>>
Dispose ==
  /\ job["dispose"] = "idle" /\ disposed' = TRUE /\ Begin("dispose")
  /\ UNCHANGED <<live, nextId, undrained, bounds>>

\* A job that fails can be repeated; a dispose that waits for a reload fails with it.
Failed(j) ==
  [job EXCEPT ![j] = "idle", !["dispose"] = IF j = "dispose" \/ (j = "reload" /\ @ = "wait") THEN "idle" ELSE @]
\* reload starts the next worker as soon as the last one is gone
Finish(j) ==
  /\ job' = [job EXCEPT ![j] = IF j = "dispose" THEN "done" ELSE "idle"]
  /\ IF j = "reload" THEN StartGeneration(job') ELSE UNCHANGED <<gen, nextId, timer>> /\ live' = live
OwnTerminated(j) ==
  /\ j # "recovery" /\ job[j] = "own"
  /\ \/ Terminated(jobGen[j]) /\ job' = [job EXCEPT ![j] = "wait"]
     \/ TerminateFails(jobGen[j]) /\ job' = Failed(j)
  /\ UNCHANGED <<requests, gen, nextId, timer, disposed, jobGen, reloads>>
MustRetry == undrained # None
WaitIsOver(j) == job["recovery"] = "idle" /\ (j = "dispose" => job["reload"] = "idle")
Waited(j) ==
  /\ j # "recovery" /\ job[j] = "wait" /\ WaitIsOver(j) /\ UNCHANGED undrained
  /\ IF MustRetry THEN job' = [job EXCEPT ![j] = "retry"] /\ UNCHANGED <<workers, timer>> ELSE Finish(j)
  /\ UNCHANGED <<requests, disposed, jobGen, bounds>>
\* retryUndrainedGeneration
Retried(j) ==
  /\ job[j] = "retry"
  /\ \/ Terminated(undrained) /\ job' = [job EXCEPT ![j] = "wait"]
     \/ TerminateFails(undrained) /\ job' = Failed(j)
  /\ UNCHANGED <<requests, gen, nextId, timer, disposed, jobGen, reloads>>

Next ==
  \/ \E q \in Request : ReserveVerification(q) \/ ReleaseVerification(q) \/ VerifyTicket(q)
  \/ WorkerInit \/ OnWorkerVerified \/ WorkerFails \/ Timeout
  \/ RecoveryEnds \/ RestartTimer \/ Reload \/ Dispose
  \/ \E j \in Job : OwnTerminated(j) \/ Waited(j) \/ Retried(j)

Spec == Init /\ [][Next]_vars

\* The steps that are weakly fair. Timers fire and terminate() settles; the worker and
\* the callers owe nothing.
Weak == ({"timeout", "recovery", "restart"} \X {0}) \cup ({"own", "wait", "retry"} \X Job)
WeakStep(k) ==
  CASE k[1] = "timeout" -> Timeout
    [] k[1] = "recovery" -> RecoveryEnds
    [] k[1] = "restart" -> RestartTimer
    [] k[1] = "own" -> OwnTerminated(k[2])
    [] k[1] = "wait" -> Waited(k[2])
    [] k[1] = "retry" -> Retried(k[2])

-----------------------------------------------------------------------------
\* The variables hold values of their types, whatever the order of the events.
TypeOK ==
  /\ IF gen = None THEN TRUE ELSE gen.id \in 1..MaxGens /\ gen.active \in Request \cup {None}
  /\ live \subseteq 1..MaxGens /\ undrained \in live \cup {None}
  /\ state \in [Request -> {"new", "admitted", "waiting", "resolved", "rejected"}]
  /\ job \in [Job -> {"idle", "own", "wait", "retry", "done"}]

\* There is never more than one worker thread, whatever fails and is repeated.
OneWorker == Cardinality(live) <= 1

\* Reserved and queued verifications together respect the capacity, and no place is held
\* for a worker that is gone: it would be lost until the next reload.
PlacesAreBounded ==
  /\ Len(queue) + Cardinality(Admitted) <= MaxPending
  /\ \A q \in Admitted : IF gen = None THEN FALSE ELSE admission[q] = gen.id

\* The worker has at most one proof at a time, the one marked active, and every waiting
\* caller is in the queue of the current worker.
OneProofAtATime ==
  /\ \A i \in DOMAIN queue : IF gen = None THEN FALSE
                             ELSE queue[i].gen = gen.id /\ (queue[i].inflight <=> gen.active = queue[i].q)
  /\ \A q \in Request : state[q] = "waiting" <=> \E i \in DOMAIN queue : queue[i].q = q
  /\ IF gen = None THEN TRUE ELSE gen.active # None => InFlight # {}

\* A dispose that succeeded has left no worker behind, and none appears later.
DisposedIsDrained == job["dispose"] = "done" => live = {} /\ gen = None /\ ~timer

\* What comes in the end: every queued verification is answered, and every reload or
\* dispose settles.
AtRest == (\A q \in Request : state[q] # "waiting") /\ \A j \in Job : job[j] \in {"idle", "done"}
=============================================================================
