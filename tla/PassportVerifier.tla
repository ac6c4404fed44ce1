--------------------------- MODULE PassportVerifier ---------------------------
(***************************************************************************)
(* modules/passport/PassportDIDKitVerifier: credentials are verified by a  *)
(* worker thread that is started on demand.  A worker that fails, answers  *)
(* nonsense or does not answer in time is terminated and, after a delay,   *)
(* replaced; a worker that could not be terminated blocks everything until *)
(* a reload or a stop terminates it.                                       *)
(***************************************************************************)
EXTENDS Integers, FiniteSets

CONSTANTS
  Request,      \* verifyCredential calls
  MaxPending,   \* maxPendingVerifications
  MaxGens, MaxFaults, MaxReloads,
  None

CapacityAssumption ==
  /\ MaxPending \in Nat \ {0} /\ MaxGens \in Nat
  /\ None \notin 1..MaxGens /\ None \notin [id : 1..MaxGens, ready : BOOLEAN]

VARIABLES
  gen,        \* the current generation: [id, ready] or None
  live,       \* worker threads that were created and not terminated
  req,        \* request -> [st, gen]; st: new, queued, inflight, resolved, rejected
  accepting, stopped,
  timer,      \* restartTimer is set
  undrained,  \* the worker whose termination failed, or None
  job,        \* recovery, reload, stop -> phase: idle, own, wait, retry, done
  jobGen,     \* the worker that a job terminates first
  nextId, faults, reloads

vars == <<gen, live, req, accepting, stopped, timer, undrained, job, jobGen, nextId, faults, reloads>>
Job == {"recovery", "reload", "stop"}
Pending(q) == req[q].st \in {"queued", "inflight"}

Init ==
  /\ gen = None /\ live = {} /\ req = [q \in Request |-> [st |-> "new", gen |-> 0]]
  /\ accepting = TRUE /\ stopped = FALSE /\ timer = FALSE /\ undrained = None
  /\ job = [j \in Job |-> "idle"] /\ jobGen = [j \in Job |-> None]
  /\ nextId = 1 /\ faults = 0 /\ reloads = 0

-----------------------------------------------------------------------------
MayStart == accepting /\ ~stopped /\ gen = None /\ job["recovery"] = "idle" /\ undrained = None
\* startGeneration.  The factory may throw; then a restart is scheduled.
StartGeneration ==
  IF ~MayStart THEN UNCHANGED <<gen, live, nextId, timer>>
  ELSE \/ /\ nextId <= MaxGens
          /\ gen' = [id |-> nextId, ready |-> FALSE] /\ live' = live \cup {nextId}
          /\ nextId' = nextId + 1 /\ timer' = FALSE
       \/ timer' = TRUE /\ UNCHANGED <<gen, live, nextId>>

Unavailable ==
  ~accepting \/ stopped \/ job["reload"] # "idle" \/ job["recovery"] # "idle" \/ timer \/ undrained # None
\* verifyCredential: refused, or queued for the generation and sent if it is ready
Refuse(q) ==
  /\ req[q].st = "new"
  /\ Unavailable \/ Cardinality({p \in Request : Pending(p)}) >= MaxPending
  /\ req' = [req EXCEPT ![q].st = "rejected"]
  /\ UNCHANGED <<gen, live, accepting, stopped, timer, undrained, job, jobGen, nextId, faults, reloads>>
VerifyCredential(q) ==
  /\ req[q].st = "new" /\ ~Unavailable /\ Cardinality({p \in Request : Pending(p)}) < MaxPending
  /\ IF gen = None THEN StartGeneration ELSE UNCHANGED <<gen, live, nextId, timer>>
  /\ req' = [req EXCEPT ![q] =
       IF gen' = None THEN [st |-> "rejected", gen |-> 0]
       ELSE [st |-> IF gen'.ready THEN "inflight" ELSE "queued", gen |-> gen'.id]]
  /\ UNCHANGED <<accepting, stopped, undrained, job, jobGen, faults, reloads>>

-----------------------------------------------------------------------------
(* The worker: messages of the current generation *)

WorkerReady ==    \* "init": the queued requests are dispatched
  /\ gen # None /\ ~gen.ready /\ gen' = [gen EXCEPT !.ready = TRUE]
  /\ req' = [q \in Request |-> IF req[q].st = "queued" /\ req[q].gen = gen.id
                               THEN [req[q] EXCEPT !.st = "inflight"] ELSE req[q]]
  /\ UNCHANGED <<live, accepting, stopped, timer, undrained, job, jobGen, nextId, faults, reloads>>
Verified(q) ==
  /\ gen # None /\ gen.ready /\ req[q].st = "inflight" /\ req[q].gen = gen.id
  /\ req' = [req EXCEPT ![q].st = "resolved"]
  /\ UNCHANGED <<gen, live, accepting, stopped, timer, undrained, job, jobGen, nextId, faults, reloads>>

\* rejectGeneration, rejectAll
RejectAll == req' = [q \in Request |-> IF Pending(q) THEN [req[q] EXCEPT !.st = "rejected"] ELSE req[q]]
RejectGeneration == RejectAll
\* Mutant: the restart is scheduled without waiting for the termination.
RecoverWithoutWaiting ==
  /\ gen # None /\ RejectGeneration /\ gen' = None /\ timer' = TRUE
  /\ UNCHANGED <<live, accepting, stopped, undrained, job, jobGen, nextId, reloads>>
\* recoverGeneration: an error, an exit, an invalid answer or a timeout
RecoverGeneration ==
  /\ gen # None
  /\ RejectGeneration /\ gen' = None
  /\ job' = [job EXCEPT !["recovery"] = "own"] /\ jobGen' = [jobGen EXCEPT !["recovery"] = gen.id]
  /\ UNCHANGED <<live, accepting, stopped, timer, undrained, nextId, reloads>>
WorkerFails == faults < MaxFaults /\ faults' = faults + 1 /\ RecoverGeneration
\* The timers of the initialization and of a request are armed until they are cleared.
TimeoutDue == gen # None /\ (~gen.ready \/ \E q \in Request : req[q].st = "inflight")
Timeout == TimeoutDue /\ RecoverGeneration /\ UNCHANGED faults

-----------------------------------------------------------------------------
(* Terminations.  terminate() of a worker resolves or is rejected. *)

Terminated(g) == live' = live \ {g} /\ undrained' = (IF undrained = g THEN None ELSE undrained) /\ UNCHANGED faults
TerminateFails(g) == faults < MaxFaults /\ faults' = faults + 1 /\ undrained' = g /\ UNCHANGED live

\* scheduleRestart
ScheduleRestart(u) == timer' = (timer \/ (accepting /\ ~stopped /\ gen = None /\ u = None))
RecoveryEnds ==
  /\ job["recovery"] = "own" /\ job' = [job EXCEPT !["recovery"] = "idle"]
  /\ \/ Terminated(jobGen["recovery"]) /\ ScheduleRestart(undrained')
     \/ TerminateFails(jobGen["recovery"]) /\ UNCHANGED timer
  /\ UNCHANGED <<gen, req, accepting, stopped, jobGen, nextId, reloads>>
RestartTimer ==
  /\ timer
  /\ IF MayStart THEN StartGeneration ELSE timer' = FALSE /\ UNCHANGED <<gen, live, nextId>>
  /\ UNCHANGED <<req, accepting, stopped, undrained, job, jobGen, faults, reloads>>

\* reload and stop: requests are rejected, the worker is taken away and terminated.
Begin(j) ==
  /\ RejectAll /\ timer' = FALSE /\ gen' = None /\ accepting' = FALSE
  /\ jobGen' = [jobGen EXCEPT ![j] = IF gen = None THEN None ELSE gen.id]
  /\ job' = [job EXCEPT ![j] = IF gen = None THEN "wait" ELSE "own"]
Reload ==
  /\ ~stopped /\ job["reload"] = "idle" /\ reloads < MaxReloads /\ reloads' = reloads + 1
  /\ Begin("reload")
  /\ UNCHANGED <<live, stopped, undrained, nextId, faults>>
Stop ==
  /\ job["stop"] = "idle" /\ stopped' = TRUE /\ Begin("stop")
  /\ UNCHANGED <<live, undrained, nextId, faults, reloads>>
\* A job fails; a stop that waits for a reload fails with it and can be repeated.
Failed(j) == [job EXCEPT ![j] = "idle", !["stop"] = IF j = "reload" /\ @ = "wait" THEN "idle" ELSE IF j = "stop" THEN "idle" ELSE @]
Finished(j) == [job EXCEPT ![j] = IF j = "stop" THEN "done" ELSE "idle"]
Accepts(j) == accepting' = IF j = "reload" THEN ~stopped ELSE accepting
OwnTerminated(j) ==
  /\ j # "recovery" /\ job[j] = "own"
  /\ \/ Terminated(jobGen[j]) /\ job' = [job EXCEPT ![j] = "wait"]
     \/ TerminateFails(jobGen[j]) /\ job' = Failed(j)
  /\ UNCHANGED <<gen, req, accepting, stopped, timer, jobGen, nextId, reloads>>
\* retryUndrainedGeneration
AfterWait(j) ==
  IF undrained # None THEN job' = [job EXCEPT ![j] = "retry"] /\ UNCHANGED accepting
  ELSE job' = Finished(j) /\ Accepts(j)
WaitIsOver(j) == job["recovery"] = "idle" /\ (j = "stop" => job["reload"] = "idle")
Waited(j) ==
  /\ j # "recovery" /\ job[j] = "wait" /\ WaitIsOver(j)
  /\ AfterWait(j)
  /\ UNCHANGED <<gen, live, req, stopped, timer, undrained, jobGen, nextId, faults, reloads>>
Retried(j) ==
  /\ job[j] = "retry"
  /\ \/ Terminated(undrained) /\ job' = Finished(j) /\ Accepts(j)
     \/ TerminateFails(undrained) /\ job' = Failed(j) /\ UNCHANGED accepting
  /\ UNCHANGED <<gen, req, stopped, timer, jobGen, nextId, reloads>>

Next ==
  \/ \E q \in Request : Refuse(q) \/ VerifyCredential(q) \/ Verified(q)
  \/ WorkerReady \/ WorkerFails \/ Timeout \/ RecoveryEnds \/ RestartTimer \/ Reload \/ Stop
  \/ \E j \in Job : OwnTerminated(j) \/ Waited(j) \/ Retried(j)

Spec == Init /\ [][Next]_vars

\* The steps that are weakly fair. Timers fire and terminate() settles; the worker
\* itself owes nothing.
Weak == ({"timeout", "recovery", "restart"} \X {0}) \cup ({"own", "wait", "retry"} \X Job)
WeakStep(k) ==
  CASE k[1] = "timeout" -> Timeout
    [] k[1] = "recovery" -> RecoveryEnds
    [] k[1] = "restart" -> RestartTimer
    [] k[1] = "own" -> OwnTerminated(k[2])
    [] k[1] = "wait" -> Waited(k[2])
    [] k[1] = "retry" -> Retried(k[2])

-----------------------------------------------------------------------------
TypeOK ==
  /\ gen = None \/ gen.id \in 1..MaxGens
  /\ live \subseteq 1..MaxGens /\ undrained \in live \cup {None}
  /\ job \in [Job -> {"idle", "own", "wait", "retry", "done"}]
  /\ accepting \in BOOLEAN /\ stopped \in BOOLEAN /\ timer \in BOOLEAN

\* There is never more than one worker thread, whatever fails and is repeated.
OneWorker == Cardinality(live) <= 1

\* A pending request belongs to the current worker: with the worker taken away it
\* would never be answered.
PendingIsServed == \A q \in Request : Pending(q) => IF gen = None THEN FALSE ELSE req[q].gen = gen.id

\* A stop that succeeded has left no worker behind, and none appears later.
StoppedIsDrained == job["stop"] = "done" => live = {} /\ gen = None /\ ~timer

\* What comes in the end: every verification is answered, and every reload or stop settles.
AtRest == (\A q \in Request : ~Pending(q)) /\ \A j \in Job : job[j] \in {"idle", "done"}
=============================================================================
