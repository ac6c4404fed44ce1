-------------------------- MODULE BoundedAsyncWork --------------------------
(***************************************************************************)
(* utils/BoundedAsyncWork.ts: asynchronous lookups run in a generation     *)
(* that owns a runtime (a web3 provider).  A generation admits a bounded   *)
(* number of lookups, is invalidated when it is replaced or stopped, and   *)
(* is gone only when its runtime is disposed and its lookups settled.      *)
(* Lifecycle calls wait for each other; a call made while one ends may     *)
(* overtake those that wait, so the waiting calls are a set.               *)
(***************************************************************************)
EXTENDS Naturals, FiniteSets

CONSTANTS
  Gen,            \* runtimes the factories can create
  Work,           \* lookups
  Call,           \* lifecycle calls: start, replace or stop
  MaxInflight,    \* the largest limit a configuration chooses
  MaxFaults,      \* bound on factory and disposer failures
  NoGen,          \* no generation
  NoCall          \* no lifecycle call

BoundsAssumption ==
  /\ MaxInflight \in Nat \ {0} /\ MaxFaults \in Nat
  /\ NoGen \notin Gen /\ NoCall \notin Call /\ IsFiniteSet(Work)

VARIABLES
  gen,         \* generation -> [created, accepting, limit, disposed]
  current,     \* this.current
  failed,      \* this.failedStagedCleanup
  lifecycle,   \* the call that holds this.lifecycle
  call,        \* call -> [kind, st, staged, previous, ok]
  work,        \* lookup -> [gen, op, caller, aborted, applied, awaits]
  faults

vars == <<gen, current, failed, lifecycle, call, work, faults>>

NewGen == [created |-> FALSE, accepting |-> FALSE, limit |-> 0, disposed |-> FALSE]
NewCall == [kind |-> "none", st |-> "idle", staged |-> NoGen, previous |-> NoGen, ok |-> TRUE]
NewWork == [gen |-> NoGen, op |-> "idle", caller |-> "idle", aborted |-> FALSE,
            applied |-> FALSE, awaits |-> NoCall]

Init ==
  /\ gen = [g \in Gen |-> NewGen]
  /\ current = NoGen
  /\ failed = NoGen
  /\ lifecycle = NoCall
  /\ call = [c \in Call |-> NewCall]
  /\ work = [w \in Work |-> NewWork]
  /\ faults = 0

Active(g) == {w \in Work : work[w].gen = g /\ work[w].op # "done"}
Accepting(g) == g # NoGen /\ gen[g].accepting
\* The generation that owns a lookup is still the one that serves lookups.
AssertGenerationCurrent(w) == work[w].gen = current /\ Accepting(current)
\* context.assertActive: neither cancelled nor of an invalidated generation.
AssertActive(w) == ~work[w].aborted /\ AssertGenerationCurrent(w)

-----------------------------------------------------------------------------
ValidateLimits(limit) == limit \in 1..MaxInflight

\* A staged generation; its factory may throw (then no runtime exists).
Stage(g, limit) ==
  gen' = [gen EXCEPT ![g] = [NewGen EXCEPT !.created = TRUE, !.limit = limit]]

\* start() is refused while a generation, a lifecycle call or a failed cleanup is present.
StartAllowed == current = NoGen /\ lifecycle = NoCall /\ failed = NoGen

Start(c, g, limit) ==
  /\ call[c].st = "idle" /\ StartAllowed
  /\ gen' = [gen EXCEPT ![g] = [created |-> TRUE, accepting |-> TRUE, limit |-> limit, disposed |-> FALSE]]
  /\ current' = g
  /\ call' = [call EXCEPT ![c].kind = "start", ![c].st = "ended"]
  /\ UNCHANGED <<failed, lifecycle, work, faults>>

-----------------------------------------------------------------------------
Room(g) == Cardinality(Active(g)) < gen[g].limit
\* run(): admits a lookup of the current generation below its limit, else rejects it.
Run(w) ==
  /\ work[w].op = "idle" /\ Accepting(current) /\ Room(current)
  /\ work' = [work EXCEPT ![w].gen = current, ![w].op = "running", ![w].caller = "waiting"]
  /\ UNCHANGED <<gen, current, failed, lifecycle, call, faults>>

\* Mutant: the lookup applies its answer without asking whether it is still wanted.
ApplyUnchecked(w) ==
  /\ work[w].op = "running"
  /\ work' = [work EXCEPT ![w].op = "applied", ![w].applied = TRUE]
  /\ UNCHANGED <<gen, current, failed, lifecycle, call, faults>>
\* The answer of the RPC arrives; after assertActive the lookup sets the address of the session.
Apply(w) ==
  /\ work[w].op = "running"
  /\ work' = [work EXCEPT ![w].op = "applied", ![w].applied = AssertActive(w)]
  /\ UNCHANGED <<gen, current, failed, lifecycle, call, faults>>

\* The lookup's promise settles; the caller's race is decided if it still runs.
Settle(w) ==
  /\ \/ work[w].op \in {"running", "applied"}
     \/ work[w].op = "awaiting" /\ call[work[w].awaits].st \in {"ended", "threw"}
  /\ work' = [work EXCEPT ![w].op = "done",
                          ![w].caller = IF @ = "waiting" THEN "settled" ELSE @]
  /\ UNCHANGED <<gen, current, failed, lifecycle, call, faults>>

\* The caller's timer: cancels the lookup whether or not its promise ever settles.
Timeout(w) ==
  /\ work[w].caller = "waiting"
  /\ work' = [work EXCEPT ![w].caller = "settled", ![w].aborted = TRUE]
  /\ UNCHANGED <<gen, current, failed, lifecycle, call, faults>>

\* The continuation of the race: assertActive once more before the caller sees a result.
Deliver(w) ==
  /\ work[w].caller = "settled"
  /\ work' = [work EXCEPT ![w].caller = IF AssertActive(w) THEN "answered" ELSE "rejected"]
  /\ UNCHANGED <<gen, current, failed, lifecycle, call, faults>>

-----------------------------------------------------------------------------
\* replace() and stop() from outside the owned callbacks.
Request(c, kind) ==
  /\ call[c].st = "idle"
  /\ call' = [call EXCEPT ![c].kind = kind, ![c].st = "waiting"]
  /\ UNCHANGED <<gen, current, failed, lifecycle, work, faults>>

\* A lifecycle call from an owned callback throws the reentrancy error into the callback.
RequestFromCallback(w, c) ==
  /\ work[w].op = "running" /\ call[c].st = "idle"
  /\ call' = [call EXCEPT ![c].kind = "stop", ![c].st = "threw"]
  /\ work' = [work EXCEPT ![w].op = "awaiting", ![w].awaits = c]
  /\ UNCHANGED <<gen, current, failed, lifecycle, faults>>

\* The end of a lifecycle call, for its caller and for the calls that wait.
EndCall(c, outcome) == [call EXCEPT ![c].st = outcome]

\* drain(): invalidation cancels every lookup of the generation that still waits.
Drain(c, g) ==
  /\ gen' = [gen EXCEPT ![g].accepting = FALSE]
  /\ work' = [w \in Work |-> IF work[w].gen = g /\ work[w].caller = "waiting"
                             THEN [work[w] EXCEPT !.caller = "settled", !.aborted = TRUE] ELSE work[w]]
  /\ call' = [call EXCEPT ![c].st = "disposing", ![c].previous = g]

\* runLifecycle: a waiting call takes the lifecycle; a failed staged cleanup comes first.
Begin(c) ==
  /\ call[c].st = "waiting" /\ lifecycle = NoCall
  /\ lifecycle' = c
  /\ call' = [call EXCEPT ![c].st = IF failed = NoGen THEN "operating" ELSE "retrying"]
  /\ UNCHANGED <<gen, current, failed, work, faults>>

\* retryFailedStagedCleanup: disposes the orphaned runtime again, or fails the call.
RetryFailedStagedCleanup(c) ==
  /\ call[c].st = "retrying"
  /\ \/ /\ gen' = [gen EXCEPT ![failed].disposed = TRUE]
        /\ failed' = NoGen
        /\ call' = [call EXCEPT ![c].st = "operating"]
        /\ UNCHANGED <<lifecycle, faults>>
     \/ /\ faults < MaxFaults /\ faults' = faults + 1
        /\ call' = EndCall(c, "threw")
        /\ lifecycle' = NoCall
        /\ UNCHANGED <<gen, failed>>
  /\ UNCHANGED <<current, work>>

\* The runtime factory of replaceGeneration throws: the generation in use stays.
StageThrows(c) ==
  /\ call[c].st = "operating" /\ call[c].kind = "replace"
  /\ faults < MaxFaults /\ faults' = faults + 1
  /\ call' = EndCall(c, "threw")
  /\ lifecycle' = NoCall
  /\ UNCHANGED <<gen, current, failed, work>>

\* replaceGeneration: stages a runtime, then takes over at once or drains the previous one.
ReplaceGeneration(c, g, limit) ==
  /\ call[c].st = "operating" /\ call[c].kind = "replace"
  /\ IF current = NoGen
     THEN /\ gen' = [gen EXCEPT ![g] = [created |-> TRUE, accepting |-> TRUE, limit |-> limit, disposed |-> FALSE]]
          /\ current' = g
          /\ call' = EndCall(c, "ended")
          /\ lifecycle' = NoCall
     ELSE /\ Stage(g, limit)
          /\ call' = [call EXCEPT ![c].st = "draining", ![c].staged = g]
          /\ UNCHANGED <<current, lifecycle>>
  /\ UNCHANGED <<failed, work, faults>>
ReplaceDrains(c) ==
  /\ call[c].st = "draining"
  /\ Drain(c, current)
  /\ UNCHANGED <<current, failed, lifecycle, faults>>

\* stopCurrent: nothing to stop, or drains the current generation.
StopCurrent(c) ==
  /\ call[c].st = "operating" /\ call[c].kind = "stop"
  /\ IF current = NoGen
     THEN /\ call' = EndCall(c, "ended")
          /\ lifecycle' = NoCall
          /\ UNCHANGED <<gen, work>>
     ELSE Drain(c, current) /\ UNCHANGED lifecycle
  /\ UNCHANGED <<current, failed, faults>>

\* disposeAndDrain, first half: the disposer runs while lookups may still be in flight.
Dispose(c) ==
  /\ call[c].st = "disposing"
  /\ \/ /\ gen' = [gen EXCEPT ![call[c].previous].disposed = TRUE]
        /\ call' = [call EXCEPT ![c].st = "settling", ![c].ok = TRUE]
        /\ UNCHANGED faults
     \/ /\ faults < MaxFaults /\ faults' = faults + 1
        /\ call' = [call EXCEPT ![c].st = "settling", ![c].ok = FALSE]
        /\ UNCHANGED gen
  /\ UNCHANGED <<current, failed, lifecycle, work>>

AllSettled(g) == Active(g) = {}

\* disposeAndDrain, second half: every lookup settled; the call goes on or reports the failure.
Drained(c) ==
  /\ call[c].st = "settling" /\ AllSettled(call[c].previous)
  /\ \/ /\ call[c].ok /\ call[c].kind = "stop"
        /\ current' = NoGen
        /\ call' = EndCall(c, "ended") /\ lifecycle' = NoCall
        /\ UNCHANGED gen
     \/ /\ call[c].ok /\ call[c].kind = "replace"
        /\ current' = call[c].staged
        /\ gen' = [gen EXCEPT ![call[c].staged].accepting = TRUE]
        /\ call' = EndCall(c, "ended") /\ lifecycle' = NoCall
     \/ /\ ~call[c].ok /\ call[c].kind = "stop"
        /\ call' = EndCall(c, "threw") /\ lifecycle' = NoCall
        /\ UNCHANGED <<gen, current>>
     \/ /\ ~call[c].ok /\ call[c].kind = "replace"
        /\ call' = [call EXCEPT ![c].st = "discarding"]
        /\ UNCHANGED <<gen, current, lifecycle>>
  /\ UNCHANGED <<failed, work, faults>>

FailedStagedCleanup(g) == g

\* The previous runtime could not be disposed: the staged one is disposed, or kept for a retry.
DiscardStaged(c) ==
  /\ call[c].st = "discarding"
  /\ \/ /\ gen' = [gen EXCEPT ![call[c].staged].disposed = TRUE]
        /\ UNCHANGED <<failed, faults>>
     \/ /\ faults < MaxFaults /\ faults' = faults + 1
        /\ failed' = FailedStagedCleanup(call[c].staged)
        /\ UNCHANGED gen
  /\ call' = EndCall(c, "threw") /\ lifecycle' = NoCall
  /\ UNCHANGED <<current, work>>

Lifecycle(c) ==
  \/ Begin(c) \/ RetryFailedStagedCleanup(c) \/ StageThrows(c) \/ ReplaceDrains(c) \/ StopCurrent(c)
  \/ Dispose(c) \/ Drained(c) \/ DiscardStaged(c)
  \/ \E g \in Gen, limit \in 1..(MaxInflight + 1) :
       ~gen[g].created /\ ValidateLimits(limit) /\ ReplaceGeneration(c, g, limit)

Next ==
  \/ \E c \in Call, g \in Gen, limit \in 1..(MaxInflight + 1) :
       ~gen[g].created /\ ValidateLimits(limit) /\ Start(c, g, limit)
  \/ \E c \in Call, kind \in {"replace", "stop"} : Request(c, kind)
  \/ \E c \in Call : Lifecycle(c)
  \/ \E w \in Work : Run(w) \/ Apply(w) \/ Settle(w) \/ Timeout(w) \/ Deliver(w)
  \/ \E w \in Work, c \in Call : RequestFromCallback(w, c)

Spec == Init /\ [][Next]_vars

\* The steps that are weakly fair. The event loop runs continuations and timers; nothing
\* makes an RPC answer.
Weak == ({"call"} \X Call) \cup ({"timeout", "deliver"} \X Work)
WeakStep(k) ==
  CASE k[1] = "call" -> Lifecycle(k[2])
    [] k[1] = "timeout" -> Timeout(k[2])
    [] k[1] = "deliver" -> Deliver(k[2])

-----------------------------------------------------------------------------
TypeOK ==
  /\ gen \in [Gen -> [created : BOOLEAN, accepting : BOOLEAN, limit : 0..MaxInflight, disposed : BOOLEAN]]
  /\ current \in Gen \cup {NoGen}
  /\ failed \in Gen \cup {NoGen}
  /\ lifecycle \in Call \cup {NoCall}
  /\ call \in [Call -> [kind : {"none", "start", "replace", "stop"},
                        st : {"idle", "waiting", "retrying", "operating", "draining", "disposing",
                              "settling", "discarding", "ended", "threw"},
                        staged : Gen \cup {NoGen}, previous : Gen \cup {NoGen}, ok : BOOLEAN]]
  /\ work \in [Work -> [gen : Gen \cup {NoGen}, op : {"idle", "running", "applied", "awaiting", "done"},
                        caller : {"idle", "waiting", "settled", "answered", "rejected"},
                        aborted : BOOLEAN, applied : BOOLEAN, awaits : Call \cup {NoCall}]]
  /\ faults \in 0..MaxFaults

\* Over all generations together no more lookups are in flight than the limit of the
\* current generation: a replacement starts only after its predecessor's lookups settled,
\* also when the predecessor's disposer failed and was retried.
InflightBound ==
  LET running == {w \in Work : work[w].op \notin {"idle", "done"}}
  IN  running # {} => /\ current # NoGen
                      /\ \A w \in running : work[w].gen = current
                      /\ Cardinality(running) <= gen[current].limit

\* No runtime is leaked: each one that was created and not disposed is current, is staged
\* by the call that holds the lifecycle, or is kept for the retry of its cleanup.
NoRuntimeLost ==
  \A g \in Gen : (gen[g].created /\ ~gen[g].disposed) =>
    \/ g = current
    \/ g = failed
    \/ lifecycle # NoCall /\ call[lifecycle].staged = g

\* Only one generation serves lookups, and never one whose runtime is disposed.
OneServes ==
  \A g \in Gen : gen[g].accepting => g = current /\ ~gen[g].disposed

\* A lookup whose caller was told that it timed out or was invalidated never changes the
\* session afterwards.
NoLateEffectStep ==
  \A w \in Work : work'[w].applied /\ ~work[w].applied => work[w].caller = "waiting"

\* A caller receives a result only of the generation that serves lookups at that moment,
\* although invalidation may come between the end of the lookup and the continuation.
NoStaleResultStep ==
  \A w \in Work : work'[w].caller = "answered" /\ work[w].caller # "answered" =>
    work[w].gen = current /\ gen[current].accepting

\* What comes in the end: every caller is answered, also when the RPC endpoint never answers ...
CallersAnswered == \A w \in Work : work[w].caller # "waiting"

\* ... and every stop and replace ends when the lookups settle: no lookup waits for a call
\* that waits for it.
LifecycleEnded == \A c \in Call : call[c].st \in {"idle", "ended", "threw"}
=============================================================================
