--------------------------- MODULE ModuleManager ---------------------------
(***************************************************************************)
(* modules/ModuleManager.ts and BaseModule.ts: modules are started,        *)
(* reconfigured, activated and stopped by load operations that run one     *)
(* after the other, each awaiting callbacks of the modules that may fail;  *)
(* hooks of sessions run beside them, and the shutdown of FaucetProcess    *)
(* quiesces and disposes the manager at any moment.                        *)
(***************************************************************************)
EXTENDS Naturals, Sequences, FiniteSets

CONSTANTS
  Module,        \* the modules of MODULE_CLASSES
  Hook,          \* hook operations of sessions
  MaxReloads,    \* bound on SIGUSR1
  MaxFaults,     \* bound on failing module callbacks
  EarlyReload    \* a reload may come before the state restore is complete

ParamsAssumption == MaxReloads \in Nat /\ MaxFaults \in Nat /\ EarlyReload \in BOOLEAN

VARIABLES
  want,        \* faucetConfig.modules: the enabled modules
  version,     \* the configuration that was loaded last
  mod,         \* module -> [kind, restored, cfg, hooks, loaded]
  queue,       \* queued load operations: sequence of [gen, op]
  load,        \* the running load operation
  gen,         \* loadGeneration
  admission,   \* admissionState
  restoreReady,\* stateRestoreReady
  ordinary,    \* ordinaryHookAdmissionOpen
  terminal,    \* terminalHookAdmissionOpen
  hook,        \* hook operation -> [st, terminal, snapshot]
  left,        \* modules the rollback or the shutdown has not tried to stop yet
  phase,       \* up, the rollback of initialize(), or the step of the shutdown
  faults

vars == <<want, version, mod, queue, load, gen, admission, restoreReady, ordinary, terminal, hook, left, phase, faults>>

Idle == [gen |-> 0, op |-> "none", todo |-> {}, dict |-> {}, cur |-> {}, prev |-> 0, pc |-> "idle",
         failed |-> FALSE, base |-> 0]
NewModule == [kind |-> "disabled", restored |-> FALSE, cfg |-> 0, hooks |-> FALSE, loaded |-> FALSE]

\* initialize() queues the first load for the configuration of the start.
Init ==
  /\ want \in SUBSET Module
  /\ version = 1
  /\ mod = [m \in Module |-> NewModule]
  /\ queue = <<[gen |-> 1, op |-> "load"]>>
  /\ load = Idle
  /\ gen = 1
  /\ admission = "loading"
  /\ restoreReady = FALSE
  /\ ordinary = TRUE /\ terminal = TRUE
  /\ hook = [h \in Hook |-> [st |-> "idle", terminal |-> FALSE, snapshot |-> {}]]
  /\ left = {}
  /\ phase = "up"
  /\ faults = 0

IsEnabled(m) == mod[m].kind \in {"enabled", "cleanup-required"}
RequiresCleanup(m) == mod[m].kind = "cleanup-required"
Initialized == phase = "up"
\* initialize() succeeded: the reload handler listens and app.ts goes on.
Booted == gen > 1 \/ admission = "ready"

-----------------------------------------------------------------------------
\* queueLoad: a new generation closes the admission until its own end.
QueueLoad(op) ==
  /\ gen' = gen + 1
  /\ admission' = "loading"
  /\ queue' = Append(queue, [gen |-> gen + 1, op |-> op])

\* SIGUSR1: the configuration is read and the reload handler queues a load.
Reload ==
  /\ Initialized /\ version <= MaxReloads
  /\ EarlyReload \/ restoreReady
  /\ Booted
  /\ want' \in SUBSET Module
  /\ version' = version + 1
  /\ QueueLoad("load")
  /\ UNCHANGED <<mod, load, restoreReady, ordinary, terminal, hook, left, phase, faults>>

\* app.ts: once sessions and claims are restored the modules are activated.
ActivateModulesAfterStateRestore ==
  /\ Initialized /\ ~restoreReady
  /\ Booted
  /\ restoreReady' = TRUE
  /\ QueueLoad("activate")
  /\ UNCHANGED <<want, version, mod, load, ordinary, terminal, hook, left, phase, faults>>

LoadingSettled == queue = <<>> /\ load.pc = "idle"

\* The first load failed: initialize() closes everything and stops what was loaded.
InitializeFails ==
  /\ Initialized /\ ~Booted /\ admission = "failed" /\ LoadingSettled
  /\ phase' = "rollback" /\ ordinary' = FALSE /\ terminal' = FALSE
  /\ admission' = "closed" /\ gen' = gen + 1
  /\ left' = {m \in Module : mod[m].loaded}
  /\ UNCHANGED <<want, version, mod, queue, load, restoreReady, hook, faults>>

-----------------------------------------------------------------------------
\* The next queued operation starts when its predecessor settled, failed or not.
BeginLoad ==
  /\ queue # <<>> /\ load.pc = "idle"
  /\ queue' = Tail(queue)
  /\ LET q == Head(queue)
         loaded == {m \in Module : mod[m].loaded}
     IN  load' = [Idle EXCEPT !.gen = q.gen, !.op = q.op, !.pc = "next", !.base = faults,
                              !.todo = IF q.op = "load" THEN want ELSE loaded,
                              !.dict = IF q.op = "load" THEN loaded ELSE {}]
  /\ UNCHANGED <<want, version, mod, gen, admission, restoreReady, ordinary, terminal, hook, left, phase, faults>>

At(pc) == load.pc = pc
Cur == CHOOSE m \in Module : load.cur = {m}
Goto(pc) == load' = [load EXCEPT !.pc = pc]
Fail == load' = [load EXCEPT !.pc = "next", !.failed = TRUE]
Set(m, r) == mod' = [mod EXCEPT ![m] = r]
Fault == faults < MaxFaults /\ faults' = faults + 1
Keep == UNCHANGED <<want, version, queue, gen, admission, restoreReady, ordinary, terminal, hook, left, phase>>

\* What loadModules awaits first for a configured module.
FirstAwait(m) == IF RequiresCleanup(m) THEN "cleanup" ELSE "config"

\* loadModules, the head of its loop: the next configured module, created when it is new.
NextModule(m) ==
  /\ At("next") /\ load.op = "load" /\ m \in load.todo
  /\ IF m \notin want
     THEN load' = [load EXCEPT !.todo = @ \ {m}] /\ UNCHANGED mod
     ELSE /\ load' = [load EXCEPT !.todo = @ \ {m}, !.dict = @ \ {m}, !.cur = {m}, !.pc = FirstAwait(m)]
          /\ mod' = [mod EXCEPT ![m].loaded = TRUE]
  /\ UNCHANGED faults /\ Keep

\* disableModule in front of the configuration.
Cleanup ==
  /\ At("cleanup")
  /\ \/ /\ Set(Cur, [mod[Cur] EXCEPT !.kind = "disabled", !.restored = FALSE, !.hooks = FALSE])
        /\ Goto("config") /\ UNCHANGED faults
     \/ /\ Fault /\ Set(Cur, [mod[Cur] EXCEPT !.hooks = FALSE]) /\ Fail
  /\ Keep

\* setModuleConfig: a disabled module takes the configuration; an enabled one reloads.
SetModuleConfig ==
  /\ At("config")
  /\ \/ /\ mod[Cur].kind = "disabled"
        /\ Set(Cur, [mod[Cur] EXCEPT !.cfg = version]) /\ Goto("enable") /\ UNCHANGED faults
     \/ /\ mod[Cur].kind = "enabled"
        /\ Set(Cur, [mod[Cur] EXCEPT !.cfg = version])
        /\ load' = [load EXCEPT !.pc = "reloading", !.prev = mod[Cur].cfg] /\ UNCHANGED faults
     \/ /\ mod[Cur].kind \notin {"disabled", "enabled"}
        /\ Fail /\ UNCHANGED <<mod, faults>>
  /\ Keep

\* onConfigReload answers; on an error the previous configuration is applied again, and an
\* error of that leaves the module without hooks and in need of cleanup.
ReloadAbandoned == [mod[Cur] EXCEPT !.kind = "cleanup-required", !.hooks = FALSE]
ConfigReloaded ==
  /\ At("reloading")
  /\ \/ Goto("restore") /\ UNCHANGED <<mod, faults>>
     \/ Fault /\ Goto("reverting") /\ Set(Cur, [mod[Cur] EXCEPT !.cfg = load.prev])
  /\ Keep
ConfigReverted ==
  /\ At("reverting")
  /\ \/ Fail /\ UNCHANGED <<mod, faults>>
     \/ Fault /\ Fail /\ Set(Cur, ReloadAbandoned)
  /\ Keep

\* enableModule: the hooks are registered while startModule runs.
EnableModule ==
  /\ At("enable")
  /\ Set(Cur, [mod[Cur] EXCEPT !.kind = "starting", !.hooks = TRUE])
  /\ Goto("starting") /\ UNCHANGED faults /\ Keep
Started ==
  /\ At("starting")
  /\ \/ /\ Set(Cur, [mod[Cur] EXCEPT !.kind = "enabled", !.restored = FALSE])
        /\ Goto("restore") /\ UNCHANGED faults
     \/ Fault /\ Goto("unstart") /\ UNCHANGED mod
  /\ Keep
\* A failed start is rolled back with stopModule.
StartRolledBack ==
  /\ At("unstart")
  /\ \/ /\ Set(Cur, [mod[Cur] EXCEPT !.kind = "disabled", !.hooks = FALSE]) /\ UNCHANGED faults
     \/ /\ Fault /\ Set(Cur, [mod[Cur] EXCEPT !.kind = "cleanup-required", !.restored = FALSE, !.hooks = FALSE])
  /\ Fail /\ Keep

\* activateAfterStateRestore of the module at hand, in a load or in the activation.
Activate ==
  /\ At("restore")
  /\ \/ /\ (load.op = "load" /\ ~restoreReady) \/ mod[Cur].restored
        /\ Goto("next") /\ UNCHANGED <<mod, faults>>
     \/ /\ (load.op = "activate" \/ restoreReady) /\ ~mod[Cur].restored
        /\ \/ Set(Cur, [mod[Cur] EXCEPT !.restored = TRUE]) /\ Goto("next") /\ UNCHANGED faults
           \/ Fault /\ Fail /\ Set(Cur, [mod[Cur] EXCEPT !.kind = "cleanup-required", !.restored = FALSE, !.hooks = FALSE])
  /\ Keep

\* activateLoadedModules passes over modules that are not enabled or need cleanup.
ActivateLoadedModules(m) ==
  /\ At("next") /\ load.op = "activate" /\ m \in load.todo
  /\ load' = IF mod[m].kind = "enabled"
             THEN [load EXCEPT !.todo = @ \ {m}, !.cur = {m}, !.pc = "restore"]
             ELSE [load EXCEPT !.todo = @ \ {m}]
  /\ UNCHANGED <<mod, faults>> /\ Keep

StopFailed(m) == [mod[m] EXCEPT !.kind = "cleanup-required", !.hooks = FALSE]

\* The modules the configuration no longer enables are stopped and dropped.
DropModule(m) ==
  /\ At("next") /\ load.todo = {} /\ m \in load.dict
  /\ \/ /\ ~IsEnabled(m)
        /\ Set(m, [mod[m] EXCEPT !.loaded = FALSE])
        /\ load' = [load EXCEPT !.dict = @ \ {m}] /\ UNCHANGED faults
     \/ /\ IsEnabled(m)
        /\ load' = [load EXCEPT !.dict = @ \ {m}, !.cur = {m}, !.pc = "stopping"]
        /\ Set(m, [mod[m] EXCEPT !.kind = "stopping"]) /\ UNCHANGED faults
  /\ Keep
Dropped ==
  /\ At("stopping")
  /\ \/ Set(Cur, NewModule) /\ Goto("next") /\ UNCHANGED faults
     \/ Fault /\ Set(Cur, StopFailed(Cur)) /\ Fail
  /\ Keep

\* Mutant: a load that ends opens the admission although a newer one is queued.
IsLatestIgnored == Initialized
\* Mutant: the generation is compared with the one of the previous load.
IsPrevious == Initialized /\ load.gen + 1 = gen
IsLatest == Initialized /\ load.gen = gen
\* The tracked promise of the load settles.
EndLoad ==
  /\ At("next") /\ load.todo = {} /\ load.dict = {}
  /\ load' = Idle
  /\ admission' = IF ~IsLatest THEN admission ELSE IF load.failed THEN "failed" ELSE "ready"
  /\ UNCHANGED <<want, version, mod, queue, gen, restoreReady, ordinary, terminal, hook, left, phase, faults>>

LoadStep ==
  \/ BeginLoad \/ Cleanup \/ SetModuleConfig \/ ConfigReloaded \/ ConfigReverted \/ EnableModule \/ Started
  \/ StartRolledBack \/ Activate \/ Dropped \/ EndLoad
  \/ \E m \in Module : NextModule(m) \/ ActivateLoadedModules(m) \/ DropModule(m)

-----------------------------------------------------------------------------
\* processActionHooks: admitted by the kind of its action; the hooks of the moment are taken.
ProcessActionHooks(h, isTerminal) ==
  /\ hook[h].st = "idle" /\ Booted
  /\ terminal /\ (isTerminal \/ ordinary)
  /\ hook' = [hook EXCEPT ![h] = [st |-> "running", terminal |-> isTerminal,
                                  snapshot |-> {m \in Module : mod[m].hooks}]]
  /\ UNCHANGED <<want, version, mod, queue, load, gen, admission, restoreReady, ordinary, terminal, left, phase, faults>>

\* runActionHooks: the hooks of a priority run; a failure of one of them ends the operation.
RunActionHooks(h) ==
  /\ hook[h].st = "running"
  /\ \/ \E m \in hook[h].snapshot : hook' = [hook EXCEPT ![h].snapshot = @ \ {m}]
     \/ hook' = [hook EXCEPT ![h].st = "done", ![h].snapshot = {}]
  /\ UNCHANGED <<want, version, mod, queue, load, gen, admission, restoreReady, ordinary, terminal, left, phase, faults>>

Operations(ordinaryOnly) == {h \in Hook : hook[h].st = "running" /\ (ordinaryOnly => ~hook[h].terminal)}
DrainHookOperations(ordinaryOnly) == Operations(ordinaryOnly) = {}

\* quiesceRewardProducers: no more loads; the pending ones settle first.
QuiesceRewardProducers ==
  /\ phase = "up"
  /\ phase' = "quiescing" /\ admission' = "closed" /\ gen' = gen + 1
  /\ UNCHANGED <<want, version, mod, queue, load, restoreReady, ordinary, terminal, hook, left, faults>>
\* The RewardProducerStop hooks ran; ordinary hooks are no longer admitted.
ProducersStopped ==
  /\ phase = "quiescing" /\ LoadingSettled
  /\ phase' = "draining" /\ ordinary' = FALSE
  /\ UNCHANGED <<want, version, mod, queue, load, gen, admission, restoreReady, terminal, hook, left, faults>>
Quiesced ==
  /\ phase = "draining" /\ DrainHookOperations(TRUE)
  /\ phase' = "quiesced"
  /\ UNCHANGED <<want, version, mod, queue, load, gen, admission, restoreReady, ordinary, terminal, hook, left, faults>>

\* dispose(): closes the hook admission, drains hooks and loads, then stops every module.
DisposeManager ==
  /\ phase = "quiesced"
  /\ phase' = "closing" /\ ordinary' = FALSE /\ terminal' = FALSE
  /\ admission' = "closed" /\ gen' = gen + 1
  /\ UNCHANGED <<want, version, mod, queue, load, restoreReady, hook, left, faults>>
HooksDrained ==
  /\ phase = "closing" /\ DrainHookOperations(FALSE) /\ LoadingSettled
  /\ phase' = "stopping" /\ left' = {m \in Module : mod[m].loaded}
  /\ UNCHANGED <<want, version, mod, queue, load, gen, admission, restoreReady, ordinary, terminal, hook, faults>>
\* disableModule of one module, in dispose() and in the rollback of initialize().
StopModule(m) ==
  /\ phase \in {"rollback", "stopping"} /\ m \in left
  /\ left' = left \ {m}
  /\ \/ ~IsEnabled(m) /\ Set(m, [mod[m] EXCEPT !.loaded = FALSE]) /\ UNCHANGED faults
     \/ IsEnabled(m) /\ Set(m, NewModule) /\ UNCHANGED faults
     \/ IsEnabled(m) /\ Fault /\ Set(m, StopFailed(m))
  /\ UNCHANGED <<want, version, queue, load, gen, admission, restoreReady, ordinary, terminal, hook, phase>>
AllTried == left = {}
\* The rollback ends; app.ts shuts the process down, which quiesces and disposes the manager:
\* dispose() tries the modules again that failed to stop.
RolledBack ==
  /\ phase = "rollback" /\ AllTried
  /\ phase' = "quiescing" /\ gen' = gen + 1
  /\ mod' = [m \in Module |-> [mod[m] EXCEPT !.hooks = FALSE]] /\ restoreReady' = FALSE
  /\ UNCHANGED <<want, version, queue, load, admission, ordinary, terminal, hook, left, faults>>
Disposed ==
  /\ phase = "stopping" /\ AllTried
  /\ phase' = "disposed"
  /\ mod' = [m \in Module |-> [mod[m] EXCEPT !.hooks = FALSE]]
  /\ UNCHANGED <<want, version, queue, load, gen, admission, restoreReady, ordinary, terminal, hook, left, faults>>

Shutdown ==
  \/ RolledBack \/ ProducersStopped \/ Quiesced \/ DisposeManager \/ HooksDrained \/ Disposed
  \/ \E m \in Module : StopModule(m)

Next ==
  \/ Reload \/ ActivateModulesAfterStateRestore \/ InitializeFails \/ LoadStep
  \/ QuiesceRewardProducers \/ Shutdown
  \/ \E h \in Hook : RunActionHooks(h) \/ \E t \in BOOLEAN : ProcessActionHooks(h, t)

Spec == Init /\ [][Next]_vars

\* The steps that are weakly fair. Promise continuations run and module callbacks
\* settle.
Weak == ({"load", "shutdown"} \X {0}) \cup ({"hook"} \X Hook)
WeakStep(k) ==
  CASE k[1] = "load" -> LoadStep
    [] k[1] = "shutdown" -> Shutdown
    [] k[1] = "hook" -> RunActionHooks(k[2])

-----------------------------------------------------------------------------
TypeOK ==
  /\ want \subseteq Module
  /\ version \in 1..(MaxReloads + 1)
  /\ mod \in [Module -> [kind : {"disabled", "starting", "enabled", "stopping", "cleanup-required"},
                         restored : BOOLEAN, cfg : 0..(MaxReloads + 1), hooks : BOOLEAN, loaded : BOOLEAN]]
  /\ admission \in {"closed", "loading", "ready", "failed"}
  /\ \A h \in Hook : hook[h].snapshot \subseteq Module
  /\ phase \in {"up", "rollback", "quiescing", "draining", "quiesced", "closing", "stopping", "disposed"}
  /\ faults \in 0..MaxFaults

\* New sessions are admitted only while exactly the configured modules run, each with the
\* configuration that was loaded last, activated when the state is restored.
ReadyMeansLoaded ==
  admission = "ready" =>
    \A m \in Module : LET x == mod[m] IN
      IF m \in want
      THEN x.kind = "enabled" /\ x.hooks /\ x.cfg = version /\ (restoreReady => x.restored)
      ELSE x.kind = "disabled" /\ ~x.hooks

\* A module that is stopped or in need of cleanup has no hooks: no failure path of the
\* lifecycle leaves hooks of a broken module behind.
HooksOfLiveModules ==
  \A m \in Module : mod[m].hooks => mod[m].kind \in {"starting", "enabled", "stopping"}

\* A load in which no module callback fails succeeds, whatever state earlier failures left
\* the modules in: a reload recovers.
FailsOnlyByFault == load.failed => faults > load.base

\* A module that still holds resources stays in the list, so that the next load or the
\* shutdown stops it again.
NoModuleLost == \A m \in Module : mod[m].kind # "disabled" => mod[m].loaded

\* The shutdown stops modules only when no hook and no load operation is in progress.
StopIsExclusive ==
  phase \in {"stopping", "disposed"} => Operations(FALSE) = {} /\ queue = <<>> /\ load.pc = "idle"

\* What comes in the end: every load ends in a decision about the admission, and a shutdown
\* that quiesced the manager reaches its end although modules fail to stop.
AtRest == admission # "loading" /\ phase \in {"up", "disposed"}
=============================================================================
