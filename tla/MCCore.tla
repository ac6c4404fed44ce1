-------------------------- MODULE MCCore --------------------------
(***************************************************************************)
(* Instances of the parts every other part builds on: the life of a        *)
(* session, the lookups with their replaceable runtimes, the module        *)
(* manager, the service registry and the shutdown, the database and its    *)
(* schema upgrades.                                                        *)
(***************************************************************************)
EXTENDS Slots, TLC

CONSTANTS
  u1, u2, c1, c2, c3, g1, g2, g3

Session == INSTANCE FaucetSession WITH
  MinDropAmount <- 1, MaxDropAmount <- 1, MaxRequests <- 1, MaxData <- 1, MaxDbErrors <- 1,
  MaxRestarts <- 1,
  row <- x1, mem <- x2, timer <- x3, rollback <- x4, reserved <- x5, registered <- x6, start <- x7,
  queue <- x8, chain <- x9, saves <- x10, pc <- x11, call <- x12, phase <- x13, accounted <- x14,
  completions <- x15, requests <- x16, dbErrors <- x17, restarts <- x18
Requests == INSTANCE FaucetSession WITH
  MinDropAmount <- 1, MaxDropAmount <- 1, MaxRequests <- 2, MaxData <- 0, MaxDbErrors <- 2,
  MaxRestarts <- 0,
  row <- x1, mem <- x2, timer <- x3, rollback <- x4, reserved <- x5, registered <- x6, start <- x7,
  queue <- x8, chain <- x9, saves <- x10, pc <- x11, call <- x12, phase <- x13, accounted <- x14,
  completions <- x15, requests <- x16, dbErrors <- x17, restarts <- x18
Lookups == INSTANCE BoundedAsyncWork WITH
  Gen <- {g1, g2, g3}, Work <- {u1, u2}, Call <- {c1, c2, c3}, MaxInflight <- 1, MaxFaults <- 1,
  NoGen <- Unused, NoCall <- Unused,
  gen <- x1, current <- x2, failed <- x3, lifecycle <- x4, call <- x5, work <- x6, faults <- x7
Manager == INSTANCE ModuleManager WITH
  Module <- {"m1", "m2"}, Hook <- {u1, u2}, MaxReloads <- 2, MaxFaults <- 1, EarlyReload <- FALSE,
  want <- x1, version <- x2, mod <- x3, queue <- x4, load <- x5, gen <- x6, admission <- x7,
  restoreReady <- x8, ordinary <- x9, terminal <- x10, hook <- x11, left <- x12, phase <- x13,
  faults <- x14
Lifecycle == INSTANCE ServiceLifecycle WITH
  EarlySignal <- FALSE, MaxInstances <- 5, MaxStops <- 1, MaxFaults <- 1,
  obj <- x1, reg <- x2, batch <- x3, up <- x4, down <- x5, waiting <- x6, exited <- x7,
  stops <- x8, faults <- x9
Database == INSTANCE DatabaseLifecycle WITH
  Modules <- {u1, u2}, Sessions <- 4, BatchSize <- 2, RunLimit <- 3, MaxFaults <- 1,
  MaxCloses <- 1,
  initialized <- x1, stopping <- x2, opening <- x3, db <- x4, worker <- x5, closing <- x6,
  awaited <- x7, moduleDBs <- x8, initRuns <- x9, cleanup <- x10, cursor <- x11, expired <- x12,
  present <- x13, guarded <- x14, faults <- x15, closes <- x16
Schema == INSTANCE SchemaMigration WITH
  Drivers <- {"sqlite", "mysql"}, MaxInterrupts <- 3,
  store <- x1, driver <- x2, version <- x3, have <- x4, bad <- x5, oversized <- x6, rows <- x7,
  pc <- x8, from <- x9, at <- x10, interrupts <- x11

ASSUME BoundsAssumption ==
  /\ Session!SessionAssumption /\ Requests!SessionAssumption /\ Lookups!BoundsAssumption /\ Manager!ParamsAssumption
  /\ Lifecycle!LifecycleAssumption /\ Database!DatabaseAssumption /\ Schema!SchemaAssumption

\* Lookups, hook calls and the modules of the database are interchangeable.
Symmetry == Permutations({u1, u2})

Init ==
  \/ part = "session" /\ Session!Init /\ UnusedAfter(18)
  \/ part = "requests" /\ Requests!Init /\ UnusedAfter(18)
  \/ part = "lookups" /\ Lookups!Init /\ UnusedAfter(7)
  \/ part = "modules" /\ Manager!Init /\ UnusedAfter(14)
  \/ part = "lifecycle" /\ Lifecycle!Init /\ UnusedAfter(9)
  \/ part = "database" /\ Database!Init /\ UnusedAfter(16)
  \/ part = "schema" /\ Schema!Init /\ UnusedAfter(11)
Next ==
  /\ UNCHANGED part
  /\ \/ part = "session" /\ Session!Next /\ KeepAfter(18)
     \/ part = "requests" /\ Requests!Next /\ KeepAfter(18)
     \/ part = "lookups" /\ Lookups!Next /\ KeepAfter(7)
     \/ part = "modules" /\ Manager!Next /\ KeepAfter(14)
     \/ part = "lifecycle" /\ Lifecycle!Next /\ KeepAfter(9)
     \/ part = "database" /\ Database!Next /\ KeepAfter(16)
     \/ part = "schema" /\ Schema!Next /\ KeepAfter(11)
Spec == Init /\ [][Next]_all

-----------------------------------------------------------------------------
\* A stored running session keeps its reservation, a start rollback ran only for a session that
\* never becomes payable, the object and its row agree at the end, and a terminal row is final:
\* through database errors, lost acknowledgements, a crash or a shutdown.
SessionIsDurable ==
  /\ [](part = "session" => /\ Session!TypeOK /\ Session!RollbackIsSafe /\ Session!RollbackNotLost /\ Session!RunningIsReserved
                            /\ Session!DisposedAgrees /\ Session!CleanExitKeepsSession)
  /\ [][part = "session" => Session!TerminalIsFinalStep]_all

\* Rewards, penalties, completion, failure and timeout in every order: what becomes claimable is
\* what the reward hooks were told, and the completion hooks run once.
ClaimableIsAccounted ==
  part = "requests" => Requests!ClaimableIsAccounted /\ Requests!CompletionHooksOnce /\ Requests!DisposedAgrees

\* However runtimes are replaced, one generation serves, no runtime is leaked, the limit holds over
\* all generations together, and a lookup given up neither changes the session nor answers.
LookupsAreBounded ==
  /\ [](part = "lookups" => Lookups!TypeOK /\ Lookups!InflightBound /\ Lookups!NoRuntimeLost /\ Lookups!OneServes)
  /\ [][part = "lookups" => Lookups!NoLateEffectStep /\ Lookups!NoStaleResultStep]_all

\* Sessions are admitted only while exactly the configured modules run as last configured, a broken
\* module has no hooks and is not forgotten, a load fails only by a fault of its own, and the
\* shutdown stops modules only when no hook and no load runs.
ReadyMeansLoaded ==
  part = "modules" =>
    /\ Manager!TypeOK /\ Manager!ReadyMeansLoaded /\ Manager!HooksOfLiveModules /\ Manager!NoModuleLost
    /\ Manager!StopIsExclusive /\ Manager!FailsOnlyByFault

\* No disposer runs twice, an object leaves the registry only after its disposer settled, the HTTP
\* admission stays closed during the shutdown, and no service runs when the database is closed,
\* but one whose disposer failed.
ClosedLast ==
  part = "lifecycle" =>
    /\ Lifecycle!TypeOK /\ Lifecycle!DisposedOnce /\ Lifecycle!BatchStaysRegistered /\ Lifecycle!RemovedIsSettled
    /\ Lifecycle!ClosedLast /\ Lifecycle!AdmissionStopped

\* Nothing works on a database that is being closed, a module's upgrade runs once and is not
\* published late, and the cleanup stays in its limits and deletes what is expired and unguarded.
NoWorkOnClosedDb ==
  /\ [](part = "database" => /\ Database!TypeOK /\ Database!NoWorkOnClosedDb /\ Database!ReadyIsOpen
                             /\ Database!OneInitPerModule /\ Database!CleanupIsBounded)
  /\ [][part = "database" => Database!NoLatePublishStep]_all

\* The stored version is true however often an upgrade is cut short, an upgrade can be taken up
\* again, a schema of another build is left alone, and current rows survive.
VersionIsTrue ==
  /\ [](part = "schema" => Schema!TypeOK /\ Schema!VersionIsTrue /\ Schema!UpgradeResumes /\ Schema!CacheRowsAreJudged)
  /\ [][part = "schema" => Schema!RefusedUntouchedStep /\ Schema!CurrentRowsSurviveStep]_all
=============================================================================
