-------------------------- MODULE MCLive --------------------------
(***************************************************************************)
(* Small instances of the parts in which something must happen in the end, *)
(* each under the fairness its module states.                              *)
(***************************************************************************)
EXTENDS Slots

CONSTANTS
  la, lb

Claims == INSTANCE EthClaimManager WITH
  Sessions <- {la, lb}, Legacy <- {}, Requests <- {"r1"}, EthMaxPending <- 1,
  EthQueueNoFunds <- FALSE, OrderedReplies <- TRUE, RpcLag <- 0, MaxIdx <- 2, MaxSigned <- 2,
  NoSession <- Unused, MaxRestarts <- 0, MaxDbErrors <- 1,
  db <- x1, booked <- x2, pool <- x3, mined <- x4, chainNonce <- x5, phase <- x6, claims <- x7,
  dict <- x8, queue <- x9, pending <- x10, reserved <- x11, nonce <- x12, ready <- x13,
  nextIdx <- x14, task <- x15, stats <- x16, signed <- x17, restarts <- x18, dbErrors <- x19
Restarts == INSTANCE EthClaimManager WITH
  Sessions <- {la}, Legacy <- {}, Requests <- {"r1"}, EthMaxPending <- 1, EthQueueNoFunds <- FALSE,
  OrderedReplies <- TRUE, RpcLag <- 0, MaxIdx <- 2, MaxSigned <- 2, NoSession <- Unused,
  MaxRestarts <- 1, MaxDbErrors <- 1,
  db <- x1, booked <- x2, pool <- x3, mined <- x4, chainNonce <- x5, phase <- x6, claims <- x7,
  dict <- x8, queue <- x9, pending <- x10, reserved <- x11, nonce <- x12, ready <- x13,
  nextIdx <- x14, task <- x15, stats <- x16, signed <- x17, restarts <- x18, dbErrors <- x19
Ending == INSTANCE FaucetSession WITH
  MinDropAmount <- 1, MaxDropAmount <- 1, MaxData <- 0, MaxRestarts <- 0, MaxRequests <- 0,
  MaxDbErrors <- 2,
  row <- x1, mem <- x2, timer <- x3, rollback <- x4, reserved <- x5, registered <- x6, start <- x7,
  queue <- x8, chain <- x9, saves <- x10, pc <- x11, call <- x12, phase <- x13, accounted <- x14,
  completions <- x15, requests <- x16, dbErrors <- x17, restarts <- x18
Releasing == INSTANCE FaucetSession WITH
  MinDropAmount <- 1, MaxDropAmount <- 1, MaxData <- 0, MaxRestarts <- 0, MaxRequests <- 1,
  MaxDbErrors <- 1,
  row <- x1, mem <- x2, timer <- x3, rollback <- x4, reserved <- x5, registered <- x6, start <- x7,
  queue <- x8, chain <- x9, saves <- x10, pc <- x11, call <- x12, phase <- x13, accounted <- x14,
  completions <- x15, requests <- x16, dbErrors <- x17, restarts <- x18
Outflow == INSTANCE FaucetOutflow WITH
  Claim <- {la, lb}, Durations <- {2}, Amount <- 1, MaxDebt <- 1, UpperLimit <- 1,
  MarkerLimit <- 1, MaxTime <- 0, MaxRewards <- 0, MaxFaults <- 2, MaxCrashes <- 1, Unit <- 6,
  None <- Unused,
  rt <- x1, disk <- x2, own <- x3, unsure <- x4, cur <- x5, claim <- x6, now <- x7, asked <- x8,
  acked <- x9, faults <- x10, crashes <- x11
Dynamic == INSTANCE DynamicOutflow WITH
  Balances <- {1}, Unclaimed <- {0, 1}, BurstWindow <- 1, CutoffWindow <- 1, StaleTime <- 1,
  MaxGrants <- 1, MaxRewards <- 1, MaxTime <- 2, MaxFaults <- 1, MaxStops <- 1, None <- Unused,
  rt <- x1, disk <- x2, own <- x3, cur <- x4, timer <- x5, refresh <- x6, wallet <- x7,
  grants <- x8, now <- x9, since <- x10, asked <- x11, acked <- x12, faults <- x13, stops <- x14
Lookups == INSTANCE BoundedAsyncWork WITH
  Gen <- {"g1", "g2"}, Work <- {"w1"}, Call <- {"c1", "c2"}, MaxInflight <- 1, MaxFaults <- 1,
  NoGen <- Unused, NoCall <- Unused,
  gen <- x1, current <- x2, failed <- x3, lifecycle <- x4, call <- x5, work <- x6, faults <- x7
Settling == INSTANCE BoundedAsyncWork WITH
  Gen <- {"g1", "g2"}, Work <- {"w1"}, Call <- {"c1", "c2"}, MaxInflight <- 1, MaxFaults <- 1,
  NoGen <- Unused, NoCall <- Unused,
  gen <- x1, current <- x2, failed <- x3, lifecycle <- x4, call <- x5, work <- x6, faults <- x7
Passport == INSTANCE PassportLookup WITH
  Addr <- {la}, Lookup <- {"k", "l"}, Trust <- {"t", "u"}, Newest <- {1}, CacheTime <- 2,
  DedupTime <- 2, AutoLimit <- 1, MaxTime <- 1, MaxLookups <- 2, MaxReloads <- 1, MaxFaults <- 0,
  HasFile <- TRUE, None <- Unused,
  row <- x1, stamp <- x2, gens <- x3, file <- x4, r <- x5, rot <- x6, lk <- x7, pend <- x8,
  auto <- x9, now <- x10, next <- x11, used <- x12, reloads <- x13, faults <- x14
Verifier == INSTANCE PassportVerifier WITH
  Request <- {la, lb}, MaxPending <- 2, MaxGens <- 3, MaxFaults <- 3, MaxReloads <- 1,
  None <- Unused,
  gen <- x1, live <- x2, req <- x3, accepting <- x4, stopped <- x5, timer <- x6, undrained <- x7,
  job <- x8, jobGen <- x9, nextId <- x10, faults <- x11, reloads <- x12
Prover == INSTANCE ZupassVerifier WITH
  Request <- {la, lb}, MaxPending <- 2, MaxGens <- 3, MaxFaults <- 3, MaxReloads <- 1,
  None <- Unused,
  gen <- x1, live <- x2, admission <- x3, queue <- x4, state <- x5, timer <- x6, undrained <- x7,
  disposed <- x8, job <- x9, jobGen <- x10, nextId <- x11, faults <- x12, reloads <- x13
Validator == INSTANCE PoWValidator WITH
  Session <- {la, lb}, SharesPerSession <- 2, MaxGlobalPending <- 3, MaxSessionPending <- 2,
  MaxFaults <- 1, NoShare <- Unused,
  v <- x1, worker <- x2, job <- x3, answer <- x4, tail <- x5, result <- x6, faults <- x7
Verification == INSTANCE PoWVerification WITH
  Session <- {la, lb}, MaxNonce <- 1, MaxShares <- 1, Individuals <- 1, MaxMissed <- 1,
  MaxPending <- 1, MaxConnects <- 1,
  sess <- x1, share <- x2, task <- x3, penalty <- x4, paid <- x5, connects <- x6
Servers == INSTANCE PoWServer WITH
  Server <- {"p"}, Session <- {la}, SessionsPerServer <- 2, MaxFaults <- 2, NoServer <- Unused,
  srv <- x1, sess <- x2, op <- x3, destroy <- x4, accepting <- x5, faults <- x6
Connection == INSTANCE MinerConnection WITH
  MaxShares <- 2, MaxVerify <- 1, MaxDrops <- 2, DropsInFlight <- FALSE,
  status <- x1, timer <- x2, requests <- x3, wire <- x4, shareQueue <- x5, processing <- x6,
  verifyQueue <- x7, worker <- x8, jobs <- x9, closing <- x10, nextShare <- x11, nextVerify <- x12,
  drops <- x13, params <- x14, serverParams <- x15, sentShares <- x16, answered <- x17
Github == INSTANCE GithubLogin WITH
  Owner <- {"o1"}, Context <- {"same", "cross"}, SameOrigin <- {"same"}, MaxPending <- 2,
  MaxPerOwner <- 2, StateLife <- 2, MaxExchanges <- 1, GlobalLimit <- 2, OwnerLimit <- 2,
  Window <- 2, MaxIds <- 2, MaxTime <- 3, MaxStops <- 1, None <- Unused,
  now <- x1, states <- x2, count <- x3, inFlight <- x4, starts <- x5, startsBy <- x6,
  running <- x7, orphaned <- x8, nextId <- x9, stops <- x10, exchanges <- x11, polled <- x12,
  answer <- x13, log <- x14, full <- x15
IPInfo == INSTANCE IPInfoLookup WITH
  Ip <- {la, lb}, MaxConcurrent <- 2, MaxRequests <- 2, Window <- 2, Threshold <- 2,
  InitialBackoff <- 1, MaxBackoff <- 2, MaxInvalidated <- 1, CacheTime <- 1, MaxLookups <- 2,
  MaxTime <- 1, MaxRotations <- 2, MaxDbFaults <- 1, None <- Unused,
  now <- x1, look <- x2, pending <- x3, gen <- x4, accepting <- x5, draining <- x6, invalid <- x7,
  bypass <- x8, times <- x9, failures <- x10, backoff <- x11, cache <- x12, nextLook <- x13,
  rotations <- x14, faults <- x15, log <- x16, lastFailure <- x17, birth <- x18, served <- x19
Stake == INSTANCE StakeLookup WITH
  Addresses <- {la, lb}, MaxConcurrent <- 2, StakeCacheTime <- 1, PriceCacheTime <- 1,
  RefreshCooldown <- 1, HasFilter <- FALSE, MaxLookups <- 2, MaxRotations <- 2, MaxTime <- 2,
  now <- x1, generation <- x2, accepting <- x3, rotating <- x4, drain <- x5, lookups <- x6,
  promises <- x7, pricing <- x8, pricePromise <- x9, stakeCache <- x10, priceCache <- x11,
  spotMarketKey <- x12, forced <- x13, started <- x14
Ownership == INSTANCE StakeOwnership WITH
  Requests <- {la, lb}, RequiredStake <- TRUE, MaxChallenges <- 2, Ttl <- 2, MaxTime <- 2,
  MaxFaults <- 1, MaxCrashes <- 0,
  now <- x1, status <- x2, memory <- x3, stored <- x4, challenge <- x5, issued <- x6, req <- x7,
  chain <- x8, used <- x9, refreshing <- x10, told <- x11, faults <- x12, crashes <- x13
Manager == INSTANCE ModuleManager WITH
  Module <- {"m1", "m2"}, Hook <- {"h1"}, MaxReloads <- 1, MaxFaults <- 1, EarlyReload <- FALSE,
  want <- x1, version <- x2, mod <- x3, queue <- x4, load <- x5, gen <- x6, admission <- x7,
  restoreReady <- x8, ordinary <- x9, terminal <- x10, hook <- x11, left <- x12, phase <- x13,
  faults <- x14
Lifecycle == INSTANCE ServiceLifecycle WITH
  EarlySignal <- FALSE, MaxInstances <- 5, MaxStops <- 0, MaxFaults <- 1,
  obj <- x1, reg <- x2, batch <- x3, up <- x4, down <- x5, waiting <- x6, exited <- x7,
  stops <- x8, faults <- x9
Database == INSTANCE DatabaseLifecycle WITH
  Modules <- {"m1"}, Sessions <- 3, BatchSize <- 1, RunLimit <- 1, MaxFaults <- 1, MaxCloses <- 1,
  initialized <- x1, stopping <- x2, opening <- x3, db <- x4, worker <- x5, closing <- x6,
  awaited <- x7, moduleDBs <- x8, initRuns <- x9, cleanup <- x10, cursor <- x11, expired <- x12,
  present <- x13, guarded <- x14, faults <- x15, closes <- x16
Schema == INSTANCE SchemaMigration WITH
  Drivers <- {"sqlite", "mysql"}, MaxInterrupts <- 2,
  store <- x1, driver <- x2, version <- x3, have <- x4, bad <- x5, oversized <- x6, rows <- x7,
  pc <- x8, from <- x9, at <- x10, interrupts <- x11
Rpc == INSTANCE RpcEndpointPool WITH
  Endpoint <- {"e1", "e2"}, Priority <- [e \in {"e1", "e2"} |-> IF e = "e2" THEN 2 ELSE 1],
  Position <- [e \in {"e1", "e2"} |-> IF e = "e1" THEN 1 ELSE 2],
  MaxDiff <- 1, BroadcastCount <- 1, MaxHeight <- 2, MaxChecks <- 1, MaxEvents <- 1,
  remote <- x1, ep <- x2, checks <- x3, timers <- x4, disposed <- x5, sent <- x6, events <- x7

ASSUME BoundsAssumption ==
  /\ Ending!SessionAssumption /\ Releasing!SessionAssumption /\ Outflow!PolicyAssumption /\ Dynamic!WindowAssumption
  /\ Lookups!BoundsAssumption /\ Settling!BoundsAssumption /\ Passport!TimeAssumption /\ Verifier!CapacityAssumption
  /\ Prover!CapacityAssumption /\ Validator!LimitsAssumption /\ Verification!BoundsAssumption /\ Servers!BoundsAssumption
  /\ Connection!BoundAssumption /\ Github!LimitAssumption /\ Github!ContextAssumption /\ Github!BoundAssumption /\ IPInfo!LimitAssumption
  /\ Stake!StakeAssumption /\ Ownership!OwnershipAssumption /\ Manager!ParamsAssumption /\ Lifecycle!LifecycleAssumption
  /\ Database!DatabaseAssumption /\ Schema!SchemaAssumption /\ Rpc!PoolAssumption

Init ==
  \/ part = "claims" /\ Claims!Init /\ UnusedAfter(19)
  \/ part = "restart" /\ Restarts!Init /\ UnusedAfter(19)
  \/ part = "session" /\ Ending!Init /\ UnusedAfter(18)
  \/ part = "release" /\ Releasing!Init /\ UnusedAfter(18)
  \/ part = "outflow" /\ Outflow!Init /\ UnusedAfter(11)
  \/ part = "dynamic" /\ Dynamic!Init /\ UnusedAfter(14)
  \/ part = "lookups" /\ Lookups!Init /\ UnusedAfter(7)
  \/ part = "settling" /\ Settling!Init /\ UnusedAfter(7)
  \/ part = "passport" /\ Passport!Init /\ UnusedAfter(14)
  \/ part = "verifier" /\ Verifier!Init /\ UnusedAfter(12)
  \/ part = "prover" /\ Prover!Init /\ UnusedAfter(13)
  \/ part = "validator" /\ Validator!Init /\ UnusedAfter(7)
  \/ part = "verification" /\ Verification!Init /\ UnusedAfter(6)
  \/ part = "server" /\ Servers!Init /\ UnusedAfter(6)
  \/ part = "connection" /\ Connection!Init /\ UnusedAfter(17)
  \/ part = "github" /\ Github!Init /\ UnusedAfter(15)
  \/ part = "ipinfo" /\ IPInfo!Init /\ UnusedAfter(19)
  \/ part = "stake" /\ Stake!Init /\ UnusedAfter(14)
  \/ part = "ownership" /\ Ownership!Init /\ UnusedAfter(13)
  \/ part = "modules" /\ Manager!Init /\ UnusedAfter(14)
  \/ part = "lifecycle" /\ Lifecycle!Init /\ UnusedAfter(9)
  \/ part = "database" /\ Database!Init /\ UnusedAfter(16)
  \/ part = "schema" /\ Schema!Init /\ UnusedAfter(11)
  \/ part = "rpc" /\ Rpc!Init /\ UnusedAfter(7)
Next ==
  /\ UNCHANGED part
  /\ \/ part = "claims" /\ Claims!Next /\ KeepAfter(19)
     \/ part = "restart" /\ Restarts!Next /\ KeepAfter(19)
     \/ part = "session" /\ Ending!Next /\ KeepAfter(18)
     \/ part = "release" /\ Releasing!Next /\ KeepAfter(18)
     \/ part = "outflow" /\ Outflow!Next /\ KeepAfter(11)
     \/ part = "dynamic" /\ Dynamic!Next /\ KeepAfter(14)
     \/ part = "lookups" /\ Lookups!Next /\ KeepAfter(7)
     \/ part = "settling" /\ Settling!Next /\ KeepAfter(7)
     \/ part = "passport" /\ Passport!Next /\ KeepAfter(14)
     \/ part = "verifier" /\ Verifier!Next /\ KeepAfter(12)
     \/ part = "prover" /\ Prover!Next /\ KeepAfter(13)
     \/ part = "validator" /\ Validator!Next /\ KeepAfter(7)
     \/ part = "verification" /\ Verification!Next /\ KeepAfter(6)
     \/ part = "server" /\ Servers!Next /\ KeepAfter(6)
     \/ part = "connection" /\ Connection!Next /\ KeepAfter(17)
     \/ part = "github" /\ Github!Next /\ KeepAfter(15)
     \/ part = "ipinfo" /\ IPInfo!Next /\ KeepAfter(19)
     \/ part = "stake" /\ Stake!Next /\ KeepAfter(14)
     \/ part = "ownership" /\ Ownership!Next /\ KeepAfter(13)
     \/ part = "modules" /\ Manager!Next /\ KeepAfter(14)
     \/ part = "lifecycle" /\ Lifecycle!Next /\ KeepAfter(9)
     \/ part = "database" /\ Database!Next /\ KeepAfter(16)
     \/ part = "schema" /\ Schema!Next /\ KeepAfter(11)
     \/ part = "rpc" /\ Rpc!Next /\ KeepAfter(7)
Spec == Init /\ [][Next]_all

-----------------------------------------------------------------------------
\* The strongly fair steps of the parts.  The part never changes, so to be fair to the disjunction is to be
\* fair to the step of each part.
StrongStep(k) ==
  \/ part = "claims" /\ Claims!StrongStep(k) /\ KeepAfter(19) /\ UNCHANGED part
  \/ part = "restart" /\ Restarts!StrongStep(k) /\ KeepAfter(19) /\ UNCHANGED part
  \/ part = "outflow" /\ Outflow!StrongStep(k) /\ KeepAfter(11) /\ UNCHANGED part
  \/ part = "dynamic" /\ Dynamic!StrongStep(k) /\ KeepAfter(14) /\ UNCHANGED part
  \/ part = "ownership" /\ Ownership!StrongStep(k) /\ KeepAfter(13) /\ UNCHANGED part

\* Each part under the fairness its module states; the providers of "settling" have a transport timeout.
Fairness ==
  /\ \A k \in Claims!Weak : WF_(Claims!vars)(part = "claims" /\ Claims!WeakStep(k))
  /\ \A k \in Restarts!Weak : WF_(Restarts!vars)(part = "restart" /\ Restarts!WeakStep(k))
  /\ \A k \in Ending!Weak : WF_(Ending!vars)(part = "session" /\ Ending!WeakStep(k))
  /\ \A k \in Releasing!Weak : WF_(Releasing!vars)(part = "release" /\ Releasing!WeakStep(k))
  /\ \A k \in Outflow!Weak : WF_(Outflow!vars)(part = "outflow" /\ Outflow!WeakStep(k))
  /\ \A k \in Dynamic!Weak : WF_(Dynamic!vars)(part = "dynamic" /\ Dynamic!WeakStep(k))
  /\ \A k \in Lookups!Weak : WF_(Lookups!vars)(part = "lookups" /\ Lookups!WeakStep(k))
  /\ \A k \in Settling!Weak : WF_(Settling!vars)(part = "settling" /\ Settling!WeakStep(k))
  /\ \A w \in {"w1"} : WF_(Settling!vars)(part = "settling" /\ Settling!Settle(w))
  /\ \A k \in Passport!Weak : WF_(Passport!vars)(part = "passport" /\ Passport!WeakStep(k))
  /\ \A k \in Verifier!Weak : WF_(Verifier!vars)(part = "verifier" /\ Verifier!WeakStep(k))
  /\ \A k \in Prover!Weak : WF_(Prover!vars)(part = "prover" /\ Prover!WeakStep(k))
  /\ \A k \in Validator!Weak : WF_(Validator!vars)(part = "validator" /\ Validator!WeakStep(k))
  /\ \A k \in Verification!Weak : WF_(Verification!vars)(part = "verification" /\ Verification!WeakStep(k))
  /\ \A k \in Servers!Weak : WF_(Servers!vars)(part = "server" /\ Servers!WeakStep(k))
  /\ \A k \in Connection!Weak : WF_(Connection!vars)(part = "connection" /\ Connection!WeakStep(k))
  /\ \A k \in Github!Weak : WF_(Github!vars)(part = "github" /\ Github!WeakStep(k))
  /\ \A k \in IPInfo!Weak : WF_(IPInfo!vars)(part = "ipinfo" /\ IPInfo!WeakStep(k))
  /\ \A k \in Stake!Weak : WF_(Stake!vars)(part = "stake" /\ Stake!WeakStep(k))
  /\ \A k \in Ownership!Weak : WF_(Ownership!vars)(part = "ownership" /\ Ownership!WeakStep(k))
  /\ \A k \in Manager!Weak : WF_(Manager!vars)(part = "modules" /\ Manager!WeakStep(k))
  /\ \A k \in Lifecycle!Weak : WF_(Lifecycle!vars)(part = "lifecycle" /\ Lifecycle!WeakStep(k))
  /\ \A k \in Database!Weak : WF_(Database!vars)(part = "database" /\ Database!WeakStep(k))
  /\ \A k \in Schema!Weak : WF_(Schema!vars)(part = "schema" /\ Schema!WeakStep(k))
  /\ \A k \in Rpc!Weak : WF_(Rpc!vars)(part = "rpc" /\ Rpc!WeakStep(k))
  /\ \A k \in Claims!Strong \cup Restarts!Strong \cup Outflow!Strong \cup Dynamic!Strong \cup Ownership!Strong : SF_all(StrongStep(k))
FairSpec == Spec /\ Fairness

-----------------------------------------------------------------------------
\* The bounds allow finitely many requests and faults, so what is owed to each of them is
\* settled in the end just when all of it is, again and again.

\* Every claim is paid and finished or failed, a stored session that runs ends and gives its reservation
\* back, the fee of every claim is booked and the outflow rate is read anew: although the process stops and
\* database errors hide what was written.
SessionsEnd ==
  []<>(/\ part = "claims" => Claims!ClaimsDecided
       /\ part = "restart" => Restarts!ClaimsDecided
       /\ part = "session" => Ending!SessionEnded
       /\ part = "release" => Releasing!ReservationEnded
       /\ part = "outflow" => Outflow!ClaimsFinished
       /\ part = "dynamic" => Dynamic!RateIsFresh)

\* Whoever waits for a lookup, a verification, a share, a login or a connection is answered, although
\* workers hang, children die, endpoints stay silent and modules are reloaded meanwhile.
RequestsAreAnswered ==
  []<>(/\ part = "lookups" => Lookups!CallersAnswered
       /\ part = "passport" => Passport!RotationEnded
       /\ part = "verifier" => Verifier!AtRest
       /\ part = "prover" => Prover!AtRest
       /\ part = "validator" => Validator!AtRest
       /\ part = "verification" => Verification!AtRest
       /\ part = "server" => Servers!AtRest
       /\ part = "connection" => Connection!AtRest
       /\ part = "github" => Github!LoginsEnded
       /\ part = "ipinfo" => IPInfo!RotationEnded
       /\ part = "stake" => Stake!AtRest
       /\ part = "ownership" => Ownership!AtRest)

\* Every replacement of a runtime, load of the modules, shutdown, close of the database, upgrade and
\* change of an endpoint's health comes to its end, although steps of it fail.
TransitionsEnd ==
  []<>(/\ part = "settling" => Settling!LifecycleEnded
       /\ part = "modules" => Manager!AtRest
       /\ part = "lifecycle" => Lifecycle!ShutdownExited
       /\ part = "database" => Database!AtRest
       /\ part = "schema" => Schema!UpgradeEnded
       /\ part = "rpc" => Rpc!HealthIsSeen)
=============================================================================
