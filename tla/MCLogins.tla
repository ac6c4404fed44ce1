-------------------------- MODULE MCLogins --------------------------
(***************************************************************************)
(* Instances of the login modules (Zupass with its prover, GitHub), of the *)
(* worker that verifies passports, of the information about remote         *)
(* addresses and the restrictions built on it, and of the snapshots of the *)
(* state that operators take.                                              *)
(***************************************************************************)
EXTENDS Slots, TLC

CONSTANTS
  u1, u2, v1, v2

\* Restrictions: half the reward, or a session that is blocked, closed or killed.
Entries == {[reward |-> 1, blocked |-> "no"], [reward |-> 2, blocked |-> "true"], [reward |-> 2, blocked |-> "kill"]}

Prover == INSTANCE ZupassVerifier WITH
  Request <- {u1, u2, "r"}, MaxPending <- 2, MaxGens <- 3, MaxFaults <- 3, MaxReloads <- 2,
  None <- Unused,
  gen <- x1, live <- x2, admission <- x3, queue <- x4, state <- x5, timer <- x6, undrained <- x7,
  disposed <- x8, job <- x9, jobGen <- x10, nextId <- x11, faults <- x12, reloads <- x13
Verifier == INSTANCE PassportVerifier WITH
  Request <- {u1, u2, "r"}, MaxPending <- 2, MaxGens <- 3, MaxFaults <- 3, MaxReloads <- 2,
  None <- Unused,
  gen <- x1, live <- x2, req <- x3, accepting <- x4, stopped <- x5, timer <- x6, undrained <- x7,
  job <- x8, jobGen <- x9, nextId <- x10, faults <- x11, reloads <- x12
Zupass == INSTANCE ZupassLogin WITH
  Owner <- {u1, u2}, Context <- {v1, v2}, MaxPending <- 2, MaxPerOwner <- 1, MaxIssues <- 2,
  MaxCallbacks <- 1, MaxRateOwners <- 1, RateWindow <- 2, ChallengeLife <- 1, TokenLife <- 2,
  Policy <- {"p1", "p2"}, MaxIds <- 3, MaxTime <- 3, MaxReloads <- 1, None <- Unused,
  now <- x1, policy <- x2, reloading <- x3, ch <- x4, byContext <- x5, count <- x6, idsOf <- x7,
  budget <- x8, proving <- x9, tokens <- x10, nextId <- x11, reloads <- x12, log <- x13,
  last <- x14
Github == INSTANCE GithubLogin WITH
  Owner <- {u1, u2}, Context <- {"same", "cross"}, SameOrigin <- {"same"}, MaxPending <- 2,
  MaxPerOwner <- 1, StateLife <- 2, MaxExchanges <- 1, GlobalLimit <- 2, OwnerLimit <- 1,
  Window <- 2, MaxIds <- 3, MaxTime <- 3, MaxStops <- 1, None <- Unused,
  now <- x1, states <- x2, count <- x3, inFlight <- x4, starts <- x5, startsBy <- x6,
  running <- x7, orphaned <- x8, nextId <- x9, stops <- x10, exchanges <- x11, polled <- x12,
  answer <- x13, log <- x14, full <- x15
IPInfo == INSTANCE IPInfoLookup WITH
  Ip <- {u1, u2}, MaxConcurrent <- 2, MaxRequests <- 3, Window <- 2, Threshold <- 2,
  InitialBackoff <- 1, MaxBackoff <- 2, MaxInvalidated <- 1, CacheTime <- 1, MaxLookups <- 3,
  MaxTime <- 1, MaxRotations <- 2, MaxDbFaults <- 1, None <- Unused,
  now <- x1, look <- x2, pending <- x3, gen <- x4, accepting <- x5, draining <- x6, invalid <- x7,
  bypass <- x8, times <- x9, failures <- x10, backoff <- x11, cache <- x12, nextLook <- x13,
  rotations <- x14, faults <- x15, log <- x16, lastFailure <- x17, birth <- x18, served <- x19
Provider == INSTANCE IPInfoLookup WITH
  Ip <- {u1, u2}, MaxConcurrent <- 2, MaxRequests <- 2, Window <- 2, Threshold <- 1,
  InitialBackoff <- 1, MaxBackoff <- 2, MaxInvalidated <- 1, CacheTime <- 1, MaxLookups <- 3,
  MaxTime <- 3, MaxRotations <- 0, MaxDbFaults <- 0, None <- Unused,
  now <- x1, look <- x2, pending <- x3, gen <- x4, accepting <- x5, draining <- x6, invalid <- x7,
  bypass <- x8, times <- x9, failures <- x10, backoff <- x11, cache <- x12, nextLook <- x13,
  rotations <- x14, faults <- x15, log <- x16, lastFailure <- x17, birth <- x18, served <- x19
Restriction == INSTANCE IPRestriction WITH
  Ip <- {u1, u2}, Entry <- Entries, Full <- 2, Timeout <- 1, Refresh <- 2, Required <- FALSE,
  MaxTime <- 3, MaxChanges <- 1, None <- Unused,
  now <- x1, info <- x2, file <- x3, loaded <- x4, refreshed <- x5, white <- x6, whiteLoaded <- x7,
  whiteRefreshed <- x8, status <- x9, ip <- x10, skip <- x11, data <- x12, restr <- x13,
  rtime <- x14, moving <- x15, changes <- x16, changed <- x17, last <- x18
Snapshot == INSTANCE StateSnapshot WITH
  Files <- {u1, u2}, Commands <- {v1, v2}, MaxStarts <- 2, MaxVersion <- 3, NoFile <- Unused,
  MaxLosses <- 1,
  content <- x1, version <- x2, running <- x3, starts <- x4, lock <- x5, cmd <- x6, snap <- x7,
  root <- x8, losses <- x9, rotten <- x10, rested <- x11

ASSUME BoundsAssumption ==
  /\ Prover!CapacityAssumption /\ Verifier!CapacityAssumption /\ Zupass!LimitAssumption /\ Github!LimitAssumption /\ Github!ContextAssumption /\ Github!BoundAssumption
  /\ IPInfo!LimitAssumption /\ Provider!LimitAssumption /\ Restriction!TimeAssumption /\ Restriction!EntryAssumption
  /\ Snapshot!BoundAssumption

\* Addresses, requests and files are interchangeable, and so are contexts and commands.
Symmetry == Permutations({u1, u2}) \cup Permutations({v1, v2})

Init ==
  \/ part = "prover" /\ Prover!Init /\ UnusedAfter(13)
  \/ part = "verifier" /\ Verifier!Init /\ UnusedAfter(12)
  \/ part = "zupass" /\ Zupass!Init /\ UnusedAfter(14)
  \/ part = "github" /\ Github!Init /\ UnusedAfter(15)
  \/ part = "ipinfo" /\ IPInfo!Init /\ UnusedAfter(19)
  \/ part = "provider" /\ Provider!Init /\ UnusedAfter(19)
  \/ part = "restriction" /\ Restriction!Init /\ UnusedAfter(18)
  \/ part = "snapshot" /\ Snapshot!Init /\ UnusedAfter(11)
Next ==
  /\ UNCHANGED part
  /\ \/ part = "prover" /\ Prover!Next /\ KeepAfter(13)
     \/ part = "verifier" /\ Verifier!Next /\ KeepAfter(12)
     \/ part = "zupass" /\ Zupass!Next /\ KeepAfter(14)
     \/ part = "github" /\ Github!Next /\ KeepAfter(15)
     \/ part = "ipinfo" /\ IPInfo!Next /\ KeepAfter(19)
     \/ part = "provider" /\ Provider!Next /\ KeepAfter(19)
     \/ part = "restriction" /\ Restriction!Next /\ KeepAfter(18)
     \/ part = "snapshot" /\ Snapshot!Next /\ KeepAfter(11)
Spec == Init /\ [][Next]_all

-----------------------------------------------------------------------------
\* Of each verification worker there is one at a time, every request it holds a place for is served by it,
\* a Zupass prover has one proof at a time, and a stop that succeeded leaves no worker behind.
OneWorker ==
  /\ part = "prover" => /\ Prover!TypeOK /\ Prover!OneWorker /\ Prover!PlacesAreBounded
                        /\ Prover!OneProofAtATime /\ Prover!DisposedIsDrained
  /\ part = "verifier" => Verifier!TypeOK /\ Verifier!OneWorker /\ Verifier!PendingIsServed /\ Verifier!StoppedIsDrained

\* The challenge store turns a login away only while it is full of usable challenges, its indexes agree,
\* rates are bounded, and a session starts only on a proof checked under the policy in force.
StartIsVerified ==
  part = "zupass" =>
    /\ Zupass!TypeOK /\ Zupass!IndexesAgree /\ Zupass!FullOfLiveChallenges /\ Zupass!RateIsBounded
    /\ Zupass!ProofBelongsToPolicy /\ Zupass!StartIsVerified

\* A GitHub login state buys one exchange and hands its result to one poll, its room and the exchanges
\* are accounted for whatever way they end, and a result waits for its own client.
LoginIsUsedOnce ==
  /\ [](part = "github" => Github!TypeOK /\ Github!RoomIsAccounted /\ Github!ExchangesAreLimited /\ Github!UsedOnce)
  /\ [][part = "github" => Github!ResultIsKeptStep]_all

\* An address has one lookup that may answer, what an invalidated lookup wrote is not served, and the
\* provider sees no more requests than budget and backoff allow.
InvalidatedIsNotServed ==
  /\ [](part = "ipinfo" => IPInfo!TypeOK /\ IPInfo!OneLookupPerIp /\ IPInfo!InvalidatedIsNotServed)
  /\ [](part = "provider" => Provider!BudgetIsKept)
  /\ [][part = "provider" => Provider!BackoffIsKeptStep]_all

\* Matching entries combine to the strictest, no reward is paid to a blocked session nor under rules
\* given up too long ago, although rules change and the session moves.
RewardFollowsRules ==
  part = "restriction" =>
    /\ Restriction!TypeOK /\ Restriction!CombinesToStrictest /\ Restriction!RewardFollowsRules
    /\ Restriction!BlockedIsEnded

\* A published snapshot is complete and is the state of the runtime root at one moment at which the
\* container was stopped, what is restored is that state, and what was reported done is durable.
SnapshotIsAState ==
  part = "snapshot" =>
    /\ Snapshot!TypeOK /\ Snapshot!OneAtATime /\ Snapshot!SnapshotIsAState /\ Snapshot!PublishedIsComplete
    /\ Snapshot!RestoredIsTheSnapshot /\ Snapshot!DoneIsDurable
=============================================================================
