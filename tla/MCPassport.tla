-------------------------- MODULE MCPassport --------------------------
(***************************************************************************)
(* Instances of the passport module (lookups and their cache, the limits   *)
(* of manual refreshes, and scores) and of the stake module (lookups and   *)
(* the proof of ownership).                                                *)
(***************************************************************************)
EXTENDS Slots, TLC

CONSTANTS
  u1, u2

\* Every session is one of this wallet.
WalletOf(s) == "w1"
\* Stamps, good and with one thing wrong each.
A == <<"A", "lower">>
AMixed == <<"A", "mixed">>
B == <<"B", "lower">>
Good == [provider |-> A, subjectProvider |-> A, hash |-> "h1", wallet |-> "w1", exactPrefix |-> TRUE, issuer |-> "i1",
         method |-> TRUE, purpose |-> TRUE, proof |-> TRUE, issued |-> 1, expiration |-> 2]
Stamps == {
  Good, [Good EXCEPT !.wallet = "w2"], [Good EXCEPT !.wallet = "w2", !.hash = "h3", !.issued = 2],
  [Good EXCEPT !.provider = AMixed, !.subjectProvider = AMixed, !.hash = "h2"],
  [Good EXCEPT !.provider = B, !.subjectProvider = B, !.hash = "h2", !.issuer = "i2", !.expiration = 1],
  [Good EXCEPT !.provider = B], [Good EXCEPT !.hash = ""], [Good EXCEPT !.exactPrefix = FALSE],
  [Good EXCEPT !.method = FALSE]}
Points == [p \in {A, AMixed, B, <<"B", "mixed">>} |-> IF p = A THEN 2 ELSE IF p = B THEN 3 ELSE 1]
Factors == [t \in {2, 4} |-> IF t = 2 THEN 3 ELSE 2]

Lookup == INSTANCE PassportLookup WITH
  Addr <- {u1, u2}, Lookup <- {"k", "l"}, Trust <- {"t", "u"}, Newest <- {1}, CacheTime <- 2,
  DedupTime <- 2, AutoLimit <- 1, MaxTime <- 2, MaxLookups <- 3, MaxReloads <- 1, MaxFaults <- 1,
  HasFile <- FALSE, None <- Unused,
  row <- x1, stamp <- x2, gens <- x3, file <- x4, r <- x5, rot <- x6, lk <- x7, pend <- x8,
  auto <- x9, now <- x10, next <- x11, used <- x12, reloads <- x13, faults <- x14
Limits == INSTANCE PassportRefresh WITH
  Addr <- {"w1"}, Session <- {"s1"}, AddrOf <- WalletOf, Ip <- {"i1"}, Req <- {u1, u2},
  RefreshCooldown <- 1, GuestCooldown <- 2, Limit <- 1, Window <- 2, MaxAttempts <- 1,
  MaxCounters <- 1, MaxTime <- 4, MaxReloads <- 1,
  now <- x1, attempts <- x2, inFlight <- x3, counters <- x4, resolver <- x5, reloads <- x6,
  sess <- x7, cached <- x8, req <- x9, lastDone <- x10, used <- x11
Eviction == INSTANCE PassportRefresh WITH
  Addr <- {"w1", "w2"}, Session <- {}, AddrOf <- WalletOf, Ip <- {"i1"}, Req <- {u1, u2},
  RefreshCooldown <- 1, GuestCooldown <- 0, Limit <- 2, Window <- 1, MaxAttempts <- 1,
  MaxCounters <- 1, MaxTime <- 2, MaxReloads <- 1,
  now <- x1, attempts <- x2, inFlight <- x3, counters <- x4, resolver <- x5, reloads <- x6,
  sess <- x7, cached <- x8, req <- x9, lastDone <- x10, used <- x11
Scores == INSTANCE PassportScore WITH
  Wallet <- {"w1", "w2"}, Issuer <- {"i1", "i2"}, Stamp <- Stamps, Scoring <- Points,
  Boost <- Factors, MaxStamps <- 2, MaxTime <- 2, MaxReloads <- 1,
  now <- x1, trusted <- x2, reloads <- x3, file <- x4, owner <- x5, info <- x6
Stake == INSTANCE StakeLookup WITH
  Addresses <- {u1, u2}, MaxConcurrent <- 2, StakeCacheTime <- 2, PriceCacheTime <- 1,
  RefreshCooldown <- 2, HasFilter <- TRUE, MaxLookups <- 3, MaxRotations <- 1, MaxTime <- 3,
  now <- x1, generation <- x2, accepting <- x3, rotating <- x4, drain <- x5, lookups <- x6,
  promises <- x7, pricing <- x8, pricePromise <- x9, stakeCache <- x10, priceCache <- x11,
  spotMarketKey <- x12, forced <- x13, started <- x14
Ownership == INSTANCE StakeOwnership WITH
  Requests <- {u1, u2}, RequiredStake <- FALSE, MaxChallenges <- 2, Ttl <- 2, MaxTime <- 4,
  MaxFaults <- 2, MaxCrashes <- 1,
  now <- x1, status <- x2, memory <- x3, stored <- x4, challenge <- x5, issued <- x6, req <- x7,
  chain <- x8, used <- x9, refreshing <- x10, told <- x11, faults <- x12, crashes <- x13

ASSUME BoundsAssumption ==
  /\ Lookup!TimeAssumption /\ Limits!BoundAssumption /\ Eviction!BoundAssumption
  /\ Scores!StampAssumption /\ Stake!StakeAssumption /\ Ownership!OwnershipAssumption

\* Addresses and requests are interchangeable.
Symmetry == Permutations({u1, u2})

Init ==
  \/ part = "lookup" /\ Lookup!Init /\ UnusedAfter(14)
  \/ part = "refresh" /\ Limits!Init /\ UnusedAfter(11)
  \/ part = "eviction" /\ Eviction!Init /\ UnusedAfter(11)
  \/ part = "score" /\ Scores!Init /\ UnusedAfter(6)
  \/ part = "stake" /\ Stake!Init /\ UnusedAfter(14)
  \/ part = "ownership" /\ Ownership!Init /\ UnusedAfter(13)
Next ==
  /\ UNCHANGED part
  /\ \/ part = "lookup" /\ Lookup!Next /\ KeepAfter(14)
     \/ part = "refresh" /\ Limits!Next /\ KeepAfter(11)
     \/ part = "eviction" /\ Eviction!Next /\ KeepAfter(11)
     \/ part = "score" /\ Scores!Next /\ KeepAfter(6)
     \/ part = "stake" /\ Stake!Next /\ KeepAfter(14)
     \/ part = "ownership" /\ Ownership!Next /\ KeepAfter(13)
Spec == Init /\ [][Next]_all

-----------------------------------------------------------------------------
\* A stamp counts for one address, a served result was obtained under the trust in force, and the
\* slots of automatic lookups are given back, over reloads, expirations and racing lookups.
StampCountsOnce ==
  part = "lookup" =>
    /\ Lookup!TypeOK /\ Lookup!StampCountsOnce /\ Lookup!ServedUnderTrust /\ Lookup!NoStragglers
    /\ Lookup!SlotsBalanced /\ Lookup!SingleFlight

\* A wallet has one manual verification at a time, spaced by the cooldown, also when its attempt was
\* evicted from the table, and a remote address keeps to its budget of lookups.
RefreshesAreLimited ==
  /\ [](part = "refresh" => Limits!TypeOK /\ Limits!OneVerification /\ Limits!BudgetIsKept)
  /\ [](part = "eviction" => Eviction!TypeOK /\ Eviction!OneVerification)
  /\ [][part = "refresh" => Limits!VerificationsAreSpacedStep]_all

\* What counts in a score is genuine and counts once, for one wallet and one provider, by whichever
\* way the passport came in, and a higher score never lowers the reward factor.
CountedIsGenuine ==
  part = "score" =>
    /\ Scores!TypeOK /\ Scores!ProviderCountsOnce /\ Scores!CountedIsGenuine /\ Scores!StampCountsOnce
    /\ Scores!ManualIsReadable /\ Scores!FactorFollowsScore

\* Cached stakes and prices are of the configuration in force, lookups are bounded, one per address
\* and spaced when forced, and none of an earlier configuration is left once a rotation has ended.
StakeIsCurrent ==
  /\ [](part = "stake" => /\ Stake!TypeOK /\ Stake!CacheIsCurrent /\ Stake!LookupsAreBounded
                          /\ Stake!NoStragglers /\ Stake!PriceIsComing)
  /\ [][part = "stake" => Stake!ForcedIsSpacedStep]_all

\* A challenge is accepted once, a boost is granted only on a stored verification that the wallet
\* signed in time, and what was answered is kept.
BoostIsProven ==
  /\ [](part = "ownership" => /\ Ownership!TypeOK /\ Ownership!ChallengeIsUsedOnce /\ Ownership!BoostIsStored
                              /\ Ownership!AnsweredIsKept)
  /\ [][part = "ownership" => Ownership!ActiveIsProvenStep /\ Ownership!WrittenInTimeStep]_all
=============================================================================
