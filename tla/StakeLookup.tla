----------------------------- MODULE StakeLookup -----------------------------
(***************************************************************************)
(* The Hyperliquid stake resolver: lookups of an address share one request,*)
(* use a cached or shared token price, and belong to the generation of the *)
(* configuration they started under.  A reload or stop aborts the lookups  *)
(* of the generation, waits for them and clears what they cached.          *)
(***************************************************************************)
EXTENDS Naturals, FiniteSets

CONSTANTS
    Addresses,
    MaxConcurrent,    \* maxConcurrentLookups
    StakeCacheTime, PriceCacheTime, RefreshCooldown,
    HasFilter,        \* validatorFilter is set: a second request is needed
    MaxLookups,       \* bound: lookups that are started
    MaxRotations,     \* bound: reloads and stops
    MaxTime           \* bound: seconds that pass

StakeAssumption ==
    /\ {MaxConcurrent, StakeCacheTime, PriceCacheTime, RefreshCooldown, MaxLookups,
        MaxRotations, MaxTime} \subseteq Nat
    /\ HasFilter \in BOOLEAN

VARIABLES
    now,
    generation,
    accepting,      \* acceptingLookups
    rotating,       \* the rotation under way: "no", "reload" or "stop"
    drain,          \* workToDrain: the work the rotation waits for
    lookups,        \* lookups and requests they abandoned, by number
    promises,       \* stakePromises: the lookup of an address, 0 for none
    pricing,        \* the price request under way
    pricePromise,   \* pricePromise refers to it
    stakeCache, priceCache, spotMarketKey,
    forced,         \* forcedRefreshTimes
    started         \* number of lookups started

vars == <<now, generation, accepting, rotating, drain, lookups, promises, pricing, pricePromise,
          stakeCache, priceCache, spotMarketKey, forced, started>>
caches == <<stakeCache, priceCache, spotMarketKey, forced>>

None == [generation |-> 0]
Ids == 1 .. MaxLookups
InFlight == {l \in Ids : lookups[l] # None}
\* A lookup ends with its price; its summary request, nobody's any more, stays in flight.
Live == {l \in InFlight : lookups[l].at # "abandoned"}
PriceWork == 0
Forget == [a \in Addresses |-> None]

Init ==
    /\ now = 1 /\ generation = 1 /\ accepting = TRUE /\ rotating = "no" /\ drain = {}
    /\ lookups = [l \in Ids |-> None] /\ promises = [a \in Addresses |-> 0]
    /\ pricing = None /\ pricePromise = FALSE
    /\ stakeCache = Forget /\ priceCache = None /\ spotMarketKey = None
    /\ forced = Forget /\ started = 0

\* assertCurrent: the context's generation is the one in force.
Current(g) == accepting /\ g = generation

Fresh(entry, ttl) == entry # None /\ entry.time + ttl > now

-----------------------------------------------------------------------------
(* Starting a lookup.                                                       *)

NotPending(a) == promises[a] = 0

HasCapacity(a) == Cardinality({b \in Addresses : promises[b] # 0}) < MaxConcurrent

\* getForcedRefreshCooldown, which the refresh endpoint asks right before.
MayForce(a) == IF forced[a] = None THEN TRUE ELSE forced[a].time + RefreshCooldown <= now

\* A cached price is taken, else a request under way is shared, else one is sent.
TakePrice ==
    IF Fresh(priceCache, PriceCacheTime)
    THEN UNCHANGED <<pricing, pricePromise>>
    ELSE IF pricePromise THEN UNCHANGED <<pricing, pricePromise>>
    ELSE /\ pricing' = [generation |-> generation, at |-> "meta"]
         /\ pricePromise' = TRUE

\* getStakeInfo: a fresh entry or a lookup under way answers without a request.
GetStakeInfo(a, force) ==
    /\ accepting /\ started < MaxLookups
    /\ force => MayForce(a)
    /\ ~force => ~Fresh(stakeCache[a], StakeCacheTime)
    /\ NotPending(a) /\ HasCapacity(a)
    /\ started' = started + 1
    /\ lookups' = [lookups EXCEPT ![started + 1] =
           [generation |-> generation, addr |-> a, at |-> "summary",
            price |-> IF Fresh(priceCache, PriceCacheTime) THEN priceCache.generation ELSE 0]]
    /\ promises' = [promises EXCEPT ![a] = started + 1]
    /\ forced' = IF force THEN [forced EXCEPT ![a] = [generation |-> generation, time |-> now]]
                 ELSE forced
    /\ TakePrice
    /\ UNCHANGED <<now, generation, accepting, rotating, drain, stakeCache, priceCache, spotMarketKey>>

-----------------------------------------------------------------------------
(* The token price.                                                         *)

\* Lookups that wait for the price request.
Waiting(l) == l \in Live /\ lookups[l].price = 0

SpotFresh ==
    /\ spotMarketKey # None
    /\ Fresh(spotMarketKey, IF spotMarketKey.key THEN MaxTime ELSE PriceCacheTime)

\* resolveSpotMarketKey: an error of the request only means no key for a while.
PriceMeta(found) ==
    /\ pricing # None /\ pricing.at = "meta" /\ Current(pricing.generation)
    /\ found \/ ~SpotFresh
    /\ spotMarketKey' = IF SpotFresh THEN spotMarketKey
                        ELSE [generation |-> generation, time |-> now, key |-> found]
    /\ pricing' = [pricing EXCEPT !.at = "mids"]
    /\ UNCHANGED <<now, generation, accepting, rotating, drain, lookups, promises, pricePromise,
                   stakeCache, priceCache, forced, started>>

\* The price arrives: it is cached and handed to every lookup that waits for it.
PriceArrives ==
    /\ pricing # None /\ pricing.at = "mids" /\ Current(pricing.generation)
    /\ priceCache' = [generation |-> pricing.generation, time |-> now]
    /\ lookups' = [l \in Ids |-> IF Waiting(l) THEN [lookups[l] EXCEPT !.price = pricing.generation]
                                 ELSE lookups[l]]
    /\ pricing' = None /\ pricePromise' = FALSE
    /\ drain' = drain \ {PriceWork}
    /\ UNCHANGED <<now, generation, accepting, rotating, promises, stakeCache, spotMarketKey,
                   forced, started>>

Unlisted(S) == [a \in Addresses |-> IF promises[a] \in S THEN 0 ELSE promises[a]]

\* The request fails or belongs to an older generation, and with it who waits for it: the
\* address can be looked up again although its summary request has not been answered.
PriceFails ==
    /\ pricing # None
    /\ LET S == {l \in Live : Waiting(l)} IN
       /\ lookups' = [l \in Ids |-> IF l \notin S THEN lookups[l]
                                     ELSE IF lookups[l].at = "summary" THEN [lookups[l] EXCEPT !.at = "abandoned"]
                                     ELSE None]
       /\ promises' = Unlisted(S)
       /\ drain' = drain \ (S \cup {PriceWork})
    /\ pricing' = None /\ pricePromise' = FALSE
    /\ UNCHANGED <<now, generation, accepting, rotating, caches, started>>

-----------------------------------------------------------------------------
(* The stake of an address.                                                 *)

Remove(l) ==
    /\ lookups' = [lookups EXCEPT ![l] = None]
    /\ promises' = Unlisted({l})
    /\ drain' = drain \ {l}

\* The delegator summary, then the delegations when validators are filtered.
Answered(l) ==
    /\ l \in Live /\ Current(lookups[l].generation)
    /\ \/ /\ lookups[l].at = "summary"
          /\ lookups' = [lookups EXCEPT ![l].at = "summed"]
       \/ /\ lookups[l].at = "summed" /\ lookups[l].price # 0 /\ HasFilter
          /\ lookups' = [lookups EXCEPT ![l].at = "delegations"]
    /\ UNCHANGED <<now, generation, accepting, rotating, drain, promises, pricing, pricePromise,
                   caches, started>>

Complete(l) ==
    /\ l \in Live /\ lookups[l].price # 0
    /\ lookups[l].at = IF HasFilter THEN "delegations" ELSE "summed"

\* The result is cached if its generation is still in force.
Resolved(l) ==
    /\ Complete(l)
    /\ Remove(l)
    /\ stakeCache' = IF Current(lookups[l].generation)
                     THEN [stakeCache EXCEPT ![lookups[l].addr] =
                              [generation |-> lookups[l].generation, time |-> now,
                               price |-> lookups[l].price]]
                     ELSE stakeCache
    /\ UNCHANGED <<now, generation, accepting, rotating, pricing, pricePromise, priceCache,
                   spotMarketKey, forced, started>>

\* A request of the lookup fails, is aborted, or answers for an older generation; an
\* abandoned request ends, whatever it answers.
Rejected(l) ==
    /\ l \in InFlight
    /\ lookups[l].at = "summed" => lookups[l].price # 0
    /\ Remove(l)
    /\ UNCHANGED <<now, generation, accepting, rotating, pricing, pricePromise, caches, started>>

-----------------------------------------------------------------------------
(* Generations.                                                             *)

OwnedWork == Live \cup (IF pricing # None THEN {PriceWork} ELSE {})

\* Mutant: the price does not depend on the configuration and is kept.
KeepPrice ==
    /\ stakeCache' = Forget /\ forced' = Forget /\ spotMarketKey' = None
    /\ UNCHANGED priceCache
\* clearCurrentState
ClearCaches ==
    /\ stakeCache' = Forget /\ forced' = Forget /\ spotMarketKey' = None
    /\ priceCache' = None

\* rotateGeneration up to its wait: nothing new starts, everything cached is dropped.
Rotate(kind) ==
    /\ rotating = "no" /\ accepting /\ generation <= MaxRotations
    /\ rotating' = kind
    /\ drain' = OwnedWork
    /\ generation' = generation + 1
    /\ accepting' = FALSE
    /\ ClearCaches
    /\ promises' = [a \in Addresses |-> 0]
    /\ pricePromise' = FALSE
    /\ UNCHANGED <<now, lookups, pricing, started>>

IsDrained == drain = {}

Rotated ==
    /\ rotating # "no" /\ IsDrained
    /\ accepting' = (rotating = "reload")
    /\ rotating' = "no"
    /\ UNCHANGED <<now, generation, drain, lookups, promises, pricing, pricePromise, caches, started>>

\* The module is started again after a stop, with a resolver of its own.
Restart ==
    /\ rotating = "no" /\ ~accepting
    /\ accepting' = TRUE
    /\ UNCHANGED <<now, generation, rotating, drain, lookups, promises, pricing, pricePromise,
                   caches, started>>

Tick ==
    /\ now < MaxTime
    /\ now' = now + 1
    /\ UNCHANGED <<generation, accepting, rotating, drain, lookups, promises, pricing, pricePromise,
                   caches, started>>

Idle == InFlight = {} /\ pricing = None /\ rotating = "no" /\ UNCHANGED vars

Next ==
    \/ \E a \in Addresses, force \in BOOLEAN : GetStakeInfo(a, force)
    \/ \E found \in BOOLEAN : PriceMeta(found)
    \/ PriceArrives \/ PriceFails
    \/ \E l \in Ids : Answered(l) \/ Resolved(l) \/ Rejected(l)
    \/ \E kind \in {"reload", "stop"} : Rotate(kind)
    \/ Rotated \/ Restart \/ Tick \/ Idle

Spec == Init /\ [][Next]_vars

\* The steps that are weakly fair. Every request to the info API has a timeout.
Weak == ({"price", "rotate"} \X {0}) \cup ({"timeout"} \X Ids)
WeakStep(k) ==
  CASE k[1] = "timeout" -> Rejected(k[2])
    [] k[1] = "price" -> PriceFails
    [] k[1] = "rotate" -> Rotated

-----------------------------------------------------------------------------

TypeOK ==
    /\ now \in 1 .. MaxTime /\ generation \in 1 .. MaxRotations + 1
    /\ {accepting, pricePromise} \subseteq BOOLEAN
    /\ rotating \in {"no", "reload", "stop"}
    /\ drain \subseteq Ids \cup {PriceWork}
    /\ \A l \in InFlight : /\ lookups[l].generation \in 1 .. generation
                           /\ lookups[l].at \in {"summary", "summed", "delegations", "abandoned"}
    /\ promises \in [Addresses -> 0 .. MaxLookups]
    /\ started \in 0 .. MaxLookups
    /\ \A a \in Addresses : promises[a] # 0 => promises[a] \in Live

\* What is cached was fetched under the configuration in force, the price it was
\* valued with included: a reload leaves nothing of the one before.
CacheIsCurrent ==
    /\ \A a \in Addresses : stakeCache[a] # None =>
           stakeCache[a].generation = generation /\ stakeCache[a].price = generation
    /\ priceCache # None => priceCache.generation = generation
    /\ spotMarketKey # None => spotMarketKey.generation = generation

\* The lookups under way never exceed the limit, not even while a configuration is
\* replaced, and an address is never looked up twice at the same time. What the info API
\* is asked exceeds both by the summary requests of lookups whose price failed.
LookupsAreBounded ==
    /\ Cardinality(Live) <= MaxConcurrent
    /\ \A k, l \in Live : lookups[k].addr = lookups[l].addr => k = l

\* No lookup of an earlier configuration is under way once a rotation has ended.
NoStragglers == rotating = "no" => \A l \in Live : lookups[l].generation = generation

\* A lookup that waits for a price waits for a request that is under way.
PriceIsComing == \A l \in Ids : Waiting(l) => pricing # None

\* An address is not refreshed by force again before its cooldown is over, however
\* many sessions ask for it, unless the configuration was replaced in between.
ForcedIsSpacedStep ==
    \A a \in Addresses :
        forced'[a] # forced[a] /\ forced[a] # None /\ forced'[a] # None
            => forced'[a].time >= forced[a].time + RefreshCooldown

\* What comes in the end: a reload or stop ends, and so does every lookup.
AtRest == rotating = "no" /\ Live = {}

=============================================================================
