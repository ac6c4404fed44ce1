----------------------------- MODULE IPInfoLookup -----------------------------
(***************************************************************************)
(* modules/ipinfo: IPInfoResolver and the cache table of IPInfoDB.         *)
(* Lookups of one address are coalesced; a lookup reads the cache, asks    *)
(* the provider under a request budget and a failure backoff, and writes   *)
(* the cache.  A reload or a stop begins a new generation: it aborts the   *)
(* lookups under way, remembers their addresses, waits for them and only   *)
(* then accepts lookups again.  Lookup ids are in order of creation.       *)
(***************************************************************************)
EXTENDS Integers, Sequences, FiniteSets

CONSTANTS
  Ip,
  MaxConcurrent,      \* MAX_CONCURRENT_IP_INFO_LOOKUPS
  MaxRequests, Window,
  Threshold, InitialBackoff, MaxBackoff,
  MaxInvalidated,     \* MAX_INVALIDATED_CACHE_KEYS
  CacheTime,
  MaxLookups, MaxTime, MaxRotations, MaxDbFaults,
  None

LimitAssumption ==
  /\ {MaxConcurrent, MaxRequests, Window, Threshold, InitialBackoff, MaxBackoff} \subseteq Nat \ {0}
  /\ MaxInvalidated \in Nat /\ InitialBackoff <= MaxBackoff

VARIABLES
  now,
  look,         \* lookup -> [ip, gen, phase, row] or None; row: what SELECT found
  pending,      \* ipInfoPromises: address -> lookup, 0 when absent
  gen, accepting,
  draining,     \* rotateGeneration awaits the lookups of earlier generations; None or what follows
  invalid, bypass,                \* invalidatedCacheKeys, bypassAllCachedResults
  times, failures, backoff,       \* providerRequestTimes, providerFailureCount, providerBackoffUntil
  cache,        \* IPInfoCache: address -> [by, timeout] or None; by: the lookup that fetched it
  nextLook, rotations, faults,
  log,          \* ghost: times of the provider requests of this generation
  lastFailure,  \* ghost: time of the provider's last failure
  birth,        \* ghost: the first lookup of this resolver
  served        \* ghost: the lookups whose information was served from the cache in the last step

provider == <<times, failures, backoff>>
vars == <<now, look, pending, gen, accepting, draining, invalid, bypass, provider, cache,
          nextLook, rotations, faults, log, lastFailure, birth, served>>

Lookup == 1..MaxLookups
Busy == {"read", "fetch", "select", "write"}
Working == {l \in Lookup : IF look[l] = None THEN FALSE ELSE look[l].phase \in Busy}

Init ==
  /\ now = 0 /\ look = [l \in Lookup |-> None] /\ pending = [i \in Ip |-> 0]
  /\ gen = 1 /\ accepting = TRUE /\ draining = None /\ invalid = {} /\ bypass = FALSE
  /\ times = <<>> /\ failures = 0 /\ backoff = 0 /\ cache = [i \in Ip |-> None]
  /\ nextLook = 1 /\ rotations = 0 /\ faults = 0 /\ log = <<>> /\ lastFailure = 0 /\ birth = 1 /\ served = {}

-----------------------------------------------------------------------------
(* Protection of the provider *)

BudgetLeft(recent) == Len(recent) < MaxRequests
Recent == SelectSeq(times, LAMBDA t : t > now - Window)
Admitted == now >= backoff /\ BudgetLeft(Recent)
\* admitProviderRequest, which prunes the window also when it refuses for the budget
AdmitProviderRequest ==
  /\ times' = IF Admitted THEN Append(Recent, now) ELSE IF now >= backoff THEN Recent ELSE times
  /\ log' = IF Admitted THEN Append(log, now) ELSE log

Delay(f) == LET d == InitialBackoff * 2^(f - Threshold) IN IF d < MaxBackoff THEN d ELSE MaxBackoff
\* recordProviderFailure
RecordProviderFailure ==
  /\ failures' = failures + 1 /\ lastFailure' = now
  /\ backoff' = IF failures + 1 < Threshold THEN backoff
                ELSE IF backoff > now + Delay(failures + 1) THEN backoff ELSE now + Delay(failures + 1)
RecordProviderSuccess == failures' = 0 /\ backoff' = 0 /\ UNCHANGED lastFailure

-----------------------------------------------------------------------------
(* Lookups *)

\* assertCurrent
Current(l) == accepting /\ look[l].gen = gen
\* the finally of getIpInfo
Forget(l) == pending' = [pending EXCEPT ![look[l].ip] = IF @ = l THEN 0 ELSE @]
End(l, how) == look' = [look EXCEPT ![l].phase = how] /\ Forget(l)
Move(l, phase) == look' = [look EXCEPT ![l].phase = phase] /\ UNCHANGED pending
InFlight == Cardinality({i \in Ip : pending[i] # 0})
\* Mutant: the addresses of aborted lookups are trusted again.
TrustsAny(ip) == TRUE
Trusts(ip) == ~bypass /\ ip \notin invalid
Started(ip, phase) == look' = [look EXCEPT ![nextLook] = [ip |-> ip, gen |-> gen, phase |-> phase, row |-> FALSE]]

\* getIpInfo with resolveIpInfo up to its first await; a caller that finds a pending lookup,
\* a full table or a resolver that does not accept lookups changes nothing.
GetIpInfo(ip) ==
  /\ nextLook <= MaxLookups /\ pending[ip] = 0 /\ InFlight < MaxConcurrent /\ accepting
  /\ nextLook' = nextLook + 1 /\ served' = {}
  /\ IF Trusts(ip)
     THEN Started(ip, "read") /\ pending' = [pending EXCEPT ![ip] = nextLook] /\ UNCHANGED <<times, log>>
     ELSE /\ AdmitProviderRequest
          /\ IF Admitted THEN Started(ip, "fetch") /\ pending' = [pending EXCEPT ![ip] = nextLook]
             ELSE Started(ip, "error") /\ UNCHANGED pending
  /\ UNCHANGED <<now, gen, accepting, draining, invalid, bypass, failures, backoff, cache, rotations, faults, lastFailure, birth>>

Fault == faults < MaxDbFaults /\ faults' = faults + 1
\* getIPInfo answers or fails; a failure of the cache read is not caught
ReadCache(l) ==
  LET ip == look[l].ip
      hit == IF cache[ip] = None THEN FALSE ELSE cache[ip].timeout > now
  IN /\ look[l].phase = "read"
     /\ \/ /\ UNCHANGED faults
           /\ IF ~Current(l) THEN End(l, "invalidated") /\ served' = {} /\ UNCHANGED <<times, log>>
              ELSE IF hit THEN End(l, "answered") /\ served' = {cache[ip].by} /\ UNCHANGED <<times, log>>
              ELSE /\ AdmitProviderRequest /\ served' = {}
                   /\ IF Admitted THEN Move(l, "fetch") ELSE End(l, "error")
        \/ Fault /\ End(l, "error") /\ served' = {} /\ UNCHANGED <<times, log>>
     /\ UNCHANGED <<now, gen, accepting, draining, invalid, bypass, failures, backoff, cache, nextLook,
                    rotations, lastFailure, birth>>
\* what the request may come to: an HTTP or network error or timeout, a record of another
\* address or without the classification flags, a refusal, or information
Answer == {"error", "malformed", "other ip", "no flags", "refusal", "info"}
\* parseIPInfoResponse, for both formats: what it throws on and what it returns with a
\* status other than success are failures of the provider alike
ParseIPInfoResponse(answer) == IF answer = "info" THEN "success" ELSE "failure"
\* an aborted request is rejected and a late answer is dropped
FetchEnds(l, answer) ==
  /\ look[l].phase = "fetch" /\ served' = {}
  /\ IF ~Current(l) THEN End(l, "invalidated") /\ UNCHANGED <<failures, backoff, lastFailure>>
     ELSE IF ParseIPInfoResponse(answer) = "success" THEN RecordProviderSuccess /\ Move(l, "select")
     ELSE RecordProviderFailure /\ End(l, "error")
  /\ UNCHANGED <<now, gen, accepting, draining, invalid, bypass, times, cache, nextLook, rotations, faults, log, birth>>
\* a database error within setIPInfo is reported by the catch
FailedWrite(l) ==
  /\ Fault /\ End(l, IF Current(l) THEN "error" ELSE "invalidated") /\ UNCHANGED <<invalid, cache>>
\* setIPInfo: SELECT
SelectRow(l) ==
  /\ look[l].phase = "select" /\ served' = {}
  /\ \/ /\ look' = [look EXCEPT ![l].phase = "write", ![l].row = cache[look[l].ip] # None]
        /\ UNCHANGED <<pending, faults, invalid, cache>>
     \/ FailedWrite(l)
  /\ UNCHANGED <<now, gen, accepting, draining, bypass, provider, nextLook, rotations, log, lastFailure, birth>>
\* INSERT of a row that exists fails, UPDATE of a row that was cleaned up changes nothing
Inserts(l) == ~look[l].row
Entry(l) == [by |-> l, timeout |-> now + CacheTime]
\* setIPInfo: INSERT or UPDATE, and the rest of resolveIpInfo
WriteRow(l) ==
  LET ip == look[l].ip
      conflict == Inserts(l) /\ cache[ip] # None
  IN /\ look[l].phase = "write" /\ served' = {}
     /\ \/ /\ UNCHANGED faults
           /\ cache' = IF conflict \/ (~Inserts(l) /\ cache[ip] = None) THEN cache
                       ELSE [cache EXCEPT ![ip] = Entry(l)]
           /\ End(l, IF ~Current(l) THEN "invalidated" ELSE IF conflict THEN "error" ELSE "answered")
           /\ invalid' = IF Current(l) /\ ~conflict THEN invalid \ {ip} ELSE invalid
        \/ FailedWrite(l)
     /\ UNCHANGED <<now, gen, accepting, draining, bypass, provider, nextLook, rotations, log, lastFailure, birth>>

-----------------------------------------------------------------------------
(* Generations *)

Aborted == {i \in Ip : pending[i] # 0}
Overflows(keys) == Cardinality(keys) >= MaxInvalidated
\* rememberInvalidatedCacheKey for every pending address, in the order of the lookups: a
\* table that is full before the last of them is cleared and the whole cache is bypassed
\* from then on
Remember ==
  LET latest == CHOOSE i \in Aborted : \A j \in Aborted : pending[j] <= pending[i]
  IN IF bypass \/ Aborted = {} THEN UNCHANGED <<invalid, bypass>>
     ELSE IF Overflows(invalid \cup (Aborted \ {latest})) THEN invalid' = {} /\ bypass' = TRUE
     ELSE invalid' = invalid \cup Aborted /\ UNCHANGED bypass
\* rotateGeneration up to its await: reload accepts lookups afterwards, stop does not
RotateGeneration(accept) ==
  /\ accepting /\ draining = None /\ rotations < MaxRotations /\ rotations' = rotations + 1
  /\ Remember /\ gen' = gen + 1 /\ accepting' = FALSE /\ pending' = [i \in Ip |-> 0]
  /\ draining' = [accept |-> accept] /\ served' = {}
  /\ UNCHANGED <<now, look, provider, cache, nextLook, faults, log, lastFailure, birth>>
ResetProviderProtection == times' = <<>> /\ failures' = 0 /\ backoff' = 0 /\ log' = <<>>
Drained == Working = {}
\* the rest of rotateGeneration
Rotated ==
  /\ draining # None /\ Drained /\ draining' = None
  /\ accepting' = draining.accept /\ ResetProviderProtection /\ served' = {}
  /\ UNCHANGED <<now, look, pending, gen, invalid, bypass, cache, nextLook, rotations, faults, lastFailure, birth>>
\* startModule after a stop makes a new resolver, which remembers no invalidated address
StartModule ==
  /\ ~accepting /\ draining = None /\ accepting' = TRUE /\ invalid' = {} /\ bypass' = FALSE
  /\ birth' = nextLook /\ served' = {}
  /\ UNCHANGED <<now, look, pending, gen, draining, provider, cache, nextLook, rotations, faults, log, lastFailure>>

\* cleanStore
CleanStore ==
  /\ cache' = [i \in Ip |-> IF cache[i] = None THEN None ELSE IF cache[i].timeout < now THEN None ELSE cache[i]]
  /\ cache' # cache /\ served' = {}
  /\ UNCHANGED <<now, look, pending, gen, accepting, draining, invalid, bypass, provider, nextLook, rotations,
                 faults, log, lastFailure, birth>>
Tick ==
  /\ now < MaxTime /\ now' = now + 1 /\ served' = {}
  /\ UNCHANGED <<look, pending, gen, accepting, draining, invalid, bypass, provider, cache, nextLook, rotations,
                 faults, log, lastFailure, birth>>

Step(l) == /\ l \in Working
           /\ ReadCache(l) \/ (\E answer \in Answer : FetchEnds(l, answer)) \/ SelectRow(l) \/ WriteRow(l)
Next ==
  \/ \E i \in Ip : GetIpInfo(i)
  \/ \E l \in Lookup : Step(l)
  \/ \E accept \in BOOLEAN : RotateGeneration(accept)
  \/ Rotated \/ StartModule \/ CleanStore \/ Tick
Spec == Init /\ [][Next]_vars

\* The steps that are weakly fair. The database answers, the request has a timeout, and
\* rotateGeneration continues by itself.
Weak == ({"rotate"} \X {0}) \cup ({"lookup"} \X Lookup)
WeakStep(k) ==
  CASE k[1] = "lookup" -> Step(k[2])
    [] k[1] = "rotate" -> Rotated
-----------------------------------------------------------------------------
\* The tables hold what their types allow and keep their bounds.
TypeOK ==
  /\ gen \in Nat /\ accepting \in BOOLEAN /\ pending \in [Ip -> 0..MaxLookups] /\ InFlight <= MaxConcurrent
  /\ invalid \subseteq Ip /\ (bypass => invalid = {}) /\ Cardinality(invalid) <= MaxInvalidated
  /\ failures \in Nat /\ backoff <= now + MaxBackoff

\* Every address has at most one lookup that may still answer, the one callers are sent to;
\* and once a new generation answers no lookup of an earlier one is left that could write.
OneLookupPerIp ==
  /\ \A l \in Working : Current(l) => pending[look[l].ip] = l
  /\ \A i \in Ip : pending[i] # 0 => pending[i] \in Working
  /\ accepting => \A l \in Working : look[l].gen = gen
  /\ \A k, l \in Working : look[k].ip = look[l].ip => k = l

\* The cache never answers with what a lookup fetched that its generation's end invalidated,
\* although that lookup may have written it; the resolver remembers this as long as it lives.
InvalidatedIsNotServed ==
  \A l \in served : l >= birth => look[l].phase # "invalidated"

\* Within any window the provider sees no more requests than the budget allows.
BudgetIsKept == Len(SelectSeq(log, LAMBDA t : t + Window > now)) <= MaxRequests

\* After a run of failures no request goes out until the delay for that many failures has
\* passed since the last one, however many lookups failed at the same time.
BackoffIsKeptStep ==
  Len(log') > Len(log) /\ failures >= Threshold
  => LET d == InitialBackoff * 2^(failures - Threshold)
     IN now >= lastFailure + (IF d < MaxBackoff THEN d ELSE MaxBackoff)

\* What comes in the end: a reload or a stop gets through, as every lookup it waits for ends.
RotationEnded == draining = None
=============================================================================
