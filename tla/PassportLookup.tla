---------------------------- MODULE PassportLookup ----------------------------
(***************************************************************************)
(* modules/passport: lookups of Gitcoin passports.  A lookup reads the     *)
(* cache table, asks the scorer (or, for a passport a user uploads, the    *)
(* verifier), claims the passport's stamps for its address in three        *)
(* statements and stores the result.  Results belong to a generation that  *)
(* a reload of the configuration replaces after the lookups were drained.  *)
(* A passport is known by the time of its newest stamp (0: none); all      *)
(* passports hold the same one stamp, so that two addresses compete for it.*)
(***************************************************************************)
EXTENDS Integers, FiniteSets

CONSTANTS
  Addr,            \* wallet addresses
  Lookup,          \* concurrent requests
  Trust,           \* trust generations the configuration can have
  Newest,          \* times of passports the scorer or a user can present
  CacheTime, DedupTime,
  AutoLimit,       \* automaticLookupConcurrency
  MaxTime, MaxLookups, MaxReloads, MaxFaults,
  HasFile,         \* a cachePath is configured
  None

TimeAssumption == CacheTime \in Nat \ {0} /\ DedupTime \in Nat \ {0} /\ Newest \subseteq Nat \ {0}

VARIABLES
  row,        \* PassportCache: address -> None or [out, dup, timeout, gen, trust]
  stamp,      \* PassportStamps: None or [addr, timeout]
  gens,       \* PassportCacheState: [gen, trust]
  file,       \* the cache file of each address, by its newest stamp
  r,          \* the resolver: [gen, cgen, trust, accepting]
  rot,        \* a rotation under way: the trust generation it installs, or None
  lk,         \* the requests: [ph, addr, kind, gen, cgen, trust, cached, got, own, dup, tries]
  pend,       \* passportCache: address -> the request whose promise is shared
  auto,       \* activeAutomaticLookups
  now, next, used, reloads, faults

vars == <<row, stamp, gens, file, r, rot, lk, pend, auto, now, next, used, reloads, faults>>

Idle == [ph |-> "idle", addr |-> None, kind |-> None, gen |-> 0, cgen |-> 0, trust |-> None,
         cached |-> 0, got |-> 0, own |-> 0, dup |-> FALSE, tries |-> 0]

\* start() has activated a first generation.
Init == \E t \in Trust :
  /\ row = [a \in Addr |-> None] /\ stamp = None /\ file = [a \in Addr |-> 0]
  /\ gens = [gen |-> 1, trust |-> t]
  /\ r = [gen |-> 1, cgen |-> 1, trust |-> t, accepting |-> TRUE]
  /\ rot = None /\ lk = [l \in Lookup |-> Idle] /\ pend = [a \in Addr |-> None] /\ auto = 0
  /\ now = 0 /\ next = 2 /\ used = 0 /\ reloads = 0 /\ faults = 0

disk == <<row, stamp, gens, file>>
bounds == <<now, next, used, reloads>>

-----------------------------------------------------------------------------
\* getPassportInfo
Visible(a, cgen, t) ==
  IF row[a] = None THEN FALSE ELSE row[a].timeout > now /\ row[a].gen = cgen /\ row[a].trust = t

AssertCurrent(l) == r.accepting /\ lk[l].gen = r.gen

\* The promise settles: the slot and the entry of the shared promises are released.
End(l, holdsSlot) ==
  /\ lk' = [lk EXCEPT ![l] = Idle]
  /\ auto' = IF holdsSlot THEN auto - 1 ELSE auto
  /\ pend' = [a \in Addr |-> IF pend[a] = l THEN None ELSE pend[a]]
Invalidated(l, holdsSlot) == ~AssertCurrent(l) /\ End(l, holdsSlot)
Step(l, rec) == lk' = [lk EXCEPT ![l] = rec] /\ UNCHANGED <<auto, pend>>
HoldsSlot(l) == lk[l].kind = "auto" /\ lk[l].ph \in {"fetch", "update", "insert", "select", "store"}

\* getPassport; a request for an address with a pending promise shares it.
OwnLookup(a) == pend[a] = None
Context(l, a, kind, ph) ==
  [Idle EXCEPT !.ph = ph, !.addr = a, !.kind = kind, !.gen = r.gen, !.cgen = r.cgen, !.trust = r.trust]
GetPassport(l, a) ==
  /\ lk[l] = Idle /\ used < MaxLookups /\ used' = used + 1
  /\ r.accepting /\ OwnLookup(a)
  /\ lk' = [lk EXCEPT ![l] = Context(l, a, "auto", "cache")] /\ pend' = [pend EXCEPT ![a] = l]
  /\ UNCHANGED <<disk, r, rot, auto, now, next, reloads, faults>>
\* verifyUserPassport; the module admits one per address.
VerifyUserPassport(l, a) ==
  /\ lk[l] = Idle /\ used < MaxLookups /\ used' = used + 1
  /\ r.accepting /\ \A k \in Lookup : ~(lk[k].addr = a /\ lk[k].kind = "manual")
  /\ \E n \in Newest : lk' = [lk EXCEPT ![l] = [Context(l, a, "manual", "verify") EXCEPT !.got = n]]
  /\ UNCHANGED <<disk, r, rot, pend, auto, now, next, reloads, faults>>

SlotFree == auto < AutoLimit
\* resolvePassport after the cache was read: a result that is not an error is
\* returned, unless the caller wants a refresh.
ReadCache(l) ==
  /\ lk[l].ph = "cache"
  /\ \/ Invalidated(l, FALSE)
     \/ /\ AssertCurrent(l) /\ Visible(lk[l].addr, lk[l].cgen, lk[l].trust)
        /\ row[lk[l].addr].out # "error" /\ End(l, FALSE)
     \/ AssertCurrent(l) /\ ~SlotFree /\ End(l, FALSE)
     \/ /\ AssertCurrent(l) /\ SlotFree
        /\ auto' = auto + 1 /\ UNCHANGED pend
        /\ lk' = [lk EXCEPT ![l].ph = "fetch", ![l].cached = IF HasFile THEN file[lk[l].addr] ELSE 0]
  /\ UNCHANGED <<disk, r, rot, bounds, faults>>

\* refreshPassport after the scorer answered with a passport, none, or an error.
\* The cache file was read before the request was sent.
Fetched(l) ==
  /\ lk[l].ph = "fetch"
  /\ \E n \in Newest \cup {0, -1} :
       LET use == IF lk[l].cached > 0 /\ lk[l].cached > n THEN lk[l].cached ELSE n IN
       \/ Invalidated(l, TRUE) /\ UNCHANGED file
       \/ /\ AssertCurrent(l)
          /\ file' = IF HasFile /\ n > 0 /\ use = n THEN [file EXCEPT ![lk[l].addr] = n] ELSE file
          /\ Step(l, [lk[l] EXCEPT !.ph = IF use > 0 THEN "update" ELSE "store", !.got = use])
  /\ UNCHANGED <<row, stamp, gens, r, rot, bounds, faults>>

\* verifyPassportIntegrity, and refreshPassport with the uploaded passport
Verified(l) ==
  /\ lk[l].ph = "verify"
  /\ \/ End(l, FALSE) /\ UNCHANGED file            \* invalid, or the generation is gone
     \/ /\ AssertCurrent(l) /\ HasFile /\ file[lk[l].addr] > lk[l].got
        /\ End(l, FALSE) /\ UNCHANGED file         \* "Cannot update to an older passport"
     \/ /\ AssertCurrent(l) /\ ~(HasFile /\ file[lk[l].addr] > lk[l].got)
        /\ file' = IF HasFile THEN [file EXCEPT ![lk[l].addr] = lk[l].got] ELSE file
        /\ Step(l, [lk[l] EXCEPT !.ph = "update"])
  /\ UNCHANGED <<row, stamp, gens, r, rot, bounds, faults>>

-----------------------------------------------------------------------------
(* claimPassportStampsWithExpiry *)

Claimable(a) == IF stamp = None THEN FALSE ELSE stamp.timeout <= now \/ stamp.addr = a
Claimed(a, timeout) == [addr |-> a, timeout |-> timeout]
\* The timeout of an attempt is reckoned from its first statement.
UpdateStamp(l) ==
  /\ lk[l].ph = "update"
  /\ stamp' = IF Claimable(lk[l].addr) THEN Claimed(lk[l].addr, now + DedupTime) ELSE stamp
  /\ Step(l, [lk[l] EXCEPT !.ph = "insert", !.own = now + DedupTime, !.tries = @ + 1])
  /\ UNCHANGED <<row, gens, file, r, rot, bounds, faults>>
InsertStamp(l) ==
  /\ lk[l].ph = "insert"
  /\ stamp' = IF stamp = None THEN Claimed(lk[l].addr, lk[l].own) ELSE stamp
  /\ Step(l, [lk[l] EXCEPT !.ph = "select"])
  /\ UNCHANGED <<row, gens, file, r, rot, bounds, faults>>
Held == IF stamp = None THEN FALSE ELSE stamp.timeout > now
SelectStamp(l) ==
  /\ lk[l].ph = "select"
  /\ \/ /\ Held /\ AssertCurrent(l)
        /\ Step(l, [lk[l] EXCEPT !.ph = "store", !.own = stamp.timeout, !.dup = stamp.addr # lk[l].addr])
     \/ ~Held /\ lk[l].tries < 2 /\ Step(l, [lk[l] EXCEPT !.ph = "update"])
     \/ (IF Held THEN ~AssertCurrent(l) ELSE lk[l].tries >= 2) /\ End(l, HoldsSlot(l))
  /\ UNCHANGED <<disk, r, rot, bounds, faults>>

\* setPassportInfo: the row is written if the generation is still the stored one.
Outcome(l) == IF lk[l].got > 0 THEN "success" ELSE IF lk[l].got = 0 THEN "empty" ELSE "error"
\* Mutant: the result is kept longer than the ownership of its stamp.
TimeoutOfCache(l) == now + CacheTime
TimeoutOf(l) == IF lk[l].got > 0 /\ lk[l].own < now + CacheTime THEN lk[l].own ELSE now + CacheTime
Stored(l) == gens.gen = lk[l].cgen /\ gens.trust = lk[l].trust
SetPassportInfo(l) ==
  /\ lk[l].ph = "store"
  /\ row' = IF AssertCurrent(l) /\ Stored(l) /\ ~(lk[l].got > 0 /\ lk[l].own <= now)
            THEN [row EXCEPT ![lk[l].addr] = [out |-> Outcome(l), dup |-> lk[l].dup, timeout |-> TimeoutOf(l),
                                              gen |-> lk[l].cgen, trust |-> lk[l].trust]]
            ELSE row
  /\ End(l, HoldsSlot(l))
  /\ UNCHANGED <<stamp, gens, file, r, rot, bounds, faults>>
\* A statement of a lookup fails.
LookupFails(l) ==
  /\ lk[l].ph \in {"cache", "update", "insert", "select", "store"}
  /\ faults < MaxFaults /\ faults' = faults + 1
  /\ End(l, HoldsSlot(l))
  /\ UNCHANGED <<disk, r, rot, bounds>>

-----------------------------------------------------------------------------
(* reload: performGenerationRotation *)

Reload(t) ==
  /\ rot = None /\ reloads < MaxReloads /\ reloads' = reloads + 1
  /\ rot' = t /\ r' = [r EXCEPT !.accepting = FALSE] /\ pend' = [a \in Addr |-> None]
  /\ UNCHANGED <<disk, lk, auto, now, next, used, faults>>
Drained == \A l \in Lookup : lk[l] = Idle
\* activateCacheGeneration
Activate ==
  /\ rot # None /\ Drained
  /\ rot' = None /\ next' = next + 1
  /\ \/ /\ gens' = [gen |-> next, trust |-> rot]
        /\ r' = [gen |-> r.gen + 1, cgen |-> next, trust |-> rot, accepting |-> TRUE] /\ UNCHANGED faults
     \/ /\ faults < MaxFaults /\ faults' = faults + 1
        /\ gens' \in {gens, [gen |-> next, trust |-> rot]} /\ UNCHANGED r
  /\ UNCHANGED <<row, stamp, file, lk, pend, auto, now, used, reloads>>
ReuseOrRenew(t) == IF gens.trust = t THEN gens ELSE [gen |-> next, trust |-> t]
\* The process is started again: the stored generation is used if its trust is ours.
Restart(t) ==
  /\ reloads < MaxReloads /\ reloads' = reloads + 1
  /\ lk' = [l \in Lookup |-> Idle] /\ pend' = [a \in Addr |-> None] /\ auto' = 0 /\ rot' = None
  /\ next' = next + 1
  /\ gens' = ReuseOrRenew(t)
  /\ r' = [gen |-> r.gen + 1, cgen |-> gens'.gen, trust |-> t, accepting |-> TRUE]
  /\ UNCHANGED <<row, stamp, file, now, used, faults>>

\* cleanStore
CleanStore ==
  /\ \/ /\ stamp # None /\ stamp.timeout < now /\ stamp' = None /\ UNCHANGED row
     \/ \E a \in Addr : row[a] # None /\ row[a].timeout < now /\ row' = [row EXCEPT ![a] = None] /\ UNCHANGED stamp
  /\ UNCHANGED <<gens, file, r, rot, lk, pend, auto, bounds, faults>>
Tick ==
  /\ now < MaxTime /\ now' = now + 1
  /\ UNCHANGED <<disk, r, rot, lk, pend, auto, next, used, reloads, faults>>

Next ==
  \/ \E l \in Lookup :
       \/ \E a \in Addr : GetPassport(l, a) \/ VerifyUserPassport(l, a)
       \/ ReadCache(l) \/ Fetched(l) \/ Verified(l) \/ UpdateStamp(l) \/ InsertStamp(l) \/ SelectStamp(l)
       \/ SetPassportInfo(l) \/ LookupFails(l)
  \/ \E t \in Trust : Reload(t) \/ Restart(t)
  \/ Activate \/ CleanStore \/ Tick

Spec == Init /\ [][Next]_vars

\* The steps that are weakly fair. Statements, requests with a timeout and the verifier
\* with its timeout all end.
Weak ==
  ({"activate"} \X {0})
  \cup ({"read", "fetch", "verify", "update", "insert", "select", "store"} \X Lookup)
WeakStep(k) ==
  CASE k[1] = "read" -> ReadCache(k[2])
    [] k[1] = "fetch" -> Fetched(k[2])
    [] k[1] = "verify" -> Verified(k[2])
    [] k[1] = "update" -> UpdateStamp(k[2])
    [] k[1] = "insert" -> InsertStamp(k[2])
    [] k[1] = "select" -> SelectStamp(k[2])
    [] k[1] = "store" -> SetPassportInfo(k[2])
    [] k[1] = "activate" -> Activate

-----------------------------------------------------------------------------
TypeOK ==
  /\ \A a \in Addr : row[a] = None \/ row[a].out \in {"success", "empty", "error"}
  /\ stamp = None \/ stamp.addr \in Addr
  /\ rot \in Trust \cup {None} /\ auto \in 0..AutoLimit
  /\ pend \in [Addr -> Lookup \cup {None}]
  /\ \A l \in Lookup : lk[l].ph \in {"idle", "cache", "fetch", "verify", "update", "insert", "select", "store"}

\* A stamp counts for one address: two addresses never both have a cached result
\* that is served and has the stamp as their own.
StampCountsOnce ==
  \A a, b \in Addr :
    LET Counts(x) == Visible(x, r.cgen, r.trust) /\ row[x].out = "success" /\ ~row[x].dup IN
    a # b => ~(Counts(a) /\ Counts(b))

\* A result that is served was obtained under the trust configuration in force.
ServedUnderTrust ==
  \A a \in Addr : row[a] # None /\ r.accepting /\ row[a].gen = r.cgen => row[a].trust = r.trust

\* The lookups in progress belong to the generation in force or are being drained.
NoStragglers == r.accepting => \A l \in Lookup : lk[l] # Idle => lk[l].gen = r.gen /\ lk[l].cgen = gens.gen

\* Each automatic lookup holds one slot, and releases it however it ends.
SlotsBalanced == auto = Cardinality({l \in Lookup : HoldsSlot(l)})

\* One automatic lookup per address at a time.
SingleFlight ==
  \A k, l \in Lookup :
    k # l /\ lk[k].kind = "auto" /\ lk[l].kind = "auto" => lk[k].addr # lk[l].addr

\* The cache file of an address is never replaced by an older passport.
FileNeverOlderStep == \A a \in Addr : file'[a] >= file[a]
FileNeverOlder == [][FileNeverOlderStep]_vars

\* What comes in the end: a reload ends, as every lookup it waits for does.
RotationEnded == rot = None
=============================================================================
