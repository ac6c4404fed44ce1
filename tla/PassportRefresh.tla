--------------------------- MODULE PassportRefresh ---------------------------
(***************************************************************************)
(* The passport module's requests, src/modules/passport/PassportModule.ts: *)
(* manual verifications and automatic refreshes, of a running session or   *)
(* of a guest, session starts, and their limits: the cooldown of an        *)
(* address, one manual verification of it at a time, and the lookups of a  *)
(* remote address per window.  The resolver behind it (PassportLookup) is  *)
(* a call that ends some time later, or is interrupted by a reload.        *)
(* Manual verification in PassportLookup relies on OneVerification.        *)
(***************************************************************************)
EXTENDS Integers, Sequences, FiniteSets, SequencesExt

CONSTANTS
  Addr,             \* wallets; a guest writes the address in one of two spellings
  Session,          \* sessions of one wallet each
  AddrOf(_),        \* the wallet of a session
  Ip,
  Req,              \* request slots
  RefreshCooldown, GuestCooldown,
  Limit, Window,    \* guestLookupRateLimit and LOOKUP_WINDOW_SECONDS
  MaxAttempts,      \* MAX_MANUAL_ATTEMPT_ENTRIES
  MaxCounters,      \* MAX_LOOKUP_COUNTERS
  MaxTime,          \* bound: the clock, which starts at StartTime
  MaxReloads        \* bound: config reloads
StartTime == RefreshCooldown + GuestCooldown + Window
None == "none"
Spelling == {"lower", "mixed"}

BoundAssumption ==
  /\ {RefreshCooldown, GuestCooldown, Limit, Window, MaxAttempts, MaxCounters, MaxTime, MaxReloads} \subseteq Nat
  /\ Limit > 0 /\ Window > 0 /\ MaxAttempts > 0 /\ MaxCounters > 0

VARIABLES
  now,
  attempts,       \* manualVerificationAttempts, in insertion order: [key, at]
  inFlight,       \* manualVerificationsInFlight
  counters,       \* lookupCounters, in insertion order: [ip, start, count]
  resolver,       \* open, rotating, closed (a failed rotation)
  reloads,
  sess,           \* session -> [running, refresh, manual]
  cached,         \* wallet -> when its cached passport was parsed, 0 for none
  req,            \* request slot -> request
  lastDone,       \* ghost: wallet -> last end of a manual verification since the last reload
  used            \* ghost: lookups admitted since the counters were cleared, [ip, at]

limits == <<attempts, inFlight, counters>>
vars == <<now, limits, resolver, reloads, sess, cached, req, lastDone, used>>

Idle == [kind |-> None, at |-> None, who |-> None, wallet |-> None, key |-> None, ip |-> None, cool |-> 0]
Init ==
  /\ now = StartTime /\ attempts = <<>> /\ inFlight = {} /\ counters = <<>>
  /\ resolver = "open" /\ reloads = 0
  /\ sess = [s \in Session |-> [running |-> FALSE, refresh |-> 0, manual |-> 0]]
  /\ cached = [a \in Addr |-> 0] /\ req = [r \in Req |-> Idle]
  /\ lastDone = [a \in Addr |-> 0] /\ used = <<>>

-----------------------------------------------------------------------------
(* Limits *)

\* toLowerCase of the address
Key(a, spelling) == <<a, "lower">>

Without(q, test(_)) == SelectSeq(q, LAMBDA e : ~test(e))
\* the oldest entries go while the table is full
Evict(q, max) == IF Len(q) < max THEN q ELSE SubSeq(q, Len(q) - max + 2, Len(q))
AttemptAt(key) == LET found == SelectSeq(attempts, LAMBDA e : e.key = key)
                  IN IF found = <<>> THEN 0 ELSE found[1].at
Remaining(key, s, cool) ==
  LET last == IF s # None /\ sess[s].manual > AttemptAt(key) THEN sess[s].manual ELSE AttemptAt(key)
  IN last + cool - now
\* getManualVerificationCooldown is not positive
MayVerify(key, s, cool) == Remaining(key, s, cool) <= 0 /\ key \notin inFlight
\* recordManualVerificationAttempt
Recorded(key) == Append(Evict(Without(attempts, LAMBDA e : e.key = key), MaxAttempts), [key |-> key, at |-> now])
MarkSession(s) == sess' = IF s = None THEN sess ELSE [sess EXCEPT ![s].manual = now]

\* consumeLookupBudget: the counters afterwards, and whether the lookup is admitted
Counter(ip) == LET found == SelectSeq(counters, LAMBDA c : c.ip = ip)
               IN IF found = <<>> THEN [ip |-> ip, start |-> now, count |-> 0] ELSE found[1]
WindowOver(c) == now - c.start >= Window
Fresh(ip) == (\A k \in DOMAIN counters : counters[k].ip # ip) \/ WindowOver(Counter(ip))
Current(ip) == IF Fresh(ip) THEN [ip |-> ip, start |-> now, count |-> 0] ELSE Counter(ip)
Admits(ip) == Current(ip).count < Limit
ConsumeLookupBudget(ip) ==
  LET c == [Current(ip) EXCEPT !.count = IF Admits(ip) THEN @ + 1 ELSE @]
  IN /\ counters' = IF Fresh(ip) THEN Append(Evict(Without(counters, LAMBDA e : e.ip = ip), MaxCounters), c)
                    ELSE [k \in DOMAIN counters |-> IF counters[k].ip = ip THEN c ELSE counters[k]]
     /\ used' = IF Admits(ip) THEN Append(used, [ip |-> ip, at |-> now]) ELSE used

-----------------------------------------------------------------------------
(* processPassportRefresh *)

Running(s) == s # None => sess[s].running
Wallet(s, a) == IF s = None THEN a ELSE AddrOf(s)
Cooldown(s) == IF s = None /\ GuestCooldown > 0 THEN GuestCooldown ELSE RefreshCooldown
Request(kind, at, s, a, sp, ip) ==
  [kind |-> kind, at |-> at, who |-> s, wallet |-> Wallet(s, a), key |-> Key(Wallet(s, a), sp), ip |-> ip, cool |-> Cooldown(s)]
\* a guest's lookup is counted; it goes on in slot r only when it is admitted
Counted(r, s, ip, go) ==
  IF s # None THEN go /\ UNCHANGED <<counters, used>>
  ELSE ConsumeLookupBudget(ip) /\ (IF Admits(ip) THEN go ELSE UNCHANGED <<req, attempts, inFlight, sess>>)

\* POST, up to the call of the resolver: beginManualVerificationAttempt
BeginManual(r, s, a, sp, ip) ==
  LET q == Request("manual", "verify", s, a, sp, ip)
  IN /\ req[r].kind = None /\ Running(s) /\ MayVerify(q.key, s, q.cool)
     /\ Counted(r, s, ip, /\ req' = [req EXCEPT ![r] = q]
                          /\ inFlight' = inFlight \cup {q.key} /\ attempts' = Recorded(q.key) /\ MarkSession(s))
     /\ UNCHANGED <<now, resolver, reloads, cached, lastDone>>
\* Mutant: the cooldown counts from the beginning of the verification.
RecordedAtBegin(key) == attempts
RecordedAtEnd(key) == Recorded(key)
\* the verification ends, well or badly: completeManualVerificationAttempt
EndManual(r) ==
  /\ req[r].at = "verify" /\ req' = [req EXCEPT ![r] = Idle]
  /\ inFlight' = inFlight \ {req[r].key} /\ attempts' = RecordedAtEnd(req[r].key)
  /\ \E ok \in {b \in BOOLEAN : b => resolver = "open"} :
       /\ sess' = IF req[r].who = None THEN sess
                  ELSE [sess EXCEPT ![req[r].who].manual = now, ![req[r].who].refresh = IF ok THEN now ELSE @]
       /\ cached' = IF ok THEN [cached EXCEPT ![req[r].wallet] = now] ELSE cached
  /\ lastDone' = [lastDone EXCEPT ![req[r].wallet] = now]
  /\ UNCHANGED <<now, counters, resolver, reloads, used>>
\* GET: a session's last refresh is known, a guest's is read from the cache
BeginAuto(r, s, a, sp, ip) ==
  /\ req[r].kind = None /\ Running(s)
  /\ s # None => now - sess[s].refresh >= RefreshCooldown
  /\ req' = [req EXCEPT ![r] = Request("auto", IF s = None THEN "cached" ELSE "lookup", s, a, sp, ip)]
  /\ UNCHANGED <<now, limits, resolver, reloads, sess, cached, lastDone, used>>
\* the cached passport was read; busy, interrupted, too early or out of budget, the request ends
CacheRead(r) ==
  /\ req[r].at = "cached"
  /\ \/ req' = [req EXCEPT ![r] = Idle] /\ UNCHANGED <<limits, sess, used>>
     \/ /\ resolver = "open" /\ now - cached[req[r].wallet] >= req[r].cool
        /\ ConsumeLookupBudget(req[r].ip)
        /\ req' = [req EXCEPT ![r] = IF Admits(req[r].ip) THEN [@ EXCEPT !.at = "lookup"] ELSE Idle]
        /\ UNCHANGED <<attempts, inFlight, sess>>
  /\ UNCHANGED <<now, resolver, reloads, cached, lastDone>>
\* getPassport ended, and its result is written to the session
EndAuto(r) ==
  /\ req[r].at = "lookup" /\ req[r].kind = "auto" /\ req' = [req EXCEPT ![r] = Idle]
  /\ \/ UNCHANGED <<sess, cached>>
     \/ /\ resolver = "open" /\ cached' = [cached EXCEPT ![req[r].wallet] = now]
        /\ sess' = IF req[r].who = None THEN sess ELSE [sess EXCEPT ![req[r].who].refresh = now]
  /\ UNCHANGED <<now, limits, resolver, reloads, lastDone, used>>

-----------------------------------------------------------------------------
(* processSessionStart: the budget is only asked for when the cache has no answer *)

BeginStart(r, s, ip) ==
  /\ req[r].kind = None /\ ~sess[s].running /\ \A q \in Req : ~(req[q].kind = "start" /\ req[q].who = s)
  /\ req' = [req EXCEPT ![r] = Request("start", "cached", s, None, "lower", ip)]
  /\ UNCHANGED <<now, limits, resolver, reloads, sess, cached, lastDone, used>>
Started(s) == sess' = [sess EXCEPT ![s].running = TRUE, ![s].refresh = now]
\* resolvePassport: cached, without capacity or without budget the start goes on at once
StartCacheRead(r) ==
  /\ req[r].at = "cached" /\ req[r].kind = "start" /\ resolver = "open"
  /\ \/ req' = [req EXCEPT ![r] = Idle] /\ Started(req[r].who) /\ UNCHANGED <<counters, used>>
     \/ /\ ConsumeLookupBudget(req[r].ip)
        /\ IF Admits(req[r].ip) THEN req' = [req EXCEPT ![r].at = "lookup"] /\ UNCHANGED sess
           ELSE req' = [req EXCEPT ![r] = Idle] /\ Started(req[r].who)
  /\ UNCHANGED <<now, attempts, inFlight, resolver, reloads, cached, lastDone>>
\* an interrupted lookup, or a score below the required one, refuses the start
EndStart(r) ==
  /\ req[r].kind = "start" /\ req' = [req EXCEPT ![r] = Idle]
  /\ \/ UNCHANGED <<sess, cached>>
     \/ resolver = "open" /\ req[r].at = "lookup" /\ Started(req[r].who) /\ cached' = [cached EXCEPT ![req[r].wallet] = now]
  /\ UNCHANGED <<now, limits, resolver, reloads, lastDone, used>>
EndSession(s) ==
  /\ sess[s].running /\ sess' = [sess EXCEPT ![s].running = FALSE]
  /\ UNCHANGED <<now, limits, resolver, reloads, cached, req, lastDone, used>>

-----------------------------------------------------------------------------
(* onConfigReload *)

\* the counters are cleared, and the resolver interrupts and drains its work
Reload ==
  /\ resolver # "rotating" /\ reloads < MaxReloads /\ reloads' = reloads + 1 /\ resolver' = "rotating"
  /\ counters' = <<>> /\ used' = <<>>
  /\ UNCHANGED <<now, attempts, inFlight, sess, cached, req, lastDone>>
Drained == \A r \in Req : req[r].at = None
\* the rotation is over once the calls of the old generation have ended
Reloaded == resolver = "rotating" /\ Drained
ReloadEnds ==
  /\ Reloaded
  /\ \/ resolver' = "open" /\ attempts' = <<>> /\ inFlight' = {} /\ lastDone' = [a \in Addr |-> 0]
     \/ resolver' = "closed" /\ UNCHANGED <<attempts, inFlight, lastDone>>
  /\ UNCHANGED <<now, counters, reloads, sess, cached, req, used>>
Tick ==
  /\ now < StartTime + MaxTime /\ now' = now + 1
  /\ UNCHANGED <<limits, resolver, reloads, sess, cached, req, lastDone, used>>

Next ==
  \/ \E r \in Req, s \in Session \cup {None}, ip \in Ip :
       \E a \in (IF s = None THEN Addr ELSE {None}), sp \in (IF s = None THEN Spelling ELSE {"lower"}) :
         BeginManual(r, s, a, sp, ip) \/ BeginAuto(r, s, a, sp, ip)
  \/ \E r \in Req : EndManual(r) \/ (req[r].kind = "auto" /\ CacheRead(r)) \/ EndAuto(r) \/ StartCacheRead(r) \/ EndStart(r)
  \/ \E r \in Req, s \in Session, ip \in Ip : BeginStart(r, s, ip)
  \/ \E s \in Session : EndSession(s)
  \/ Reload \/ ReloadEnds \/ Tick
Spec == Init /\ [][Next]_vars

-----------------------------------------------------------------------------
Verifying(a) == {r \in Req : req[r].at = "verify" /\ req[r].wallet = a}

\* The tables stay within their limits, and the addresses in flight are those of the
\* verifications under way.
TypeOK ==
  /\ Len(attempts) <= MaxAttempts /\ Len(counters) <= MaxCounters
  /\ inFlight = {req[r].key : r \in {q \in Req : req[q].at = "verify"}}

\* A wallet has at most one manual verification under way, however its address is written,
\* whoever asks for it, and even when its attempt was evicted from the table.
OneVerification == \A a \in Addr : Cardinality(Verifying(a)) <= 1

\* A manual verification begins no sooner than the cooldown of the request after the end of
\* the last one of the wallet.
VerificationsAreSpacedStep ==
  \A r \in Req : req[r].at # "verify" /\ req'[r].at = "verify"
                 => now - lastDone[req'[r].wallet] >= req'[r].cool

\* In any span of one window a remote address is admitted to at most two windows' lookups.
BudgetIsKept ==
  \A ip \in Ip : Len(SelectSeq(used, LAMBDA u : u.ip = ip /\ u.at > now - Window)) <= 2 * Limit
=============================================================================
