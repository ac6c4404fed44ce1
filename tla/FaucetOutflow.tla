---------------------------- MODULE FaucetOutflow ----------------------------
(***************************************************************************)
(* modules/faucet-outflow: a balance that grows with time and shrinks with *)
(* rewards and with the fees of native claims.  The state is one database  *)
(* entry.  Operations on it are serialized; a write that reports an error  *)
(* may have been executed, and until a read tells which, the ownership of  *)
(* the entry is uncertain and nobody is rewarded.  A claim's fee leaves a  *)
(* marker in the entry that is removed once the session is stored as       *)
(* finished.  Balances are fractions, as in the code; amounts are small.   *)
(***************************************************************************)
EXTENDS Integers, FiniteSets, FiniteSetsExt

CONSTANTS
  Claim,         \* claims with a confirmed native transaction
  Durations,     \* rateDuration of the policies that can be configured
  Amount,        \* policy.amount, the growth per duration
  MaxDebt,       \* minus policy.lowerLimit
  UpperLimit,    \* policy.upperLimit
  MarkerLimit,   \* getClaimFeeMarkerLimit
  MaxTime, MaxRewards, MaxFaults, MaxCrashes,
  Unit,          \* the ledger below counts in 1/Unit
  None

PolicyAssumption ==
  /\ Amount \in Nat \ {0} /\ MaxDebt \in Nat /\ UpperLimit \in Nat
  /\ Unit \in Nat \ {0} /\ \A d \in Durations : d \in Nat \ {0} /\ Unit % d = 0

LowerLimit == -MaxDebt

VARIABLES
  rt,       \* the runtime: [st, dur], None before the module is started
  disk,     \* the database entry, None at first
  own,      \* writeOwnership: [kind, json, prev, next]
  unsure,   \* uncertainClaimFee
  cur,      \* the operation that holds the queue: [kind, ph, prev, next, claim]
  claim,    \* claim -> "confirmed", "booked" (its hook returned), "finished", "deleted"
  now,
  asked, acked,   \* rewards requested, rewards whose operation succeeded
  faults, crashes

vars == <<rt, disk, own, unsure, cur, claim, now, asked, acked, faults, crashes>>

\* The entry.  spent, fee and ledger are not in the program: they record what was
\* taken for rewards and claims, and what was gained (in 1/Unit).
Empty(d) == [num |-> 0, den |-> 1, time |-> now, dur |-> d, fees |-> {},
             spent |-> 0, fee |-> [c \in Claim |-> 0], ledger |-> 0]
Json(st) == IF st = None THEN None ELSE [num |-> st.num, den |-> st.den, time |-> st.time, dur |-> st.dur, fees |-> st.fees]
Certain(st) == [kind |-> "certain", json |-> Json(st), prev |-> None, next |-> None]
NoOp == [kind |-> "none", ph |-> "none", prev |-> None, next |-> None, claim |-> None]

Init ==
  /\ rt = None /\ disk = None /\ own = Certain(None) /\ unsure = None /\ cur = NoOp
  /\ claim = [c \in Claim |-> "confirmed"]
  /\ now = 0 /\ asked = 0 /\ acked = 0 /\ faults = 0 /\ crashes = 0

-----------------------------------------------------------------------------
(* Arithmetic *)

Abs(n) == IF n < 0 THEN -n ELSE n
GreatestCommonDivisor(a, b) == Max({d \in 1..b : a % d = 0 /\ b % d = 0})
NormalizeBalance(st) ==
  LET g == GreatestCommonDivisor(Abs(st.num), st.den) IN
  [st EXCEPT !.num = IF @ < 0 THEN -(Abs(@) \div g) ELSE @ \div g, !.den = @ \div g]

SettleBalance(st) ==
  IF now <= st.time THEN st
  ELSE NormalizeBalance([st EXCEPT
         !.num = @ * st.dur + (now - st.time) * Amount * st.den, !.den = @ * st.dur, !.time = now,
         !.ledger = @ + (now - st.time) * Amount * (Unit \div st.dur)])

Taken(st) == st.spent + MapThenSumSet(LAMBDA c : st.fee[c], Claim)
SetBalance(st, v) == [st EXCEPT !.num = v, !.den = 1, !.ledger = (v + Taken(st)) * Unit]
ClampUpperLimit(st) == IF st.num > UpperLimit * st.den THEN SetBalance(st, UpperLimit) ELSE st
EnforceBalanceBoundaries(st) ==
  LET c == ClampUpperLimit(SettleBalance(st)) IN
  IF c.num < LowerLimit * c.den THEN SetBalance(c, LowerLimit) ELSE c
Subtract(st, n) == NormalizeBalance([st EXCEPT !.num = @ - n * st.den])

\* Markers of sessions that are stored as finished are not needed any more.
PruneFinalizedClaimFees(st) == [st EXCEPT !.fees = {c \in @ : claim[c] # "finished"}]

-----------------------------------------------------------------------------
(* The queue of state operations *)

\* reconcileWriteOwnership with what the entry is read as: the runtime goes on from
\* the state that is stored.
Reconciled ==
  IF own.kind = "certain" THEN rt
  ELSE IF Json(disk) = Json(own.next.st) THEN own.next ELSE own.prev
Settles ==
  IF rt = None THEN FALSE
  ELSE IF own.kind = "certain" THEN TRUE ELSE Json(disk) \in {Json(own.next.st), own.json}
\* An operation starts and fails: the read of the entry does.
BeginFails ==
  /\ cur = NoOp /\ rt # None /\ faults < MaxFaults
  /\ faults' = faults + 1
  /\ UNCHANGED <<rt, disk, own, unsure, cur, claim, now, asked, acked, crashes>>

\* Operation kind leads from runtime z to runtime n, which is written.  Persisting
\* is refused while a claim's fee is uncertain; then the runtime is set back.
Begin(kind, z, n) ==
  /\ cur = NoOp
  /\ own' = IF own.kind = "certain" THEN own ELSE Certain(disk)
  /\ IF unsure = None
     THEN rt' = n /\ cur' = [NoOp EXCEPT !.kind = kind, !.ph = "write", !.prev = z, !.next = n]
     ELSE rt' = z /\ cur' = NoOp
  /\ UNCHANGED <<disk, unsure, claim, now, faults, crashes>>

LoadOutflowState(d) == IF disk = None THEN Empty(d) ELSE disk
InstallPolicy(st, d) == [SettleBalance(st) EXCEPT !.dur = d]
\* startModule
Start ==
  /\ cur = NoOp /\ rt = None
  /\ \E d \in Durations :
       LET st == LoadOutflowState(d)
           n == PruneFinalizedClaimFees(EnforceBalanceBoundaries(InstallPolicy(st, d))) IN
       /\ rt' = [st |-> n, dur |-> d]
       /\ own' = Certain(disk)
       /\ cur' = [NoOp EXCEPT !.kind = "start", !.ph = "write", !.prev = [st |-> st, dur |-> d],
                              !.next = [st |-> n, dur |-> d]]
  /\ UNCHANGED <<disk, unsure, claim, now, asked, acked, faults, crashes>>

\* updateState: a session was rewarded.
UpdateState ==
  /\ Settles /\ asked < MaxRewards /\ asked' = asked + 1
  /\ LET z == Reconciled
         c == ClampUpperLimit(SettleBalance(z.st)) IN
     Begin("update", z, [z EXCEPT !.st = Subtract([c EXCEPT !.spent = @ + 1], 1)])
  /\ UNCHANGED acked

\* saveOutflowState
SaveOutflowState ==
  /\ Settles
  /\ LET z == Reconciled IN
     Begin("save", z, [z EXCEPT !.st = PruneFinalizedClaimFees(z.st)])
  /\ UNCHANGED <<asked, acked>>

\* onConfigReload
ConfigReload(d) ==
  /\ Settles /\ d # rt.dur
  /\ LET z == Reconciled IN
     Begin("reload", z, [st |-> EnforceBalanceBoundaries(InstallPolicy(z.st, d)), dur |-> d])
  /\ UNCHANGED <<asked, acked>>

-----------------------------------------------------------------------------
(* persistOutflowState *)

Succeeds ==
  /\ cur' = NoOp
  /\ acked' = IF cur.kind = "update" THEN acked + 1 ELSE acked
\* A failed start ends the process.
Fails(z) ==
  /\ cur' = NoOp /\ UNCHANGED acked
  /\ rt' = IF cur.kind = "start" THEN None ELSE z
Write ==
  /\ cur.ph = "write"
  /\ \/ /\ disk' = cur.next.st /\ own' = Certain(cur.next.st)
        /\ Succeeds /\ UNCHANGED <<rt, faults>>
     \/ /\ faults < MaxFaults /\ faults' = faults + 1
        /\ disk' \in {disk, cur.next.st}
        /\ own' = [kind |-> "uncertain", json |-> own.json, prev |-> cur.prev, next |-> cur.next]
        /\ cur' = [cur EXCEPT !.ph = "readback"] /\ UNCHANGED <<rt, acked>>
  /\ UNCHANGED <<unsure, claim, now, asked, crashes>>
Observe ==
  IF Json(disk) = Json(cur.next.st)
  THEN rt' = cur.next /\ own' = Certain(disk) /\ Succeeds
  ELSE own' = Certain(disk) /\ Fails(cur.prev)
ReadBack ==
  /\ cur.ph = "readback"
  /\ \/ Observe /\ UNCHANGED faults
     \/ faults < MaxFaults /\ faults' = faults + 1 /\ Fails(rt) /\ UNCHANGED own
  /\ UNCHANGED <<disk, unsure, claim, now, asked, crashes>>

-----------------------------------------------------------------------------
(* accountConfirmedNativeClaimFee: compare and set *)

HookDone(c) == claim' = [claim EXCEPT ![c] = IF @ = "confirmed" THEN "booked" ELSE @]
\* Mutant: a fee that has a marker is taken again.
BookedNever(c) == claim[c] = "finished"
AlreadyBooked(c) == c \in disk.fees \/ claim[c] = "finished"
Charge(st, c) == Subtract([st EXCEPT !.fees = @ \cup {c}, !.fee[c] = @ + 1], 1)
ProcessSessionClaimed(c) ==
  /\ cur = NoOp /\ disk # None /\ claim[c] \in {"confirmed", "booked", "finished"}
  /\ Settles
  /\ unsure' = None /\ own' = Certain(disk)
  /\ LET z == Reconciled
         st == PruneFinalizedClaimFees(disk)
         n == [z EXCEPT !.st = Charge(ClampUpperLimit(SettleBalance(st)), c)] IN
     \/ AlreadyBooked(c) /\ rt' = [z EXCEPT !.st = disk] /\ HookDone(c) /\ UNCHANGED cur
     \/ /\ ~AlreadyBooked(c) /\ Cardinality(st.fees) >= MarkerLimit
        /\ rt' = z /\ UNCHANGED <<cur, claim>>
     \/ /\ ~AlreadyBooked(c) /\ Cardinality(st.fees) < MarkerLimit
        /\ rt' = n /\ UNCHANGED claim
        /\ cur' = [kind |-> "fee", ph |-> "cas", claim |-> c, prev |-> z, next |-> n]
  /\ UNCHANGED <<disk, now, asked, acked, faults, crashes>>
\* The entry is still the one that was read: operations are serialized.
CompareAndSet ==
  /\ cur.ph = "cas"
  /\ \/ /\ disk' = cur.next.st /\ own' = Certain(cur.next.st)
        /\ HookDone(cur.claim) /\ cur' = NoOp /\ UNCHANGED <<rt, unsure, faults>>
     \/ /\ faults < MaxFaults /\ faults' = faults + 1
        /\ disk' \in {disk, cur.next.st}
        /\ rt' = cur.prev /\ unsure' = cur.claim
        /\ cur' = [cur EXCEPT !.ph = "casread"] /\ UNCHANGED <<own, claim>>
  /\ UNCHANGED <<now, asked, acked, crashes>>
CasReadBack ==
  /\ cur.ph = "casread" /\ cur' = NoOp
  /\ \/ /\ unsure' = None /\ own' = Certain(disk) /\ rt' = [rt EXCEPT !.st = disk]
        /\ IF cur.claim \in disk.fees THEN HookDone(cur.claim) ELSE UNCHANGED claim
        /\ UNCHANGED faults
     \/ faults < MaxFaults /\ faults' = faults + 1 /\ UNCHANGED <<rt, own, unsure, claim>>
  /\ UNCHANGED <<disk, now, asked, acked, crashes>>

-----------------------------------------------------------------------------
\* getOutflowRestriction, called beside the queue, settles the balance in place.
Restricted == own.kind = "uncertain" \/ unsure # None
Restriction ==
  /\ rt # None /\ ~Restricted /\ now > rt.st.time
  /\ rt' = [rt EXCEPT !.st = ClampUpperLimit(SettleBalance(@))]
  /\ UNCHANGED <<disk, own, unsure, cur, claim, now, asked, acked, faults, crashes>>

\* The claim manager stores the session as finished after the hook returned, and
\* the database's cleanup deletes it when the guard allows.
Finish(c) ==
  /\ claim[c] = "booked" /\ claim' = [claim EXCEPT ![c] = "finished"]
  /\ UNCHANGED <<rt, disk, own, unsure, cur, now, asked, acked, faults, crashes>>
CanCleanupPersistedClaimFee(c) == disk = None \/ c \notin disk.fees
Delete(c) ==
  /\ cur = NoOp /\ claim[c] = "finished" /\ CanCleanupPersistedClaimFee(c)
  /\ claim' = [claim EXCEPT ![c] = "deleted"]
  /\ UNCHANGED <<rt, disk, own, unsure, cur, now, asked, acked, faults, crashes>>

Tick ==
  /\ now < MaxTime /\ now' = now + 1
  /\ UNCHANGED <<rt, disk, own, unsure, cur, claim, asked, acked, faults, crashes>>
\* A claim that was not stored as finished is processed again after a crash.
Crash ==
  /\ rt # None /\ crashes < MaxCrashes /\ crashes' = crashes + 1
  /\ rt' = None /\ own' = Certain(None) /\ unsure' = None /\ cur' = NoOp
  /\ claim' = [c \in Claim |-> IF claim[c] = "booked" THEN "confirmed" ELSE claim[c]]
  /\ UNCHANGED <<disk, now, asked, acked, faults>>

Next ==
  \/ BeginFails \/ Start \/ UpdateState \/ SaveOutflowState \/ \E d \in Durations : ConfigReload(d)
  \/ Write \/ ReadBack \/ CompareAndSet \/ CasReadBack \/ Restriction \/ Tick \/ Crash
  \/ \E c \in Claim : ProcessSessionClaimed(c) \/ Finish(c) \/ Delete(c)

Spec == Init /\ [][Next]_vars

\* The steps that are weakly fair. The queue advances, the module is started, the claim
\* manager repeats the hook until it returns, and the save timer fires.
Weak == ({"start", "write", "read", "cas", "casread"} \X {0}) \cup ({"finish"} \X Claim)
WeakStep(k) ==
  CASE k[1] = "start" -> Start
    [] k[1] = "write" -> Write
    [] k[1] = "read" -> ReadBack
    [] k[1] = "cas" -> CompareAndSet
    [] k[1] = "casread" -> CasReadBack
    [] k[1] = "finish" -> Finish(k[2])
\* Strongly fair are those that others may disable now and then: the queue gets to them.
Strong == {"timer", "caller"}
StrongStep(k) ==
  CASE k = "timer" -> SaveOutflowState
    [] k = "caller" -> \E c \in Claim : claim[c] = "confirmed" /\ ProcessSessionClaimed(c)

-----------------------------------------------------------------------------
State(st) ==
  /\ st.num \in Int /\ st.den \in Nat \ {0} /\ st.time \in 0..MaxTime /\ st.dur \in Durations
  /\ st.fees \subseteq Claim
TypeOK ==
  /\ rt = None \/ State(rt.st)
  /\ disk = None \/ State(disk)
  /\ own.kind \in {"certain", "uncertain"}
  /\ unsure \in Claim \cup {None}
  /\ cur.ph \in {"none", "write", "readback", "cas", "casread"}
  /\ claim \in [Claim -> {"confirmed", "booked", "finished", "deleted"}]

\* The fraction is exact: however often the balance was settled, read, persisted or
\* rolled back, it is the growth since the start minus everything taken.
Exact(st) == st.num * Unit = (st.ledger - Taken(st) * Unit) * st.den
BalanceIsExact == (rt = None \/ Exact(rt.st)) /\ (disk = None \/ Exact(disk))

\* The fee of a claim is taken once, although its hook may run again after errors
\* and crashes, and it is taken before the session counts as finished.
FeeOnce ==
  \A c \in Claim :
    /\ disk # None => disk.fee[c] <= 1
    /\ claim[c] \in {"booked", "finished", "deleted"} => disk.fee[c] = 1

\* A reward whose booking was reported as done is stored and survives a crash; none
\* is booked twice.
RewardsAreStored == IF disk = None THEN acked = 0 ELSE acked <= disk.spent /\ disk.spent <= asked

\* When ownership is certain, the runtime has taken what the entry has: no reward
\* and no fee is forgotten by a rollback.
RuntimeFollowsEntry ==
  rt # None /\ disk # None /\ cur = NoOp /\ own.kind = "certain" /\ unsure = None =>
    rt.st.spent = disk.spent /\ rt.st.fee = disk.fee

\* A marker outlives the session only until the session is finished, and a session
\* is not deleted before its marker.
MarkersHaveSessions == disk # None => \A c \in disk.fees : claim[c] # "deleted"

\* What comes in the end, with the database working again: every claim's fee is booked and its session
\* finished, as long as there is room for markers.
ClaimsFinished == \A c \in Claim : claim[c] \in {"finished", "deleted"}
=============================================================================
