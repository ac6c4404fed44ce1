---------------------------- MODULE DynamicOutflow ----------------------------
(***************************************************************************)
(* modules/dynamic-outflow: a budget that grows at a rate taken from the   *)
(* wallet's free balance and shrinks with every reward.  The rate is       *)
(* computed again by a timer; the budget is one database entry, written    *)
(* under the same ownership protocol as that of FaucetOutflow.  A positive *)
(* budget does not survive a restart.                                      *)
(***************************************************************************)
EXTENDS Integers

CONSTANTS
  Balances,       \* wallet balances, each divided by targetDrainTime one
  Unclaimed,      \* amounts that sessions and queued claims hold
  BurstWindow, CutoffWindow,
  StaleTime,      \* 2 * refreshInterval + 30
  MaxGrants,      \* rewards between their factor and their booking
  MaxRewards, MaxTime, MaxFaults, MaxStops,
  None

WindowAssumption ==
  /\ Balances \subseteq Nat /\ Unclaimed \subseteq Nat
  /\ BurstWindow \in Nat /\ CutoffWindow \in Nat /\ StaleTime \in Nat

VARIABLES
  rt,        \* [budget, time, rate, rateTime, spent], None while the process is down
  disk,      \* the entry
  own,       \* writeOwnership: [kind, json, prev, next]
  cur,       \* the operation that holds the queue: [kind, ph, prev, next, bal]
  timer,     \* refreshTimer is set
  refresh,   \* refreshPromise is set
  wallet,    \* getFaucetBalance(): None until the RPC answered
  grants,    \* rewards whose factor was computed and that are not booked
  now, since,     \* the clock, and when the process was started
  asked, acked, faults, stops

vars == <<rt, disk, own, cur, timer, refresh, wallet, grants, now, since, asked, acked, faults, stops>>
env == <<wallet, now, since, asked, faults, stops>>

\* spent is not in the program: what was taken from the budget so far.
Json(z) == [budget |-> z.budget, time |-> z.time]
Entry(z) == [budget |-> z.budget, time |-> z.time, spent |-> z.spent]
Stored == IF disk = None THEN None ELSE Json(disk)
Certain(json) == [kind |-> "certain", json |-> json, prev |-> None, next |-> None]
NoOp == [kind |-> "none", ph |-> "none", prev |-> None, next |-> None, bal |-> None]

Init ==
  /\ rt = None /\ disk = None /\ own = Certain(None) /\ cur = NoOp
  /\ timer = FALSE /\ refresh = FALSE /\ wallet = None /\ grants = 0
  /\ now = 0 /\ since = 0 /\ asked = 0 /\ acked = 0 /\ faults = 0 /\ stops = 0

-----------------------------------------------------------------------------
UpdateOutflowBudget(z) ==
  IF now <= z.time THEN z
  ELSE IF z.rate = None THEN [z EXCEPT !.time = now]
  ELSE LET b == z.budget + z.rate * (now - z.time)
           limit == z.rate * BurstWindow IN
       [z EXCEPT !.time = now, !.budget = IF b > limit THEN limit ELSE b]

IsRateStale == now - rt.rateTime > StaleTime
\* getOutflowRestriction: whether it returns more than 0.
Rewards ==
  /\ own.kind = "certain" /\ rt.rate # None /\ ~IsRateStale /\ rt.rate # 0
  /\ LET b == UpdateOutflowBudget(rt).budget IN b >= 0 \/ -b < rt.rate * CutoffWindow

RestoredBudget == IF disk = None THEN 0 ELSE IF disk.budget > 0 THEN 0 ELSE disk.budget
\* startModule and loadOutflowState
Start ==
  /\ rt = None /\ cur = NoOp
  /\ rt' = [budget |-> RestoredBudget, time |-> now, rate |-> None, rateTime |-> 0,
            spent |-> IF disk = None THEN 0 ELSE disk.spent]
  /\ own' = Certain(Stored) /\ since' = now
  /\ UNCHANGED <<disk, cur, timer, refresh, wallet, grants, now, asked, acked, faults, stops>>

\* onStateRestoreComplete; onConfigReload does the same.
RestoreComplete ==
  /\ rt # None /\ cur.kind # "stop" /\ ~timer /\ timer' = TRUE /\ refresh' = TRUE
  /\ UNCHANGED <<rt, disk, own, cur, grants, acked, env>>
RefreshTimer ==
  /\ rt # None /\ timer /\ ~refresh /\ refresh' = TRUE
  /\ UNCHANGED <<rt, disk, own, cur, timer, grants, acked, env>>

-----------------------------------------------------------------------------
(* The queue of state operations *)

\* reconcileWriteOwnership, when the entry can be read
Settles == IF rt = None THEN FALSE
           ELSE IF own.kind = "certain" THEN TRUE ELSE Stored \in {Json(own.next), own.json}
Reconciled == IF own.kind = "certain" THEN rt ELSE IF Stored = Json(own.next) THEN own.next ELSE own.prev
Settled == own' = IF own.kind = "certain" THEN own ELSE Certain(Stored)
BeginFails ==
  /\ cur = NoOp /\ rt # None /\ own.kind = "uncertain"
  /\ faults < MaxFaults /\ faults' = faults + 1
  /\ \/ refresh /\ refresh' = FALSE /\ UNCHANGED grants
     \/ grants > 0 /\ grants' = grants - 1 /\ UNCHANGED refresh
  /\ UNCHANGED <<rt, disk, own, cur, timer, wallet, now, since, asked, acked, stops>>

\* processSessionRewardFactor reads the restriction, which settles the budget.
Grant ==
  /\ rt # None /\ cur.kind # "stop" /\ asked < MaxRewards /\ grants < MaxGrants
  /\ Rewards
  /\ rt' = UpdateOutflowBudget(rt) /\ grants' = grants + 1 /\ asked' = asked + 1
  /\ UNCHANGED <<disk, own, cur, timer, refresh, wallet, now, since, acked, faults, stops>>
\* processSessionRewarded
\* Mutant: the budget does not fall below zero: debts are forgiven.
DebitForgiving(z) == [z EXCEPT !.budget = IF @ > 0 THEN @ - 1 ELSE 0, !.spent = @ + 1]
Debit(z) == [z EXCEPT !.budget = @ - 1, !.spent = @ + 1]
SessionRewarded ==
  /\ cur = NoOp /\ grants > 0 /\ Settles
  /\ LET z == Reconciled
         n == Debit(UpdateOutflowBudget(z)) IN
     /\ rt' = n /\ cur' = [NoOp EXCEPT !.kind = "reward", !.ph = "write", !.prev = z, !.next = n]
  /\ Settled /\ grants' = grants - 1
  /\ UNCHANGED <<disk, timer, refresh, acked, env>>

\* computeOutflowRate up to the await of the unclaimed balance
ComputeOutflowRate ==
  /\ cur = NoOp /\ refresh /\ Settles /\ Settled
  /\ \/ wallet = None /\ refresh' = FALSE /\ rt' = Reconciled /\ UNCHANGED cur
     \/ /\ wallet # None /\ rt' = UpdateOutflowBudget(Reconciled)
        /\ cur' = [NoOp EXCEPT !.kind = "rate", !.ph = "unclaimed", !.prev = Reconciled, !.bal = wallet]
        /\ UNCHANGED refresh
  /\ UNCHANGED <<disk, timer, grants, acked, env>>
NewRate(r) == [rt EXCEPT !.rate = r, !.rateTime = now]
Effective(u) == IF cur.bal > u THEN cur.bal - u ELSE 0
UnclaimedBalance ==
  /\ cur.ph = "unclaimed"
  /\ \/ \E u \in Unclaimed :
          LET z == NewRate(Effective(u)) IN
          /\ rt' = z /\ cur' = [cur EXCEPT !.ph = "write", !.next = z] /\ UNCHANGED <<refresh, faults>>
     \/ /\ faults < MaxFaults /\ faults' = faults + 1
        /\ rt' = cur.prev /\ cur' = NoOp /\ refresh' = FALSE
  /\ UNCHANGED <<disk, own, timer, wallet, grants, now, since, asked, acked, stops>>

\* stopModule waits for the refresh and saves the state.
Stop ==
  /\ cur = NoOp /\ ~refresh /\ grants = 0 /\ Settles /\ stops < MaxStops /\ stops' = stops + 1
  /\ rt' = Reconciled /\ Settled /\ timer' = FALSE
  /\ cur' = [NoOp EXCEPT !.kind = "stop", !.ph = "write", !.prev = Reconciled, !.next = Reconciled]
  /\ UNCHANGED <<disk, refresh, wallet, grants, now, since, asked, acked, faults>>

-----------------------------------------------------------------------------
(* persistOutflowState *)

Ends(z) ==
  /\ cur' = NoOp
  /\ rt' = IF cur.kind = "stop" THEN None ELSE z
  /\ refresh' = IF cur.kind = "rate" THEN FALSE ELSE refresh
Succeeds(z) == Ends(z) /\ acked' = IF cur.kind = "reward" THEN acked + 1 ELSE acked
Fails(z) == Ends(z) /\ UNCHANGED acked
Write ==
  /\ cur.ph = "write"
  /\ \/ /\ disk' = Entry(cur.next) /\ own' = Certain(Json(cur.next))
        /\ Succeeds(rt) /\ UNCHANGED faults
     \/ /\ faults < MaxFaults /\ faults' = faults + 1
        /\ disk' \in {disk, Entry(cur.next)}
        /\ own' = [kind |-> "uncertain", json |-> own.json, prev |-> cur.prev, next |-> cur.next]
        /\ cur' = [cur EXCEPT !.ph = "readback"] /\ UNCHANGED <<rt, refresh, acked>>
  /\ UNCHANGED <<timer, wallet, grants, now, since, asked, stops>>
Observe ==
  IF Stored = Json(cur.next) THEN own' = Certain(Stored) /\ Succeeds(cur.next)
  ELSE own' = Certain(Stored) /\ Fails(cur.prev)
ReadBack ==
  /\ cur.ph = "readback"
  /\ \/ Observe /\ UNCHANGED faults
     \/ faults < MaxFaults /\ faults' = faults + 1 /\ Fails(rt) /\ UNCHANGED own
  /\ UNCHANGED <<disk, timer, wallet, grants, now, since, asked, stops>>

-----------------------------------------------------------------------------
WalletBalance ==
  /\ \E b \in Balances : b # wallet /\ wallet' = b
  /\ UNCHANGED <<rt, disk, own, cur, timer, refresh, grants, now, since, asked, acked, faults, stops>>
Tick ==
  /\ now < MaxTime /\ now' = now + 1
  /\ UNCHANGED <<rt, disk, own, cur, timer, refresh, wallet, grants, since, asked, acked, faults, stops>>
Crash ==
  /\ rt # None /\ stops < MaxStops /\ stops' = stops + 1
  /\ rt' = None /\ own' = Certain(None) /\ cur' = NoOp /\ timer' = FALSE /\ refresh' = FALSE /\ grants' = 0
  /\ UNCHANGED <<disk, wallet, now, since, asked, acked, faults>>

Next ==
  \/ Start \/ RestoreComplete \/ RefreshTimer \/ BeginFails \/ Grant \/ SessionRewarded
  \/ ComputeOutflowRate \/ UnclaimedBalance \/ Stop \/ Write \/ ReadBack \/ WalletBalance \/ Tick \/ Crash

Spec == Init /\ [][Next]_vars

\* The steps that are weakly fair. The process is restarted, the timer fires and the
\* queue advances.
Weak == {"start", "restore", "timer", "unclaimed", "write", "read", "reward", "wallet"} \X {0}
WeakStep(k) ==
  CASE k[1] = "start" -> Start
    [] k[1] = "restore" -> RestoreComplete
    [] k[1] = "timer" -> RefreshTimer
    [] k[1] = "unclaimed" -> UnclaimedBalance
    [] k[1] = "write" -> Write
    [] k[1] = "read" -> ReadBack
    [] k[1] = "reward" -> SessionRewarded
    [] k[1] = "wallet" -> wallet = None /\ WalletBalance
\* Strongly fair are those that others may disable now and then: the queue gets to them.
Strong == {"timer"}
StrongStep(k) == k \in Strong /\ ComputeOutflowRate

-----------------------------------------------------------------------------
MaxRate == CHOOSE m \in Balances : \A b \in Balances : b <= m

TypeOK ==
  /\ rt = None \/ (rt.budget \in Int /\ rt.time \in 0..MaxTime /\ rt.rate \in Nat \cup {None})
  /\ disk = None \/ (disk.budget \in Int /\ disk.time \in 0..MaxTime)
  /\ own.kind \in {"certain", "uncertain"}
  /\ cur.ph \in {"none", "unclaimed", "write", "readback"}
  /\ timer \in BOOLEAN /\ refresh \in BOOLEAN /\ wallet \in Balances \cup {None}
  /\ grants \in 0..MaxGrants

\* A budget that was saved up is lost with the process: it never exceeds what was
\* gained since the start, nor the burst window, whatever was stored and rolled back.
BurstIsBounded ==
  rt # None => rt.budget <= MaxRate * (now - since) /\ rt.budget <= MaxRate * BurstWindow

\* The debt is bounded: beyond the cutoff only rewards that had their factor
\* computed before are still booked.  A failed write takes back, with the state that
\* it restores, the gain the factor was computed from.
DebtIsBounded == rt # None /\ faults = 0 => rt.budget >= -(MaxRate * CutoffWindow + MaxGrants)

\* A reward whose booking was reported as done stays booked over restarts, and
\* none is booked twice.
RewardsAreStored == IF disk = None THEN acked = 0 ELSE acked <= disk.spent /\ disk.spent <= asked

\* The long-run rate is kept: what was rewarded and is left never exceeds what the
\* highest rate yields from the first start on.
RateIsConserved == rt # None => rt.budget + rt.spent <= MaxRate * now

\* The rate is refreshed again and again, so that a rate that went stale while the
\* database or the RPC failed becomes usable again.
RateIsFresh == rt # None /\ rt.rate # None /\ rt.rateTime = now
=============================================================================
