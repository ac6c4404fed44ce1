-------------------------- MODULE MCPayouts --------------------------
(***************************************************************************)
(* Instances of the parts that decide what is paid out and how: the wallet *)
(* with its refill, the pool of RPC endpoints, the two outflow limits, the *)
(* grants per person of the login modules, and vouchers.                   *)
(***************************************************************************)
EXTENDS Slots, TLC

CONSTANTS
  s1, s2, s3, u1, u2

Wallet == INSTANCE EthWallet WITH
  Claim <- {"c1", "c2", "c3"}, Token <- FALSE, Funds <- 12, Amount <- 3, MaxFee <- 2, Spare <- 0,
  EthMaxPending <- 2, Trigger <- 3, Overflow <- 3, RequestAmount <- 2, MaxRefills <- 1,
  MaxFaults <- 1,
  chain <- x1, w <- x2, tx <- x3, refill <- x4, task <- x5, read <- x6, drift <- x7, refills <- x8,
  faults <- x9
Rpc == INSTANCE RpcEndpointPool WITH
  Endpoint <- {"e1", "e2"}, Priority <- [e \in {"e1", "e2"} |-> IF e = "e2" THEN 2 ELSE 1],
  Position <- [e \in {"e1", "e2"} |-> IF e = "e1" THEN 1 ELSE 2],
  MaxDiff <- 1, BroadcastCount <- 1, MaxHeight <- 3, MaxChecks <- 2, MaxEvents <- 1,
  remote <- x1, ep <- x2, checks <- x3, timers <- x4, disposed <- x5, sent <- x6, events <- x7
Outflow == INSTANCE FaucetOutflow WITH
  Claim <- {u1, u2}, Durations <- {2, 3}, Amount <- 1, MaxDebt <- 1, UpperLimit <- 1,
  MarkerLimit <- 2, MaxTime <- 2, MaxRewards <- 1, MaxFaults <- 1, MaxCrashes <- 1, Unit <- 6,
  None <- Unused,
  rt <- x1, disk <- x2, own <- x3, unsure <- x4, cur <- x5, claim <- x6, now <- x7, asked <- x8,
  acked <- x9, faults <- x10, crashes <- x11
Dynamic == INSTANCE DynamicOutflow WITH
  Balances <- {1, 2}, Unclaimed <- {0, 2}, BurstWindow <- 1, CutoffWindow <- 1, StaleTime <- 1,
  MaxGrants <- 1, MaxRewards <- 4, MaxTime <- 2, MaxFaults <- 1, MaxStops <- 1, None <- Unused,
  rt <- x1, disk <- x2, own <- x3, cur <- x4, timer <- x5, refresh <- x6, wallet <- x7,
  grants <- x8, now <- x9, since <- x10, asked <- x11, acked <- x12, faults <- x13, stops <- x14
Counts == INSTANCE PrincipalGrants WITH
  Session <- {s1, s2, s3}, Person <- {u1, u2}, Email <- "email", LimitCount <- 1, LimitAmount <- 0,
  ConcurrencyLimit <- 2, MaxDrop <- 1, Override <- 2, MaxCrashes <- 1, None <- Unused,
  module <- x1, required <- x2, who <- x3, stage <- x4, order <- x5, nextOrder <- x6,
  ceiling <- x7, usage <- x8, finished <- x9, granted <- x10, row <- x11, drop <- x12, link <- x13,
  crashes <- x14
Amounts == INSTANCE PrincipalGrants WITH
  Session <- {s1, s2, s3}, Person <- {u1, u2}, Email <- "email", LimitCount <- 0, LimitAmount <- 3,
  ConcurrencyLimit <- 0, MaxDrop <- 1, Override <- 2, MaxCrashes <- 1, None <- Unused,
  module <- x1, required <- x2, who <- x3, stage <- x4, order <- x5, nextOrder <- x6,
  ceiling <- x7, usage <- x8, finished <- x9, granted <- x10, row <- x11, drop <- x12, link <- x13,
  crashes <- x14
Vouchers == INSTANCE Voucher WITH
  Code <- {u1, u2}, Session <- {s1, s2, s3}, MaxFaults <- 2, MaxCrashes <- 1,
  v <- x1, row <- x2, code <- x3, p <- x4, begun <- x5, paid <- x6, active <- x7, faults <- x8,
  crashes <- x9

ASSUME BoundsAssumption ==
  /\ Wallet!WalletAssumption /\ Rpc!PoolAssumption /\ Outflow!PolicyAssumption /\ Dynamic!WindowAssumption
  /\ Counts!GrantAssumption /\ Amounts!GrantAssumption /\ Vouchers!VoucherAssumption

\* Sessions are interchangeable, and so are claims, persons and codes.
Symmetry == Permutations({s1, s2, s3}) \cup Permutations({u1, u2})

Init ==
  \/ part = "wallet" /\ Wallet!Init /\ UnusedAfter(9)
  \/ part = "rpc" /\ Rpc!Init /\ UnusedAfter(7)
  \/ part = "outflow" /\ Outflow!Init /\ UnusedAfter(11)
  \/ part = "dynamic" /\ Dynamic!Init /\ UnusedAfter(14)
  \/ part = "counts" /\ Counts!Init /\ UnusedAfter(14)
  \/ part = "amounts" /\ Amounts!Init /\ UnusedAfter(14)
  \/ part = "voucher" /\ Vouchers!Init /\ UnusedAfter(9)
Next ==
  /\ UNCHANGED part
  /\ \/ part = "wallet" /\ Wallet!Next /\ KeepAfter(9)
     \/ part = "rpc" /\ Rpc!Next /\ KeepAfter(7)
     \/ part = "outflow" /\ Outflow!Next /\ KeepAfter(11)
     \/ part = "dynamic" /\ Dynamic!Next /\ KeepAfter(14)
     \/ part = "counts" /\ Counts!Next /\ KeepAfter(14)
     \/ part = "amounts" /\ Amounts!Next /\ KeepAfter(14)
     \/ part = "voucher" /\ Vouchers!Next /\ KeepAfter(9)
Spec == Init /\ [][Next]_all

-----------------------------------------------------------------------------
\* Claims in flight are covered by the funds on the chain, the wallet promises no more than that, and
\* the transactions use consecutive nonces, each once, beside refreshes and refills.
ClaimsAreCovered ==
  part = "wallet" => Wallet!TypeOK /\ Wallet!Covered /\ Wallet!NoOverestimate /\ Wallet!NoncesDense

\* An endpoint the wallet reads from is current, transactions go to ready endpoints, a check leaves
\* one ready, and a disposed pool holds no connection: in whatever order answers and events arrive.
ReadyIsCurrent ==
  /\ [](part = "rpc" => Rpc!TypeOK /\ Rpc!ReadyIsCurrent /\ Rpc!DisposedIsClosed)
  /\ [][part = "rpc" => Rpc!SentToReadyStep /\ Rpc!CheckLeavesReadyStep]_all

\* The outflow balance stays exact over writes whose outcome is unknown, rollbacks and crashes: the
\* fee of a claim is taken once, an acknowledged reward is stored, and none is booked twice.
BalanceIsExact ==
  part = "outflow" =>
    /\ Outflow!TypeOK /\ Outflow!BalanceIsExact /\ Outflow!FeeOnce /\ Outflow!RewardsAreStored
    /\ Outflow!RuntimeFollowsEntry /\ Outflow!MarkersHaveSessions

\* The dynamic budget never exceeds its burst window nor what the highest rate yields, its debt is
\* bounded, and an acknowledged reward stays booked over restarts.
RateIsConserved ==
  part = "dynamic" =>
    /\ Dynamic!TypeOK /\ Dynamic!BurstIsBounded /\ Dynamic!DebtIsBounded /\ Dynamic!RewardsAreStored
    /\ Dynamic!RateIsConserved

\* A person gets no more sessions, concurrent sessions or funds than the grant allows, although
\* sessions start, commit and are restored while the database is asked.
GrantsAreLimited ==
  /\ part = "counts" => Counts!TypeOK /\ Counts!CountIsLimited /\ Counts!ConcurrencyIsLimited
  /\ part = "amounts" => Amounts!AmountIsLimited

\* A code pays at most once, a session that may be paid holds its code, and no code or session row is
\* left unusable: over failed statements, takeovers, cleanups and crashes.
PaysOnce ==
  part = "voucher" =>
    /\ Vouchers!TypeOK /\ Vouchers!PaysOnce /\ Vouchers!LiveSessionHoldsCode /\ Vouchers!RowsAreValid
    /\ Vouchers!EndedIsCleanable /\ Vouchers!LeaseIsOwned
=============================================================================
