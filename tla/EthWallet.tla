----------------------------- MODULE EthWallet -----------------------------
(***************************************************************************)
(* eth/EthWalletManager.ts and EthWalletRefill.ts: the balances and the    *)
(* nonce the faucet keeps of its wallet, against the chain.  The queue     *)
(* task of EthClaimManager signs and reserves claims, refreshes the wallet *)
(* state and refills it, one at a time; broadcasts and receipts of claims  *)
(* go on beside it.  The database and the claim records are the subject of *)
(* EthClaimManager.tla; here storing a claim succeeds or fails.            *)
(***************************************************************************)
EXTENDS Integers, FiniteSets, FiniteSetsExt

CONSTANTS
  Claim,            \* queued claims
  Token,            \* the faucet pays an ERC20 token
  Funds,            \* balances of the wallet at the start
  Amount, MaxFee,   \* amount of a claim; gas limit times maximum fee
  Spare,            \* spareFundsAmount
  EthMaxPending,    \* faucetConfig.ethMaxPending
  Trigger, Overflow, RequestAmount,  \* ethRefillContract
  MaxRefills, MaxFaults              \* bounds

WalletAssumption ==
  /\ {Funds, Amount, MaxFee, Spare, EthMaxPending, Trigger, Overflow, RequestAmount, MaxRefills, MaxFaults} \subseteq Nat
  /\ Token \in BOOLEAN

VARIABLES
  chain,    \* [coin, native, nonce] of the wallet on the chain
  w,        \* walletState
  tx,       \* claim -> [st, nonce, on, fee]
  refill,   \* the last refill transaction
  task,     \* the queue task: [pc, claim]
  read,     \* what a refresh in progress has read
  drift,    \* why the wallet state may differ from the chain
  refills, faults

vars == <<chain, w, tx, refill, task, read, drift, refills, faults>>

Idle == [pc |-> "idle", claim |-> CHOOSE c \in Claim : TRUE]
NoRefill == [kind |-> "none", nonce |-> 0, amount |-> 0, on |-> "none", fee |-> 0]
NoRead == [on |-> FALSE, coin |-> 0, native |-> 0, nonce |-> 0, clean |-> FALSE]

Init ==
  /\ chain = [coin |-> Funds, native |-> Funds, nonce |-> 0]
  /\ w = [ready |-> TRUE, nonce |-> 0, coin |-> Funds, native |-> Funds]
  /\ tx = [c \in Claim |-> [st |-> "queued", nonce |-> 0, on |-> "none", fee |-> 0]]
  /\ refill = NoRefill
  /\ task = Idle
  /\ read = NoRead
  /\ drift = {}
  /\ refills = 0 /\ faults = 0

Reserved == {c \in Claim : tx[c].st \in {"reserved", "pending"}}
Pending == {c \in Claim : tx[c].st = "pending"}
Fault == faults < MaxFaults /\ faults' = faults + 1

-----------------------------------------------------------------------------
\* What a claim costs in the faucet's coin and in the native coin.
CoinCost == Amount + (IF Token THEN 0 ELSE MaxFee)
NativeCost == MaxFee + (IF Token THEN 0 ELSE Amount)

ApplyClaimReservation(s, direction) ==
  [s EXCEPT !.coin = @ + direction * CoinCost, !.native = @ + direction * NativeCost]

\* Mutant: the spare amount is checked, the amount of the claim is not.
SpareOnly == w.coin >= Spare /\ w.native > 0
CanReserveClaimTx == w.coin - Spare >= CoinCost /\ w.native >= NativeCost

ReserveClaimTx(c) ==
  ApplyClaimReservation([w EXCEPT !.nonce = Max({@, tx[c].nonce + 1})], -1)

\* releaseClaimTx: gives back the fee that was not spent, and the amount of a reverted claim.
ReleaseClaimTx(outcome, fee) ==
  [w EXCEPT !.native = @ + (MaxFee - fee) + (IF ~Token /\ outcome = "reverted" THEN Amount ELSE 0),
            !.coin = @ + (IF Token THEN 0 ELSE MaxFee - fee) + (IF outcome = "reverted" THEN Amount ELSE 0)]

\* A transaction of the wallet takes its value and fee from the chain's balances.
Debit(value, token, fee) ==
  [coin |-> chain.coin - token - (IF Token THEN 0 ELSE value + fee),
   native |-> chain.native - value - fee, nonce |-> chain.nonce + 1]

-----------------------------------------------------------------------------
\* prepareClaimTx: signs with the wallet's next nonce.
Sign(c) ==
  /\ task.pc = "idle" /\ tx[c].st = "queued"
  /\ w.ready /\ Cardinality(Pending) < EthMaxPending
  /\ tx' = [tx EXCEPT ![c].st = "signed", ![c].nonce = w.nonce]
  /\ task' = [pc |-> "signing", claim |-> c]
  /\ UNCHANGED <<chain, w, refill, read, drift, refills, faults>>

\* The claim is reserved when the funds cover it, else it fails.
Reserve ==
  /\ task.pc = "signing"
  /\ LET c == task.claim IN
     IF CanReserveClaimTx
     THEN /\ w' = ReserveClaimTx(c)
          /\ tx' = [tx EXCEPT ![c].st = "reserved"]
          /\ task' = [task EXCEPT !.pc = "storing"]
     ELSE /\ tx' = [tx EXCEPT ![c].st = "failed"]
          /\ task' = Idle
          /\ UNCHANGED w
  /\ UNCHANGED <<chain, refill, read, drift, refills, faults>>

\* The prepared claim is stored; when that fails its reservation is cancelled, its nonce not.
Store ==
  /\ task.pc = "storing"
  /\ LET c == task.claim IN
     \/ /\ tx' = [tx EXCEPT ![c].st = "pending"]
        /\ UNCHANGED <<w, drift, faults>>
     \/ /\ Fault
        /\ tx' = [tx EXCEPT ![c].st = "failed"]
        /\ w' = ApplyClaimReservation(w, 1)
        /\ drift' = drift \cup {"cancelled"}
  /\ task' = Idle
  /\ UNCHANGED <<chain, refill, read, refills>>

\* broadcastClaimTx: some endpoint accepts the stored transaction.
Broadcast(c) ==
  /\ tx[c].st = "pending" /\ tx[c].on = "none" /\ tx[c].nonce >= chain.nonce
  /\ tx' = [tx EXCEPT ![c].on = "pool"]
  /\ UNCHANGED <<chain, w, refill, task, read, drift, refills, faults>>

\* The chain executes an accepted claim it can pay for.
Mine(c, fee, outcome) ==
  /\ tx[c].on = "pool" /\ tx[c].nonce = chain.nonce
  /\ chain.native >= NativeCost /\ chain.coin >= CoinCost
  /\ tx' = [tx EXCEPT ![c].on = outcome, ![c].fee = fee]
  /\ chain' = IF outcome = "reverted" THEN Debit(0, 0, fee)
              ELSE IF Token THEN Debit(0, Amount, fee) ELSE Debit(Amount, 0, fee)
  /\ UNCHANGED <<w, refill, task, read, drift, refills, faults>>

\* The receipt of a claim is processed and its reservation released.
Settle(c) ==
  /\ tx[c].st = "pending" /\ tx[c].on \in {"transferred", "reverted"}
  /\ w' = ReleaseClaimTx(tx[c].on, tx[c].fee)
  /\ tx' = [tx EXCEPT ![c].st = "done"]
  /\ drift' = IF read.on THEN drift \cup {"raced"} ELSE drift
  /\ UNCHANGED <<chain, refill, task, read, refills, faults>>

-----------------------------------------------------------------------------
\* The nonce an endpoint reports with its pool.
PooledNonces == {tx[c].nonce : c \in {d \in Claim : tx[d].on = "pool"}}
                  \cup (IF refill.on = "pool" THEN {refill.nonce} ELSE {})
PendingNonce == Min({n \in chain.nonce..(chain.nonce + Cardinality(Claim) + 2) : n \notin PooledNonces})

\* loadWalletState: the requests are sent, by the queue task only while no claim is pending.
Refresh ==
  /\ \/ task.pc = "idle" /\ Pending = {} /\ task' = [task EXCEPT !.pc = "refreshing"]
     \/ task.pc = "reload" /\ task' = [task EXCEPT !.pc = "reloading"]
  /\ read' = [on |-> TRUE, coin |-> chain.coin, native |-> chain.native, nonce |-> PendingNonce,
             clean |-> refill.on # "pool"]
  /\ UNCHANGED <<chain, w, tx, refill, drift, refills, faults>>

\* The answers replace the wallet state; the reservations are applied to them again.
LoadedWallet ==
  [ready |-> TRUE,
   nonce |-> Max({read.nonce} \cup {tx[c].nonce + 1 : c \in Reserved}),
   coin |-> read.coin - Cardinality(Reserved) * CoinCost,
   native |-> read.native - Cardinality(Reserved) * NativeCost]

Refreshed ==
  /\ task.pc \in {"refreshing", "reloading"}
  /\ \/ /\ w' = LoadedWallet
        /\ drift' = IF task.pc = "refreshing" /\ read.clean THEN {} ELSE drift
        /\ UNCHANGED faults
     \/ /\ Fault
        /\ w' = [ready |-> FALSE, nonce |-> 0, coin |-> 0, native |-> 0]
        /\ UNCHANGED drift
  /\ task' = Idle /\ read' = NoRead
  /\ UNCHANGED <<chain, tx, refill, refills>>

-----------------------------------------------------------------------------
\* getQueuedAmount of the claim manager.
QueuedAmount == Amount * Cardinality({c \in Claim : tx[c].st \in {"queued", "pending"}})

RefillBalance(unclaimed) == w.coin - unclaimed - QueuedAmount

\* refillWallet: asks the vault for as much as its allowance and its balance grant.
RefillWallet(amount) ==
  refill' = [NoRefill EXCEPT !.kind = "refill", !.nonce = w.nonce, !.amount = amount]

\* overflowWallet: forwards what exceeds the overflow balance.
OverflowWallet(amount) ==
  refill' = [NoRefill EXCEPT !.kind = "overflow", !.nonce = w.nonce, !.amount = amount]

\* tryRefillWallet, with what the running sessions have not claimed yet.
TryRefillWallet(unclaimed) ==
  /\ task.pc = "idle" /\ w.ready /\ refills < MaxRefills /\ refill.on # "pool"
  /\ LET b == RefillBalance(unclaimed) IN
     \/ b > Overflow /\ OverflowWallet(b - Overflow)
     \/ b <= Overflow /\ b < Trigger /\ \E amount \in 1..RequestAmount : RefillWallet(amount)
  /\ refills' = refills + 1
  /\ task' = [task EXCEPT !.pc = "sending"]
  /\ UNCHANGED <<chain, w, tx, read, drift, faults>>

SentNonce == [w EXCEPT !.nonce = @ + 1]
\* sendCustomTx: the broadcast is answered, or fails although the pool may hold the transaction.
SendCustomTx ==
  /\ task.pc = "sending"
  /\ \/ /\ refill' = [refill EXCEPT !.on = "pool"]
        /\ w' = SentNonce
        /\ task' = [task EXCEPT !.pc = "awaiting"]
        /\ UNCHANGED <<drift, faults>>
     \/ /\ Fault
        /\ \/ refill' = [refill EXCEPT !.on = "pool"] /\ drift' = drift \cup {"unacknowledged"}
           \/ UNCHANGED <<refill, drift>>
        /\ task' = Idle
        /\ UNCHANGED w
  /\ UNCHANGED <<chain, tx, read, refills>>

\* The chain executes the refill transaction.
MineRefill(fee, ok) ==
  /\ refill.on = "pool" /\ refill.nonce = chain.nonce
  /\ chain.native >= MaxFee + (IF refill.kind = "overflow" THEN refill.amount ELSE 0)
  /\ refill' = [refill EXCEPT !.on = IF ok THEN "ok" ELSE "reverted", !.fee = fee]
  /\ chain' = LET d == Debit(IF ok /\ refill.kind = "overflow" THEN refill.amount ELSE 0, 0, fee)
              IN  IF ok /\ refill.kind = "refill"
                  THEN [d EXCEPT !.coin = @ + refill.amount, !.native = @ + (IF Token THEN 0 ELSE refill.amount)]
                  ELSE d
  /\ UNCHANGED <<w, tx, task, read, drift, refills, faults>>

\* The receipt of the refill: its fee is booked and the wallet state is loaded again.
RefillReceipt ==
  /\ task.pc = "awaiting"
  /\ \/ /\ refill.on \in {"ok", "reverted"}
        /\ w' = [w EXCEPT !.native = @ - refill.fee, !.coin = @ - (IF Token THEN 0 ELSE refill.fee)]
        /\ task' = IF refill.on = "ok" THEN [task EXCEPT !.pc = "reload"] ELSE Idle
        /\ UNCHANGED <<drift, faults>>
     \/ /\ Fault /\ task' = Idle /\ drift' = drift \cup {"receipt"} /\ UNCHANGED w
  /\ UNCHANGED <<chain, tx, refill, read, refills>>

Next ==
  \/ \E c \in Claim : Sign(c) \/ Broadcast(c) \/ Settle(c)
                      \/ \E fee \in 1..MaxFee, o \in {"transferred", "reverted"} : Mine(c, fee, o)
  \/ Reserve \/ Store \/ Refresh \/ Refreshed \/ SendCustomTx \/ RefillReceipt
  \/ \E u \in {0, Amount} : TryRefillWallet(u)
  \/ \E fee \in 1..MaxFee, ok \in BOOLEAN : MineRefill(fee, ok)

Spec == Init /\ [][Next]_vars

-----------------------------------------------------------------------------
TypeOK ==
  /\ chain \in [coin : Nat, native : Nat, nonce : Nat]
  /\ w.ready \in BOOLEAN /\ w.nonce \in Nat /\ w.coin \in Int /\ w.native \in Int
  /\ \A c \in Claim : /\ tx[c].st \in {"queued", "signed", "reserved", "pending", "done", "failed"}
                      /\ tx[c].on \in {"none", "pool", "transferred", "reverted"}
  /\ task.pc \in {"idle", "signing", "storing", "refreshing", "sending", "awaiting", "reload", "reloading"}
  /\ drift \subseteq {"cancelled", "raced", "unacknowledged", "receipt"}

Unmined == {c \in Reserved : tx[c].on \notin {"transferred", "reverted"}}

\* Every claim in flight is covered by the funds on the chain, in both assets, unless a
\* refresh raced with a settlement or the outcome of a refill transaction is unknown:
\* otherwise a signed claim could wait for funds for ever.
Covered ==
  drift \cap {"raced", "unacknowledged", "receipt"} = {} =>
    /\ Cardinality(Unmined) * CoinCost <= chain.coin
    /\ Cardinality(Unmined) * NativeCost <= chain.native

\* The wallet state never promises more than the chain holds beyond the claims in flight
\* while no refill is under way.
NoOverestimate ==
  (drift \cap {"raced", "unacknowledged", "receipt"} = {} /\ w.ready /\ task.pc \notin {"awaiting", "reload", "reloading"}) =>
    /\ w.coin <= chain.coin - Cardinality(Unmined) * CoinCost
    /\ w.native <= chain.native - Cardinality(Unmined) * NativeCost

\* The transactions in flight use consecutive nonces from the chain's next one, each once,
\* and the wallet's nonce is the next: unless a stored claim was cancelled or an answer of
\* the endpoint was lost, no transaction waits behind a gap or competes for a nonce.
NoncesDense ==
  (drift = {} /\ w.ready) =>
    LET mine == {tx[c].nonce : c \in Unmined} \cup (IF refill.on = "pool" THEN {refill.nonce} ELSE {})
        count == Cardinality(Unmined) + (IF refill.on = "pool" THEN 1 ELSE 0)
    IN  mine = chain.nonce..(chain.nonce + count - 1) /\ w.nonce = chain.nonce + count
=============================================================================
