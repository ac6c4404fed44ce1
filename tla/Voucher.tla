------------------------------ MODULE Voucher ------------------------------
(***************************************************************************)
(* modules/voucher: voucher codes that are leased by a starting session,   *)
(* consumed when it completes, and given back when it fails.  Every SQL    *)
(* statement is a step; the starts of several sessions, the cleanup of old *)
(* sessions and crashes interleave between them.  A code given back leaves *)
(* a receipt in its row so that the cleanup of the failed session can be   *)
(* resumed by whoever finds it.  Hashes of session data are represented by *)
(* the session itself, its start time is part of its identity.             *)
(***************************************************************************)
EXTENDS Integers, FiniteSets, FiniteSetTheorems, TLAPS

CONSTANTS Code, Session, MaxFaults, MaxCrashes

\* The names of the cleaner and of no session are none of a session.
Cleaner == "cleaner"
None == "none"

VoucherAssumption ==
  {MaxFaults, MaxCrashes} \subseteq Nat /\ None \notin Session /\ Cleaner \notin Session

VARIABLES
  v,       \* Vouchers: [sid, target, rc] with rc the cleanup receipt
  row,     \* Sessions: [st, claim]
  code,    \* the code a session was started with, voucherCode of its data
  p,       \* the operation of each session and of the cleaner: [pc, cand, snap, ret]
  begun,   \* sessions that were started: every start has a new identity
  paid,    \* sessions whose claim was confirmed
  active,  \* the module is activated: orphaned leases are reconciled
  faults, crashes

vars == <<v, row, code, p, begun, paid, active, faults, crashes>>

Process == Session \cup {Cleaner}
NoReceipt == [sid |-> None, st |-> None, expected |-> None]
NoRow == [st |-> "none", claim |-> "none"]
Free == [sid |-> None, target |-> FALSE, rc |-> NoReceipt]
Idle == [pc |-> "idle", cand |-> None, snap |-> Free, ret |-> None]

Init ==
  /\ v = [c \in Code |-> Free]
  /\ row = [s \in Session |-> NoRow]
  /\ code \in [Session -> Code]
  /\ p = [q \in Process |-> Idle]
  /\ begun = {} /\ paid = {} /\ active = TRUE /\ faults = 0 /\ crashes = 0

\* VoucherState of a row.
VoucherState(x) == IF x.sid = None THEN "available" ELSE IF x.target THEN "consumed" ELSE "leased"
OwnedCodes(s) == {c \in Code : v[c].sid = s}
Go(q, pc) == p' = [p EXCEPT ![q].pc = pc]
End(q) == p' = [p EXCEPT ![q] = Idle]

\* A statement that raises an error was executed or not.
Succeeds(effect) == effect /\ UNCHANGED faults
Fails(effect, same) == faults < MaxFaults /\ faults' = faults + 1 /\ (effect \/ same)

-----------------------------------------------------------------------------
\* Sessions with a terminal status and no claim that may still pay.
Eligible(s) ==
  \/ row[s].st = "failed" /\ row[s].claim \in {"none", "failed", "reverted"}
  \/ row[s].st = "finished" /\ row[s].claim \in {"none", "confirmed"}

ValidPair(x) ==
  \/ x.rc = NoReceipt
  \/ x.rc.st = "failed" /\ VoucherState(x) = "available"
  \/ x.rc.st = "finished" /\ VoucherState(x) = "consumed" /\ x.sid = x.rc.sid

\* isValidCleanupReceiptReplay: the receipt is the one the cleanup of session s leaves.
ValidReplay(x, s) ==
  /\ x.rc # NoReceipt /\ ValidPair(x) /\ x.rc.sid = s /\ x.rc.st = row[s].st
  /\ IF row[s].st = "failed" THEN VoucherState(x) = "available" /\ OwnedCodes(s) = {}
     ELSE VoucherState(x) = "consumed" /\ x.sid = s /\ OwnedCodes(s) = {code[s]}

-----------------------------------------------------------------------------
\* processSessionStart: a session is started with a code.
Start(s) ==
  /\ active /\ s \notin begun
  /\ begun' = begun \cup {s}
  /\ Go(s, "read")
  /\ UNCHANGED <<v, row, code, paid, active, faults, crashes>>

\* reserveVoucher: the snapshot decides between a free code, one with the receipt of a failed
\* session, and one that a failed session still holds.
ReserveRead(s) ==
  /\ p[s].pc = "read"
  /\ LET x == v[code[s]] IN
     IF ~ValidPair(x) \/ OwnedCodes(s) # {} \/ row[s] # NoRow THEN End(s)
     ELSE p' = [p EXCEPT ![s].snap = x,
                 ![s].pc = CASE VoucherState(x) = "available" /\ x.rc = NoReceipt -> "cas"
                             [] VoucherState(x) = "available" /\ x.rc # NoReceipt -> "receipt"
                             [] VoucherState(x) # "available" /\ x.rc = NoReceipt -> "failed"
                             [] OTHER -> "end"]
  /\ UNCHANGED <<v, row, code, begun, paid, active, faults, crashes>>

\* finishFailedReceiptCleanup: the failed session of the receipt is cleaned up first.
ReserveReceipt(s) ==
  /\ p[s].pc = "receipt"
  /\ LET t == p[s].snap.rc.sid IN
     IF OwnedCodes(t) # {} THEN End(s)
     ELSE IF row[t].st = "failed" /\ Eligible(t)
     THEN IF code[t] = code[s] /\ ValidReplay(p[s].snap, t)
          THEN p' = [p EXCEPT ![s].pc = "guard", ![s].cand = t, ![s].ret = "cas"]
          ELSE End(s)
     ELSE IF row[t] = NoRow THEN Go(s, "cas") ELSE End(s)
  /\ UNCHANGED <<v, row, code, begun, paid, active, faults, crashes>>

HasFailed(t) == row[t].st = "failed" /\ Eligible(t)

\* A code held by a failed session is taken over after that session is cleaned up.
ReserveFailed(s) ==
  /\ p[s].pc = "failed"
  /\ LET t == p[s].snap.sid IN
     IF HasFailed(t) /\ code[t] = code[s] /\ OwnedCodes(t) = {code[t]}
     THEN p' = [p EXCEPT ![s].pc = "release", ![s].cand = t, ![s].ret = "read"]
     ELSE End(s)
  /\ UNCHANGED <<v, row, code, begun, paid, active, faults, crashes>>

\* The predicate of the reservation's UPDATE.
Reservable(s) ==
  /\ v[code[s]].sid = None /\ v[code[s]].rc = p[s].snap.rc
  /\ p[s].snap.rc # NoReceipt => row[p[s].snap.rc.sid] = NoRow /\ OwnedCodes(p[s].snap.rc.sid) = {}
  /\ OwnedCodes(s) = {} /\ row[s] = NoRow

\* runReservationCas; after an error or without a change the row tells whether it was applied.
ReserveCas(s) ==
  /\ p[s].pc = "cas"
  /\ LET lease == v' = [v EXCEPT ![code[s]] = [Free EXCEPT !.sid = s]] IN
     IF Reservable(s)
     THEN \/ lease /\ Go(s, "reserved") /\ UNCHANGED faults
          \/ lease /\ Go(s, "casread") /\ faults < MaxFaults /\ faults' = faults + 1
          \/ UNCHANGED v /\ Go(s, "casread") /\ faults < MaxFaults /\ faults' = faults + 1
     ELSE UNCHANGED <<v, faults>> /\ Go(s, "casread")
  /\ UNCHANGED <<row, code, begun, paid, active, crashes>>

ReserveReconcile(s) ==
  /\ p[s].pc = "casread"
  /\ IF v[code[s]] = [Free EXCEPT !.sid = s] THEN Go(s, "reserved") ELSE End(s)
  /\ UNCHANGED <<v, row, code, begun, paid, active, faults, crashes>>

-----------------------------------------------------------------------------
\* The start of the session goes on: it is stored, or fails and rolls its reservation back.
StoreSession(s) ==
  /\ p[s].pc = "reserved"
  /\ row' = [row EXCEPT ![s] = [st |-> "running", claim |-> "none"]]
  /\ End(s)
  /\ UNCHANGED <<v, code, begun, paid, active, faults, crashes>>

\* releaseLease.
Released(s) == IF v[code[s]] = [Free EXCEPT !.sid = s] THEN Free ELSE v[code[s]]

Rollback(s) ==
  /\ p[s].pc = "reserved"
  /\ LET freed == v' = [v EXCEPT ![code[s]] = Released(s)] IN
     Succeeds(freed) \/ Fails(freed, UNCHANGED v)
  /\ End(s)
  /\ UNCHANGED <<row, code, begun, paid, active, crashes>>

\* processSessionComplete: consumeLease; the session becomes claimable, fails, or completes again.
Consumed(s) ==
  IF v[code[s]] = [Free EXCEPT !.sid = s] THEN [Free EXCEPT !.sid = s, !.target = TRUE] ELSE v[code[s]]
Complete(s) ==
  /\ row[s].st = "running" /\ p[s].pc = "idle"
  /\ LET used == v' = [v EXCEPT ![code[s]] = Consumed(s)] IN
     \/ Succeeds(used) /\ p' = [p EXCEPT ![s].pc = IF Consumed(s).sid = s THEN "completing" ELSE "idle"]
     \/ Fails(used, UNCHANGED v) /\ UNCHANGED p
  /\ UNCHANGED <<row, code, begun, paid, active, crashes>>
Claimable(s) ==
  /\ p[s].pc = "completing"
  /\ row' = [row EXCEPT ![s].st = "claiming", ![s].claim = "pending"]
  /\ End(s)
  /\ UNCHANGED <<v, code, begun, paid, active, faults, crashes>>

\* setSessionFailed of a session without a claim.
FailSession(s) ==
  /\ row[s].st = "running"
  /\ row' = [row EXCEPT ![s].st = "failed"]
  /\ End(s)
  /\ UNCHANGED <<v, code, begun, paid, active, faults, crashes>>

\* The claim ends or the session expires without one ("none"); the claim and the session's status are stored together.
ClaimEnds(s, outcome) ==
  /\ row[s].st = "claiming"
  /\ row' = [row EXCEPT ![s] = [st |-> IF outcome = "confirmed" THEN "finished" ELSE "failed", claim |-> outcome]]
  /\ paid' = IF outcome = "confirmed" THEN paid \cup {s} ELSE paid
  /\ UNCHANGED <<v, code, p, begun, active, faults, crashes>>

-----------------------------------------------------------------------------
\* cleanStore: an old session with a terminal status is a candidate.
CleanCandidate(s) ==
  /\ p[Cleaner].pc = "idle" /\ Eligible(s)
  /\ p' = [p EXCEPT ![Cleaner] = [pc |-> "guard", cand |-> s, snap |-> Free, ret |-> "end"]]
  /\ UNCHANGED <<v, row, code, begun, paid, active, faults, crashes>>

\* prepareSessionCleanup: the voucher's guard of the cleanup of a session.
PrepareSessionCleanup(q) ==
  /\ p[q].pc = "guard"
  /\ LET s == p[q].cand
         x == v[code[s]] IN
     IF ~ValidPair(x) \/ row[s] = NoRow THEN End(q)
     ELSE IF x.rc # NoReceipt
     THEN IF ValidReplay(x, s) THEN Go(q, "delete") ELSE End(q)
     ELSE IF OwnedCodes(s) # {code[s]} \/ VoucherState(x) = "available" THEN End(q)
     ELSE p' = [p EXCEPT ![q].snap = x, ![q].pc = "settle"]
  /\ UNCHANGED <<v, row, code, begun, paid, active, faults, crashes>>

\* The receipt of the cleanup of s, whose code was in the state of the snapshot.
Receipt(s, x) == [sid |-> s, st |-> row[s].st, expected |-> VoucherState(x)]

Unchanged(x, s) == v[code[s]].sid = s /\ v[code[s]].target = x.target /\ Eligible(s)

\* One UPDATE each, which applies only if the code and the session are as they were read.
ReleaseFailedReservation(x, s) ==
  IF Unchanged(x, s) THEN [Free EXCEPT !.rc = Receipt(s, x)] ELSE v[code[s]]
ConfirmFinishedReservation(x, s) ==
  IF Unchanged(x, s) /\ x.target THEN [v[code[s]] EXCEPT !.rc = Receipt(s, x)] ELSE v[code[s]]
ConsumeFinishedReservation(x, s) ==
  IF x.target THEN ConfirmFinishedReservation(x, s)
  ELSE IF Unchanged(x, s) THEN [v[code[s]] EXCEPT !.target = TRUE, !.rc = Receipt(s, x)] ELSE v[code[s]]

\* The end of prepareSessionCleanup.
Settled(x, s) ==
  IF row[s].st = "failed" THEN ReleaseFailedReservation(x, s) ELSE ConsumeFinishedReservation(x, s)

SettleVoucher(q) ==
  /\ p[q].pc \in {"release", "settle"}
  /\ LET s == p[q].cand
         done == v' = [v EXCEPT ![code[s]] = Settled(p[q].snap, s)] IN
     \/ Succeeds(done) /\ Go(q, IF p[q].pc = "release" THEN "verify" ELSE "confirm")
     \/ Fails(done, UNCHANGED v) /\ End(q)
  /\ UNCHANGED <<row, code, begun, paid, active, crashes>>

\* The row is read again: the receipt must be the expected one.
VerifySettled(q) ==
  /\ p[q].pc \in {"verify", "confirm"}
  /\ LET s == p[q].cand IN
     IF row[s] # NoRow /\ ValidReplay(v[code[s]], s)
     THEN Go(q, IF p[q].pc = "verify" THEN "guard" ELSE "delete")
     ELSE End(q)
  /\ UNCHANGED <<v, row, code, begun, paid, active, faults, crashes>>

\* The end of cleanupSessionCandidate; the caller goes on when the row is gone.
DeleteSession(q) ==
  /\ p[q].pc = "delete"
  /\ LET s == p[q].cand
         gone == row' = IF Eligible(s) THEN [row EXCEPT ![s] = NoRow] ELSE row
         next == IF p[q].ret = "end" THEN End(q) ELSE p' = [p EXCEPT ![q].pc = p[q].ret]
     IN  \/ gone /\ next /\ UNCHANGED faults
         \/ gone /\ next /\ faults < MaxFaults /\ faults' = faults + 1
         \/ UNCHANGED row /\ End(q) /\ faults < MaxFaults /\ faults' = faults + 1
  /\ UNCHANGED <<v, code, begun, paid, active, crashes>>

EndRefused(s) == p[s].pc = "end" /\ End(s) /\ UNCHANGED <<v, row, code, begun, paid, active, faults, crashes>>

-----------------------------------------------------------------------------
\* The process stops and everything in memory is lost.
Crash ==
  /\ active /\ crashes < MaxCrashes
  /\ crashes' = crashes + 1
  /\ p' = [q \in Process |-> Idle]
  /\ active' = FALSE
  /\ UNCHANGED <<v, row, code, begun, paid, faults>>

\* Mutant: consumed codes without a session are given back too.
AllOrphans == {c \in Code : v[c].sid # None /\ row[v[c].sid] = NoRow}
\* reconcileOrphanedLeases: leases of sessions that were never stored.
OrphanedLeases == {c \in Code : VoucherState(v[c]) = "leased" /\ v[c].rc = NoReceipt /\ row[v[c].sid] = NoRow}

\* onStateRestoreComplete, before sessions are admitted again.
StateRestored ==
  /\ ~active /\ active' = TRUE
  /\ v' = [c \in Code |-> IF c \in OrphanedLeases THEN Free ELSE v[c]]
  /\ UNCHANGED <<row, code, p, begun, paid, faults, crashes>>

Next ==
  \/ \E s \in Session :
       \/ Start(s) \/ ReserveRead(s) \/ ReserveReceipt(s) \/ ReserveFailed(s) \/ ReserveCas(s) \/ ReserveReconcile(s)
       \/ StoreSession(s) \/ Rollback(s) \/ Complete(s) \/ Claimable(s) \/ FailSession(s) \/ EndRefused(s)
       \/ CleanCandidate(s) \/ \E o \in {"confirmed", "failed", "reverted", "none"} : ClaimEnds(s, o)
  \/ \E q \in Process : PrepareSessionCleanup(q) \/ SettleVoucher(q) \/ VerifySettled(q) \/ DeleteSession(q)
  \/ Crash \/ StateRestored

Spec == Init /\ [][Next]_vars

-----------------------------------------------------------------------------
TypeOK ==
  /\ \A c \in Code : v[c].sid \in Session \cup {None} /\ v[c].target \in BOOLEAN /\ v[c].rc.sid \in Session \cup {None}
  /\ \A s \in Session : row[s].st \in {"none", "running", "claiming", "failed", "finished"}
  /\ \A q \in Process : p[q].pc \in {"idle", "read", "receipt", "failed", "cas", "casread", "reserved", "completing", "end",
                                     "guard", "settle", "confirm", "release", "verify", "delete"}

Using(c) == {s \in Session : code[s] = c /\ (s \in paid \/ row[s].st \in {"running", "claiming", "finished"})}

\* A code pays at most once: of all sessions that were paid with it or may still be paid
\* there is at most one, over failures, takeovers, cleanups and crashes.
PaysOnce == \A c \in Code : Cardinality(Using(c)) <= 1

\* A stored session that may be paid holds its code, and a claim has consumed it: nobody can
\* take a code from a live session and its completion never fails for that reason.
LiveSessionHoldsCode ==
  \A s \in Session : row[s].st \in {"running", "claiming"} =>
    v[code[s]].sid = s /\ (row[s].st = "claiming" => v[code[s]].target)

\* Every row is one that the readers accept: no code becomes unusable by its receipt.
RowsAreValid == \A c \in Code : ValidPair(v[c])

\* The row of a session that has ended can be cleaned up: it holds its code or its code
\* has the receipt of this session, whatever step of the cleanup was lost.
EndedIsCleanable ==
  \A s \in Session : Eligible(s) => v[code[s]].sid = s \/ ValidReplay(v[code[s]], s)

\* A code is leased without a stored session only while that session starts: an abandoned
\* lease is left by a failed statement or a crash, and only until the module is activated.
LeaseIsOwned ==
  (faults = 0 /\ active) => \A c \in Code : VoucherState(v[c]) = "leased" =>
    row[v[c].sid] # NoRow \/ p[v[c].sid].pc = "reserved" \/ p[v[c].sid].pc = "casread"
-----------------------------------------------------------------------------
(***************************************************************************)
(* A voucher code pays at most once, for every number of codes, sessions,  *)
(* faults and crashes.  Counting the sessions that use a code says nothing *)
(* of the next one that may use it, so PaysOnce is not inductive.  What is *)
(* inductive is ownership: the row of a code names its owner, a session    *)
(* that may be paid or was paid is the owner of its code, and nobody takes *)
(* a code from an owner who is live or was paid.  The rest of the          *)
(* invariant says why not: a start that goes on has no stored row, and     *)
(* every step of a cleanup concerns a session that has ended.              *)
(***************************************************************************)

\* Steps of a session that starts, and of the cleanup of another session.
Starting == {"read", "receipt", "failed", "cas", "casread", "reserved", "end"}
Cleaning == {"guard", "settle", "confirm", "release", "verify", "delete"}

Receipts == [sid : Session \union {None}, st : {"none", "failed", "finished"},
             expected : {"none", "available", "leased", "consumed"}]
VoucherRows == [sid : Session \union {None}, target : BOOLEAN, rc : Receipts]
SessionRows == [st : {"none", "running", "claiming", "failed", "finished"},
                claim : {"none", "pending", "confirmed", "failed", "reverted"}]
Operations == [pc : {"idle", "completing"} \union Starting \union Cleaning,
               cand : Session \union {None}, snap : VoucherRows,
               ret : {"none", "cas", "read", "end"}]

\* The types of the rows and of the operations.
Types ==
  /\ v \in [Code -> VoucherRows] /\ row \in [Session -> SessionRows] /\ code \in [Session -> Code]
  /\ p \in [Process -> Operations] /\ begun \subseteq Session /\ paid \subseteq begun
  /\ active \in BOOLEAN /\ faults \in Nat

\* A code names an owner who was started with it, and the receipt of one.
OwnersMatch ==
  \A c \in Code :
    /\ v[c].sid # None => code[v[c].sid] = c
    /\ v[c].rc # NoReceipt => v[c].rc.sid \in Session

\* What a stored row may say.
RowShape ==
  \A s \in Session :
    /\ row[s].st = "none" => row[s] = NoRow
    /\ row[s].st = "running" => row[s].claim = "none"
    /\ s \notin begun => row[s] = NoRow

\* A paid session has consumed its code for good.
PaidIsConsumed ==
  \A s \in Session :
    /\ s \in paid => v[code[s]].sid = s /\ v[code[s]].target /\ row[s].st \in {"none", "finished"}
    /\ row[s].st = "finished" => s \in paid

\* Where the operation of a session may stand, and what it holds then.
StartOk(s) ==
  /\ p[s].pc \in Starting \union Cleaning => row[s] = NoRow /\ s \in begun \ paid /\ active
  /\ p[s].pc = "reserved" => v[code[s]].sid = s /\ ~v[code[s]].target
  /\ p[s].pc = "completing" => row[s].st = "running" /\ v[code[s]].sid = s /\ v[code[s]].target
  /\ p[s].pc = "receipt" => p[s].snap.rc.sid \in Session
  /\ p[s].pc = "failed" => p[s].snap.sid \in Session
  /\ p[s].snap.rc # NoReceipt => p[s].snap.rc.sid \in Session
StartShape == \A s \in Session : StartOk(s)

\* A session that ended: it is not started again.
Ended(s) == s \in begun /\ p[s].pc = "idle" /\ row[s].st \in {"none", "failed", "finished"}

\* The candidate of a cleanup has ended, and its row is not deleted while it
\* has a lease.
CleanOk(q) ==
  p[q].pc \in Cleaning =>
    /\ p[q].cand \in Session /\ Ended(p[q].cand)
    /\ p[q].ret \in IF q = Cleaner THEN {"end"} ELSE {"cas", "read"}
    /\ p[q].pc = "delete" => \/ row[p[q].cand] = NoRow
                             \/ v[code[p[q].cand]].sid # p[q].cand
                             \/ v[code[p[q].cand]].target
CleanShape == p[Cleaner].pc \in {"idle"} \union Cleaning /\ \A q \in Process : CleanOk(q)

\* The inductive invariant.
VoucherInv ==
  /\ Types /\ OwnersMatch /\ RowsAreValid /\ RowShape /\ LiveSessionHoldsCode /\ PaidIsConsumed
  /\ StartShape /\ CleanShape /\ EndedIsCleanable /\ LeaseIsOwned

-----------------------------------------------------------------------------
\* The constants of the records have their types.
LEMMA ConstantTypes ==
  /\ NoReceipt \in Receipts /\ Free \in VoucherRows /\ NoRow \in SessionRows /\ Idle \in Operations
BY DEF NoReceipt, Receipts, Free, VoucherRows, NoRow, SessionRows, Idle, Operations, None, Starting, Cleaning

\* The row of a code that is leased to s has no receipt.
LEMMA LeaseOfOwner ==
  ASSUME VoucherAssumption, NEW x \in VoucherRows, ValidPair(x), NEW s \in Session,
         x.sid = s, ~x.target
  PROVE  x = [Free EXCEPT !.sid = s]
<1>1. s # None BY DEF VoucherAssumption
<1>2. x.rc = NoReceipt /\ x.target = FALSE BY <1>1 DEF ValidPair, VoucherState, VoucherRows
<1>3. x = [sid |-> x.sid, target |-> x.target, rc |-> x.rc] BY DEF VoucherRows
<1> DEFINE y == [Free EXCEPT !.sid = s]
<1>4. y \in VoucherRows /\ y.sid = s /\ y.target = FALSE /\ y.rc = NoReceipt
  BY ConstantTypes DEF VoucherRows, Free
<1> HIDE DEF y
<1>5. y = [sid |-> y.sid, target |-> y.target, rc |-> y.rc] BY <1>4 DEF VoucherRows
<1>6. x = y BY <1>2, <1>3, <1>4, <1>5
<1> QED BY <1>6 DEF y

\* Initially every code is free and nothing runs.
LEMMA InitVoucherInv ==
  ASSUME VoucherAssumption PROVE Init => VoucherInv
<1> SUFFICES ASSUME Init PROVE VoucherInv OBVIOUS
<1>c. Cleaner \in Process BY DEF Process
<1>f. /\ \A c \in Code : v[c] = Free
      /\ \A s \in Session : row[s] = NoRow
      /\ \A q \in Process : p[q] = Idle
      /\ \A s \in Session : s \in Process
  BY DEF Init, Process
<1>1. Types BY ConstantTypes DEF Init, Types
<1>2. OwnersMatch /\ RowsAreValid BY <1>f DEF OwnersMatch, RowsAreValid, ValidPair, Free
<1>3. RowShape /\ LiveSessionHoldsCode BY <1>f DEF RowShape, LiveSessionHoldsCode, NoRow
<1>4. PaidIsConsumed BY <1>f DEF Init, PaidIsConsumed, NoRow
<1>5. StartShape BY <1>f DEF StartShape, StartOk, Idle, Starting, Cleaning, Free
<1>6. CleanShape BY <1>c, <1>f DEF CleanShape, CleanOk, Idle, Cleaning
<1>7. EndedIsCleanable BY <1>f DEF EndedIsCleanable, Eligible, NoRow
<1>8. LeaseIsOwned BY <1>f DEF LeaseIsOwned, VoucherState, Free
<1> QED BY <1>1, <1>2, <1>3, <1>4, <1>5, <1>6, <1>7, <1>8 DEF VoucherInv

\* A step meets no error, or one more.
Faulted == faults' = faults \/ (faults' \in Nat \ {0})

\* An operation goes on in memory: the codes, the sessions and the receipts
\* stay as they are.
LEMMA MemoryStep ==
  ASSUME VoucherAssumption, VoucherInv, NEW q \in Process,
         UNCHANGED <<v, row, code, paid, active>>, Faulted,
         begun \subseteq begun', begun' \subseteq Session,
         p' \in [Process -> Operations], \A r \in Process : r # q => p'[r] = p[r],
         q \in Session => StartOk(q)', CleanOk(q)',
         q = Cleaner => p'[q].pc \in {"idle"} \union Cleaning,
         p[q].pc = "idle" => p'[q].pc = "idle" \/ q \notin begun,
         q \in Session /\ p[q].pc \in {"reserved", "casread"} /\ faults' = 0 =>
           \/ p'[q].pc \in {"reserved", "casread"}
           \/ v[code[q]].sid # q \/ v[code[q]].target
  PROVE  VoucherInv'
<1>a. /\ Types /\ OwnersMatch /\ RowsAreValid /\ RowShape /\ LiveSessionHoldsCode /\ PaidIsConsumed
      /\ StartShape /\ CleanShape /\ EndedIsCleanable /\ LeaseIsOwned
  BY DEF VoucherInv
<1>1. Types' BY <1>a DEF Types, Faulted
<1>2. OwnersMatch' /\ RowsAreValid' /\ LiveSessionHoldsCode' /\ PaidIsConsumed'
  BY <1>a DEF OwnersMatch, RowsAreValid, LiveSessionHoldsCode, PaidIsConsumed, ValidPair, VoucherState
<1>3. RowShape' BY <1>a DEF RowShape
<1>4. EndedIsCleanable'
  BY <1>a DEF EndedIsCleanable, Eligible, ValidReplay, ValidPair, OwnedCodes, VoucherState
<1>5. StartShape'
  <2> SUFFICES ASSUME NEW s \in Session PROVE StartOk(s)' BY DEF StartShape
  <2>1. CASE s = q BY <2>1
  <2>2. CASE s # q BY <1>a, <2>2 DEF StartShape, StartOk, Process, Types
  <2> QED BY <2>1, <2>2
<1>6. CleanShape'
  <2>1. ASSUME NEW r \in Process PROVE CleanOk(r)'
    <3>1. CASE r = q BY <3>1
    <3>2. CASE r # q BY <1>a, <3>2 DEF CleanShape, CleanOk, Ended, Process
    <3> QED BY <3>1, <3>2
  <2>2. p'[Cleaner].pc \in {"idle"} \union Cleaning BY <1>a DEF CleanShape, Process
  <2> QED BY <2>1, <2>2 DEF CleanShape
<1>7. LeaseIsOwned'
  <2>0. faults' = 0 => faults = 0 BY DEF Faulted
  <2> SUFFICES ASSUME faults' = 0, faults = 0, active, NEW c \in Code, VoucherState(v[c]) = "leased",
                      row[v[c].sid] = NoRow
               PROVE  p'[v[c].sid].pc = "reserved" \/ p'[v[c].sid].pc = "casread"
    BY <1>a, <2>0 DEF LeaseIsOwned, VoucherState
  <2>1. v[c].sid \in Session /\ ~v[c].target /\ code[v[c].sid] = c
    BY <1>a DEF VoucherState, Types, VoucherRows, OwnersMatch
  <2>2. p[v[c].sid].pc \in {"reserved", "casread"} BY <1>a DEF LeaseIsOwned
  <2> QED BY <1>a, <2>1, <2>2 DEF Process
<1> QED BY <1>1, <1>2, <1>3, <1>4, <1>5, <1>6, <1>7 DEF VoucherInv
\* How an operation moves on.
LEMMA GoEffect ==
  ASSUME Types, NEW q \in Process, NEW pc \in {"idle", "completing"} \union Starting \union Cleaning,
         Go(q, pc)
  PROVE  /\ p' \in [Process -> Operations] /\ \A r \in Process : r # q => p'[r] = p[r]
         /\ p'[q].pc = pc /\ p'[q].cand = p[q].cand /\ p'[q].snap = p[q].snap /\ p'[q].ret = p[q].ret
BY DEF Types, Go, Operations

\* How it ends.
LEMMA EndEffect ==
  ASSUME Types, NEW q \in Process, End(q)
  PROVE  /\ p' \in [Process -> Operations] /\ \A r \in Process : r # q => p'[r] = p[r]
         /\ p'[q] = Idle
BY ConstantTypes DEF Types, End

\* An operation that ends without effect keeps the invariant.
LEMMA EndStep ==
  ASSUME VoucherAssumption, VoucherInv, NEW q \in Process,
         UNCHANGED <<v, row, code, begun, paid, active>>, Faulted, End(q),
         q \in Session /\ p[q].pc \in {"reserved", "casread"} /\ faults' = 0 => v[code[q]].sid # q \/ v[code[q]].target
  PROVE  VoucherInv'
<1>1. /\ p' \in [Process -> Operations] /\ \A r \in Process : r # q => p'[r] = p[r]
      /\ p'[q] = Idle
  BY EndEffect DEF VoucherInv
<1>2. /\ p'[q].pc = "idle" /\ p'[q].snap.rc = NoReceipt BY <1>1 DEF Idle, Free
<1>3. StartOk(q)' BY <1>2 DEF StartOk, Starting, Cleaning
<1>4. CleanOk(q)' BY <1>2 DEF CleanOk, Cleaning
<1>5. begun' \subseteq Session BY DEF VoucherInv, Types
<1> QED BY <1>1, <1>2, <1>3, <1>4, <1>5, MemoryStep DEF Faulted

\* A session with a terminal status has ended.
LEMMA TerminalHasEnded ==
  ASSUME VoucherAssumption, VoucherInv, NEW t \in Session, row[t].st \in {"failed", "finished"}
  PROVE  Ended(t)
<1>1. Types /\ RowShape /\ StartOk(t) /\ t \in Process BY DEF VoucherInv, StartShape, Process
<1>2. t \in begun /\ row[t] # NoRow BY <1>1 DEF RowShape, NoRow
<1>3. p[t].pc \in {"idle", "completing"} \union Starting \union Cleaning BY <1>1 DEF Types, Operations
<1>4. p[t].pc = "idle" BY <1>1, <1>2, <1>3 DEF StartOk
<1> QED BY <1>2, <1>4 DEF Ended

\* The steps of a start that only read.
LEMMA ReadingSteps ==
  ASSUME VoucherAssumption, VoucherInv, NEW s \in Session,
         Start(s) \/ ReserveRead(s) \/ ReserveReceipt(s) \/ ReserveFailed(s) \/ ReserveReconcile(s)
           \/ EndRefused(s)
  PROVE  VoucherInv'
<1>a. /\ Types /\ OwnersMatch /\ RowsAreValid /\ RowShape /\ StartShape /\ StartOk(s) /\ CleanShape
  BY DEF VoucherInv, StartShape
<1>q. s \in Process /\ s # Cleaner /\ code[s] \in Code BY <1>a DEF Process, VoucherAssumption, Types
<1>t. p \in [Process -> Operations] /\ p[s] \in Operations BY <1>a, <1>q DEF Types
<1>1. CASE Start(s)
  <2>1. /\ p' \in [Process -> Operations] /\ \A r \in Process : r # s => p'[r] = p[r]
        /\ p'[s].pc = "read" /\ p'[s].snap = p[s].snap
    BY <1>1, <1>a, <1>q, GoEffect DEF Start, Starting
  <2>2. row[s] = NoRow /\ s \notin paid /\ p[s].pc \notin {"reserved", "casread"}
    BY <1>1, <1>a DEF Start, RowShape, Types, StartOk, Starting
  <2>3. StartOk(s)' BY <1>1, <1>a, <2>1, <2>2 DEF Start, StartOk
  <2>4. CleanOk(s)' BY <2>1 DEF CleanOk, Cleaning
  <2>5. begun \subseteq begun' /\ begun' \subseteq Session BY <1>1, <1>a DEF Start, Types
  <2> QED BY <1>1, <1>q, <2>1, <2>2, <2>3, <2>4, <2>5, MemoryStep DEF Faulted, Start
<1>2. CASE ReserveRead(s)
  <2> DEFINE x == v[code[s]]
  <2>0. p[s].pc = "read" /\ UNCHANGED <<v, row, code, begun, paid, active, faults>>
    BY <1>2 DEF ReserveRead
  <2>1. CASE End(s) BY <1>q, <2>0, <2>1, EndStep DEF Faulted
  <2>2. CASE ~End(s)
    <3> DEFINE pc == CASE VoucherState(x) = "available" /\ x.rc = NoReceipt -> "cas"
                       [] VoucherState(x) = "available" /\ x.rc # NoReceipt -> "receipt"
                       [] VoucherState(x) # "available" /\ x.rc = NoReceipt -> "failed"
                       [] OTHER -> "end"
    <3>1. p' = [p EXCEPT ![s].snap = x, ![s].pc = pc] BY <1>2, <2>2 DEF ReserveRead
    <3>2. x \in VoucherRows BY <1>a, <1>q DEF Types
    <3>3. pc \in {"cas", "receipt", "failed", "end"} OBVIOUS
    <3>4. /\ pc = "receipt" => x.rc # NoReceipt
          /\ pc = "failed" => VoucherState(x) # "available"
      OBVIOUS
    <3>5. x.rc # NoReceipt => x.rc.sid \in Session BY <1>a, <1>q DEF OwnersMatch
    <3>6. VoucherState(x) # "available" => x.sid \in Session BY <3>2 DEF VoucherState, VoucherRows
    <3> HIDE DEF x, pc
    <3>7. pc \in {"idle", "completing"} \union Starting \union Cleaning BY <3>3 DEF Starting
    <3>8. /\ p' \in [Process -> Operations] /\ \A r \in Process : r # s => p'[r] = p[r]
          /\ p'[s].pc = pc /\ p'[s].snap = x
      BY <1>q, <1>t, <3>1, <3>2, <3>7 DEF Operations
    <3>9. StartOk(s)' BY <1>a, <2>0, <3>3, <3>4, <3>5, <3>6, <3>8 DEF StartOk, Starting
    <3>10. CleanOk(s)' BY <3>3, <3>8 DEF CleanOk, Cleaning
    <3>11. begun' \subseteq Session BY <1>a, <2>0 DEF Types
    <3> QED BY <1>q, <2>0, <3>8, <3>9, <3>10, <3>11, MemoryStep DEF Faulted
  <2> QED BY <2>1, <2>2
<1>3. CASE ReserveReceipt(s)
  <2> DEFINE t == p[s].snap.rc.sid
  <2>0. p[s].pc = "receipt" /\ UNCHANGED <<v, row, code, begun, paid, active, faults>> /\ t \in Session
    BY <1>3, <1>a DEF ReserveReceipt, StartOk
  <2>b. begun' \subseteq Session BY <1>a, <2>0 DEF Types
  <2>1. CASE End(s) BY <1>q, <2>0, <2>1, EndStep DEF Faulted
  <2>2. CASE row[t].st = "failed" /\ p' = [p EXCEPT ![s].pc = "guard", ![s].cand = t, ![s].ret = "cas"]
    <3>1. /\ p' \in [Process -> Operations] /\ \A r \in Process : r # s => p'[r] = p[r]
          /\ p'[s].pc = "guard" /\ p'[s].snap = p[s].snap /\ p'[s].cand = t /\ p'[s].ret = "cas"
      BY <1>q, <1>t, <2>0, <2>2 DEF Operations, Cleaning
    <3>2. StartOk(s)' BY <1>a, <2>0, <3>1 DEF StartOk, Starting, Cleaning
    <3>e. t # s /\ Ended(t)' BY <1>a, <2>0, <2>2, <3>1, TerminalHasEnded DEF Ended, Process, StartOk, NoRow, Starting
    <3>3. CleanOk(s)' BY <1>q, <2>0, <3>1, <3>e DEF CleanOk
    <3> QED BY <1>q, <2>0, <2>b, <3>1, <3>2, <3>3, MemoryStep DEF Faulted
  <2>3. CASE Go(s, "cas")
    <3>1. /\ p' \in [Process -> Operations] /\ \A r \in Process : r # s => p'[r] = p[r]
          /\ p'[s].pc = "cas" /\ p'[s].snap = p[s].snap
      BY <1>a, <1>q, <2>3, GoEffect DEF Starting
    <3>2. StartOk(s)' BY <1>a, <2>0, <3>1 DEF StartOk, Starting
    <3>3. CleanOk(s)' BY <3>1 DEF CleanOk, Cleaning
    <3> QED BY <1>q, <2>0, <2>b, <3>1, <3>2, <3>3, MemoryStep DEF Faulted
  <2> QED BY <1>3, <2>1, <2>2, <2>3 DEF ReserveReceipt
<1>4. CASE ReserveFailed(s)
  <2> DEFINE t == p[s].snap.sid
  <2>0. p[s].pc = "failed" /\ UNCHANGED <<v, row, code, begun, paid, active, faults>> /\ t \in Session
    BY <1>4, <1>a DEF ReserveFailed, StartOk
  <2>b. begun' \subseteq Session BY <1>a, <2>0 DEF Types
  <2>1. CASE End(s) BY <1>q, <2>0, <2>1, EndStep DEF Faulted
  <2>2. CASE row[t].st = "failed" /\ p' = [p EXCEPT ![s].pc = "release", ![s].cand = t, ![s].ret = "read"]
    <3>1. /\ p' \in [Process -> Operations] /\ \A r \in Process : r # s => p'[r] = p[r]
          /\ p'[s].pc = "release" /\ p'[s].snap = p[s].snap /\ p'[s].cand = t /\ p'[s].ret = "read"
      BY <1>q, <1>t, <2>0, <2>2 DEF Operations, Cleaning
    <3>2. StartOk(s)' BY <1>a, <2>0, <3>1 DEF StartOk, Starting, Cleaning
    <3>e. t # s /\ Ended(t)' BY <1>a, <2>0, <2>2, <3>1, TerminalHasEnded DEF Ended, Process, StartOk, NoRow, Starting
    <3>3. CleanOk(s)' BY <1>q, <2>0, <3>1, <3>e DEF CleanOk
    <3> QED BY <1>q, <2>0, <2>b, <3>1, <3>2, <3>3, MemoryStep DEF Faulted
  <2> QED BY <1>4, <2>1, <2>2 DEF ReserveFailed, HasFailed
<1>5. CASE ReserveReconcile(s)
  <2> DEFINE lease == [Free EXCEPT !.sid = s]
  <2>0. p[s].pc = "casread" /\ UNCHANGED <<v, row, code, begun, paid, active, faults>>
    BY <1>5 DEF ReserveReconcile
  <2>b. begun' \subseteq Session BY <1>a, <2>0 DEF Types
  <2>1. CASE v[code[s]] = lease
    <3>1. /\ p' \in [Process -> Operations] /\ \A r \in Process : r # s => p'[r] = p[r]
          /\ p'[s].pc = "reserved" /\ p'[s].snap = p[s].snap
      BY <1>5, <1>a, <1>q, <2>1, GoEffect DEF ReserveReconcile, Starting
    <3>2. v[code[s]].sid = s /\ ~v[code[s]].target BY <2>1 DEF Free
    <3>3. StartOk(s)' BY <1>a, <2>0, <3>1, <3>2 DEF StartOk, Starting
    <3>4. CleanOk(s)' BY <3>1 DEF CleanOk, Cleaning
    <3> QED BY <1>q, <2>0, <2>b, <3>1, <3>3, <3>4, MemoryStep DEF Faulted
  <2>2. CASE v[code[s]] # lease
    <3>1. v[code[s]] \in VoucherRows /\ ValidPair(v[code[s]]) BY <1>a, <1>q DEF Types, RowsAreValid
    <3>2. v[code[s]].sid # s \/ v[code[s]].target
      BY <2>2, <3>1, LeaseOfOwner
    <3> QED BY <1>5, <1>q, <2>0, <2>2, <3>2, EndStep DEF Faulted, ReserveReconcile
  <2> QED BY <2>1, <2>2
<1>6. CASE EndRefused(s) BY <1>6, <1>q, EndStep DEF Faulted, EndRefused
<1> QED BY <1>1, <1>2, <1>3, <1>4, <1>5, <1>6

\* The receipt of a cleaned session is not on a lease of that session.
LEMMA ReplayIsNoLease ==
  ASSUME VoucherAssumption, NEW x, NEW s \in Session, ValidReplay(x, s)
  PROVE  x.sid # s \/ x.target
BY DEF VoucherAssumption, ValidReplay, VoucherState

\* A cleanup goes on with the same candidate.
LEMMA CleanupGoesOn ==
  ASSUME VoucherAssumption, VoucherInv, NEW q \in Process, p[q].pc \in Cleaning,
         UNCHANGED <<v, row, code, begun, paid, active, faults>>,
         p' \in [Process -> Operations], \A r \in Process : r # q => p'[r] = p[r],
         p'[q].pc \in Cleaning, p'[q].cand = p[q].cand, p'[q].ret = p[q].ret,
         q \in Session /\ p'[q].snap.rc # NoReceipt => p'[q].snap.rc.sid \in Session,
         p'[q].pc = "delete" => v[code[p[q].cand]].sid # p[q].cand \/ v[code[p[q].cand]].target
  PROVE  VoucherInv'
<1>a. Types /\ StartShape /\ CleanOk(q) BY DEF VoucherInv, CleanShape
<1>1. p[q].cand \in Session /\ Ended(p[q].cand) /\ p[q].cand # q
  BY <1>a DEF CleanOk, Ended, Cleaning
<1>2. Ended(p[q].cand)' BY <1>1 DEF Ended, Process
<1>3. CleanOk(q)' BY <1>a, <1>1, <1>2 DEF CleanOk
<1>4. q \in Session => StartOk(q)' BY <1>a DEF StartShape, StartOk, Cleaning
<1>5. p[q].pc \notin {"idle", "reserved", "casread"} BY DEF Cleaning
<1>6. begun' \subseteq Session BY <1>a DEF Types
<1> QED BY <1>3, <1>4, <1>5, <1>6, MemoryStep DEF Faulted

\* The steps of a cleanup that only read.
LEMMA CleanupReads ==
  ASSUME VoucherAssumption, VoucherInv,
         \/ \E s \in Session : CleanCandidate(s)
         \/ \E q \in Process : PrepareSessionCleanup(q) \/ VerifySettled(q)
  PROVE  VoucherInv'
<1>a. Types /\ StartShape /\ CleanShape /\ Cleaner \in Process /\ Cleaner \notin Session
  BY DEF VoucherInv, Process, VoucherAssumption
<1>1. ASSUME NEW s \in Session, CleanCandidate(s) PROVE VoucherInv'
  <2>1. Ended(s) /\ s # Cleaner /\ s \in Process
    BY <1>1, <1>a, TerminalHasEnded DEF CleanCandidate, Eligible, Process
  <2>2. /\ p' \in [Process -> Operations] /\ \A r \in Process : r # Cleaner => p'[r] = p[r]
        /\ p'[Cleaner].pc = "guard" /\ p'[Cleaner].cand = s /\ p'[Cleaner].ret = "end"
    BY <1>1, <1>a, ConstantTypes DEF CleanCandidate, Types, Operations, Cleaning
  <2>3. UNCHANGED <<v, row, code, begun, paid, active, faults>> BY <1>1 DEF CleanCandidate
  <2>4. Ended(s)' BY <2>1, <2>2, <2>3 DEF Ended
  <2>5. CleanOk(Cleaner)' BY <2>2, <2>4 DEF CleanOk
  <2>6. begun' \subseteq Session /\ begun \subseteq begun' /\ Cleaner \notin begun BY <1>a, <2>3 DEF Types
  <2>7. p'[Cleaner].pc \in {"idle"} \union Cleaning BY <2>2 DEF Cleaning
  <2> QED BY <1>a, <2>2, <2>3, <2>5, <2>6, <2>7, MemoryStep DEF Faulted
<1>2. ASSUME NEW q \in Process, PrepareSessionCleanup(q) \/ VerifySettled(q) PROVE VoucherInv'
  <2> DEFINE s == p[q].cand
  <2> DEFINE x == v[code[s]]
  <2>0. /\ p[q].pc \in {"guard", "verify", "confirm"}
        /\ UNCHANGED <<v, row, code, begun, paid, active, faults>>
    BY <1>2 DEF PrepareSessionCleanup, VerifySettled
  <2>1. p[q].pc \in Cleaning /\ s \in Session /\ x \in VoucherRows /\ p[q] \in Operations
    BY <1>a, <2>0 DEF CleanShape, CleanOk, Cleaning, Types
  <2>r. q \in Session /\ p[q].snap.rc # NoReceipt => p[q].snap.rc.sid \in Session
    BY <1>a DEF StartShape, StartOk
  <2>2. CASE End(q) BY <2>0, <2>2, EndStep DEF Faulted
  <2>3. ASSUME NEW pc \in {"guard", "delete"}, Go(q, pc), pc = "delete" => ValidReplay(x, s)
        PROVE  VoucherInv'
    <3>1. /\ p' \in [Process -> Operations] /\ \A r \in Process : r # q => p'[r] = p[r]
          /\ p'[q].pc = pc /\ p'[q].cand = s /\ p'[q].snap = p[q].snap /\ p'[q].ret = p[q].ret
      BY <1>a, <2>3, GoEffect DEF Cleaning
    <3>2. pc = "delete" => x.sid # s \/ x.target BY <2>1, <2>3, ReplayIsNoLease
    <3> QED BY <2>0, <2>1, <2>r, <2>3, <3>1, <3>2, CleanupGoesOn DEF Cleaning
  <2>4. CASE x.rc = NoReceipt /\ p' = [p EXCEPT ![q].snap = x, ![q].pc = "settle"]
    <3>1. /\ p' \in [Process -> Operations] /\ \A r \in Process : r # q => p'[r] = p[r]
          /\ p'[q].pc = "settle" /\ p'[q].snap = x /\ p'[q].cand = s /\ p'[q].ret = p[q].ret
      BY <1>a, <2>1, <2>4 DEF Types, Operations, Cleaning
    <3> QED BY <2>0, <2>1, <2>4, <3>1, CleanupGoesOn DEF Cleaning
  <2>5. CASE PrepareSessionCleanup(q)
    BY <2>5, <2>2, <2>3, <2>4 DEF PrepareSessionCleanup
  <2>6. CASE VerifySettled(q)
    <3>1. CASE row[s] # NoRow /\ ValidReplay(x, s)
      BY <2>6, <2>3, <3>1 DEF VerifySettled
    <3>2. CASE ~(row[s] # NoRow /\ ValidReplay(x, s))
      BY <2>6, <2>2, <3>2 DEF VerifySettled
    <3> QED BY <3>1, <3>2
  <2> QED BY <1>2, <2>5, <2>6
<1> QED BY <1>1, <1>2

\* The row of the code of session o changes, and nobody else has it.
LEMMA CodeStep ==
  ASSUME VoucherAssumption, VoucherInv, NEW q \in Process, NEW o \in Session,
         NEW x \in VoucherRows, v' = [v EXCEPT ![code[o]] = x],
         UNCHANGED <<row, code, begun, paid, active>>, Faulted,
         p' \in [Process -> Operations], \A r \in Process : r # q => p'[r] = p[r],
         q \in Session => StartOk(q)', CleanOk(q)',
         q = Cleaner => p'[q].pc \in {"idle"} \union Cleaning,
         p[q].pc = "idle" => q \in Session /\ row[q].st = "running",
         q = o \/ (Ended(o) /\ p[q].pc \in Cleaning),
         v[code[o]].sid \in {None, o}, x.sid \in {None, o},
         v[code[o]].sid = None /\ v[code[o]].rc # NoReceipt => row[v[code[o]].rc.sid] = NoRow,
         ValidPair(x), x.rc # NoReceipt => x.rc.sid \in Session,
         row[o].st \in {"running", "claiming"} => x.sid = o /\ (row[o].st = "claiming" => x.target),
         o \in paid => x.sid = o /\ x.target,
         row[o] = NoRow \/ x.sid # o \/ x.target,
         Eligible(o) => (v[code[o]].sid = o \/ ValidReplay(v[code[o]], o))',
         faults' = 0 /\ x.sid = o /\ ~x.target => row[o] # NoRow \/ p'[o].pc \in {"reserved", "casread"}
  PROVE  VoucherInv'
<1>a. /\ Types /\ OwnersMatch /\ RowsAreValid /\ RowShape /\ LiveSessionHoldsCode /\ PaidIsConsumed
      /\ StartShape /\ CleanShape /\ EndedIsCleanable /\ LeaseIsOwned
  BY DEF VoucherInv
<1> DEFINE c == code[o]
<1>c. c \in Code /\ o # None BY <1>a DEF Types, VoucherAssumption
<1>v. v'[c] = x /\ \A d \in Code : d # c => v'[d] = v[d] BY <1>a, <1>c DEF Types
<1>1. Types' BY <1>a, <1>c DEF Types, Faulted
<1>2. OwnersMatch' BY <1>a, <1>c, <1>v DEF OwnersMatch
<1>3. RowsAreValid' BY <1>a, <1>c, <1>v DEF RowsAreValid, ValidPair, VoucherState
<1>4. RowShape' BY <1>a DEF RowShape
<1>5. LiveSessionHoldsCode'
  <2> SUFFICES ASSUME NEW s \in Session, row[s].st \in {"running", "claiming"}
               PROVE  v'[code[s]].sid = s /\ (row[s].st = "claiming" => v'[code[s]].target)
    BY DEF LiveSessionHoldsCode
  <2>1. code[s] \in Code /\ v[code[s]].sid = s /\ s # None
        /\ (row[s].st = "claiming" => v[code[s]].target)
    BY <1>a DEF Types, LiveSessionHoldsCode, VoucherAssumption
  <2> QED BY <1>v, <2>1
<1>6. PaidIsConsumed'
  <2> SUFFICES ASSUME NEW s \in Session
               PROVE  s \in paid => v'[code[s]].sid = s /\ v'[code[s]].target
    BY <1>a DEF PaidIsConsumed
  <2>1. code[s] \in Code /\ s # None /\ (s \in paid => v[code[s]].sid = s /\ v[code[s]].target)
    BY <1>a DEF Types, PaidIsConsumed, VoucherAssumption
  <2> QED BY <1>v, <2>1
<1>7. StartShape'
  <2> SUFFICES ASSUME NEW s \in Session, s # q PROVE StartOk(s)' BY DEF StartShape
  <2>1. StartOk(s) /\ p'[s] = p[s] /\ code[s] \in Code /\ s # None
    BY <1>a DEF StartShape, Process, Types, VoucherAssumption
  <2>2. p[s].pc \in {"reserved", "completing"} => s # o BY DEF Ended
  <2>3. p[s].pc \in {"reserved", "completing"} => v'[code[s]] = v[code[s]]
    BY <1>v, <2>1, <2>2 DEF StartOk
  <2> QED BY <2>1, <2>3 DEF StartOk
<1>8. CleanShape'
  <2>1. ASSUME NEW r \in Process, r # q PROVE CleanOk(r)'
    <3> SUFFICES ASSUME p[r].pc \in Cleaning PROVE CleanOk(r)' BY <2>1 DEF CleanOk
    <3> DEFINE s == p[r].cand
    <3>1. s \in Session /\ Ended(s) /\ s \in Process /\ code[s] \in Code /\ p'[r] = p[r]
      BY <1>a, <2>1 DEF CleanShape, CleanOk, Process, Types
    <3>2. Ended(s)' BY <3>1 DEF Ended
    <3>3. ASSUME p[r].pc = "delete"
          PROVE  row[s] = NoRow \/ v'[code[s]].sid # s \/ v'[code[s]].target
      <4>1. row[s] = NoRow \/ v[code[s]].sid # s \/ v[code[s]].target
        BY <1>a, <3>3 DEF CleanShape, CleanOk
      <4>2. s # None BY <3>1 DEF VoucherAssumption
      <4> QED BY <1>v, <3>1, <4>1, <4>2
    <3> QED BY <1>a, <2>1, <3>1, <3>2, <3>3 DEF CleanShape, CleanOk
  <2>2. p'[Cleaner].pc \in {"idle"} \union Cleaning BY <1>a DEF CleanShape, Process
  <2> QED BY <2>1, <2>2 DEF CleanShape
<1>9. EndedIsCleanable'
  <2> SUFFICES ASSUME NEW s \in Session, Eligible(s)
               PROVE  (v[code[s]].sid = s \/ ValidReplay(v[code[s]], s))'
    BY DEF EndedIsCleanable, Eligible
  <2>1. CASE s = o BY <1>v, <2>1
  <2>2. CASE s # o
    <3>1. code[s] \in Code /\ s # None BY <1>a DEF Types, VoucherAssumption
    <3>2. OwnedCodes(s)' = OwnedCodes(s) BY <1>v, <1>c, <2>2, <3>1 DEF OwnedCodes
    <3>3. v[code[s]].sid = s \/ ValidReplay(v[code[s]], s) BY <1>a DEF EndedIsCleanable
    <3>4. CASE code[s] # c BY <1>v, <3>1, <3>2, <3>3, <3>4 DEF ValidReplay, ValidPair, VoucherState
    <3>5. CASE code[s] = c
      <4>1. ValidReplay(v[c], s) BY <2>2, <3>1, <3>3, <3>5
      <4>2. v[c].sid = None /\ v[c].rc # NoReceipt /\ v[c].rc.sid = s
        BY <1>c, <2>2, <3>1, <4>1 DEF ValidReplay, VoucherState
      <4>3. row[s] = NoRow BY <4>2
      <4> QED BY <4>3 DEF Eligible, NoRow
    <3> QED BY <3>4, <3>5
  <2> QED BY <2>1, <2>2
<1>10. LeaseIsOwned'
  <2>0. faults' = 0 => faults = 0 BY DEF Faulted
  <2> SUFFICES ASSUME faults' = 0, faults = 0, active, NEW d \in Code, VoucherState(v'[d]) = "leased",
                      row[v'[d].sid] = NoRow
               PROVE  p'[v'[d].sid].pc = "reserved" \/ p'[v'[d].sid].pc = "casread"
    BY <2>0 DEF LeaseIsOwned, VoucherState
  <2>1. CASE d = c BY <1>v, <1>c, <2>1 DEF VoucherState
  <2>2. CASE d # c
    <3>1. v'[d] = v[d] BY <1>v, <2>2
    <3>2. v[d].sid \in Session /\ ~v[d].target /\ code[v[d].sid] = d
      BY <1>a, <3>1 DEF VoucherState, Types, VoucherRows, OwnersMatch
    <3>3. p[v[d].sid].pc \in {"reserved", "casread"} BY <1>a, <3>1 DEF LeaseIsOwned
    <3>4. v[d].sid # q BY <2>2, <3>2, <3>3 DEF Cleaning
    <3> QED BY <3>1, <3>2, <3>3, <3>4 DEF Process
  <2> QED BY <2>1, <2>2
<1> QED BY <1>1, <1>2, <1>3, <1>4, <1>5, <1>6, <1>7, <1>8, <1>9, <1>10 DEF VoucherInv

\* One more error is not none.
LEMMA FailsIsFaulted ==
  ASSUME Types, faults' = faults + 1
  PROVE  Faulted /\ faults' # 0
BY DEF Types, Faulted

\* A start takes a free code or finds that it did not.
LEMMA ReserveCasStep ==
  ASSUME VoucherAssumption, VoucherInv, NEW s \in Session, ReserveCas(s)
  PROVE  VoucherInv'
<1>a. Types /\ OwnersMatch /\ RowsAreValid /\ StartOk(s) BY DEF VoucherInv, StartShape
<1>q. s \in Process /\ s # Cleaner /\ s # None /\ code[s] \in Code
  BY <1>a DEF Process, VoucherAssumption, Types
<1>0. p[s].pc = "cas" /\ UNCHANGED <<row, code, begun, paid, active>> /\ begun' \subseteq Session
  BY <1>a DEF ReserveCas, Types
<1>1. row[s] = NoRow /\ s \in begun \ paid /\ active BY <1>a, <1>0 DEF StartOk, Starting
<1>2. Faulted BY <1>a, FailsIsFaulted DEF ReserveCas, Faulted
<1>3. ASSUME NEW pc \in {"reserved", "casread"}, Go(s, pc)
      PROVE  /\ p' \in [Process -> Operations] /\ \A r \in Process : r # s => p'[r] = p[r]
             /\ p'[s].pc = pc /\ p'[s].snap = p[s].snap
  BY <1>a, <1>q, <1>3, GoEffect DEF Starting
<1>4. CASE UNCHANGED v /\ Go(s, "casread")
  <2>1. StartOk(s)' BY <1>a, <1>0, <1>1, <1>3, <1>4 DEF StartOk
  <2>2. CleanOk(s)' BY <1>3, <1>4 DEF CleanOk, Cleaning
  <2> QED BY <1>q, <1>0, <1>2, <1>3, <1>4, <2>1, <2>2, MemoryStep
<1>5. ASSUME Reservable(s), v' = [v EXCEPT ![code[s]] = [Free EXCEPT !.sid = s]],
             NEW pc \in {"reserved", "casread"}, Go(s, pc)
      PROVE  VoucherInv'
  <2> DEFINE x == [Free EXCEPT !.sid = s]
  <2>1. x \in VoucherRows /\ x.sid = s /\ x.target = FALSE /\ x.rc = NoReceipt
    BY ConstantTypes DEF VoucherRows, Free
  <2>2. v' = [v EXCEPT ![code[s]] = x] BY <1>5
  <2> HIDE DEF x
  <2>3. v'[code[s]] = x BY <1>a, <1>q, <2>2 DEF Types
  <2>4. /\ v[code[s]].sid = None
        /\ v[code[s]].rc # NoReceipt => row[v[code[s]].rc.sid] = NoRow
    BY <1>5 DEF Reservable
  <2>5. StartOk(s)' BY <1>a, <1>0, <1>1, <1>3, <1>5, <2>1, <2>3 DEF StartOk
  <2>6. CleanOk(s)' BY <1>3, <1>5 DEF CleanOk, Cleaning
  <2>7. ValidPair(x) BY <2>1 DEF ValidPair
  <2>8. ~Eligible(s) /\ row[s].st = "none" BY <1>1 DEF Eligible, NoRow
  <2> QED BY <1>q, <1>0, <1>1, <1>2, <1>3, <1>5, <2>1, <2>2, <2>4, <2>5, <2>6, <2>7, <2>8, CodeStep
<1> QED BY <1>4, <1>5 DEF ReserveCas

\* A start gives its code back.
LEMMA RollbackStep ==
  ASSUME VoucherAssumption, VoucherInv, NEW s \in Session, Rollback(s)
  PROVE  VoucherInv'
<1>a. Types /\ OwnersMatch /\ RowsAreValid /\ StartOk(s) BY DEF VoucherInv, StartShape
<1>q. s \in Process /\ s # Cleaner /\ s # None /\ code[s] \in Code
  BY <1>a DEF Process, VoucherAssumption, Types
<1>0. p[s].pc = "reserved" /\ UNCHANGED <<row, code, begun, paid, active>> /\ End(s)
  BY DEF Rollback
<1>1. /\ row[s] = NoRow /\ s \notin paid /\ active
      /\ v[code[s]].sid = s /\ ~v[code[s]].target
  BY <1>a, <1>0 DEF StartOk, Starting
<1>2. v[code[s]] = [Free EXCEPT !.sid = s] BY <1>a, <1>q, <1>1, LeaseOfOwner DEF Types, RowsAreValid
<1>3. Released(s) = Free BY <1>2 DEF Released
<1>4. Faulted BY <1>a, FailsIsFaulted DEF Rollback, Succeeds, Fails, Faulted
<1>5. CASE UNCHANGED v /\ faults' = faults + 1
  BY <1>a, <1>q, <1>0, <1>4, <1>5, EndStep, FailsIsFaulted
<1>6. CASE v' = [v EXCEPT ![code[s]] = Free]
  <2>1. /\ p' \in [Process -> Operations] /\ \A r \in Process : r # s => p'[r] = p[r]
        /\ p'[s] = Idle
    BY <1>a, <1>q, <1>0, EndEffect
  <2>2. p'[s].pc = "idle" /\ p'[s].snap.rc = NoReceipt BY <2>1 DEF Idle, Free
  <2>3. StartOk(s)' BY <2>2 DEF StartOk, Starting, Cleaning
  <2>4. CleanOk(s)' BY <2>2 DEF CleanOk, Cleaning
  <2>5. Free.sid = None /\ Free.rc = NoReceipt /\ ValidPair(Free) BY DEF Free, ValidPair
  <2>6. ~Eligible(s) /\ row[s].st = "none" BY <1>1 DEF Eligible, NoRow
  <2> QED BY <1>q, <1>0, <1>1, <1>4, <1>6, <2>1, <2>3, <2>4, <2>5, <2>6, CodeStep, ConstantTypes
<1> QED BY <1>3, <1>5, <1>6 DEF Rollback, Succeeds, Fails

\* A running session consumes its code.
LEMMA CompleteStep ==
  ASSUME VoucherAssumption, VoucherInv, NEW s \in Session, Complete(s)
  PROVE  VoucherInv'
<1>a. Types /\ OwnersMatch /\ RowsAreValid /\ RowShape /\ StartOk(s) /\ LiveSessionHoldsCode /\ PaidIsConsumed
  BY DEF VoucherInv, StartShape
<1>q. s \in Process /\ s # Cleaner /\ s # None /\ code[s] \in Code
  BY <1>a DEF Process, VoucherAssumption, Types
<1>0. /\ row[s].st = "running" /\ p[s].pc = "idle" /\ UNCHANGED <<row, code, begun, paid, active>>
      /\ begun' \subseteq Session
  BY <1>a DEF Complete, Types
<1> DEFINE x == Consumed(s)
<1>1. v[code[s]] \in VoucherRows /\ v[code[s]].sid = s /\ ValidPair(v[code[s]])
  BY <1>a, <1>q, <1>0 DEF Types, LiveSessionHoldsCode, RowsAreValid
<1>2. /\ x \in VoucherRows /\ x.sid = s /\ x.target /\ ValidPair(x)
      /\ x.rc # NoReceipt => x.rc.sid \in Session
  <2>1. CASE v[code[s]].target
    <3>1. v[code[s]] # [Free EXCEPT !.sid = s] BY <2>1 DEF Free
    <3>2. x = v[code[s]] BY <3>1 DEF Consumed
    <3> QED BY <1>a, <1>q, <1>1, <2>1, <3>2 DEF OwnersMatch
  <2>2. CASE ~v[code[s]].target
    <3>1. x = [Free EXCEPT !.sid = s, !.target = TRUE] BY <1>1, <2>2, LeaseOfOwner DEF Consumed
    <3>2. x \in VoucherRows /\ x.sid = s /\ x.target /\ x.rc = NoReceipt
      BY <3>1, ConstantTypes DEF VoucherRows, Free
    <3> QED BY <3>2 DEF ValidPair
  <2> QED BY <2>1, <2>2
<1> HIDE DEF x
<1>3. Faulted BY <1>a, FailsIsFaulted DEF Complete, Succeeds, Fails, Faulted
<1>4. CASE UNCHANGED <<v, p>>
  <2>1. StartOk(s)' BY <1>a, <1>0, <1>4 DEF StartOk
  <2>2. CleanOk(s)' BY <1>0, <1>4 DEF CleanOk, Cleaning
  <2>3. p' \in [Process -> Operations] BY <1>a, <1>4 DEF Types
  <2> QED BY <1>q, <1>0, <1>3, <1>4, <2>1, <2>2, <2>3, MemoryStep
<1>5. ASSUME v' = [v EXCEPT ![code[s]] = x], p' = [p EXCEPT ![s].pc = "completing"] \/ UNCHANGED p
      PROVE  VoucherInv'
  <2>1. /\ p' \in [Process -> Operations] /\ \A r \in Process : r # s => p'[r] = p[r]
        /\ p'[s].pc \in {"idle", "completing"} /\ p'[s].snap = p[s].snap
    BY <1>a, <1>q, <1>0, <1>5 DEF Types, Operations
  <2>2. v'[code[s]] = x BY <1>a, <1>q, <1>5 DEF Types
  <2>3. StartOk(s)' BY <1>a, <1>0, <1>2, <2>1, <2>2 DEF StartOk, Starting, Cleaning
  <2>4. CleanOk(s)' BY <2>1 DEF CleanOk, Cleaning
  <2>5. ~Eligible(s) BY <1>0 DEF Eligible
  <2> QED BY <1>q, <1>0, <1>1, <1>2, <1>3, <1>5, <2>1, <2>3, <2>4, <2>5, CodeStep
<1> QED BY <1>2, <1>4, <1>5 DEF Complete, Succeeds, Fails, x

\* A cleanup settles the code of its candidate.
LEMMA SettleVoucherStep ==
  ASSUME VoucherAssumption, VoucherInv, NEW q \in Process, SettleVoucher(q)
  PROVE  VoucherInv'
<1>a. /\ Types /\ OwnersMatch /\ RowsAreValid /\ RowShape /\ StartShape /\ CleanShape /\ CleanOk(q)
      /\ PaidIsConsumed
  BY DEF VoucherInv, CleanShape
<1>p. PICK s : s = p[q].cand OBVIOUS
<1> DEFINE x == Settled(p[q].snap, s)
<1>0. /\ p[q].pc \in {"release", "settle"} /\ UNCHANGED <<row, code, begun, paid, active>>
  BY DEF SettleVoucher
<1>1. /\ p[q].pc \in Cleaning /\ s \in Session /\ Ended(s) /\ s # q /\ s # None /\ code[s] \in Code
      /\ v[code[s]] \in VoucherRows /\ ValidPair(v[code[s]]) /\ p[q] \in Operations
  BY <1>a, <1>p, <1>0 DEF CleanOk, Cleaning, Ended, VoucherAssumption, Types, RowsAreValid
<1>2. /\ q \in Session => row[q] = NoRow /\ q \in begun \ paid /\ active
      /\ q \in Session /\ p[q].snap.rc # NoReceipt => p[q].snap.rc.sid \in Session
  BY <1>a, <1>1 DEF StartShape, StartOk
<1>3. Faulted BY <1>a, FailsIsFaulted DEF SettleVoucher, Succeeds, Fails, Faulted
<1> DEFINE pc == IF p[q].pc = "release" THEN "verify" ELSE "confirm"
<1>4. CASE UNCHANGED <<v, faults>> /\ Go(q, pc)
  <2>1. /\ p' \in [Process -> Operations] /\ \A r \in Process : r # q => p'[r] = p[r]
        /\ p'[q].pc \in {"verify", "confirm"} /\ p'[q].cand = s /\ p'[q].snap = p[q].snap /\ p'[q].ret = p[q].ret
    BY <1>a, <1>p, <1>4, GoEffect DEF Cleaning
  <2> QED BY <1>p, <1>0, <1>1, <1>2, <1>4, <2>1, CleanupGoesOn DEF Cleaning
<1>5. CASE UNCHANGED v /\ End(q) BY <1>0, <1>3, <1>5, EndStep
<1>6. CASE v' = [v EXCEPT ![code[s]] = x] /\ Unchanged(p[q].snap, s) /\ (Go(q, pc) \/ End(q))
  <2>1. /\ p' \in [Process -> Operations] /\ \A r \in Process : r # q => p'[r] = p[r]
        /\ \/ p'[q].pc \in {"verify", "confirm"} /\ p'[q].cand = s /\ p'[q].snap = p[q].snap /\ p'[q].ret = p[q].ret
           \/ p'[q] = Idle
    BY <1>a, <1>p, <1>6, GoEffect, EndEffect DEF Cleaning
  <2>2. Idle.pc = "idle" /\ Idle.snap.rc = NoReceipt BY DEF Idle, Free
  <2>3. Ended(s)' BY <1>0, <1>1, <2>1 DEF Ended, Process
  <2>4. CleanOk(q)' BY <1>a, <1>p, <1>1, <2>1, <2>2, <2>3 DEF CleanOk, Cleaning
  <2>5. q \in Session => StartOk(q)' BY <1>0, <1>2, <2>1, <2>2 DEF StartOk, Starting, Cleaning
  <2>6. p'[q].pc \in {"idle"} \union Cleaning /\ p[q].pc # "idle" BY <1>0, <2>1, <2>2 DEF Cleaning
  <2>7. v[code[s]].sid = s /\ v[code[s]].target = p[q].snap.target /\ Eligible(s) BY <1>6 DEF Unchanged
  <2>8. Receipt(s, p[q].snap) \in Receipts
    BY <1>1, <2>7 DEF Receipt, Receipts, VoucherState, Eligible
  <2>9. Receipt(s, p[q].snap).sid = s /\ Receipt(s, p[q].snap).st = row[s].st
        /\ Receipt(s, p[q].snap) # NoReceipt
    BY <1>1 DEF Receipt, NoReceipt
  <2> DEFINE rc == Receipt(s, p[q].snap)
  <2>10. CASE row[s].st = "failed"
    <3>1. x = [Free EXCEPT !.rc = rc] BY <1>6, <2>10 DEF Settled, ReleaseFailedReservation
    <3>2. x \in VoucherRows /\ x.sid = None /\ x.target = FALSE /\ x.rc = rc
      BY <2>8, <3>1, ConstantTypes DEF VoucherRows, Free
    <3> HIDE DEF x, rc
    <3>3. v'[code[s]] = x /\ \A d \in Code : d # code[s] => v'[d] = v[d]
      BY <1>a, <1>1, <1>6 DEF Types
    <3>4. ValidPair(x) /\ VoucherState(x) = "available"
      BY <2>9, <2>10, <3>2 DEF ValidPair, VoucherState, rc
    <3>5. OwnedCodes(s)' = {} BY <1>a, <1>1, <3>2, <3>3 DEF OwnedCodes, OwnersMatch
    <3>6. ValidReplay(v[code[s]], s)'
      BY <1>0, <2>9, <2>10, <3>2, <3>3, <3>4, <3>5 DEF ValidReplay, ValidPair, VoucherState, rc
    <3>7. s \notin paid BY <1>a, <1>1, <2>10 DEF PaidIsConsumed
    <3> QED BY <1>0, <1>1, <1>3, <1>6, <2>1, <2>3, <2>4, <2>5, <2>6, <2>7, <2>9, <2>10, <3>2, <3>4, <3>6, <3>7,
               CodeStep DEF rc
  <2>11. CASE row[s].st # "failed"
    <3>1. row[s].st = "finished" /\ v[code[s]].target BY <1>a, <1>1, <2>7, <2>11 DEF Eligible, PaidIsConsumed
    <3>2. x = [v[code[s]] EXCEPT !.rc = rc]
      BY <1>6, <2>7, <2>11, <3>1 DEF Settled, ConsumeFinishedReservation, ConfirmFinishedReservation
    <3>3. x \in VoucherRows /\ x.sid = s /\ x.target /\ x.rc = rc BY <1>1, <2>7, <2>8, <3>1, <3>2 DEF VoucherRows
    <3> HIDE DEF x, rc
    <3>4. v'[code[s]] = x BY <1>a, <1>1, <1>6 DEF Types
    <3>5. ValidPair(x) BY <1>1, <2>9, <3>1, <3>3 DEF ValidPair, VoucherState, rc
    <3> QED BY <1>0, <1>1, <1>3, <1>6, <2>1, <2>3, <2>4, <2>5, <2>6, <2>7, <2>9, <3>1, <3>3, <3>4, <3>5,
               CodeStep DEF rc
  <2> QED BY <2>10, <2>11
<1>7. CASE v' = [v EXCEPT ![code[s]] = x] /\ ~Unchanged(p[q].snap, s)
  <2>1. x = v[code[s]]
    BY <1>7 DEF Settled, ReleaseFailedReservation, ConsumeFinishedReservation, ConfirmFinishedReservation
  <2> HIDE DEF x
  <2>2. v' = v BY <1>a, <1>1, <1>7, <2>1 DEF Types
  <2> QED BY <1>p, <1>4, <1>5, <2>2 DEF SettleVoucher, Succeeds, Fails
<1> QED BY <1>p, <1>4, <1>5, <1>6, <1>7 DEF SettleVoucher, Succeeds, Fails

\* The row of session o changes.
LEMMA SessionRowStep ==
  ASSUME VoucherAssumption, VoucherInv, NEW q \in Process, NEW o \in begun,
         NEW y \in SessionRows, row' = [row EXCEPT ![o] = y],
         UNCHANGED <<v, code, begun, active>>, Faulted,
         paid' = paid \/ paid' = paid \union {o},
         p' \in [Process -> Operations], \A r \in Process : r # q => p'[r] = p[r],
         q \in Session => StartOk(q)', CleanOk(q)',
         q = Cleaner => p'[q].pc \in {"idle"} \union Cleaning,
         p[q].pc = "idle" => p'[q].pc = "idle",
         q = o \/ (Ended(o) /\ p[q].pc \in Cleaning),
         y.st = "none" => y = NoRow, y.st = "running" => y.claim = "none",
         y.st \in {"running", "claiming"} =>
           v[code[o]].sid = o /\ (y.st = "claiming" => v[code[o]].target),
         o \in paid' => v[code[o]].sid = o /\ v[code[o]].target /\ y.st \in {"none", "finished"},
         y.st = "finished" => o \in paid',
         Ended(o) => y = NoRow,
         y # NoRow => y.st \in {"running", "claiming"} \/ v[code[o]].sid = o,
         y = NoRow => v[code[o]].sid # o \/ v[code[o]].target
  PROVE  VoucherInv'
<1>a. /\ Types /\ OwnersMatch /\ RowsAreValid /\ RowShape /\ LiveSessionHoldsCode /\ PaidIsConsumed
      /\ StartShape /\ CleanShape /\ EndedIsCleanable /\ LeaseIsOwned
  BY DEF VoucherInv
<1>o. o \in Session /\ row'[o] = y /\ \A s \in Session : s # o => row'[s] = row[s] /\ (s \in paid' <=> s \in paid)
  BY <1>a DEF Types
<1>1. Types' BY <1>a, <1>o DEF Types, Faulted
<1>2. OwnersMatch' /\ RowsAreValid' BY <1>a DEF OwnersMatch, RowsAreValid, ValidPair, VoucherState
<1>3. RowShape' BY <1>a, <1>o DEF RowShape
<1>4. LiveSessionHoldsCode' BY <1>a, <1>o DEF LiveSessionHoldsCode
<1>5. PaidIsConsumed' BY <1>a, <1>o DEF PaidIsConsumed
<1>6. StartShape'
  <2> SUFFICES ASSUME NEW s \in Session, s # q PROVE StartOk(s)' BY DEF StartShape
  <2>1. StartOk(s) /\ p'[s] = p[s] BY <1>a DEF StartShape, Process
  <2>2. CASE s # o BY <1>o, <2>1, <2>2 DEF StartOk
  <2>3. CASE s = o BY <2>1, <2>3 DEF StartOk, Ended, Starting, Cleaning
  <2> QED BY <2>2, <2>3
<1>7. CleanShape'
  <2>1. ASSUME NEW r \in Process, r # q PROVE CleanOk(r)'
    <3> SUFFICES ASSUME p[r].pc \in Cleaning PROVE CleanOk(r)' BY <2>1 DEF CleanOk
    <3> DEFINE s == p[r].cand
    <3>1. s \in Session /\ Ended(s) /\ s \in Process /\ p'[r] = p[r]
      BY <1>a, <2>1 DEF CleanShape, CleanOk, Process
    <3>2. Ended(s)' BY <1>o, <3>1 DEF Ended, NoRow
    <3>3. row[s] = NoRow => row'[s] = NoRow BY <1>o, <3>1
    <3> QED BY <1>a, <2>1, <3>1, <3>2, <3>3 DEF CleanShape, CleanOk
  <2>2. p'[Cleaner].pc \in {"idle"} \union Cleaning BY <1>a DEF CleanShape, Process
  <2> QED BY <2>1, <2>2 DEF CleanShape
<1>8. EndedIsCleanable'
  <2> SUFFICES ASSUME NEW s \in Session, Eligible(s)'
               PROVE  (v[code[s]].sid = s \/ ValidReplay(v[code[s]], s))'
    BY DEF EndedIsCleanable
  <2>1. CASE s = o BY <1>o, <2>1 DEF Eligible, NoRow
  <2>2. CASE s # o
    BY <1>a, <1>o, <2>2 DEF EndedIsCleanable, Eligible, ValidReplay, ValidPair, VoucherState, OwnedCodes
  <2> QED BY <2>1, <2>2
<1>9. LeaseIsOwned'
  <2>0. faults' = 0 => faults = 0 BY DEF Faulted
  <2> SUFFICES ASSUME faults' = 0, faults = 0, active, NEW d \in Code, VoucherState(v[d]) = "leased",
                      row'[v[d].sid] = NoRow
               PROVE  p'[v[d].sid].pc = "reserved" \/ p'[v[d].sid].pc = "casread"
    BY <2>0 DEF LeaseIsOwned, VoucherState
  <2>1. v[d].sid \in Session /\ ~v[d].target /\ code[v[d].sid] = d
    BY <1>a DEF VoucherState, Types, VoucherRows, OwnersMatch
  <2>2. v[d].sid # o BY <1>o, <2>1
  <2>3. p[v[d].sid].pc \in {"reserved", "casread"} BY <1>a, <1>o, <2>1, <2>2 DEF LeaseIsOwned
  <2>4. v[d].sid # q BY <2>2, <2>3 DEF Cleaning
  <2> QED BY <2>1, <2>3, <2>4 DEF Process
<1> QED BY <1>1, <1>2, <1>3, <1>4, <1>5, <1>6, <1>7, <1>8, <1>9 DEF VoucherInv

\* The steps that change the status of a session.
LEMMA StatusSteps ==
  ASSUME VoucherAssumption, VoucherInv, NEW s \in Session,
         \/ StoreSession(s) \/ Claimable(s) \/ FailSession(s)
         \/ \E o \in {"confirmed", "failed", "reverted", "none"} : ClaimEnds(s, o)
  PROVE  VoucherInv'
<1>a. Types /\ RowShape /\ LiveSessionHoldsCode /\ PaidIsConsumed /\ StartOk(s)
  BY DEF VoucherInv, StartShape
<1>q. s \in Process /\ s # Cleaner /\ row[s] \in SessionRows BY <1>a DEF Process, VoucherAssumption, Types
<1>0. UNCHANGED <<v, code, begun, active>> /\ Faulted
  BY DEF StoreSession, Claimable, FailSession, ClaimEnds, Faulted
<1>p. p[s].pc \in {"idle", "completing"} \union Starting \union Cleaning BY <1>a, <1>q DEF Types, Operations
<1>e. ASSUME End(s)
      PROVE  /\ p' \in [Process -> Operations] /\ \A r \in Process : r # s => p'[r] = p[r]
             /\ p'[s].pc = "idle" /\ StartOk(s)' /\ CleanOk(s)'
  <2>1. /\ p' \in [Process -> Operations] /\ \A r \in Process : r # s => p'[r] = p[r]
        /\ p'[s] = Idle
    BY <1>a, <1>q, <1>e, EndEffect
  <2>2. p'[s].pc = "idle" /\ p'[s].snap.rc = NoReceipt BY <2>1 DEF Idle, Free
  <2>3. StartOk(s)' BY <2>2 DEF StartOk, Starting, Cleaning
  <2>4. CleanOk(s)' BY <2>2 DEF CleanOk, Cleaning
  <2> QED BY <2>1, <2>2, <2>3, <2>4
<1>1. CASE StoreSession(s)
  <2> DEFINE y == [st |-> "running", claim |-> "none"]
  <2>1. p[s].pc = "reserved" /\ row' = [row EXCEPT ![s] = y] /\ paid' = paid BY <1>1 DEF StoreSession
  <2>2. s \in begun \ paid /\ v[code[s]].sid = s /\ ~Ended(s)
    BY <1>a, <2>1 DEF StartOk, Starting, Ended
  <2>3. y \in SessionRows /\ y.st = "running" /\ y.claim = "none" /\ y # NoRow BY DEF SessionRows, NoRow
  <2> HIDE DEF y
  <2> QED BY <1>1, <1>q, <1>0, <1>e, <2>1, <2>2, <2>3, SessionRowStep DEF StoreSession
<1>2. CASE Claimable(s)
  <2> DEFINE y == [row[s] EXCEPT !.st = "claiming", !.claim = "pending"]
  <2>1. p[s].pc = "completing" /\ row' = [row EXCEPT ![s] = y] /\ paid' = paid
    BY <1>2, <1>a, <1>q DEF Claimable, Types, SessionRows
  <2>2. row[s].st = "running" /\ v[code[s]].sid = s /\ v[code[s]].target BY <1>a, <2>1 DEF StartOk
  <2>3. y \in SessionRows /\ y.st = "claiming" /\ y # NoRow BY <1>q DEF SessionRows, NoRow
  <2>4. s \in begun \ paid /\ ~Ended(s) BY <1>a, <2>2 DEF RowShape, NoRow, PaidIsConsumed, Ended
  <2> HIDE DEF y
  <2> QED BY <1>2, <1>q, <1>0, <1>e, <2>1, <2>2, <2>3, <2>4, SessionRowStep DEF Claimable
<1>3. CASE FailSession(s)
  <2> DEFINE y == [row[s] EXCEPT !.st = "failed"]
  <2>1. row[s].st = "running" /\ row' = [row EXCEPT ![s] = y] /\ paid' = paid
    BY <1>3, <1>a, <1>q DEF FailSession, Types, SessionRows
  <2>2. v[code[s]].sid = s BY <1>a, <2>1 DEF LiveSessionHoldsCode
  <2>3. y \in SessionRows /\ y.st = "failed" /\ y # NoRow BY <1>q DEF SessionRows, NoRow
  <2>4. s \in begun \ paid /\ ~Ended(s) BY <1>a, <2>1 DEF RowShape, NoRow, PaidIsConsumed, Ended
  <2> HIDE DEF y
  <2> QED BY <1>3, <1>q, <1>0, <1>e, <2>1, <2>2, <2>3, <2>4, SessionRowStep DEF FailSession
<1>4. ASSUME NEW o \in {"confirmed", "failed", "reverted", "none"}, ClaimEnds(s, o) PROVE VoucherInv'
  <2> DEFINE y == [st |-> IF o = "confirmed" THEN "finished" ELSE "failed", claim |-> o]
  <2>1. row[s].st = "claiming" /\ row' = [row EXCEPT ![s] = y] /\ p' = p
        /\ paid' = IF o = "confirmed" THEN paid \union {s} ELSE paid
    BY <1>4 DEF ClaimEnds
  <2>2. v[code[s]].sid = s /\ v[code[s]].target BY <1>a, <2>1 DEF LiveSessionHoldsCode
  <2>3. y \in SessionRows /\ y.st \in {"failed", "finished"} /\ y # NoRow
        /\ (y.st = "finished" <=> o = "confirmed")
    BY DEF SessionRows, NoRow
  <2>4. s \in begun \ paid /\ ~Ended(s) /\ row[s] # NoRow BY <1>a, <2>1 DEF RowShape, NoRow, PaidIsConsumed, Ended
  <2>5. p[s].pc = "idle" BY <1>a, <1>p, <2>1, <2>4 DEF StartOk
  <2>6. StartOk(s)' /\ CleanOk(s)' BY <1>a, <2>1, <2>5 DEF StartOk, CleanOk, Starting, Cleaning
  <2>7. p' \in [Process -> Operations] BY <1>a, <2>1 DEF Types
  <2> HIDE DEF y
  <2> QED BY <1>q, <1>0, <2>1, <2>2, <2>3, <2>4, <2>6, <2>7, SessionRowStep
<1> QED BY <1>1, <1>2, <1>3, <1>4

\* The row of a session that was cleaned up is deleted, and its start goes on.
LEMMA DeleteSessionStep ==
  ASSUME VoucherAssumption, VoucherInv, NEW q \in Process, DeleteSession(q)
  PROVE  VoucherInv'
<1>a. Types /\ RowShape /\ PaidIsConsumed /\ StartShape /\ CleanOk(q) BY DEF VoucherInv, CleanShape
<1>p. PICK s : s = p[q].cand OBVIOUS
<1>0. p[q].pc = "delete" /\ p[q].pc \in Cleaning /\ UNCHANGED <<v, code, begun, paid, active>>
  BY DEF DeleteSession, Cleaning
<1>1. /\ s \in Session /\ Ended(s) /\ s # q /\ p[q].ret \in IF q = Cleaner THEN {"end"} ELSE {"cas", "read"}
      /\ row[s] = NoRow \/ v[code[s]].sid # s \/ v[code[s]].target
  BY <1>a, <1>p, <1>0 DEF CleanOk, Ended
<1>2. /\ q \in Session => row[q] = NoRow /\ q \in begun \ paid /\ active
      /\ q \in Session /\ p[q].snap.rc # NoReceipt => p[q].snap.rc.sid \in Session
  BY <1>a, <1>0 DEF StartShape, StartOk
<1>3. Faulted BY <1>a, FailsIsFaulted DEF DeleteSession, Faulted
<1>4. /\ p' \in [Process -> Operations] /\ \A r \in Process : r # q => p'[r] = p[r]
      /\ \/ p'[q] = Idle
         \/ q # Cleaner /\ p'[q].pc \in {"cas", "read"} /\ p'[q].snap = p[q].snap
  <2>1. CASE End(q) BY <1>a, <2>1, EndEffect
  <2>2. CASE p[q].ret # "end" /\ p' = [p EXCEPT ![q].pc = p[q].ret]
    <3>1. q # Cleaner /\ p[q].ret \in {"cas", "read"} BY <1>1, <2>2
    <3> QED BY <1>a, <2>2, <3>1 DEF Types, Operations, Starting
  <2> QED BY <2>1, <2>2 DEF DeleteSession
<1>5. Idle.pc = "idle" /\ Idle.snap.rc = NoReceipt BY DEF Idle, Free
<1>6. row' = row \/ (Eligible(s) /\ row' = [row EXCEPT ![s] = NoRow]) BY <1>p DEF DeleteSession
<1>7. q \in Session => row'[q] = NoRow BY <1>a, <1>1, <1>2, <1>6 DEF Types
<1>8. q \in Session => StartOk(q)' BY <1>0, <1>2, <1>4, <1>5, <1>7 DEF StartOk, Starting, Cleaning
<1>9. CleanOk(q)' BY <1>4, <1>5 DEF CleanOk, Cleaning
<1>10. /\ p[q].pc \notin {"idle", "reserved", "casread"}
       /\ q = Cleaner => p'[q].pc \in {"idle"} \union Cleaning
       /\ begun' \subseteq Session
  BY <1>a, <1>0, <1>4, <1>5 DEF Types
<1>11. CASE row' = row BY <1>0, <1>3, <1>4, <1>8, <1>9, <1>10, <1>11, MemoryStep
<1>12. CASE Eligible(s) /\ row' = [row EXCEPT ![s] = NoRow]
  <2>1. s \in begun /\ (v[code[s]].sid # s \/ v[code[s]].target)
    BY <1>1, <1>12 DEF Ended, Eligible, NoRow
  <2>2. s \in paid => v[code[s]].sid = s /\ v[code[s]].target BY <1>a, <1>1 DEF PaidIsConsumed
  <2>3. NoRow.st = "none" BY DEF NoRow
  <2> QED BY <1>0, <1>1, <1>3, <1>4, <1>8, <1>9, <1>10, <1>12, <2>1, <2>2, <2>3, ConstantTypes, SessionRowStep
<1> QED BY <1>6, <1>11, <1>12

\* The process stops.
LEMMA CrashStep ==
  ASSUME VoucherAssumption, VoucherInv, Crash
  PROVE  VoucherInv'
<1>a. /\ Types /\ OwnersMatch /\ RowsAreValid /\ RowShape /\ LiveSessionHoldsCode /\ PaidIsConsumed
      /\ EndedIsCleanable
  BY DEF VoucherInv
<1>0. UNCHANGED <<v, row, code, begun, paid, faults>> /\ active' = FALSE BY DEF Crash
<1>p. \A q \in Process : p'[q] = Idle BY DEF Crash
<1>i. Idle.pc = "idle" /\ Idle.snap.rc = NoReceipt BY DEF Idle, Free
<1>1. Types' BY <1>a, ConstantTypes DEF Crash, Types
<1>2. OwnersMatch' /\ RowsAreValid' /\ RowShape' /\ LiveSessionHoldsCode' /\ PaidIsConsumed'
  BY <1>a, <1>0 DEF OwnersMatch, RowsAreValid, RowShape, LiveSessionHoldsCode, PaidIsConsumed, ValidPair, VoucherState
<1>3. StartShape' BY <1>p, <1>i DEF StartShape, StartOk, Process, Starting, Cleaning
<1>4. CleanShape' BY <1>p, <1>i DEF CleanShape, CleanOk, Process, Cleaning
<1>5. EndedIsCleanable'
  BY <1>a, <1>0 DEF EndedIsCleanable, Eligible, ValidReplay, ValidPair, OwnedCodes, VoucherState
<1>6. LeaseIsOwned' BY <1>0 DEF LeaseIsOwned
<1> QED BY <1>1, <1>2, <1>3, <1>4, <1>5, <1>6 DEF VoucherInv

\* After a restart the leases of sessions that were never stored are given back.
LEMMA StateRestoredStep ==
  ASSUME VoucherAssumption, VoucherInv, StateRestored
  PROVE  VoucherInv'
<1>a. /\ Types /\ OwnersMatch /\ RowsAreValid /\ RowShape /\ LiveSessionHoldsCode /\ PaidIsConsumed
      /\ StartShape /\ CleanShape /\ EndedIsCleanable
  BY DEF VoucherInv
<1>0. UNCHANGED <<row, code, p, begun, paid, faults>> /\ ~active /\ active' = TRUE BY DEF StateRestored
<1>v. \A c \in Code : v'[c] = IF c \in OrphanedLeases THEN Free ELSE v[c] BY DEF StateRestored
<1>f. Free.sid = None /\ Free.target = FALSE /\ Free.rc = NoReceipt BY DEF Free
<1>o. \A c \in Code : c \in OrphanedLeases <=>
        v[c].sid # None /\ ~v[c].target /\ v[c].rc = NoReceipt /\ row[v[c].sid] = NoRow
  BY DEF OrphanedLeases, VoucherState
<1>n. \A s \in Session : s # None /\ code[s] \in Code BY <1>a DEF VoucherAssumption, Types
<1>1. Types'
  <2>1. \A c \in Code : v'[c] \in VoucherRows BY <1>a, <1>v, ConstantTypes DEF Types
  <2>2. v' \in [Code -> VoucherRows] BY <2>1 DEF StateRestored
  <2> QED BY <1>a, <1>0, <2>2 DEF Types
<1>2. OwnersMatch' BY <1>a, <1>0, <1>v, <1>f DEF OwnersMatch
<1>3. RowsAreValid' BY <1>a, <1>v, <1>f DEF RowsAreValid, ValidPair, VoucherState
<1>4. RowShape' BY <1>a, <1>0 DEF RowShape
<1>5. LiveSessionHoldsCode' BY <1>a, <1>0, <1>v, <1>o, <1>n DEF LiveSessionHoldsCode, NoRow
<1>6. PaidIsConsumed' BY <1>a, <1>0, <1>v, <1>o, <1>n DEF PaidIsConsumed
<1>7. StartShape' BY <1>a, <1>0, <1>v, <1>o, <1>n DEF StartShape, StartOk, Starting
<1>8. CleanShape'
  <2>1. ASSUME NEW r \in Process PROVE CleanOk(r)'
    <3> SUFFICES ASSUME p[r].pc \in Cleaning PROVE CleanOk(r)' BY <1>0 DEF CleanOk
    <3> DEFINE s == p[r].cand
    <3>1. s \in Session /\ Ended(s) BY <1>a, <2>1 DEF CleanShape, CleanOk
    <3>2. Ended(s)' BY <1>0, <3>1 DEF Ended
    <3>3. v'[code[s]] = v[code[s]] \/ v'[code[s]].sid # s BY <1>v, <1>f, <1>n, <3>1
    <3> QED BY <1>a, <1>0, <2>1, <3>1, <3>2, <3>3 DEF CleanShape, CleanOk
  <2> QED BY <1>a, <1>0, <2>1 DEF CleanShape
<1>9. EndedIsCleanable'
  <2> SUFFICES ASSUME NEW s \in Session, Eligible(s)
               PROVE  (v[code[s]].sid = s \/ ValidReplay(v[code[s]], s))'
    BY <1>0 DEF EndedIsCleanable, Eligible
  <2>1. row[s] # NoRow /\ (v[code[s]].sid = s \/ ValidReplay(v[code[s]], s))
    BY <1>a DEF EndedIsCleanable, Eligible, NoRow
  <2>2. v'[code[s]] = v[code[s]] BY <1>v, <1>o, <1>n, <2>1 DEF ValidReplay
  <2>3. OwnedCodes(s)' = OwnedCodes(s) BY <1>v, <1>o, <1>f, <1>n, <2>1 DEF OwnedCodes
  <2> QED BY <1>0, <2>1, <2>2, <2>3 DEF ValidReplay, ValidPair, VoucherState
<1>10. LeaseIsOwned'
  <2> SUFFICES ASSUME NEW c \in Code, VoucherState(v'[c]) = "leased" PROVE row[v'[c].sid] # NoRow
    BY <1>0 DEF LeaseIsOwned, VoucherState
  <2>1. v'[c].sid # None /\ ~v'[c].target BY DEF VoucherState
  <2>2. c \notin OrphanedLeases /\ v'[c] = v[c] BY <1>v, <1>f, <2>1
  <2>3. v[c].rc = NoReceipt BY <1>a, <2>1, <2>2 DEF RowsAreValid, ValidPair, VoucherState
  <2> QED BY <1>o, <2>1, <2>2, <2>3
<1> QED BY <1>1, <1>2, <1>3, <1>4, <1>5, <1>6, <1>7, <1>8, <1>9, <1>10 DEF VoucherInv

\* Every step keeps the invariant.
LEMMA VoucherStep ==
  ASSUME VoucherAssumption, VoucherInv, [Next]_vars
  PROVE  VoucherInv'
<1>1. CASE UNCHANGED vars
  BY <1>1 DEF vars, VoucherInv, Types, OwnersMatch, RowsAreValid, RowShape, LiveSessionHoldsCode, PaidIsConsumed,
     StartShape, StartOk, CleanShape, CleanOk, Ended, EndedIsCleanable, LeaseIsOwned, Eligible, ValidReplay,
     ValidPair, OwnedCodes, VoucherState
<1>2. CASE Next
  <2>1. ASSUME NEW s \in Session,
               \/ Start(s) \/ ReserveRead(s) \/ ReserveReceipt(s) \/ ReserveFailed(s) \/ ReserveCas(s)
               \/ ReserveReconcile(s) \/ StoreSession(s) \/ Rollback(s) \/ Complete(s) \/ Claimable(s)
               \/ FailSession(s) \/ EndRefused(s) \/ CleanCandidate(s)
               \/ \E o \in {"confirmed", "failed", "reverted", "none"} : ClaimEnds(s, o)
        PROVE  VoucherInv'
    BY <2>1, ReadingSteps, ReserveCasStep, RollbackStep, CompleteStep, StatusSteps, CleanupReads
  <2>2. ASSUME NEW q \in Process,
               PrepareSessionCleanup(q) \/ SettleVoucher(q) \/ VerifySettled(q) \/ DeleteSession(q)
        PROVE  VoucherInv'
    BY <2>2, CleanupReads, SettleVoucherStep, DeleteSessionStep
  <2> QED BY <1>2, <2>1, <2>2, CrashStep, StateRestoredStep DEF Next
<1> QED BY <1>1, <1>2

\* The ownership of codes is an invariant of every start, takeover, cleanup and crash.
THEOREM VoucherInvariance == ASSUME VoucherAssumption PROVE Spec => []VoucherInv
<1>1. Init => VoucherInv BY InitVoucherInv
<1>2. VoucherInv /\ [Next]_vars => VoucherInv' BY VoucherStep
<1> QED BY <1>1, <1>2, PTL DEF Spec

\* Of the sessions that were paid with a code or may be paid there is at most one:
\* each of them is the owner that the row of the code names.
THEOREM VoucherPaysOnce == ASSUME VoucherAssumption PROVE Spec => []PaysOnce
<1>1. VoucherInv => PaysOnce
  <2> SUFFICES ASSUME VoucherInv, NEW c \in Code PROVE Cardinality(Using(c)) <= 1
    BY DEF PaysOnce
  <2>1. Using(c) \subseteq {v[c].sid}
    BY DEF Using, VoucherInv, LiveSessionHoldsCode, PaidIsConsumed
  <2>2. IsFiniteSet({v[c].sid}) /\ Cardinality({v[c].sid}) = 1 BY FS_Singleton
  <2> QED BY <2>1, <2>2, FS_Subset, FS_CardinalityType
<1> QED BY <1>1, VoucherInvariance, PTL

\* A live session holds its code, every row is one that the readers accept, and a session
\* that has ended can be cleaned up, whatever statement was lost.
THEOREM VoucherRowsAreSound ==
  ASSUME VoucherAssumption
  PROVE  Spec => [](LiveSessionHoldsCode /\ RowsAreValid /\ EndedIsCleanable /\ LeaseIsOwned /\ TypeOK)
<1>1. VoucherInv => LiveSessionHoldsCode /\ RowsAreValid /\ EndedIsCleanable /\ LeaseIsOwned BY DEF VoucherInv
<1>2. VoucherInv => TypeOK
  BY DEF VoucherInv, Types, TypeOK, VoucherRows, Receipts, SessionRows, Operations, Starting, Cleaning
<1> QED BY <1>1, <1>2, VoucherInvariance, PTL
=============================================================================
