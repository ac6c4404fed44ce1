----------------------------- MODULE ClaimLedger -----------------------------
(***************************************************************************)
(* What the claim pipeline promises, without queue, signatures, tasks or   *)
(* retries: a session is paid at most once, only while its row is claiming,*)
(* a failed session is never paid, and a session is finished only after it *)
(* was paid and its payout was accounted for.  EthClaimManager implements  *)
(* this specification.                                                     *)
(***************************************************************************)
CONSTANTS Sessions,   \* the sessions of the faucet
          Legacy      \* sessions whose claim was written by an older version

VARIABLES row,        \* row[s]: the durable status of session s
          paid,       \* sessions whose payout is on the chain
          booked      \* sessions whose payout the accounting hooks recorded

ledger == <<row, paid, booked>>

LedgerInit ==
  /\ row = [s \in Sessions |-> IF s \in Legacy THEN "claiming" ELSE "claimable"]
  /\ paid = {}
  /\ booked = {}

\* The user claims the reward of a claimable session.
Claim(s) ==
  /\ row[s] = "claimable"
  /\ row' = [row EXCEPT ![s] = "claiming"]
  /\ UNCHANGED <<paid, booked>>

\* The payout transaction of a claiming session succeeds on the chain.
Pay(s) ==
  /\ row[s] = "claiming" /\ s \notin Legacy /\ s \notin paid
  /\ paid' = paid \union {s}
  /\ UNCHANGED <<row, booked>>

\* The SessionClaimed hooks account for the payout; they may be repeated.
Book(s) ==
  /\ s \in paid
  /\ booked' = booked \union {s}
  /\ UNCHANGED <<row, paid>>

\* The session is finished: only after payout and accounting.
Finish(s) ==
  /\ row[s] = "claiming" /\ s \in paid /\ s \in booked
  /\ row' = [row EXCEPT ![s] = "finished"]
  /\ UNCHANGED <<paid, booked>>

\* The session fails: only if no payout happened, and none can follow.
Fail(s) ==
  /\ row[s] \in {"claimable", "claiming"} /\ s \notin Legacy /\ s \notin paid
  /\ row' = [row EXCEPT ![s] = "failed"]
  /\ UNCHANGED <<paid, booked>>

LedgerNext ==
  \E s \in Sessions : Claim(s) \/ Pay(s) \/ Book(s) \/ Finish(s) \/ Fail(s)

LedgerSpec == LedgerInit /\ [][LedgerNext]_ledger
=============================================================================
