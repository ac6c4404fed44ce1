-------------------------- MODULE MCClaimPool --------------------------
(***************************************************************************)
(* The claim pipeline over a MySQL pool, whose replies may overtake each   *)
(* other: three sessions, one of them of an older version, with RPC nodes  *)
(* that lag behind and a queue that waits for funds; and two handlers that *)
(* race for one session.                                                   *)
(***************************************************************************)
EXTENDS Slots, TLC

CONSTANTS
  s0, s1, s2, s3, r1, r2

Pool == INSTANCE EthClaimManager WITH
  OrderedReplies <- FALSE, MaxIdx <- 3, MaxSigned <- 2, MaxRestarts <- 1, MaxDbErrors <- 1,
  EthMaxPending <- 1, NoSession <- Unused, Sessions <- {s1, s2, s3}, Legacy <- {s3},
  Requests <- {r1}, EthQueueNoFunds <- TRUE, RpcLag <- 1,
  db <- x1, booked <- x2, pool <- x3, mined <- x4, chainNonce <- x5, phase <- x6, claims <- x7,
  dict <- x8, queue <- x9, pending <- x10, reserved <- x11, nonce <- x12, ready <- x13,
  nextIdx <- x14, task <- x15, stats <- x16, signed <- x17, restarts <- x18, dbErrors <- x19
Race == INSTANCE EthClaimManager WITH
  OrderedReplies <- FALSE, MaxIdx <- 3, MaxSigned <- 2, MaxRestarts <- 1, MaxDbErrors <- 1,
  EthMaxPending <- 1, NoSession <- Unused, Sessions <- {s0, s3}, Legacy <- {s3},
  Requests <- {r1, r2}, EthQueueNoFunds <- FALSE, RpcLag <- 0,
  db <- x1, booked <- x2, pool <- x3, mined <- x4, chainNonce <- x5, phase <- x6, claims <- x7,
  dict <- x8, queue <- x9, pending <- x10, reserved <- x11, nonce <- x12, ready <- x13,
  nextIdx <- x14, task <- x15, stats <- x16, signed <- x17, restarts <- x18, dbErrors <- x19

\* The sessions of "pool" that are not legacy are interchangeable.
Symmetry == Permutations({s1, s2})

Init ==
  \/ part = "pool" /\ Pool!Init /\ UnusedAfter(19)
  \/ part = "race" /\ Race!Init /\ UnusedAfter(19)
Next ==
  /\ UNCHANGED part
  /\ \/ part = "pool" /\ Pool!Next /\ KeepAfter(19)
     \/ part = "race" /\ Race!Next /\ KeepAfter(19)
Spec == Init /\ [][Next]_all

-----------------------------------------------------------------------------
\* A failed session is never paid, a finished one is paid and booked, one transaction exists per
\* session, ethMaxPending bounds the claims in flight, and a claim nobody owns is one whose
\* acknowledgement was lost: whatever reply comes late and whichever handler is first.
ClaimsAreSettled ==
  /\ part = "pool" =>
       Pool!FailedIsNeverPaid /\ Pool!FinishedIsPaidAndBooked /\ Pool!InFlightBound /\ Pool!UnownedOnlyByLostAck
  /\ part = "race" =>
       Race!DurableBeforeBroadcast /\ Race!AtMostOnePayout /\ Race!UnownedOnlyByLostAck
=============================================================================
