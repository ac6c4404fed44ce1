-------------------------- MODULE MCPoW --------------------------
(***************************************************************************)
(* Instances of the proof-of-work components: the validator of the server, *)
(* the verification of shares by the server and by other miners, the       *)
(* servers sessions are placed on, the miner in the browser and its        *)
(* connection.                                                             *)
(***************************************************************************)
EXTENDS Slots, TLC

CONSTANTS
  sa, sb, pa, pb, y1, y2, y3, y4

Validator == INSTANCE PoWValidator WITH
  Session <- {sa, sb}, SharesPerSession <- 3, MaxGlobalPending <- 3, MaxSessionPending <- 2,
  MaxFaults <- 1, NoShare <- Unused,
  v <- x1, worker <- x2, job <- x3, answer <- x4, tail <- x5, result <- x6, faults <- x7
Verification == INSTANCE PoWVerification WITH
  Session <- {sa, sb}, MaxNonce <- 1, MaxShares <- 2, Individuals <- 1, MaxMissed <- 1,
  MaxPending <- 1, MaxConnects <- 0,
  sess <- x1, share <- x2, task <- x3, penalty <- x4, paid <- x5, connects <- x6
Servers == INSTANCE PoWServer WITH
  Server <- {pa, pb}, Session <- {sa, sb}, SessionsPerServer <- 1, MaxFaults <- 1, NoServer <- Unused,
  srv <- x1, sess <- x2, op <- x3, destroy <- x4, accepting <- x5, faults <- x6
Miner == INSTANCE PoWMiner WITH
  Worker <- {y1, y2, y3, y4}, Params <- {"p", "q"}, OtherAlgo <- {"q"}, Prefill <- 2,
  MaxNonce <- 3, MaxCount <- 2, MaxChanges <- 2, MaxQueue <- 2, None <- Unused,
  params <- x1, workers <- x2, wanted <- x3, w <- x4, nonceQueue <- x5, lastSave <- x6,
  nextNonce <- x7, changes <- x8, hashed <- x9, found <- x10, sent <- x11
Connection == INSTANCE MinerConnection WITH
  MaxShares <- 4, MaxVerify <- 2, MaxDrops <- 2, DropsInFlight <- TRUE,
  status <- x1, timer <- x2, requests <- x3, wire <- x4, shareQueue <- x5, processing <- x6,
  verifyQueue <- x7, worker <- x8, jobs <- x9, closing <- x10, nextShare <- x11, nextVerify <- x12,
  drops <- x13, params <- x14, serverParams <- x15, sentShares <- x16, answered <- x17

ASSUME BoundsAssumption ==
  /\ Validator!LimitsAssumption /\ Verification!BoundsAssumption /\ Servers!BoundsAssumption
  /\ Miner!BoundAssumption /\ Connection!BoundAssumption

\* The sessions and the servers are interchangeable.
Symmetry == Permutations({sa, sb}) \cup Permutations({pa, pb})

Init ==
  \/ part = "validator" /\ Validator!Init /\ UnusedAfter(7)
  \/ part = "verification" /\ Verification!Init /\ UnusedAfter(6)
  \/ part = "server" /\ Servers!Init /\ UnusedAfter(6)
  \/ part = "miner" /\ Miner!Init /\ UnusedAfter(11)
  \/ part = "connection" /\ Connection!Init /\ UnusedAfter(17)
Next ==
  /\ UNCHANGED part
  /\ \/ part = "validator" /\ Validator!Next /\ KeepAfter(7)
     \/ part = "verification" /\ Verification!Next /\ KeepAfter(6)
     \/ part = "server" /\ Servers!Next /\ KeepAfter(6)
     \/ part = "miner" /\ Miner!Next /\ KeepAfter(11)
     \/ part = "connection" /\ Connection!Next /\ KeepAfter(17)
Spec == Init /\ [][Next]_all

-----------------------------------------------------------------------------
\* The validator loses no share between its maps and serves the sessions in turn, wakes up
\* when there is work, and has one worker that computes the active share and nothing else.
ValidatorIsFair ==
  part = "validator" =>
    /\ Validator!TypeOK /\ Validator!PendingIsScheduled /\ Validator!TurnsAreFair /\ Validator!WakeUpIsSet
    /\ Validator!SessionShare /\ Validator!OneWorker /\ Validator!WorkerIsExclusive /\ Validator!DisposedHasNoWorker

\* Every open decision about a miner holds the close of its session exactly once, a share is
\* paid at most once to its finder and to each verifier, and a proven fault ends in a slashed close;
\* a session never leaves the worker by a benign close while a decision about it is open.
SharesAreJudged ==
  /\ [](part = "verification" =>
          /\ Verification!TypeOK /\ Verification!GuardsBalanced /\ Verification!PendingIsOwed /\ Verification!PaidOnce
          /\ Verification!ListedIsOpen /\ Verification!FaultIsSlashed)
  /\ [][part = "verification" => Verification!BenignCloseIsCleanStep]_all

\* Sessions stay within the capacity of their server, are destroyed only when nothing they
\* reported is still being applied, and leave no ghost in a child; a server that is off the
\* list is quiet, and none is added once the producers are stopped.
SessionsArePlaced ==
  /\ [](part = "server" =>
          /\ Servers!TypeOK /\ Servers!Placement /\ Servers!DestroyAfterOperations /\ Servers!NoGhostSession
          /\ Servers!StoppedIsQuiet)
  /\ [][part = "server" => Servers!QuiescedStaysStep]_all

\* The miner tries no nonce twice and submits its shares in increasing order of their nonces,
\* each one found under the parameters it is submitted with.
MinerIsExact ==
  part = "miner" => Miner!TypeOK /\ Miner!NoNonceTwice /\ Miner!SharesIncrease /\ Miner!SharesAreFound

\* Shares and verdicts reach the server in order, across lost connections, and a client that was
\* stopped sends nothing more, whatever timers and events are still to come.
ConnectionKeepsOrder ==
  /\ [](part = "connection" => Connection!TypeOK /\ Connection!SharesInOrder /\ Connection!VerdictsInOrder)
  /\ [][part = "connection" => Connection!StoppedForGoodStep]_all
=============================================================================
