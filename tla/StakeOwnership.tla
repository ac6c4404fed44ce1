--------------------------- MODULE StakeOwnership ---------------------------
(***************************************************************************)
(* Wallet verification for the stake boost of a running session: a signed, *)
(* single-use challenge, a stake lookup that may take long, and a marker   *)
(* that is stored as pending and then as active inside the chain in which  *)
(* rewards run.  Requests interleave, saves fail, the process restarts.    *)
(***************************************************************************)
EXTENDS Naturals, FiniteSets

CONSTANTS
    Requests,       \* verification requests for one session
    RequiredStake,  \* requiredStakeUsd > 0
    MaxChallenges,  \* bound: challenges issued
    Ttl,            \* OWNERSHIP_CHALLENGE_TTL_SECONDS
    MaxTime,        \* bound: seconds that pass
    MaxFaults,      \* bound: saves that fail
    MaxCrashes      \* bound: restarts of the process

OwnershipAssumption ==
    /\ RequiredStake \in BOOLEAN
    /\ {MaxChallenges, Ttl, MaxTime, MaxFaults, MaxCrashes} \subseteq Nat

VARIABLES
    now,
    status,     \* of the session: "none", "running" or "ended"
    memory,     \* "hlstake.ownership" and "hlstake.data" of the session
    stored,     \* what the database has of them
    challenge,  \* the session's entry of the challenge store: [id, expires]
    issued,     \* number of challenges issued
    req,        \* per request: where it is, its challenge, its signature and stake
    chain,      \* the request whose operation holds the reward chain
    used,       \* number of times each challenge passed claim()
    refreshing, \* when the refresh under way began, 0 for none
    told,       \* a request was answered with verified = true
    faults, crashes

vars == <<refreshing, now, status, memory, stored, challenge, issued, req, chain, used, told, faults, crashes>>

None == 0
Idle == [at |-> "idle", id |-> 0, expires |-> 0, good |-> FALSE, data |-> FALSE]
Blank == [marker |-> "none", data |-> FALSE, refresh |-> 0]
NoChallenge == [id |-> None, expires |-> 0]

Init ==
    /\ now = 1 /\ status = "none"
    /\ memory = Blank /\ stored = Blank
    /\ challenge = NoChallenge /\ issued = 0
    /\ req = [r \in Requests |-> Idle] /\ chain = None
    /\ used = [c \in 1 .. MaxChallenges |-> 0]
    /\ refreshing = 0 /\ told = FALSE /\ faults = 0 /\ crashes = 0

Verified(s) == s.marker = "active"

\* processSessionStart: the stake is looked up only where it is required, and the
\* session does not start without it.
SessionStart ==
    /\ status = "none"
    /\ status' = "running"
    /\ memory' = [memory EXCEPT !.data = RequiredStake]
    /\ stored' = memory'
    /\ UNCHANGED <<refreshing, now, challenge, issued, req, chain, used, told, faults, crashes>>

\* processGetStakeChallenge: a new challenge takes the place of the last one.
GetStakeChallenge ==
    /\ status = "running" /\ ~Verified(memory) /\ issued < MaxChallenges
    /\ issued' = issued + 1
    /\ challenge' = [id |-> issued + 1, expires |-> now + Ttl]
    /\ UNCHANGED <<refreshing, now, status, memory, stored, req, chain, used, told, faults, crashes>>

Claimed == NoChallenge

\* recoverStakeOwnershipSigner yields the session's address.
SignerMatches(good) == good

\* processVerifyStakeOwnership up to its lookup: the challenge is used up, whether
\* or not the signature is the wallet's.
VerifyStakeOwnership(r, good) ==
    /\ req[r].at = "idle" /\ status = "running" /\ ~Verified(memory)
    /\ challenge # NoChallenge
    /\ challenge' = Claimed
    /\ used' = IF now < challenge.expires THEN [used EXCEPT ![challenge.id] = @ + 1] ELSE used
    /\ req' = [req EXCEPT ![r] =
           IF now < challenge.expires /\ SignerMatches(good)
           THEN [at |-> "lookup", id |-> challenge.id, expires |-> challenge.expires,
                 good |-> good, data |-> FALSE]
           ELSE Idle]
    /\ UNCHANGED <<refreshing, now, status, memory, stored, issued, chain, told, faults, crashes>>

\* The stake is found, or is not: the wallet is verified either way.
LookedUp(r, found) ==
    /\ req[r].at = "lookup"
    /\ req' = [req EXCEPT ![r].at = "queued", ![r].data = found]
    /\ UNCHANGED <<refreshing, now, status, memory, stored, challenge, issued, chain, used, told, faults, crashes>>

\* Mutant: what was true before the lookup is not looked at again.
Unchecked(r) == TRUE
StillValid(r) == status = "running" /\ now < req[r].expires

\* The operation starts: the session and the challenge may be over by now.
BeginOperation(r) ==
    /\ req[r].at = "queued" /\ chain = None
    /\ IF StillValid(r)
       THEN /\ chain' = r
            /\ req' = [req EXCEPT ![r].at = "pending"]
            /\ memory' = [marker |-> "pending", data |-> req[r].data,
                          refresh |-> IF req[r].data THEN now ELSE 0]
       ELSE /\ req' = [req EXCEPT ![r] = Idle]
            /\ UNCHANGED <<chain, memory>>
    /\ UNCHANGED <<refreshing, now, status, stored, challenge, issued, used, told, faults, crashes>>

\* The pending marker is stored; only then does it become active, in memory first.
PendingSaved(r) ==
    /\ req[r].at = "pending"
    /\ stored' = memory
    /\ memory' = [memory EXCEPT !.marker = "active"]
    /\ req' = [req EXCEPT ![r].at = "active"]
    /\ UNCHANGED <<refreshing, now, status, challenge, issued, chain, used, told, faults, crashes>>

ActiveSaved(r) ==
    /\ req[r].at = "active"
    /\ stored' = memory
    /\ req' = [req EXCEPT ![r] = Idle]
    /\ chain' = None /\ told' = TRUE
    /\ UNCHANGED <<refreshing, now, status, memory, challenge, issued, used, faults, crashes>>

RolledBack == [memory EXCEPT !.marker = "pending"]

\* A save fails, applied or not.  An active marker is taken back and saved once more.
SaveFails(r, applied) ==
    /\ req[r].at \in {"pending", "active", "rollback"} /\ faults < MaxFaults
    /\ faults' = faults + 1
    /\ stored' = IF applied THEN memory ELSE stored
    /\ IF req[r].at = "active"
       THEN /\ memory' = RolledBack
            /\ req' = [req EXCEPT ![r].at = "rollback"]
            /\ chain' = chain
       ELSE /\ req' = [req EXCEPT ![r] = Idle]
            /\ chain' = None /\ memory' = memory
    /\ UNCHANGED <<refreshing, now, status, challenge, issued, used, told, crashes>>

RollbackSaved(r) ==
    /\ req[r].at = "rollback"
    /\ stored' = memory
    /\ req' = [req EXCEPT ![r] = Idle]
    /\ chain' = None
    /\ UNCHANGED <<refreshing, now, status, memory, challenge, issued, used, told, faults, crashes>>

\* processRefreshStakeInfo: only a verified session may refresh, and not before the
\* cooldown, which runs from the start of the last refresh.
RefreshStakeInfo ==
    /\ status = "running" /\ Verified(memory) /\ refreshing = 0 /\ memory.refresh < now
    /\ refreshing' = now
    /\ UNCHANGED <<now, status, memory, stored, challenge, issued, req, chain, used, told, faults, crashes>>

\* The answer is written when it comes, by then the session may be over; a failed
\* lookup leaves the session as it is.
Refreshed(found) ==
    /\ refreshing # 0
    /\ memory' = IF found THEN [memory EXCEPT !.data = TRUE, !.refresh = refreshing] ELSE memory
    /\ refreshing' = 0
    /\ UNCHANGED <<now, status, stored, challenge, issued, req, chain, used, told, faults, crashes>>

\* setSessionData schedules a save, which writes the session as it is by then.
LazySave ==
    /\ status = "running" /\ stored # memory
    /\ stored' = memory
    /\ UNCHANGED <<refreshing, now, status, memory, challenge, issued, req, chain, used, told, faults, crashes>>

ChainIsFree == chain = None

\* processSessionRewardFactor: a reward, with the boost if wallet and stake are known.
Boosted == Verified(memory) /\ memory.data
MayReward == status = "running" /\ ChainIsFree
Reward == MayReward /\ UNCHANGED vars

SessionEnds ==
    /\ status = "running" /\ chain = None
    /\ status' = "ended"
    /\ UNCHANGED <<refreshing, now, memory, stored, challenge, issued, req, chain, used, told, faults, crashes>>

\* The module is reloaded: challenges that were not answered are forgotten.
Reload ==
    /\ challenge # NoChallenge
    /\ challenge' = NoChallenge
    /\ UNCHANGED <<refreshing, now, status, memory, stored, issued, req, chain, used, told, faults, crashes>>

\* The process restarts: the running session is read from the database.
Restart ==
    /\ crashes < MaxCrashes
    /\ crashes' = crashes + 1
    /\ memory' = stored
    /\ challenge' = NoChallenge
    /\ req' = [r \in Requests |-> Idle]
    /\ chain' = None /\ refreshing' = 0
    /\ UNCHANGED <<now, status, stored, issued, used, told, faults>>

Tick ==
    /\ now < MaxTime
    /\ now' = now + 1
    /\ UNCHANGED <<refreshing, status, memory, stored, challenge, issued, req, chain, used, told, faults, crashes>>

Done == status = "ended" /\ UNCHANGED vars

Next ==
    \/ SessionStart \/ GetStakeChallenge \/ RefreshStakeInfo \/ LazySave \/ Reward
    \/ SessionEnds \/ Reload \/ Restart \/ Tick \/ Done \/ \E b \in BOOLEAN : Refreshed(b)
    \/ \E r \in Requests :
           \/ \E b \in BOOLEAN : VerifyStakeOwnership(r, b) \/ LookedUp(r, b) \/ SaveFails(r, b)
           \/ BeginOperation(r) \/ PendingSaved(r) \/ ActiveSaved(r) \/ RollbackSaved(r)

Spec == Init /\ [][Next]_vars

\* The steps that are weakly fair. Lookups have a timeout, saves return, and the reward
\* chain goes on.
Weak == {"lookup", "saved"} \X Requests
WeakStep(k) ==
  CASE k[1] = "lookup" -> \E b \in BOOLEAN : LookedUp(k[2], b)
    [] k[1] = "saved" -> PendingSaved(k[2]) \/ ActiveSaved(k[2]) \/ RollbackSaved(k[2])
\* Strongly fair are those that others may disable now and then: the queue gets to them.
Strong == {"caller"}
StrongStep(k) == k \in Strong /\ \E r \in Requests : BeginOperation(r)

-----------------------------------------------------------------------------

TypeOK ==
    /\ now \in 1 .. MaxTime /\ status \in {"none", "running", "ended"}
    /\ memory.marker \in {"none", "pending", "active"}
    /\ stored.marker \in {"none", "pending", "active"}
    /\ challenge.id \in 0 .. issued /\ issued \in 0 .. MaxChallenges
    /\ \A r \in Requests :
           req[r].at \in {"idle", "lookup", "queued", "pending", "active", "rollback"}
    /\ chain \in {None} \cup Requests /\ told \in BOOLEAN

\* A session counts as verified, in memory or in the database, only if the wallet
\* itself signed one of its challenges.
ActiveIsProvenStep ==
    /\ ~Verified(memory) /\ Verified(memory') =>
           \/ \E r \in Requests : req[r].at = "pending" /\ req[r].good
           \/ Verified(stored)
    /\ ~Verified(stored) /\ Verified(stored') => Verified(memory)

\* A challenge is accepted at most once, however many requests carry it.
ChallengeIsUsedOnce == \A c \in 1 .. MaxChallenges : used[c] <= 1

\* A reward sees a verified wallet only when the database has it too: a boost is
\* never granted on a marker whose save failed or is under way.
BoostIsStored ==
    MayReward /\ Boosted => Verified(stored)

\* A verification that was answered is there for every later reward, as long as no
\* save fails and no restart cuts a second verification of the session short.
AnsweredIsKept ==
    told /\ faults = 0 /\ crashes = 0 /\ chain = None => Verified(memory) /\ Verified(stored)

\* The verification is written only to a running session and before the challenge
\* expires, although both may end while the stake is looked up.
WrittenInTimeStep ==
    \A r \in Requests : req[r].at = "queued" /\ req'[r].at = "pending"
        => status = "running" /\ now < req[r].expires

\* What comes in the end: every request is answered.
AtRest == \A r \in Requests : req[r].at = "idle"

=============================================================================
