----------------------------- MODULE IPRestriction -----------------------------
(***************************************************************************)
(* modules/ipinfo and modules/whitelist: what the address of a session     *)
(* does to its reward.  Rules on the provider's information come from the  *)
(* configuration, rules on the address from a file that is read again when *)
(* it is older than its refresh interval; the strictest of all that match  *)
(* applies.  It is computed when the session starts, when it moves to      *)
(* another address and, at a reward, when the stored one is too old.  A    *)
(* session that was on the whitelist once skips all of this.               *)
(***************************************************************************)
EXTENDS Integers, Sequences, FiniteSets, SequencesExt

CONSTANTS
  Ip, Entry,       \* entries: [reward, blocked], as the configuration writes them
  Full,            \* the reward of a session without restriction (100 percent)
  Timeout,         \* sessionRewardFactorCacheTimeout
  Refresh,         \* restrictionsFile.refresh, and the one of the whitelist file
  Required,        \* the configuration requires information on the address
  MaxTime, MaxChanges,
  None

TimeAssumption == Timeout \in Nat /\ Refresh \in Nat \ {0} /\ Full \in Nat
EntryAssumption ==
  Entry \subseteq [reward : 0..Full, blocked : {"no", "true", "close", "kill"}]

VARIABLES
  now,
  info,         \* configuration: address -> entry its information matches, or None
  file, loaded, refreshed,      \* the file, ipInfoMatchRestrictions and its refresh time
  white, whiteLoaded, whiteRefreshed,
  status,       \* none, running, completed (closed), failed (killed)
  ip,           \* the session's remote address
  skip,         \* session data skip.modules contains the module
  data,         \* session data ipinfo.data: the address it is about and whether it is known
  restr, rtime, \* module references ipinfo.restriction.data and .time; None and 0 when absent
  moving,       \* hooks under way: None or [from, start]
  changes,
  changed,      \* ghost: when the rules or the session's place in them last changed
  last          \* ghost: the restriction the last step paid a reward under, or None

rules == <<info, file, white>>
caches == <<loaded, refreshed, whiteLoaded, whiteRefreshed>>
session == <<status, ip, skip, data, restr, rtime, moving>>
vars == <<now, rules, caches, session, changes, changed, last>>

Rule == [Ip -> Entry \cup {None}]
NoData == [of |-> None, known |-> FALSE]
Never == 0 - Refresh

Init ==
  /\ now = 0 /\ info \in Rule /\ file = [i \in Ip |-> None] /\ white = {}
  /\ loaded = [i \in Ip |-> None] /\ refreshed = Never /\ whiteLoaded = {} /\ whiteRefreshed = Never
  /\ status = "none" /\ ip = None /\ skip = FALSE /\ data = NoData /\ restr = None /\ rtime = 0
  /\ moving = None /\ changes = 0 /\ changed = 0 /\ last = None

-----------------------------------------------------------------------------
(* getSessionRestriction *)

Unrestricted == [reward |-> Full, blocked |-> "no"]
\* the blocking part of applyRestriction
Block(was, entry) ==
  CASE entry = "close" /\ was = "no" -> "close"
    [] entry = "kill" -> "kill"
    [] entry = "true" /\ was = "no" -> "close"
    [] OTHER -> was
ApplyRestriction(acc, entry) ==
  [reward |-> IF entry.reward < acc.reward THEN entry.reward ELSE acc.reward,
   blocked |-> Block(acc.blocked, entry.blocked)]
Combined(entries) == FoldLeft(ApplyRestriction, Unrestricted, entries)
Matching(rule, i) == IF i = None THEN <<>> ELSE IF rule[i] = None THEN <<>> ELSE <<rule[i]>>
\* the entries that match, in the order in which they are applied
Matches(patterns) ==
  (IF data.known THEN Matching(info, data.of) ELSE <<>>) \o Matching(patterns, ip)

\* Mutant: the file is read once.
StaleNever(at) == at < 0
\* the test both refreshes begin with
Stale(at) == at <= now - Refresh
\* refreshIpInfoMatchRestrictions
RefreshIpInfoMatchRestrictions ==
  IF Stale(refreshed) THEN loaded' = file /\ refreshed' = now ELSE UNCHANGED <<loaded, refreshed>>
GetSessionRestriction == Combined(Matches(IF Stale(refreshed) THEN file ELSE loaded))

-----------------------------------------------------------------------------
(* Start and change of address *)

\* getSessionWhitelistEntry, refreshCachedWhitelistEntries
RefreshCachedWhitelistEntries ==
  IF Stale(whiteRefreshed) THEN whiteLoaded' = white /\ whiteRefreshed' = now
  ELSE UNCHANGED <<whiteLoaded, whiteRefreshed>>
Whitelisted(i) == i \in (IF Stale(whiteRefreshed) THEN white ELSE whiteLoaded)

\* the hooks up to the lookup of the address: the whitelist's hook comes first, and what it
\* sets is never taken back
BeginHooks(i, start) ==
  /\ moving = None /\ RefreshCachedWhitelistEntries /\ skip' = (skip \/ Whitelisted(i))
  /\ ip' = i /\ last' = None
  /\ IF skip' THEN UNCHANGED moving /\ changed' = now
     ELSE moving' = [from |-> ip, start |-> start] /\ UNCHANGED changed
  /\ UNCHANGED <<now, rules, loaded, refreshed, data, restr, rtime, changes>>
StartSession(i) == /\ status = "none" /\ BeginHooks(i, TRUE)
                   /\ status' = IF skip' THEN "running" ELSE status
MoveSession(i) == status = "running" /\ i # ip /\ BeginHooks(i, FALSE) /\ UNCHANGED status

\* a hook threw, or the session could not be saved: a start fails, a move goes back to the
\* old address, and the session's data stays as the hooks left it
Refused == /\ ip' = moving.from /\ moving' = None
           /\ status' = IF moving.start THEN "failed" ELSE status
\* processSessionStart after the lookup; information that is missing is an error only when
\* it is required
ProcessSessionStart(known) ==
  /\ moving # None /\ last' = None
  /\ IF ~known /\ Required
     THEN Refused /\ UNCHANGED <<data, restr, rtime, loaded, refreshed, changed>>
     ELSE /\ data' = [of |-> ip, known |-> known]
          /\ changed' = now /\ RefreshIpInfoMatchRestrictions
          /\ LET r == Combined((IF known THEN Matching(info, ip) ELSE <<>>)
                               \o Matching(IF Stale(refreshed) THEN file ELSE loaded, ip))
             IN IF r.blocked # "no" THEN Refused /\ UNCHANGED <<restr, rtime>>
                ELSE /\ restr' = r /\ rtime' = now
                     /\ \/ Refused
                        \/ moving' = None /\ status' = "running" /\ UNCHANGED ip
  /\ UNCHANGED <<now, rules, whiteLoaded, whiteRefreshed, skip, changes>>

-----------------------------------------------------------------------------
(* Rewards *)

StoredIsOld == now - rtime > Timeout
Ends(r) == r.blocked # "no"
\* processSessionRewardFactor; a session restored after a restart has no stored restriction,
\* and its time counts from long ago
ProcessSessionRewardFactor ==
  /\ status = "running"
  /\ IF skip THEN last' = Unrestricted /\ UNCHANGED <<status, restr, rtime, loaded, refreshed>>
     ELSE IF restr # None /\ ~StoredIsOld
     THEN last' = restr /\ UNCHANGED <<status, restr, rtime, loaded, refreshed>>
     ELSE LET r == GetSessionRestriction
          IN /\ RefreshIpInfoMatchRestrictions /\ restr' = r /\ rtime' = now
             /\ status' = IF ~Ends(r) THEN status ELSE IF r.blocked = "kill" THEN "failed" ELSE "completed"
             /\ last' = IF Ends(r) THEN None ELSE r
  /\ UNCHANGED <<now, rules, whiteLoaded, whiteRefreshed, ip, skip, data, moving, changes, changed>>

-----------------------------------------------------------------------------
(* Configuration, restart, time *)

\* a rule changes for one address
Edited(rule) == {[rule EXCEPT ![i] = e] : i \in Ip, e \in Entry \cup {None}}
\* setModuleConfig with other rules, for either module; the caches are refreshed at their
\* next use
OnConfigReload ==
  /\ changes < MaxChanges /\ changes' = changes + 1 /\ changed' = now /\ last' = None
  /\ \/ info' \in Edited(info) /\ refreshed' = Never /\ UNCHANGED <<white, whiteRefreshed>>
     \/ white' \in {white \cup {i} : i \in Ip} \cup {{}} /\ whiteRefreshed' = Never /\ UNCHANGED <<info, refreshed>>
  /\ UNCHANGED <<now, file, loaded, whiteLoaded, session>>
\* the operator edits the file
EditFile ==
  /\ changes < MaxChanges /\ changes' = changes + 1 /\ changed' = now /\ last' = None
  /\ file' \in Edited(file)
  /\ UNCHANGED <<now, info, white, caches, session>>
\* the process restarts and restores the session: module references are not stored, and the
\* session has the address it had before a move that was under way
Restart ==
  /\ status = "running" /\ changes < MaxChanges /\ changes' = changes + 1 /\ last' = None
  /\ restr' = None /\ rtime' = 0 /\ loaded' = [i \in Ip |-> None] /\ refreshed' = Never
  /\ whiteLoaded' = {} /\ whiteRefreshed' = Never /\ moving' = None /\ changed' = now
  /\ ip' = IF moving = None THEN ip ELSE moving.from
  /\ UNCHANGED <<now, rules, status, skip, data>>
Tick ==
  /\ now < MaxTime /\ now' = now + 1 /\ last' = None
  /\ UNCHANGED <<rules, caches, session, changes, changed>>

Next ==
  \/ \E i \in Ip : StartSession(i) \/ MoveSession(i)
  \/ \E known \in BOOLEAN : ProcessSessionStart(known)
  \/ ProcessSessionRewardFactor \/ OnConfigReload \/ EditFile \/ Restart \/ Tick
Spec == Init /\ [][Next]_vars

-----------------------------------------------------------------------------
\* The strictest of a set of entries: the least reward, and killed before closed before free.
Strictest(S) ==
  [reward |-> CHOOSE m \in {Full} \cup {e.reward : e \in S} : \A e \in S : m <= e.reward,
   blocked |-> IF \E e \in S : e.blocked = "kill" THEN "kill"
               ELSE IF \E e \in S : e.blocked # "no" THEN "close" ELSE "no"]

\* The session holds what its types allow, and has a restriction only since it has data.
TypeOK ==
  /\ status \in {"none", "running", "completed", "failed"} /\ skip \in BOOLEAN
  /\ ip \in Ip \cup {None} /\ rtime <= now /\ refreshed <= now
  /\ restr # None => data.of # None
  /\ status = "running" => ip # None

\* The entries that match have the same effect in whatever order they are applied: that of
\* the strictest of them.
CombinesToStrictest ==
  \A i, j \in Ip : LET s == Matching(info, i) \o Matching(file, j) \o Matching(info, j)
                   IN Combined(s) = Strictest({s[k] : k \in DOMAIN s})

\* A reward is never paid under rules, or for a place in them, that were given up longer ago
\* than the stored restriction and the file's copy may last together.
RewardFollowsRules ==
  last # None /\ ~skip /\ moving = None /\ now - changed >= Timeout + Refresh
     => LET s == Matches(file) IN last = Strictest({s[k] : k \in DOMAIN s})

\* No reward is paid to a session that the restriction in use blocks: it is ended instead.
BlockedIsEnded == last # None => last.blocked = "no"
=============================================================================
