---------------------------- MODULE PrincipalGrants ----------------------------
(***************************************************************************)
(* The limits that the zupass, github and authenticatoor modules put on an *)
(* authenticated person.  A starting session is bound to its person in the *)
(* admission ledger, the usage of earlier sessions is noted, and only then *)
(* the database is asked for sessions that ended with a reward; a grant    *)
(* whose limits are used up rejects the session or leaves it without       *)
(* perks.  Sessions run, commit, fail and survive a restart in between.    *)
(* All sessions start within one period of the limits.                     *)
(***************************************************************************)
EXTENDS Integers, FiniteSets, FiniteSetsExt, FiniteSetTheorems, TLAPS

CONSTANTS
  Session,
  Person,           \* attendee ids, user ids, subjects of tokens
  Email,            \* the address that all persons share in old authenticatoor rows
  LimitCount, LimitAmount, ConcurrencyLimit,   \* 0: no limit
  MaxDrop,          \* what a session may be paid without perks
  Override,         \* overrideMaxDrop of the grant
  MaxCrashes, None

GrantAssumption ==
  /\ {LimitCount, LimitAmount, ConcurrencyLimit, MaxDrop, Override} \subseteq Nat
  /\ IsFiniteSet(Session) /\ None \notin Person /\ Email \notin Person /\ None # Email

VARIABLES
  module,    \* which module is configured
  required,  \* its grant is required
  who,       \* session -> person, Email for a session of an old version, None
  stage,     \* new, begun, querying, queried, cleared, running, committing, linked, failing, ended
  order,     \* the ledger's binding order of the person, 0 when not bound
  nextOrder,
  ceiling,   \* the ledger's claimCeiling: [amount, settled]
  usage,     \* priorUsage: [ids, amount (of each session), provisional]
  finished,  \* what the database query returned
  granted,   \* the session passed the check of the grant
  row,       \* status of its row: none, running, claimable, failed
  drop,      \* dropAmount of a claimable row
  link,      \* the person under which the session is saved, or None
  crashes

ledger == <<order, nextOrder, ceiling>>
checks == <<usage, finished>>
rows == <<row, drop, link>>
config == <<module, required>>
vars == <<config, who, stage, ledger, checks, granted, rows, crashes>>

NoUsage == [ids |-> {}, amount |-> [s \in Session |-> 0], provisional |-> {}]
Old == {s \in Session : who[s] = Email}

\* Under authenticatoor a session of an old version may have been restored.
Init ==
  /\ module \in {"zupass", "github", "authenticatoor"} /\ required \in BOOLEAN
  /\ module = "github" => required
  /\ who \in [Session -> {None, Email}]
  /\ Cardinality(Old) <= (IF module = "authenticatoor" THEN 1 ELSE 0)
  /\ stage = [s \in Session |-> IF s \in Old THEN "running" ELSE "new"]
  /\ order = [s \in Session |-> IF s \in Old THEN 1 ELSE 0] /\ nextOrder = 2
  /\ ceiling = [s \in Session |-> [amount |-> MaxDrop, settled |-> s \in Old]]
  /\ usage = [s \in Session |-> NoUsage] /\ finished = [s \in Session |-> {}]
  /\ granted = [s \in Session |-> FALSE]
  /\ row = [s \in Session |-> IF s \in Old THEN "running" ELSE "none"]
  /\ drop = [s \in Session |-> 0] /\ link = [s \in Session |-> None] /\ crashes = 0

Enter(s, st) == stage' = [stage EXCEPT ![s] = st]
Starting == {s \in Session : stage[s] \in {"begun", "querying", "queried", "cleared", "failing"}}
Active == Starting \cup {s \in Session : stage[s] \in {"running", "committing", "linked"}}

-----------------------------------------------------------------------------
(* The session start hooks *)

BeginAdmission(s) ==
  /\ stage[s] = "new" /\ Enter(s, "begun")
  /\ ceiling' = [ceiling EXCEPT ![s] = [amount |-> MaxDrop, settled |-> FALSE]]
  /\ UNCHANGED <<config, who, order, nextOrder, checks, granted, rows, crashes>>

\* getAdmissionSubjects: authenticatoor binds the person and the address of old rows
AuthenticatoorSubjects(p) == {p, Email}
Subjects(p) == IF module = "authenticatoor" THEN AuthenticatoorSubjects(p) ELSE {p}
\* getPriorUsage for a session that has just been bound: it has the last binding order
PriorSessions(s, p) ==
  {t \in Active \ {s} : order[t] # 0 /\ Subjects(who[t]) \cap Subjects(p) # {}}
PriorUsage(s, p) ==
  LET ids == PriorSessions(s, p)
  IN [ids |-> ids, amount |-> [t \in Session |-> IF t \in ids THEN ceiling[t].amount ELSE 0],
      provisional |-> {t \in ids : ~ceiling[t].settled}]

\* checkLimit, checkConcurrencyLimit: the github module has no such limit
TooManyAtOnce(n) == module # "github" /\ ConcurrencyLimit > 0 /\ n >= ConcurrencyLimit
\* reserveAdmissionClaimCeiling for every grant with an override
Reserved(s) ==
  IF module = "github" THEN ceiling
  ELSE [ceiling EXCEPT ![s].amount = IF Override > @ THEN Override ELSE @]
\* processSessionStart, synchronously from the authenticated person to the query
CheckPrincipal(s, p) ==
  /\ stage[s] = "begun"
  /\ who' = [who EXCEPT ![s] = p]
  /\ order' = [order EXCEPT ![s] = nextOrder] /\ nextOrder' = nextOrder + 1
  /\ ceiling' = Reserved(s)
  /\ IF TooManyAtOnce(Cardinality(PriorSessions(s, p)))
     THEN Enter(s, "failing") /\ UNCHANGED usage
     ELSE Enter(s, "querying") /\ usage' = [usage EXCEPT ![s] = PriorUsage(s, p)]
  /\ UNCHANGED <<config, finished, granted, rows, crashes>>
\* No token: the session goes on without the grant where no login is required.
NoLogin(s) ==
  /\ stage[s] = "begun" /\ Enter(s, "cleared")
  /\ UNCHANGED <<config, who, ledger, checks, granted, rows, crashes>>

\* getZupassSessions, getGithubSessions
SessionsOf(p) == {t \in Session : row[t] = "claimable" /\ link[t] = p}
\* getPrincipalSessions
PrincipalSessions(p) == {t \in Session : row[t] = "claimable" /\ link[t] \in {p, Email}}
GetFinishedSessions(s) ==
  /\ stage[s] = "querying" /\ Enter(s, "queried")
  /\ finished' = [finished EXCEPT ![s] =
                    IF module = "authenticatoor" THEN PrincipalSessions(who[s]) ELSE SessionsOf(who[s])]
  /\ UNCHANGED <<config, who, ledger, usage, granted, rows, crashes>>

\* excludeCommittedUsage
ActiveUsage(s) == usage[s].ids \ finished[s]
\* Mutant: only sessions that ended are counted.
EndedUsedUp(s) == LimitCount > 0 /\ Cardinality(finished[s]) >= LimitCount
CountUsedUp(s) == LimitCount > 0 /\ Cardinality(finished[s]) + Cardinality(ActiveUsage(s)) >= LimitCount
Total(s) ==
  MapThenSumSet(LAMBDA t : drop[t], finished[s]) + MapThenSumSet(LAMBDA t : usage[s].amount[t], ActiveUsage(s))
AmountUsedUp(s) ==
  LimitAmount > 0 /\ (ActiveUsage(s) \cap usage[s].provisional # {} \/ Total(s) >= LimitAmount)
UsedUp(s) == CountUsedUp(s) \/ AmountUsedUp(s)
\* checkGrant of zupass and authenticatoor: a grant that is not required only loses its perks
CheckGrant(s) ==
  /\ Enter(s, IF UsedUp(s) /\ required THEN "failing" ELSE "cleared")
  /\ granted' = [granted EXCEPT ![s] = ~UsedUp(s)]
\* checkRestriction of github
CheckRestriction(s) ==
  /\ Enter(s, IF UsedUp(s) THEN "failing" ELSE "cleared")
  /\ granted' = [granted EXCEPT ![s] = ~UsedUp(s)]
CheckLimits(s) ==
  /\ stage[s] = "queried"
  /\ IF module = "github" THEN CheckRestriction(s) ELSE CheckGrant(s)
  /\ usage' = [usage EXCEPT ![s] = NoUsage] /\ finished' = [finished EXCEPT ![s] = {}]
  /\ UNCHANGED <<config, who, ledger, rows, crashes>>

-----------------------------------------------------------------------------
(* The rest of a session's life, as FaucetSession has it *)

Ceiling(s) == IF granted[s] /\ module # "github" THEN Override ELSE MaxDrop
Activate(s) ==
  /\ stage[s] = "cleared" /\ Enter(s, "running")
  /\ ceiling' = [ceiling EXCEPT ![s] = [amount |-> Ceiling(s), settled |-> TRUE]]
  /\ UNCHANGED <<config, who, order, nextOrder, checks, granted, rows, crashes>>
InsertRow(s) ==
  /\ stage[s] = "running" /\ row[s] = "none" /\ row' = [row EXCEPT ![s] = "running"]
  /\ UNCHANGED <<config, who, stage, ledger, checks, granted, drop, link, crashes>>
MarkCommitting(s) ==
  /\ stage[s] = "running" /\ row[s] = "running" /\ Enter(s, "committing")
  /\ UNCHANGED <<config, who, ledger, checks, granted, rows, crashes>>
\* getStoredIdentity, zupass.data, github.uid: what the session data says
StoredPerson(s) == who[s]
\* processSessionComplete: the session is saved under its person before it is claimable
ProcessSessionComplete(s) ==
  /\ stage[s] = "committing" /\ row[s] = "running" /\ Enter(s, "linked")
  /\ link' = [link EXCEPT ![s] = StoredPerson(s)]
  /\ UNCHANGED <<config, who, ledger, checks, granted, row, drop, crashes>>
TransitionSession(s) ==
  /\ stage[s] = "linked" /\ row[s] = "running"
  /\ row' = [row EXCEPT ![s] = "claimable"]
  /\ \E d \in 1..ceiling[s].amount : drop' = [drop EXCEPT ![s] = d]
  /\ UNCHANGED <<config, who, stage, ledger, checks, granted, link, crashes>>
Release(s) == order' = [order EXCEPT ![s] = 0] /\ UNCHANGED <<nextOrder, ceiling>>
FinishSession(s) ==
  /\ stage[s] = "linked" /\ row[s] = "claimable" /\ Enter(s, "ended") /\ Release(s)
  /\ UNCHANGED <<config, who, checks, granted, rows, crashes>>
\* Any hook may fail the session until its row is claimable.
FailSession(s) ==
  /\ stage[s] \notin {"new", "ended"} /\ row[s] # "claimable"
  /\ Enter(s, "ended") /\ Release(s)
  /\ row' = [row EXCEPT ![s] = IF @ = "running" THEN "failed" ELSE @]
  /\ UNCHANGED <<config, who, checks, granted, drop, link, crashes>>

\* restoreSessionReservation of the three modules
RestoreSessionReservation(back) == [s \in Session |-> IF s \in back /\ who[s] # None THEN 1 ELSE 0]
\* A restart: running rows come back with a settled ceiling before new sessions start.
CrashAndRestore ==
  LET back == {s \in Session : row[s] = "running"}
  IN /\ crashes < MaxCrashes /\ crashes' = crashes + 1
     /\ stage' = [s \in Session |-> IF s \in back THEN "running"
                                    ELSE IF stage[s] = "new" THEN "new" ELSE "ended"]
     /\ order' = RestoreSessionReservation(back)
     /\ ceiling' = [s \in Session |-> [amount |-> Ceiling(s), settled |-> s \in back]]
     /\ usage' = [s \in Session |-> NoUsage] /\ finished' = [s \in Session |-> {}]
     /\ UNCHANGED <<config, who, nextOrder, granted, rows>>

Next ==
  \/ \E s \in Session :
       \/ BeginAdmission(s) \/ NoLogin(s) \/ GetFinishedSessions(s) \/ CheckLimits(s)
       \/ Activate(s) \/ InsertRow(s) \/ MarkCommitting(s) \/ ProcessSessionComplete(s)
       \/ TransitionSession(s) \/ FinishSession(s) \/ FailSession(s)
       \/ \E p \in Person : CheckPrincipal(s, p)
  \/ CrashAndRestore
Spec == Init /\ [][Next]_vars

-----------------------------------------------------------------------------
\* Sessions of the person, by any name, that were or may still be paid under the grant.
Counted(p) ==
  {s \in Session : (granted[s] /\ who[s] = p) \/ (module = "authenticatoor" /\ who[s] = Email)}
    \cap {s \in Session : row[s] = "claimable" \/ stage[s] \in {"cleared", "running", "committing", "linked"}}
Worth(s) == IF row[s] = "claimable" THEN drop[s] ELSE Ceiling(s)

\* The variables hold values of their types; a session that ended holds no place.
TypeOK ==
  /\ stage \in [Session -> {"new", "begun", "querying", "queried", "cleared", "running",
                            "committing", "linked", "failing", "ended"}]
  /\ row \in [Session -> {"none", "running", "claimable", "failed"}]
  /\ \A s \in Session : stage[s] \in {"new", "ended"} => order[s] = 0
  /\ \A s \in Session : drop[s] <= ceiling[s].amount

\* A person gets no more sessions under the grant than limitCount, although sessions start,
\* commit and are restored while the database is asked.
CountIsLimited == LimitCount > 0 => \A p \in Person : Cardinality(Counted(p)) <= LimitCount

\* limitAmount is exceeded by one session at most: all but one of a person's sessions
\* together stay below it, at what they were paid or may still be paid.
AmountIsLimited ==
  LimitAmount > 0 => \A p \in Person : Counted(p) = {} \/
    \E last \in Counted(p) : MapThenSumSet(Worth, Counted(p) \ {last}) < LimitAmount

\* A person has no more active sessions than concurrencyLimit, restarts included.
ConcurrencyIsLimited ==
  ConcurrencyLimit > 0 /\ module # "github" =>
    \A p \in Person :
      Cardinality({s \in Active : who[s] = p /\ stage[s] # "failing"}) <= ConcurrencyLimit
-----------------------------------------------------------------------------
(* What is proved for every number of sessions and persons: the limits of   *)
(* count, of concurrency and, in the second part, of the amount.  The count *)
(* is not inductive: a session may pass its check after others that were    *)
(* bound later and that it does not count.  The invariant bounds the larger *)
(* set UpToLate.                                                            *)

Asking == {"querying", "queried"}
Holding == {"cleared", "running", "committing", "linked"}
Unnamed == {"new", "begun"}

GrantTypes ==
  /\ stage \in [Session -> Unnamed \union Asking \union Holding \union {"failing", "ended"}]
  /\ row \in [Session -> {"none", "running", "claimable", "failed"}]
  /\ who \in [Session -> Person \union {None, Email}] /\ granted \in [Session -> BOOLEAN]
  /\ order \in [Session -> Nat] /\ nextOrder \in Nat /\ nextOrder > 1
  /\ finished \in [Session -> SUBSET Session] /\ \A s \in Session : usage[s].ids \subseteq Session
  /\ usage = [s \in Session |-> usage[s]] /\ link = [s \in Session |-> link[s]]

\* What the stage of a session says about its name, its place in the ledger and its row.
Shape(s) ==
  /\ order[s] < nextOrder
  /\ stage[s] \in Unnamed => who[s] = None
  /\ stage[s] \in Asking => who[s] \in Person /\ order[s] > 1
  /\ stage[s] \in Unnamed \union Asking => ~granted[s]
  /\ stage[s] \in {"new", "ended"} => order[s] = 0
  /\ stage[s] \notin {"new", "ended"} /\ who[s] # None => order[s] # 0
  /\ stage[s] \in Unnamed \union Asking \union {"cleared", "failing"} => row[s] = "none"
  /\ row[s] = "running" => stage[s] \in {"running", "committing", "linked"}
  /\ row[s] = "claimable" => stage[s] \in {"linked", "ended"} /\ link[s] = who[s]
  /\ stage[s] = "linked" => link[s] = who[s]
GrantShape == GrantTypes /\ \A s \in Session : Shape(s)

\* t counts for p, by its name or by the address of old rows.
Shares(t, p) == who[t] = p \/ (module = "authenticatoor" /\ who[t] = Email)
Before(s) == {t \in Session : 0 < order[t] /\ order[t] < order[s] /\ Shares(t, who[s])}
\* Binding orders of checks under way are unique, and a check has noted everyone bound before.
NotesEarlier ==
  \A s \in Session : stage[s] \in Asking =>
    /\ Before(s) \subseteq usage[s].ids
    /\ \A t \in Session \ {s} : order[t] # order[s]

\* The answer of the database, and all that the check of s is sure to count.
Answer(p) == IF module = "authenticatoor" THEN PrincipalSessions(p) ELSE SessionsOf(p)
Noted(s) == usage[s].ids \union (IF stage[s] = "querying" THEN Answer(who[s]) ELSE finished[s])

Waiting(p) == {s \in Session : who[s] = p /\ stage[s] \in Asking}
Late(p) ==
  {s \in Session : who[s] = p /\ \/ granted[s] /\ stage[s] \in Holding
                                 \/ stage[s] \in Asking /\ ~(Counted(p) \subseteq Noted(s))}
\* What counts for p, and the waiting sessions bound no later than one that was cleared or
\* that misses something.
UpToLate(p) == Counted(p) \union {s \in Waiting(p) : \E u \in Late(p) : order[s] <= order[u]}
FewUpToLate == LimitCount > 0 => \A p \in Person : Cardinality(UpToLate(p)) <= LimitCount

\* The inductive invariants of the two limits.
CountInv == GrantShape /\ NotesEarlier /\ FewUpToLate
ConcurrencyInv == GrantShape /\ ConcurrencyIsLimited

\* The cardinality of sets of sessions.
LEMMA SubsetBound ==
  ASSUME GrantAssumption, NEW S \in SUBSET Session, NEW T \in SUBSET S
  PROVE  /\ IsFiniteSet(S) /\ IsFiniteSet(T) /\ Cardinality(S) \in Nat /\ Cardinality(T) \in Nat
         /\ Cardinality(T) <= Cardinality(S)
<1>1. IsFiniteSet(S) BY FS_Subset DEF GrantAssumption
<1>2. IsFiniteSet(T) /\ Cardinality(T) <= Cardinality(S) BY <1>1, FS_Subset
<1> QED BY <1>1, <1>2, FS_CardinalityType

\* The steps of one session but CheckPrincipal and CheckLimits.
Passing(s) ==
  \/ BeginAdmission(s) \/ NoLogin(s) \/ GetFinishedSessions(s)
  \/ Activate(s) \/ InsertRow(s) \/ MarkCommitting(s) \/ ProcessSessionComplete(s)
  \/ TransitionSession(s) \/ FinishSession(s) \/ FailSession(s)

\* What these steps do: they change the stage, the row and the place of s only, they name
\* nobody and grant nothing.
LEMMA PassingEffect ==
  ASSUME GrantShape, NEW s \in Session, Passing(s)
  PROVE  /\ GrantTypes'
         /\ \A t \in Session : t # s => stage'[t] = stage[t] /\ row'[t] = row[t] /\ order'[t] = order[t]
                                        /\ link'[t] = link[t] /\ finished'[t] = finished[t]
         /\ UNCHANGED <<module, who, granted, usage, nextOrder>>
         /\ Shape(s)'
         /\ stage'[s] = "ended" \/ order'[s] = order[s]
         /\ stage'[s] \in Asking => GetFinishedSessions(s)
         /\ row[s] = "claimable" => row'[s] = "claimable" /\ link'[s] = link[s]
         /\ row'[s] = "claimable" => row[s] = "claimable" \/ stage[s] = "linked"
         /\ stage'[s] \in Holding => stage[s] \in Holding \union {"begun"}
<1> USE DEF GrantShape, GrantTypes, Shape, Enter, checks, rows, ledger, config, Unnamed, Asking, Holding
<1>1. CASE BeginAdmission(s) BY <1>1 DEF BeginAdmission
<1>2. CASE NoLogin(s) BY <1>2 DEF NoLogin
<1>3. CASE GetFinishedSessions(s) BY <1>3 DEF GetFinishedSessions, PrincipalSessions, SessionsOf
<1>4. CASE Activate(s) BY <1>4 DEF Activate
<1>5. CASE InsertRow(s) BY <1>5 DEF InsertRow
<1>6. CASE MarkCommitting(s) BY <1>6 DEF MarkCommitting
<1>7. CASE ProcessSessionComplete(s) BY <1>7 DEF ProcessSessionComplete, StoredPerson
<1>8. CASE TransitionSession(s) BY <1>8 DEF TransitionSession
<1>9. CASE FinishSession(s) BY <1>9 DEF FinishSession, Release
<1>10. CASE FailSession(s) BY <1>10 DEF FailSession, Release
<1> QED BY <1>1, <1>2, <1>3, <1>4, <1>5, <1>6, <1>7, <1>8, <1>9, <1>10 DEF Passing

\* Every step leaves each session in a shape its stage allows.
LEMMA ShapeStep ==
  ASSUME GrantShape, GrantAssumption, [Next]_vars
  PROVE  GrantShape'
<1> USE DEF GrantShape
<1>1. ASSUME NEW s \in Session, Passing(s) PROVE GrantShape'
  BY <1>1, PassingEffect DEF Shape
<1>2. ASSUME NEW s \in Session, NEW p \in Person, CheckPrincipal(s, p) PROVE GrantShape'
  <2> USE DEF GrantTypes, Enter, checks, rows, ledger, config, Unnamed, Asking, Holding
  <2>1. Shape(s) /\ stage[s] = "begun" BY <1>2 DEF CheckPrincipal
  <2>2. PriorUsage(s, p).ids \subseteq Session BY DEF PriorUsage, PriorSessions, Active, Starting
  <2>3. GrantTypes' BY <1>2, <2>1, <2>2 DEF CheckPrincipal
  <2>4. Shape(s)' BY <1>2, <2>1 DEF CheckPrincipal, Shape, GrantAssumption
  <2>5. ASSUME NEW t \in Session, t # s PROVE Shape(t)' BY <1>2, <2>5 DEF CheckPrincipal, Shape
  <2> QED BY <2>3, <2>4, <2>5
<1>3. ASSUME NEW s \in Session, CheckLimits(s) PROVE GrantShape'
  <2> USE DEF GrantTypes, Enter, checks, rows, ledger, config, Unnamed, Asking, Holding
  <2>1. /\ stage[s] = "queried"
        /\ stage' = [stage EXCEPT ![s] = "failing"] \/ stage' = [stage EXCEPT ![s] = "cleared"]
        /\ granted' = [granted EXCEPT ![s] = ~UsedUp(s)]
        /\ usage' = [usage EXCEPT ![s] = NoUsage] /\ finished' = [finished EXCEPT ![s] = {}]
        /\ UNCHANGED <<who, order, nextOrder, row, link>>
    BY <1>3 DEF CheckLimits, CheckRestriction, CheckGrant
  <2>2. UsedUp(s) \in BOOLEAN BY DEF UsedUp, CountUsedUp, AmountUsedUp
  <2>3. NoUsage.ids = {} BY DEF NoUsage
  <2>4. GrantTypes' BY <2>1, <2>2, <2>3
  <2>5. \A t \in Session : Shape(t)' BY <2>1 DEF Shape
  <2> QED BY <2>4, <2>5
<1>4. CASE CrashAndRestore
  <2> USE DEF GrantTypes, Unnamed, Asking, Holding
  <2>1. NoUsage.ids = {} BY DEF NoUsage
  <2>2. GrantTypes' BY <1>4, <2>1 DEF CrashAndRestore, RestoreSessionReservation, rows
  <2>3. ASSUME NEW t \in Session PROVE Shape(t)'
    BY <1>4 DEF CrashAndRestore, RestoreSessionReservation, rows, Shape
  <2> QED BY <2>2, <2>3
<1>5. CASE UNCHANGED vars BY <1>5 DEF vars, config, ledger, checks, rows, GrantTypes, Shape
<1> QED BY <1>1, <1>2, <1>3, <1>4, <1>5 DEF Next, Passing

\* Everyone who counts or is active for p is noted by a check that begins.
LEMMA PriorIsNoted ==
  ASSUME GrantShape, GrantAssumption, NEW s \in Session, NEW p \in Person, NEW t \in Session, t # s, order[t] # 0,
         Shares(t, p)
  PROVE  t \in PriorSessions(s, p)
<1>1. t \in Active BY DEF GrantShape, GrantTypes, Shape, Active, Starting, Unnamed, Asking, Holding
<1>2. Subjects(who[t]) \intersect Subjects(p) # {}
  BY DEF Shares, Subjects, AuthenticatoorSubjects
<1> QED BY <1>1, <1>2 DEF PriorSessions

\* A check keeps what it has noted; what is bound later comes after it.
LEMMA NotesStep ==
  ASSUME GrantShape, GrantShape', GrantAssumption, NotesEarlier, [Next]_vars
  PROVE  NotesEarlier'
<1> USE DEF GrantShape
<1>k. ASSUME \A t \in Session : order'[t] \in {0, order[t]}, UNCHANGED <<module, who>>,
             \A t \in Session : stage'[t] \in Asking =>
                stage[t] \in Asking /\ order'[t] = order[t] /\ usage'[t] = usage[t]
      PROVE  NotesEarlier'
  BY <1>k DEF NotesEarlier, Before, Shares, GrantTypes, Shape
<1>1. ASSUME NEW s \in Session, Passing(s) PROVE NotesEarlier'
  <2>1. \A t \in Session : order'[t] \in {0, order[t]}
    BY <1>1, PassingEffect DEF Shape
  <2>2. \A t \in Session : stage'[t] \in Asking =>
          stage[t] \in Asking /\ order'[t] = order[t] /\ usage'[t] = usage[t]
    BY <1>1, PassingEffect DEF Asking, GetFinishedSessions
  <2> QED BY <1>1, <1>k, <2>1, <2>2, PassingEffect
<1>2. ASSUME NEW s \in Session, NEW p \in Person, CheckPrincipal(s, p) PROVE NotesEarlier'
  <2>1. /\ who' = [who EXCEPT ![s] = p] /\ order' = [order EXCEPT ![s] = nextOrder] /\ UNCHANGED module
        /\ stage' = [stage EXCEPT ![s] = "failing"]
           \/ (stage' = [stage EXCEPT ![s] = "querying"] /\ usage' = [usage EXCEPT ![s] = PriorUsage(s, p)])
        /\ UNCHANGED usage \/ usage' = [usage EXCEPT ![s] = PriorUsage(s, p)]
    BY <1>2 DEF CheckPrincipal, Enter, config
  <2>2. ASSUME NEW t \in Session \ {s}, stage'[t] \in Asking
        PROVE  Before(t)' \subseteq usage'[t].ids /\ \A u \in Session \ {t} : order'[u] # order'[t]
    <3>1. stage[t] \in Asking /\ order'[t] = order[t] /\ usage'[t] = usage[t] /\ who'[t] = who[t]
      BY <2>1, <2>2 DEF GrantTypes
    <3>2. order[t] < nextOrder /\ order[t] \in Nat /\ nextOrder \in Nat BY DEF Shape, GrantTypes
    <3>3. Before(t)' \subseteq Before(t) BY <2>1, <3>1, <3>2 DEF Before, Shares, GrantTypes
    <3> QED BY <2>1, <3>1, <3>2, <3>3 DEF NotesEarlier, GrantTypes
  <2>3. ASSUME stage'[s] \in Asking
        PROVE  Before(s)' \subseteq usage'[s].ids /\ \A u \in Session \ {s} : order'[u] # order'[s]
    <3>1. usage'[s].ids = PriorSessions(s, p) BY <2>1, <2>3 DEF Asking, GrantTypes, PriorUsage
    <3>2. \A u \in Session \ {s} : order[u] < nextOrder /\ order'[u] = order[u] /\ who'[u] = who[u]
      BY <2>1 DEF Shape, GrantTypes
    <3>3. order'[s] = nextOrder /\ who'[s] = p /\ order \in [Session -> Nat] /\ nextOrder \in Nat BY <2>1 DEF GrantTypes
    <3>4. ASSUME NEW u \in Before(s)' PROVE u \in PriorSessions(s, p)
      <4>1. u \in Session /\ u # s /\ order[u] # 0 /\ Shares(u, p) BY <2>1, <3>2, <3>3 DEF Before, Shares
      <4> QED BY <4>1, PriorIsNoted
    <3> QED BY <3>1, <3>2, <3>3, <3>4
  <2> QED BY <2>2, <2>3 DEF NotesEarlier
<1>3. ASSUME NEW s \in Session, CheckLimits(s) PROVE NotesEarlier'
  <2>1. /\ UNCHANGED <<order, module, who>> /\ usage' = [usage EXCEPT ![s] = NoUsage]
        /\ stage' = [stage EXCEPT ![s] = "failing"] \/ stage' = [stage EXCEPT ![s] = "cleared"]
    BY <1>3 DEF CheckLimits, CheckRestriction, CheckGrant, Enter, ledger, config
  <2> QED BY <1>k, <2>1 DEF GrantTypes, Asking
<1>4. CASE CrashAndRestore
  <2>1. \A t \in Session : stage'[t] \notin Asking
    BY <1>4 DEF CrashAndRestore, Asking
  <2> QED BY <2>1 DEF NotesEarlier
<1>5. CASE UNCHANGED vars BY <1>5, <1>k DEF vars, config, ledger, checks, rows
<1> QED BY <1>1, <1>2, <1>3, <1>4, <1>5 DEF Next, Passing

\* A set inside one that is below the limit is below it.
LEMMA InsideKeepsLimit ==
  ASSUME GrantAssumption, LimitCount > 0, FewUpToLate, NEW p \in Person, UpToLate(p)' \subseteq UpToLate(p)
  PROVE  Cardinality(UpToLate(p)') <= LimitCount
<1>1. UpToLate(p) \in SUBSET Session BY DEF UpToLate, Counted, Waiting
<1>2. UpToLate(p)' \in SUBSET UpToLate(p) OBVIOUS
<1>3. Cardinality(UpToLate(p)') <= Cardinality(UpToLate(p))
      /\ Cardinality(UpToLate(p)') \in Nat /\ Cardinality(UpToLate(p)) \in Nat
  BY <1>1, <1>2, SubsetBound
<1> QED BY <1>3 DEF FewUpToLate, GrantAssumption

\* A step that lets nobody new count or wait and takes nothing from a check keeps the limit.
LEMMA CalmKeepsLimit ==
  ASSUME GrantAssumption, FewUpToLate, UNCHANGED who,
         \A p \in Person : Counted(p)' \subseteq Counted(p),
         \A t \in Session : granted'[t] /\ stage'[t] \in Holding =>
           granted[t] /\ stage[t] \in Holding /\ order'[t] = order[t],
         \A t \in Session : stage'[t] \in Asking => stage[t] \in Asking /\ order'[t] = order[t],
         \A t \in Session : stage'[t] \in Asking => Counted(who[t])' \intersect Noted(t) \subseteq Noted(t)'
  PROVE  FewUpToLate'
<1> SUFFICES ASSUME LimitCount > 0, NEW p \in Person PROVE Cardinality(UpToLate(p)') <= LimitCount
  BY DEF FewUpToLate
<1>1. Counted(p)' \subseteq Counted(p) OBVIOUS
<1>2. Waiting(p)' \subseteq Waiting(p) BY DEF Waiting
<1>3. Late(p)' \subseteq Late(p)
  <2> SUFFICES ASSUME NEW t \in Late(p)' PROVE t \in Late(p)
    OBVIOUS
  <2>1. t \in Session /\ who[t] = p BY DEF Late
  <2>2. CASE granted'[t] /\ stage'[t] \in Holding BY <2>1, <2>2 DEF Late
  <2>3. CASE stage'[t] \in Asking /\ ~(Counted(p)' \subseteq Noted(t)')
    <3>1. PICK e \in Counted(p)' : e \notin Noted(t)' BY <2>3
    <3>2. e \notin Noted(t) BY <2>1, <2>3, <3>1
    <3> QED BY <1>1, <2>1, <2>3, <3>1, <3>2 DEF Late
  <2> QED BY <2>2, <2>3 DEF Late
<1>4. \A t \in Waiting(p)' \union Late(p)' : order'[t] = order[t]
  BY DEF Waiting, Late, Holding
<1>5. UpToLate(p)' \subseteq UpToLate(p) BY <1>1, <1>2, <1>3, <1>4 DEF UpToLate
<1> QED BY <1>5, InsideKeepsLimit

\* The steps outside the checks let nobody new count and take nothing from a check.
LEMMA PassingIsCalm ==
  ASSUME GrantAssumption, GrantShape, NEW s \in Session, Passing(s)
  PROVE  /\ UNCHANGED who /\ \A p \in Person : Counted(p)' \subseteq Counted(p)
         /\ \A t \in Session : granted'[t] /\ stage'[t] \in Holding =>
               granted[t] /\ stage[t] \in Holding /\ order'[t] = order[t]
         /\ \A t \in Session : stage'[t] \in Asking =>
               stage[t] \in Asking /\ order'[t] = order[t] /\ Noted(t) \subseteq Noted(t)'
<1> USE DEF GrantShape
<1>1. UNCHANGED who BY PassingEffect
<1>2. ASSUME NEW p \in Person, NEW t \in Counted(p)' PROVE t \in Counted(p)
  <2>1. t \in Session /\ UNCHANGED <<module, who, granted>> BY PassingEffect DEF Counted
  <2>2. row'[t] = "claimable" \/ stage'[t] \in Holding BY DEF Counted, Holding
  <2>3. (granted[t] /\ who[t] = p) \/ (module = "authenticatoor" /\ who[t] = Email)
    BY <2>1 DEF Counted
  <2>4. stage[t] # "begun" BY <2>1, <2>3 DEF Shape, Unnamed, GrantAssumption
  <2>5. row[t] = "claimable" \/ stage[t] \in Holding
    BY <2>1, <2>2, <2>4, PassingEffect DEF Holding
  <2> QED BY <2>1, <2>3, <2>5 DEF Counted, Holding
<1>3. ASSUME NEW t \in Session, granted'[t], stage'[t] \in Holding
      PROVE  granted[t] /\ stage[t] \in Holding /\ order'[t] = order[t]
  <2>1. granted[t] BY <1>3, PassingEffect
  <2>2. stage[t] # "begun" BY <2>1 DEF Shape, Unnamed
  <2> QED BY <1>3, <2>1, <2>2, PassingEffect DEF Holding
<1>4. ASSUME NEW t \in Session, stage'[t] \in Asking
      PROVE  stage[t] \in Asking /\ order'[t] = order[t] /\ Noted(t) \subseteq Noted(t)'
  <2>1. UNCHANGED <<module, who, usage>> BY PassingEffect
  <2>2. ASSUME NEW p PROVE Answer(p) \subseteq Answer(p)'
    <3>1. \A u \in Session : row[u] = "claimable" => row'[u] = "claimable" /\ link'[u] = link[u]
      BY PassingEffect
    <3> QED BY <2>1, <3>1 DEF Answer, PrincipalSessions, SessionsOf
  <2>3. CASE t # s
    <3>1. stage'[t] = stage[t] /\ order'[t] = order[t] /\ finished'[t] = finished[t] BY <2>3, PassingEffect
    <3> QED BY <1>4, <2>1, <2>2, <3>1 DEF Noted
  <2>4. CASE t = s
    <3>1. GetFinishedSessions(s) BY <1>4, <2>4, PassingEffect
    <3>2. /\ stage[s] = "querying" /\ stage'[s] = "queried" /\ order'[s] = order[s]
          /\ finished'[s] = Answer(who[s])
      BY <3>1 DEF GetFinishedSessions, Enter, ledger, GrantTypes, Answer
    <3> QED BY <2>1, <2>4, <3>2 DEF Noted, Asking
  <2> QED BY <2>3, <2>4
<1> QED BY <1>1, <1>2, <1>3, <1>4

\* So they keep the limit.
LEMMA PassingKeepsLimit ==
  ASSUME GrantAssumption, CountInv, NEW s \in Session, Passing(s)
  PROVE  FewUpToLate'
BY PassingIsCalm, CalmKeepsLimit DEF CountInv

\* A check that begins has noted all that counts, and changes nothing for the others.
LEMMA PrincipalNotes ==
  ASSUME GrantAssumption, GrantShape, NEW s \in Session, NEW p \in Person, CheckPrincipal(s, p)
  PROVE  /\ \A q \in Person : Counted(q)' = Counted(q)
         /\ \A t \in Session \ {s} : /\ stage'[t] = stage[t] /\ who'[t] = who[t] /\ order'[t] = order[t]
                                      /\ Noted(t)' = Noted(t)
         /\ stage'[s] \in Asking => Counted(p)' \subseteq Noted(s)'
         /\ stage[s] = "begun" /\ who'[s] = p /\ order'[s] = nextOrder /\ stage'[s] \notin Holding
         /\ UNCHANGED granted
<1> USE DEF GrantShape
<1>1. /\ stage[s] = "begun" /\ who' = [who EXCEPT ![s] = p] /\ order' = [order EXCEPT ![s] = nextOrder]
      /\ UNCHANGED <<module, granted, row, link, finished>>
      /\ stage' = [stage EXCEPT ![s] = "failing"]
         \/ (stage' = [stage EXCEPT ![s] = "querying"] /\ usage' = [usage EXCEPT ![s] = PriorUsage(s, p)])
      /\ UNCHANGED usage \/ usage' = [usage EXCEPT ![s] = PriorUsage(s, p)]
  BY DEF CheckPrincipal, Enter, config, rows
<1>2. ~granted[s] /\ who[s] = None /\ row[s] = "none" /\ stage'[s] \notin Holding
  BY <1>1 DEF Shape, Unnamed, GrantTypes, Holding
<1>3. \A t \in Session \ {s} : /\ stage'[t] = stage[t] /\ who'[t] = who[t] /\ usage'[t] = usage[t]
                               /\ order'[t] = order[t] /\ order[t] < nextOrder /\ order[t] \in Nat
  BY <1>1 DEF GrantTypes, Shape
<1>4. order'[s] = nextOrder /\ nextOrder \in Nat /\ who'[s] = p BY <1>1 DEF GrantTypes
<1>5. \A q \in Person : Counted(q)' = Counted(q)
  BY <1>1, <1>2, <1>3, <1>4 DEF Counted, Holding, GrantAssumption
<1>6. \A t \in Session \ {s} : Noted(t)' = Noted(t)
  BY <1>1, <1>3 DEF Noted, Answer, PrincipalSessions, SessionsOf
<1>7. ASSUME stage'[s] \in Asking PROVE Counted(p)' \subseteq Noted(s)'
  <2> USE <1>7
  <2>1. stage'[s] = "querying" /\ usage'[s].ids = PriorSessions(s, p)
    BY <1>1 DEF Asking, GrantTypes, PriorUsage
  <2>2. Noted(s)' = PriorSessions(s, p) \union Answer(p)
    BY <1>1, <1>4, <2>1 DEF Noted, Answer, PrincipalSessions, SessionsOf
  <2>3. ASSUME NEW t \in Counted(p) PROVE t \in PriorSessions(s, p) \union Answer(p)
    <3>1. t \in Session /\ Shares(t, p) BY DEF Counted, Shares
    <3>2. CASE row[t] = "claimable"
      <4>1. link[t] = who[t] BY <3>1, <3>2 DEF Shape
      <4> QED BY <3>1, <3>2, <4>1 DEF Answer, PrincipalSessions, SessionsOf, Shares
    <3>3. CASE row[t] # "claimable"
      <4>1. stage[t] \in Holding BY <3>3 DEF Counted, Holding
      <4>2. who[t] # None BY <3>1 DEF Shares, GrantAssumption
      <4>3. order[t] # 0 BY <3>1, <4>1, <4>2 DEF Shape, Holding
      <4>4. t # s BY <1>1, <4>1 DEF Holding
      <4> QED BY <3>1, <4>3, <4>4, PriorIsNoted
    <3> QED BY <3>2, <3>3
  <2> QED BY <1>5, <2>2, <2>3
<1> QED BY <1>1, <1>2, <1>3, <1>4, <1>5, <1>6, <1>7

\* It comes after every other check, and keeps the limit.
LEMMA PrincipalKeepsLimit ==
  ASSUME GrantAssumption, CountInv, NEW s \in Session, NEW p \in Person, CheckPrincipal(s, p)
  PROVE  FewUpToLate'
<1> USE DEF CountInv, GrantShape
<1> SUFFICES ASSUME LimitCount > 0, NEW q \in Person PROVE Cardinality(UpToLate(q)') <= LimitCount
  BY DEF FewUpToLate
<1>1. /\ Counted(q)' = Counted(q) /\ stage[s] = "begun" /\ who'[s] = p /\ order'[s] = nextOrder
      /\ stage'[s] \notin Holding /\ UNCHANGED granted /\ (stage'[s] \in Asking => Counted(p)' \subseteq Noted(s)')
  BY PrincipalNotes
<1>3. \A t \in Session \ {s} : /\ stage'[t] = stage[t] /\ who'[t] = who[t] /\ order'[t] = order[t]
                               /\ Noted(t)' = Noted(t) /\ order[t] < nextOrder /\ order[t] \in Nat
  BY PrincipalNotes DEF Shape, GrantTypes
<1>4. nextOrder \in Nat BY DEF GrantTypes
<1>7. s \notin Late(q)' BY <1>1 DEF Late
<1>8. Late(q)' \subseteq Late(q) BY <1>1, <1>3, <1>7 DEF Late
<1>9. Late(q) \subseteq Session \ {s} BY <1>1 DEF Late, Asking, Holding
<1>10. UpToLate(q)' \subseteq UpToLate(q)
  <2> SUFFICES ASSUME NEW t \in Waiting(q)', NEW u \in Late(q)', order'[t] <= order'[u] PROVE t \in UpToLate(q)
    BY <1>1 DEF UpToLate
  <2>1. t \in Session /\ u \in Session \ {s} BY <1>8, <1>9 DEF Waiting
  <2>2. t # s BY <1>1, <1>3, <1>4, <2>1
  <2>3. t \in Waiting(q) /\ order[t] <= order[u] BY <1>3, <2>1, <2>2 DEF Waiting
  <2> QED BY <1>8, <2>3 DEF UpToLate
<1> QED BY <1>10, InsideKeepsLimit

\* A check that passes: the session is up to a late one already, or it has counted the set.
LEMMA LimitsKeepLimit ==
  ASSUME GrantAssumption, CountInv, NEW s \in Session, CheckLimits(s)
  PROVE  FewUpToLate'
<1> USE DEF CountInv, GrantShape
<1>1. /\ stage[s] = "queried" /\ UNCHANGED <<module, who, order, row, link>>
      /\ stage' = [stage EXCEPT ![s] = "failing"] \/ stage' = [stage EXCEPT ![s] = "cleared"]
      /\ granted' = [granted EXCEPT ![s] = ~UsedUp(s)]
      /\ usage' = [usage EXCEPT ![s] = NoUsage] /\ finished' = [finished EXCEPT ![s] = {}]
  BY DEF CheckLimits, CheckRestriction, CheckGrant, Enter, config, ledger, rows
<1>2. ~granted[s] /\ row[s] = "none" /\ who[s] \in Person BY <1>1 DEF Shape, Asking
<1>3. \A t \in Session \ {s} : stage'[t] = stage[t] /\ granted'[t] = granted[t] /\ Noted(t)' = Noted(t)
  <2>1. \A t \in Session \ {s} : stage'[t] = stage[t] /\ granted'[t] = granted[t] /\ usage'[t] = usage[t]
                                 /\ finished'[t] = finished[t]
    BY <1>1 DEF GrantTypes
  <2> QED BY <1>1, <2>1 DEF Noted, Answer, PrincipalSessions, SessionsOf
<1>4. stage'[s] \notin Asking /\ granted'[s] = ~UsedUp(s) /\ order \in [Session -> Nat]
  BY <1>1 DEF GrantTypes, Asking
<1> SUFFICES ASSUME LimitCount > 0, NEW q \in Person PROVE Cardinality(UpToLate(q)') <= LimitCount
  BY DEF FewUpToLate
<1>5. /\ Counted(q)' \subseteq Counted(q) \union {s}
      /\ q # who[s] \/ UsedUp(s) => Counted(q)' \subseteq Counted(q)
  BY <1>1, <1>2, <1>3, <1>4 DEF Counted, GrantAssumption
<1>6. Counted(q) \subseteq Counted(q)' BY <1>1, <1>2, <1>3 DEF Counted, GrantAssumption
<1>7. Waiting(q)' \subseteq Waiting(q) \ {s} BY <1>1, <1>3, <1>4 DEF Waiting
<1>8. CASE q # who[s] \/ UsedUp(s)
  <2>1. Counted(q)' = Counted(q) BY <1>5, <1>6, <1>8
  <2>2. Late(q)' \subseteq Late(q) BY <1>1, <1>3, <1>4, <1>8, <2>1 DEF Late
  <2>3. UpToLate(q)' \subseteq UpToLate(q) BY <1>1, <1>7, <2>1, <2>2 DEF UpToLate
  <2> QED BY <2>3, InsideKeepsLimit
<1>9. CASE q = who[s] /\ ~UsedUp(s)
  <2>0. s \in Waiting(q) BY <1>1, <1>9 DEF Waiting, Asking
  <2>1. CASE \E u \in Late(q) : order[s] <= order[u]
    <3>1. s \in UpToLate(q) BY <2>0, <2>1 DEF UpToLate
    <3>2. ASSUME NEW t \in Waiting(q)', NEW u \in Late(q)', order[t] <= order[u] PROVE t \in UpToLate(q)
      <4>1. t \in Waiting(q) /\ t \in Session /\ u \in Session BY <1>7 DEF Waiting, Late
      <4>2. CASE u = s
        <5>1. PICK x \in Late(q) : order[s] <= order[x] BY <2>1
        <5>2. x \in Session /\ order[t] <= order[x] BY <1>4, <3>2, <4>1, <4>2, <5>1 DEF Late
        <5> QED BY <4>1, <5>2 DEF UpToLate
      <4>3. CASE u # s /\ u \in Late(q) BY <3>2, <4>1, <4>3 DEF UpToLate
      <4>4. CASE u # s /\ u \notin Late(q)
        <5>1. stage[u] \in Asking /\ who[u] = q /\ Counted(q) \subseteq Noted(u) /\ ~(Counted(q)' \subseteq Noted(u))
          BY <1>1, <1>3, <4>1, <4>4 DEF Late
        <5>2. s \notin Noted(u) BY <1>5, <5>1
        <5>3. ~(order[s] < order[u])
          <6>1. Before(u) \subseteq Noted(u) BY <4>1, <5>1 DEF NotesEarlier, Noted
          <6>2. order[s] > 1 BY <1>1 DEF Shape, Asking
          <6> QED BY <1>4, <1>9, <5>1, <5>2, <6>1, <6>2 DEF Before, Shares
        <5>4. PICK x \in Late(q) : order[s] <= order[x] BY <2>1
        <5>5. x \in Session /\ order[t] <= order[x] BY <1>4, <3>2, <4>1, <5>3, <5>4 DEF Late
        <5> QED BY <4>1, <5>5 DEF UpToLate
      <4> QED BY <4>2, <4>3, <4>4
    <3>3. UpToLate(q)' \subseteq UpToLate(q)
      <4>1. Counted(q)' \subseteq UpToLate(q) BY <1>5, <3>1 DEF UpToLate
      <4> QED BY <1>1, <3>2, <4>1 DEF UpToLate
    <3> QED BY <3>3, InsideKeepsLimit
  <2>2. CASE \A u \in Late(q) : ~(order[s] <= order[u])
    <3>1. s \notin Late(q) BY <1>4, <2>2
    <3>2. Counted(q) \subseteq Noted(s) BY <1>1, <1>9, <3>1 DEF Late, Asking
    <3>3. \A t \in Waiting(q) : order[t] < order[s] => t \in Noted(s)
      <4>1. Before(s) \subseteq Noted(s) BY <1>1 DEF NotesEarlier, Noted, Asking
      <4>2. \A t \in Waiting(q) : 0 < order[t] BY <1>4 DEF Waiting, Shape
      <4> QED BY <1>9, <4>1, <4>2 DEF Before, Shares, Waiting
    <3>4. ASSUME NEW t \in Waiting(q)', NEW u \in Late(q)', order[t] <= order[u] PROVE order[t] < order[s]
      <4>1. t \in Session /\ u \in Session /\ t # s BY <1>7 DEF Waiting, Late
      <4>2. order[t] # order[s] BY <1>1, <4>1 DEF NotesEarlier, Asking
      <4>3. CASE u = s BY <1>4, <3>4, <4>1, <4>2, <4>3
      <4>4. CASE u \in Late(q) BY <1>4, <2>2, <3>4, <4>1, <4>4
      <4>5. CASE u # s /\ u \notin Late(q)
        <5>1. stage[u] \in Asking /\ who[u] = q /\ Counted(q) \subseteq Noted(u) /\ ~(Counted(q)' \subseteq Noted(u))
          BY <1>1, <1>3, <4>1, <4>5 DEF Late
        <5>2. s \notin Noted(u) BY <1>5, <5>1
        <5>3. ~(order[s] < order[u])
          <6>1. Before(u) \subseteq Noted(u) BY <4>1, <5>1 DEF NotesEarlier, Noted
          <6>2. order[s] > 1 BY <1>1 DEF Shape, Asking
          <6> QED BY <1>4, <1>9, <5>1, <5>2, <6>1, <6>2 DEF Before, Shares
        <5> QED BY <1>4, <3>4, <4>1, <4>2, <5>3
      <4> QED BY <4>3, <4>4, <4>5
    <3>5. UpToLate(q)' \subseteq Noted(s) \union {s}
      <4>1. Counted(q)' \subseteq Noted(s) \union {s} BY <1>5, <3>2
      <4>2. ASSUME NEW t \in Waiting(q)', NEW u \in Late(q)', order[t] <= order[u] PROVE t \in Noted(s)
        BY <1>7, <3>3, <3>4, <4>2
      <4> QED BY <1>1, <4>1, <4>2 DEF UpToLate
    <3>6. /\ IsFiniteSet(Noted(s)) /\ Cardinality(Noted(s)) \in Nat /\ Cardinality(Noted(s)) < LimitCount
          /\ Noted(s) \in SUBSET Session
      <4> DEFINE F == finished[s]
      <4> DEFINE A == usage[s].ids \ F
      <4>1. F \in SUBSET Session /\ A \in SUBSET Session /\ Noted(s) = F \union A
        BY <1>1 DEF GrantTypes, Noted
      <4>2. ~(Cardinality(F) + Cardinality(A) >= LimitCount)
        BY <1>9 DEF UsedUp, CountUsedUp, ActiveUsage
      <4>3. IsFiniteSet(F) /\ IsFiniteSet(A) /\ Cardinality(F) \in Nat /\ Cardinality(A) \in Nat
        BY <4>1, SubsetBound
      <4>4. F \intersect A = {} OBVIOUS
      <4> HIDE DEF F, A
      <4>5. IsFiniteSet(F \union A)
            /\ Cardinality(F \union A) = Cardinality(F) + Cardinality(A) - Cardinality(F \intersect A)
        BY <4>3, FS_Union
      <4>6. Cardinality(F \union A) = Cardinality(F) + Cardinality(A) BY <4>3, <4>4, <4>5, FS_EmptySet
      <4> QED BY <4>1, <4>2, <4>3, <4>5, <4>6 DEF GrantAssumption
    <3>7. /\ IsFiniteSet(Noted(s) \union {s})
          /\ Cardinality(Noted(s) \union {s}) \in Nat /\ Cardinality(Noted(s) \union {s}) <= LimitCount
      <4> DEFINE N == Noted(s)
      <4>1. IsFiniteSet(N \union {s})
            /\ Cardinality(N \union {s}) = IF s \in N THEN Cardinality(N) ELSE Cardinality(N) + 1
        BY <3>6, FS_AddElement
      <4>2. LimitCount \in Nat BY DEF GrantAssumption
      <4> HIDE DEF N
      <4>3. Cardinality(N \union {s}) \in Nat /\ Cardinality(N \union {s}) <= LimitCount
        BY <3>6, <4>1, <4>2 DEF N
      <4> QED BY <4>1, <4>3 DEF N
    <3>8. Noted(s) \union {s} \in SUBSET Session BY <3>6
    <3>9. Cardinality(UpToLate(q)') <= Cardinality(Noted(s) \union {s}) /\ Cardinality(UpToLate(q)') \in Nat
      BY <3>5, <3>8, SubsetBound
    <3> QED BY <3>7, <3>9 DEF GrantAssumption
  <2> QED BY <2>1, <2>2
<1> QED BY <1>8, <1>9

\* After a restart nobody waits, and nobody counts who did not before.
LEMMA RestartKeepsLimit ==
  ASSUME GrantAssumption, CountInv, CrashAndRestore
  PROVE  FewUpToLate'
<1> USE DEF CountInv, GrantShape
<1>1. /\ UNCHANGED <<module, who, granted, row>>
      /\ stage' = [s \in Session |-> IF s \in {t \in Session : row[t] = "running"} THEN "running"
                                     ELSE IF stage[s] = "new" THEN "new" ELSE "ended"]
  BY DEF CrashAndRestore, config, rows
<1> SUFFICES ASSUME LimitCount > 0, NEW p \in Person PROVE Cardinality(UpToLate(p)') <= LimitCount
  BY DEF FewUpToLate
<1>2. Waiting(p)' = {} BY <1>1 DEF Waiting, Asking
<1>3. Counted(p)' \subseteq Counted(p) BY <1>1 DEF Counted, Shape
<1> QED BY <1>2, <1>3, InsideKeepsLimit DEF UpToLate

\* Initially at most one session of an old version counts.
LEMMA InitCountInv ==
  ASSUME GrantAssumption, Init PROVE CountInv
<1>1. Old \in SUBSET Session BY DEF Old
<1>2. GrantShape
  <2>1. NoUsage.ids = {} BY DEF NoUsage
  <2>2. GrantTypes BY <2>1 DEF Init, GrantTypes, Unnamed, Asking, Holding
  <2>3. \A s \in Session : Shape(s)
    BY DEF Init, Shape, Old, Unnamed, Asking, Holding
  <2> QED BY <2>2, <2>3 DEF GrantShape
<1>3. NotesEarlier BY DEF Init, NotesEarlier, Asking
<1>4. ASSUME LimitCount > 0, NEW p \in Person PROVE Cardinality(UpToLate(p)) <= LimitCount
  <2>1. Waiting(p) = {} BY DEF Init, Waiting, Asking
  <2>2. UpToLate(p) \in SUBSET Old BY <2>1 DEF UpToLate, Counted, Init, Old
  <2>3. Cardinality(UpToLate(p)) <= Cardinality(Old) /\ Cardinality(UpToLate(p)) \in Nat /\ Cardinality(Old) \in Nat
    BY <1>1, <2>2, SubsetBound
  <2>4. Cardinality(Old) <= 1 BY <2>3 DEF Init
  <2> QED BY <1>4, <2>3, <2>4 DEF GrantAssumption
<1> QED BY <1>2, <1>3, <1>4 DEF CountInv, FewUpToLate

\* CountInv is inductive.
THEOREM CountInvariance == ASSUME GrantAssumption PROVE Spec => []CountInv
<1>1. CountInv /\ [Next]_vars => CountInv'
  <2> SUFFICES ASSUME CountInv, [Next]_vars PROVE CountInv' OBVIOUS
  <2>1. GrantShape' /\ NotesEarlier' BY ShapeStep, NotesStep DEF CountInv
  <2>2. ASSUME NEW s \in Session, Passing(s) PROVE FewUpToLate' BY <2>2, PassingKeepsLimit
  <2>3. ASSUME NEW s \in Session, NEW p \in Person, CheckPrincipal(s, p) PROVE FewUpToLate'
    BY <2>3, PrincipalKeepsLimit
  <2>4. ASSUME NEW s \in Session, CheckLimits(s) PROVE FewUpToLate' BY <2>4, LimitsKeepLimit
  <2>5. ASSUME CrashAndRestore PROVE FewUpToLate' BY <2>5, RestartKeepsLimit
  <2>6. ASSUME UNCHANGED vars PROVE FewUpToLate'
    <3>1. \A p : UpToLate(p)' = UpToLate(p)
      BY <2>6 DEF vars, config, ledger, checks, rows, UpToLate, Counted, Waiting, Late, Noted, Answer,
                  PrincipalSessions, SessionsOf
    <3> QED BY <3>1 DEF CountInv, FewUpToLate
  <2>7. FewUpToLate' BY <2>2, <2>3, <2>4, <2>5, <2>6 DEF Next, Passing
  <2> QED BY <2>1, <2>7 DEF CountInv
<1>2. Init => CountInv BY InitCountInv
<1> QED BY <1>1, <1>2, PTL DEF Spec

\* limitCount holds for every number of sessions and persons, whichever session starts,
\* commits, fails or is restored while another waits for the database.
THEOREM CountCorrect == ASSUME GrantAssumption PROVE Spec => []CountIsLimited
<1>1. CountInv => CountIsLimited
  <2> SUFFICES ASSUME CountInv, LimitCount > 0, NEW p \in Person PROVE Cardinality(Counted(p)) <= LimitCount
    BY DEF CountIsLimited
  <2>1. UpToLate(p) \in SUBSET Session /\ Counted(p) \in SUBSET UpToLate(p) BY DEF UpToLate, Counted, Waiting
  <2>2. Cardinality(Counted(p)) <= Cardinality(UpToLate(p)) /\ Cardinality(Counted(p)) \in Nat
        /\ Cardinality(UpToLate(p)) \in Nat
    BY <2>1, SubsetBound
  <2> QED BY <2>2 DEF CountInv, FewUpToLate, GrantAssumption
<1> QED BY <1>1, CountInvariance, PTL

\* The active sessions of p that are not about to fail.
AtOnce(p) == {s \in Active : who[s] = p /\ stage[s] # "failing"}

\* Only a check adds an active session, and it has counted the others.
LEMMA ConcurrencyStep ==
  ASSUME GrantAssumption, ConcurrencyInv, [Next]_vars, ConcurrencyLimit > 0, module' # "github", NEW p \in Person
  PROVE  Cardinality(AtOnce(p)') <= ConcurrencyLimit
<1> USE DEF ConcurrencyInv, GrantShape
<1>m. UNCHANGED module
  BY DEF Next, vars, config, BeginAdmission, NoLogin, GetFinishedSessions, CheckLimits, Activate, InsertRow,
         MarkCommitting, ProcessSessionComplete, TransitionSession, FinishSession, FailSession, CheckPrincipal,
         CrashAndRestore
<1>0. AtOnce(p) \in SUBSET Session /\ Cardinality(AtOnce(p)) <= ConcurrencyLimit
  BY <1>m DEF AtOnce, Active, Starting, ConcurrencyIsLimited
<1>s. ASSUME AtOnce(p)' \subseteq AtOnce(p) PROVE Cardinality(AtOnce(p)') <= ConcurrencyLimit
  <2>1. Cardinality(AtOnce(p)') <= Cardinality(AtOnce(p)) /\ Cardinality(AtOnce(p)') \in Nat
        /\ Cardinality(AtOnce(p)) \in Nat
    BY <1>0, <1>s, SubsetBound
  <2> QED BY <1>0, <2>1 DEF GrantAssumption
<1>1. ASSUME NEW s \in Session, Passing(s) PROVE AtOnce(p)' \subseteq AtOnce(p)
  <2>1. UNCHANGED who /\ \A t \in Session : t # s => stage'[t] = stage[t] BY <1>1, PassingEffect
  <2>2. who[s] = p => stage[s] \notin {"new", "begun"} BY DEF Shape, Unnamed, GrantAssumption
  <2>3. who[s] = p /\ stage'[s] \notin {"failing", "ended", "new"} => stage[s] \notin {"failing", "ended", "new"}
    BY <1>1, <2>2 DEF Passing, BeginAdmission, NoLogin, GetFinishedSessions, Activate, InsertRow, MarkCommitting,
       ProcessSessionComplete, TransitionSession, FinishSession, FailSession, Enter, GrantTypes
  <2> QED BY <2>1, <2>3 DEF AtOnce, Active, Starting, GrantTypes, Unnamed, Asking, Holding
<1>2. ASSUME NEW s \in Session, CheckLimits(s) PROVE AtOnce(p)' \subseteq AtOnce(p)
  <2>1. /\ stage[s] = "queried" /\ UNCHANGED who
        /\ stage' = [stage EXCEPT ![s] = "failing"] \/ stage' = [stage EXCEPT ![s] = "cleared"]
    BY <1>2 DEF CheckLimits, CheckRestriction, CheckGrant, Enter
  <2> QED BY <2>1 DEF AtOnce, Active, Starting, GrantTypes
<1>3. ASSUME CrashAndRestore PROVE AtOnce(p)' \subseteq AtOnce(p)
  <2>1. \A t \in Session : t \in Active' => row[t] = "running"
    BY <1>3 DEF CrashAndRestore, Active, Starting
  <2>2. \A t \in Session : row[t] = "running" => t \in Active /\ stage[t] # "failing"
    BY DEF Shape, Active, Starting
  <2>3. UNCHANGED who BY <1>3 DEF CrashAndRestore
  <2> QED BY <2>1, <2>2, <2>3 DEF AtOnce, Active, Starting
<1>4. ASSUME NEW s \in Session, NEW q \in Person, CheckPrincipal(s, q)
      PROVE  Cardinality(AtOnce(p)') <= ConcurrencyLimit
  <2>1. /\ stage[s] = "begun" /\ who' = [who EXCEPT ![s] = q]
        /\ stage' = [stage EXCEPT ![s] = "failing"]
           \/ (/\ stage' = [stage EXCEPT ![s] = "querying"]
               /\ ~(Cardinality(PriorSessions(s, q)) >= ConcurrencyLimit))
    BY <1>4, <1>m DEF CheckPrincipal, Enter, TooManyAtOnce
  <2>2. CASE q # p \/ stage'[s] = "failing"
    <3>1. AtOnce(p)' \subseteq AtOnce(p) BY <2>1, <2>2 DEF AtOnce, Active, Starting, GrantTypes
    <3> QED BY <1>s, <3>1
  <2>3. CASE q = p /\ stage'[s] # "failing"
    <3> DEFINE P == PriorSessions(s, p)
    <3>1. ~(Cardinality(P) >= ConcurrencyLimit) BY <2>1, <2>3 DEF GrantTypes
    <3>2. P \in SUBSET Session BY DEF PriorSessions, Active, Starting
    <3>3. AtOnce(p)' \subseteq P \union {s}
      <4> SUFFICES ASSUME NEW t \in AtOnce(p)', t # s PROVE t \in P OBVIOUS
      <4>1. t \in Session /\ who[t] = p /\ stage[t] \notin {"new", "ended"}
        BY <2>1 DEF AtOnce, Active, Starting, GrantTypes
      <4>2. order[t] # 0 BY <4>1 DEF Shape, GrantAssumption
      <4> QED BY <4>1, <4>2, PriorIsNoted DEF Shares
    <3> HIDE DEF P
    <3>4. IsFiniteSet(P) /\ Cardinality(P) \in Nat BY <3>2, SubsetBound
    <3>5. Cardinality(P \union {s}) = IF s \in P THEN Cardinality(P) ELSE Cardinality(P) + 1 BY <3>4, FS_AddElement
    <3>6. ConcurrencyLimit \in Nat BY DEF GrantAssumption
    <3>7. Cardinality(P \union {s}) <= ConcurrencyLimit /\ Cardinality(P \union {s}) \in Nat BY <3>1, <3>4, <3>5, <3>6
    <3>8. P \union {s} \in SUBSET Session BY <3>2
    <3>9. Cardinality(AtOnce(p)') <= Cardinality(P \union {s}) /\ Cardinality(AtOnce(p)') \in Nat
      BY <3>3, <3>8, SubsetBound
    <3> QED BY <3>6, <3>7, <3>9
  <2> QED BY <2>2, <2>3
<1>5. CASE UNCHANGED vars
  <2>1. AtOnce(p)' \subseteq AtOnce(p) BY <1>5 DEF vars, AtOnce, Active, Starting
  <2> QED BY <1>s, <2>1
<1> QED BY <1>s, <1>1, <1>2, <1>3, <1>4, <1>5 DEF Next, Passing

\* concurrencyLimit holds for every number of sessions and persons, restarts included: the
\* check and the binding are one step, and every active session of a person stays bound.
THEOREM ConcurrencyCorrect == ASSUME GrantAssumption PROVE Spec => []ConcurrencyIsLimited
<1>1. Init => ConcurrencyInv
  <2> SUFFICES ASSUME Init PROVE ConcurrencyInv OBVIOUS
  <2>1. GrantShape BY InitCountInv DEF CountInv
  <2>2. ASSUME NEW p \in Person PROVE AtOnce(p) = {} BY DEF Init, AtOnce, Active, Starting, Old, GrantAssumption
  <2>3. ConcurrencyIsLimited BY <2>2, FS_EmptySet DEF ConcurrencyIsLimited, AtOnce, GrantAssumption
  <2> QED BY <2>1, <2>3 DEF ConcurrencyInv
<1>2. ConcurrencyInv /\ [Next]_vars => ConcurrencyInv'
  <2> SUFFICES ASSUME ConcurrencyInv, [Next]_vars PROVE ConcurrencyInv' OBVIOUS
  <2>1. GrantShape' BY ShapeStep DEF ConcurrencyInv
  <2>2. ASSUME ConcurrencyLimit > 0, module' # "github", NEW p \in Person
        PROVE  Cardinality(AtOnce(p)') <= ConcurrencyLimit
    BY <2>2, ConcurrencyStep
  <2> QED BY <2>1, <2>2 DEF ConcurrencyInv, ConcurrencyIsLimited, AtOnce
<1>3. ConcurrencyInv => ConcurrencyIsLimited BY DEF ConcurrencyInv
<1> QED BY <1>1, <1>2, <1>3, PTL DEF Spec

-----------------------------------------------------------------------------
(* The limit of the amount.  While an amount is limited, checks pass in the *)
(* order of binding: a session that was bound earlier and still waits is    *)
(* provisional in the notes of a later one.  So a check that passes has     *)
(* noted all that counts, each for no less than it is worth.  The sums are  *)
(* compared as numbers of units: the sum of w over S is the number of       *)
(* pairs <<x, i>> with x in S and i in 1..w[x].                             *)

Served == {"running", "committing", "linked"}

AmountTypes ==
  /\ ceiling \in [Session -> [amount : Nat, settled : BOOLEAN]] /\ drop \in [Session -> Nat]
  /\ usage \in [Session -> [ids : SUBSET Session, amount : [Session -> Nat], provisional : SUBSET Session]]

\* The ledger's ceiling of a session, and what its row was given.
CeilingShape(s) ==
  /\ stage[s] \in Served => ceiling[s].settled /\ ceiling[s].amount = Ceiling(s)
  /\ stage[s] \in {"begun", "querying", "queried", "cleared", "failing"} => ~ceiling[s].settled
  /\ row[s] = "claimable" => ceiling[s].amount = Ceiling(s) /\ drop[s] <= Ceiling(s)
  /\ row[s] # "claimable" => drop[s] = 0
\* What a check has noted for good: settled sessions at their ceiling, and paid ones.
NotesShape(s) ==
  /\ stage[s] \in Asking =>
       \A t \in usage[s].ids \ usage[s].provisional :
         stage[t] \in Served \union {"ended"} /\ usage[s].amount[t] = Ceiling(t)
  /\ stage[s] = "queried" => \A t \in finished[s] : row[t] = "claimable"
AmountShape == AmountTypes /\ \A s \in Session : CeilingShape(s) /\ NotesShape(s)

\* A check under way has noted all that counts for its person.
CountedIsNoted == LimitAmount > 0 => \A s \in Session : stage[s] \in Asking => Counted(who[s]) \subseteq Noted(s)

Units(w, S) == UNION {{x} \X (1..w[x]) : x \in S}
WorthUnits(S) == UNION {{x} \X (1..Worth(x)) : x \in S}
\* AmountIsLimited, for one person and in units.
Affordable(p) == Counted(p) = {} \/ \E last \in Counted(p) : Cardinality(WorthUnits(Counted(p) \ {last})) < LimitAmount

\* The inductive invariant of the amount.
AmountInv ==
  /\ GrantShape /\ NotesEarlier /\ AmountShape /\ CountedIsNoted
  /\ LimitAmount > 0 => \A p \in Person : Affordable(p)

\* What a session may be paid is a natural number.
LEMMA CeilingType ==
  ASSUME GrantAssumption, NEW s PROVE Ceiling(s) \in Nat
BY DEF Ceiling, GrantAssumption

\* The steps of one session but the two checks.
LEMMA PassingAmounts ==
  ASSUME GrantAssumption, GrantShape, GrantShape', AmountShape, NEW s \in Session, Passing(s)
  PROVE  AmountShape'
<1> USE DEF GrantShape
<1> USE DEF Enter, checks, rows, ledger, config
<1>1. UNCHANGED <<module, granted, usage>> BY PassingEffect
<1>2. \A t : Ceiling(t)' = Ceiling(t) /\ Ceiling(t) \in Nat BY <1>1, CeilingType DEF Ceiling
<1>3. AmountTypes' /\ (\A t \in Session : CeilingShape(t)')
  <2> USE DEF AmountShape, AmountTypes, CeilingShape, Served, GrantTypes, Shape
  <2> HIDE DEF Ceiling
  <2> SUFFICES AmountTypes' /\ CeilingShape(s)' /\ \A t \in Session : t # s => CeilingShape(t)' OBVIOUS
  <2>1. CASE BeginAdmission(s) BY <1>1, <1>2, <2>1 DEF BeginAdmission, GrantAssumption, Unnamed
  <2>2. CASE NoLogin(s) BY <1>1, <1>2, <2>2 DEF NoLogin
  <2>3. CASE GetFinishedSessions(s) BY <1>1, <1>2, <2>3 DEF GetFinishedSessions
  <2>4. CASE Activate(s) BY <1>1, <1>2, <2>4 DEF Activate
  <2>5. CASE InsertRow(s) BY <1>1, <1>2, <2>5 DEF InsertRow
  <2>6. CASE MarkCommitting(s) BY <1>1, <1>2, <2>6 DEF MarkCommitting
  <2>7. CASE ProcessSessionComplete(s) BY <1>1, <1>2, <2>7 DEF ProcessSessionComplete
  <2>8. CASE TransitionSession(s) BY <1>1, <1>2, <2>8 DEF TransitionSession
  <2>9. CASE FinishSession(s) BY <1>1, <1>2, <2>9 DEF FinishSession, Release
  <2>10. CASE FailSession(s) BY <1>1, <1>2, <2>10 DEF FailSession, Release
  <2> QED BY <2>1, <2>2, <2>3, <2>4, <2>5, <2>6, <2>7, <2>8, <2>9, <2>10 DEF Passing
<1>4. \A t \in Session : stage[t] \in Served \union {"ended"} => stage'[t] \in Served \union {"ended"}
  BY DEF Passing, BeginAdmission, NoLogin, GetFinishedSessions, Activate, InsertRow, MarkCommitting,
     ProcessSessionComplete, TransitionSession, FinishSession, FailSession, Served, GrantTypes
<1>5. \A t \in Session : row[t] = "claimable" => row'[t] = "claimable" BY PassingEffect
<1>6. ASSUME NEW t \in Session PROVE NotesShape(t)'
  <2>1. stage'[t] \in Asking => stage[t] \in Asking
    BY PassingEffect DEF GetFinishedSessions, Asking
  <2>2. stage'[t] = "queried" => \A u \in finished'[t] : row'[u] = "claimable"
    <3> SUFFICES ASSUME stage'[t] = "queried" PROVE \A u \in finished'[t] : row'[u] = "claimable" OBVIOUS
    <3>1. CASE t = s
      <4>1. GetFinishedSessions(s) BY <3>1, PassingEffect DEF Asking
      <4> QED BY <3>1, <4>1, <1>5 DEF GetFinishedSessions, PrincipalSessions, SessionsOf, GrantTypes
    <3>2. CASE t # s
      <4>1. stage[t] = "queried" /\ finished'[t] = finished[t] BY <3>2, PassingEffect
      <4> QED BY <4>1, <1>5 DEF AmountShape, NotesShape, GrantTypes
    <3> QED BY <3>1, <3>2
  <2>3. usage[t].ids \subseteq Session BY DEF GrantTypes
  <2> QED BY <1>1, <1>2, <1>4, <2>1, <2>2, <2>3 DEF AmountShape, NotesShape
<1> QED BY <1>3, <1>6 DEF AmountShape

\* A check that begins notes settled sessions at their ceiling.
LEMMA PrincipalAmounts ==
  ASSUME GrantAssumption, GrantShape, GrantShape', AmountShape, NEW s \in Session, NEW p \in Person,
         CheckPrincipal(s, p)
  PROVE  AmountShape'
<1> USE DEF GrantShape, Enter, rows, config
<1>1. /\ stage[s] = "begun" /\ UNCHANGED <<module, granted, row, drop, finished>> /\ ceiling' = Reserved(s)
      /\ \/ stage' = [stage EXCEPT ![s] = "failing"] /\ usage' = usage
         \/ stage' = [stage EXCEPT ![s] = "querying"] /\ usage' = [usage EXCEPT ![s] = PriorUsage(s, p)]
  BY DEF CheckPrincipal
<1>2. \A t : Ceiling(t)' = Ceiling(t) /\ Ceiling(t) \in Nat BY <1>1, CeilingType DEF Ceiling
<1>3. \A t \in Session : ceiling[t].amount \in Nat /\ ceiling[t].settled \in BOOLEAN
  BY DEF AmountShape, AmountTypes
<1>4. PriorSessions(s, p) \subseteq Session /\ s \notin PriorSessions(s, p)
  BY DEF PriorSessions, Active, Starting
<1>5. PriorUsage(s, p) \in [ids : SUBSET Session, amount : [Session -> Nat], provisional : SUBSET Session]
  <2>1. [t \in Session |-> IF t \in PriorSessions(s, p) THEN ceiling[t].amount ELSE 0] \in [Session -> Nat]
    BY <1>3
  <2> QED BY <1>4, <2>1 DEF PriorUsage
<1>6. /\ ceiling' \in [Session -> [amount : Nat, settled : BOOLEAN]] /\ ~ceiling'[s].settled
      /\ \A t \in Session : t # s => ceiling'[t] = ceiling[t]
  <2>1. ~ceiling[s].settled BY <1>1 DEF AmountShape, CeilingShape
  <2>2. Override \in Nat BY DEF GrantAssumption
  <2> QED BY <1>1, <1>3, <2>1, <2>2 DEF Reserved, AmountShape, AmountTypes
<1>7. AmountTypes'
  <2>1. usage' \in [Session -> [ids : SUBSET Session, amount : [Session -> Nat], provisional : SUBSET Session]]
    BY <1>1, <1>5 DEF AmountShape, AmountTypes
  <2> QED BY <1>1, <1>6, <2>1 DEF AmountShape, AmountTypes
<1>8. ASSUME NEW t \in Session PROVE CeilingShape(t)'
  <2>1. CASE t = s
    <3>1. stage'[s] \notin Served /\ row[s] = "none" BY <1>1 DEF GrantTypes, Shape, Served, Unnamed
    <3> QED BY <1>1, <1>6, <2>1, <3>1 DEF AmountShape, CeilingShape
  <2>2. CASE t # s
    <3>1. stage'[t] = stage[t] BY <1>1, <2>2 DEF GrantTypes
    <3> QED BY <1>1, <1>2, <1>6, <2>2, <3>1 DEF AmountShape, CeilingShape
  <2> QED BY <2>1, <2>2
<1>9. ASSUME NEW t \in Session PROVE NotesShape(t)'
  <2>1. \A u \in Session : stage[u] \in Served \union {"ended"} => stage'[u] \in Served \union {"ended"}
    BY <1>1 DEF Served, GrantTypes
  <2>2. CASE t # s
    <3>1. stage'[t] = stage[t] /\ usage'[t] = usage[t] BY <1>1, <2>2 DEF GrantTypes
    <3> QED BY <1>1, <1>2, <2>1, <3>1 DEF AmountShape, NotesShape, GrantTypes
  <2>3. CASE t = s
    <3>1. stage'[s] # "queried" BY <1>1 DEF GrantTypes
    <3> SUFFICES ASSUME stage'[s] \in Asking, NEW u \in usage'[s].ids \ usage'[s].provisional
                 PROVE  stage'[u] \in Served \union {"ended"} /\ usage'[s].amount[u] = Ceiling(u)'
      BY <2>3, <3>1 DEF NotesShape
    <3>2. usage'[s] = PriorUsage(s, p) BY <1>1 DEF GrantTypes, Asking
    <3>3. u \in PriorSessions(s, p) /\ ceiling[u].settled /\ usage'[s].amount[u] = ceiling[u].amount /\ u \in Session
      BY <1>3, <1>4, <3>2 DEF PriorUsage
    <3>4. stage[u] \in Served
      <4>1. u \in Active BY <3>3 DEF PriorSessions
      <4> QED BY <3>3, <4>1 DEF Active, Starting, Served, AmountShape, CeilingShape
    <3> QED BY <1>2, <2>1, <3>3, <3>4 DEF AmountShape, CeilingShape
  <2> QED BY <2>2, <2>3
<1> QED BY <1>7, <1>8, <1>9 DEF AmountShape

\* A check that ends forgets its notes.
LEMMA LimitsAmounts ==
  ASSUME GrantAssumption, GrantShape, GrantShape', AmountShape, NEW s \in Session, CheckLimits(s)
  PROVE  AmountShape'
<1> USE DEF GrantShape, Enter, rows, config, ledger
<1>1. /\ stage[s] = "queried" /\ UNCHANGED <<module, row, drop, ceiling>>
      /\ stage' = [stage EXCEPT ![s] = "failing"] \/ stage' = [stage EXCEPT ![s] = "cleared"]
      /\ granted' = [granted EXCEPT ![s] = ~UsedUp(s)]
      /\ usage' = [usage EXCEPT ![s] = NoUsage] /\ finished' = [finished EXCEPT ![s] = {}]
  BY DEF CheckLimits, CheckRestriction, CheckGrant
<1>2. \A t \in Session : t # s => stage'[t] = stage[t] /\ usage'[t] = usage[t] /\ finished'[t] = finished[t]
                                  /\ Ceiling(t)' = Ceiling(t)
  BY <1>1 DEF GrantTypes, Ceiling
<1>3. stage'[s] \in {"failing", "cleared"} BY <1>1 DEF GrantTypes
<1>4. AmountTypes'
  <2>1. NoUsage \in [ids : SUBSET Session, amount : [Session -> Nat], provisional : SUBSET Session]
    BY DEF NoUsage
  <2> QED BY <1>1, <2>1 DEF AmountShape, AmountTypes
<1>5. ASSUME NEW t \in Session PROVE CeilingShape(t)'
  <2>1. CASE t = s
    <3>1. row[s] = "none" /\ ~ceiling[s].settled BY <1>1 DEF Shape, Asking, AmountShape, CeilingShape
    <3> QED BY <1>1, <1>3, <2>1, <3>1 DEF AmountShape, CeilingShape, Served
  <2>2. CASE t # s BY <1>1, <1>2, <2>2 DEF AmountShape, CeilingShape
  <2> QED BY <2>1, <2>2
<1>6. ASSUME NEW t \in Session PROVE NotesShape(t)'
  <2>1. CASE t = s BY <1>3, <2>1 DEF NotesShape, Asking
  <2>2. CASE t # s
    <3>1. \A u \in usage[t].ids : u \in Session BY DEF GrantTypes
    <3>2. \A u \in Session : stage[u] \in Served \union {"ended"} => u # s BY <1>1 DEF Served
    <3> QED BY <1>1, <1>2, <2>2, <3>1, <3>2 DEF AmountShape, NotesShape
  <2> QED BY <2>1, <2>2
<1> QED BY <1>4, <1>5, <1>6 DEF AmountShape

\* A restart settles the ceiling of what it brings back, at what the row may still be given.
LEMMA RestartAmounts ==
  ASSUME GrantAssumption, GrantShape, GrantShape', AmountShape, CrashAndRestore
  PROVE  AmountShape'
<1> USE DEF GrantShape, rows, config
<1>1. /\ UNCHANGED <<module, granted, row, drop>>
      /\ stage' = [s \in Session |-> IF s \in {t \in Session : row[t] = "running"} THEN "running"
                                     ELSE IF stage[s] = "new" THEN "new" ELSE "ended"]
      /\ ceiling' = [s \in Session |-> [amount |-> Ceiling(s), settled |-> s \in {t \in Session : row[t] = "running"}]]
      /\ usage' = [s \in Session |-> NoUsage] /\ finished' = [s \in Session |-> {}]
  BY DEF CrashAndRestore
<1>2. \A t : Ceiling(t)' = Ceiling(t) /\ Ceiling(t) \in Nat BY <1>1, CeilingType DEF Ceiling
<1>3. AmountTypes'
  <2>1. NoUsage \in [ids : SUBSET Session, amount : [Session -> Nat], provisional : SUBSET Session]
    BY DEF NoUsage
  <2> QED BY <1>1, <1>2, <2>1 DEF AmountShape, AmountTypes
<1>4. \A t \in Session : CeilingShape(t)' BY <1>1, <1>2 DEF AmountShape, CeilingShape, Served
<1>5. \A t \in Session : NotesShape(t)' BY <1>1 DEF NotesShape, Asking
<1> QED BY <1>3, <1>4, <1>5 DEF AmountShape

\* Every step keeps the ceilings and what checks have noted of them.
LEMMA AmountShapeStep ==
  ASSUME GrantAssumption, GrantShape, GrantShape', AmountShape, [Next]_vars
  PROVE  AmountShape'
<1>1. ASSUME UNCHANGED vars PROVE AmountShape'
  BY <1>1 DEF vars, config, ledger, checks, rows, AmountShape, AmountTypes, CeilingShape, NotesShape, Ceiling
<1> QED BY <1>1, PassingAmounts, PrincipalAmounts, LimitsAmounts, RestartAmounts DEF Next, Passing

\* A family of subsets of a finite set has a smallest one: induction over finite sets.
LEMMA SmallestSet ==
  ASSUME NEW S, IsFiniteSet(S), NEW F \in SUBSET (SUBSET S), F # {}
  PROVE  \E x \in F : \A y \in F : y \subseteq x => y = x
<1>1. IsWellFoundedOn(StrictSubsetOrdering(S), SUBSET S)
  BY FS_StrictSubsetOrderingWellFounded, FS_FiniteSubsetsOfFinite
<1>2. \E x \in F : \A y \in F : <<y, x>> \notin StrictSubsetOrdering(S) BY <1>1, WFMin
<1>3. \A x, y \in F : y \subseteq x /\ y # x => <<y, x>> \in StrictSubsetOrdering(S)
  BY DEF StrictSubsetOrdering
<1> QED BY <1>2, <1>3

\* One more element has its own units.
LEMMA UnitsGrow ==
  ASSUME NEW S, NEW w \in [S -> Nat], NEW x \in S, IsFiniteSet(Units(w, S \ {x}))
  PROVE  /\ IsFiniteSet(Units(w, S))
         /\ Cardinality(Units(w, S)) = w[x] + Cardinality(Units(w, S \ {x}))
<1> DEFINE A == {x} \X (1..w[x])
<1> DEFINE B == Units(w, S \ {x})
<1>1. Units(w, S) = A \union B /\ A \intersect B = {}
  <2>1. \A T, u : u \in Units(w, T) <=> \E y \in T : u \in {y} \X (1..w[y]) BY DEF Units
  <2>2. A \intersect B = {} BY <2>1
  <2>3. \A u : u \in Units(w, S) <=> u \in A \/ u \in B BY <2>1
  <2> QED BY <2>2, <2>3
<1>2. w[x] \in Nat OBVIOUS
<1>3. IsFiniteSet(1..w[x]) /\ Cardinality(1..w[x]) = w[x] BY <1>2, FS_Interval
<1>4. IsFiniteSet({x}) /\ Cardinality({x}) = 1 BY FS_Singleton
<1>5. IsFiniteSet(A) /\ Cardinality(A) = w[x]
  <2>1. IsFiniteSet(A) /\ Cardinality(A) = Cardinality({x}) * Cardinality(1..w[x]) BY <1>3, <1>4, FS_Product
  <2> QED BY <1>2, <1>3, <1>4, <2>1
<1> HIDE DEF A, B
<1>6. IsFiniteSet(B) BY DEF B
<1>7. IsFiniteSet(A \union B) /\ Cardinality(A \union B) = Cardinality(A) + Cardinality(B) - Cardinality({})
  BY <1>1, <1>5, <1>6, FS_Union
<1>8. Cardinality(B) \in Nat /\ Cardinality({}) = 0 BY <1>6, FS_CardinalityType, FS_EmptySet
<1> QED BY <1>1, <1>2, <1>5, <1>7, <1>8 DEF B

\* The function that MapThenSumSet defines by recursion over the subsets of S.
Chosen(s) == CHOOSE x \in s : TRUE
SumsUp(g, w, S) ==
  g = [s \in SUBSET S |-> IF s = {} THEN 0 ELSE w[Chosen(s)] + g[s \ {Chosen(s)}]]

\* Numbers of units solve the recursion.
LEMMA UnitsSumUp ==
  ASSUME NEW S, IsFiniteSet(S), NEW w \in [S -> Nat]
  PROVE  /\ \A s \in SUBSET S : IsFiniteSet(Units(w, s))
         /\ SumsUp([s \in SUBSET S |-> Cardinality(Units(w, s))], w, S)
<1>1. ASSUME NEW s \in SUBSET S PROVE IsFiniteSet(Units(w, s))
  <2> DEFINE F == {r \in SUBSET S : ~IsFiniteSet(Units(w, r))}
  <2> SUFFICES ASSUME F # {} PROVE FALSE OBVIOUS
  <2>1. PICK r \in F : \A y \in F : y \subseteq r => y = r
    <3>1. F \in SUBSET (SUBSET S) OBVIOUS
    <3> HIDE DEF F
    <3> QED BY <3>1, SmallestSet
  <2>2. CASE r = {}
    <3>1. Units(w, r) = {} BY <2>2 DEF Units
    <3> QED BY <2>1, <3>1, FS_EmptySet
  <2>3. CASE r # {}
    <3>1. PICK x \in r : TRUE BY <2>3
    <3>2. IsFiniteSet(Units(w, r \ {x})) BY <2>1, <3>1
    <3>3. [y \in r |-> w[y]] \in [r -> Nat] OBVIOUS
    <3>4. Units([y \in r |-> w[y]], r) = Units(w, r) /\ Units([y \in r |-> w[y]], r \ {x}) = Units(w, r \ {x})
      BY DEF Units
    <3>5. IsFiniteSet(Units(w, r)) BY <3>1, <3>2, <3>3, <3>4, UnitsGrow
    <3> QED BY <2>1, <3>5
  <2> QED BY <2>2, <2>3
<1>2. ASSUME NEW s \in SUBSET S, s # {}
      PROVE  Cardinality(Units(w, s)) = w[Chosen(s)] + Cardinality(Units(w, s \ {Chosen(s)}))
  <2> DEFINE x == Chosen(s)
  <2> DEFINE f == [y \in s |-> w[y]]
  <2>1. x \in s BY <1>2 DEF Chosen
  <2>2. f \in [s -> Nat] /\ f[x] = w[x] BY <2>1
  <2>3. Units(f, s) = Units(w, s) /\ Units(f, s \ {x}) = Units(w, s \ {x}) BY DEF Units
  <2>4. IsFiniteSet(Units(w, s \ {x})) BY <1>1
  <2> HIDE DEF f, x
  <2>5. Cardinality(Units(w, s)) = w[x] + Cardinality(Units(w, s \ {x})) BY <2>1, <2>2, <2>3, <2>4, UnitsGrow
  <2> QED BY <2>5 DEF x
<1>3. Cardinality(Units(w, {})) = 0
  <2>1. Units(w, {}) = {} BY DEF Units
  <2> QED BY <2>1, FS_EmptySet
<1> DEFINE g == [s \in SUBSET S |-> Cardinality(Units(w, s))]
<1>4. \A s \in SUBSET S : g[s] = IF s = {} THEN 0 ELSE w[Chosen(s)] + g[s \ {Chosen(s)}] BY <1>2, <1>3
<1>5. SumsUp(g, w, S)
  <2>1. g = [s \in SUBSET S |-> g[s]] OBVIOUS
  <2> HIDE DEF g
  <2> QED BY <1>4, <2>1 DEF SumsUp
<1> QED BY <1>1, <1>5

\* and nothing else does.
LEMMA SumsAreUnits ==
  ASSUME NEW S, IsFiniteSet(S), NEW w \in [S -> Nat], NEW g, SumsUp(g, w, S)
  PROVE  g[S] = Cardinality(Units(w, S))
<1> DEFINE h == [s \in SUBSET S |-> Cardinality(Units(w, s))]
<1>1. \A s \in SUBSET S : h[s] = IF s = {} THEN 0 ELSE w[Chosen(s)] + h[s \ {Chosen(s)}]
  <2>1. SumsUp(h, w, S) BY UnitsSumUp
  <2> HIDE DEF h
  <2> QED BY <2>1 DEF SumsUp
<1>2. \A s \in SUBSET S : g[s] = IF s = {} THEN 0 ELSE w[Chosen(s)] + g[s \ {Chosen(s)}] BY DEF SumsUp
<1> DEFINE F == {r \in SUBSET S : g[r] # h[r]}
<1> HIDE DEF h
<1>3. F = {}
  <2> SUFFICES ASSUME F # {} PROVE FALSE OBVIOUS
  <2>1. PICK r \in F : \A y \in F : y \subseteq r => y = r
    <3>1. F \in SUBSET (SUBSET S) OBVIOUS
    <3> HIDE DEF F
    <3> QED BY <3>1, SmallestSet
  <2>2. r # {} BY <1>1, <1>2, <2>1
  <2>3. Chosen(r) \in r BY <2>2 DEF Chosen
  <2>4. g[r \ {Chosen(r)}] = h[r \ {Chosen(r)}] BY <2>1, <2>3
  <2> QED BY <1>1, <1>2, <2>1, <2>2, <2>4
<1>4. g[S] = h[S] BY <1>3
<1> QED BY <1>4 DEF h

\* What sessions are worth together, and what a check adds up.
LEMMA WorthIsFinite ==
  ASSUME GrantAssumption, AmountTypes, NEW S \in SUBSET Session
  PROVE  /\ IsFiniteSet(S) /\ IsFiniteSet(WorthUnits(S))
         /\ MapThenSumSet(Worth, S) = Cardinality(WorthUnits(S))
<1> DEFINE w == [s \in S |-> Worth(s)]
<1> DEFINE c == CHOOSE g : g = [s \in SUBSET S |-> IF s = {} THEN 0 ELSE Worth(Chosen(s)) + g[s \ {Chosen(s)}]]
<1>1. \A g : SumsUp(g, w, S) <=> g = [s \in SUBSET S |-> IF s = {} THEN 0 ELSE Worth(Chosen(s)) + g[s \ {Chosen(s)}]]
  <2>1. \A s \in SUBSET S : s # {} => w[Chosen(s)] = Worth(Chosen(s)) BY DEF Chosen
  <2> HIDE DEF w
  <2> QED BY <2>1 DEF SumsUp
<1>2. w \in [S -> Nat]
  <2>1. \A s \in S : Worth(s) \in Nat BY CeilingType DEF AmountTypes, Worth
  <2> QED BY <2>1
<1>3. IsFiniteSet(S) BY FS_Subset DEF GrantAssumption
<1>4. Units(w, S) = WorthUnits(S) BY DEF Units, WorthUnits
<1> HIDE DEF w
<1>5. IsFiniteSet(Units(w, S)) /\ \E g : SumsUp(g, w, S) BY <1>2, <1>3, UnitsSumUp
<1>6. SumsUp(c, w, S) BY <1>1, <1>5
<1>7. MapThenSumSet(Worth, S) = c[S] BY DEF MapThenSumSet, MapThenFoldSet, Chosen
<1> HIDE DEF c
<1>8. c[S] = Cardinality(Units(w, S)) BY <1>2, <1>3, <1>6, SumsAreUnits
<1> QED BY <1>3, <1>4, <1>5, <1>7, <1>8

\* The same sum of a recorded amount.
LEMMA FoldIsUnits ==
  ASSUME GrantAssumption, NEW f \in [Session -> Nat], NEW S \in SUBSET Session
  PROVE  /\ IsFiniteSet(Units(f, S))
         /\ MapThenSumSet(LAMBDA t : f[t], S) = Cardinality(Units(f, S))
<1> DEFINE w == [s \in S |-> f[s]]
<1> DEFINE c == CHOOSE g : g = [s \in SUBSET S |-> IF s = {} THEN 0 ELSE f[Chosen(s)] + g[s \ {Chosen(s)}]]
<1>1. \A g : SumsUp(g, w, S) <=> g = [s \in SUBSET S |-> IF s = {} THEN 0 ELSE f[Chosen(s)] + g[s \ {Chosen(s)}]]
  <2>1. \A s \in SUBSET S : s # {} => w[Chosen(s)] = f[Chosen(s)] BY DEF Chosen
  <2> HIDE DEF w
  <2> QED BY <2>1 DEF SumsUp
<1>2. w \in [S -> Nat] OBVIOUS
<1>3. IsFiniteSet(S) BY FS_Subset DEF GrantAssumption
<1>4. Units(w, S) = Units(f, S) BY DEF Units
<1> HIDE DEF w
<1>5. IsFiniteSet(Units(w, S)) /\ \E g : SumsUp(g, w, S) BY <1>2, <1>3, UnitsSumUp
<1>6. SumsUp(c, w, S) BY <1>1, <1>5
<1>7. MapThenSumSet(LAMBDA t : f[t], S) = c[S] BY DEF MapThenSumSet, MapThenFoldSet, Chosen
<1> HIDE DEF c
<1>8. c[S] = Cardinality(Units(w, S)) BY <1>2, <1>3, <1>6, SumsAreUnits
<1> QED BY <1>4, <1>5, <1>7, <1>8

\* Nobody new counts and nobody is worth more: the person stays affordable.
LEMMA CalmStaysAffordable ==
  ASSUME GrantAssumption, AmountTypes, LimitAmount > 0, NEW p \in Person, Affordable(p),
         Counted(p)' \subseteq Counted(p), \A t \in Counted(p)' : Worth(t)' \in Nat /\ Worth(t)' <= Worth(t)
  PROVE  Affordable(p)'
<1> SUFFICES ASSUME Counted(p)' # {}
             PROVE  \E last \in Counted(p)' : Cardinality(WorthUnits(Counted(p) \ {last})') < LimitAmount
  BY DEF Affordable
<1>1. PICK last \in Counted(p) : Cardinality(WorthUnits(Counted(p) \ {last})) < LimitAmount BY DEF Affordable
<1>2. PICK one \in Counted(p)' : last \in Counted(p)' => one = last OBVIOUS
<1>3. (Counted(p)' \ {one}) \subseteq Counted(p) \ {last} BY <1>2
<1> DEFINE C == Counted(p) \ {last}
<1>4. C \in SUBSET Session BY DEF Counted
<1>5. \A t \in Counted(p)' : Worth(t) \in Nat /\ 1..Worth(t)' \subseteq 1..Worth(t)
  <2>1. \A t \in Session : Worth(t) \in Nat BY CeilingType DEF AmountTypes, Worth
  <2>2. Counted(p)' \subseteq Session BY <1>4 DEF Counted
  <2> QED BY <2>1, <2>2
<1>6. WorthUnits(Counted(p) \ {one})' \in SUBSET WorthUnits(C)
  <2>1. WorthUnits(Counted(p) \ {one})' = UNION {{x} \X (1..Worth(x)') : x \in Counted(p)' \ {one}}
    BY DEF WorthUnits
  <2> QED BY <1>3, <1>5, <2>1 DEF WorthUnits
<1> HIDE DEF C
<1>7. IsFiniteSet(WorthUnits(C)) BY <1>4, WorthIsFinite
<1>8. /\ Cardinality(WorthUnits(Counted(p) \ {one})') <= Cardinality(WorthUnits(C))
      /\ Cardinality(WorthUnits(C)) \in Nat /\ Cardinality(WorthUnits(Counted(p) \ {one})') \in Nat
  BY <1>6, <1>7, FS_Subset, FS_CardinalityType
<1>9. Cardinality(WorthUnits(Counted(p) \ {one})') < LimitAmount
  BY <1>1, <1>8 DEF C, GrantAssumption
<1> QED BY <1>9

\* Only a check that passes makes a session worth more.
LEMMA WorthFalls ==
  ASSUME GrantAssumption, GrantShape, AmountShape, NEW s \in Session,
         Passing(s) \/ (\E p \in Person : CheckPrincipal(s, p)) \/ CrashAndRestore
  PROVE  \A t \in Session : Worth(t)' \in Nat /\ Worth(t)' <= Worth(t)
<1> USE DEF GrantShape
<1> SUFFICES ASSUME NEW t \in Session PROVE Worth(t)' \in Nat /\ Worth(t)' <= Worth(t) OBVIOUS
<1>1. UNCHANGED <<module, granted>>
  <2>1. CASE Passing(s) BY <2>1, PassingEffect
  <2>2. CASE ~Passing(s) BY <2>2 DEF CheckPrincipal, CrashAndRestore, config
  <2> QED BY <2>1, <2>2
<1>2. Ceiling(t)' = Ceiling(t) /\ Ceiling(t) \in Nat /\ drop[t] \in Nat
  BY <1>1, CeilingType DEF Ceiling, AmountShape, AmountTypes
<1>3. CASE UNCHANGED <<row, drop>> BY <1>2, <1>3 DEF Worth
<1>4. CASE TransitionSession(s)
  <2>1. PICK d \in 1..ceiling[s].amount : drop' = [drop EXCEPT ![s] = d] BY <1>4 DEF TransitionSession
  <2>2. stage[s] = "linked" /\ row[s] = "running" /\ row' = [row EXCEPT ![s] = "claimable"]
    BY <1>4 DEF TransitionSession
  <2>3. ceiling[s].amount = Ceiling(s) /\ Ceiling(s) \in Nat
    BY <2>2, CeilingType DEF AmountShape, CeilingShape, Served
  <2>4. d \in Nat /\ d <= Ceiling(s) BY <2>1, <2>3
  <2>5. CASE t = s BY <1>2, <2>1, <2>2, <2>4, <2>5 DEF Worth, GrantTypes, AmountShape, AmountTypes
  <2>6. CASE t # s BY <1>2, <2>1, <2>2, <2>6 DEF Worth, GrantTypes, AmountShape, AmountTypes
  <2> QED BY <2>5, <2>6
<1>5. CASE InsertRow(s) \/ FailSession(s)
  <2>1. UNCHANGED drop /\ (row'[t] = "claimable") = (row[t] = "claimable")
    BY <1>5 DEF InsertRow, FailSession, GrantTypes
  <2> QED BY <1>2, <2>1 DEF Worth
<1>6. CASE ~(TransitionSession(s) \/ InsertRow(s) \/ FailSession(s))
  <2>1. UNCHANGED <<row, drop>>
    BY <1>6 DEF Passing, BeginAdmission, NoLogin, GetFinishedSessions, Activate, MarkCommitting,
       ProcessSessionComplete, FinishSession, CheckPrincipal, CrashAndRestore, rows
  <2> QED BY <1>3, <2>1
<1> QED BY <1>4, <1>5, <1>6

\* While a check waits, nobody bound after it passes: what is granted has been noted by it.
LEMMA GrantedIsNoted ==
  ASSUME GrantAssumption, GrantShape, NotesEarlier, AmountShape, LimitAmount > 0,
         NEW s \in Session, stage[s] = "queried", ~UsedUp(s),
         NEW t \in Session \ {s}, stage[t] \in Asking, who[t] = who[s]
  PROVE  s \in Noted(t)
<1> USE DEF GrantShape
<1>1. order[s] \in Nat /\ order[t] \in Nat /\ order[s] > 1 /\ order[t] > 1 /\ order[t] # order[s] /\ row[t] = "none"
  BY DEF GrantTypes, Shape, Asking, NotesEarlier
<1>2. CASE order[s] < order[t]
  <2>1. s \in Before(t) BY <1>1, <1>2 DEF Before, Shares
  <2> QED BY <2>1 DEF NotesEarlier, Noted
<1>3. CASE order[t] < order[s]
  <2>1. t \in Before(s) BY <1>1, <1>3 DEF Before, Shares
  <2>2. t \in usage[s].ids BY <2>1 DEF NotesEarlier, Asking
  <2>3. t \in usage[s].provisional BY <2>2 DEF AmountShape, NotesShape, Asking, Served
  <2>4. t \notin finished[s] BY <1>1 DEF AmountShape, NotesShape
  <2>5. AmountUsedUp(s) BY <2>2, <2>3, <2>4 DEF AmountUsedUp, ActiveUsage
  <2> QED BY <2>5 DEF UsedUp
<1> QED BY <1>1, <1>2, <1>3

\* What a check that passes has noted covers what everyone else is worth.
LEMMA NotesCoverWorth ==
  ASSUME GrantAssumption, GrantShape, AmountShape, LimitAmount > 0,
         NEW s \in Session, stage[s] = "queried", ~UsedUp(s), NEW C \in SUBSET Noted(s)
  PROVE  C \in SUBSET Session /\ Cardinality(WorthUnits(C)) < LimitAmount
<1> USE DEF GrantShape
<1> DEFINE F == finished[s]
<1> DEFINE A == ActiveUsage(s)
<1> DEFINE a == usage[s].amount
<1>1. F \in SUBSET Session /\ A \in SUBSET Session /\ C \subseteq F \union A
  BY DEF GrantTypes, ActiveUsage, Noted
<1>2. a \in [Session -> Nat] /\ drop \in [Session -> Nat] BY DEF AmountShape, AmountTypes
<1>3. /\ IsFiniteSet(Units(drop, F)) /\ MapThenSumSet(LAMBDA t : drop[t], F) = Cardinality(Units(drop, F))
  BY <1>1, <1>2, FoldIsUnits
<1>4. /\ IsFiniteSet(Units(a, A)) /\ MapThenSumSet(LAMBDA t : a[t], A) = Cardinality(Units(a, A))
  <2> HIDE DEF a, A
  <2> QED BY <1>1, <1>2, FoldIsUnits
<1>5. ~AmountUsedUp(s) BY DEF UsedUp
<1>6. A \intersect usage[s].provisional = {} /\ ~(Total(s) >= LimitAmount) BY <1>5 DEF AmountUsedUp
<1>7. Total(s) = Cardinality(Units(drop, F)) + Cardinality(Units(a, A))
  BY <1>3, <1>4 DEF Total
<1>8. \A t \in F : Worth(t) = drop[t] BY DEF AmountShape, NotesShape, Worth
<1>9. \A t \in A : Worth(t) \in Nat /\ a[t] \in Nat /\ Worth(t) <= a[t]
  <2> SUFFICES ASSUME NEW t \in A PROVE Worth(t) \in Nat /\ a[t] \in Nat /\ Worth(t) <= a[t] OBVIOUS
  <2>1. t \in usage[s].ids \ usage[s].provisional /\ t \in Session BY <1>1, <1>6 DEF ActiveUsage
  <2>2. a[t] = Ceiling(t) /\ Ceiling(t) \in Nat BY <2>1, CeilingType DEF AmountShape, NotesShape, Asking
  <2>3. drop[t] \in Nat /\ (row[t] = "claimable" => drop[t] <= Ceiling(t))
    BY <1>2, <2>1 DEF AmountShape, CeilingShape
  <2> QED BY <2>2, <2>3 DEF Worth
<1> HIDE DEF F, A, a
<1>10. WorthUnits(C) \in SUBSET (Units(drop, F) \union Units(a, A))
  <2>1. ASSUME NEW t \in C PROVE {t} \X (1..Worth(t)) \subseteq Units(drop, F) \union Units(a, A)
    <3>1. CASE t \in F
      <4>1. {t} \X (1..Worth(t)) \subseteq Units(drop, F) BY <1>8, <3>1 DEF Units
      <4> QED BY <4>1
    <3>2. CASE t \in A
      <4>1. 1..Worth(t) \subseteq 1..a[t] BY <1>9, <3>2
      <4>2. {t} \X (1..a[t]) \subseteq Units(a, A) BY <3>2 DEF Units
      <4> QED BY <4>1, <4>2
    <3> QED BY <1>1, <3>1, <3>2
  <2> QED BY <2>1 DEF WorthUnits
<1> DEFINE U == Units(drop, F)
<1> DEFINE V == Units(a, A)
<1>11. IsFiniteSet(U) /\ IsFiniteSet(V) BY <1>3, <1>4
<1> HIDE DEF U, V
<1>12. /\ IsFiniteSet(U \union V)
       /\ Cardinality(U \union V) = Cardinality(U) + Cardinality(V) - Cardinality(U \intersect V)
  BY <1>11, FS_Union
<1>13. /\ Cardinality(U) \in Nat /\ Cardinality(V) \in Nat /\ Cardinality(U \union V) \in Nat
       /\ Cardinality(U \intersect V) \in Nat
  <2>1. IsFiniteSet(U \intersect V) BY <1>11, FS_Subset
  <2> QED BY <1>11, <1>12, <2>1, FS_CardinalityType
<1>14. WorthUnits(C) \in SUBSET (U \union V) BY <1>10 DEF U, V
<1>15. Cardinality(WorthUnits(C)) <= Cardinality(U \union V) /\ Cardinality(WorthUnits(C)) \in Nat
  BY <1>12, <1>14, FS_Subset, FS_CardinalityType
<1>16. ~(Cardinality(U) + Cardinality(V) >= LimitAmount) BY <1>6, <1>7 DEF U, V
<1> QED BY <1>1, <1>12, <1>13, <1>15, <1>16 DEF GrantAssumption

\* A check that passes gives its session to those who count; of the others nothing changes.
LEMMA LimitsCount ==
  ASSUME GrantAssumption, GrantShape, NEW s \in Session, CheckLimits(s)
  PROVE  /\ stage[s] = "queried" /\ stage'[s] \notin Asking /\ who[s] \in Person /\ UNCHANGED who
         /\ s \notin Counted(who[s])
         /\ \A q \in Person : Counted(q)' \subseteq Counted(q) \union {s}
         /\ \A q \in Person : q # who[s] \/ UsedUp(s) => Counted(q)' \subseteq Counted(q)
         /\ ~UsedUp(s) => s \in Counted(who[s])'
         /\ \A t \in Session \ {s} : stage'[t] = stage[t] /\ Noted(t)' = Noted(t) /\ Worth(t)' = Worth(t)
<1> USE DEF GrantShape
<1>1. /\ stage[s] = "queried" /\ UNCHANGED <<module, who, row, link, drop>>
      /\ stage' = [stage EXCEPT ![s] = IF UsedUp(s) THEN "failing" ELSE "cleared"]
         \/ stage' = [stage EXCEPT ![s] = "cleared"]
      /\ granted' = [granted EXCEPT ![s] = ~UsedUp(s)]
      /\ usage' = [usage EXCEPT ![s] = NoUsage] /\ finished' = [finished EXCEPT ![s] = {}]
  BY DEF CheckLimits, CheckRestriction, CheckGrant, Enter, config, rows
<1>2. ~granted[s] /\ row[s] = "none" /\ who[s] \in Person BY <1>1 DEF Shape, Asking
<1>3. \A t \in Session \ {s} : stage'[t] = stage[t] /\ granted'[t] = granted[t] /\ usage'[t] = usage[t]
                               /\ finished'[t] = finished[t]
  BY <1>1 DEF GrantTypes
<1>4. \A t \in Session \ {s} : Noted(t)' = Noted(t) /\ Worth(t)' = Worth(t)
  BY <1>1, <1>3 DEF Noted, Answer, PrincipalSessions, SessionsOf, Worth, Ceiling
<1>5. stage'[s] \notin Asking /\ granted'[s] = ~UsedUp(s) /\ (~UsedUp(s) => stage'[s] = "cleared")
  BY <1>1 DEF GrantTypes, Asking
<1>6. \A q \in Person : /\ Counted(q)' \subseteq Counted(q) \union {s}
                        /\ q # who[s] \/ UsedUp(s) => Counted(q)' \subseteq Counted(q)
  BY <1>1, <1>2, <1>3, <1>5 DEF Counted, GrantAssumption
<1>7. s \notin Counted(who[s]) BY <1>1, <1>2 DEF Counted
<1>8. ~UsedUp(s) => s \in Counted(who[s])' BY <1>1, <1>5 DEF Counted
<1> QED BY <1>1, <1>2, <1>3, <1>4, <1>5, <1>6, <1>7, <1>8

\* Checks under way have noted all that counts, whatever is granted meanwhile.
LEMMA CountedStep ==
  ASSUME GrantAssumption, GrantShape, NotesEarlier, AmountShape, CountedIsNoted, [Next]_vars
  PROVE  CountedIsNoted'
<1> USE DEF GrantShape
<1> SUFFICES ASSUME LimitAmount > 0, NEW t \in Session, stage'[t] \in Asking, NEW p \in Person, p = who'[t]
             PROVE  Counted(p)' \subseteq Noted(t)'
  <2>1. GrantShape' BY ShapeStep
  <2>2. ASSUME NEW u \in Session, stage'[u] \in Asking PROVE who'[u] \in Person BY <2>1, <2>2 DEF Shape
  <2> QED BY <2>2 DEF CountedIsNoted, Counted
<1>0. stage[t] \in Asking /\ p = who[t] => Counted(p) \subseteq Noted(t)
  BY DEF CountedIsNoted
<1>1. ASSUME NEW s \in Session, Passing(s) PROVE Counted(p)' \subseteq Noted(t)'
  <2>1. UNCHANGED who /\ stage[t] \in Asking /\ Noted(t) \subseteq Noted(t)' BY <1>1, PassingIsCalm
  <2>2. Counted(p)' \subseteq Counted(p) BY <1>1, PassingIsCalm
  <2> QED BY <1>0, <2>1, <2>2
<1>2. ASSUME NEW s \in Session, NEW q \in Person, CheckPrincipal(s, q) PROVE Counted(p)' \subseteq Noted(t)'
  <2>1. CASE t = s BY <1>2, <2>1, PrincipalNotes
  <2>2. CASE t # s
    <3>1. stage[t] \in Asking /\ who'[t] = who[t] /\ Noted(t)' = Noted(t) BY <1>2, <2>2, PrincipalNotes
    <3>2. Counted(p)' = Counted(p) BY <1>2, PrincipalNotes
    <3> QED BY <1>0, <3>1, <3>2
  <2> QED BY <2>1, <2>2
<1>3. ASSUME NEW s \in Session, CheckLimits(s) PROVE Counted(p)' \subseteq Noted(t)'
  <2>1. /\ stage[s] = "queried" /\ stage'[s] \notin Asking /\ UNCHANGED who
        /\ Counted(p)' \subseteq Counted(p) \union {s}
        /\ p # who[s] \/ UsedUp(s) => Counted(p)' \subseteq Counted(p)
        /\ \A u \in Session \ {s} : stage'[u] = stage[u] /\ Noted(u)' = Noted(u)
    BY <1>3, LimitsCount
  <2>2. t # s /\ stage[t] \in Asking /\ Noted(t)' = Noted(t) /\ p = who[t] BY <2>1
  <2>3. CASE p # who[s] \/ UsedUp(s) BY <1>0, <2>1, <2>2, <2>3
  <2>4. CASE p = who[s] /\ ~UsedUp(s)
    <3>1. s \in Noted(t) BY <2>1, <2>2, <2>4, GrantedIsNoted
    <3> QED BY <1>0, <2>1, <2>2, <3>1
  <2> QED BY <2>3, <2>4
<1>4. CASE CrashAndRestore BY <1>4 DEF CrashAndRestore, Asking
<1>5. CASE UNCHANGED vars
  BY <1>0, <1>5 DEF vars, config, ledger, checks, rows, Counted, Noted, Answer, PrincipalSessions, SessionsOf
<1> QED BY <1>1, <1>2, <1>3, <1>4, <1>5 DEF Next, Passing

\* Every person stays affordable.
LEMMA AffordableStep ==
  ASSUME GrantAssumption, AmountInv, LimitAmount > 0, [Next]_vars, NEW p \in Person
  PROVE  Affordable(p)'
<1> USE DEF AmountInv, GrantShape
<1>0. AmountTypes /\ Affordable(p) BY DEF AmountShape
<1>1. ASSUME NEW s \in Session, Passing(s) PROVE Affordable(p)'
  <2>1. Counted(p)' \subseteq Counted(p) BY <1>1, PassingIsCalm
  <2>2. \A t \in Session : Worth(t)' \in Nat /\ Worth(t)' <= Worth(t) BY <1>1, WorthFalls
  <2>3. Counted(p) \subseteq Session BY DEF Counted
  <2> QED BY <1>0, <2>1, <2>2, <2>3, CalmStaysAffordable
<1>2. ASSUME NEW s \in Session, NEW q \in Person, CheckPrincipal(s, q) PROVE Affordable(p)'
  <2>1. Counted(p)' = Counted(p) BY <1>2, PrincipalNotes
  <2>2. \A t \in Session : Worth(t)' \in Nat /\ Worth(t)' <= Worth(t) BY <1>2, WorthFalls
  <2>3. Counted(p) \subseteq Session BY DEF Counted
  <2> QED BY <1>0, <2>1, <2>2, <2>3, CalmStaysAffordable
<1>3. ASSUME NEW s \in Session, CheckLimits(s) PROVE Affordable(p)'
  <2>0. \A t \in Session : Worth(t) \in Nat BY CeilingType DEF AmountShape, AmountTypes, Worth
  <2>1. /\ stage[s] = "queried" /\ s \notin Counted(who[s]) /\ UNCHANGED who
        /\ \A t \in Session \ {s} : Worth(t)' = Worth(t)
        /\ Counted(p)' \subseteq Counted(p) \union {s}
        /\ p # who[s] \/ UsedUp(s) => Counted(p)' \subseteq Counted(p)
        /\ ~UsedUp(s) => s \in Counted(who[s])'
    BY <1>3, LimitsCount
  <2>2. Counted(p) \subseteq Session BY DEF Counted
  <2>3. CASE p # who[s] \/ UsedUp(s)
    <3>1. s \notin Counted(p)
      <4>1. ~granted[s] /\ row[s] = "none" /\ stage[s] = "queried" BY <2>1 DEF Shape, Asking
      <4> QED BY <4>1 DEF Counted
    <3>2. \A t \in Counted(p)' : Worth(t)' \in Nat /\ Worth(t)' <= Worth(t)
      BY <2>0, <2>1, <2>2, <2>3, <3>1
    <3> QED BY <1>0, <2>1, <2>3, <3>2, CalmStaysAffordable
  <2>4. CASE p = who[s] /\ ~UsedUp(s)
    <3>1. s \in Counted(p)' /\ Counted(p)' \ {s} \subseteq Counted(p) BY <2>1, <2>4
    <3>2. Counted(p)' \ {s} \in SUBSET Noted(s)
      <4>1. stage[s] \in Asking BY <2>1 DEF Asking
      <4> QED BY <2>4, <3>1, <4>1 DEF CountedIsNoted
    <3>3. Cardinality(WorthUnits(Counted(p)' \ {s})) < LimitAmount
      BY <2>1, <2>4, <3>2, NotesCoverWorth
    <3>4. WorthUnits(Counted(p) \ {s})' = WorthUnits(Counted(p)' \ {s})
      <4>1. \A t \in Counted(p)' \ {s} : Worth(t)' = Worth(t) BY <2>1, <2>2, <3>1
      <4> QED BY <4>1 DEF WorthUnits
    <3> QED BY <3>1, <3>3, <3>4 DEF Affordable
  <2> QED BY <2>3, <2>4
<1>4. CASE CrashAndRestore
  <2>1. /\ UNCHANGED <<module, who, granted, row>>
        /\ stage' = [s \in Session |-> IF s \in {t \in Session : row[t] = "running"} THEN "running"
                                       ELSE IF stage[s] = "new" THEN "new" ELSE "ended"]
    BY <1>4 DEF CrashAndRestore, config, rows
  <2>2. Counted(p)' \subseteq Counted(p) BY <2>1 DEF Counted, Shape
  <2>3. \A t \in Session : Worth(t)' \in Nat /\ Worth(t)' <= Worth(t) BY <1>4, WorthFalls
  <2>4. Counted(p) \subseteq Session BY DEF Counted
  <2> QED BY <1>0, <2>2, <2>3, <2>4, CalmStaysAffordable
<1>5. CASE UNCHANGED vars
  <2>1. Counted(p)' = Counted(p) /\ \A t \in Session : Worth(t)' = Worth(t)
    BY <1>5 DEF vars, config, rows, Counted, Worth, Ceiling
  <2>2. \A t \in Session : Worth(t) \in Nat BY CeilingType DEF AmountShape, AmountTypes, Worth
  <2>3. Counted(p) \subseteq Session BY DEF Counted
  <2> QED BY <1>0, <2>1, <2>2, <2>3, CalmStaysAffordable
<1> QED BY <1>1, <1>2, <1>3, <1>4, <1>5 DEF Next, Passing

\* Initially at most one session of an old version counts, and nothing is noted.
LEMMA InitAmountInv ==
  ASSUME GrantAssumption, Init PROVE AmountInv
<1>1. GrantShape /\ NotesEarlier BY InitCountInv DEF CountInv
<1>2. AmountShape
  <2>1. NoUsage \in [ids : SUBSET Session, amount : [Session -> Nat], provisional : SUBSET Session]
    BY DEF NoUsage
  <2>2. AmountTypes BY <2>1 DEF Init, AmountTypes, GrantAssumption
  <2>3. \A s \in Session : Ceiling(s) = MaxDrop BY DEF Init, Ceiling
  <2>4. \A s \in Session : CeilingShape(s) /\ NotesShape(s)
    BY <2>3 DEF Init, CeilingShape, NotesShape, Served, Asking
  <2> QED BY <2>2, <2>4 DEF AmountShape
<1>3. CountedIsNoted BY DEF Init, CountedIsNoted, Asking
<1>4. ASSUME LimitAmount > 0, NEW p \in Person PROVE Affordable(p)
  <2>1. Old \in SUBSET Session /\ Counted(p) \in SUBSET Old BY DEF Old, Counted, Init
  <2>2. /\ IsFiniteSet(Counted(p)) /\ Cardinality(Counted(p)) <= Cardinality(Old)
        /\ Cardinality(Old) \in Nat /\ Cardinality(Counted(p)) \in Nat
    BY <2>1, SubsetBound
  <2>3. Cardinality(Counted(p)) <= 1 BY <2>2 DEF Init
  <2> SUFFICES ASSUME NEW last \in Counted(p) PROVE Cardinality(WorthUnits(Counted(p) \ {last})) < LimitAmount
    BY DEF Affordable
  <2>4. Counted(p) \ {last} = {}
    <3>1. IsFiniteSet(Counted(p) \ {last}) /\ Cardinality(Counted(p) \ {last}) = Cardinality(Counted(p)) - 1
      BY <2>2, FS_RemoveElement
    <3>2. Cardinality(Counted(p) \ {last}) \in Nat BY <3>1, FS_CardinalityType
    <3>3. Cardinality(Counted(p) \ {last}) = 0 BY <2>2, <2>3, <3>1, <3>2
    <3> QED BY <3>1, <3>3, FS_EmptySet
  <2>5. WorthUnits({}) = {} BY DEF WorthUnits
  <2> QED BY <1>4, <2>4, <2>5, FS_EmptySet
<1> QED BY <1>1, <1>2, <1>3, <1>4 DEF AmountInv

\* AmountInv is inductive.
THEOREM AmountInvariance == ASSUME GrantAssumption PROVE Spec => []AmountInv
<1>1. AmountInv /\ [Next]_vars => AmountInv'
  <2> SUFFICES ASSUME AmountInv, [Next]_vars PROVE AmountInv' OBVIOUS
  <2>1. GrantShape' /\ NotesEarlier' BY ShapeStep, NotesStep DEF AmountInv
  <2>2. AmountShape' BY <2>1, AmountShapeStep DEF AmountInv
  <2>3. CountedIsNoted' BY CountedStep DEF AmountInv
  <2>4. LimitAmount > 0 => \A p \in Person : Affordable(p)' BY AffordableStep
  <2> QED BY <2>1, <2>2, <2>3, <2>4 DEF AmountInv
<1>2. Init => AmountInv BY InitAmountInv
<1> QED BY <1>1, <1>2, PTL DEF Spec

\* limitAmount is exceeded by one session at most, for every number of sessions and persons and
\* every amount: whatever starts, commits, fails or is restored while another waits for the
\* database, all but one of a person's sessions stay below it.
THEOREM AmountCorrect == ASSUME GrantAssumption PROVE Spec => []AmountIsLimited
<1>1. AmountInv => AmountIsLimited
  <2> SUFFICES ASSUME AmountInv, LimitAmount > 0, NEW p \in Person, Counted(p) # {}
               PROVE  \E last \in Counted(p) : MapThenSumSet(Worth, Counted(p) \ {last}) < LimitAmount
    BY DEF AmountIsLimited
  <2>1. PICK last \in Counted(p) : Cardinality(WorthUnits(Counted(p) \ {last})) < LimitAmount
    BY DEF AmountInv, Affordable
  <2>2. Counted(p) \ {last} \in SUBSET Session BY DEF Counted
  <2>3. MapThenSumSet(Worth, Counted(p) \ {last}) = Cardinality(WorthUnits(Counted(p) \ {last}))
    <3> DEFINE C == Counted(p) \ {last}
    <3>1. C \in SUBSET Session BY <2>2
    <3> HIDE DEF C
    <3>2. MapThenSumSet(Worth, C) = Cardinality(WorthUnits(C)) BY <3>1, WorthIsFinite DEF AmountInv, AmountShape
    <3> QED BY <3>2 DEF C
  <2> QED BY <2>1, <2>3
<1> QED BY <1>1, AmountInvariance, PTL

\* Every variable keeps its type, a session that ended holds no place in the ledger, and no row
\* pays more than the ceiling the ledger keeps for it.
THEOREM TypeCorrect == ASSUME GrantAssumption PROVE Spec => []TypeOK
<1>1. AmountInv => TypeOK
  <2> SUFFICES ASSUME AmountInv PROVE TypeOK OBVIOUS
  <2>1. \A s \in Session : drop[s] <= ceiling[s].amount
    BY DEF AmountInv, AmountShape, AmountTypes, CeilingShape
  <2> QED BY <2>1 DEF AmountInv, GrantShape, GrantTypes, Shape, TypeOK, Unnamed, Asking, Holding
<1> QED BY <1>1, AmountInvariance, PTL
=============================================================================
