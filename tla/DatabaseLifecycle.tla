-------------------------- MODULE DatabaseLifecycle --------------------------
(***************************************************************************)
(* The life of the faucet database service: it is opened and upgraded,     *)
(* module databases are initialized on it, expired sessions are cleaned in *)
(* bounded runs, and it is closed while any of these may be under way.     *)
(***************************************************************************)
EXTENDS Integers, Sequences, FiniteSets, FiniteSetsExt, FiniteSetTheorems, TLAPS

CONSTANTS
    Modules,     \* modules with a database of their own
    Sessions,    \* number of stored terminal sessions, in order of their keyset key
    BatchSize,   \* SESSION_CLEANUP_BATCH_SIZE
    RunLimit,    \* SESSION_CLEANUP_RUN_LIMIT
    MaxFaults,   \* bound: failures of database calls
    MaxCloses    \* bound: closings that are begun

DatabaseAssumption ==
    /\ Sessions \in Nat /\ BatchSize \in Nat \ {0} /\ RunLimit \in Nat \ {0}
    /\ MaxFaults \in Nat /\ MaxCloses \in Nat
    /\ Modules \cap {"opening", "cleanup"} = {}

VARIABLES
    initialized, stopping,
    opening,    \* initializationInFlight: "none", "open" or "upgrade"
    db,         \* this.db is set
    worker,     \* this.dbWorker is set
    closing,    \* closeInFlight: "none", "drain", "close" or "terminate"
    awaited,    \* the work dispose() waits for
    moduleDBs,  \* modules whose database is published
    initRuns,   \* number of initSchema runs under way per module
    cleanup,    \* cleanupInFlight: None, or the run's state
    cursor,     \* sessionCleanupCursor, 0 for null
    expired,    \* sessions 1 .. expired are older than the retention
    present,    \* sessions that are stored
    guarded,    \* sessions some cleanup guard still needs
    faults, closes

vars == <<initialized, stopping, opening, db, worker, closing, awaited, moduleDBs, initRuns,
          cleanup, cursor, expired, present, guarded, faults, closes>>
life == <<initialized, stopping, opening, db, worker, closing, awaited, closes>>
store == <<cleanup, cursor, expired, present, guarded>>

None == [at |-> "none"]
Ids == 1 .. Sessions

Init ==
    /\ initialized = FALSE /\ stopping = FALSE /\ opening = "none"
    /\ db = FALSE /\ worker = FALSE /\ closing = "none" /\ awaited = {}
    /\ moduleDBs = {} /\ initRuns = [m \in Modules |-> 0]
    /\ cleanup = None /\ cursor = 0 /\ expired = 0
    /\ present = Ids /\ guarded \in SUBSET Ids
    /\ faults = 0 /\ closes = 0

Fault == faults < MaxFaults /\ faults' = faults + 1

-----------------------------------------------------------------------------
(* Opening.                                                                 *)

MayInitialize == closing = "none" /\ opening = "none" /\ ~db /\ ~worker

\* initialize: a second caller joins the opening that is under way.
Initialize ==
    /\ ~initialized /\ MayInitialize
    /\ stopping' = FALSE
    /\ opening' = "open" /\ db' = TRUE /\ worker' = TRUE
    /\ UNCHANGED <<initialized, closing, awaited, moduleDBs, initRuns, store, faults, closes>>

Opened ==
    /\ opening = "open"
    /\ opening' = "upgrade"
    /\ UNCHANGED <<initialized, stopping, db, worker, closing, awaited, moduleDBs, initRuns,
                   store, faults, closes>>

StillWanted == ~stopping

\* The schema is upgraded; the service is ready unless a close has begun.
Upgraded ==
    /\ opening = "upgrade"
    /\ opening' = "none"
    /\ initialized' = StillWanted
    /\ stopping' = ~StillWanted
    /\ awaited' = awaited \ {"opening"}
    /\ UNCHANGED <<db, worker, closing, moduleDBs, initRuns, store, faults, closes>>

OpeningFails ==
    /\ opening # "none" /\ Fault
    /\ opening' = "none" /\ initialized' = FALSE /\ stopping' = TRUE
    /\ awaited' = awaited \ {"opening"}
    /\ UNCHANGED <<db, worker, closing, moduleDBs, initRuns, store, closes>>

-----------------------------------------------------------------------------
(* Module databases.                                                        *)

\* createModuleDb joins an initialization of the module that is under way.
RunsOwn(m) == initRuns[m] = 0

CreateModuleDb(m) ==
    /\ initialized /\ ~stopping
    /\ m \notin moduleDBs /\ RunsOwn(m) /\ initRuns[m] < 2
    /\ initRuns' = [initRuns EXCEPT ![m] = @ + 1]
    /\ UNCHANGED <<life, moduleDBs, store, faults>>

Release(m) == IF initRuns[m] = 1 THEN awaited \ {m} ELSE awaited

Published(m) == IF initialized /\ ~stopping THEN moduleDBs \cup {m} ELSE moduleDBs

ModuleDbInitialized(m) ==
    /\ initRuns[m] > 0
    /\ initRuns' = [initRuns EXCEPT ![m] = @ - 1]
    /\ moduleDBs' = Published(m)
    /\ awaited' = Release(m)
    /\ UNCHANGED <<initialized, stopping, opening, db, worker, closing, store, faults, closes>>

ModuleDbFails(m) ==
    /\ initRuns[m] > 0 /\ Fault
    /\ initRuns' = [initRuns EXCEPT ![m] = @ - 1]
    /\ awaited' = Release(m)
    /\ UNCHANGED <<initialized, stopping, opening, db, worker, closing, moduleDBs, store, closes>>

DisposeModuleDb(m) ==
    /\ m \in moduleDBs
    /\ moduleDBs' = moduleDBs \ {m}
    /\ UNCHANGED <<life, initRuns, store, faults>>

-----------------------------------------------------------------------------
(* Cleaning.                                                                *)

\* The first terminal sessions after the cursor that had expired when the run began.
Batch(n) ==
    LET found == {s \in present : s > cursor /\ s <= cleanup.cutoff}
        size == IF n < Cardinality(found) THEN n ELSE Cardinality(found)
    IN CHOOSE b \in [1 .. size -> found] :
           /\ \A i, j \in 1 .. size : i < j => b[i] < b[j]
           /\ \A i \in 1 .. size, s \in found : s < b[i] => \E j \in 1 .. size : b[j] = s

batchLimit == Min({BatchSize, RunLimit - cleanup.processed})

\* The timer fires every two hours; a run that is under way is joined.
CleanStore ==
    /\ initialized /\ cleanup = None
    /\ cleanup' = [at |-> "select", cutoff |-> expired, processed |-> 0, batch |-> <<>>, full |-> FALSE]
    /\ UNCHANGED <<life, moduleDBs, initRuns, cursor, expired, present, guarded, faults>>

KeptCursor == cursor

\* An empty batch after a cursor starts over, at most once in a run.
SelectBatch ==
    /\ cleanup.at = "select"
    /\ LET b == Batch(batchLimit) IN
       /\ cursor' = IF b = <<>> THEN 0 ELSE cursor
       /\ cleanup' = IF b # <<>>
                     THEN [cleanup EXCEPT !.at = "delete", !.batch = b, !.full = Len(b) = batchLimit]
                     ELSE IF cursor # 0 /\ cleanup.processed = 0 THEN cleanup
                     ELSE [cleanup EXCEPT !.at = "modules"]
    /\ UNCHANGED <<life, moduleDBs, initRuns, expired, present, guarded, faults>>

\* One candidate: deleted unless a guard needs it; the cursor passes it either way.
CleanupSession ==
    /\ cleanup.at = "delete"
    /\ LET s == Head(cleanup.batch)
           rest == Tail(cleanup.batch)
           done == cleanup.processed + 1
       IN /\ present' = IF s \in guarded THEN present ELSE present \ {s}
          /\ cleanup' = [cleanup EXCEPT !.batch = rest, !.processed = done,
                              !.at = IF rest # <<>> THEN "delete"
                                     ELSE IF cleanup.full /\ done < RunLimit THEN "select"
                                     ELSE "modules"]
          /\ cursor' = IF rest = <<>> /\ ~cleanup.full THEN 0 ELSE s
    /\ UNCHANGED <<life, moduleDBs, initRuns, expired, guarded, faults>>

\* The module databases are cleaned; the run is over.
CleanupEnds ==
    /\ cleanup.at = "modules"
    /\ cleanup' = None
    /\ cursor' = KeptCursor
    /\ awaited' = awaited \ {"cleanup"}
    /\ UNCHANGED <<initialized, stopping, opening, db, worker, closing, moduleDBs, initRuns,
                   expired, present, guarded, faults, closes>>

\* A database call of the run fails: the cursor stays before the session it was at.
CleanupFails ==
    /\ cleanup # None /\ Fault
    /\ cleanup' = None
    /\ awaited' = awaited \ {"cleanup"}
    /\ UNCHANGED <<initialized, stopping, opening, db, worker, closing, moduleDBs, initRuns,
                   cursor, expired, present, guarded, closes>>

\* Time passes, and what a guard protected is settled.
Expire ==
    /\ expired < Sessions
    /\ expired' = expired + 1
    /\ UNCHANGED <<life, moduleDBs, initRuns, cleanup, cursor, present, guarded, faults>>

Settle(s) ==
    /\ s \in guarded /\ s \in present
    /\ guarded' = guarded \ {s}
    /\ UNCHANGED <<life, moduleDBs, initRuns, cleanup, cursor, expired, present, faults>>

-----------------------------------------------------------------------------
(* Closing.                                                                 *)

\* Mutant: a running cleanup is not waited for.
PendingWithoutCleanup ==
    (IF opening # "none" THEN {"opening"} ELSE {}) \cup {m \in Modules : initRuns[m] > 0}
Pending ==
    (IF opening # "none" THEN {"opening"} ELSE {})
        \cup (IF cleanup # None THEN {"cleanup"} ELSE {})
        \cup {m \in Modules : initRuns[m] > 0}

\* closeDatabase: a second caller joins; dispose() stops new work, then waits.
CloseDatabase ==
    /\ closing = "none" /\ closes < MaxCloses
    /\ closes' = closes + 1
    /\ closing' = "drain"
    /\ stopping' = TRUE /\ initialized' = FALSE
    /\ awaited' = Pending
    /\ UNCHANGED <<opening, db, worker, moduleDBs, initRuns, store, faults>>

Drained ==
    /\ closing = "drain" /\ awaited = {}
    /\ closing' = IF db THEN "close" ELSE IF worker THEN "terminate" ELSE "none"
    /\ UNCHANGED <<initialized, stopping, opening, db, worker, awaited, moduleDBs, initRuns, store,
                   faults, closes>>

Closed ==
    /\ closing = "close"
    /\ db' = FALSE /\ moduleDBs' = {} /\ cursor' = 0
    /\ closing' = "terminate"
    /\ UNCHANGED <<initialized, stopping, opening, worker, awaited, initRuns,
                   cleanup, expired, present, guarded, faults, closes>>

Terminated ==
    /\ closing = "terminate"
    /\ worker' = FALSE
    /\ closing' = "none"
    /\ UNCHANGED <<initialized, stopping, opening, db, awaited, moduleDBs, initRuns, store,
                   faults, closes>>

\* The driver does not close or the worker does not end: what is left can be
\* closed again, and stands in the way of an initialization.
CloseFails ==
    /\ closing \in {"close", "terminate"} /\ Fault
    /\ closing' = "none"
    /\ UNCHANGED <<initialized, stopping, opening, db, worker, awaited, moduleDBs, initRuns, store,
                   closes>>

Idle == closing = "none" /\ UNCHANGED vars

Next ==
    \/ Initialize \/ Opened \/ Upgraded \/ OpeningFails
    \/ \E m \in Modules : CreateModuleDb(m) \/ ModuleDbInitialized(m) \/ ModuleDbFails(m)
                              \/ DisposeModuleDb(m)
    \/ CleanStore \/ SelectBatch \/ CleanupSession \/ CleanupEnds \/ CleanupFails
    \/ Expire \/ \E s \in Ids : Settle(s)
    \/ CloseDatabase \/ Drained \/ Closed \/ Terminated \/ CloseFails \/ Idle

Spec == Init /\ [][Next]_vars

\* The steps that are weakly fair. Database calls return, and the cleanup timer fires
\* again and again.
Weak == ({"open", "initialize", "timer", "cleanup", "close"} \X {0}) \cup ({"module"} \X Modules)
WeakStep(k) ==
  CASE k[1] = "open" -> Opened \/ Upgraded
    [] k[1] = "initialize" -> Initialize
    [] k[1] = "module" -> ModuleDbInitialized(k[2])
    [] k[1] = "timer" -> CleanStore
    [] k[1] = "cleanup" -> SelectBatch \/ CleanupSession \/ CleanupEnds
    [] k[1] = "close" -> Drained \/ Closed \/ Terminated

-----------------------------------------------------------------------------

TypeOK ==
    /\ {initialized, stopping, db, worker} \subseteq BOOLEAN
    /\ opening \in {"none", "open", "upgrade"}
    /\ closing \in {"none", "drain", "close", "terminate"}
    /\ awaited \subseteq Modules \cup {"opening", "cleanup"}
    /\ moduleDBs \subseteq Modules /\ initRuns \in [Modules -> 0 .. 2]
    /\ cleanup.at \in {"none", "select", "delete", "modules"}
    /\ cursor \in 0 .. Sessions /\ expired \in 0 .. Sessions
    /\ present \subseteq Ids /\ guarded \subseteq Ids
    /\ faults \in 0 .. MaxFaults /\ closes \in 0 .. MaxCloses

\* Nothing works on a database that is being closed or is gone: when the driver's
\* close is called no opening, upgrade, module initialization or cleanup is under way.
NoWorkOnClosedDb ==
    closing \in {"close", "terminate"} \/ ~db =>
        opening = "none" /\ cleanup = None /\ \A m \in Modules : initRuns[m] = 0

\* A service that calls itself ready has an open database, and its modules' databases
\* are not published once a close has begun and the driver is gone.
ReadyIsOpen ==
    /\ initialized => db /\ worker /\ ~stopping /\ closing = "none" /\ opening = "none"
    /\ moduleDBs # {} => db

\* The upgrade of a module's schema never runs twice at the same time, although
\* several callers ask for its database.
OneInitPerModule == \A m \in Modules : initRuns[m] <= 1

\* A module whose initialization outlives the start of a close is not published.
NoLatePublishStep == moduleDBs' \subseteq moduleDBs \/ closing = "none"

\* A cleanup run looks at no more sessions than its limit, and deletes only expired
\* sessions that no guard needs.
CleanupIsBounded ==
    /\ cleanup # None => cleanup.processed + Len(cleanup.batch) <= RunLimit
    /\ guarded \subseteq present
    /\ \A s \in Ids \ present : s <= expired

\* What comes in the end: a close ends, whatever was under way when it began, and every
\* expired session no guard needs is deleted while the service runs, although
\* a run is limited and sessions before it stay guarded for ever.
AtRest ==
    /\ closing = "none"
    /\ \A s \in Ids : s <= expired /\ s \notin guarded => s \notin present \/ ~initialized

-----------------------------------------------------------------------------
(* What is proved for every number of modules, sessions, faults and        *)
(* closings.  NoWorkOnClosedDb is not inductive: it says nothing of a      *)
(* close that still waits.  What is: work that is under way has an open    *)
(* database, and a close that has begun waits for it.                      *)

\* Work w is under way on an open database, and a close waits for it.
Held(w) == db /\ worker /\ (closing = "none" \/ (closing = "drain" /\ w \in awaited))

\* The inductive invariant.
WorkIsHeld ==
    /\ initRuns \in [Modules -> Nat] /\ (closing # "none" => stopping)
    /\ opening # "none" => Held("opening")
    /\ cleanup # None => Held("cleanup")
    /\ \A m \in Modules : initRuns[m] # 0 => Held(m)
    /\ ReadyIsOpen /\ OneInitPerModule

\* A step of the opening, of the initialization of a module database, or of a cleanup.
LEMMA WorkSteps ==
    ASSUME DatabaseAssumption, WorkIsHeld,
           \/ Initialize \/ Opened \/ Upgraded \/ OpeningFails
           \/ \E m \in Modules : CreateModuleDb(m) \/ ModuleDbInitialized(m) \/ ModuleDbFails(m)
                                     \/ DisposeModuleDb(m)
           \/ CleanStore \/ SelectBatch \/ CleanupSession \/ CleanupEnds \/ CleanupFails
    PROVE  WorkIsHeld'
<1>1. CASE Initialize \/ Opened \/ Upgraded \/ OpeningFails
  <2>1. CASE Initialize
    BY <2>1 DEF Initialize, MayInitialize, store, WorkIsHeld, Held, ReadyIsOpen, OneInitPerModule
  <2>2. CASE Opened BY <2>2 DEF Opened, store, WorkIsHeld, Held, ReadyIsOpen, OneInitPerModule
  <2>3. CASE Upgraded
    <3>1. /\ opening # "none" /\ opening' = "none" /\ awaited' = awaited \ {"opening"}
          /\ UNCHANGED <<db, worker, closing, moduleDBs, initRuns, cleanup>>
      BY <2>3 DEF Upgraded, store
    <3>2. (initialized' => ~stopping /\ ~stopping') /\ (stopping => stopping') BY <2>3 DEF Upgraded, StillWanted
    <3> QED BY <3>1, <3>2 DEF DatabaseAssumption, WorkIsHeld, Held, ReadyIsOpen, OneInitPerModule
  <2>4. CASE OpeningFails
    BY <2>4 DEF DatabaseAssumption, OpeningFails, store, WorkIsHeld, Held, ReadyIsOpen, OneInitPerModule
  <2> QED BY <1>1, <2>1, <2>2, <2>3, <2>4
<1>2. ASSUME NEW m \in Modules, CreateModuleDb(m) \/ DisposeModuleDb(m) PROVE WorkIsHeld'
  BY <1>2 DEF CreateModuleDb, DisposeModuleDb, RunsOwn, life, store, WorkIsHeld, Held, ReadyIsOpen, OneInitPerModule
<1>3. ASSUME NEW m \in Modules, ModuleDbInitialized(m) \/ ModuleDbFails(m) PROVE WorkIsHeld'
  <2>1. m # "opening" /\ m # "cleanup" /\ initRuns[m] = 1
    BY <1>3 DEF DatabaseAssumption, ModuleDbInitialized, ModuleDbFails, WorkIsHeld, OneInitPerModule
  <2>2. /\ initRuns' = [initRuns EXCEPT ![m] = 0] /\ awaited' = awaited \ {m}
        /\ UNCHANGED <<initialized, stopping, opening, db, worker, closing, cleanup>>
    BY <1>3, <2>1 DEF ModuleDbInitialized, ModuleDbFails, Release, store, WorkIsHeld
  <2>3. moduleDBs' = moduleDBs \/ initialized BY <1>3 DEF ModuleDbInitialized, ModuleDbFails, Published
  <2> QED BY <2>1, <2>2, <2>3 DEF WorkIsHeld, Held, ReadyIsOpen, OneInitPerModule
<1>4. CASE CleanStore \/ SelectBatch \/ CleanupSession \/ CleanupEnds \/ CleanupFails
  <2>1. CASE cleanup # None
    <3>1. /\ UNCHANGED <<initialized, stopping, opening, db, worker, closing, moduleDBs, initRuns>>
          /\ awaited' = awaited \/ (awaited' = awaited \ {"cleanup"} /\ cleanup' = None)
      BY <1>4, <2>1 DEF CleanStore, SelectBatch, CleanupSession, CleanupEnds, CleanupFails, life
    <3> QED BY <2>1, <3>1 DEF DatabaseAssumption, WorkIsHeld, Held, ReadyIsOpen, OneInitPerModule
  <2>2. CASE cleanup = None
    <3>1. initialized /\ UNCHANGED <<life, moduleDBs, initRuns>>
      BY <1>4, <2>2 DEF CleanStore, SelectBatch, CleanupSession, CleanupEnds, CleanupFails, None
    <3> QED BY <3>1 DEF life, WorkIsHeld, Held, ReadyIsOpen, OneInitPerModule
  <2> QED BY <2>1, <2>2
<1> QED BY <1>1, <1>2, <1>3, <1>4

\* A step of the close, or of time.
LEMMA ClosingSteps ==
    ASSUME DatabaseAssumption, WorkIsHeld,
           \/ CloseDatabase \/ Drained \/ Closed \/ Terminated \/ CloseFails
           \/ Expire \/ (\E s \in Ids : Settle(s)) \/ UNCHANGED vars
    PROVE  WorkIsHeld'
<1>1. CASE CloseDatabase
  BY <1>1 DEF CloseDatabase, Pending, store, WorkIsHeld, Held, ReadyIsOpen, OneInitPerModule
<1>2. CASE Drained \/ Closed \/ Terminated \/ CloseFails
  BY <1>2 DEF Drained, Closed, Terminated, CloseFails, store, WorkIsHeld, Held, ReadyIsOpen, OneInitPerModule
<1>3. CASE Expire \/ (\E s \in Ids : Settle(s)) \/ UNCHANGED vars
  BY <1>3 DEF Expire, Settle, life, vars, WorkIsHeld, Held, ReadyIsOpen, OneInitPerModule
<1> QED BY <1>1, <1>2, <1>3

\* Work that is under way has an open database, and a close that has begun waits for it.
THEOREM DatabaseInvariance == ASSUME DatabaseAssumption PROVE Spec => []WorkIsHeld
<1>1. Init => WorkIsHeld BY DEF Init, WorkIsHeld, ReadyIsOpen, OneInitPerModule
<1>2. WorkIsHeld /\ [Next]_vars => WorkIsHeld' BY WorkSteps, ClosingSteps DEF Next, Idle
<1> QED BY <1>1, <1>2, PTL DEF Spec

\* The driver's close is called only when no opening, upgrade, module initialization or cleanup is
\* under way, a ready service is open, and a module's schema is not upgraded twice at a time.
THEOREM DatabaseIsQuietWhenClosed ==
    ASSUME DatabaseAssumption PROVE Spec => [](NoWorkOnClosedDb /\ ReadyIsOpen /\ OneInitPerModule)
<1>1. WorkIsHeld => NoWorkOnClosedDb /\ ReadyIsOpen /\ OneInitPerModule
  BY DEF WorkIsHeld, Held, NoWorkOnClosedDb
<1> QED BY <1>1, DatabaseInvariance, PTL

\* A module whose initialization outlives the begin of a close is not published.
THEOREM NoLatePublish == ASSUME DatabaseAssumption PROVE Spec => [][NoLatePublishStep]_vars
<1>1. ASSUME WorkIsHeld, Next PROVE NoLatePublishStep
  <2>1. CASE \E m \in Modules : ModuleDbInitialized(m)
    BY <1>1, <2>1 DEF ModuleDbInitialized, Published, WorkIsHeld, ReadyIsOpen, NoLatePublishStep
  <2>2. CASE ~\E m \in Modules : ModuleDbInitialized(m)
    BY <1>1, <2>2 DEF Next, Initialize, Opened, Upgraded, OpeningFails, CreateModuleDb, ModuleDbFails, DisposeModuleDb,
       CleanStore, SelectBatch, CleanupSession, CleanupEnds, CleanupFails, Expire, Settle, CloseDatabase, Drained,
       Closed, Terminated, CloseFails, Idle, vars, NoLatePublishStep
  <2> QED BY <2>1, <2>2
<1> QED BY <1>1, DatabaseInvariance, PTL DEF Spec

-----------------------------------------------------------------------------
(* The cleanup.  A run is bounded because every batch fits what is left of *)
(* its limit; that a batch exists at all is a property of finite sets.     *)

\* A cleanup run: processed sessions and the batch together stay within the limit, a batch is
\* under way exactly while its sessions are visited, and holds only sessions that have expired.
Runs == [at : {"select", "delete", "modules"}, cutoff : Nat, processed : Nat, batch : Seq(Ids), full : BOOLEAN]
RunIsSound(r) ==
    /\ r \in Runs /\ r.cutoff <= expired
    /\ r.processed + Len(r.batch) <= RunLimit
    /\ r.at = "select" => r.processed < RunLimit
    /\ (r.at = "delete") = (r.batch # <<>>)
    /\ \A i \in 1 .. Len(r.batch) : r.batch[i] <= r.cutoff

\* The inductive invariant of the cleanup, and of the types.
CleanInv ==
    /\ WorkIsHeld
    /\ cleanup = None \/ RunIsSound(cleanup)
    /\ cursor \in 0 .. Sessions /\ expired \in 0 .. Sessions
    /\ present \subseteq Ids /\ guarded \subseteq present
    /\ \A s \in Ids \ present : s <= expired
    /\ {initialized, stopping, db, worker} \subseteq BOOLEAN
    /\ opening \in {"none", "open", "upgrade"}
    /\ closing \in {"none", "drain", "close", "terminate"}
    /\ awaited \subseteq Modules \cup {"opening", "cleanup"} /\ moduleDBs \subseteq Modules
    /\ faults \in 0 .. MaxFaults /\ closes \in 0 .. MaxCloses

\* A nonempty set of natural numbers has a smallest element.
LEMMA LeastNumber ==
    ASSUME NEW S \in SUBSET Nat, S # {}
    PROVE  Min(S) \in S /\ \A m \in S : Min(S) <= m
<1> DEFINE R == OpToRel(<, Nat)
<1>1. IsWellFoundedOn(R, Nat) BY NatLessThanWellFounded
<1>2. \A m, n \in Nat : m < n => <<m, n>> \in R BY DEF OpToRel
<1> HIDE DEF R
<1>3. PICK n \in S : \A m \in S : <<m, n>> \notin R BY <1>1, WFMin
<1>4. ASSUME NEW m \in S PROVE n <= m
  <2>1. ~(m < n) BY <1>2, <1>3
  <2> QED BY <2>1
<1>5. \E x \in S : \A y \in S : x <= y BY <1>4
<1> QED BY <1>5 DEF Min

\* b lists the k first members of S in order.
Lists(b, k, S) ==
    /\ \A i, j \in 1 .. k : i < j => b[i] < b[j]
    /\ \A i \in 1 .. k, s \in S : s < b[i] => \E j \in 1 .. k : b[j] = s

\* A list that does not have all of S is continued by the smallest member it misses.
LEMMA ListIsContinued ==
    ASSUME NEW S \in SUBSET Nat, NEW k \in Nat, k < Cardinality(S), IsFiniteSet(S),
           NEW b \in [1 .. k -> S], Lists(b, k, S)
    PROVE  \E c \in [1 .. k + 1 -> S] : Lists(c, k + 1, S)
<1> DEFINE T == {b[i] : i \in 1 .. k}
           m == Min(S \ T)
           c == [i \in 1 .. k + 1 |-> IF i = k + 1 THEN m ELSE b[i]]
<1>1. S \ T # {}
  <2>1. T \in SUBSET S OBVIOUS
  <2>2. b \in Surjection(1 .. k, T) BY DEF Surjection
  <2>3. ExistsSurjection(1 .. k, T) BY <2>2 DEF ExistsSurjection
  <2>4. Cardinality(T) <= k BY <2>3, FS_SurjCardinalityBound
  <2>5. Cardinality(S) \in Nat BY FS_CardinalityType
  <2>6. T # S
    <3> HIDE DEF T
    <3> QED BY <2>4, <2>5
  <2> QED BY <2>1, <2>6
<1>2. m \in S \ T /\ \A s \in S \ T : m <= s
  <2>1. S \ T \in SUBSET Nat OBVIOUS
  <2> HIDE DEF T
  <2> QED BY <1>1, <2>1, LeastNumber
<1> HIDE DEF m
<1>3. c \in [1 .. k + 1 -> S] BY <1>2
<1>4. c[k + 1] = m /\ \A i \in 1 .. k : c[i] = b[i] OBVIOUS
<1> HIDE DEF c
<1>5. \A i \in 1 .. k + 1 : i \in 1 .. k \/ i = k + 1 OBVIOUS
<1>6. \A i \in 1 .. k : b[i] \in Nat /\ b[i] \in T /\ i \in 1 .. k + 1
  <2>1. \A i \in 1 .. k : i \in 1 .. k + 1 OBVIOUS
  <2>2. \A i \in 1 .. k : b[i] \in Nat OBVIOUS
  <2>3. \A i \in 1 .. k : b[i] \in T OBVIOUS
  <2> QED BY <2>1, <2>2, <2>3
<1>7. \A i \in 1 .. k : b[i] < m
  <2> SUFFICES ASSUME NEW i \in 1 .. k, ~(b[i] < m) PROVE FALSE OBVIOUS
  <2>1. m # b[i] /\ m \in Nat /\ m \in S BY <1>2, <1>6
  <2>2. m < b[i] BY <2>1, <1>6
  <2>3. \E j \in 1 .. k : b[j] = m BY <2>1, <2>2 DEF Lists
  <2> QED BY <2>3, <1>2
<1>8. \A i, j \in 1 .. k + 1 : i < j => c[i] < c[j]
  <2> SUFFICES ASSUME NEW i \in 1 .. k + 1, NEW j \in 1 .. k + 1, i < j PROVE c[i] < c[j] OBVIOUS
  <2>1. i \in 1 .. k OBVIOUS
  <2>2. CASE j = k + 1 BY <2>1, <2>2, <1>4, <1>7
  <2>3. CASE j \in 1 .. k BY <2>1, <2>3, <1>4 DEF Lists
  <2> QED BY <2>2, <2>3, <1>5
<1>9. ASSUME NEW i \in 1 .. k + 1, NEW s \in S, s < c[i] PROVE \E j \in 1 .. k + 1 : c[j] = s
  <2>1. CASE i \in 1 .. k
    <3>1. s < b[i] BY <2>1, <1>4, <1>9
    <3>2. PICK j \in 1 .. k : b[j] = s BY <2>1, <3>1 DEF Lists
    <3> QED BY <3>2, <1>4, <1>6
  <2>2. CASE i = k + 1
    <3>1. s < m /\ s \in Nat /\ m \in Nat BY <2>2, <1>2, <1>4, <1>9
    <3>2. s \in T BY <3>1, <1>2
    <3>3. PICK j \in 1 .. k : b[j] = s BY <3>2
    <3> QED BY <3>3, <1>4, <1>6
  <2> QED BY <2>1, <2>2, <1>5
<1>10. Lists(c, k + 1, S) BY <1>8, <1>9 DEF Lists
<1> QED BY <1>3, <1>10

\* The k first members of a finite set of numbers can be listed in order.
LEMMA FirstAreListed ==
    ASSUME NEW S \in SUBSET Nat, IsFiniteSet(S), NEW k \in Nat, k <= Cardinality(S)
    PROVE  \E b \in [1 .. k -> S] : Lists(b, k, S)
<1> DEFINE L(n) == \E b \in [1 .. n -> S] : Lists(b, n, S)
           Missing == {n \in 0 .. k : ~L(n)}
<1> SUFFICES ASSUME ~L(k) PROVE FALSE OBVIOUS
<1>1. Missing \in SUBSET Nat /\ k \in Missing OBVIOUS
<1> DEFINE n == Min(Missing)
<1>2. n \in Missing /\ \A x \in Missing : n <= x
  <2> HIDE DEF Missing
  <2> QED BY <1>1, LeastNumber
<1> HIDE DEF n
<1>3. n \in 0 .. k /\ ~L(n) BY <1>2
<1>4. L(0)
  <2>1. 1 .. 0 = {} OBVIOUS
  <2>2. [i \in 1 .. 0 |-> i] \in [1 .. 0 -> S] BY <2>1
  <2>3. Lists([i \in 1 .. 0 |-> i], 0, S) BY <2>1 DEF Lists
  <2> QED BY <2>2, <2>3
<1>5. n # 0 BY <1>3, <1>4
<1>6. n - 1 \in 0 .. k /\ n - 1 < n /\ n - 1 \in Nat /\ n - 1 + 1 = n BY <1>3, <1>5
<1>7. n - 1 < Cardinality(S) BY <1>6, <1>3, FS_CardinalityType
<1>8. L(n - 1) BY <1>2, <1>6
<1>9. PICK b \in [1 .. n - 1 -> S] : Lists(b, n - 1, S) BY <1>8
<1>10. L(n - 1 + 1) BY <1>6, <1>7, <1>9, ListIsContinued
<1> QED BY <1>3, <1>6, <1>10

\* A batch has at most n sessions, all of them expired when the run began.
LEMMA BatchIsBounded ==
    ASSUME NEW n \in Nat, Sessions \in Nat, present \subseteq Ids
    PROVE  /\ Batch(n) \in Seq(Ids) /\ Len(Batch(n)) <= n
           /\ \A i \in 1 .. Len(Batch(n)) : Batch(n)[i] <= cleanup.cutoff
<1> DEFINE found == {s \in present : s > cursor /\ s <= cleanup.cutoff}
           size == IF n < Cardinality(found) THEN n ELSE Cardinality(found)
<1>1. found \in SUBSET Nat /\ found \in SUBSET Ids
  <2>1. found \subseteq Ids OBVIOUS
  <2>2. \A s \in Ids : s \in Nat BY DEF Ids
  <2> HIDE DEF found
  <2> QED BY <2>1, <2>2
<1>2. IsFiniteSet(found)
  <2>1. IsFiniteSet(1 .. Sessions)
    <3>1. Sessions \in Int /\ 1 \in Int OBVIOUS
    <3> QED BY <3>1, FS_Interval
  <2> QED BY <2>1, <1>1, FS_Subset DEF Ids
<1>3. Cardinality(found) \in Nat BY <1>2, FS_CardinalityType
<1>4. size \in Nat /\ size <= n /\ size <= Cardinality(found)
  <2> HIDE DEF found
  <2> QED BY <1>3
<1> DEFINE b == CHOOSE b \in [1 .. size -> found] : Lists(b, size, found)
<1>5. \E x \in [1 .. size -> found] : Lists(x, size, found)
  <2> HIDE DEF found, size
  <2> QED BY <1>1, <1>2, <1>4, FirstAreListed
<1>6. Batch(n) = b BY DEF Batch, Lists
<1>7. b \in [1 .. size -> found]
  <2> HIDE DEF found, size
  <2> QED BY <1>5
<1>8. \A s \in found : s \in Ids /\ s <= cleanup.cutoff BY <1>1
<1> HIDE DEF found, size, b
<1>9. b \in [1 .. size -> Ids] BY <1>7, <1>8
<1>10. b \in Seq(Ids) /\ Len(b) = size BY <1>4, <1>9
<1> QED BY <1>4, <1>6, <1>7, <1>8, <1>10

\* A batch fits what is left of the run.
LEMMA BatchLimit ==
    ASSUME DatabaseAssumption, cleanup.processed \in Nat, cleanup.processed < RunLimit
    PROVE  batchLimit \in Nat \ {0} /\ cleanup.processed + batchLimit <= RunLimit
<1> DEFINE S == {BatchSize, RunLimit - cleanup.processed}
<1>1. S \in SUBSET (Nat \ {0}) /\ S # {} BY DEF DatabaseAssumption
<1>2. batchLimit \in S /\ \A m \in S : batchLimit <= m
  <2>1. batchLimit = Min(S) BY DEF batchLimit
  <2> HIDE DEF S
  <2> QED BY <1>1, <2>1, LeastNumber
<1>3. batchLimit <= RunLimit - cleanup.processed BY <1>2
<1> QED BY <1>1, <1>2, <1>3 DEF DatabaseAssumption

\* The steps of a cleanup run.
LEMMA CleanupSteps ==
    ASSUME DatabaseAssumption, CleanInv, WorkIsHeld',
           CleanStore \/ SelectBatch \/ CleanupSession \/ CleanupEnds \/ CleanupFails
    PROVE  CleanInv'
<1>1. CASE CleanStore
  <2> DEFINE r == [at |-> "select", cutoff |-> expired, processed |-> 0, batch |-> <<>>, full |-> FALSE]
  <2>1. r \in Runs BY DEF CleanInv, Runs
  <2>2. RunIsSound(r)
    <3>1. r.at = "select" /\ r.cutoff = expired /\ r.processed = 0 /\ r.batch = <<>> OBVIOUS
    <3> HIDE DEF r
    <3> QED BY <2>1, <3>1 DEF RunIsSound, CleanInv, DatabaseAssumption
  <2>3. cleanup' = r /\ UNCHANGED <<life, moduleDBs, cursor, expired, present, guarded, faults>>
    BY <1>1 DEF CleanStore
  <2> HIDE DEF r
  <2> QED BY <2>2, <2>3 DEF CleanInv, RunIsSound, life
<1>2. CASE SelectBatch
  <2>1. cleanup.at = "select" /\ UNCHANGED <<life, moduleDBs, expired, present, guarded, faults>>
    BY <1>2 DEF SelectBatch
  <2>2. RunIsSound(cleanup) BY <2>1 DEF CleanInv, None
  <2>3. /\ batchLimit \in Nat /\ cleanup.processed + batchLimit <= RunLimit
        /\ cleanup \in Runs /\ cleanup.processed \in Nat
    BY <2>1, <2>2, BatchLimit DEF RunIsSound, Runs
  <2> DEFINE b == Batch(batchLimit)
  <2>4. b \in Seq(Ids) /\ Len(b) <= batchLimit /\ \A i \in 1 .. Len(b) : b[i] <= cleanup.cutoff
    BY <2>3, BatchIsBounded DEF CleanInv, DatabaseAssumption
  <2>5. /\ cursor' = IF b = <<>> THEN 0 ELSE cursor
        /\ cleanup' = IF b # <<>> THEN [cleanup EXCEPT !.at = "delete", !.batch = b, !.full = Len(b) = batchLimit]
                      ELSE IF cursor # 0 /\ cleanup.processed = 0 THEN cleanup ELSE [cleanup EXCEPT !.at = "modules"]
    BY <1>2 DEF SelectBatch
  <2> HIDE DEF b
  <2>6. cursor' \in 0 .. Sessions BY <2>5 DEF CleanInv, DatabaseAssumption
  <2>7. RunIsSound(cleanup')
    <3>1. CASE b # <<>>
      <4>1. /\ cleanup' \in Runs /\ cleanup'.at = "delete" /\ cleanup'.batch = b
            /\ cleanup'.processed = cleanup.processed /\ cleanup'.cutoff = cleanup.cutoff
        BY <2>3, <2>4, <2>5, <3>1 DEF Runs
      <4>2. cleanup.processed + Len(b) <= RunLimit BY <2>3, <2>4 DEF DatabaseAssumption
      <4> QED BY <2>2, <2>4, <3>1, <4>1, <4>2 DEF RunIsSound
    <3>2. CASE b = <<>>
      <4>1. cleanup' = cleanup \/ cleanup' = [cleanup EXCEPT !.at = "modules"] BY <2>5, <3>2
      <4>2. CASE cleanup' = cleanup BY <2>2, <4>2
      <4>3. CASE cleanup' = [cleanup EXCEPT !.at = "modules"]
        <5>1. /\ cleanup' \in Runs /\ cleanup'.at = "modules" /\ cleanup'.batch = cleanup.batch
              /\ cleanup'.processed = cleanup.processed /\ cleanup'.cutoff = cleanup.cutoff
          BY <2>3, <4>3 DEF Runs
        <5> QED BY <2>1, <2>2, <5>1 DEF RunIsSound
      <4> QED BY <4>1, <4>2, <4>3
    <3> QED BY <3>1, <3>2
  <2> QED BY <2>1, <2>6, <2>7 DEF CleanInv, RunIsSound, life
<1>3. CASE CleanupSession
  <2> DEFINE s == Head(cleanup.batch)
             rest == Tail(cleanup.batch)
             done == cleanup.processed + 1
  <2>1. cleanup.at = "delete" /\ UNCHANGED <<life, moduleDBs, expired, guarded, faults>>
    BY <1>3 DEF CleanupSession
  <2>2. RunIsSound(cleanup) BY <2>1 DEF CleanInv, None
  <2>3. cleanup \in Runs /\ cleanup.batch \in Seq(Ids) /\ cleanup.batch # <<>> /\ cleanup.processed \in Nat
    BY <2>1, <2>2 DEF RunIsSound, Runs
  <2>4. s \in Ids /\ s = cleanup.batch[1] /\ Len(cleanup.batch) \in Nat \ {0} BY <2>3
  <2>5. /\ rest \in Seq(Ids) /\ Len(rest) = Len(cleanup.batch) - 1
        /\ \A i \in 1 .. Len(rest) : rest[i] = cleanup.batch[i + 1]
    BY <2>3
  <2>6. s <= expired
    <3>1. s <= cleanup.cutoff BY <2>2, <2>4 DEF RunIsSound
    <3>2. cleanup.cutoff \in Nat /\ cleanup.cutoff <= expired BY <2>2 DEF RunIsSound, Runs
    <3> QED BY <2>4, <3>1, <3>2 DEF CleanInv, Ids
  <2>7. /\ present' = IF s \in guarded THEN present ELSE present \ {s}
        /\ cursor' = IF rest = <<>> /\ ~cleanup.full THEN 0 ELSE s
        /\ cleanup' = [cleanup EXCEPT !.batch = rest, !.processed = done,
                            !.at = IF rest # <<>> THEN "delete"
                                   ELSE IF cleanup.full /\ done < RunLimit THEN "select" ELSE "modules"]
    BY <1>3 DEF CleanupSession
  <2>8. RunIsSound(cleanup')
    <3>1. /\ cleanup'.batch = rest /\ cleanup'.processed = done /\ cleanup'.cutoff = cleanup.cutoff
          /\ cleanup' \in Runs
          /\ cleanup'.at = IF rest # <<>> THEN "delete"
                           ELSE IF cleanup.full /\ done < RunLimit THEN "select" ELSE "modules"
      <4> DEFINE place == IF rest # <<>> THEN "delete" ELSE IF cleanup.full /\ done < RunLimit THEN "select" ELSE "modules"
      <4>1. place \in {"select", "delete", "modules"} /\ done \in Nat BY <2>3
      <4>2. cleanup' = [cleanup EXCEPT !.batch = rest, !.processed = done, !.at = place] BY <2>7
      <4> HIDE DEF place, rest, done
      <4>3. cleanup'.at = place BY <2>3, <4>2 DEF Runs
      <4>4. /\ cleanup'.batch = rest /\ cleanup'.processed = done /\ cleanup'.cutoff = cleanup.cutoff
            /\ cleanup' \in Runs
        BY <2>3, <2>5, <4>1, <4>2 DEF Runs
      <4> QED BY <4>3, <4>4 DEF place
    <3>2. done + Len(rest) <= RunLimit
      BY <2>2, <2>3, <2>4, <2>5 DEF RunIsSound, DatabaseAssumption
    <3>3. \A i \in 1 .. Len(rest) : rest[i] <= cleanup.cutoff
      <4>1. \A i \in 1 .. Len(rest) : i + 1 \in 1 .. Len(cleanup.batch) BY <2>4, <2>5
      <4> QED BY <2>2, <2>5, <4>1 DEF RunIsSound
    <3>4. cleanup.cutoff <= expired BY <2>2 DEF RunIsSound
    <3> HIDE DEF rest, done
    <3> QED BY <2>1, <3>1, <3>2, <3>3, <3>4 DEF RunIsSound
  <2> HIDE DEF s, rest, done
  <2>9. cursor' \in 0 .. Sessions BY <2>4, <2>7 DEF Ids, DatabaseAssumption
  <2>10. present' \subseteq Ids /\ guarded \subseteq present' /\ \A x \in Ids \ present' : x <= expired
    BY <2>6, <2>7 DEF CleanInv
  <2> QED BY <2>1, <2>8, <2>9, <2>10 DEF CleanInv, RunIsSound, life
<1>4. CASE CleanupEnds BY <1>4 DEF CleanupEnds, KeptCursor, CleanInv
<1>5. CASE CleanupFails BY <1>5 DEF CleanupFails, Fault, CleanInv, DatabaseAssumption
<1> QED BY <1>1, <1>2, <1>3, <1>4, <1>5

\* The steps of the opening and of the module databases.
LEMMA OpeningSteps ==
    ASSUME DatabaseAssumption, CleanInv, WorkIsHeld',
           \/ Initialize \/ Opened \/ Upgraded \/ OpeningFails
           \/ \E m \in Modules : CreateModuleDb(m) \/ ModuleDbInitialized(m) \/ ModuleDbFails(m)
                                     \/ DisposeModuleDb(m)
    PROVE  CleanInv'
<1>1. CASE Initialize \/ Opened \/ Upgraded \/ OpeningFails
  <2>1. UNCHANGED <<store, closing, moduleDBs, closes>> /\ (faults' = faults \/ Fault)
    BY <1>1 DEF Initialize, Opened, Upgraded, OpeningFails, Fault
  <2>2. /\ opening' \in {"none", "open", "upgrade"} /\ awaited' \subseteq awaited
        /\ {initialized', stopping', db', worker'} \subseteq BOOLEAN
    BY <1>1 DEF Initialize, Opened, Upgraded, OpeningFails, StillWanted, CleanInv
  <2>3. faults' \in 0 .. MaxFaults BY <2>1 DEF Fault, CleanInv, DatabaseAssumption
  <2> QED BY <2>1, <2>2, <2>3 DEF store, CleanInv, RunIsSound
<1>2. ASSUME NEW m \in Modules, CreateModuleDb(m) \/ ModuleDbInitialized(m) \/ ModuleDbFails(m) \/ DisposeModuleDb(m)
      PROVE  CleanInv'
  <2>1. /\ UNCHANGED <<store, initialized, stopping, opening, db, worker, closing, closes>>
        /\ faults' = faults \/ Fault
        /\ awaited' \subseteq awaited /\ moduleDBs' \subseteq moduleDBs \cup {m}
    BY <1>2 DEF CreateModuleDb, ModuleDbInitialized, ModuleDbFails, DisposeModuleDb, Release, Published, life
  <2>2. faults' \in 0 .. MaxFaults BY <2>1 DEF Fault, CleanInv, DatabaseAssumption
  <2> QED BY <2>1, <2>2 DEF store, CleanInv, RunIsSound
<1> QED BY <1>1, <1>2

\* The steps of the close, and of time.
LEMMA OtherSteps ==
    ASSUME DatabaseAssumption, CleanInv, WorkIsHeld',
           \/ CloseDatabase \/ Drained \/ Closed \/ Terminated \/ CloseFails
           \/ Expire \/ (\E s \in Ids : Settle(s)) \/ UNCHANGED vars
    PROVE  CleanInv'
<1>1. CASE CloseDatabase
  <2>1. Pending \subseteq Modules \cup {"opening", "cleanup"} BY DEF Pending
  <2>2. closes' \in 0 .. MaxCloses BY <1>1 DEF CloseDatabase, CleanInv, DatabaseAssumption
  <2> QED BY <1>1, <2>1, <2>2 DEF CloseDatabase, store, CleanInv, RunIsSound
<1>2. CASE Drained \/ Terminated BY <1>2 DEF Drained, Terminated, store, CleanInv, RunIsSound
<1>3. CASE Closed
  <2>1. cursor' \in 0 .. Sessions BY <1>3 DEF Closed, DatabaseAssumption
  <2> QED BY <1>3, <2>1 DEF Closed, CleanInv, RunIsSound
<1>4. CASE CloseFails
  <2>1. faults' \in 0 .. MaxFaults BY <1>4 DEF CloseFails, Fault, CleanInv, DatabaseAssumption
  <2> QED BY <1>4, <2>1 DEF CloseFails, store, CleanInv, RunIsSound
<1>5. CASE Expire
  <2>1. expired' \in 0 .. Sessions /\ expired <= expired' /\ expired \in Nat /\ expired' \in Nat
    BY <1>5 DEF Expire, CleanInv, DatabaseAssumption
  <2>2. UNCHANGED <<life, moduleDBs, cleanup, cursor, present, guarded, faults>> BY <1>5 DEF Expire
  <2>3. cleanup = None \/ RunIsSound(cleanup)' BY <2>1, <2>2 DEF CleanInv, RunIsSound, Runs
  <2>4. \A s \in Ids \ present : s <= expired' BY <2>1 DEF CleanInv, Ids
  <2> QED BY <2>1, <2>2, <2>3, <2>4 DEF CleanInv, life
<1>6. CASE \E s \in Ids : Settle(s) BY <1>6 DEF Settle, life, CleanInv, RunIsSound
<1>7. CASE UNCHANGED vars BY <1>7 DEF vars, CleanInv, RunIsSound
<1> QED BY <1>1, <1>2, <1>3, <1>4, <1>5, <1>6, <1>7

\* CleanInv holds in every state.
THEOREM CleanupInvariance == ASSUME DatabaseAssumption PROVE Spec => []CleanInv
<1>1. Init => CleanInv
  <2>1. ASSUME Init PROVE WorkIsHeld BY <2>1 DEF Init, WorkIsHeld, ReadyIsOpen, OneInitPerModule
  <2>2. ASSUME Init PROVE /\ cursor \in 0 .. Sessions /\ expired \in 0 .. Sessions
                          /\ faults \in 0 .. MaxFaults /\ closes \in 0 .. MaxCloses
    BY <2>2 DEF Init, DatabaseAssumption
  <2>3. ASSUME Init PROVE present \subseteq Ids /\ guarded \subseteq present /\ Ids \ present = {} BY <2>3 DEF Init
  <2> QED BY <2>1, <2>2, <2>3 DEF Init, CleanInv
<1>2. CleanInv /\ [Next]_vars => CleanInv'
  <2> SUFFICES ASSUME CleanInv, [Next]_vars PROVE CleanInv' OBVIOUS
  <2>1. WorkIsHeld' BY WorkSteps, ClosingSteps DEF CleanInv, Next, Idle
  <2> QED BY <2>1, CleanupSteps, OpeningSteps, OtherSteps DEF Next, Idle
<1> QED BY <1>1, <1>2, PTL DEF Spec

\* However closings, faults and cleanups interleave, a run looks at no more sessions than its limit, and only
\* sessions that have expired and that no guard needs are deleted; the variables keep their types.
THEOREM CleanupIsCorrect == ASSUME DatabaseAssumption PROVE Spec => [](CleanupIsBounded /\ TypeOK)
<1>1. ASSUME DatabaseAssumption, CleanInv PROVE CleanupIsBounded /\ TypeOK
  <2>1. CleanupIsBounded BY <1>1 DEF CleanInv, RunIsSound, CleanupIsBounded
  <2>2. initRuns \in [Modules -> 0 .. 2] BY <1>1 DEF CleanInv, WorkIsHeld, OneInitPerModule
  <2>3. cleanup.at \in {"none", "select", "delete", "modules"} BY <1>1 DEF CleanInv, RunIsSound, Runs, None
  <2> QED BY <1>1, <2>1, <2>2, <2>3 DEF CleanInv, TypeOK
<1> QED BY <1>1, CleanupInvariance, PTL
=============================================================================
