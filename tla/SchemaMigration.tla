--------------------------- MODULE SchemaMigration ---------------------------
(***************************************************************************)
(* The schema upgrades of the faucet store and of its module databases.    *)
(* Every upgrade is a list of statements, each committed on its own, with  *)
(* the stored version written last.  A crash, or an error returned by any  *)
(* statement whether or not it was applied, ends an attempt; the next      *)
(* start reads the version again and runs the upgrade from its beginning.  *)
(* A behaviour follows one database, chosen with its contents in Init.     *)
(***************************************************************************)
EXTENDS Naturals, Sequences

CONSTANTS
    Drivers,       \* the database drivers considered, of {"sqlite", "mysql"}
    MaxInterrupts  \* bound: crashes and failed statements of a behaviour

SchemaAssumption ==
    Drivers \subseteq {"sqlite", "mysql"} /\ MaxInterrupts \in Nat

VARIABLES
    store,      \* the database whose upgrade is followed
    driver,     \* faucetConfig.database.driver
    version,    \* its row of SchemaVersion, None when there is none
    have,       \* tables, columns, indexes and state rows that exist
    bad,        \* existing passport objects with another definition
    oversized,  \* a stored stamp hash is longer than the identity limit
    rows,       \* kinds of rows in the passport cache
    pc,         \* where the current attempt is
    from,       \* the version the attempt upgrades from
    at,         \* the next statement of the attempt
    interrupts

vars == <<store, driver, version, have, bad, oversized, rows, pc, from, at, interrupts>>
given == <<store, driver, bad, oversized>>

Stores == {"core", "github", "ipinfo", "zupass", "authenticatoor", "voucher", "passport"}
None == 99

latestSchemaVersion ==
    [core |-> 2, github |-> 1, ipinfo |-> 1, zupass |-> 1, authenticatoor |-> 2,
     voucher |-> 3, passport |-> 3]

CoreTables ==
    <<"KeyValueStore", "Sessions", "SessionsTimeIdx", "SessionsStatusIdx",
      "SessionsTargetAddrIdx", "SessionsRemoteIPIdx">>
GithubTables == <<"GithubCache", "GithubCacheTimeIdx", "GithubSessions", "GithubSessionsUserIdx">>
IPInfoTables == <<"IPInfoCache", "IPInfoCacheTimeIdx">>
ZupassTables == <<"ZupassSessions", "ZupassSessionsAttendeeIdx">>
AuthenticatoorTables == <<"AuthenticatoorSessions", "AuthenticatoorSessionsUserIdx">>
VOUCHER_V3_COLUMNS ==
    <<"CleanupVoucherCode", "CleanupSessionId", "CleanupStartTime", "CleanupTargetAddr",
      "CleanupStatus", "CleanupExpectedState", "CleanupDataHash", "CleanupClaimDataHash">>
PASSPORT_CACHE_V2_COLUMNS ==
    <<"Outcome", "TrustGeneration", "CacheGeneration", "OwnershipExpiry">>

Items(s) == {s[i] : i \in DOMAIN s}

-----------------------------------------------------------------------------
(* Statements.  "create" raises an error when its object exists, "ensure"   *)
(* looks first and skips, "repair" replaces an incompatible index, "update" *)
(* may be repeated.                                                         *)

Each(op, s) == [i \in DOMAIN s |-> [op |-> op, what |-> s[i]]]
One(op, what) == <<[op |-> op, what |-> what]>>

CoreUpgrade(v) ==
    (IF v = 0 THEN Each("create", CoreTables) ELSE <<>>) \o One("repair", "SessionsCleanupIdx")

\* Version 2 of the authenticatoor tables adds the column, fills it and indexes it.
AuthenticatoorUpgrade(v) ==
    (IF v = 0 THEN Each("create", AuthenticatoorTables) ELSE <<>>)
        \o One("create", "StartTime") \o One("update", "StartTimes")
        \o One("create", "AuthenticatoorSessionsPrincipalIdx")

ensureVoucherV3Columns == Each("ensure", VOUCHER_V3_COLUMNS)
ensureVoucherSessionIndex == One("ensure", "VouchersSessionIdIdx")

VoucherUpgrade(v) ==
    (IF v = 0 THEN One("ensure", "Vouchers") ELSE <<>>)
        \o ensureVoucherV3Columns \o ensureVoucherSessionIndex

\* Rows of version 1 do not say what they rest on; they cannot be kept.
DiscardsCache(v) == v < 2

ensurePassportTables == Each("ensure", <<"PassportCache", "PassportStamps", "PassportCacheState">>)
ensurePassportCacheV2Columns == Each("ensure", PASSPORT_CACHE_V2_COLUMNS)
ensureTimeIndexes == Each("ensure", <<"PassportCacheTimeIdx", "PassportStampsTimeIdx">>)
ensurePassportCacheStateRow == One("ensure", "StateRow")
ensureStampHashV3 == One("widen", "StampHashV3")

PassportUpgrade(v) ==
    ensurePassportTables \o ensurePassportCacheV2Columns \o ensureTimeIndexes
        \o ensurePassportCacheStateRow
        \o (IF DiscardsCache(v) THEN One("discard", "PassportCache") ELSE <<>>)
        \o ensureStampHashV3

\* upgradeSchema(v) of each database.
upgradeSchema(s, v) ==
    CASE s = "core" -> CoreUpgrade(v)
      [] s = "github" -> Each("create", GithubTables)
      [] s = "ipinfo" -> Each("create", IPInfoTables)
      [] s = "zupass" -> Each("create", ZupassTables)
      [] s = "authenticatoor" -> AuthenticatoorUpgrade(v)
      [] s = "voucher" -> VoucherUpgrade(v)
      [] s = "passport" -> PassportUpgrade(v)

\* What comes into existence with an object: a new table has today's columns.
Creates(what) ==
    {what} \cup
    CASE what = "PassportCache" -> Items(PASSPORT_CACHE_V2_COLUMNS)
      [] what = "PassportStamps" -> {"StampHashV3"}
      [] what = "Vouchers" -> Items(VOUCHER_V3_COLUMNS)
      [] OTHER -> {}

\* The objects a database of the latest version has.
Complete(s) == UNION {Creates(upgradeSchema(s, 0)[i].what) : i \in DOMAIN upgradeSchema(s, 0)}

-----------------------------------------------------------------------------
(* The databases the upgrades meet.                                         *)

Version(s, v) ==
    IF v = latestSchemaVersion[s] THEN {Complete(s)}
    ELSE CASE s = "core" -> {Items(CoreTables)}
           [] s = "authenticatoor" -> {Items(AuthenticatoorTables)}
           [] s = "voucher" -> {{"Vouchers"} \cup
                (IF v = 1 THEN {} ELSE Items(VOUCHER_V3_COLUMNS) \ {"CleanupClaimDataHash"})}
           [] s = "passport" ->
                {{"PassportCache", "PassportStamps"} \cup idx \cup
                 (IF driver = "sqlite" THEN {"StampHashV3"} ELSE {}) \cup
                 (IF v = 1 THEN {} ELSE Items(PASSPORT_CACHE_V2_COLUMNS)
                                            \cup {"PassportCacheState", "StateRow"})
                     : idx \in {{}, {"PassportCacheTimeIdx", "PassportStampsTimeIdx"}}}

\* An absent database, one of every older version and one of a later build.
Init ==
    /\ store \in Stores
    /\ driver \in Drivers
    /\ version \in {None} \cup (1 .. latestSchemaVersion[store] + 1)
    /\ have \in IF version = None THEN {{}}
                ELSE IF version > latestSchemaVersion[store] THEN {Complete(store)}
                ELSE Version(store, version)
    /\ bad \in {{}} \cup
           (IF store = "passport" THEN {{x} : x \in have \ {"StampHashV3", "StateRow"}}
            ELSE IF store = "core" /\ version = 2 THEN {{"SessionsCleanupIdx"}} ELSE {})
    /\ oversized \in IF store = "passport" /\ version \in {1, 2} /\ driver = "mysql"
                     THEN BOOLEAN ELSE {FALSE}
    /\ rows = IF store # "passport" \/ version = None THEN {}
              ELSE IF version = 1 THEN {"v1"} ELSE {"v2"}
    /\ pc = "idle" /\ from = 0 /\ at = 1 /\ interrupts = 0

-----------------------------------------------------------------------------
(* An attempt: initSchema and upgradeIfNeeded, or the store's own upgrade.  *)

InRange(v) == v \in 0 .. latestSchemaVersion[store]

\* The version is read; an absent row stands for version 0.
ReadVersion ==
    /\ pc = "idle"
    /\ from' = IF version = None THEN 0 ELSE version
    /\ at' = 1
    /\ pc' = IF version = None THEN "insert"
             ELSE IF ~InRange(version) THEN "refused"
             ELSE IF version = latestSchemaVersion[store] /\ store # "core" THEN "check"
             ELSE "validate"
    /\ UNCHANGED <<given, version, have, rows, interrupts>>

InsertVersion ==
    /\ pc = "insert"
    /\ version' = 0
    /\ pc' = "validate"
    /\ UNCHANGED <<given, have, rows, from, at, interrupts>>

TimeIndexes == {"PassportCacheTimeIdx", "PassportStampsTimeIdx"}
ColumnsMatch == bad \subseteq TimeIndexes
IndexesMatch == bad \cap TimeIndexes = {}

\* What PassportDB.validateExistingSchema requires before anything is changed.
ValidExisting(v) ==
    store = "passport" =>
        /\ ColumnsMatch /\ IndexesMatch
        /\ v >= 1 => {"PassportCache", "PassportStamps"} \subseteq have
        /\ v >= 2 => Items(PASSPORT_CACHE_V2_COLUMNS)
                        \cup {"PassportCacheState", "StateRow"} \subseteq have

Validate ==
    /\ pc = "validate"
    /\ pc' = IF ValidExisting(from) THEN "upgrade" ELSE "refused"
    /\ UNCHANGED <<given, version, have, rows, from, at, interrupts>>

Statement == upgradeSchema(store, from)[at]

CleanupIndexState ==
    IF "SessionsCleanupIdx" \notin have THEN "missing"
    ELSE IF "SessionsCleanupIdx" \in bad THEN "incompatible" ELSE "compatible"

\* A statement, or the look before it, raises an error.
Refuses(s) ==
    \/ s.op = "create" /\ s.what \in have
    \/ s.op = "ensure" /\ Creates(s.what) \cap bad # {}
    \/ s.op = "widen" /\ s.what \notin have /\ oversized

\* An object that exists is left alone; an incompatible index is replaced.
Execute ==
    /\ pc = "upgrade" /\ at <= Len(upgradeSchema(store, from))
    /\ Statement.op = "repair" => CleanupIndexState # "incompatible"
    /\ LET s == Statement IN
       IF Refuses(s)
       THEN pc' = "refused" /\ UNCHANGED <<have, rows, at>>
       ELSE /\ have' = CASE s.op = "discard" -> have
                         [] s.op = "ensure" /\ s.what \in have -> have
                         [] s.op \in {"update", "repair", "widen"} -> have \cup {s.what}
                         [] OTHER -> have \cup Creates(s.what)
            /\ rows' = IF s.op = "discard" THEN {} ELSE rows
            /\ at' = at + 1
            /\ pc' = pc
    /\ UNCHANGED <<given, version, from, interrupts>>

\* Dropping the incompatible cleanup index is a statement of its own.
DropIndex ==
    /\ pc = "upgrade" /\ at <= Len(upgradeSchema(store, from))
    /\ Statement.op = "repair" /\ CleanupIndexState = "incompatible"
    /\ have' = have \ {Statement.what}
    /\ bad' = {}
    /\ UNCHANGED <<store, driver, oversized, version, rows, pc, from, at, interrupts>>

\* Mutant: the new version is stored before the statements have run.
StoreEarly == pc = "upgrade"
Upgraded == pc = "upgrade" /\ at > Len(upgradeSchema(store, from))

\* The version is stored when it changed; the store's own is not validated again.
StoreVersion ==
    /\ Upgraded
    /\ version' = latestSchemaVersion[store]
    /\ pc' = "check"
    /\ UNCHANGED <<given, have, rows, from, at, interrupts>>

\* PassportDB.validateCurrentSchema; the other databases are used as they are.
Check ==
    /\ pc = "check"
    /\ pc' = IF store = "passport" /\ ~(ColumnsMatch /\ IndexesMatch /\ Complete(store) \subseteq have)
             THEN "refused" ELSE "ready"
    /\ UNCHANGED <<given, version, have, rows, from, at, interrupts>>

\* The passport module stores rows of the current kind.
Serve ==
    /\ pc = "ready" /\ store = "passport" /\ "current" \notin rows
    /\ rows' = rows \cup {"current"}
    /\ UNCHANGED <<given, version, have, pc, from, at, interrupts>>

\* The process crashes, or the statement just executed reports an error: the
\* attempt ends and what it committed stays.
Interrupt ==
    /\ pc # "idle" /\ interrupts < MaxInterrupts
    /\ interrupts' = interrupts + 1
    /\ pc' = "idle"
    /\ UNCHANGED <<given, version, have, rows, from, at>>

Done == pc \in {"ready", "refused"} /\ UNCHANGED vars

Next ==
    \/ ReadVersion \/ InsertVersion \/ Validate \/ Execute \/ DropIndex
    \/ StoreVersion \/ Check \/ Serve \/ Interrupt \/ Done

Spec == Init /\ [][Next]_vars

\* The steps that are weakly fair. A started upgrade goes on: its statements return.
Weak == {"upgrade"} \X {0}
WeakStep(k) ==
  CASE k[1] = "upgrade" -> ReadVersion \/ InsertVersion \/ Validate \/ Execute \/ DropIndex \/ StoreVersion \/ Check

-----------------------------------------------------------------------------

TypeOK ==
    /\ store \in Stores /\ driver \in Drivers
    /\ version \in {None} \cup 0 .. 4
    /\ have \subseteq Complete(store) /\ bad \subseteq Complete(store)
    /\ oversized \in BOOLEAN /\ rows \subseteq {"v1", "v2", "current"}
    /\ pc \in {"idle", "insert", "validate", "upgrade", "check", "ready", "refused"}
    /\ from \in 0 .. 4 /\ at \in 1 .. 20 /\ interrupts \in 0 .. MaxInterrupts

\* The stored version is true at every moment: whenever a module's names the latest
\* schema, every table, column, index and row of that schema exists, however
\* often the upgrade that led to it was cut short.  The store's cleanup index is
\* looked at in every start, so there it holds of a store that is in use.
VersionIsTrue ==
    /\ version = latestSchemaVersion[store] /\ store # "core" => Complete(store) \subseteq have
    /\ pc = "ready" => version = latestSchemaVersion[store] /\ Complete(store) \subseteq have

\* An upgrade can be cut short anywhere and taken up again: the voucher and the
\* passport upgrades, and the store's from version 1 on, are never refused because
\* of what an earlier attempt left; only the plain CREATE statements are not repeatable.
UpgradeResumes ==
    pc = "refused" =>
        \/ bad # {} \/ oversized \/ version = latestSchemaVersion[store] + 1
        \/ /\ interrupts > 0
           /\ \/ store \in {"github", "ipinfo", "zupass", "authenticatoor"}
              \/ store = "core" /\ from = 0

\* A passport schema with an unexpected definition, and any schema of a later
\* build, is refused before anything is changed.
RefusedUntouchedStep ==
    (bad # {} /\ store = "passport") \/ version = latestSchemaVersion[store] + 1
      => UNCHANGED <<have, rows, version>>

\* Cached rows of version 1 are gone before the version says so, and rows that
\* carry their generation are never lost to an upgrade.
CacheRowsAreJudged ==
    /\ store = "passport" /\ version = 3 => "v1" \notin rows
    /\ store = "passport" /\ pc = "ready" /\ from = 2 => "v2" \in rows

\* A row written under the current schema survives every later start.
CurrentRowsSurviveStep == rows \cap {"v2", "current"} \subseteq rows'

\* What comes in the end, once the interruptions end: a usable or a refused database.
UpgradeEnded == pc \in {"ready", "refused"}

=============================================================================
