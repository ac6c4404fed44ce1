---------------------------- MODULE PassportScore ----------------------------
(***************************************************************************)
(* Which stamps of a Gitcoin Passport count, src/modules/passport/         *)
(* PassportResolver.ts: the checks of a passport the user sends (manual),  *)
(* of the scorer's answer and of the cache file, the assignment of stamps  *)
(* to wallets, and the score and reward factor computed from what was      *)
(* kept.  Passports are short sequences of stamps from a given set; a      *)
(* provider is a pair of its name and its spelling.  Concurrent lookups    *)
(* are in PassportLookup; here a lookup is one step.                       *)
(***************************************************************************)
EXTENDS Integers, Sequences, FiniteSets, FiniteSetsExt, SequencesExt

CONSTANTS
  Wallet,
  Issuer,           \* issuers; the trusted ones are configured
  Stamp,            \* stamps: see StampType
  Scoring,          \* stampScoring: provider -> units
  Boost,            \* boostFactor: threshold -> factor
  MaxStamps,        \* maxPassportStamps
  MaxTime,          \* bound: the clock
  MaxReloads        \* bound: changes of the trusted issuers

Provider == {"A", "B"} \X {"lower", "mixed"}
Hash == {"", "h1", "h2", "h3"}
StampType == [provider : Provider, subjectProvider : Provider, hash : Hash, wallet : Wallet, exactPrefix : BOOLEAN,
              issuer : Issuer, method : BOOLEAN, purpose : BOOLEAN, proof : BOOLEAN, issued : Nat, expiration : Nat]
StampAssumption ==
  /\ Stamp \subseteq StampType /\ {MaxStamps, MaxTime, MaxReloads} \subseteq Nat
  /\ \A p \in Provider : Scoring[p] \in Nat
None == <<>>
Free == "free"
Passports == SeqOf(Stamp, MaxStamps + 1)

VARIABLES
  now, trusted, reloads,
  file,           \* wallet -> passport in its cache file, or None
  owner,          \* hash -> wallet the stamp is assigned to, or Free
  info            \* wallet -> stamps kept: [provider, expiration, duplicate], with the stamp as ghost

vars == <<now, trusted, reloads, file, owner, info>>
Init ==
  /\ now = 0 /\ trusted = Issuer /\ reloads = 0
  /\ file = [w \in Wallet |-> None] /\ owner = [h \in Hash |-> Free] /\ info = [w \in Wallet |-> None]

-----------------------------------------------------------------------------
(* Checks *)

\* the provider's name in lower case
Name(p) == p[1]
\* parseCredential and parsePassportJson: the number of stamps is limited
Parses(pp) == Len(pp) <= MaxStamps
\* isCredentialBoundToAddress; the subject is compared in lower case
IsCredentialBoundToAddress(s, w) == s.wallet = w /\ s.issuer \in trusted /\ s.purpose /\ s.method
\* no earlier stamp has the same provider
FirstOfProvider(pp, k) == \A j \in 1..(k - 1) : Name(pp[j].subjectProvider) # Name(pp[k].subjectProvider)
\* isPassportBoundToAddress
IsPassportBoundToAddress(pp, w) ==
  \A k \in DOMAIN pp : /\ pp[k].provider = pp[k].subjectProvider /\ FirstOfProvider(pp, k)
                       /\ pp[k].hash # "" /\ IsCredentialBoundToAddress(pp[k], w)
\* parseScorerPassport does not throw; the provider is the credential's
ScorerAccepts(pp, w) ==
  Parses(pp) /\ \A k \in DOMAIN pp : /\ IsCredentialBoundToAddress(pp[k], w) /\ pp[k].hash # ""
                                     /\ pp[k].provider = pp[k].subjectProvider /\ FirstOfProvider(pp, k)
\* the subject of the credential is the wallet
SubjectMatches(s, w) == s.exactPrefix /\ s.wallet = w
\* verifyPassportIntegrity finds no error
VerifyPassportIntegrity(pp, w) ==
  /\ Parses(pp) /\ pp # None
  /\ \A k \in DOMAIN pp :
       /\ pp[k].provider = pp[k].subjectProvider /\ FirstOfProvider(pp, k) /\ SubjectMatches(pp[k], w)
       /\ pp[k].issuer \in trusted /\ pp[k].method /\ pp[k].purpose /\ pp[k].hash # ""
       /\ pp[k].expiration > now /\ pp[k].proof

-----------------------------------------------------------------------------
(* Lookups *)

\* getNewestPassportStampTime
Newest(pp) == Max({0} \cup {pp[k].issued : k \in DOMAIN pp})
\* Mutant: the file is used as it is.
CachedAsIs(w) == file[w]
\* the passport of the cache file, unless it is no longer acceptable
Cached(w) == IF Parses(file[w]) /\ IsPassportBoundToAddress(file[w], w) THEN file[w] ELSE None
\* claimPassportStampsWithExpiry
Claimed(pp, w) == [h \in Hash |-> IF owner[h] = Free /\ \E k \in DOMAIN pp : pp[k].hash = h THEN w ELSE owner[h]]
\* the stamp is assigned to another wallet
Duplicate(s, w, own) == own[s.hash] # w
\* buildPassportInfo for a passport that was found
Build(pp, w) ==
  /\ owner' = Claimed(pp, w)
  /\ info' = [info EXCEPT ![w] =
       [k \in DOMAIN pp |-> [provider |-> pp[k].provider, expiration |-> pp[k].expiration,
                             duplicate |-> Duplicate(pp[k], w, owner'), stamp |-> pp[k]]]]
\* refreshPassport with a new passport: the file's wins when its newest stamp is newer
Refresh(pp, w) ==
  IF Newest(Cached(w)) > Newest(pp) THEN Build(Cached(w), w) /\ UNCHANGED file
  ELSE Build(pp, w) /\ file' = [file EXCEPT ![w] = pp]
\* no usable passport: the file's, or none
Fallback(w) ==
  /\ UNCHANGED file
  /\ IF Cached(w) # None THEN Build(Cached(w), w) ELSE info' = [info EXCEPT ![w] = None] /\ UNCHANGED owner

\* verifyUserPassport; a passport that is refused, or older than the file's, changes nothing
VerifyUserPassport(w, pp) ==
  /\ VerifyPassportIntegrity(pp, w)
  /\ IF ~IsPassportBoundToAddress(pp, w) \/ Newest(Cached(w)) > Newest(pp) THEN UNCHANGED <<file, owner, info>>
     ELSE Refresh(pp, w)
  /\ UNCHANGED <<now, trusted, reloads>>
\* getPassport: the scorer answers with a passport, with none, or fails
ScorerAnswers(w, pp) ==
  /\ IF pp # None /\ ScorerAccepts(pp, w) /\ IsPassportBoundToAddress(pp, w) THEN Refresh(pp, w) ELSE Fallback(w)
  /\ UNCHANGED <<now, trusted, reloads>>
\* a claim ran out; what was kept with it is no longer served
Released(h) ==
  /\ owner[h] # Free /\ owner' = [owner EXCEPT ![h] = Free]
  /\ info' = [w \in Wallet |-> IF \E k \in DOMAIN info[w] : info[w][k].stamp.hash = h THEN None ELSE info[w]]
  /\ UNCHANGED <<now, trusted, reloads, file>>
\* other issuers are trusted: what was kept is no longer served
Reload(t) ==
  /\ reloads < MaxReloads /\ t # trusted /\ trusted' = t /\ reloads' = reloads + 1
  /\ info' = [w \in Wallet |-> None] /\ UNCHANGED <<now, file, owner>>
Tick == now < MaxTime /\ now' = now + 1 /\ UNCHANGED <<trusted, reloads, file, owner, info>>

Next ==
  \/ \E w \in Wallet, pp \in Passports : VerifyUserPassport(w, pp) \/ ScorerAnswers(w, pp)
  \/ (\E h \in Hash : Released(h)) \/ (\E t \in SUBSET Issuer : Reload(t)) \/ Tick
Spec == Init /\ [][Next]_vars

-----------------------------------------------------------------------------
(* getPassportScoreCalculation *)

Counts(i) == i.expiration > now /\ ~i.duplicate
Counted(w) == {k \in DOMAIN info[w] : k <= MaxStamps /\ Counts(info[w][k])}
Score(w) == MapThenSumSet(LAMBDA k : Scoring[info[w][k].provider], Counted(w))
\* the largest factor of the thresholds reached, at least 1
BoostOf(score) == Max({1} \cup {Boost[t] : t \in {u \in DOMAIN Boost : u <= score}})

-----------------------------------------------------------------------------
\* Kept stamps are those of passports within the limit, and a cached file is one that some
\* check accepted for its wallet.
TypeOK ==
  /\ \A w \in Wallet : Len(info[w]) <= MaxStamps /\ \A k \in DOMAIN file[w] : file[w][k].wallet = w

\* A provider counts at most once in a score, however it is spelled.
ProviderCountsOnce ==
  \A w \in Wallet : \A j, k \in Counted(w) : info[w][j].provider[1] = info[w][k].provider[1] => j = k

\* What counts for a wallet was issued to this wallet by a trusted issuer and has not expired,
\* by whichever of the three ways it came in.
CountedIsGenuine ==
  \A w \in Wallet : \A k \in Counted(w) :
    LET s == info[w][k].stamp
    IN s.wallet = w /\ s.issuer \in trusted /\ s.method /\ s.purpose /\ s.expiration > now

\* A stamp counts for one wallet at a time.
StampCountsOnce ==
  \A v, w \in Wallet : \A j \in Counted(v), k \in Counted(w) :
    v # w => info[v][j].stamp.hash # info[w][k].stamp.hash

\* What manual verification accepts is acceptable when it is read back from the file.
ManualIsReadable ==
  \A w \in Wallet, pp \in Passports : VerifyPassportIntegrity(pp, w) => IsPassportBoundToAddress(pp, w)

\* A wallet with a higher score never has a lower reward factor.
FactorFollowsScore ==
  \A v, w \in Wallet : Score(v) <= Score(w) => BoostOf(Score(v)) <= BoostOf(Score(w))
=============================================================================
