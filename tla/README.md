# Verification of Hyperfaucet

TLA+ models of the backend in `src/src`, TLC configurations that check them on
small instances, and TLAPS proofs for all instances. Definitions are named after
the code they stand for; `PROJECT.json` maps each of them to its source lines.

## The system

Hyperfaucet pays small amounts of a test coin. A visitor starts a session,
passes the checks of the enabled modules (captcha, limits, stake, voucher, proof
of work ...), earns a reward, and claims it. The backend is one Node.js process
with one database and one payout wallet (`README.md` of the repository: "Run one
active backend for each faucet database and payout wallet"). JavaScript turns are
atomic; every `await` lets any other promise chain run. The hard behaviour is
therefore not in threads but in what is read before an `await` and used after it,
in calls whose acknowledgement is lost, and in crashes between two calls.

| Part | State | Operations | Hard because |
|---|---|---|---|
| Claim pipeline `eth/EthClaimManager.ts` | claim per session, claimTxDict, queue, pending transactions, completion tasks | create, queue, sign, broadcast, settle, complete, initialize, dispose | crash between sign, store and send; lost acknowledgements; two reconciliation tasks per claim |
| Wallet `eth/EthWalletManager.ts`, `EthWalletRefill.ts` | nonce, balances, reservations | load, reserve, cancel, release, refill | nonce after restarts, refill while claims are in flight |
| RPC pool `eth/RpcEndpointPool.ts` | health of endpoints | check, select, broadcast, reconnect, dispose | late and overtaking answers, provider events at any time |
| Sessions `session/FaucetSession.ts`, `SessionManager.ts` | status, address, IP, reward, persistence state | start, reward, complete, fail, time out, save, change IP | uncertain inserts, reward, termination and save overlap |
| Admission `session/AdmissionLedger.ts` | reservations, bindings, subject index, binding order | begin, bind, check, mark, move, release | limits are checked while other sessions start, move and end |
| Limits `modules/concurrency-limit`, `recurring-limits`, and per person in `github`, `zupass`, `authenticatoor` | none of their own | checks at start and at a change of IP | the database is read after the reservations |
| Store `db/FaucetDatabase.ts`, drivers, `DatabaseWorker.ts` | session rows, key-value store, module tables, schema versions | compare-and-set updates, cleanup, upgrade, open, close | errors after a commit; replies out of order with a MySQL pool; interrupted upgrades |
| Lifecycle `common/ServiceManager.ts`, `FaucetProcess.ts`, `app.ts` | services, shutdown step | create, dispose, shut down | order of shutdown, disposers that overlap |
| Lookups `utils/BoundedAsyncWork.ts` | generations with a runtime each, lookups | run, replace, stop, retry cleanup | work of an old generation, failing disposers |
| Modules `modules/ModuleManager.ts`, `BaseModule.ts` | loaded modules, hooks, admission state | load, reload, activate, run hooks, quiesce | reload while hooks run, partial failure |
| Proof of work `modules/pow`, `faucet-client/src/pow` | sessions, shares, verifications, validator queue, child processes, miner, socket | submit, validate, verify, reward, slash, place, destroy, reconnect | verdicts that arrive late, children and workers that die, lost sockets |
| Outflow `modules/faucet-outflow`, `dynamic-outflow` | budgets and fee markers | reserve, settle, decay, refresh | writes of unknown outcome, restarts |
| Vouchers `modules/voucher` | voucher rows, receipts | lease, consume, take over, clean up | double use, interrupted cleanup |
| Passport `modules/passport` | cache table and file, stamp owners, cooldowns, worker | look up, upload, claim stamps, score, reload | stamps shared by wallets, trust that changes meanwhile |
| Stake `modules/hyperliquid-stake` | caches, generations, challenges, markers | look up, verify ownership, boost | single-use challenges, stored markers, reloads |
| Logins `modules/zupass`, `modules/github` | challenges, states, tokens, rate budgets, worker | issue, callback, verify, exchange, poll | repeated callbacks, policy reload, expiry |
| Addresses `modules/ipinfo`, `modules/whitelist` | cache, budget, backoff, restrictions | look up, restrict, refresh | rules and addresses change during a session |
| Snapshots `ops/state-snapshot.mjs` | operator lock, temporary and published directories | create, verify, restore | power loss, a container started meanwhile |

What makes each part correct: a session is paid at most once and only if it was
earned; a signed transaction is stored before it is sent; a wallet nonce is used by
one claim; every owned claim is decided; limits hold in every interleaving;
in-memory indexes agree with what they index; nothing durable is lost in a
shutdown; a voucher, a stamp, a share, a challenge and a budget unit count once; what
was looked up under one configuration is not used under another; every request is
answered and every transition of the process ends. `PROJECT.json` lists the hazards
behind these, each at its line, with the properties that would catch it.

## Modules

The components share little state, so each is a module of its own; what it needs of
another one is modelled as that one is used. Two compositions matter and are made:
`SessionAdmission` composes sessions with the ledger, and `EthClaimManager` composes
the claim manager with the session rows, the wallet's nonces and the chain.

| Module | Models |
|---|---|
| `ClaimLedger` | what the claim pipeline promises: row status, paid sessions, accounted sessions |
| `EthClaimManager` | the claim pipeline with the session rows it compares and sets, nonce and reservations of the wallet, and the chain |
| `AdmissionLedger`, `SessionAdmission` | the synchronous methods of the ledger; sessions composed with it: start hooks, the two limit modules, commit, failure, change of IP |
| `FaucetSession` | one session with its row, the reward chain, the saves, timeouts, shutdown and restore |
| `BoundedAsyncWork` | generations of a runtime, lookups, timeouts, replacement, failing disposers |
| `ModuleManager` | loads, reloads, activation, hooks, rollback of a failed start, quiescence and disposal of modules |
| `ServiceLifecycle` | service registry, startup, steps of the shutdown |
| `DatabaseLifecycle`, `SchemaMigration` | open, module schemas, cleanup and close; upgrades statement by statement with interruptions |
| `EthWallet`, `RpcEndpointPool` | balances and nonces against the chain with refills; health and choice of endpoints |
| `FaucetOutflow`, `DynamicOutflow` | budgets, their database entry and its ownership |
| `PrincipalGrants` | the limits of an authenticated person |
| `Voucher` | codes, leases, receipts, one step per statement |
| `PoWValidator`, `PoWVerification`, `PoWServer`, `PoWMiner`, `MinerConnection` | validation queue, judgement of shares, placement on child processes, the browser's miner and its socket |
| `PassportLookup`, `PassportRefresh`, `PassportScore`, `PassportVerifier` | lookups and stamp claims, limits of requests, what counts, the verification worker |
| `StakeLookup`, `StakeOwnership` | stake and price lookups; proof that the wallet owns the stake |
| `ZupassLogin`, `ZupassVerifier`, `GithubLogin` | login flows and the proof worker |
| `IPInfoLookup`, `IPRestriction` | information about addresses and what it does to rewards |
| `StateSnapshot` | snapshots and restores beside a container that may be started |
| `EthClaimManagerProofs`, `SessionAdmissionProofs`, `FaucetSessionProofs` | inductive invariants and theorems (the second module's last parts are about `ModuleManager`, `BoundedAsyncWork`, `PassportVerifier` and `ZupassVerifier`); those of `PrincipalGrants`, `Voucher`, `DatabaseLifecycle`, `ServiceLifecycle` and `GithubLogin` stand at the end of the modules themselves |
| `Slots` and the `MC` modules | instances for TLC |

The header of each module says what it abstracts. Some conventions are common to all:
a JavaScript turn is one action; an `await` separates actions; a database call is
issued, executed and answered in separate steps where something can happen in
between; "may fail" is a fault counted by a bound; time is a small counter or, where
only the order matters, a timer that may fire at any moment; configuration values
that only scale amounts are small numbers.

### EthClaimManager

Every promise chain of the manager is a *task*: the queue (`processQueue`, at most
one), one handler per claim request, and per session a broadcast task
(`rebroadcastClaim`), a receipt task (`awaitTxReceipt` with `settleClaim`) and a
completion task (`completeConfirmedClaim`). A record holds the program point, the
expected and the new claim of a pending compare-and-set, its reply, and the row
that was read. A database call is three steps: the task issues it, the database
executes it (`TryCreateClaim`, `CompareAndSetClaim`, `FinalizeConfirmedRow`,
`GetSession`), the task continues with the reply. An error may be raised before or
after the commit. `OrderedReplies` is TRUE for the SQLite worker, which answers in
the order of execution, and FALSE for the connection pool of the MySQL driver.

`transitionClaim` is split into `Outcome` (what it decides from a reply), `Learned`
(the claim the in-memory object holds afterwards) and `Observed` with
`ReconcileTerminal` and `Reconciled` (what `reconcileObservedTerminal` does); the
three users of it are `QueuePrepared`/`QueueFailed`/`QueueLost`,
`BroadcastTransition` and `ReceiptSettled`/`ReceiptLost`. `Stop` is a crash or the end
of a drained shutdown and loses everything but `db`, `booked` and the chain;
`Initialize` rebuilds the memory from the CLAIMING rows as `initialize` does, with
claims of the legacy status "processing" left alone.

A transaction is a record of session, nonce and a signature number, so that two
signatures are never equal. Balances, fees, block numbers and messages are left
out: that the wallet cannot cover a claim is a nondeterministic outcome
(`PrepareFails`). The chain and the RPC are external: a transaction some endpoint
accepted may be mined when its nonce is next, with success or revert; the
transaction count may lag by `RpcLag` and may count accepted transactions.
A retry delay is merged with the step that starts it where nothing else depends
on it.

### AdmissionLedger and SessionAdmission

`bindings` is the map of each reservation, `subjectIndex` the inverse map the code
keeps beside it; binding order 0 stands for a missing entry. A session passes
through the stages new, begun (`begin`), addressed (`setTargetAddr`), limited
(concurrency check passed), querying and queried (recurring limit), cleared,
running, committing, and ended, or from any of them through failing to ended. A
change of IP runs beside these stages: prepared, checked by the hook, committed or
aborted, also while the session ends. The recurring limit is a count limit by
address; the concurrency limit has scope ip-or-address. Sessions restored after a
restart, amount limits and the limit of time windows are not modelled yet.

## Runs

Components that share no state are checked in one run: `Slots` declares twenty slots
and a variable `part`; an MC module instantiates each component over the slots, its
`Init` chooses the part and its `Next` takes steps of that part. TLC then explores the
sum of the state spaces, not their product. A property of such a run reads
`part = "x" => ...` and is the conjunction of the component's own invariants and action
properties. The assumptions of the instantiated components are asserted again by the
MC module.

| Run | Instance | Shows |
|---|---|---|
| `claims` | 2 sessions and a legacy one, 1 handler, 2 payouts in flight, 1 restart, 1 database error, replies in order | `DurableBeforeBroadcast`, `AtMostOnePayout`, `NoncesAreExclusive`, `LedgerSpec` (refinement of `ClaimLedger`) |
| `claims_pool` | part "pool": 2 sessions and a legacy one, replies out of order, RPC lag 1, the queue waits for funds; part "race": 2 handlers for one session | `ClaimsAreSettled` |
| `admission` | 3 sessions, 2 IPs, 2 addresses, concurrency limit 2, recurring limit 2, 6 bindings | `IndexMatchesBindings`, `ConcurrencyBound`, `RecurringBound` |
| `core` | session (with a restart; with two requests), lookups, modules, lifecycle, database, schema | one property per part |
| `payouts` | wallet, RPC pool, both outflows, grants (counts; amounts), vouchers | one property per part |
| `pow` | validator, verification, servers, miner, connection | one property per part |
| `passport` | lookups, refresh limits (cooldowns; eviction), scores, stake lookups, stake ownership | one property per part |
| `logins` | passport and Zupass workers, Zupass and GitHub logins, IP lookups (cache; provider), restrictions, snapshots | one property per part |
| `live` | 24 small instances under fairness | `SessionsEnd`, `RequestsAreAnswered`, `TransitionsEnd` |
| `claim_stale_reply`, `passport_file`, `connection_lost` | smallest instance that shows it | violations, see Findings |

Bounds are named constants: of requests, restarts, faults, reloads, the clock, and
counters such as `MaxSigned` or `MaxBindings`. Two sessions (claims, addresses, wallets,
requests) are enough for two of them to compete for a nonce, a slot, a stamp or a code;
a third is there where a limit of two has to be exceeded. One restart lets every pair of
steps be separated by a crash; one fault can hit any call, two a call and its recovery.
Six bindings let two sessions start and both move, or three start. Limits of the code
(10000 attempts, 100 pending challenges ...) are 1 or 2, so that being full is an ordinary
state. Actions stop at their bounds, so these runs may end and deadlock is not checked;
in the claim runs the queue's interval keeps the system moving and it is. Interchangeable
model values are declared symmetric except in the liveness run.

Every property has a mutant: a definition of the model replaced by the form a plausible
bug would give it (the operators commented `Mutant:`), for which TLC finds the property
violated.

### Fairness

Each module with a liveness property lists the steps that are weakly fair in `Weak` and
`WeakStep` and those that are strongly fair in `Strong` and `StrongStep`; the `live` run
puts them together in `Fairness`. Promises settle, so the database answers and tasks
continue; timers fire; transports have timeouts, so a lookup, an exchange or a worker
that hangs is given up; a stopped process is started again by its container. These are
weakly fair. Strongly fair are only calls the code repeats until they succeed: broadcasts,
hooks and reads behind retry loops (`EthClaimManager`), the interval that retries a write
of unknown outcome (`FaucetOutflow`, `DynamicOutflow`), and callers that ask again
(`StakeOwnership`). That a provider answers at all, that a user acts, or that a socket
stays open is never assumed; where a property depends on it, the property says so.

The bounds allow finitely many requests, so "each request is answered" is stated as
`[]<>` "nothing is open" per part: it fails if and only if some request stays open for
ever. TLC checks all of it in one pass, which conditional leads-to formulas per request
would not allow.

### Findings

* `claim_stale_reply`: with the MySQL pool the reply of the PREPARED to PENDING update
  may arrive after `settleClaim` has read PENDING and stored CONFIRMED.
  `transitionClaim` then sets the claim object back to PENDING, the loops of
  `completeConfirmedClaim` and `finalizeConfirmedClaim` end, and the payout is never
  published as FINISHED, although the comment in `FaucetDatabase.ts` (1106-1107) says
  the finalizing update follows. The slot and the reservation are held until the next
  restart, which completes the claim. Money is not lost or paid twice.
* `passport_file`: `refreshPassport` reads the cache file, asks the scorer, and compares
  the answer with what it read before; a passport uploaded in between is overwritten by
  an older one, although a comment says the newer one is used.
* `connection_lost`: a socket that closes while a share awaits its answer leaves the
  promise open; `shareQueueProcessing` stays true and the queue is never sent again on
  the new connection.

### Observations

Behaviour met while modelling that no document denies; the properties are stated so
that they hold with it.

* Sessions: with two database errors (the acknowledgement of a terminal write is lost
  and the read after it fails) nothing retries until shutdown, and the reservation stays
  held. A completion queued behind `stopRewardOperations` fails an unrewarded session.
* Modules: a reload that fails while the state of the previous run is restored is hidden
  by the activation (`ReadyMeansLoaded` does not hold with `EarlyReload = TRUE`).
* Lifecycle: a signal during the startup lets the HTTP server start after its admission
  was stopped (`AdmissionStopped` does not hold with `EarlySignal = TRUE`).
* Claims: with a MySQL pool the statistics of a session can be written twice; with RPC
  nodes that lag behind a used nonce can be reused, so `NoncesAreExclusive` is checked
  for ordered replies and an RPC that is up to date.
* Wallet: a cancelled reservation leaves a nonce gap until a refresh without pending
  claims; a refill broadcast that failed for the faucet but was accepted collides with
  the next claim; in token mode the overflow is sent as native value.
* RPC pool: an error event takes the best endpoint offline without recomputing the lag
  of the others; `recreateProvider` does not disconnect the old provider.
* Proof of work: a rejected `terminate()` leaves the validator failed for good; a child
  that dies stays listed as closed until one of its sessions completes beside another
  server, and its sessions keep a promise that fails; difficulty 0 gives a mask of three
  digits.
* Dynamic outflow: a failed write of a new rate rolls budget, rate and time back together,
  so a reward granted on the newer state can pass the cutoff (`DebtIsBounded` is stated
  for runs without such a fault).
* Passport: a rejected `terminate()` makes manual verification unavailable until the next
  reload; a full table of attempts forgets the cooldown of an evicted wallet; data kept in
  a running session is not checked again when the claim of a stamp lapses.
* Schema: plain CREATE statements of the first versions are not repeatable: a stop
  between CREATE and the version makes every later start fail.
* Stake: a second verification of a verified session sets the marker back to pending, and
  a failure then loses the first one. A price that fails ends the lookups waiting for it
  while their summary requests stay in flight, which nothing tracks: the address can be
  looked up again at once, and the info API is asked twice for it and by more requests
  than `maxConcurrentLookups`. `LookupsAreBounded` is about the lookups, which is what that
  setting counts.
* Zupass: a refused login has already deleted the context's earlier challenge; a reload
  also resets the rate budgets. GitHub: two first lookups of one user both insert into the
  cache and the second fails; a restarted module has new exchange limits.
* IP information: once the table of invalidated addresses overflows the cache is bypassed
  until the resolver is replaced; a refused move leaves the information of the refused
  address in the session, by which the next refresh judges it.
* Grants: two subjects with one email block each other while running and not afterwards.
* Connection: `closeSession` hangs when its socket closes; verdicts under way on a lost
  socket are not sent again. Snapshots: a killed command leaves the operator lock.

## Proofs

All theorems are stated for every value of the constants that satisfies the named
assumption of the module. TLC evaluates these assumptions on the instances it checks.

### SessionAdmissionProofs

For every set of sessions (finite), IPs, addresses and every limit, from
`LedgerAssumption` and `AdmissionAssumption`:

* `TypeCorrect`: `Spec => []TypeOK`
* `IndexCorrect`: `Spec => []IndexMatchesBindings`
* `ConcurrencyCorrect`: `Spec => []ConcurrencyBound`
* `RecurringCorrect`: `Spec => []RecurringBound`

`ConcurrencyBound` is not inductive: a session may be checked after sessions bound
later than it were admitted, and it does not count those that are still starting. `IInv` therefore
bounds `UpToAdmitted(k)`, the sessions bound to `k` no later than some admitted one.
A session that passes its check is in that set already, or all of the set is bound
before it and `BeforeIsCounted` shows that its check counted them all
(`JoinKeepsBound`). Every other step leaves the set or shrinks it (`QuietKeepsBound`),
because a new binding gets an order above all others. The other parts of `IInv` say
that orders are distinct and that a session is bound only to its IP, its address
and, during a change, its old IP. `IInv` was also checked with TLC.

The recurring limit reads in two steps: the running sessions first, the database later.
`RecurringInv` adds `NotesEarlier` (the usage a session noted has everyone bound before
it) and bounds `UpToLate(a)`: what earned or may earn at `a`, and the undecided sessions
bound no later than one that is cleared or whose check misses an earning session. A
session that commits between the two reads is counted by one of them (`Counted`), so
the steps in between are calm (`CalmKeepsLimit`).

The third part is about `ModuleManager`, whose admission decides whether sessions may start
at all, from `ParamsAssumption` (bounds are numbers):

* `ManagerIsSound`: `HooksOfLiveModules`, `NoModuleLost`, `FailsOnlyByFault`,
  `StopIsExclusive` and `TypeOK`
* `AdmissionIsReady`: `Spec => []ReadyMeansLoaded`, if `EarlyReload = FALSE`. The hypothesis
  is one about the deployment, nobody sends SIGUSR1 before the state is restored; without
  it the property is false, see Observations.

With both, all the parts of the run's `ReadyMeansLoaded` are proved. `ManagerInv` says of
what kind a module is at each point where the load awaits it, and that every other module
is disabled, enabled or in need of cleanup. A load that ends looks only at its generation,
so `ReadyInv` has to know what the generation stands for: loads are queued and run in the
order of their generations and an activation is only ever queued in front (`QueueShape`);
while the latest load has not failed, each configured module is still to do, at hand or
done, and each other one is to be dropped, being stopped or off (`Placed`). A change of the
configuration raises the generation, so that no load under way is the latest one.

The fourth part is about `BoundedAsyncWork`, in which the lookups of a session's address run,
from `BoundsAssumption` (bounds are numbers, lookups are finitely many, the two sentinels are
no generation and no call):

* `LookupsAreSafe`: `InflightBound`, `NoRuntimeLost`, `OneServes` and `TypeOK`
* `LookupsAreNeverLate`: `Spec => [][NoLateEffectStep /\ NoStaleResultStep]_vars`

These are all the parts of the run's `LookupsAreBounded`. `NoRuntimeLost` is not inductive
alone: that the call which holds the lifecycle lets go of what it staged only when it has become
current, is disposed or kept in `failed`, needs to know what that call has staged and drains at
each of its steps (`CallShape`), that a retry of a failed cleanup precedes every other operation
(so `failed` is never overwritten), and that the current generation is disposed only by the call
about to drop it (`CurrentShape`). With those, `current` changes only when it is absent or drained,
when no lookup is in flight (`AllDrained`), which is why the bound is one over all generations.
An effect is never late because a lookup that is in flight and not cancelled still has its
caller (`WorkShape`). `LookupInv` was also checked with TLC.

The fifth part is about the two worker threads that verify passport credentials and ticket
proofs, from the `CapacityAssumption` of each (bounds are numbers, at least one worker fits the
prover's, its callers are finitely many, `None` is no worker, number or caller):

* `OneVerifier`: `OneWorker`, `PendingIsServed`, `StoppedIsDrained` and `TypeOK` of
  `PassportVerifier`
* `OneProver`: `OneWorker`, `PlacesAreBounded`, `OneProofAtATime`, `DisposedIsDrained` and
  `TypeOK` of `ZupassVerifier`

These are all the parts of the run's `OneWorker`. To know that a new worker is the only one the
proof follows the thread (`OneThread`): it serves, or exactly one job is terminating it, or its
termination failed and it is the undrained one; `JobShape` and `ProverJobs` say which of
recovery, reload and stop exclude each other, so that no job forgets the thread of another. For
the prover the invariant also describes the queue (`ProofQueue`): each waiting caller stands in
it once, and a proof is in flight exactly if the worker is on it. `VerifierInv` and `ProverInv`
were checked with TLC too.

### EthClaimManagerProofs

For every set of sessions and handlers, every number of restarts, database errors and
signatures, with ordered and unordered replies, from `ClaimAssumption` (only that the
sessions are finitely many, `NoSession` is none of them and bounds are numbers):

* `DurableFirst`: `Spec => []DurableBeforeBroadcast`
* `PaidOnce`: `Spec => []AtMostOnePayout`
* `FailedUnpaid` and `FinishedPaidAndBooked`: the two parts of `ClaimsAreSettled` that say
  what a final row means: a failed session was not paid and cannot be, a finished one was
  paid and booked
* `UnownedByLostAck` and `InFlightBounded`: its other two parts, so that all of
  `ClaimsAreSettled` is proved
* `TypeCorrect` and `ReservedWhileActive`: `Spec => []TypeOK`, `Spec => []ActiveIsReserved`
* `NonceUsedOnce`: `RpcLag = 0 /\ Spec => []NoNonceReuse`
* `StatsWrittenOnce`: `OrderedReplies /\ Spec => []StatsOnce`
* `ExclusiveNonces`: `RpcLag = 0 /\ OrderedReplies /\ Spec => []NoncesAreExclusive`, which
  joins the four before
* `ImplementsClaimLedger`: `Spec => LedgerSpec`, the refinement of `ClaimLedger`

The two hypotheses are conditions on the deployment, not on the instance. With `RpcLag > 0`
an endpoint may answer with a nonce that is used already and the wallet has no other
source for the first nonce after a start (`EthWalletManager.ts:283`). Without
`OrderedReplies`, that is on the MySQL pool, a late reply can set a confirmed claim back,
see Findings.

The invariant `PayInv` says that every copy of a claim (in memory, in an issued call, in
a row that was read) is unsigned or carries the bytes of its row (`Agrees`); that the
broadcast, receipt and completion tasks of a session exist only when its claim in memory
is signed, and the queue works on a session only while its claim in memory is queued; and
that a handler whose write was acknowledged finds no claim in memory. Hence a
compare-and-set either starts from an unsigned row or keeps the bytes of the row
(`CompareAndSetClaimSound`), rows only grow (`Grows`), and what a step leaves alone stays
sound (`TaskKept`, `ChainKept`). `Initialize` re-establishes all of it from the rows.

`OutcomeInv` rests on `PayInv` and follows the evidence: wherever a claim says confirmed or
reverted - in a row, in memory, in a call that was issued - the chain has mined its
transaction with that outcome, and a row that is finished or a task that is about to
finish it has been booked. The refinement maps a session to what its row, the accepted
transactions and the mined ones say; the step simulation has one case for each statement
the database executes and each event of the chain, every other action is a stutter.

The later theorems have one invariant each, on top of these two:

* `CustodyInv`: who answers for a stored claim. A signed claim that is not settled is
  always reserved in the wallet; its slot in `pending` may be still on the way only while
  the queue, which has sent the signed row, waits for the answer (`RowHeld`). A queued one
  is in the queue, with the queue's worker, or lost its acknowledgement (`RowOwned`). It
  needs that a late reply to a task of a session may be out of date but is never about a
  settled claim (`RepliesSettled`), and that what the queue read or wrote is what the row holds.
* `SlotInv`: `InFlightBound` is not inductive, because the signature is on its way before
  the row says so. The set `InFlight` holds such a session from the moment its slot is
  checked, and the cardinality of that set is what the steps preserve.
* `NonceInv`: signed claims, and the one on its way, have distinct nonces below the next
  nonce of the wallet; `Initialize` re-establishes it from the rows and the chain.
* `StatsInv`: over one worker at most one reply is under way, and it is about the row as it
  is; statistics are written by the task that finished the row, which is gone then.
* `BytesInv` and `ListsInv`: the types, with all nonces and signatures among those the
  wallet has given out so far.

### Voucher

For every set of codes and sessions, every number of failed statements and crashes, from
`VoucherAssumption` (the process names are no sessions, bounds are numbers):

* `VoucherPaysOnce`: `Spec => []PaysOnce`
* `VoucherRowsAreSound`: `LiveSessionHoldsCode`, `RowsAreValid`, `EndedIsCleanable`,
  `LeaseIsOwned` and `TypeOK`

These are all the parts of the run's `PaysOnce`.

`PaysOnce` counts sessions; what is inductive is ownership. `VoucherInv` says that a code
is owned by the session its row or its receipt names, that a session which was or may be
paid owns its code (`LiveSessionHoldsCode`, `PaidIsConsumed`), and what each program point
of a start (`StartShape`) or of a cleanup (`CleanShape`) knows of the row it read earlier:
a compare-and-set that succeeds on such a row takes a code from no live session. Two
sessions cannot both own one code, so at most one uses it.

### FaucetSessionProofs

For every minimum and default amount, every number of requests, data changes, database
errors and restarts, from `SessionAssumption` (the constants are natural numbers):

* `CleanExit`: `Spec => []CleanExitKeepsSession`
* `RunningHoldsReservation`: `Spec => []RunningIsReserved`
* `RollbacksFitTheRow`: `Spec => [](RollbackIsSafe /\ RollbackNotLost)`
* `EndAgreesWithRow`: `Spec => []DisposedAgrees`
* `AmountIsAccounted`: `Spec => []ClaimableIsAccounted`
* `HooksRunOnce`: `Spec => []CompletionHooksOnce`
* `TerminalStays`: `Spec => [][TerminalIsFinalStep]_vars`
* `TypeCorrect`: `Spec => []TypeOK`

These are all the safety properties the run `core` checks of a session. None is inductive: an
object decides on a reply of some steps ago while the other worker of the session goes on.
`SessionInv` collects what makes the decisions right:

* `RowSound` relates the object to its row: a running row has an object that was not given
  up, an object that believes nothing was inserted has no row, a claimable row has an object
  that is completing, failed or at its end.
* `ChainSound` and `SaverSound` say for every program point of the two workers what they may
  rely on. They stay out of each other's way because the chain waits for the tail of the
  saves before it makes a terminal row (`PastTail`): from then on the saver has no statement
  of a running session in flight, and cannot start one.
* `CallSound` says of every database call what its reply is worth when it is read: an absent
  row that was read where that matters is still absent, a terminal row can only have timed
  out since, an acknowledged write is what was sent.
* `SavesSound` and `StartSound` say who waits for which save and what is left of the start;
  `HooksSound` that the amount of a live object is what the hooks were told, and that the
  claimable row carries it.

Only `DbExecute` writes the row (`OnlyDatabaseWrites`), and each statement moves it onward
(`EffectMovesOn`), which gives `TerminalStays`.

`CleanExitKeepsSession` needs a second invariant on top, `CleanInv`: an object that runs and is
not dirty is stored - in the row, or in the save that is under way (`CleanSound`). The
exception is an object whose first save failed: it may be newer than the row that an
unacknowledged insert left, but then `ActivationFails` has queued its failure (`Doomed`), and
`SaveAllSessions` waits for the queue. `InsertSound`, `OperationSound` and `ExitSound` say that
such an object is always doomed, that a queued failure is removed only by ending the session,
and that what the shutdown's save finds runs and is not dirty any more. `SessionInv` and
`CleanInv` were checked with TLC before they were proved. `SessionEnded` and
`ReservationEnded` are liveness and stay with TLC.

### PrincipalGrants

For every finite set of sessions, every set of persons and every number of restarts, from
`GrantAssumption` (limits are numbers, the address of old rows is not a person):

* `CountCorrect`: `Spec => []CountIsLimited`
* `ConcurrencyCorrect`: `Spec => []ConcurrencyIsLimited`
* `AmountCorrect`: `Spec => []AmountIsLimited`
* `TypeCorrect`: `Spec => []TypeOK`

These are all the parts of `GrantsAreLimited`.

`CountInv` follows `RecurringInv`: it bounds `UpToLate(p)`, what counts for a person and the
waiting sessions bound no later than one that was cleared or that misses something. Two
things are different here. Sessions of an old version count for every person, under the
address they share. A restart gives all restored sessions the same binding order, so
orders are unique only among checks under way (`NotesEarlier`); nobody waits after a
restart, so the set shrinks to what counted before it. The concurrency limit needs only
that an active session with a name is bound (`Shape`).

`AmountInv` needs more of a check than `CountInv`, because the amount decides by what was
noted: while an amount is limited, checks pass in the order of binding, since a session
bound earlier that still waits is provisional in the notes of a later one
(`GrantedIsNoted`). So every check under way has noted all that counts for its person
(`CountedIsNoted`), each for no less than it is worth (`NotesCoverWorth`): what is noted
for good is settled at its ceiling (`NotesShape`), and a session is never paid more than
its ceiling (`CeilingShape`). A session that passes is then the one that may exceed the
limit. Sums are compared as numbers of units, the pairs of a session and a number up to
its worth (`WorthUnits`). That a sum over a set is that number (`SumsAreUnits`,
`WorthIsFinite`) is an induction over finite sets, done as an argument by a smallest
counterexample: a family of subsets of a finite set has a minimal member (`SmallestSet`,
from the library's theorem that strict inclusion of finite sets is well-founded).
`AmountInv` was checked with TLC on both instances of `MCPayouts` before it was proved.

### DatabaseLifecycle, ServiceLifecycle, GithubLogin

* `DatabaseIsQuietWhenClosed` (from `DatabaseAssumption`): `NoWorkOnClosedDb`,
  `ReadyIsOpen` and `OneInitPerModule`, for every number of modules, callers, closes and
  faults; `NoLatePublish` is the action property `NoLatePublishStep`. `WorkIsHeld` is the
  invariant: work under way has an open database, and once a close has begun that close
  is still waiting for it.
* `CleanupIsCorrect` (from `DatabaseAssumption`): `CleanupIsBounded` and `TypeOK`; with the
  two above, all the parts of `NoWorkOnClosedDb`. `CleanInv` says that what a
  run has processed and its batch together stay within the run's limit, and that the batch
  holds rows which had expired when the run began. That the first rows in order make such a batch (`BatchIsBounded`) is an
  induction over numbers, done by a smallest counterexample (`LeastNumber`).
* `ShutdownIsOrdered` (from `EarlySignal = FALSE`): `ClosedLast`, `AdmissionStopped`,
  `DisposedOnce`, `RemovedIsSettled` and `BatchStaysRegistered`, for every number of
  objects, callers and failing disposers; a service whose disposer failed may still run,
  and is excepted. Without the hypothesis `AdmissionStopped` is
  false, see Observations. `LifecycleInv` adds that one object of a class is registered,
  that a settled one does not run, and what each step of the shutdown has stopped already.
* `RegistryIsKept` (from no hypothesis): `DisposedOnce`, `RemovedIsSettled`,
  `BatchStaysRegistered` and `TypeOK` also when the signal comes before the services have
  started. `RegistryIsSound` says how the members of a batch relate to the registry and to
  the disposers that run; with `ShutdownIsOrdered`, all the parts of `ClosedLast` are proved.
* `LoginsAreUsedOnce` (from `LimitAssumption` and `ContextAssumption`): `UsedOnce` and
  `RunningIsLimited`, the part of `ExchangesAreLimited` about exchanges under way, for
  every number of clients, states, expiries and restarts. `LoginInv` says what the place
  of a state means: one that was not given out is new, a stored one was not polled, an
  issued one had no exchange and no callback of it is under way. Every change of the store
  removes a state or moves it away from "issued" (`Onward`).

* `LoginRoomCorrect` (`RoomIsAccounted` and `TypeOK`), `ExchangesCorrect`
  (`ExchangesAreLimited`) and the action property `ResultsAreKept` (`ResultIsKeptStep`),
  also from `BoundAssumption`: with `UsedOnce` these are all the parts of `LoginIsUsedOnce`.
  `StoreInv` relates the counters to the states (`Fits`) and each completed state to what
  its callback answered (`Shaped`, `Quiet`). Two counters of starts are compared in
  `WindowInv`: for every cutoff that is still in the window, the pruned lists of the code and the log
  of all exchanges count the same. `PruneKeeps` is the step that matters: what the shift
  loop drops is out of the window, and what it leaves is counted place by place.

### Only model-checked

Liveness and everything that needs fairness, which is out of the prover's reach. Sums and
windows over sequences (the rate windows of the Zupass login, budgets of the outflow modules,
scores) are defined by folds or filters; only the sums over sets in `PrincipalGrants` and the
rate windows of the GitHub login are proved about, by minimal counterexamples. The remaining components:
schema upgrades, wallet, RPC pool, proof of work, passports, stakes, Zupass, IP
information and snapshots.

## Plan

1. Done: every component named in the inventory that keeps state across an `await`,
   each with its faults, properties, mutants, and liveness where something must happen.
2. Done: the safety of claims, admission, sessions, vouchers, database, shutdown and logins
   by GitHub, of the module manager, the bounded lookups and the two verification workers, is
   proved for every instance. Possible next proof: `EthWallet`.
3. Possible extensions: time windows of the recurring limits, notification of claims,
   receipts of the operator tools.

## Not modelled

Formatting, configuration parsing, HTTP and WebSocket framing, static files,
cryptography and hashing, the answers of third-party services, SQL dialects, the captcha
and faucet-balance modules (one stateless check each), status and statistics pages, the
user interface, build scripts and the capture of runtime receipts: pure I/O or without
state that a property relates. Vendored code under `src/libs` is not part of the
program's own logic.
