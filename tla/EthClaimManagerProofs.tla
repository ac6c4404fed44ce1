----------------------- MODULE EthClaimManagerProofs ------------------------
(***************************************************************************)
(* A session is paid by at most one transaction, for every number of       *)
(* sessions, handlers, restarts and database errors, with ordered and with *)
(* unordered replies.  The second part of the module proves that what the  *)
(* rows say about a payout is true, and that the pipeline implements       *)
(* ClaimLedger.  The third proves who holds a claim: reservations, slots,  *)
(* nonces, statistics and the type invariant.                              *)
(*                                                                         *)
(* The argument: once the row of a session holds signed bytes, nothing     *)
(* replaces them.  Every copy of a claim that some task holds, in memory,  *)
(* in an issued call or in a row it has read, is unsigned or carries the   *)
(* bytes of the row.  A claim is signed by the queue only, and while the   *)
(* queue works on a session no other task does.                            *)
(*                                                                         *)
(* The parts of the invariant are predicates of values (a row, a claim, a  *)
(* task), so that what a step leaves alone is carried over by lemmas.      *)
(***************************************************************************)
EXTENDS EthClaimManager, FiniteSetTheorems, SequenceTheorems, TLAPS

-----------------------------------------------------------------------------
(* Shapes, without the bounds that only TLC needs.                         *)

TxRec == [s : Sessions \union {NoSession}, nonce : Nat, sig : Nat]
ClaimRec == [st : ClaimTxStatus \union {"none", "processing"}, idx : Nat, tx : TxRec]
RowRec == [status : {"none", "claimable", "claiming", "finished", "failed"}, claim : ClaimRec]
Places == {"off", "hooks", "create", "loop", "sign", "send", "watch", "retry",
           "cas", "read", "finalize"}
TaskRec == [pc : Places, s : Sessions \union {NoSession}, exp : ClaimRec, new : ClaimRec,
            reply : {"none", "ok", "no", "error"}, row : RowRec, err : BOOLEAN, try : Nat]

Shape ==
  /\ db \in [Sessions -> RowRec]
  /\ claims \in [Sessions -> ClaimRec]
  /\ task \in [Tasks -> TaskRec]
  /\ nonce \in Nat /\ nextIdx \in Nat /\ signed \in Nat
  /\ reserved \subseteq TxRec

-----------------------------------------------------------------------------
(* The parts of the inductive invariant.  D and C stand for db and claims. *)

Signed(c) == c.st \in {"prepared", "pending", "confirmed", "reverted"}

\* A copy c of a claim is unsigned or carries the bytes of the row.
Agrees(row, c) ==
  /\ Signed(c) => Signed(row.claim) /\ c.tx = row.claim.tx
  /\ ~Signed(c) => c.tx = NoTx

\* A signed copy.
Carries(row, c) == Signed(c) /\ Agrees(row, c)

\* A row holds bytes of its own session, and only signed ones.
RowSound(s, row) ==
  /\ Signed(row.claim) => row.claim.tx.s = s
  /\ ~Signed(row.claim) => row.claim.tx = NoTx

\* The claim in memory.
MemorySound(row, c) ==
  /\ Agrees(row, c)
  /\ row.status = "claimable" => c = NoClaim

\* rebroadcastClaim and awaitTxReceipt work on a signed claim.
ReconcilerSound(s, k, D, C) ==
  k.pc # "off" =>
    /\ k.pc \in {"send", "watch", "retry", "cas", "read"}
    /\ k.s = s /\ Signed(C[s])
    /\ k.pc \in {"cas", "read"} => Carries(D[s], k.new)
    /\ k.pc = "read" => k.reply # "no"
    /\ k.pc = "read" /\ k.reply = "ok" => Carries(D[s], k.row.claim)

\* So does completeConfirmedClaim.
CompletionSound(s, k, D, C) ==
  k.pc # "off" =>
    /\ k.pc \in {"hooks", "finalize", "read"}
    /\ k.s = s /\ Signed(C[s])
    /\ k.pc = "read" /\ k.reply = "ok" => Carries(D[s], k.row.claim)

\* The queue works on a claim that is still queued.
QueueSound(k, D, C) ==
  /\ k.pc \in {"off", "loop", "sign", "cas", "read"}
  /\ k.pc \in {"sign", "cas", "read"} => k.s \in Sessions /\ C[k.s].st = "queue"
  /\ k.pc \in {"cas", "read"} =>
       /\ k.exp.st = "queue"
       /\ \/ k.new.st = "prepared" /\ k.new.tx.s = k.s
          \/ k.new.st = "failed" /\ k.new.tx = NoTx
  /\ k.pc = "cas" /\ k.reply = "ok" => Agrees(D[k.s], k.new)
  /\ k.pc = "read" => k.reply # "no"
  /\ k.pc = "read" /\ k.reply = "ok" => Agrees(D[k.s], k.row.claim)

\* The handler has written its claim to the row and not yet to memory.
Wrote(k) == k.pc = "create" /\ k.reply = "ok"

RequestSound(k, D, C) ==
  /\ k.pc \in {"off", "hooks", "create"}
  /\ k.pc # "off" => k.s \in Sessions
  /\ k.pc = "create" => k.new.st = "queue" /\ k.new.tx = NoTx
  /\ Wrote(k) => D[k.s].status # "claimable" /\ C[k.s] = NoClaim

TaskSound(t, k, D, C) ==
  /\ t = Queue => QueueSound(k, D, C)
  /\ \A r \in Requests : t = Request(r) => RequestSound(k, D, C)
  /\ \A s \in Sessions :
       /\ t \in {Broadcast(s), Receipt(s)} => ReconcilerSound(s, k, D, C)
       /\ t = Completion(s) => CompletionSound(s, k, D, C)

RowsSound == \A s \in Sessions : RowSound(s, db[s]) /\ MemorySound(db[s], claims[s])
TasksSound == \A t \in Tasks : TaskSound(t, task[t], db, claims)

\* One handler at most creates the claim of a session.
OneCreator ==
  \A r, q \in Requests :
    /\ Wrote(task[Request(r)]) /\ Wrote(task[Request(q)])
    /\ task[Request(r)].s = task[Request(q)].s
    => r = q

\* The chain executes durable bytes, and a nonce once.
ChainSound ==
  /\ chainNonce \in Nat
  /\ \A x \in pool : x.s \in Sessions /\ db[x.s].claim.tx = x
  /\ \A m \in mined : m.tx \in pool /\ m.tx.nonce \in Nat /\ m.tx.nonce < chainNonce
  /\ \A m, n \in mined : m.tx = n.tx => m = n

\* The inductive invariant.
PayInv == Shape /\ RowsSound /\ TasksSound /\ OneCreator /\ ChainSound

-----------------------------------------------------------------------------
(* Facts about tasks and claims.                                           *)

\* Pairs with different first or second components differ.
LEMMA Pairs == \A a, b, c, d : <<a, b>> = <<c, d>> => a = c /\ b = d
OBVIOUS

\* Every operation has its task.
LEMMA AreTasks ==
  /\ Queue \in Tasks
  /\ \A r \in Requests : Request(r) \in Tasks
  /\ \A s \in Sessions : Broadcast(s) \in Tasks /\ Receipt(s) \in Tasks /\ Completion(s) \in Tasks
BY DEF Queue, Request, Broadcast, Receipt, Completion, Tasks, Transitioners, Reconcilers

\* Tasks of different kinds differ.
LEMMA KindsDiffer ==
  /\ \A r \in Requests : Request(r) # Queue
  /\ \A s \in Sessions :
       /\ Broadcast(s) # Queue /\ Receipt(s) # Queue /\ Completion(s) # Queue
       /\ \A r \in Requests : Broadcast(s) # Request(r) /\ Receipt(s) # Request(r)
                               /\ Completion(s) # Request(r)
       /\ \A u \in Sessions :
            /\ Broadcast(s) # Receipt(u) /\ Broadcast(s) # Completion(u)
            /\ Receipt(s) # Completion(u)
BY DEF Queue, Request, Broadcast, Receipt, Completion

\* Tasks of one kind differ in their session or handler.
LEMMA TasksDiffer ==
  /\ \A s, u \in Sessions :
       /\ Broadcast(s) = Broadcast(u) => s = u
       /\ Receipt(s) = Receipt(u) => s = u
       /\ Completion(s) = Completion(u) => s = u
  /\ \A r, q \in Requests : Request(r) = Request(q) => r = q
BY Pairs DEF Request, Broadcast, Receipt, Completion

\* Every task is of one kind.
LEMMA TaskKinds ==
  \A t \in Tasks : \/ t = Queue
                   \/ \E r \in Requests : t = Request(r)
                   \/ \E s \in Sessions : t \in {Broadcast(s), Receipt(s), Completion(s)}
BY DEF Tasks, Transitioners, Reconcilers

\* The tasks that call transitionClaim.
LEMMA TransitionerKinds ==
  \A t \in Transitioners :
    t \in Tasks /\ (t = Queue \/ \E s \in Sessions : t \in {Broadcast(s), Receipt(s)})
BY DEF Tasks, Transitioners, Reconcilers

\* The constant records have their shapes.
LEMMA Constants ==
  /\ NoTx \in TxRec /\ NoTx.s = NoSession
  /\ NoClaim \in ClaimRec /\ ~Signed(NoClaim) /\ NoClaim.tx = NoTx /\ NoClaim.st = "none"
  /\ Off \in TaskRec /\ Off.pc = "off"
  /\ \A s \in Sessions \union {NoSession} : \A p \in Places :
       At(p, s) \in TaskRec /\ At(p, s).pc = p /\ At(p, s).s = s /\ At(p, s).reply = "none"
BY DEF NoTx, TxRec, NoClaim, ClaimRec, NoRow, RowRec, Off, At, TaskRec, Signed, Places,
       ClaimTxStatus

\* A compare-and-set call.
LEMMA CasCallShape ==
  ASSUME NEW s \in Sessions, NEW c \in ClaimRec, NEW d \in ClaimRec
  PROVE  /\ CasCall(s, c, d) \in TaskRec
         /\ CasCall(s, c, d).pc = "cas" /\ CasCall(s, c, d).s = s /\ CasCall(s, c, d).reply = "none"
         /\ CasCall(s, c, d).exp = c /\ CasCall(s, c, d).new = d
<1> DEFINE a == At("cas", s)
<1>1. a \in TaskRec /\ a.pc = "cas" /\ a.s = s /\ a.reply = "none" BY Constants DEF Places
<1>2. CasCall(s, c, d) = [a EXCEPT !.exp = c, !.new = d] BY DEF CasCall
<1> HIDE DEF a
<1> QED BY <1>1, <1>2 DEF TaskRec

\* A changed status or new bytes.
LEMMA ClaimShape ==
  ASSUME NEW c \in ClaimRec
  PROVE  /\ \A st \in ClaimTxStatus :
              WithStatus(c, st) \in ClaimRec /\ WithStatus(c, st).st = st /\ WithStatus(c, st).tx = c.tx
         /\ \A x \in TxRec :
              WithTx(c, x) \in ClaimRec /\ WithTx(c, x).st = "prepared" /\ WithTx(c, x).tx = x
BY DEF ClaimRec, WithStatus, WithTx, ClaimTxStatus

-----------------------------------------------------------------------------
(* What a step leaves alone.                                               *)

\* A row keeps its signed bytes and never becomes claimable again.
Grows(row, row2) ==
  /\ Signed(row.claim) => Signed(row2.claim) /\ row2.claim.tx = row.claim.tx
  /\ row.status # "claimable" => row2.status # "claimable"

\* Copies of claims stay sound while the row grows.
LEMMA AgreesKept ==
  ASSUME NEW row, NEW row2, NEW c, Grows(row, row2)
  PROVE  /\ Agrees(row, c) => Agrees(row2, c)
         /\ Carries(row, c) => Carries(row2, c)
BY DEF Grows, Agrees, Carries

\* A task stays sound while rows grow, signed claims stay signed and nobody
\* else changes the claim the queue or a creating handler works on.
LEMMA TaskKept ==
  ASSUME NEW D, NEW D2, NEW C, NEW C2, NEW t, NEW k,
         \A s \in Sessions : Grows(D[s], D2[s]),
         \A s \in Sessions : Signed(C[s]) => Signed(C2[s]),
         t = Queue /\ k.pc \in {"sign", "cas", "read"} /\ C[k.s].st = "queue" => C2[k.s].st = "queue",
         (\E r \in Requests : t = Request(r)) /\ Wrote(k) /\ C[k.s] = NoClaim => C2[k.s] = NoClaim,
         TaskSound(t, k, D, C)
  PROVE  TaskSound(t, k, D2, C2)
<1>1. t = Queue => QueueSound(k, D2, C2)
  BY AgreesKept DEF TaskSound, QueueSound
<1>2. ASSUME NEW r \in Requests, t = Request(r) PROVE RequestSound(k, D2, C2)
  <2>1. RequestSound(k, D, C) BY <1>2 DEF TaskSound
  <2> QED BY <1>2, <2>1 DEF RequestSound, Grows, Wrote
<1>3. ASSUME NEW s \in Sessions, t \in {Broadcast(s), Receipt(s)} PROVE ReconcilerSound(s, k, D2, C2)
  <2>1. ReconcilerSound(s, k, D, C) BY <1>3 DEF TaskSound
  <2> QED BY <2>1, AgreesKept DEF ReconcilerSound
<1>4. ASSUME NEW s \in Sessions, t = Completion(s) PROVE CompletionSound(s, k, D2, C2)
  <2>1. CompletionSound(s, k, D, C) BY <1>4 DEF TaskSound
  <2> QED BY <2>1, AgreesKept DEF CompletionSound
<1> QED BY <1>1, <1>2, <1>3, <1>4 DEF TaskSound

\* Nothing in the pool is disturbed while rows grow.
LEMMA ChainKept ==
  ASSUME RowsSound, ChainSound, NoSession \notin Sessions,
         \A s \in Sessions : Grows(db[s], db'[s]),
         UNCHANGED <<pool, mined, chainNonce>>
  PROVE  ChainSound'
<1>1. ASSUME NEW x \in pool PROVE x.s \in Sessions /\ db'[x.s].claim.tx = x
  <2>1. x.s \in Sessions /\ db[x.s].claim.tx = x BY DEF ChainSound
  <2>2. Signed(db[x.s].claim)
    <3>1. x # NoTx BY <2>1, Constants
    <3> QED BY <2>1, <3>1 DEF RowsSound, RowSound
  <2> QED BY <2>1, <2>2 DEF Grows
<1> QED BY <1>1 DEF ChainSound

\* What has to be shown of a task of each kind.
LEMMA KindSound ==
  ASSUME NEW k, NEW D, NEW C
  PROVE  /\ TaskSound(Queue, k, D, C) <=> QueueSound(k, D, C)
         /\ \A r \in Requests : TaskSound(Request(r), k, D, C) <=> RequestSound(k, D, C)
         /\ \A s \in Sessions :
              /\ TaskSound(Broadcast(s), k, D, C) <=> ReconcilerSound(s, k, D, C)
              /\ TaskSound(Receipt(s), k, D, C) <=> ReconcilerSound(s, k, D, C)
              /\ TaskSound(Completion(s), k, D, C) <=> CompletionSound(s, k, D, C)
<1>1. TaskSound(Queue, k, D, C) <=> QueueSound(k, D, C) BY KindsDiffer DEF TaskSound
<1>2. ASSUME NEW r \in Requests PROVE TaskSound(Request(r), k, D, C) <=> RequestSound(k, D, C)
  BY KindsDiffer DEF TaskSound
<1>3. ASSUME NEW s \in Sessions PROVE TaskSound(Broadcast(s), k, D, C) <=> ReconcilerSound(s, k, D, C)
  BY KindsDiffer, TasksDiffer DEF TaskSound
<1>4. ASSUME NEW s \in Sessions PROVE TaskSound(Receipt(s), k, D, C) <=> ReconcilerSound(s, k, D, C)
  BY KindsDiffer, TasksDiffer DEF TaskSound
<1>5. ASSUME NEW s \in Sessions PROVE TaskSound(Completion(s), k, D, C) <=> CompletionSound(s, k, D, C)
  BY KindsDiffer, TasksDiffer DEF TaskSound
<1> QED BY <1>1, <1>2, <1>3, <1>4, <1>5

IsRequest(t) == \E r \in Requests : t = Request(r)

\* A step of tasks that leaves rows and claims alone.
LEMMA TaskStep ==
  ASSUME PayInv, Shape', UNCHANGED <<db, claims>>, ChainSound',
         \A t \in Tasks : \/ task'[t] = task[t]
                          \/ /\ TaskSound(t, task'[t], db, claims)
                             /\ IsRequest(t) => ~Wrote(task'[t])
  PROVE  PayInv'
<1>1. RowsSound' BY DEF PayInv, RowsSound
<1>2. TasksSound' BY DEF PayInv, TasksSound
<1>3. OneCreator' BY AreTasks DEF PayInv, OneCreator, IsRequest
<1> QED BY <1>1, <1>2, <1>3 DEF PayInv

\* A step that changes the claim of session a in memory.
LEMMA ClaimStep ==
  ASSUME PayInv, Shape', UNCHANGED db, ChainSound',
         NEW a \in Sessions, NEW c, claims' = [claims EXCEPT ![a] = c],
         MemorySound(db[a], c),
         Signed(claims[a]) => Signed(c),
         \A t \in Tasks :
           \/ /\ task'[t] = task[t]
              /\ t = Queue /\ claims[a].st = "queue" => c.st = "queue"
              /\ IsRequest(t) /\ Wrote(task[t]) => task[t].s # a
           \/ /\ TaskSound(t, task'[t], db, claims')
              /\ IsRequest(t) => ~Wrote(task'[t])
  PROVE  PayInv'
<1>1. claims'[a] = c /\ \A s \in Sessions : s # a => claims'[s] = claims[s] BY DEF PayInv, Shape
<1>2. RowsSound' BY <1>1 DEF PayInv, RowsSound
<1>3. ASSUME NEW t \in Tasks PROVE TaskSound(t, task'[t], db, claims')
  <2>1. CASE TaskSound(t, task'[t], db, claims') BY <2>1
  <2>2. CASE /\ task'[t] = task[t]
             /\ t = Queue /\ claims[a].st = "queue" => c.st = "queue"
             /\ IsRequest(t) /\ Wrote(task[t]) => task[t].s # a
    <3> DEFINE k == task[t]
    <3>1. TaskSound(t, k, db, claims) BY DEF PayInv, TasksSound
    <3>2. \A s \in Sessions : Grows(db[s], db[s]) BY DEF Grows
    <3>3. \A s \in Sessions : Signed(claims[s]) => Signed(claims'[s]) BY <1>1
    <3>4. t = Queue /\ k.pc \in {"sign", "cas", "read"} /\ claims[k.s].st = "queue"
            => claims'[k.s].st = "queue"
      BY <1>1, <2>2, <3>1 DEF TaskSound, QueueSound
    <3>5. (\E r \in Requests : t = Request(r)) /\ Wrote(k) /\ claims[k.s] = NoClaim
            => claims'[k.s] = NoClaim
      BY <1>1, <2>2, <3>1 DEF TaskSound, RequestSound, IsRequest, Wrote
    <3> HIDE DEF k
    <3>6. TaskSound(t, k, db, claims') BY <3>1, <3>2, <3>3, <3>4, <3>5, TaskKept
    <3> QED BY <2>2, <3>6 DEF k
  <2> QED BY <2>1, <2>2
<1>4. TasksSound' BY <1>3 DEF TasksSound
<1>5. OneCreator' BY AreTasks DEF PayInv, OneCreator, IsRequest
<1> QED BY <1>2, <1>4, <1>5 DEF PayInv

\* A chain that is not touched stays sound.
LEMMA ChainSame ==
  ASSUME ChainSound, UNCHANGED <<db, pool, mined, chainNonce>>
  PROVE  ChainSound'
BY DEF ChainSound

-----------------------------------------------------------------------------
(* The initial state.                                                      *)

\* The faucet starts with claimable and legacy rows and nothing in memory.
LEMMA InitSound == Init => PayInv
<1> SUFFICES ASSUME Init PROVE PayInv OBVIOUS
<1> USE DEF Init
<1>1. \A s \in Sessions :
        /\ db[s] \in RowRec /\ ~Signed(db[s].claim) /\ db[s].claim.tx = NoTx
        /\ claims[s] = NoClaim
  <2> SUFFICES ASSUME NEW s \in Sessions
               PROVE db[s] \in RowRec /\ ~Signed(db[s].claim) /\ db[s].claim.tx = NoTx
    OBVIOUS
  <2>1. CASE s \in Legacy
    BY <2>1, Constants DEF RowRec, Signed, ClaimRec, NoClaim
  <2>2. CASE s \notin Legacy
    BY <2>2, Constants DEF RowRec
  <2> QED BY <2>1, <2>2
<1>2. Shape
  <2>1. db \in [Sessions -> RowRec] BY <1>1
  <2>2. claims \in [Sessions -> ClaimRec] BY Constants
  <2>3. task \in [Tasks -> TaskRec] BY Constants
  <2> QED BY <2>1, <2>2, <2>3 DEF Shape
<1>3. RowsSound BY <1>1, Constants DEF RowsSound, RowSound, MemorySound, Agrees
<1>4. TasksSound
  <2> SUFFICES ASSUME NEW t \in Tasks PROVE TaskSound(t, task[t], db, claims) BY DEF TasksSound
  <2>1. task[t].pc = "off" BY Constants
  <2> QED BY <2>1 DEF TaskSound, QueueSound, RequestSound, ReconcilerSound, CompletionSound, Wrote
<1>5. OneCreator BY Constants, AreTasks DEF OneCreator, Wrote
<1>6. ChainSound BY DEF ChainSound
<1> QED BY <1>2, <1>3, <1>4, <1>5, <1>6 DEF PayInv

-----------------------------------------------------------------------------
(* Steps of the database.                                                  *)

\* A step that writes row2 to session a and changes task t to k.
LEMMA RowStep ==
  ASSUME PayInv, ClaimAssumption,
         UNCHANGED <<claims, pool, mined, chainNonce, nonce, nextIdx, signed, reserved>>,
         NEW a \in Sessions, NEW row2 \in RowRec, db' = [db EXCEPT ![a] = row2],
         Grows(db[a], row2), RowSound(a, row2), MemorySound(row2, claims[a]),
         NEW t \in Tasks, NEW k \in TaskRec, task' = [task EXCEPT ![t] = k],
         TaskSound(t, k, db', claims),
         IsRequest(t) /\ Wrote(k) =>
           \A u \in Tasks : IsRequest(u) /\ Wrote(task[u]) => task[u].s # k.s
  PROVE  PayInv'
<1> USE DEF PayInv
<1>1. db'[a] = row2 /\ \A s \in Sessions : s # a => db'[s] = db[s] BY DEF Shape
<1>2. task'[t] = k /\ \A u \in Tasks : u # t => task'[u] = task[u] BY DEF Shape
<1>3. \A s \in Sessions : Grows(db[s], db'[s]) BY <1>1 DEF Grows
<1>4. Shape' BY DEF Shape
<1>5. RowsSound' BY <1>1 DEF RowsSound
<1>6. ASSUME NEW u \in Tasks PROVE TaskSound(u, task'[u], db', claims')
  <2>1. CASE u = t BY <1>2, <2>1
  <2>2. CASE u # t
    <3> DEFINE j == task[u]
    <3>1. TaskSound(u, j, db, claims) BY DEF TasksSound
    <3> HIDE DEF j
    <3>2. TaskSound(u, j, db', claims) BY <3>1, <1>3, TaskKept
    <3> QED BY <1>2, <2>2, <3>2 DEF j
  <2> QED BY <2>1, <2>2
<1>7. TasksSound' BY <1>6 DEF TasksSound
<1>8. OneCreator' BY <1>2, AreTasks, TasksDiffer DEF OneCreator, IsRequest
<1>9. ChainSound' BY <1>3, ChainKept DEF ClaimAssumption
<1> QED BY <1>4, <1>5, <1>7, <1>8, <1>9

\* A reply changes nothing else of a task.
LEMMA AnswerShape ==
  ASSUME NEW k \in TaskRec, NEW x \in {"none", "ok", "no", "error"}
  PROVE  LET j == [k EXCEPT !.reply = x]
         IN /\ j \in TaskRec /\ j.reply = x
            /\ j.pc = k.pc /\ j.s = k.s /\ j.exp = k.exp /\ j.new = k.new /\ j.row = k.row
BY DEF TaskRec

\* A refusal or an error leaves a task sound.
LEMMA RefusedSound ==
  ASSUME NEW t, NEW k \in TaskRec, NEW x \in {"no", "error"}, NEW D, NEW C,
         x = "no" => k.pc # "read", TaskSound(t, k, D, C)
  PROVE  TaskSound(t, [k EXCEPT !.reply = x], D, C)
<1> DEFINE j == [k EXCEPT !.reply = x]
<1>1. /\ j.reply = x /\ x # "ok" /\ j.pc = k.pc /\ j.s = k.s /\ j.exp = k.exp /\ j.new = k.new
      /\ j.row = k.row
  BY AnswerShape
<1> HIDE DEF j
<1>2. TaskSound(t, j, D, C)
  BY <1>1 DEF TaskSound, QueueSound, RequestSound, ReconcilerSound, CompletionSound, Wrote
<1> QED BY <1>2 DEF j

\* An UPDATE keeps the invariant when the row it writes and the task that
\* receives its acknowledgement are sound.
LEMMA UpdateSound ==
  ASSUME PayInv, ClaimAssumption, NEW t \in Tasks, NEW hit \in BOOLEAN, NEW row2,
         task[t].s \in Sessions, task[t].pc # "read", Update(t, hit, row2), DbFrame,
         hit => /\ row2 \in RowRec /\ Grows(db[task[t].s], row2)
                /\ RowSound(task[t].s, row2) /\ MemorySound(row2, claims[task[t].s])
                /\ TaskSound(t, [task[t] EXCEPT !.reply = "ok"],
                             [db EXCEPT ![task[t].s] = row2], claims)
                /\ IsRequest(t) => \A u \in Tasks : IsRequest(u) /\ Wrote(task[u]) => task[u].s # task[t].s
  PROVE  PayInv'
<1> DEFINE k == task[t]
           a == task[t].s
<1>1. k \in TaskRec /\ a \in Sessions /\ db \in [Sessions -> RowRec] /\ task \in [Tasks -> TaskRec]
  BY DEF PayInv, Shape
<1>2. UNCHANGED <<claims, pool, mined, chainNonce, nonce, nextIdx, signed, reserved>>
  BY DEF DbFrame, memory, wallet
<1>3. TaskSound(t, k, db, claims) BY DEF PayInv, TasksSound
<1>4. PICK x \in {"ok", "no", "error"} :
        /\ task' = [task EXCEPT ![t] = [k EXCEPT !.reply = x]]
        /\ x = "ok" => hit /\ db' = [db EXCEPT ![a] = row2]
        /\ db' = db \/ (hit /\ db' = [db EXCEPT ![a] = row2])
  BY <1>1 DEF Update, Answer
<1> DEFINE j == [k EXCEPT !.reply = x]
<1>5. j \in TaskRec /\ j.reply = x /\ j.pc = k.pc /\ j.s = k.s
  <2>1. x \in {"none", "ok", "no", "error"} BY <1>4
  <2> HIDE DEF k
  <2> QED BY <1>1, <2>1, AnswerShape DEF TaskRec
<1>6. PICK row3 \in RowRec :
        /\ db' = [db EXCEPT ![a] = row3]
        /\ row3 = db[a] \/ (hit /\ row3 = row2)
        /\ x = "ok" => hit /\ row3 = row2
  <2>1. CASE hit /\ db' = [db EXCEPT ![a] = row2] BY <2>1, <1>4
  <2>2. CASE x # "ok" /\ db' = db
    <3>1. db' = [db EXCEPT ![a] = db[a]] /\ db[a] \in RowRec BY <1>1, <2>2
    <3> QED BY <2>2, <3>1
  <2> QED BY <1>4, <2>1, <2>2
<1>7. Grows(db[a], row3) /\ RowSound(a, row3) /\ MemorySound(row3, claims[a])
  BY <1>1, <1>6 DEF PayInv, RowsSound, Grows
<1>8. TaskSound(t, j, db', claims)
  <2>1. CASE x = "ok" BY <2>1, <1>6
  <2>2. CASE x # "ok"
    <3>1. TaskSound(t, j, db, claims) BY <2>2, <1>1, <1>3, <1>4, RefusedSound
    <3>2. \A s \in Sessions : Grows(db[s], db'[s]) BY <1>1, <1>6, <1>7 DEF Grows
    <3> HIDE DEF j
    <3> QED BY <3>1, <3>2, TaskKept
  <2> QED BY <2>1, <2>2
<1>9. IsRequest(t) /\ Wrote(j) =>
           \A u \in Tasks : IsRequest(u) /\ Wrote(task[u]) => task[u].s # j.s
  BY <1>4, <1>5 DEF Wrote
<1> HIDE DEF j, a
<1>10. task' = [task EXCEPT ![t] = j] BY <1>4 DEF j
<1> QED BY <1>1, <1>2, <1>5, <1>6, <1>7, <1>8, <1>9, <1>10, RowStep

\* The kind of a task, by the call it has issued.
LEMMA CallerKinds ==
  ASSUME NEW t \in Tasks, NEW k, NEW D, NEW C, TaskSound(t, k, D, C)
  PROVE  /\ k.pc = "create" => IsRequest(t) /\ RequestSound(k, D, C)
         /\ k.pc = "cas" => \/ t = Queue /\ QueueSound(k, D, C)
                            \/ \E s \in Sessions : /\ t \in {Broadcast(s), Receipt(s)}
                                                   /\ ReconcilerSound(s, k, D, C)
         /\ k.pc = "finalize" => \E s \in Sessions : t = Completion(s) /\ CompletionSound(s, k, D, C)
         /\ k.pc = "read" => \/ t = Queue /\ QueueSound(k, D, C)
                             \/ \E s \in Sessions : /\ t \in {Broadcast(s), Receipt(s)}
                                                    /\ ReconcilerSound(s, k, D, C)
                             \/ \E s \in Sessions : t = Completion(s) /\ CompletionSound(s, k, D, C)
<1>1. CASE t = Queue
  <2>1. QueueSound(k, D, C) BY <1>1 DEF TaskSound
  <2>2. k.pc # "create" /\ k.pc # "finalize" BY <2>1 DEF QueueSound
  <2> QED BY <1>1, <2>1, <2>2
<1>2. CASE \E r \in Requests : t = Request(r)
  <2>1. RequestSound(k, D, C) BY <1>2 DEF TaskSound
  <2>2. k.pc \notin {"cas", "finalize", "read"} BY <2>1 DEF RequestSound
  <2> QED BY <1>2, <2>1, <2>2 DEF IsRequest
<1>3. ASSUME NEW s \in Sessions, t \in {Broadcast(s), Receipt(s)}
      PROVE  ReconcilerSound(s, k, D, C) /\ k.pc # "create" /\ k.pc # "finalize"
  BY <1>3 DEF TaskSound, ReconcilerSound
<1>4. ASSUME NEW s \in Sessions, t = Completion(s)
      PROVE  CompletionSound(s, k, D, C) /\ k.pc # "create" /\ k.pc # "cas"
  BY <1>4 DEF TaskSound, CompletionSound
<1>5. CASE \E s \in Sessions : t \in {Broadcast(s), Receipt(s)} BY <1>3, <1>5
<1>6. CASE \E s \in Sessions : t = Completion(s) BY <1>4, <1>6
<1> QED BY <1>1, <1>2, <1>5, <1>6, TaskKinds

\* tryCreateClaim: the row was claimable, so that no claim exists in memory
\* and no other handler has written one.
LEMMA TryCreateClaimSound ==
  ASSUME PayInv, ClaimAssumption, NEW t \in Tasks, TryCreateClaim(t)
  PROVE  PayInv'
<1> DEFINE k == task[t]
           a == k.s
           row2 == [status |-> "claiming", claim |-> k.new]
           hit == db[a].status = "claimable" /\ db[a].claim = NoClaim
           j == [k EXCEPT !.reply = "ok"]
           D == [db EXCEPT ![a] = row2]
<1>1. TaskSound(t, k, db, claims) /\ k \in TaskRec /\ db \in [Sessions -> RowRec]
  BY DEF PayInv, TasksSound, Shape
<1>2. k.pc = "create" /\ Update(t, hit, row2) /\ DbFrame BY DEF TryCreateClaim, Turn
<1>3. IsRequest(t) /\ RequestSound(k, db, claims) BY <1>1, <1>2, CallerKinds
<1>4. a \in Sessions /\ k.new.st = "queue" /\ k.new.tx = NoTx BY <1>2, <1>3 DEF RequestSound
<1>5. ASSUME hit
      PROVE  /\ row2 \in RowRec /\ Grows(db[a], row2)
             /\ RowSound(a, row2) /\ MemorySound(row2, claims[a])
             /\ TaskSound(t, j, D, claims)
             /\ IsRequest(t) => \A u \in Tasks : IsRequest(u) /\ Wrote(task[u]) => task[u].s # a
  <2>1. row2 \in RowRec BY <1>1 DEF RowRec, TaskRec
  <2>2. ~Signed(k.new) /\ ~Signed(db[a].claim) BY <1>4, <1>5, Constants DEF Signed
  <2>3. Grows(db[a], row2) BY <2>2 DEF Grows
  <2>4. RowSound(a, row2) BY <2>2, <1>4 DEF RowSound
  <2>5. claims[a] = NoClaim BY <1>4, <1>5 DEF PayInv, RowsSound, MemorySound
  <2>6. MemorySound(row2, claims[a]) BY <2>5, Constants DEF MemorySound, Agrees
  <2>7. j.pc = k.pc /\ j.s = k.s /\ j.new = k.new BY <1>1, AnswerShape
  <2>8. D[a].status = "claiming" BY <1>1, <1>4
  <2>9. RequestSound(j, D, claims) BY <2>5, <2>7, <2>8, <1>2, <1>4 DEF RequestSound
  <2>10. TaskSound(t, j, D, claims) BY <1>3, <2>9, KindSound DEF IsRequest
  <2>11. ASSUME NEW u \in Tasks, IsRequest(u), Wrote(task[u]) PROVE task[u].s # a
    <3>1. RequestSound(task[u], db, claims) BY <2>11 DEF PayInv, TasksSound, TaskSound, IsRequest
    <3> QED BY <1>5, <2>11, <3>1 DEF RequestSound
  <2> QED BY <2>1, <2>3, <2>4, <2>6, <2>10, <2>11
<1> HIDE DEF row2, hit
<1>6. hit \in BOOLEAN BY DEF hit
<1> QED BY <1>2, <1>4, <1>5, <1>6, UpdateSound

\* compareAndSetClaim: the queue replaces an unsigned claim, the other tasks
\* a signed one by another status of the same bytes.
LEMMA CompareAndSetClaimSound ==
  ASSUME PayInv, ClaimAssumption, NEW t \in Tasks, CompareAndSetClaim(t)
  PROVE  PayInv'
<1> DEFINE k == task[t]
           a == k.s
           to == IF k.new.st \in {"reverted", "failed"} THEN "failed" ELSE "claiming"
           row2 == [status |-> to, claim |-> k.new]
           hit == db[a].status = "claiming" /\ db[a].claim = k.exp
           j == [k EXCEPT !.reply = "ok"]
           D == [db EXCEPT ![a] = row2]
<1>1. TaskSound(t, k, db, claims) /\ k \in TaskRec /\ db \in [Sessions -> RowRec]
  BY DEF PayInv, TasksSound, Shape
<1>2. k.pc = "cas" /\ Update(t, hit, row2) /\ DbFrame BY DEF CompareAndSetClaim, Turn
<1>3. row2 \in RowRec BY <1>1 DEF RowRec, TaskRec
<1>4. j.pc = k.pc /\ j.s = k.s /\ j.new = k.new /\ j.exp = k.exp BY <1>1, AnswerShape
<1>5. ~IsRequest(t)
  <2>1. ASSUME IsRequest(t) PROVE RequestSound(k, db, claims) BY <1>1, <2>1 DEF TaskSound, IsRequest
  <2> QED BY <2>1, <1>2 DEF RequestSound
<1>6. hit \in BOOLEAN OBVIOUS
<1>7. CASE t = Queue
  <2>1. QueueSound(k, db, claims) BY <1>1, <1>7 DEF TaskSound
  <2>2. /\ a \in Sessions /\ claims[a].st = "queue" /\ k.exp.st = "queue"
        /\ \/ k.new.st = "prepared" /\ k.new.tx.s = a
           \/ k.new.st = "failed" /\ k.new.tx = NoTx
    BY <1>2, <2>1 DEF QueueSound
  <2>3. ASSUME hit
        PROVE  /\ Grows(db[a], row2) /\ RowSound(a, row2) /\ MemorySound(row2, claims[a])
               /\ TaskSound(t, j, D, claims)
    <3>1. ~Signed(db[a].claim) BY <2>2, <2>3 DEF Signed
    <3>2. Grows(db[a], row2) BY <3>1, <2>2 DEF Grows
    <3>3. RowSound(a, row2) BY <2>2 DEF RowSound, Signed
    <3>4. MemorySound(row2, claims[a])
      BY <2>2 DEF MemorySound, PayInv, RowsSound, Agrees, Signed
    <3>5. Agrees(D[a], k.new) BY <1>1, <2>2 DEF Agrees, Signed
    <3>6. QueueSound(j, D, claims) BY <1>2, <1>4, <2>1, <3>5 DEF QueueSound
    <3> QED BY <1>7, <3>2, <3>3, <3>4, <3>6, KindSound
  <2> HIDE DEF row2, hit
  <2> QED BY <1>2, <1>3, <1>5, <1>6, <2>2, <2>3, UpdateSound
<1>8. ASSUME NEW s \in Sessions, t \in {Broadcast(s), Receipt(s)} PROVE PayInv'
  <2>1. ReconcilerSound(s, k, db, claims) BY <1>1, <1>8 DEF TaskSound
  <2>2. a = s /\ Signed(claims[s]) /\ Carries(db[s], k.new) BY <1>2, <2>1 DEF ReconcilerSound
  <2>3. ASSUME hit
        PROVE  /\ Grows(db[a], row2) /\ RowSound(a, row2) /\ MemorySound(row2, claims[a])
               /\ TaskSound(t, j, D, claims)
    <3>1. Grows(db[a], row2) BY <2>2 DEF Grows, Carries, Agrees
    <3>2. RowSound(a, row2) BY <2>2 DEF RowSound, Carries, Agrees, PayInv, RowsSound
    <3>3. Agrees(row2, claims[a]) BY <2>2, <3>1, AgreesKept DEF PayInv, RowsSound, MemorySound
    <3>4. MemorySound(row2, claims[a]) BY <3>3 DEF MemorySound
    <3>5. Carries(D[s], j.new) BY <1>1, <1>4, <2>2 DEF Carries, Agrees
    <3>6. ReconcilerSound(s, j, D, claims) BY <1>2, <1>4, <2>2, <3>5 DEF ReconcilerSound
    <3>7. TaskSound(t, j, D, claims)
      <4> HIDE DEF j, D
      <4> QED BY <1>8, <3>6, KindSound
    <3> QED BY <3>1, <3>2, <3>4, <3>7
  <2> HIDE DEF row2, hit
  <2> QED BY <1>2, <1>3, <1>5, <1>6, <2>2, <2>3, UpdateSound
<1>9. t = Queue \/ \E s \in Sessions : t \in {Broadcast(s), Receipt(s)} BY <1>1, <1>2, CallerKinds
<1> QED BY <1>7, <1>8, <1>9

\* finalizeConfirmedRow only changes the status.
LEMMA FinalizeConfirmedRowSound ==
  ASSUME PayInv, ClaimAssumption, NEW t \in Tasks, FinalizeConfirmedRow(t)
  PROVE  PayInv'
<1> DEFINE k == task[t]
           a == k.s
           row2 == [db[a] EXCEPT !.status = "finished"]
           hit == db[a].status = "claiming" /\ db[a].claim = k.exp
           j == [k EXCEPT !.reply = "ok"]
           D == [db EXCEPT ![a] = row2]
<1>1. TaskSound(t, k, db, claims) /\ k \in TaskRec /\ db \in [Sessions -> RowRec]
  BY DEF PayInv, TasksSound, Shape
<1>2. k.pc = "finalize" /\ Update(t, hit, row2) /\ DbFrame BY DEF FinalizeConfirmedRow, Turn
<1>3. PICK s \in Sessions : t = Completion(s) /\ CompletionSound(s, k, db, claims)
  BY <1>1, <1>2, CallerKinds
<1>4. a = s /\ Signed(claims[s]) BY <1>2, <1>3 DEF CompletionSound
<1>5. row2 \in RowRec /\ row2.claim = db[a].claim /\ row2.status = "finished"
  BY <1>1, <1>4 DEF RowRec
<1>6. hit \in BOOLEAN OBVIOUS
<1>7. Grows(db[a], row2) /\ RowSound(a, row2) /\ MemorySound(row2, claims[a])
  BY <1>4, <1>5 DEF Grows, RowSound, MemorySound, Agrees, PayInv, RowsSound
<1>8. TaskSound(t, j, D, claims)
  <2>1. j.pc = k.pc /\ j.s = k.s BY <1>1, AnswerShape
  <2>2. CompletionSound(s, j, D, claims) BY <1>2, <1>4, <2>1 DEF CompletionSound
  <2> QED BY <1>3, <2>2, KindSound
<1>9. ~IsRequest(t) BY <1>3, KindsDiffer DEF IsRequest
<1> HIDE DEF row2, hit
<1> QED BY <1>2, <1>4, <1>5, <1>6, <1>7, <1>8, <1>9, UpdateSound

\* A step of one task that leaves rows and claims alone.
LEMMA OneTaskStep ==
  ASSUME PayInv, UNCHANGED <<db, claims>>, ChainSound',
         nonce' \in Nat, nextIdx' \in Nat, signed' \in Nat, reserved' \subseteq TxRec,
         NEW t \in Tasks, NEW k \in TaskRec, task' = [task EXCEPT ![t] = k],
         TaskSound(t, k, db, claims), ~Wrote(k)
  PROVE  PayInv'
<1>1. Shape' BY DEF PayInv, Shape
<1>2. ASSUME NEW u \in Tasks
      PROVE  task'[u] = task[u] \/ (TaskSound(u, task'[u], db, claims) /\ ~Wrote(task'[u]))
  BY DEF PayInv, Shape
<1> QED BY <1>1, <1>2, TaskStep

\* getSession: the task holds a copy of the row.
LEMMA GetSessionSound ==
  ASSUME PayInv, NEW t \in Tasks, GetSession(t)
  PROVE  PayInv'
<1> DEFINE k == task[t]
           a == k.s
<1>1. TaskSound(t, k, db, claims) /\ k \in TaskRec /\ task \in [Tasks -> TaskRec]
      /\ db \in [Sessions -> RowRec]
  BY DEF PayInv, TasksSound, Shape
<1>2. k.pc = "read" /\ UNCHANGED <<db, claims, pool, mined, chainNonce, nonce, nextIdx, signed, reserved>>
  BY DEF GetSession, Turn, DbFrame, memory, wallet
<1>3. ChainSound' BY <1>2, ChainSame DEF PayInv
<1>4. /\ nonce' \in Nat /\ nextIdx' \in Nat /\ signed' \in Nat /\ reserved' \subseteq TxRec
  BY <1>2 DEF PayInv, Shape
<1>5. CASE task' = [task EXCEPT ![t] = [k EXCEPT !.reply = "error"]]
  <2> DEFINE j == [k EXCEPT !.reply = "error"]
  <2>1. j \in TaskRec /\ j.pc = "read" /\ TaskSound(t, j, db, claims)
    BY <1>1, <1>2, AnswerShape, RefusedSound
  <2> HIDE DEF j
  <2>2. task' = [task EXCEPT ![t] = j] BY <1>5 DEF j
  <2> QED BY <1>2, <1>3, <1>4, <2>1, <2>2, OneTaskStep DEF Wrote
<1>6. CASE task' = [task EXCEPT ![t] = [k EXCEPT !.reply = "ok", !.row = db[a]]]
  <2> DEFINE j == [k EXCEPT !.reply = "ok", !.row = db[a]]
  <2>1. a \in Sessions
    BY <1>1, <1>2, CallerKinds DEF QueueSound, ReconcilerSound, CompletionSound
  <2>2. db[a] \in RowRec BY <1>1, <2>1
  <2>3. /\ j \in TaskRec /\ j.pc = k.pc /\ j.s = k.s /\ j.exp = k.exp /\ j.new = k.new
        /\ j.row = db[a] /\ j.reply = "ok"
    BY <1>1, <2>2 DEF TaskRec
  <2>4. Agrees(db[a], db[a].claim) BY <2>1 DEF PayInv, RowsSound, RowSound, Agrees
  <2>5. Signed(claims[a]) => Carries(db[a], db[a].claim)
    BY <2>1, <2>4 DEF PayInv, RowsSound, MemorySound, Agrees, Carries
  <2> HIDE DEF j
  <2>6. TaskSound(t, j, db, claims)
    <3>1. CASE t = Queue /\ QueueSound(k, db, claims)
      <4>1. QueueSound(j, db, claims) BY <1>2, <2>3, <2>4, <3>1 DEF QueueSound
      <4> QED BY <3>1, <4>1, KindSound
    <3>2. ASSUME NEW s \in Sessions, t \in {Broadcast(s), Receipt(s)},
                 ReconcilerSound(s, k, db, claims)
          PROVE  TaskSound(t, j, db, claims)
      <4>1. ReconcilerSound(s, j, db, claims) BY <1>2, <2>3, <2>5, <3>2 DEF ReconcilerSound
      <4> QED BY <3>2, <4>1, KindSound
    <3>3. ASSUME NEW s \in Sessions, t = Completion(s), CompletionSound(s, k, db, claims)
          PROVE  TaskSound(t, j, db, claims)
      <4>1. CompletionSound(s, j, db, claims) BY <1>2, <2>3, <2>5, <3>3 DEF CompletionSound
      <4> QED BY <3>3, <4>1, KindSound
    <3> QED BY <1>1, <1>2, <3>1, <3>2, <3>3, CallerKinds
  <2>7. task' = [task EXCEPT ![t] = j] BY <1>6 DEF j
  <2> QED BY <1>2, <1>3, <1>4, <2>3, <2>6, <2>7, OneTaskStep DEF Wrote
<1>7. \/ task' = [task EXCEPT ![t] = [k EXCEPT !.reply = "error"]]
      \/ task' = [task EXCEPT ![t] = [k EXCEPT !.reply = "ok", !.row = db[a]]]
  BY <1>1 DEF GetSession, Answer
<1> QED BY <1>5, <1>6, <1>7

\* A timeout fails a session nobody has claimed.
LEMMA TryTimeoutSessionSound ==
  ASSUME PayInv, ClaimAssumption, NEW a \in Sessions, TryTimeoutSession(a)
  PROVE  PayInv'
<1> DEFINE row2 == [db[a] EXCEPT !.status = "failed"]
           k == task[Queue]
<1>1. db \in [Sessions -> RowRec] /\ task \in [Tasks -> TaskRec] BY DEF PayInv, Shape
<1>2. /\ db' = [db EXCEPT ![a] = row2]
      /\ UNCHANGED <<claims, pool, mined, chainNonce, nonce, nextIdx, signed, reserved, task>>
  BY <1>1 DEF TryTimeoutSession, memory, wallet, bounds
<1>3. row2 \in RowRec /\ row2.claim = db[a].claim /\ row2.status = "failed" BY <1>1 DEF RowRec
<1>4. Grows(db[a], row2) /\ RowSound(a, row2) /\ MemorySound(row2, claims[a])
  BY <1>3 DEF Grows, RowSound, MemorySound, Agrees, PayInv, RowsSound
<1>5. \A s \in Sessions : Grows(db[s], db'[s]) BY <1>1, <1>2, <1>4 DEF Grows
<1>6. Queue \in Tasks /\ k \in TaskRec /\ task' = [task EXCEPT ![Queue] = k]
  BY <1>1, <1>2, AreTasks
<1>7. TaskSound(Queue, k, db', claims)
  <2>1. TaskSound(Queue, k, db, claims) BY <1>6 DEF PayInv, TasksSound
  <2> HIDE DEF k
  <2> QED BY <2>1, <1>5, TaskKept
<1>8. ~IsRequest(Queue) BY KindsDiffer DEF IsRequest
<1> HIDE DEF row2, k
<1> QED BY <1>2, <1>3, <1>4, <1>6, <1>7, <1>8, RowStep

\* The chain executes a transaction of the pool at its nonce.
LEMMA MineSound ==
  ASSUME PayInv, NEW x \in pool, Mine(x)
  PROVE  PayInv'
<1>1. UNCHANGED <<db, claims, task, pool, nonce, nextIdx, signed, reserved>>
  BY DEF Mine, memory, wallet, bounds
<1>2. Shape' BY <1>1 DEF PayInv, Shape
<1>3. ChainSound'
  <2>1. PICK ok \in BOOLEAN : mined' = mined \union {[tx |-> x, ok |-> ok]} BY DEF Mine
  <2>2. x.nonce = chainNonce /\ chainNonce' = chainNonce + 1 /\ chainNonce \in Nat
    BY DEF Mine, PayInv, ChainSound
  <2>3. \A m \in mined : m.tx \in pool /\ m.tx.nonce \in Nat /\ m.tx.nonce < chainNonce
    BY DEF PayInv, ChainSound
  <2>4. \A m \in mined : m.tx # x BY <2>2, <2>3
  <2>5. \A m \in mined' : m.tx \in pool /\ m.tx.nonce \in Nat /\ m.tx.nonce < chainNonce'
    BY <2>1, <2>2, <2>3
  <2>6. \A m, n \in mined' : m.tx = n.tx => m = n
    BY <2>1, <2>4 DEF PayInv, ChainSound
  <2> QED BY <1>1, <2>2, <2>5, <2>6 DEF PayInv, ChainSound
<1> QED BY <1>1, <1>2, <1>3, TaskStep

-----------------------------------------------------------------------------
(* Steps of one task that change neither rows nor claims in memory.        *)

\* Tasks at a program point without a call.
LEMMA AtSound ==
  ASSUME NEW s \in Sessions, NEW D, NEW C
  PROVE  /\ \A r \in Requests : TaskSound(Request(r), At("hooks", s), D, C)
         /\ \A r \in Requests : TaskSound(Request(r), Off, D, C)
         /\ C[s].st = "queue" => TaskSound(Queue, At("sign", s), D, C)
         /\ \A p \in {"send", "watch", "retry"} : Signed(C[s]) =>
              /\ TaskSound(Broadcast(s), At(p, s), D, C)
              /\ TaskSound(Receipt(s), At(p, s), D, C)
         /\ \A p \in {"hooks", "read"} : Signed(C[s]) =>
              TaskSound(Completion(s), At(p, s), D, C)
         /\ TaskSound(Broadcast(s), Off, D, C)
         /\ TaskSound(Receipt(s), Off, D, C)
         /\ TaskSound(Completion(s), Off, D, C)
<1>1. \A p \in Places : At(p, s).pc = p /\ At(p, s).s = s /\ At(p, s).reply = "none" BY Constants
<1>2. Off.pc = "off" BY Constants
<1>3. \A r \in Requests : TaskSound(Request(r), At("hooks", s), D, C)
  <2>1. RequestSound(At("hooks", s), D, C) BY <1>1 DEF RequestSound, Wrote, Places
  <2> QED BY <2>1, KindSound
<1>4. \A r \in Requests : TaskSound(Request(r), Off, D, C)
  <2>1. RequestSound(Off, D, C) BY <1>2 DEF RequestSound, Wrote
  <2> QED BY <2>1, KindSound
<1>5. C[s].st = "queue" => TaskSound(Queue, At("sign", s), D, C)
  <2>1. C[s].st = "queue" => QueueSound(At("sign", s), D, C)
    BY <1>1 DEF QueueSound, Places
  <2> QED BY <2>1, KindSound
<1>6. ASSUME NEW p \in {"send", "watch", "retry"}, Signed(C[s])
      PROVE  /\ TaskSound(Broadcast(s), At(p, s), D, C)
             /\ TaskSound(Receipt(s), At(p, s), D, C)
  <2>1. ReconcilerSound(s, At(p, s), D, C) BY <1>1, <1>6 DEF ReconcilerSound, Places
  <2> QED BY <2>1, KindSound
<1>7. ASSUME NEW p \in {"hooks", "read"}, Signed(C[s])
      PROVE  TaskSound(Completion(s), At(p, s), D, C)
  <2>1. CompletionSound(s, At(p, s), D, C) BY <1>1, <1>7 DEF CompletionSound, Places
  <2> QED BY <2>1, KindSound
<1>8. /\ TaskSound(Broadcast(s), Off, D, C) /\ TaskSound(Receipt(s), Off, D, C)
      /\ TaskSound(Completion(s), Off, D, C)
  <2>1. ReconcilerSound(s, Off, D, C) /\ CompletionSound(s, Off, D, C)
    BY <1>2 DEF ReconcilerSound, CompletionSound
  <2> QED BY <2>1, KindSound
<1> QED BY <1>3, <1>4, <1>5, <1>6, <1>7, <1>8

\* The queue between two claims.
LEMMA IdleQueueSound ==
  ASSUME NEW D, NEW C
  PROVE  TaskSound(Queue, At("loop", NoSession), D, C) /\ TaskSound(Queue, Off, D, C)
<1>1. At("loop", NoSession).pc = "loop" /\ Off.pc = "off" BY Constants DEF Places
<1>2. QueueSound(At("loop", NoSession), D, C) /\ QueueSound(Off, D, C)
  BY <1>1 DEF QueueSound
<1> QED BY <1>2, KindSound

\* The handlers before they write.
LEMMA HandlersSound ==
  ASSUME PayInv, NEW r \in Requests,
         RejectClaim(r) \/ CreateClaim(r) \/ \E s \in Sessions : ClaimReward(r, s)
  PROVE  PayInv'
<1> DEFINE t == Request(r)
<1>1. /\ UNCHANGED <<db, claims, pool, mined, chainNonce, nonce, signed, reserved>>
      /\ nextIdx' \in {nextIdx, nextIdx + 1}
  BY DEF RejectClaim, CreateClaim, ClaimReward, durable, memory, wallet, bounds
<1>2. ChainSound' BY <1>1, ChainSame DEF PayInv
<1>3. nonce' \in Nat /\ nextIdx' \in Nat /\ signed' \in Nat /\ reserved' \subseteq TxRec /\ nextIdx \in Nat
  BY <1>1 DEF PayInv, Shape
<1>4. t \in Tasks BY AreTasks
<1>5. RequestSound(task[t], db, claims) BY <1>4, KindSound DEF PayInv, TasksSound
<1>6. CASE RejectClaim(r)
  <2>1. task' = [task EXCEPT ![t] = Off] BY <1>6 DEF RejectClaim, Goto
  <2>2. TaskSound(t, Off, db, claims)
    <3>1. RequestSound(Off, db, claims) BY Constants DEF RequestSound, Wrote
    <3> QED BY <3>1, KindSound
  <2> QED BY <1>1, <1>2, <1>3, <1>4, <2>1, <2>2, Constants, OneTaskStep DEF Wrote
<1>7. CASE CreateClaim(r)
  <2> DEFINE s == task[t].s
             c == QueuedClaim(nextIdx)
             k == [At("create", s) EXCEPT !.new = c]
  <2>1. s \in Sessions BY <1>5, <1>7 DEF RequestSound, CreateClaim
  <2>2. c \in ClaimRec /\ c.st = "queue" /\ c.tx = NoTx
    BY <1>3, Constants DEF QueuedClaim, ClaimRec, ClaimTxStatus
  <2>3. At("create", s) \in TaskRec /\ At("create", s).pc = "create" /\ At("create", s).s = s
        /\ At("create", s).reply = "none"
    BY <2>1, Constants DEF Places
  <2> HIDE DEF c
  <2>4. k \in TaskRec /\ k.pc = "create" /\ k.s = s /\ k.reply = "none" /\ k.new = c
    BY <2>2, <2>3 DEF TaskRec
  <2>5. RequestSound(k, db, claims) BY <2>1, <2>2, <2>4 DEF RequestSound, Wrote
  <2>6. task' = [task EXCEPT ![t] = k] BY <1>7 DEF CreateClaim, Goto, c
  <2>7. TaskSound(t, k, db, claims) BY <2>5, KindSound
  <2> HIDE DEF k
  <2> QED BY <1>1, <1>2, <1>3, <1>4, <2>4, <2>6, <2>7, OneTaskStep DEF Wrote
<1>8. ASSUME NEW s \in Sessions, ClaimReward(r, s) PROVE PayInv'
  <2>1. task' = [task EXCEPT ![t] = At("hooks", s)] BY <1>8 DEF ClaimReward, Goto
  <2>2. TaskSound(t, At("hooks", s), db, claims) BY AtSound
  <2>3. At("hooks", s) \in TaskRec /\ At("hooks", s).pc = "hooks" BY Constants DEF Places
  <2> QED BY <1>1, <1>2, <1>3, <1>4, <2>1, <2>2, <2>3, OneTaskStep DEF Wrote
<1> QED BY <1>6, <1>7, <1>8

\* The wallet nonce is a number after loadWalletState.
LEMMA LoadedNonce ==
  ASSUME ClaimAssumption, NEW txs, txs \subseteq TxRec, NEW fallback, fallback \subseteq Nat,
         LoadWalletState(txs, fallback)
  PROVE  nonce' \in Nat
<1>1. \A n \in Nat : NonceAbove(n, txs) \subseteq Nat BY DEF NonceAbove, TxRec
<1>2. \A n \in 0 .. MaxSigned : n \in Nat BY DEF ClaimAssumption
<1> QED BY <1>1, <1>2 DEF LoadWalletState

\* A compare-and-set of the queue.
LEMMA QueueCallSound ==
  ASSUME PayInv, NEW s \in Sessions, claims[s].st = "queue", NEW d \in ClaimRec,
         \/ d.st = "prepared" /\ d.tx.s = s
         \/ d.st = "failed" /\ d.tx = NoTx
  PROVE  LET k == CasCall(s, claims[s], d)
         IN k \in TaskRec /\ k.pc = "cas" /\ TaskSound(Queue, k, db, claims)
<1> DEFINE k == CasCall(s, claims[s], d)
<1>1. claims[s] \in ClaimRec BY DEF PayInv, Shape
<1>2. /\ k \in TaskRec /\ k.pc = "cas" /\ k.s = s /\ k.reply = "none" /\ k.exp = claims[s] /\ k.new = d
  BY <1>1, CasCallShape
<1> HIDE DEF k
<1>3. QueueSound(k, db, claims) BY <1>2 DEF QueueSound
<1>4. TaskSound(Queue, k, db, claims) BY <1>3, KindSound
<1> QED BY <1>2, <1>4 DEF k

\* The claim the queue fails keeps no bytes.
LEMMA FailedClaim ==
  ASSUME PayInv, NEW s \in Sessions, claims[s].st = "queue"
  PROVE  LET d == WithStatus(claims[s], "failed")
         IN d \in ClaimRec /\ d.st = "failed" /\ d.tx = NoTx
<1>1. claims[s] \in ClaimRec BY DEF PayInv, Shape
<1>2. claims[s].tx = NoTx BY DEF PayInv, RowsSound, MemorySound, Agrees, Signed
<1>3. "failed" \in ClaimTxStatus BY DEF ClaimTxStatus
<1> QED BY <1>1, <1>2, <1>3, ClaimShape

\* The steps of the queue that do not end a transition.
LEMMA QueueStepsSound ==
  ASSUME PayInv, ClaimAssumption,
         \/ ProcessQueue \/ ProcessQueueTx \/ PrepareClaimTx \/ PrepareFails
         \/ QueueAborted \/ QueueDone
  PROVE  PayInv'
<1>1. UNCHANGED <<db, claims, pool, mined, chainNonce, nextIdx>>
  BY DEF ProcessQueue, ProcessQueueTx, PrepareClaimTx, PrepareFails, QueueAborted, QueueDone,
         QueueFrame, durable, memory
<1>2. ChainSound' BY <1>1, ChainSame DEF PayInv
<1>3. /\ nextIdx' \in Nat /\ nonce \in Nat /\ signed \in Nat /\ reserved \subseteq TxRec
      /\ claims \in [Sessions -> ClaimRec]
  BY <1>1 DEF PayInv, Shape
<1>4. Queue \in Tasks /\ QueueSound(task[Queue], db, claims)
  BY AreTasks, KindSound DEF PayInv, TasksSound
<1>5. ASSUME NEW k \in {At("loop", NoSession), Off}, task' = [task EXCEPT ![Queue] = k],
             nonce' \in Nat, UNCHANGED <<signed, reserved>>
      PROVE  PayInv'
  <2>1. k \in TaskRec /\ ~Wrote(k) BY Constants DEF Places, Wrote
  <2>2. TaskSound(Queue, k, db, claims) BY IdleQueueSound
  <2> QED BY <1>1, <1>2, <1>3, <1>4, <1>5, <2>1, <2>2, OneTaskStep
<1>6. ASSUME NEW s \in Sessions, claims[s].st = "queue",
             task' = [task EXCEPT ![Queue] = CasCall(s, claims[s], WithStatus(claims[s], "failed"))],
             UNCHANGED <<wallet, signed>>
      PROVE  PayInv'
  <2> DEFINE d == WithStatus(claims[s], "failed")
             k == CasCall(s, claims[s], d)
  <2>1. d \in ClaimRec /\ d.st = "failed" /\ d.tx = NoTx BY <1>6, FailedClaim
  <2> HIDE DEF d
  <2>2. k \in TaskRec /\ k.pc = "cas" /\ TaskSound(Queue, k, db, claims) BY <1>6, <2>1, QueueCallSound
  <2>3. task' = [task EXCEPT ![Queue] = k] BY <1>6 DEF d
  <2> HIDE DEF k
  <2> QED BY <1>1, <1>2, <1>3, <1>4, <1>6, <2>2, <2>3, OneTaskStep DEF Wrote, wallet
<1>7. CASE ProcessQueue
  BY <1>3, <1>5, <1>7 DEF ProcessQueue, Goto, wallet
<1>8. CASE ProcessQueueTx
  <2>1. PICK s \in Sessions :
          task' = [task EXCEPT ![Queue] =
                     IF claims[s].st # "queue" THEN At("loop", NoSession)
                     ELSE IF ready THEN At("sign", s)
                     ELSE CasCall(s, claims[s], WithStatus(claims[s], "failed"))]
    BY <1>8 DEF ProcessQueueTx, Goto
  <2>2. UNCHANGED <<wallet, signed>> /\ nonce' \in Nat /\ UNCHANGED <<signed, reserved>>
    BY <1>3, <1>8 DEF ProcessQueueTx, wallet
  <2>3. CASE claims[s].st # "queue" BY <1>5, <2>1, <2>2, <2>3
  <2>4. CASE claims[s].st = "queue" /\ ~ready BY <1>6, <2>1, <2>2, <2>4
  <2>5. CASE claims[s].st = "queue" /\ ready
    <3>1. At("sign", s) \in TaskRec /\ At("sign", s).pc = "sign" BY Constants DEF Places
    <3>2. TaskSound(Queue, At("sign", s), db, claims) BY <2>5, AtSound
    <3>3. task' = [task EXCEPT ![Queue] = At("sign", s)] BY <2>1, <2>5
    <3> QED BY <1>1, <1>2, <1>3, <1>4, <2>2, <3>1, <3>2, <3>3, OneTaskStep DEF Wrote
  <2> QED BY <2>3, <2>4, <2>5
<1>9. CASE PrepareClaimTx
  <2> DEFINE s == task[Queue].s
             tx == [s |-> s, nonce |-> nonce, sig |-> signed + 1]
             d == WithTx(claims[s], tx)
             k == CasCall(s, claims[s], d)
  <2>1. s \in Sessions /\ claims[s].st = "queue" BY <1>4, <1>9 DEF PrepareClaimTx, QueueSound
  <2>2. tx \in TxRec /\ tx.s = s BY <1>3, <2>1 DEF TxRec
  <2>3. /\ nonce' \in Nat /\ signed' \in Nat /\ reserved' \subseteq TxRec
        /\ task' = [task EXCEPT ![Queue] = k]
    BY <1>3, <1>9, <2>2 DEF PrepareClaimTx, Goto
  <2> HIDE DEF tx
  <2>4. d \in ClaimRec /\ d.st = "prepared" /\ d.tx.s = s BY <1>3, <2>1, <2>2, ClaimShape
  <2> HIDE DEF d
  <2>5. k \in TaskRec /\ k.pc = "cas" /\ TaskSound(Queue, k, db, claims) BY <2>1, <2>4, QueueCallSound
  <2> HIDE DEF k
  <2> QED BY <1>1, <1>2, <1>3, <1>4, <2>3, <2>5, OneTaskStep DEF Wrote
<1>10. CASE PrepareFails
  <2>1. task[Queue].s \in Sessions /\ claims[task[Queue].s].st = "queue"
    BY <1>4, <1>10 DEF PrepareFails, QueueSound
  <2> QED BY <1>6, <1>10, <2>1 DEF PrepareFails, Goto
<1>11. CASE QueueAborted
  BY <1>3, <1>5, <1>11 DEF QueueAborted, Goto, wallet
<1>12. CASE QueueDone
  <2>1. nonce' \in Nat
    <3>1. CASE UNCHANGED <<nonce, ready>> BY <1>3, <3>1
    <3>2. CASE LoadWalletState(reserved, {0}) BY <1>3, <3>2, LoadedNonce
    <3> QED BY <1>12, <3>1, <3>2 DEF QueueDone
  <2> QED BY <1>5, <1>12, <2>1 DEF QueueDone, Goto
<1> QED BY <1>7, <1>8, <1>9, <1>10, <1>11, <1>12

\* A compare-and-set of another status of the same bytes.
LEMMA StatusCallSound ==
  ASSUME NEW s \in Sessions, NEW c \in ClaimRec, NEW D, Carries(D[s], c),
         NEW C, Signed(C[s]), NEW st \in {"prepared", "pending", "confirmed", "reverted"}, NEW n \in Nat
  PROVE  LET k == CasCall(s, c, WithStatus(c, st))
             j == [k EXCEPT !.try = n]
         IN /\ k \in TaskRec /\ j \in TaskRec /\ k.pc = "cas" /\ j.pc = "cas"
            /\ ReconcilerSound(s, k, D, C) /\ ReconcilerSound(s, j, D, C)
<1> DEFINE d == WithStatus(c, st)
           k == CasCall(s, c, d)
           j == [k EXCEPT !.try = n]
<1>1. d \in ClaimRec /\ d.st = st /\ d.tx = c.tx BY ClaimShape DEF ClaimTxStatus
<1>2. Carries(D[s], d) BY <1>1 DEF Carries, Agrees, Signed
<1> HIDE DEF d
<1>3. k \in TaskRec /\ k.pc = "cas" /\ k.s = s /\ k.new = d BY <1>1, CasCallShape
<1> HIDE DEF k
<1>4. j \in TaskRec /\ j.pc = "cas" /\ j.s = s /\ j.new = d BY <1>3 DEF TaskRec
<1> HIDE DEF j
<1>5. ReconcilerSound(s, k, D, C) /\ ReconcilerSound(s, j, D, C)
  BY <1>2, <1>3, <1>4 DEF ReconcilerSound
<1> QED BY <1>3, <1>4, <1>5 DEF k, j, d

\* settleClaim.
LEMMA SettleSound ==
  ASSUME NEW s \in Sessions, NEW c \in ClaimRec, NEW D, Agrees(D[s], c), NEW C, Signed(C[s]),
         NEW st \in {"prepared", "pending", "confirmed", "reverted"}, NEW n \in Nat
  PROVE  /\ Settle(s, c, st, n) \in TaskRec
         /\ ReconcilerSound(s, Settle(s, c, st, n), D, C)
<1>1. CASE IsActiveSigned(c) /\ n < 3
  <2>1. Carries(D[s], c) BY <1>1 DEF IsActiveSigned, Carries, Signed
  <2> QED BY <1>1, <2>1, StatusCallSound DEF Settle
<1>2. CASE ~(IsActiveSigned(c) /\ n < 3)
  BY <1>2, Constants DEF Settle, ReconcilerSound
<1> QED BY <1>1, <1>2

\* The bytes of a signed claim are durable, so that they may be broadcast.
LEMMA PoolGrows ==
  ASSUME PayInv, NEW s \in Sessions, Signed(claims[s]),
         pool' \in {pool, pool \union {claims[s].tx}}, UNCHANGED <<db, mined, chainNonce>>
  PROVE  ChainSound'
<1>1. claims[s].tx = db[s].claim.tx /\ Signed(db[s].claim) BY DEF PayInv, RowsSound, MemorySound, Agrees
<1>2. claims[s].tx.s = s BY <1>1 DEF PayInv, RowsSound, RowSound
<1>3. \A x \in pool' : x.s \in Sessions /\ db[x.s].claim.tx = x
  BY <1>1, <1>2 DEF PayInv, ChainSound
<1> QED BY <1>3 DEF PayInv, ChainSound

\* The steps of rebroadcastClaim, awaitTxReceipt and completeConfirmedClaim
\* that do not look at a row.
LEMMA ReconcilerStepsSound ==
  ASSUME PayInv, NEW s \in Sessions,
         \/ Retry(Broadcast(s), "send") \/ BroadcastAcked(s) \/ BroadcastUnacked(s)
         \/ Retry(Receipt(s), "watch") \/ ReceiptArrives(s) \/ ReceiptAborted(s)
         \/ ClaimedHooks(s) \/ ClaimedHooksFail(s) \/ FinalizeLookup(s)
  PROVE  PayInv'
<1> DEFINE b == Broadcast(s)
           w == Receipt(s)
           f == Completion(s)
<1>1. UNCHANGED <<db, claims, mined, chainNonce, nonce, nextIdx, signed, reserved>>
  BY DEF Retry, BroadcastAcked, BroadcastUnacked, ReceiptArrives, ReceiptAborted, ClaimedHooks,
         ClaimedHooksFail, FinalizeLookup, ReconcileFrame, CompletionFrame, bounds
<1>2. /\ nonce' \in Nat /\ nextIdx' \in Nat /\ signed' \in Nat /\ reserved' \subseteq TxRec
      /\ claims[s] \in ClaimRec
  BY <1>1 DEF PayInv, Shape
<1>3. /\ b \in Tasks /\ w \in Tasks /\ f \in Tasks
      /\ ReconcilerSound(s, task[b], db, claims) /\ ReconcilerSound(s, task[w], db, claims)
      /\ CompletionSound(s, task[f], db, claims)
  BY AreTasks, KindSound DEF PayInv, TasksSound
<1>4. Signed(claims[s])
  BY <1>3 DEF Retry, BroadcastAcked, BroadcastUnacked, ReceiptArrives, ReceiptAborted, ClaimedHooks,
              ClaimedHooksFail, FinalizeLookup, ReconcilerSound, CompletionSound
<1>5. Agrees(db[s], claims[s]) /\ Carries(db[s], claims[s])
  BY <1>4 DEF PayInv, RowsSound, MemorySound, Carries
<1>6. ASSUME NEW t \in {b, w, f}, NEW k \in TaskRec, task' = [task EXCEPT ![t] = k],
             TaskSound(t, k, db, claims), k.pc # "create", ChainSound'
      PROVE  PayInv'
  BY <1>1, <1>2, <1>3, <1>6, OneTaskStep DEF Wrote
<1>7. ASSUME NEW t \in {b, w}, NEW p \in {"send", "watch", "retry"}, ChainSound',
             task' = [task EXCEPT ![t] = At(p, s)] \/ task' = [task EXCEPT ![t] = Off]
      PROVE  PayInv'
  <2>1. TaskSound(t, At(p, s), db, claims) /\ TaskSound(t, Off, db, claims) BY <1>4, AtSound
  <2>2. At(p, s) \in TaskRec /\ At(p, s).pc = p /\ Off \in TaskRec /\ Off.pc = "off"
    BY Constants DEF Places
  <2> QED BY <1>6, <1>7, <2>1, <2>2
<1>8. ASSUME UNCHANGED pool PROVE ChainSound' BY <1>1, <1>8, ChainSame DEF PayInv
<1>9. CASE Retry(b, "send")
  <2>1. task[b].s = s BY <1>3, <1>9 DEF Retry, ReconcilerSound
  <2>2. task' = [task EXCEPT ![b] = At("send", s)] \/ task' = [task EXCEPT ![b] = Off]
    BY <1>9, <2>1 DEF Retry, Goto
  <2> QED BY <1>7, <1>8, <1>9, <2>2 DEF Retry
<1>10. CASE Retry(w, "watch")
  <2>1. task[w].s = s BY <1>3, <1>10 DEF Retry, ReconcilerSound
  <2>2. task' = [task EXCEPT ![w] = At("watch", s)] \/ task' = [task EXCEPT ![w] = Off]
    BY <1>10, <2>1 DEF Retry, Goto
  <2> QED BY <1>7, <1>8, <1>10, <2>2 DEF Retry
<1>11. CASE BroadcastAcked(s)
  <2> DEFINE k == CasCall(s, claims[s], WithStatus(claims[s], "pending"))
  <2>1. ChainSound' BY <1>1, <1>4, <1>11, PoolGrows DEF BroadcastAcked
  <2>2. task' = [task EXCEPT ![b] = k] \/ task' = [task EXCEPT ![b] = Off]
    BY <1>11 DEF BroadcastAcked, Goto
  <2>3. k \in TaskRec /\ k.pc = "cas" /\ ReconcilerSound(s, k, db, claims)
    <3>1. \A n \in Nat : k \in TaskRec /\ k.pc = "cas" /\ ReconcilerSound(s, k, db, claims)
      BY <1>2, <1>4, <1>5, StatusCallSound
    <3> QED BY <3>1
  <2> HIDE DEF k
  <2>4. TaskSound(b, k, db, claims) BY <2>3, KindSound
  <2> QED BY <1>6, <1>7, <2>1, <2>2, <2>3, <2>4
<1>12. CASE BroadcastUnacked(s)
  <2>1. ChainSound' BY <1>1, <1>4, <1>12, PoolGrows DEF BroadcastUnacked
  <2>2. task' = [task EXCEPT ![b] = At("retry", s)] \/ task' = [task EXCEPT ![b] = Off]
    BY <1>12 DEF BroadcastUnacked, Goto
  <2> QED BY <1>7, <2>1, <2>2
<1>13. CASE ReceiptArrives(s)
  <2>1. PICK m \in mined : task' = [task EXCEPT ![w] =
          Settle(s, claims[s], IF m.ok THEN "confirmed" ELSE "reverted", 0)]
    BY <1>13 DEF ReceiptArrives, Goto
  <2> DEFINE st == IF m.ok THEN "confirmed" ELSE "reverted"
             k == Settle(s, claims[s], st, 0)
  <2>2. st \in {"pending", "confirmed", "reverted"} OBVIOUS
  <2> HIDE DEF st
  <2>3. k \in TaskRec /\ ReconcilerSound(s, k, db, claims) BY <1>2, <1>4, <1>5, <2>2, SettleSound
  <2>4. task' = [task EXCEPT ![w] = k] BY <2>1 DEF st
  <2> HIDE DEF k
  <2>5. TaskSound(w, k, db, claims) /\ k.pc # "create" BY <2>3, KindSound DEF ReconcilerSound
  <2> QED BY <1>6, <1>8, <1>13, <2>3, <2>4, <2>5 DEF ReceiptArrives
<1>14. CASE ReceiptAborted(s)
  BY <1>7, <1>8, <1>14 DEF ReceiptAborted, Goto
<1>15. ASSUME NEW k \in {Off, At("hooks", s), At("read", s)}, task' = [task EXCEPT ![f] = k],
              UNCHANGED pool
       PROVE  PayInv'
  <2>1. TaskSound(f, k, db, claims) BY <1>4, AtSound
  <2>2. k \in TaskRec /\ k.pc # "create" BY Constants DEF Places
  <2> QED BY <1>6, <1>8, <1>15, <2>1, <2>2
<1>16. CASE ClaimedHooks(s)
  <2> DEFINE k == [At("finalize", s) EXCEPT !.exp = claims[s]]
  <2>1. UNCHANGED pool BY <1>16 DEF ClaimedHooks, CompletionFrame
  <2>2. task' = [task EXCEPT ![f] = k] \/ task' = [task EXCEPT ![f] = Off]
    BY <1>16 DEF ClaimedHooks, Goto
  <2>3. At("finalize", s) \in TaskRec /\ At("finalize", s).pc = "finalize" /\ At("finalize", s).s = s
    BY Constants DEF Places
  <2>4. k \in TaskRec /\ k.pc = "finalize" /\ k.s = s BY <1>2, <2>3 DEF TaskRec
  <2> HIDE DEF k
  <2>5. CompletionSound(s, k, db, claims) BY <1>4, <2>4 DEF CompletionSound
  <2>6. TaskSound(f, k, db, claims) BY <2>5, KindSound
  <2> QED BY <1>6, <1>8, <1>15, <2>1, <2>2, <2>4, <2>6
<1>17. CASE ClaimedHooksFail(s)
  BY <1>15, <1>17 DEF ClaimedHooksFail, CompletionFrame, Goto
<1>18. CASE FinalizeLookup(s)
  BY <1>15, <1>18 DEF FinalizeLookup, CompletionFrame, Goto
<1> QED BY <1>9, <1>10, <1>11, <1>12, <1>13, <1>14, <1>16, <1>17, <1>18

-----------------------------------------------------------------------------
(* Steps after which an EthClaimInfo object holds another claim.           *)

\* A task that owns the claim of session a replaces it by c.
LEMMA LearnStep ==
  ASSUME PayInv, Shape', UNCHANGED <<db, pool, mined, chainNonce>>,
         NEW a \in Sessions, NEW c, claims' = [claims EXCEPT ![a] = c],
         claims[a].st # "none", Agrees(db[a], c), Signed(claims[a]) => Signed(c),
         \A t \in Tasks :
           \/ task'[t] = task[t] /\ (t = Queue /\ claims[a].st = "queue" => c.st = "queue")
           \/ TaskSound(t, task'[t], db, claims') /\ ~Wrote(task'[t])
  PROVE  PayInv'
<1>1. ChainSound' BY ChainSame DEF PayInv
<1>2. claims[a] # NoClaim BY Constants
<1>3. MemorySound(db[a], c) BY <1>2 DEF PayInv, RowsSound, MemorySound
<1>4. ASSUME NEW t \in Tasks, IsRequest(t), Wrote(task[t]) PROVE task[t].s # a
  <2>1. RequestSound(task[t], db, claims) BY <1>4 DEF PayInv, TasksSound, TaskSound, IsRequest
  <2> QED BY <1>2, <1>4, <2>1 DEF RequestSound
<1> QED BY <1>1, <1>3, <1>4, ClaimStep

\* What the queue learns from a reply.
LEMMA QueueLearns ==
  ASSUME PayInv, task[Queue].pc \in {"cas", "read"}
  PROVE  LET k == task[Queue]
         IN /\ k \in TaskRec /\ QueueSound(k, db, claims)
            /\ k.s \in Sessions /\ claims[k.s].st = "queue" /\ claims[k.s] \in ClaimRec
            /\ Learned(k) \in ClaimRec /\ Agrees(db[k.s], Learned(k))
            /\ Outcome(k) \in {"lookup", "again"} => Learned(k).st = "queue"
            /\ k.reply # "none" /\ Outcome(k) = "won" => Learned(k) = k.new
            /\ Observed(k).st = "confirmed" => Learned(k) = Observed(k)
<1> DEFINE k == task[Queue]
<1>1. Queue \in Tasks /\ k \in TaskRec /\ claims \in [Sessions -> ClaimRec]
  BY AreTasks DEF PayInv, Shape
<1>2. QueueSound(k, db, claims) BY <1>1, KindSound DEF PayInv, TasksSound
<1>3. k.s \in Sessions /\ claims[k.s].st = "queue" /\ k.exp.st = "queue" BY <1>2 DEF QueueSound
<1>4. claims[k.s] \in ClaimRec /\ Agrees(db[k.s], claims[k.s])
  BY <1>1, <1>3 DEF PayInv, RowsSound, MemorySound
<1>5. k.pc \in {"cas", "read"} OBVIOUS
<1>6. /\ k.new \in ClaimRec /\ k.row \in RowRec /\ k.row.claim \in ClaimRec
      /\ k.reply \in {"none", "ok", "no", "error"}
  BY <1>1 DEF TaskRec, RowRec
<1> HIDE DEF k
<1>7. Learned(k) \in ClaimRec BY <1>4, <1>6 DEF Learned
<1>8. Agrees(db[k.s], Learned(k)) BY <1>2, <1>4 DEF QueueSound, Learned
<1>9. Outcome(k) \in {"lookup", "again"} => Learned(k).st = "queue"
  BY <1>2, <1>3, <1>5, <1>6 DEF Outcome, ReadOutcome, Learned, QueueSound
<1>10. k.reply # "none" /\ Outcome(k) = "won" => Learned(k) = k.new
  <2>1. k.new.st \in ClaimTxStatus BY <1>2, <1>5 DEF QueueSound, ClaimTxStatus
  <2> QED BY <1>2, <1>5, <1>6, <2>1 DEF Outcome, ReadOutcome, Learned, QueueSound, IsClaimData
<1>11. Observed(k).st = "confirmed" => Learned(k) = Observed(k)
  BY <1>5, Constants DEF Observed, Learned
<1> QED BY <1>1, <1>2, <1>3, <1>4, <1>7, <1>8, <1>9, <1>10, <1>11 DEF k

\* What a reconciling task learns from a reply.
LEMMA ReconcilerLearns ==
  ASSUME PayInv, NEW s \in Sessions, NEW t \in {Broadcast(s), Receipt(s)},
         task[t].pc \in {"cas", "read"}
  PROVE  LET k == task[t]
         IN /\ k \in TaskRec /\ ReconcilerSound(s, k, db, claims) /\ k.s = s
            /\ Signed(claims[s]) /\ claims[s] \in ClaimRec
            /\ Learned(k) \in ClaimRec /\ Carries(db[s], Learned(k))
<1> DEFINE k == task[t]
<1>1. t \in Tasks /\ k \in TaskRec /\ claims \in [Sessions -> ClaimRec]
  BY AreTasks DEF PayInv, Shape
<1>2. ReconcilerSound(s, k, db, claims) BY <1>1, KindSound DEF PayInv, TasksSound
<1>3. k.s = s /\ Signed(claims[s]) BY <1>2 DEF ReconcilerSound
<1>4. claims[s] \in ClaimRec /\ Carries(db[s], claims[s])
  BY <1>1, <1>3 DEF PayInv, RowsSound, MemorySound, Carries
<1>5. k.pc \in {"cas", "read"} OBVIOUS
<1>6. k.new \in ClaimRec /\ k.row.claim \in ClaimRec BY <1>1 DEF TaskRec, RowRec
<1> HIDE DEF k
<1>7. Learned(k) \in ClaimRec BY <1>3, <1>4, <1>6 DEF Learned
<1>8. Carries(db[s], Learned(k)) BY <1>2, <1>3, <1>4, <1>5 DEF ReconcilerSound, Learned
<1> QED BY <1>1, <1>2, <1>3, <1>4, <1>7, <1>8 DEF k

\* Completing and Reconciled start at most the completion of s.
LEMMA ReconciledShape ==
  ASSUME NEW tasks \in [Tasks -> TaskRec], NEW s \in Sessions, NEW c
  PROVE  /\ Completing(tasks, s) \in [Tasks -> TaskRec]
         /\ Reconciled(tasks, s, c) \in [Tasks -> TaskRec]
         /\ \A u \in Tasks :
              /\ \/ Completing(tasks, s)[u] = tasks[u]
                 \/ u = Completion(s) /\ Completing(tasks, s)[u] = At("hooks", s)
              /\ \/ Reconciled(tasks, s, c)[u] = tasks[u]
                 \/ /\ u = Completion(s) /\ Reconciled(tasks, s, c)[u] = At("hooks", s)
                    /\ c.st = "confirmed"
<1>1. At("hooks", s) \in TaskRec BY Constants DEF Places
<1>2. Completion(s) \in Tasks BY AreTasks
<1> QED BY <1>1, <1>2 DEF Completing, Reconciled

\* transitionClaim looks the row up, or tries again.
LEMMA TransitionRetrySound ==
  ASSUME PayInv, NEW t \in Transitioners, TransitionRetry(t)
  PROVE  PayInv'
<1> DEFINE k == task[t]
<1>1. t \in Tasks /\ (t = Queue \/ \E s \in Sessions : t \in {Broadcast(s), Receipt(s)})
  BY TransitionerKinds
<1>2. k \in TaskRec /\ task \in [Tasks -> TaskRec] /\ claims \in [Sessions -> ClaimRec]
  BY <1>1 DEF PayInv, Shape
<1>3. /\ UNCHANGED <<db, pool, mined, chainNonce, nonce, nextIdx, signed, reserved>>
      /\ k.pc \in {"cas", "read"} /\ k.reply # "none"
      /\ claims' = [claims EXCEPT ![k.s] = Learned(k)]
      /\ Outcome(k) \in {"lookup", "again"}
  BY DEF TransitionRetry, Learn, durable, wallet, bounds
<1>4. PICK j : /\ task' = [task EXCEPT ![t] = j]
               /\ \/ j = [k EXCEPT !.pc = "read", !.reply = "none", !.err = k.reply = "error"]
                  \/ j = [CasCall(k.s, k.exp, k.new) EXCEPT !.try = k.try]
  BY DEF TransitionRetry, Goto
<1>5. ASSUME k.s \in Sessions
      PROVE  /\ j \in TaskRec /\ j.pc \in {"cas", "read"} /\ j.s = k.s
             /\ j.exp = k.exp /\ j.new = k.new /\ j.reply = "none"
  <2>1. CASE j = [k EXCEPT !.pc = "read", !.reply = "none", !.err = k.reply = "error"]
    <3>1. (k.reply = "error") \in BOOLEAN OBVIOUS
    <3> DEFINE e == k.reply = "error"
    <3>2. j = [k EXCEPT !.pc = "read", !.reply = "none", !.err = e] /\ e \in BOOLEAN BY <2>1
    <3> HIDE DEF e, k
    <3> QED BY <1>2, <3>2 DEF TaskRec, Places
  <2>2. CASE j = [CasCall(k.s, k.exp, k.new) EXCEPT !.try = k.try]
    <3> DEFINE i == CasCall(k.s, k.exp, k.new)
    <3>1. k.exp \in ClaimRec /\ k.new \in ClaimRec /\ k.try \in Nat BY <1>2 DEF TaskRec
    <3>2. /\ i \in TaskRec /\ i.pc = "cas" /\ i.s = k.s /\ i.reply = "none"
          /\ i.exp = k.exp /\ i.new = k.new
      BY <1>5, <3>1, CasCallShape
    <3> HIDE DEF i, k
    <3>3. j = [i EXCEPT !.try = k.try] BY <2>2 DEF i
    <3> QED BY <3>1, <3>2, <3>3 DEF TaskRec
  <2> QED BY <1>4, <2>1, <2>2
<1>6. ASSUME k.s \in Sessions, Learned(k) \in ClaimRec, claims[k.s].st # "none",
             Agrees(db[k.s], Learned(k)), Signed(claims[k.s]) => Signed(Learned(k)),
             t # Queue /\ claims[k.s].st = "queue" => Learned(k).st = "queue",
             TaskSound(t, j, db, claims')
      PROVE  PayInv'
  <2>1. Shape' BY <1>2, <1>3, <1>4, <1>5, <1>6 DEF PayInv, Shape
  <2>2. ~Wrote(j) BY <1>5, <1>6 DEF Wrote
  <2>3. \A u \in Tasks :
           \/ task'[u] = task[u] /\ (u = Queue /\ claims[k.s].st = "queue" => Learned(k).st = "queue")
           \/ TaskSound(u, task'[u], db, claims') /\ ~Wrote(task'[u])
    BY <1>1, <1>2, <1>4, <1>6, <2>2
  <2> HIDE DEF k
  <2> QED BY <1>3, <1>6, <2>1, <2>3, LearnStep
<1>7. CASE t = Queue
  <2>1. /\ QueueSound(k, db, claims) /\ k.s \in Sessions /\ claims[k.s].st = "queue"
        /\ Learned(k) \in ClaimRec /\ Agrees(db[k.s], Learned(k)) /\ Learned(k).st = "queue"
    BY <1>3, <1>7, QueueLearns
  <2>2. claims'[k.s].st = "queue" BY <1>2, <1>3, <2>1
  <2>3. QueueSound(j, db, claims')
    BY <1>3, <1>5, <2>1, <2>2 DEF QueueSound
  <2>4. TaskSound(t, j, db, claims') BY <1>7, <2>3, KindSound
  <2>5. ~Signed(claims[k.s]) BY <2>1 DEF Signed
  <2> QED BY <1>6, <1>7, <2>1, <2>4, <2>5
<1>8. ASSUME NEW s \in Sessions, t \in {Broadcast(s), Receipt(s)} PROVE PayInv'
  <2>1. /\ ReconcilerSound(s, k, db, claims) /\ k.s = s /\ Signed(claims[s])
        /\ Learned(k) \in ClaimRec /\ Carries(db[s], Learned(k))
    BY <1>3, <1>8, ReconcilerLearns
  <2>2. Signed(claims'[s]) BY <1>2, <1>3, <2>1 DEF Carries
  <2>3. Carries(db[s], k.new) BY <1>3, <2>1 DEF ReconcilerSound
  <2>4. ReconcilerSound(s, j, db, claims')
    BY <1>5, <2>1, <2>2, <2>3 DEF ReconcilerSound
  <2>5. TaskSound(t, j, db, claims') BY <1>8, <2>4, KindSound
  <2>6. claims[s].st # "none" /\ claims[s].st # "queue" BY <2>1 DEF Signed
  <2> QED BY <1>6, <2>1, <2>5, <2>6 DEF Carries
<1> QED BY <1>1, <1>7, <1>8

\* The queue ends a transition: the claim is signed and gets its tasks, has
\* failed, or belongs to somebody else.
LEMMA QueueOverSound ==
  ASSUME PayInv, QueuePrepared \/ QueueFailed \/ QueueLost
  PROVE  PayInv'
<1> DEFINE k == task[Queue]
           s == k.s
           c == Learned(k)
           idle == {At("loop", NoSession), Off}
<1>1. /\ k.pc \in {"cas", "read"} /\ k.reply # "none"
      /\ claims' = [claims EXCEPT ![s] = c]
      /\ UNCHANGED <<db, pool, mined, chainNonce, nonce, nextIdx, signed>>
      /\ reserved' \subseteq reserved
  BY DEF QueuePrepared, QueueFailed, QueueLost, Over, Learn, QueueFrame, durable, wallet,
         ReconcileTerminal
<1>2. /\ s \in Sessions /\ claims[s].st = "queue" /\ c \in ClaimRec /\ Agrees(db[s], c)
      /\ Outcome(k) = "won" => c = k.new
      /\ Observed(k).st = "confirmed" => c = Observed(k)
  BY <1>1, QueueLearns
<1>3. task \in [Tasks -> TaskRec] /\ claims \in [Sessions -> ClaimRec] BY DEF PayInv, Shape
<1>4. claims'[s] = c BY <1>1, <1>2, <1>3
<1>5. \A i \in idle : /\ i \in TaskRec /\ i.pc # "create" /\ TaskSound(Queue, i, db, claims')
  BY Constants, IdleQueueSound DEF Places
<1>6. Queue \in Tasks /\ Broadcast(s) \in Tasks /\ Receipt(s) \in Tasks /\ Completion(s) \in Tasks
  BY <1>2, AreTasks
<1>7. ASSUME task' \in [Tasks -> TaskRec],
             \A u \in Tasks \ {Queue} :
               \/ task'[u] = task[u]
               \/ TaskSound(u, task'[u], db, claims') /\ task'[u].pc # "create",
             task'[Queue] \in idle
      PROVE  PayInv'
  <2>1. Shape' BY <1>1, <1>2, <1>3, <1>7 DEF PayInv, Shape
  <2>2. ASSUME NEW u \in Tasks
        PROVE  \/ task'[u] = task[u] /\ (u = Queue /\ claims[s].st = "queue" => c.st = "queue")
               \/ TaskSound(u, task'[u], db, claims') /\ ~Wrote(task'[u])
    BY <1>5, <1>7 DEF Wrote
  <2>3. claims[s].st # "none" /\ ~Signed(claims[s]) BY <1>2 DEF Signed
  <2> HIDE DEF s, c, idle
  <2> QED BY <1>1, <1>2, <2>1, <2>2, <2>3, LearnStep
<1>8. ASSUME NEW i \in idle, task' = [task EXCEPT ![Queue] = i] PROVE PayInv'
  <2>1. task' \in [Tasks -> TaskRec] /\ task'[Queue] = i
        /\ \A u \in Tasks \ {Queue} : task'[u] = task[u]
    BY <1>3, <1>5, <1>6, <1>8
  <2> QED BY <1>7, <2>1
<1>9. CASE QueuePrepared
  <2>1. CASE ~Up BY <1>8, <1>9, <2>1 DEF QueuePrepared, Goto
  <2>2. CASE Up
    <3>1. Signed(c) BY <1>2, <1>9 DEF QueuePrepared, Over, Signed
    <3>2. task' = [task EXCEPT ![Queue] = At("loop", NoSession),
                               ![Broadcast(s)] = At("send", s), ![Receipt(s)] = At("watch", s)]
      BY <1>9, <2>2 DEF QueuePrepared
    <3>3. At("send", s) \in TaskRec /\ At("send", s).pc = "send"
          /\ At("watch", s) \in TaskRec /\ At("watch", s).pc = "watch"
      BY <1>2, Constants DEF Places
    <3>4. /\ TaskSound(Broadcast(s), At("send", s), db, claims')
          /\ TaskSound(Receipt(s), At("watch", s), db, claims')
      BY <1>2, <1>4, <3>1, AtSound
    <3>5. Broadcast(s) # Queue /\ Receipt(s) # Queue /\ Broadcast(s) # Receipt(s) BY <1>2, KindsDiffer
    <3>6. /\ task' \in [Tasks -> TaskRec]
          /\ task'[Queue] = At("loop", NoSession)
          /\ task'[Broadcast(s)] = At("send", s) /\ task'[Receipt(s)] = At("watch", s)
          /\ \A u \in Tasks \ {Queue, Broadcast(s), Receipt(s)} : task'[u] = task[u]
      BY <1>3, <1>5, <1>6, <3>2, <3>3, <3>5
    <3> QED BY <1>7, <3>3, <3>4, <3>6
  <2> QED BY <2>1, <2>2
<1>10. CASE QueueFailed BY <1>8, <1>10 DEF QueueFailed, Goto
<1>11. CASE QueueLost
  <2> DEFINE i == IF Outcome(k) = "threw" THEN Off ELSE At("loop", NoSession)
             tasks == [task EXCEPT ![Queue] = i]
             o == Observed(k)
  <2>1. i \in idle OBVIOUS
  <2>2. task' = Reconciled(tasks, s, o) BY <1>11 DEF QueueLost
  <2>3. /\ tasks \in [Tasks -> TaskRec] /\ tasks[Queue] = i
        /\ \A u \in Tasks \ {Queue} : tasks[u] = task[u]
    BY <1>3, <1>5, <1>6, <2>1
  <2> HIDE DEF tasks, o, i
  <2>4. /\ Reconciled(tasks, s, o) \in [Tasks -> TaskRec]
        /\ \A u \in Tasks : \/ Reconciled(tasks, s, o)[u] = tasks[u]
                            \/ /\ u = Completion(s) /\ Reconciled(tasks, s, o)[u] = At("hooks", s)
                               /\ o.st = "confirmed"
    BY <1>2, <2>3, ReconciledShape
  <2>5. o.st = "confirmed" => TaskSound(Completion(s), At("hooks", s), db, claims')
    <3>1. o.st = "confirmed" => Signed(claims'[s]) BY <1>2, <1>4 DEF o, Signed
    <3> QED BY <1>2, <3>1, AtSound
  <2>6. At("hooks", s).pc # "create" BY <1>2, Constants DEF Places
  <2>7. Completion(s) # Queue BY <1>2, KindsDiffer
  <2>8. \A u \in Tasks \ {Queue} :
               \/ task'[u] = task[u]
               \/ TaskSound(u, task'[u], db, claims') /\ task'[u].pc # "create"
    BY <2>2, <2>3, <2>4, <2>5, <2>6
  <2>9. task'[Queue] = i BY <1>6, <2>2, <2>3, <2>4, <2>7
  <2> QED BY <1>7, <2>1, <2>2, <2>4, <2>8, <2>9
<1> QED BY <1>9, <1>10, <1>11

\* rebroadcastClaim and settleClaim end a transition.
LEMMA ReconcilerOverSound ==
  ASSUME PayInv, NEW s \in Sessions, BroadcastTransition(s) \/ ReceiptSettled(s) \/ ReceiptLost(s)
  PROVE  PayInv'
<1>1. PICK t \in {Broadcast(s), Receipt(s)} :
        /\ task[t].pc \in {"cas", "read"} /\ task[t].reply # "none"
        /\ claims' = [claims EXCEPT ![task[t].s] = Learned(task[t])]
        /\ \/ t = Broadcast(s) /\ BroadcastTransition(s)
           \/ t = Receipt(s) /\ (ReceiptSettled(s) \/ ReceiptLost(s))
  BY DEF BroadcastTransition, ReceiptSettled, ReceiptLost, Over, Learn
<1> DEFINE k == task[t]
           c == Learned(k)
           o == Observed(k)
<1>2. /\ UNCHANGED <<db, pool, mined, chainNonce, nonce, nextIdx, signed>>
      /\ reserved' \subseteq reserved
  BY DEF BroadcastTransition, ReceiptSettled, ReceiptLost, ReconcileFrame, bounds,
         ReconcileTerminal, Forget
<1>3. /\ k \in TaskRec /\ ReconcilerSound(s, k, db, claims) /\ k.s = s
      /\ Signed(claims[s]) /\ c \in ClaimRec /\ Carries(db[s], c)
  BY <1>1, ReconcilerLearns
<1>4. task \in [Tasks -> TaskRec] /\ claims \in [Sessions -> ClaimRec] BY DEF PayInv, Shape
<1>5. claims' = [claims EXCEPT ![s] = c] /\ claims'[s] = c /\ Signed(claims'[s])
  BY <1>1, <1>3, <1>4 DEF Carries
<1>6. t \in Tasks /\ Completion(s) \in Tasks /\ t # Completion(s) /\ t # Queue /\ Completion(s) # Queue
  BY AreTasks, KindsDiffer
<1>7. ASSUME NEW i \in TaskRec, ReconcilerSound(s, i, db, claims'),
             task' \in [Tasks -> TaskRec],
             \A u \in Tasks : \/ task'[u] = [task EXCEPT ![t] = i][u]
                              \/ u = Completion(s) /\ task'[u] = At("hooks", s)
      PROVE  PayInv'
  <2>1. TaskSound(t, i, db, claims') /\ ~Wrote(i)
    <3>1. i.pc # "create" BY <1>7 DEF ReconcilerSound
    <3>2. t = Broadcast(s) \/ t = Receipt(s) BY <1>1
    <3> QED BY <1>7, <3>1, <3>2, KindSound DEF Wrote
  <2>2. TaskSound(Completion(s), At("hooks", s), db, claims') BY <1>5, AtSound
  <2>3. ~Wrote(At("hooks", s)) BY Constants DEF Places, Wrote
  <2>4. Shape' BY <1>2, <1>3, <1>4, <1>5, <1>7 DEF PayInv, Shape
  <2>5. claims[s].st # "none" /\ claims[s].st # "queue" BY <1>3 DEF Signed
  <2>6. ASSUME NEW u \in Tasks
        PROVE  \/ task'[u] = task[u] /\ (u = Queue /\ claims[s].st = "queue" => c.st = "queue")
               \/ TaskSound(u, task'[u], db, claims') /\ ~Wrote(task'[u])
    <3>1. CASE u = t
      <4>1. task'[u] = i BY <1>4, <1>6, <1>7, <3>1
      <4> QED BY <2>1, <3>1, <4>1
    <3>2. CASE u # t
      BY <1>4, <1>7, <2>2, <2>3, <2>5, <3>2
    <3> QED BY <3>1, <3>2
  <2> HIDE DEF c
  <2> QED BY <1>2, <1>3, <1>5, <2>4, <2>5, <2>6, LearnStep DEF Carries
<1>8. ASSUME NEW i \in TaskRec, ReconcilerSound(s, i, db, claims'),
             \/ task' = [task EXCEPT ![t] = i]
             \/ task' = Completing([task EXCEPT ![t] = i], s)
             \/ task' = Reconciled([task EXCEPT ![t] = i], s, o)
      PROVE  PayInv'
  <2> DEFINE tasks == [task EXCEPT ![t] = i]
  <2>1. tasks \in [Tasks -> TaskRec] BY <1>4, <1>8
  <2>2. task' = tasks \/ task' = Completing(tasks, s) \/ task' = Reconciled(tasks, s, o) BY <1>8
  <2> HIDE DEF tasks, o
  <2>3. /\ task' \in [Tasks -> TaskRec]
        /\ \A u \in Tasks : task'[u] = tasks[u] \/ (u = Completion(s) /\ task'[u] = At("hooks", s))
    BY <2>1, <2>2, ReconciledShape
  <2> QED BY <1>7, <1>8, <2>3 DEF tasks
<1>9. Off \in TaskRec /\ ReconcilerSound(s, Off, db, claims') BY Constants DEF ReconcilerSound
<1>10. At("retry", s) \in TaskRec /\ ReconcilerSound(s, At("retry", s), db, claims')
  BY <1>5, Constants DEF ReconcilerSound, Places
<1>11. CASE t = Broadcast(s) /\ BroadcastTransition(s)
  <2> DEFINE i == IF Outcome(k) = "threw" /\ Up THEN At("retry", s) ELSE Off
  <2>1. i \in TaskRec /\ ReconcilerSound(s, i, db, claims') BY <1>9, <1>10
  <2>2. task' = [task EXCEPT ![t] = Off] \/ task' = Reconciled([task EXCEPT ![t] = i], s, o)
    BY <1>11 DEF BroadcastTransition, Goto
  <2> HIDE DEF i, o
  <2> QED BY <1>8, <1>9, <2>1, <2>2
<1>12. CASE t = Receipt(s) /\ ReceiptSettled(s)
  BY <1>8, <1>9, <1>12 DEF ReceiptSettled, Goto
<1>13. CASE t = Receipt(s) /\ ReceiptLost(s)
  <2> DEFINE i == IF Outcome(k) = "lost" THEN Settle(s, c, k.new.st, k.try + 1)
                  ELSE IF Up THEN At("retry", s) ELSE Off
  <2>1. k.try + 1 \in Nat BY <1>3 DEF TaskRec
  <2>2. k.new.st \in {"prepared", "pending", "confirmed", "reverted"}
    BY <1>1, <1>3 DEF ReconcilerSound, Carries, Signed
  <2>3. i \in TaskRec /\ ReconcilerSound(s, i, db, claims')
    <3>1. Agrees(db[s], c) BY <1>3 DEF Carries
    <3> HIDE DEF c
    <3>2. /\ Settle(s, c, k.new.st, k.try + 1) \in TaskRec
          /\ ReconcilerSound(s, Settle(s, c, k.new.st, k.try + 1), db, claims')
      BY <1>3, <1>5, <2>1, <2>2, <3>1, SettleSound
    <3> QED BY <1>9, <1>10, <3>2
  <2>4. task' = Reconciled([task EXCEPT ![t] = i], s, o)
    BY <1>13 DEF ReceiptLost
  <2> HIDE DEF i, o
  <2> QED BY <1>8, <2>3, <2>4
<1> QED BY <1>1, <1>11, <1>12, <1>13

\* completeConfirmedClaim ends or tries again.
LEMMA CompletionOverSound ==
  ASSUME PayInv, NEW s \in Sessions, CompletionDone(s) \/ FinalizeRetry(s)
  PROVE  PayInv'
<1> DEFINE t == Completion(s)
           k == task[t]
           c == IF k.pc = "read" /\ k.reply = "ok" THEN k.row.claim ELSE claims[s]
<1>1. t \in Tasks /\ task \in [Tasks -> TaskRec] /\ claims \in [Sessions -> ClaimRec] /\ k \in TaskRec
  BY AreTasks DEF PayInv, Shape
<1>2. CompletionSound(s, k, db, claims) BY <1>1, KindSound DEF PayInv, TasksSound
<1>3. /\ UNCHANGED <<db, pool, mined, chainNonce, nonce, nextIdx, signed>>
      /\ reserved' \subseteq reserved
      /\ k.pc # "off"
  BY DEF CompletionDone, FinalizeRetry, CompletionFrame, Forget, ReconcileTerminal
<1>4. claims' = [claims EXCEPT ![s] = c] BY DEF CompletionDone, FinalizeRetry
<1>5. Signed(claims[s]) /\ Carries(db[s], claims[s])
  BY <1>2, <1>3 DEF CompletionSound, PayInv, RowsSound, MemorySound, Carries
<1>6. Carries(db[s], c) BY <1>2, <1>5 DEF CompletionSound
<1>7. c \in ClaimRec BY <1>1 DEF TaskRec, RowRec
<1> HIDE DEF c
<1>8. claims'[s] = c /\ Signed(claims'[s]) BY <1>1, <1>4, <1>6 DEF Carries
<1> DEFINE fin == [At("finalize", s) EXCEPT !.exp = c]
           good == {Off, At("hooks", s), fin}
<1>9. \A j \in good : j \in TaskRec /\ ~Wrote(j) /\ TaskSound(t, j, db, claims')
  <2>1. At("finalize", s) \in TaskRec /\ At("finalize", s).pc = "finalize" /\ At("finalize", s).s = s
    BY Constants DEF Places
  <2>2. fin \in TaskRec /\ fin.pc = "finalize" /\ fin.s = s BY <1>7, <2>1 DEF TaskRec
  <2> HIDE DEF fin
  <2>3. CompletionSound(s, fin, db, claims') BY <1>8, <2>2 DEF CompletionSound
  <2>4. TaskSound(t, fin, db, claims') BY <2>3, KindSound
  <2>5. TaskSound(t, Off, db, claims') /\ TaskSound(t, At("hooks", s), db, claims') BY <1>8, AtSound
  <2>6. Off \in TaskRec /\ Off.pc = "off" /\ At("hooks", s) \in TaskRec /\ At("hooks", s).pc = "hooks"
    BY Constants DEF Places
  <2> QED BY <2>2, <2>4, <2>5, <2>6 DEF Wrote
<1>10. task' \in [Tasks -> TaskRec] /\ \A u \in Tasks : task'[u] = task[u] \/ (u = t /\ task'[u] \in good)
  <2>1. CASE CompletionDone(s)
    <3>1. task' = [task EXCEPT ![t] = Off] BY <2>1 DEF CompletionDone, Goto
    <3> QED BY <1>1, <1>9, <3>1
  <2>2. CASE FinalizeRetry(s)
    <3>1. PICK j \in good : \E o : task' = Reconciled([task EXCEPT ![t] = j], s, o)
      BY <2>2 DEF FinalizeRetry, c
    <3> DEFINE tasks == [task EXCEPT ![t] = j]
    <3>2. tasks \in [Tasks -> TaskRec] /\ \A u \in Tasks : tasks[u] = task[u] \/ (u = t /\ tasks[u] \in good)
      BY <1>1, <1>9
    <3>3. PICK o : task' = Reconciled(tasks, s, o) BY <3>1
    <3> HIDE DEF tasks
    <3>4. /\ task' \in [Tasks -> TaskRec]
          /\ \A u \in Tasks : task'[u] = tasks[u] \/ (u = Completion(s) /\ task'[u] = At("hooks", s))
      BY <3>2, <3>3, ReconciledShape
    <3> QED BY <3>2, <3>4
  <2> QED BY <2>1, <2>2
<1> HIDE DEF good
<1>11. Shape' BY <1>1, <1>3, <1>4, <1>7, <1>10 DEF PayInv, Shape
<1>12. claims[s].st # "none" /\ claims[s].st # "queue" BY <1>5 DEF Signed
<1>13. ASSUME NEW u \in Tasks
       PROVE  \/ task'[u] = task[u] /\ (u = Queue /\ claims[s].st = "queue" => c.st = "queue")
              \/ TaskSound(u, task'[u], db, claims') /\ ~Wrote(task'[u])
  BY <1>9, <1>10, <1>12
<1> QED BY <1>3, <1>4, <1>6, <1>11, <1>12, <1>13, LearnStep DEF Carries

\* The handler that wrote the claim takes it into memory.
LEMMA ClaimCreatedSound ==
  ASSUME PayInv, NEW r \in Requests, ClaimCreated(r)
  PROVE  PayInv'
<1> DEFINE t == Request(r)
           k == task[t]
           a == k.s
           c == k.new
<1>1. t \in Tasks /\ task \in [Tasks -> TaskRec] /\ k \in TaskRec /\ claims \in [Sessions -> ClaimRec]
  BY AreTasks DEF PayInv, Shape
<1>2. RequestSound(k, db, claims) BY <1>1, KindSound DEF PayInv, TasksSound
<1>3. /\ UNCHANGED <<db, pool, mined, chainNonce, nonce, nextIdx, signed, reserved>>
      /\ k.pc = "create" /\ task' = [task EXCEPT ![t] = Off]
  BY DEF ClaimCreated, durable, wallet, bounds, Goto
<1>4. ChainSound' BY <1>3, ChainSame DEF PayInv
<1>5. a \in Sessions /\ c.st = "queue" /\ c.tx = NoTx /\ c \in ClaimRec
  BY <1>1, <1>2, <1>3 DEF RequestSound, TaskRec
<1>6. Off \in TaskRec /\ Off.pc = "off" BY Constants
<1>7. \A D, C : TaskSound(t, Off, D, C) BY <1>5, AtSound
<1>8. CASE k.reply # "ok"
  <2>1. UNCHANGED claims BY <1>8 DEF ClaimCreated
  <2>2. /\ nonce' \in Nat /\ nextIdx' \in Nat /\ signed' \in Nat /\ reserved' \subseteq TxRec
    BY <1>3 DEF PayInv, Shape
  <2> QED BY <1>1, <1>3, <1>4, <1>6, <1>7, <2>1, <2>2, OneTaskStep DEF Wrote
<1>9. CASE k.reply = "ok"
  <2>1. claims' = [claims EXCEPT ![a] = c] BY <1>9 DEF ClaimCreated
  <2>2. db[a].status # "claimable" /\ claims[a] = NoClaim BY <1>2, <1>3, <1>9 DEF RequestSound, Wrote
  <2>3. MemorySound(db[a], c) BY <1>5, <2>2 DEF MemorySound, Agrees, Signed
  <2>4. ~Signed(claims[a]) /\ claims[a].st # "queue" BY <2>2, Constants
  <2>5. Shape' BY <1>1, <1>3, <1>5, <1>6, <2>1 DEF PayInv, Shape
  <2>6. ASSUME NEW u \in Tasks
        PROVE  \/ /\ task'[u] = task[u]
                  /\ u = Queue /\ claims[a].st = "queue" => c.st = "queue"
                  /\ IsRequest(u) /\ Wrote(task[u]) => task[u].s # a
               \/ /\ TaskSound(u, task'[u], db, claims')
                  /\ IsRequest(u) => ~Wrote(task'[u])
    <3>1. CASE u = t
      <4>1. task'[u] = Off BY <1>1, <1>3, <3>1
      <4> QED BY <1>6, <1>7, <3>1, <4>1 DEF Wrote
    <3>2. CASE u # t
      <4>1. task'[u] = task[u] BY <1>1, <1>3, <3>2
      <4>2. ASSUME IsRequest(u), Wrote(task[u]) PROVE task[u].s # a
        <5>1. PICK q \in Requests : u = Request(q) BY <4>2 DEF IsRequest
        <5>2. Wrote(k) BY <1>3, <1>9 DEF Wrote
        <5> QED BY <3>2, <4>2, <5>1, <5>2 DEF PayInv, OneCreator
      <4> QED BY <2>4, <4>1, <4>2
    <3> QED BY <3>1, <3>2
  <2> HIDE DEF c, a
  <2> QED BY <1>3, <1>4, <1>5, <2>1, <2>3, <2>4, <2>5, <2>6, ClaimStep
<1> QED BY <1>8, <1>9

-----------------------------------------------------------------------------
(* Shutdown, crash and restart.                                            *)

\* Shutdown only sets a flag; a stopped process has no memory.
LEMMA StopSound ==
  ASSUME PayInv, Dispose \/ Stop
  PROVE  PayInv'
<1>1. CASE Dispose
  <2>1. UNCHANGED <<db, claims, task, pool, mined, chainNonce, nonce, nextIdx, signed, reserved>>
    BY <1>1 DEF Dispose, durable, memory, wallet, bounds
  <2>2. ChainSound' BY <2>1, ChainSame DEF PayInv
  <2>3. Shape' BY <2>1 DEF PayInv, Shape
  <2> QED BY <2>1, <2>2, <2>3, TaskStep
<1>2. CASE Stop
  <2>1. /\ UNCHANGED <<db, pool, mined, chainNonce, signed>>
        /\ claims' = [s \in Sessions |-> NoClaim] /\ task' = [t \in Tasks |-> Off]
        /\ nonce' = 0 /\ nextIdx' = 1 /\ reserved' = {}
    BY <1>2 DEF Stop, durable
  <2>2. Shape' BY <2>1, Constants DEF PayInv, Shape
  <2>3. RowsSound' BY <2>1, Constants DEF PayInv, RowsSound, MemorySound, Agrees
  <2>4. TasksSound'
    <3> SUFFICES ASSUME NEW t \in Tasks PROVE TaskSound(t, task'[t], db', claims') BY DEF TasksSound
    <3>1. task'[t].pc = "off" BY <2>1, Constants
    <3> QED BY <3>1 DEF TaskSound, QueueSound, RequestSound, ReconcilerSound, CompletionSound, Wrote
  <2>5. OneCreator' BY <2>1, Constants, AreTasks DEF OneCreator, Wrote
  <2>6. ChainSound' BY <2>1, ChainSame DEF PayInv
  <2> QED BY <2>2, <2>3, <2>4, <2>5, <2>6 DEF PayInv
<1> QED BY <1>1, <1>2

\* initialize takes the claims of the rows into memory and starts the tasks
\* of signed claims.
LEMMA InitializeSound ==
  ASSUME PayInv, ClaimAssumption, Initialize
  PROVE  PayInv'
<1> DEFINE active == Claiming({"prepared", "pending"})
           confirmed == Claiming({"confirmed"})
           owned == Claiming({"queue"}) \union active \union confirmed
           txs == {db[s].claim.tx : s \in active}
<1>1. /\ UNCHANGED <<db, pool, mined, chainNonce, signed>>
      /\ claims' = [s \in Sessions |-> IF s \in owned THEN db[s].claim ELSE NoClaim]
      /\ task' = [t \in Tasks |->
                    IF t \in {Broadcast(s) : s \in active} THEN At("send", t[2])
                    ELSE IF t \in {Receipt(s) : s \in active} THEN At("watch", t[2])
                    ELSE IF t \in {Completion(s) : s \in confirmed} THEN At("hooks", t[2])
                    ELSE Off]
      /\ reserved' = txs /\ LoadWalletState(txs, NonceAbove(0, txs))
  BY DEF Initialize, durable, bounds
<1>2. /\ active \subseteq Sessions /\ confirmed \subseteq Sessions /\ owned \subseteq Sessions
      /\ \A s \in active \union confirmed : s \in owned /\ Signed(db[s].claim)
      /\ \A s \in owned : db[s].status = "claiming"
  BY DEF Claiming, Signed
<1>3. db \in [Sessions -> RowRec] BY DEF PayInv, Shape
<1>4. \A s \in Sessions : db[s].claim \in ClaimRec /\ db[s].claim.tx \in TxRec /\ db[s].claim.idx \in Nat
  BY <1>3 DEF RowRec, ClaimRec
<1>5. txs \subseteq TxRec BY <1>2, <1>4
<1>6. nonce' \in Nat
  <2>1. NonceAbove(0, txs) \subseteq Nat BY <1>5 DEF NonceAbove, TxRec
  <2> HIDE DEF txs
  <2> QED BY <1>1, <1>5, <2>1, LoadedNonce
<1>7. nextIdx' \in Nat
  <2> DEFINE idxs == {db[s].claim.idx : s \in Claiming(ClaimTxStatus \union {"processing"})}
  <2>1. PICK m \in idxs \union {0} : nextIdx' = m + 1 BY DEF Initialize
  <2>2. idxs \subseteq Nat BY <1>4 DEF Claiming
  <2> HIDE DEF idxs
  <2>3. m \in Nat BY <2>1, <2>2
  <2> QED BY <2>1, <2>3
<1> HIDE DEF active, confirmed, owned, txs
<1>8. ASSUME NEW t \in Tasks
      PROVE  \/ task'[t] = Off
             \/ \E s \in active : t = Broadcast(s) /\ task'[t] = At("send", s)
             \/ \E s \in active : t = Receipt(s) /\ task'[t] = At("watch", s)
             \/ \E s \in confirmed : t = Completion(s) /\ task'[t] = At("hooks", s)
  <2>1. \A s : Broadcast(s)[2] = s /\ Receipt(s)[2] = s /\ Completion(s)[2] = s
    BY DEF Broadcast, Receipt, Completion
  <2> QED BY <1>1, <2>1
<1>9. \A s \in active \union confirmed : s \in Sessions /\ Signed(claims'[s]) BY <1>1, <1>2
<1>10. ASSUME NEW t \in Tasks
       PROVE  task'[t] \in TaskRec /\ ~Wrote(task'[t]) /\ TaskSound(t, task'[t], db, claims')
  <2>1. CASE task'[t] = Off
    <3>1. task'[t].pc = "off" /\ task'[t] \in TaskRec BY <2>1, Constants
    <3> QED BY <3>1 DEF TaskSound, QueueSound, RequestSound, ReconcilerSound, CompletionSound, Wrote
  <2>2. ASSUME NEW s \in active, t = Broadcast(s), task'[t] = At("send", s)
        PROVE  task'[t] \in TaskRec /\ ~Wrote(task'[t]) /\ TaskSound(t, task'[t], db, claims')
    <3>1. s \in Sessions /\ Signed(claims'[s]) BY <1>9
    <3>2. At("send", s) \in TaskRec /\ At("send", s).pc = "send" BY <3>1, Constants DEF Places
    <3>3. TaskSound(Broadcast(s), At("send", s), db, claims') BY <3>1, AtSound
    <3> QED BY <2>2, <3>2, <3>3 DEF Wrote
  <2>3. ASSUME NEW s \in active, t = Receipt(s), task'[t] = At("watch", s)
        PROVE  task'[t] \in TaskRec /\ ~Wrote(task'[t]) /\ TaskSound(t, task'[t], db, claims')
    <3>1. s \in Sessions /\ Signed(claims'[s]) BY <1>9
    <3>2. At("watch", s) \in TaskRec /\ At("watch", s).pc = "watch" BY <3>1, Constants DEF Places
    <3>3. TaskSound(Receipt(s), At("watch", s), db, claims') BY <3>1, AtSound
    <3> QED BY <2>3, <3>2, <3>3 DEF Wrote
  <2>4. ASSUME NEW s \in confirmed, t = Completion(s), task'[t] = At("hooks", s)
        PROVE  task'[t] \in TaskRec /\ ~Wrote(task'[t]) /\ TaskSound(t, task'[t], db, claims')
    <3>1. s \in Sessions /\ Signed(claims'[s]) BY <1>9
    <3>2. At("hooks", s) \in TaskRec /\ At("hooks", s).pc = "hooks" BY <3>1, Constants DEF Places
    <3>3. TaskSound(Completion(s), At("hooks", s), db, claims') BY <3>1, AtSound
    <3> QED BY <2>4, <3>2, <3>3 DEF Wrote
  <2> QED BY <1>8, <2>1, <2>2, <2>3, <2>4
<1>11. Shape'
  <2>1. claims' \in [Sessions -> ClaimRec] BY <1>1, <1>4, Constants
  <2>2. task' \in [Tasks -> TaskRec] BY <1>1, <1>10
  <2> QED BY <1>1, <1>5, <1>6, <1>7, <2>1, <2>2 DEF PayInv, Shape
<1>12. RowsSound'
  <2> SUFFICES ASSUME NEW s \in Sessions PROVE MemorySound(db[s], claims'[s])
    BY <1>1 DEF PayInv, RowsSound
  <2>1. CASE s \in owned
    BY <1>1, <1>2, <2>1 DEF MemorySound, Agrees, PayInv, RowsSound, RowSound
  <2>2. CASE s \notin owned
    BY <1>1, <2>2, Constants DEF MemorySound, Agrees
  <2> QED BY <2>1, <2>2
<1>13. TasksSound' BY <1>1, <1>10 DEF TasksSound
<1>14. OneCreator' BY <1>10, AreTasks DEF OneCreator
<1>15. ChainSound' BY <1>1, ChainSame DEF PayInv
<1> QED BY <1>11, <1>12, <1>13, <1>14, <1>15 DEF PayInv

-----------------------------------------------------------------------------
(* The theorems.                                                           *)

\* PayInv is inductive.
LEMMA StepSound == PayInv /\ ClaimAssumption /\ [Next]_vars => PayInv'
<1> SUFFICES ASSUME PayInv, ClaimAssumption, [Next]_vars PROVE PayInv' OBVIOUS
<1>1. CASE \E t \in Tasks : Database(t)
  BY <1>1, TryCreateClaimSound, CompareAndSetClaimSound, FinalizeConfirmedRowSound, GetSessionSound
     DEF Database
<1>2. CASE \E t \in Transitioners : TransitionRetry(t) BY <1>2, TransitionRetrySound
<1>3. CASE \E r \in Requests : Create(r) \/ \E s \in Sessions : ClaimReward(r, s)
  BY <1>3, HandlersSound, ClaimCreatedSound DEF Create
<1>4. CASE ProcessQueue \/ RunQueue BY <1>4, QueueStepsSound, QueueOverSound DEF RunQueue
<1>5. CASE \E s \in Sessions : Rebroadcast(s) \/ AwaitReceipt(s) \/ Complete(s) \/ TryTimeoutSession(s)
  BY <1>5, ReconcilerStepsSound, ReconcilerOverSound, CompletionOverSound, TryTimeoutSessionSound
     DEF Rebroadcast, AwaitReceipt, Complete
<1>6. CASE \E x \in pool : Mine(x) BY <1>6, MineSound
<1>7. CASE Dispose \/ Stop \/ Initialize BY <1>7, StopSound, InitializeSound
<1>8. CASE UNCHANGED vars
  <2>1. UNCHANGED <<db, claims, task, pool, mined, chainNonce, nonce, nextIdx, signed, reserved>>
    BY <1>8 DEF vars, durable, memory, wallet, bounds
  <2>2. ChainSound' BY <2>1, ChainSame DEF PayInv
  <2>3. Shape' BY <2>1 DEF PayInv, Shape
  <2> QED BY <2>1, <2>2, <2>3, TaskStep
<1> QED BY <1>1, <1>2, <1>3, <1>4, <1>5, <1>6, <1>7, <1>8 DEF Next

\* Whatever crashes, lost acknowledgements, retries and reorderings happen,
\* every copy of a claim agrees with the bytes of its row.
THEOREM PayInvariance == Spec => []PayInv
<1>1. PayInv /\ [Next]_vars => PayInv' BY StepSound, ClaimAssumption
<1> QED BY InitSound, <1>1, PTL DEF Spec

\* prepareClaimTx, the CAS and rebroadcastClaim together: bytes are broadcast
\* only after their row holds them, and the row keeps them for good.
THEOREM DurableFirst == Spec => []DurableBeforeBroadcast
<1>1. PayInv => DurableBeforeBroadcast BY DEF PayInv, ChainSound, DurableBeforeBroadcast
<1> QED BY PayInvariance, <1>1, PTL

\* The pipeline pays a session at most once.
THEOREM PaidOnce == Spec => []AtMostOnePayout
<1>1. PayInv => AtMostOnePayout
  <2> SUFFICES ASSUME PayInv, NEW p \in mined, NEW q \in mined, p.tx.s = q.tx.s PROVE p = q
    BY DEF AtMostOnePayout
  <2>1. p.tx \in pool /\ q.tx \in pool BY DEF PayInv, ChainSound
  <2>2. p.tx = db[p.tx.s].claim.tx /\ q.tx = db[q.tx.s].claim.tx BY <2>1 DEF PayInv, ChainSound
  <2>3. p.tx = q.tx BY <2>2
  <2> QED BY <2>3 DEF PayInv, ChainSound
<1> QED BY PayInvariance, <1>1, PTL

-----------------------------------------------------------------------------
(***************************************************************************)
(* What the rows of the session table say about a payout is true, for      *)
(* every number of sessions, handlers, restarts and database errors: a     *)
(* failed session was not paid and cannot be, a finished one was paid and  *)
(* accounted for.  It follows that the pipeline implements ClaimLedger.    *)
(*                                                                         *)
(* The argument: a claim gets the status "confirmed" or "reverted" only    *)
(* from a receipt, so that every copy of a claim with one of them has its  *)
(* transaction on the chain with that outcome; PayInv adds that this is    *)
(* the only transaction of the session.  A completion runs only for a paid *)
(* session and finalizes only after the hooks.                             *)
(***************************************************************************)

(* The inductive invariant.  M and B stand for mined and booked.           *)

\* The chain has executed the transaction of claim c with the outcome c says.
Evident(c, M) ==
  /\ c.st = "confirmed" => \E m \in M : m.tx = c.tx /\ m.ok
  /\ c.st = "reverted" => \E m \in M : m.tx = c.tx /\ ~m.ok

\* Session s has a successful transaction in M.
PaidIn(s, M) == \E m \in M : m.tx.s = s /\ m.ok

\* The status of a row and its claim fit together, and fit the chain.
RowTrue(s, row, M, B) ==
  /\ Evident(row.claim, M)
  /\ row.status = "claimable" => row.claim.st = "none"
  /\ row.status = "failed" => row.claim.st \in {"none", "failed", "reverted"}
  /\ row.status = "finished" => row.claim.st = "confirmed" /\ s \in B
  /\ row.status # "none"
  /\ s \in Legacy => row.status = "claiming" /\ row.claim.st = "processing"

\* What a task carries is true.  settleClaim and rebroadcastClaim only replace
\* an active claim, and completeConfirmedClaim works on a paid session.
TaskTrue(t, k, M, B) ==
  /\ Evident(k.exp, M) /\ Evident(k.new, M) /\ Evident(k.row.claim, M)
  /\ \A s \in Sessions :
       /\ t \in {Broadcast(s), Receipt(s)} /\ k.pc \in {"cas", "read"} => IsActiveSigned(k.exp)
       /\ t = Completion(s) /\ k.pc # "off" => PaidIn(s, M)
       /\ t = Completion(s) /\ k.pc \in {"finalize", "read"} => s \in B
       /\ t = Completion(s) /\ k.pc = "finalize" => k.exp.st = "confirmed"

RowsTrue == \A s \in Sessions : RowTrue(s, db[s], mined, booked) /\ Evident(claims[s], mined)
TasksTrue == \A t \in Tasks : TaskTrue(t, task[t], mined, booked)

OutcomeInv == RowsTrue /\ TasksTrue

-----------------------------------------------------------------------------
(* Facts about claims and tasks.                                           *)

\* The records of an idle task and of a call carry the claims they are given.
LEMMA Carried ==
  /\ ~Signed(NoClaim) /\ Off.exp = NoClaim /\ Off.new = NoClaim /\ Off.row.claim = NoClaim
  /\ \A p, s : /\ At(p, s).exp = NoClaim /\ At(p, s).new = NoClaim
               /\ At(p, s).row.claim = NoClaim /\ At(p, s).pc = p
  /\ \A s, c, d : /\ CasCall(s, c, d).exp = c /\ CasCall(s, c, d).new = d
                  /\ CasCall(s, c, d).row.claim = NoClaim /\ CasCall(s, c, d).pc = "cas"
BY DEF Off, At, CasCall, NoRow, NoClaim, Signed

\* A claim without a final outcome needs no evidence.
LEMMA NoEvidence == \A c, M : c.st \notin {"confirmed", "reverted"} => Evident(c, M)
BY DEF Evident

\* An empty claim is evident.
LEMMA NoClaimEvident == \A M : Evident(NoClaim, M)
BY Constants, NoEvidence

\* The chain forgets nothing and the hooks are not undone.
LEMMA TrueKept ==
  ASSUME NEW M, NEW M2, M \subseteq M2, NEW B, NEW B2, B \subseteq B2
  PROVE  /\ \A c : Evident(c, M) => Evident(c, M2)
         /\ \A s : PaidIn(s, M) => PaidIn(s, M2)
         /\ \A s, row : RowTrue(s, row, M, B) => RowTrue(s, row, M2, B2)
         /\ \A t, k : TaskTrue(t, k, M, B) => TaskTrue(t, k, M2, B2)
<1>1. \A c : Evident(c, M) => Evident(c, M2) BY DEF Evident
<1>2. \A s : PaidIn(s, M) => PaidIn(s, M2) BY DEF PaidIn
<1>3. ASSUME NEW s, NEW row, RowTrue(s, row, M, B) PROVE RowTrue(s, row, M2, B2)
  BY <1>1, <1>3 DEF RowTrue
<1>4. ASSUME NEW t, NEW k, TaskTrue(t, k, M, B) PROVE TaskTrue(t, k, M2, B2)
  BY <1>1, <1>2, <1>4 DEF TaskTrue
<1> QED BY <1>1, <1>2, <1>3, <1>4

\* A confirmed copy of the claim of s proves that s was paid.
LEMMA ConfirmedIsPaid ==
  ASSUME PayInv, NEW s \in Sessions, NEW c, Agrees(db[s], c), Evident(c, mined), c.st = "confirmed"
  PROVE  PaidIn(s, mined)
<1>1. c.tx.s = s BY DEF Agrees, Signed, PayInv, RowsSound, RowSound
<1> QED BY <1>1 DEF Evident, PaidIn

\* Program points at which a task holds no claim.
LEMMA AtTrue ==
  ASSUME NEW M, NEW B, NEW t, NEW p, NEW s,
         \A u \in Sessions : t \in {Broadcast(u), Receipt(u)} => p \notin {"cas", "read"},
         \A u \in Sessions : t = Completion(u) =>
           \/ p = "off"
           \/ p = "hooks" /\ PaidIn(u, M)
           \/ p = "read" /\ PaidIn(u, M) /\ u \in B
  PROVE  TaskTrue(t, At(p, s), M, B)
<1> DEFINE k == At(p, s)
<1>1. k.pc = p /\ k.exp = NoClaim /\ k.new = NoClaim /\ k.row.claim = NoClaim BY Carried
<1> HIDE DEF k
<1>2. TaskTrue(t, k, M, B) BY <1>1, NoClaimEvident DEF TaskTrue
<1> QED BY <1>2 DEF k

\* A task that is off.
LEMMA OffTrue == \A t, M, B : TaskTrue(t, Off, M, B)
BY Carried, Constants, NoClaimEvident DEF TaskTrue

\* A call of the queue.
LEMMA QueueCallTrue ==
  ASSUME NEW M, NEW B, NEW s, NEW c, Evident(c, M), NEW d, Evident(d, M)
  PROVE  TaskTrue(Queue, CasCall(s, c, d), M, B)
<1> DEFINE k == CasCall(s, c, d)
<1>1. k.exp = c /\ k.new = d /\ k.row.claim = NoClaim BY Carried
<1> HIDE DEF k
<1>2. TaskTrue(Queue, k, M, B) BY <1>1, NoClaimEvident, KindsDiffer DEF TaskTrue
<1> QED BY <1>2 DEF k

\* A call of settleClaim or rebroadcastClaim, at any attempt.
LEMMA ReconcilerCallTrue ==
  ASSUME NEW M, NEW B, NEW s \in Sessions, NEW t \in {Broadcast(s), Receipt(s)},
         NEW c \in ClaimRec, IsActiveSigned(c), NEW d \in ClaimRec, Evident(d, M), NEW n \in Nat
  PROVE  /\ TaskTrue(t, CasCall(s, c, d), M, B)
         /\ TaskTrue(t, [CasCall(s, c, d) EXCEPT !.try = n], M, B)
<1> DEFINE k == CasCall(s, c, d)
           j == [k EXCEPT !.try = n]
<1>1. k \in TaskRec /\ k.exp = c /\ k.new = d /\ k.row.claim = NoClaim BY Carried, CasCallShape
<1> HIDE DEF k
<1>2. j.exp = c /\ j.new = d /\ j.row.claim = NoClaim BY <1>1 DEF TaskRec
<1> HIDE DEF j
<1>3. Evident(c, M) BY DEF Evident, IsActiveSigned
<1>4. \A u \in Sessions : t # Completion(u) BY KindsDiffer
<1>5. TaskTrue(t, k, M, B) /\ TaskTrue(t, j, M, B) BY <1>1, <1>2, <1>3, <1>4, NoClaimEvident DEF TaskTrue
<1> QED BY <1>5 DEF k, j

-----------------------------------------------------------------------------
(* The initial state and the steps.                                        *)

\* Nothing is paid, and the rows are claimable or of an older version.
LEMMA InitTrue == Init => OutcomeInv
<1> SUFFICES ASSUME Init PROVE OutcomeInv OBVIOUS
<1> USE DEF Init
<1>1. ASSUME NEW s \in Sessions PROVE RowTrue(s, db[s], mined, booked) /\ Evident(claims[s], mined)
  <2>1. CASE s \in Legacy
    <3>1. db[s].status = "claiming" /\ db[s].claim.st = "processing" BY <2>1 DEF NoClaim
    <3> QED BY <3>1, NoEvidence, NoClaimEvident DEF RowTrue
  <2>2. CASE s \notin Legacy
    <3>1. db[s].status = "claimable" /\ db[s].claim = NoClaim BY <2>2
    <3> QED BY <2>2, <3>1, NoClaimEvident, Constants DEF RowTrue
  <2> QED BY <2>1, <2>2
<1>2. TasksTrue BY OffTrue DEF TasksTrue
<1> QED BY <1>1, <1>2 DEF OutcomeInv, RowsTrue

\* A step that leaves the rows and the chain alone.
LEMMA QuietStep ==
  ASSUME OutcomeInv, UNCHANGED <<db, mined>>, booked \subseteq booked',
         \A s \in Sessions : Evident(claims'[s], mined),
         \A t \in Tasks : task'[t] = task[t] \/ TaskTrue(t, task'[t], mined, booked')
  PROVE  OutcomeInv'
<1>1. RowsTrue' BY TrueKept DEF OutcomeInv, RowsTrue
<1>2. TasksTrue' BY TrueKept DEF OutcomeInv, TasksTrue
<1> QED BY <1>1, <1>2 DEF OutcomeInv

\* A step of one task that changes no claim in memory either.
LEMMA QuietTaskStep ==
  ASSUME PayInv, OutcomeInv, UNCHANGED <<db, mined, claims>>, booked \subseteq booked',
         NEW t \in Tasks, NEW k, task' = [task EXCEPT ![t] = k], TaskTrue(t, k, mined, booked')
  PROVE  OutcomeInv'
<1>1. \A u \in Tasks : task'[u] = task[u] \/ TaskTrue(u, task'[u], mined, booked') BY DEF PayInv, Shape
<1>2. \A s \in Sessions : Evident(claims'[s], mined) BY DEF OutcomeInv, RowsTrue
<1> QED BY <1>1, <1>2, QuietStep

\* A step of the chain.
LEMMA MineTrue ==
  ASSUME OutcomeInv, NEW x \in pool, Mine(x)
  PROVE  OutcomeInv'
<1>1. mined \subseteq mined' /\ UNCHANGED <<db, booked, claims, task>> BY DEF Mine, memory
<1> QED BY <1>1, TrueKept DEF OutcomeInv, RowsTrue, TasksTrue

-----------------------------------------------------------------------------
(* Steps of the database.                                                  *)

\* A reply leaves what a task carries alone.
LEMMA AnsweredTrue ==
  ASSUME NEW t, NEW k \in TaskRec, NEW M, NEW B, TaskTrue(t, k, M, B),
         NEW x \in {"none", "ok", "no", "error"}
  PROVE  TaskTrue(t, [k EXCEPT !.reply = x], M, B)
<1> DEFINE j == [k EXCEPT !.reply = x]
<1>1. j.pc = k.pc /\ j.exp = k.exp /\ j.new = k.new /\ j.row = k.row BY AnswerShape
<1> HIDE DEF j
<1>2. TaskTrue(t, j, M, B) BY <1>1 DEF TaskTrue
<1> QED BY <1>2 DEF j

\* An UPDATE whose new row is true.
LEMMA UpdateTrue ==
  ASSUME PayInv, OutcomeInv, NEW t \in Tasks, NEW hit \in BOOLEAN, NEW row2,
         task[t].s \in Sessions, Update(t, hit, row2), DbFrame,
         hit => RowTrue(task[t].s, row2, mined, booked)
  PROVE  OutcomeInv'
<1> DEFINE k == task[t]
           a == task[t].s
<1>1. k \in TaskRec /\ db \in [Sessions -> RowRec] /\ task \in [Tasks -> TaskRec]
  BY DEF PayInv, Shape
<1>2. UNCHANGED <<claims, mined, booked>> BY DEF DbFrame, memory
<1>3. PICK x \in {"ok", "no", "error"} :
        /\ task' = [task EXCEPT ![t] = [k EXCEPT !.reply = x]]
        /\ db' = db \/ (hit /\ db' = [db EXCEPT ![a] = row2])
  BY <1>1 DEF Update, Answer
<1>4. TaskTrue(t, [k EXCEPT !.reply = x], mined, booked)
  BY <1>1, <1>3, AnsweredTrue DEF OutcomeInv, TasksTrue
<1>5. TasksTrue' BY <1>1, <1>2, <1>3, <1>4 DEF OutcomeInv, TasksTrue
<1>6. \A s \in Sessions : db'[s] = db[s] \/ (hit /\ s = a /\ db'[s] = row2) BY <1>1, <1>3
<1>7. RowsTrue' BY <1>2, <1>6 DEF OutcomeInv, RowsTrue
<1> QED BY <1>5, <1>7 DEF OutcomeInv

\* tryCreateClaim writes a queued claim to a claimable row.
LEMMA TryCreateClaimTrue ==
  ASSUME PayInv, OutcomeInv, NEW t \in Tasks, TryCreateClaim(t)
  PROVE  OutcomeInv'
<1> DEFINE k == task[t]
           a == k.s
           row2 == [status |-> "claiming", claim |-> k.new]
           hit == db[a].status = "claimable" /\ db[a].claim = NoClaim
<1>1. TaskSound(t, k, db, claims) BY DEF PayInv, TasksSound
<1>2. k.pc = "create" /\ Update(t, hit, row2) /\ DbFrame BY DEF TryCreateClaim, Turn
<1>3. a \in Sessions /\ k.new.st = "queue" BY <1>1, <1>2, CallerKinds DEF RequestSound
<1>4. hit => RowTrue(a, row2, mined, booked)
  BY <1>3, NoEvidence DEF RowTrue, OutcomeInv, RowsTrue
<1> HIDE DEF row2, hit
<1>5. hit \in BOOLEAN BY DEF hit
<1> QED BY <1>2, <1>3, <1>4, <1>5, UpdateTrue

\* compareAndSetClaim replaces a queued or an active claim, so no legacy one,
\* and makes a row fail only with a claim that failed or reverted.
LEMMA CompareAndSetClaimTrue ==
  ASSUME PayInv, OutcomeInv, NEW t \in Tasks, CompareAndSetClaim(t)
  PROVE  OutcomeInv'
<1> DEFINE k == task[t]
           a == k.s
           to == IF k.new.st \in {"reverted", "failed"} THEN "failed" ELSE "claiming"
           row2 == [status |-> to, claim |-> k.new]
           hit == db[a].status = "claiming" /\ db[a].claim = k.exp
<1>1. TaskSound(t, k, db, claims) /\ TaskTrue(t, k, mined, booked)
  BY DEF PayInv, TasksSound, OutcomeInv, TasksTrue
<1>2. k.pc = "cas" /\ Update(t, hit, row2) /\ DbFrame BY DEF CompareAndSetClaim, Turn
<1>3. a \in Sessions /\ k.exp.st \in {"queue", "prepared", "pending"}
  <2>1. CASE t = Queue /\ QueueSound(k, db, claims) BY <1>2, <2>1 DEF QueueSound
  <2>2. ASSUME NEW s \in Sessions, t \in {Broadcast(s), Receipt(s)}, ReconcilerSound(s, k, db, claims)
        PROVE  a \in Sessions /\ k.exp.st \in {"prepared", "pending"}
    BY <1>1, <1>2, <2>2 DEF ReconcilerSound, TaskTrue, IsActiveSigned
  <2> QED BY <1>1, <1>2, <2>1, <2>2, CallerKinds
<1>4. ASSUME hit PROVE RowTrue(a, row2, mined, booked)
  <2>1. a \notin Legacy BY <1>3, <1>4 DEF OutcomeInv, RowsTrue, RowTrue
  <2>2. Evident(row2.claim, mined) BY <1>1 DEF TaskTrue
  <2> QED BY <2>1, <2>2 DEF RowTrue
<1> HIDE DEF row2, hit
<1>5. hit \in BOOLEAN BY DEF hit
<1> QED BY <1>2, <1>3, <1>4, <1>5, UpdateTrue

\* finalizeConfirmedRow finishes a confirmed row after the hooks.
LEMMA FinalizeConfirmedRowTrue ==
  ASSUME PayInv, OutcomeInv, NEW t \in Tasks, FinalizeConfirmedRow(t)
  PROVE  OutcomeInv'
<1> DEFINE k == task[t]
           a == k.s
           row2 == [db[a] EXCEPT !.status = "finished"]
           hit == db[a].status = "claiming" /\ db[a].claim = k.exp
<1>1. TaskSound(t, k, db, claims) /\ TaskTrue(t, k, mined, booked) /\ db \in [Sessions -> RowRec]
  BY DEF PayInv, TasksSound, OutcomeInv, TasksTrue, Shape
<1>2. k.pc = "finalize" /\ Update(t, hit, row2) /\ DbFrame BY DEF FinalizeConfirmedRow, Turn
<1>3. PICK s \in Sessions : t = Completion(s) /\ CompletionSound(s, k, db, claims)
  BY <1>1, <1>2, CallerKinds
<1>4. a = s /\ k.exp.st = "confirmed" /\ s \in booked
  BY <1>1, <1>2, <1>3 DEF CompletionSound, TaskTrue
<1>5. row2.status = "finished" /\ row2.claim = db[a].claim BY <1>1, <1>4 DEF RowRec
<1>6. ASSUME hit PROVE RowTrue(a, row2, mined, booked)
  BY <1>4, <1>5, <1>6 DEF OutcomeInv, RowsTrue, RowTrue
<1> HIDE DEF row2, hit
<1>7. hit \in BOOLEAN BY DEF hit
<1> QED BY <1>2, <1>4, <1>6, <1>7, UpdateTrue

\* getSession copies a true row.
LEMMA GetSessionTrue ==
  ASSUME PayInv, OutcomeInv, NEW t \in Tasks, GetSession(t)
  PROVE  OutcomeInv'
<1> DEFINE k == task[t]
           a == k.s
<1>1. /\ TaskSound(t, k, db, claims) /\ TaskTrue(t, k, mined, booked) /\ k \in TaskRec
      /\ task \in [Tasks -> TaskRec] /\ db \in [Sessions -> RowRec]
  BY DEF PayInv, TasksSound, OutcomeInv, TasksTrue, Shape
<1>2. k.pc = "read" /\ UNCHANGED <<db, claims, mined, booked>>
  BY DEF GetSession, Turn, DbFrame, memory
<1>3. a \in Sessions
  BY <1>1, <1>2, CallerKinds DEF QueueSound, ReconcilerSound, CompletionSound
<1>4. CASE task' = [task EXCEPT ![t] = [k EXCEPT !.reply = "error"]]
  <2>1. TaskTrue(t, [k EXCEPT !.reply = "error"], mined, booked) BY <1>1, AnsweredTrue
  <2> QED BY <1>2, <1>4, <2>1, QuietTaskStep
<1>5. CASE task' = [task EXCEPT ![t] = [k EXCEPT !.reply = "ok", !.row = db[a]]]
  <2> DEFINE j == [k EXCEPT !.reply = "ok", !.row = db[a]]
  <2>1. j.pc = k.pc /\ j.exp = k.exp /\ j.new = k.new /\ j.row = db[a] BY <1>1 DEF TaskRec
  <2>2. Evident(db[a].claim, mined) BY <1>3 DEF OutcomeInv, RowsTrue, RowTrue
  <2> HIDE DEF j
  <2>3. TaskTrue(t, j, mined, booked) BY <1>1, <2>1, <2>2 DEF TaskTrue
  <2>4. task' = [task EXCEPT ![t] = j] BY <1>5 DEF j
  <2> QED BY <1>2, <2>3, <2>4, QuietTaskStep
<1>6. \/ task' = [task EXCEPT ![t] = [k EXCEPT !.reply = "error"]]
      \/ task' = [task EXCEPT ![t] = [k EXCEPT !.reply = "ok", !.row = db[a]]]
  BY <1>1 DEF GetSession, Answer
<1> QED BY <1>4, <1>5, <1>6

\* A timeout fails a claimable row, which is no legacy one.
LEMMA TryTimeoutSessionTrue ==
  ASSUME PayInv, OutcomeInv, NEW a \in Sessions, TryTimeoutSession(a)
  PROVE  OutcomeInv'
<1>1. db \in [Sessions -> RowRec] BY DEF PayInv, Shape
<1>2. /\ UNCHANGED <<claims, task, mined, booked>>
      /\ db' = [db EXCEPT ![a] = [db[a] EXCEPT !.status = "failed"]]
      /\ db[a].status = "claimable" /\ db[a].claim = NoClaim
  BY <1>1 DEF TryTimeoutSession, memory
<1>3. db'[a].status = "failed" /\ db'[a].claim = NoClaim BY <1>1, <1>2 DEF RowRec
<1>4. \A s \in Sessions : s # a => db'[s] = db[s] BY <1>1, <1>2
<1>5. RowTrue(a, db'[a], mined, booked)
  BY <1>2, <1>3, NoClaimEvident, Constants DEF RowTrue, OutcomeInv, RowsTrue
<1>6. RowsTrue' BY <1>2, <1>4, <1>5 DEF OutcomeInv, RowsTrue
<1>7. TasksTrue' BY <1>2 DEF OutcomeInv, TasksTrue
<1> QED BY <1>6, <1>7 DEF OutcomeInv

-----------------------------------------------------------------------------
(* Steps of the handlers and of the queue.                                 *)

\* A handler carries no signed claim.
LEMMA RequestTrue ==
  ASSUME NEW M, NEW B, NEW r \in Requests, NEW k,
         Evident(k.exp, M), Evident(k.new, M), Evident(k.row.claim, M)
  PROVE  TaskTrue(Request(r), k, M, B)
BY KindsDiffer DEF TaskTrue

\* createSessionClaim up to its write, and its rejections.
LEMMA HandlersTrue ==
  ASSUME PayInv, OutcomeInv, NEW r \in Requests,
         RejectClaim(r) \/ CreateClaim(r) \/ \E s \in Sessions : ClaimReward(r, s)
  PROVE  OutcomeInv'
<1> DEFINE t == Request(r)
<1>1. t \in Tasks /\ UNCHANGED <<db, mined, booked, claims>>
  BY AreTasks DEF RejectClaim, CreateClaim, ClaimReward, durable, memory
<1>2. ASSUME NEW k, task' = [task EXCEPT ![t] = k],
             k.exp = NoClaim, k.new.st \in {"none", "queue"}, k.row.claim = NoClaim
      PROVE  OutcomeInv'
  <2>1. TaskTrue(t, k, mined, booked) BY <1>2, NoClaimEvident, NoEvidence, RequestTrue
  <2> QED BY <1>1, <1>2, <2>1, QuietTaskStep
<1>3. CASE RejectClaim(r)
  <2>1. task' = [task EXCEPT ![t] = Off] BY <1>3 DEF RejectClaim, Goto
  <2>2. Off.exp = NoClaim /\ Off.new.st = "none" /\ Off.row.claim = NoClaim BY Carried, Constants
  <2> QED BY <1>2, <2>1, <2>2
<1>4. CASE \E s \in Sessions : ClaimReward(r, s)
  <2>1. PICK s \in Sessions : task' = [task EXCEPT ![t] = At("hooks", s)] BY <1>4 DEF ClaimReward, Goto
  <2> DEFINE k == At("hooks", s)
  <2>2. k.exp = NoClaim /\ k.new.st = "none" /\ k.row.claim = NoClaim BY Carried, Constants
  <2> HIDE DEF k
  <2>3. task' = [task EXCEPT ![t] = k] BY <2>1 DEF k
  <2> QED BY <1>2, <2>2, <2>3
<1>5. CASE CreateClaim(r)
  <2> DEFINE k == [At("create", task[t].s) EXCEPT !.new = QueuedClaim(nextIdx)]
  <2>1. task' = [task EXCEPT ![t] = k] BY <1>5 DEF CreateClaim, Goto
  <2>2. k.exp = NoClaim /\ k.new = QueuedClaim(nextIdx) /\ k.row.claim = NoClaim
    BY DEF At, NoRow
  <2>3. k.new.st = "queue" BY <2>2 DEF QueuedClaim
  <2> HIDE DEF k
  <2> QED BY <1>2, <2>1, <2>2, <2>3
<1> QED BY <1>3, <1>4, <1>5

\* The handler takes its queued claim into memory.
LEMMA ClaimCreatedTrue ==
  ASSUME PayInv, OutcomeInv, NEW r \in Requests, ClaimCreated(r)
  PROVE  OutcomeInv'
<1> DEFINE t == Request(r)
           k == task[t]
<1>1. t \in Tasks /\ task \in [Tasks -> TaskRec] /\ claims \in [Sessions -> ClaimRec]
  BY AreTasks DEF PayInv, Shape
<1>2. UNCHANGED <<db, mined, booked>> /\ task' = [task EXCEPT ![t] = Off]
  BY DEF ClaimCreated, durable, Goto
<1>3. claims' = claims \/ claims' = [claims EXCEPT ![k.s] = k.new] BY DEF ClaimCreated
<1>4. Evident(k.new, mined) BY <1>1 DEF OutcomeInv, TasksTrue, TaskTrue
<1>5. \A s \in Sessions : Evident(claims'[s], mined)
  BY <1>1, <1>3, <1>4 DEF OutcomeInv, RowsTrue
<1>6. \A u \in Tasks : task'[u] = task[u] \/ TaskTrue(u, task'[u], mined, booked)
  BY <1>1, <1>2, OffTrue
<1> QED BY <1>2, <1>5, <1>6, QuietStep

\* The queue signs or fails a queued claim.
LEMMA QueueStepsTrue ==
  ASSUME PayInv, OutcomeInv,
         \/ ProcessQueue \/ ProcessQueueTx \/ PrepareClaimTx \/ PrepareFails
         \/ QueueAborted \/ QueueDone
  PROVE  OutcomeInv'
<1>1. Queue \in Tasks /\ UNCHANGED <<db, mined, booked, claims>>
  BY AreTasks DEF ProcessQueue, ProcessQueueTx, PrepareClaimTx, PrepareFails, QueueAborted, QueueDone,
                  QueueFrame, durable, memory
<1>2. claims \in [Sessions -> ClaimRec] BY DEF PayInv, Shape
<1>3. ASSUME NEW k, task' = [task EXCEPT ![Queue] = k], TaskTrue(Queue, k, mined, booked)
      PROVE  OutcomeInv'
  BY <1>1, <1>3, QuietTaskStep
<1>4. \A p, s : TaskTrue(Queue, At(p, s), mined, booked)
  <2> SUFFICES ASSUME NEW p, NEW s PROVE TaskTrue(Queue, At(p, s), mined, booked) OBVIOUS
  <2>1. \A u \in Sessions : Queue \notin {Broadcast(u), Receipt(u), Completion(u)} BY KindsDiffer
  <2> QED BY <2>1, AtTrue
<1>5. ASSUME NEW s \in Sessions, NEW d \in ClaimRec, d.st \in {"failed", "prepared"}
      PROVE  TaskTrue(Queue, CasCall(s, claims[s], d), mined, booked)
  <2>1. Evident(d, mined) BY <1>5, NoEvidence
  <2>2. Evident(claims[s], mined) BY DEF OutcomeInv, RowsTrue
  <2> QED BY <2>1, <2>2, QueueCallTrue
<1>6. \A s \in Sessions : WithStatus(claims[s], "failed") \in ClaimRec
                          /\ WithStatus(claims[s], "failed").st = "failed"
  BY <1>2, ClaimShape DEF ClaimTxStatus
<1>7. task[Queue].pc = "sign" => task[Queue].s \in Sessions
  BY <1>1, KindSound DEF PayInv, TasksSound, QueueSound
<1>8. CASE ProcessQueue \/ QueueAborted \/ QueueDone
  BY <1>3, <1>4, <1>8, OffTrue DEF ProcessQueue, QueueAborted, QueueDone, Goto
<1>9. CASE ProcessQueueTx
  BY <1>3, <1>4, <1>5, <1>6, <1>9 DEF ProcessQueueTx, Goto
<1>10. CASE PrepareFails
  BY <1>3, <1>5, <1>6, <1>7, <1>10 DEF PrepareFails, Goto
<1>11. CASE PrepareClaimTx
  <2> DEFINE s == task[Queue].s
             x == [s |-> s, nonce |-> nonce, sig |-> signed + 1]
  <2>1. s \in Sessions /\ task' = [task EXCEPT ![Queue] = CasCall(s, claims[s], WithTx(claims[s], x))]
    BY <1>7, <1>11 DEF PrepareClaimTx, Goto
  <2>2. x \in TxRec BY <2>1 DEF TxRec, PayInv, Shape
  <2> HIDE DEF x
  <2>3. WithTx(claims[s], x) \in ClaimRec /\ WithTx(claims[s], x).st = "prepared"
    BY <1>2, <2>1, <2>2, ClaimShape
  <2>4. TaskTrue(Queue, CasCall(s, claims[s], WithTx(claims[s], x)), mined, booked)
    BY <1>5, <2>1, <2>3
  <2> QED BY <1>3, <2>1, <2>4
<1> QED BY <1>8, <1>9, <1>10, <1>11

-----------------------------------------------------------------------------
(* Steps after which an EthClaimInfo object holds another claim.           *)

\* A task learns only claims it carries or the object already holds.
LEMMA LearnedTrue ==
  ASSUME OutcomeInv, NEW t \in Tasks, task[t].s \in Sessions
  PROVE  Evident(Learned(task[t]), mined) /\ Evident(Observed(task[t]), mined)
BY NoClaimEvident DEF OutcomeInv, RowsTrue, TasksTrue, TaskTrue, Learned, Observed

\* A step that works on session s and may start its completion.
LEMMA LearnStepTrue ==
  ASSUME PayInv, OutcomeInv, UNCHANGED <<db, mined, booked>>,
         NEW s \in Sessions, NEW c, claims' = [claims EXCEPT ![s] = c], Evident(c, mined),
         \A u \in Tasks : \/ task'[u] = task[u]
                          \/ TaskTrue(u, task'[u], mined, booked)
                          \/ u = Completion(s) /\ task'[u] = At("hooks", s) /\ PaidIn(s, mined)
  PROVE  OutcomeInv'
<1>1. \A u \in Sessions : Evident(claims'[u], mined) BY DEF PayInv, Shape, OutcomeInv, RowsTrue
<1>2. PaidIn(s, mined) => TaskTrue(Completion(s), At("hooks", s), mined, booked)
  <2> SUFFICES ASSUME PaidIn(s, mined) PROVE TaskTrue(Completion(s), At("hooks", s), mined, booked)
    OBVIOUS
  <2>1. \A u \in Sessions : Completion(s) \notin {Broadcast(u), Receipt(u)} BY KindsDiffer
  <2>2. \A u \in Sessions : Completion(s) = Completion(u) => PaidIn(u, mined) BY TasksDiffer
  <2> QED BY <2>1, <2>2, AtTrue
<1>3. \A u \in Tasks : task'[u] = task[u] \/ TaskTrue(u, task'[u], mined, booked') BY <1>2
<1> QED BY <1>1, <1>3, QuietStep

\* transitionClaim looks the row up, or tries again, with the same claims.
LEMMA TransitionRetryTrue ==
  ASSUME PayInv, OutcomeInv, NEW t \in Transitioners, TransitionRetry(t)
  PROVE  OutcomeInv'
<1> DEFINE k == task[t]
<1>1. t \in Tasks /\ (t = Queue \/ \E s \in Sessions : t \in {Broadcast(s), Receipt(s)})
  BY TransitionerKinds
<1>2. k \in TaskRec /\ task \in [Tasks -> TaskRec] BY <1>1 DEF PayInv, Shape
<1>3. /\ UNCHANGED <<db, mined, booked>> /\ k.pc \in {"cas", "read"}
      /\ claims' = [claims EXCEPT ![k.s] = Learned(k)]
  BY DEF TransitionRetry, Learn, durable
<1>4. k.s \in Sessions
  <2>1. TaskSound(t, k, db, claims) BY <1>1 DEF PayInv, TasksSound
  <2> QED BY <1>1, <1>3, <2>1, CallerKinds DEF QueueSound, ReconcilerSound, CompletionSound
<1>5. Evident(Learned(k), mined) BY <1>1, <1>4, LearnedTrue
<1>6. PICK j : /\ task' = [task EXCEPT ![t] = j]
               /\ \/ j = [k EXCEPT !.pc = "read", !.reply = "none", !.err = k.reply = "error"]
                  \/ j = [CasCall(k.s, k.exp, k.new) EXCEPT !.try = k.try]
  BY DEF TransitionRetry, Goto
<1>7. TaskTrue(t, k, mined, booked) BY <1>1 DEF OutcomeInv, TasksTrue
<1>8. /\ j.exp = k.exp /\ j.new = k.new
      /\ j.row.claim = k.row.claim \/ j.row.claim = NoClaim
  <2>1. CASE j = [k EXCEPT !.pc = "read", !.reply = "none", !.err = k.reply = "error"]
    <3> DEFINE e == k.reply = "error"
    <3>1. j = [k EXCEPT !.pc = "read", !.reply = "none", !.err = e] BY <2>1
    <3> HIDE DEF e, k
    <3> QED BY <1>2, <3>1 DEF TaskRec
  <2>2. CASE j = [CasCall(k.s, k.exp, k.new) EXCEPT !.try = k.try]
    <3> DEFINE i == CasCall(k.s, k.exp, k.new)
    <3>1. i \in TaskRec /\ i.exp = k.exp /\ i.new = k.new /\ i.row.claim = NoClaim
      BY <1>2, <1>4, CasCallShape, Carried DEF TaskRec
    <3>2. j = [i EXCEPT !.try = k.try] BY <2>2
    <3> HIDE DEF i, k
    <3> QED BY <3>1, <3>2 DEF TaskRec
  <2> QED BY <1>6, <2>1, <2>2
<1>9. \A s \in Sessions : t # Completion(s) BY <1>1, KindsDiffer
<1>10. TaskTrue(t, j, mined, booked) BY <1>3, <1>7, <1>8, <1>9, NoClaimEvident DEF TaskTrue
<1>11. \A u \in Tasks : task'[u] = task[u] \/ TaskTrue(u, task'[u], mined, booked)
  BY <1>1, <1>2, <1>6, <1>10
<1> HIDE DEF k
<1> QED BY <1>3, <1>4, <1>5, <1>11, LearnStepTrue

\* The queue ends a transition: it may start the tasks of a signed claim, or
\* the completion of a claim that somebody else has confirmed.
LEMMA QueueOverTrue ==
  ASSUME PayInv, OutcomeInv, QueuePrepared \/ QueueFailed \/ QueueLost
  PROVE  OutcomeInv'
<1> DEFINE k == task[Queue]
           s == k.s
           c == Learned(k)
           o == Observed(k)
<1>1. /\ k.pc \in {"cas", "read"} /\ claims' = [claims EXCEPT ![s] = c]
      /\ UNCHANGED <<db, mined, booked>>
  BY DEF QueuePrepared, QueueFailed, QueueLost, Over, Learn, QueueFrame, durable
<1>2. s \in Sessions /\ Agrees(db[s], c) /\ (o.st = "confirmed" => c = o)
  BY <1>1, QueueLearns
<1>3. Queue \in Tasks /\ task \in [Tasks -> TaskRec] BY AreTasks DEF PayInv, Shape
<1>4. Evident(c, mined) BY <1>2, <1>3, LearnedTrue
<1>5. o.st = "confirmed" => PaidIn(s, mined) BY <1>2, <1>4, ConfirmedIsPaid
<1>6. TaskTrue(Queue, Off, mined, booked) /\ TaskTrue(Queue, At("loop", NoSession), mined, booked)
  <2>1. \A u \in Sessions : Queue \notin {Broadcast(u), Receipt(u), Completion(u)} BY KindsDiffer
  <2> QED BY <2>1, AtTrue, OffTrue
<1>7. /\ TaskTrue(Broadcast(s), At("send", s), mined, booked)
      /\ TaskTrue(Receipt(s), At("watch", s), mined, booked)
  <2>1. \A u \in Sessions : Broadcast(s) # Completion(u) /\ Receipt(s) # Completion(u)
    BY <1>2, KindsDiffer
  <2> QED BY <2>1, AtTrue
<1>8. ASSUME NEW u \in Tasks
      PROVE  \/ task'[u] = task[u]
             \/ TaskTrue(u, task'[u], mined, booked)
             \/ u = Completion(s) /\ task'[u] = At("hooks", s) /\ PaidIn(s, mined)
  <2>1. CASE QueuePrepared BY <1>3, <1>6, <1>7, <2>1 DEF QueuePrepared, Goto
  <2>2. CASE QueueFailed BY <1>3, <1>6, <2>2 DEF QueueFailed, Goto
  <2>3. CASE QueueLost
    <3> DEFINE i == IF Outcome(k) = "threw" THEN Off ELSE At("loop", NoSession)
               tasks == [task EXCEPT ![Queue] = i]
    <3>1. task' = Reconciled(tasks, s, o) BY <2>3 DEF QueueLost
    <3>2. i \in TaskRec /\ TaskTrue(Queue, i, mined, booked) BY <1>6, Constants DEF Places
    <3>3. tasks \in [Tasks -> TaskRec] /\ (tasks[u] = task[u] \/ TaskTrue(u, tasks[u], mined, booked))
      BY <1>3, <3>2
    <3> HIDE DEF tasks, s, o
    <3>4. \/ task'[u] = tasks[u]
          \/ u = Completion(s) /\ task'[u] = At("hooks", s) /\ o.st = "confirmed"
      BY <1>2, <3>1, <3>3, ReconciledShape
    <3> QED BY <1>5, <3>3, <3>4
  <2> QED BY <2>1, <2>2, <2>3
<1> HIDE DEF s, c
<1> QED BY <1>1, <1>2, <1>4, <1>8, LearnStepTrue

-----------------------------------------------------------------------------
(* Steps of rebroadcastClaim and awaitTxReceipt.                           *)

\* settleClaim tries to write an outcome the chain has shown.
LEMMA SettleTrue ==
  ASSUME NEW M, NEW B, NEW s \in Sessions, NEW c \in ClaimRec,
         NEW st \in {"prepared", "pending", "confirmed", "reverted"}, NEW n \in Nat,
         Evident(WithStatus(c, st), M)
  PROVE  TaskTrue(Receipt(s), Settle(s, c, st, n), M, B)
<1>1. CASE IsActiveSigned(c) /\ n < 3
  <2>1. WithStatus(c, st) \in ClaimRec BY ClaimShape DEF ClaimTxStatus
  <2> QED BY <1>1, <2>1, ReconcilerCallTrue DEF Settle
<1>2. CASE ~(IsActiveSigned(c) /\ n < 3) BY <1>2, OffTrue DEF Settle
<1> QED BY <1>1, <1>2

\* The steps that do not look at a row.
LEMMA ReconcilerStepsTrue ==
  ASSUME PayInv, OutcomeInv, NEW s \in Sessions,
         \/ Retry(Broadcast(s), "send") \/ BroadcastAcked(s) \/ BroadcastUnacked(s)
         \/ Retry(Receipt(s), "watch") \/ ReceiptArrives(s) \/ ReceiptAborted(s)
  PROVE  OutcomeInv'
<1> DEFINE b == Broadcast(s)
           w == Receipt(s)
<1>1. UNCHANGED <<db, claims, mined, booked>>
  BY DEF Retry, BroadcastAcked, BroadcastUnacked, ReceiptArrives, ReceiptAborted, ReconcileFrame
<1>2. b \in Tasks /\ w \in Tasks /\ claims[s] \in ClaimRec BY AreTasks DEF PayInv, Shape
<1>3. ASSUME NEW t \in {b, w}, NEW k, task' = [task EXCEPT ![t] = k], TaskTrue(t, k, mined, booked)
      PROVE  OutcomeInv'
  BY <1>1, <1>2, <1>3, QuietTaskStep
<1>4. ASSUME NEW t \in {b, w}, NEW p \in {"send", "watch", "retry"}, NEW u
      PROVE  TaskTrue(t, At(p, u), mined, booked)
  <2>1. \A v \in Sessions : t # Completion(v) BY KindsDiffer
  <2> QED BY <2>1, AtTrue
<1>5. CASE Retry(b, "send") BY <1>3, <1>4, <1>5, OffTrue DEF Retry, Goto
<1>6. CASE Retry(w, "watch") BY <1>3, <1>4, <1>6, OffTrue DEF Retry, Goto
<1>7. CASE BroadcastUnacked(s) BY <1>3, <1>4, <1>7, OffTrue DEF BroadcastUnacked, Goto
<1>8. CASE ReceiptAborted(s) BY <1>3, <1>8, OffTrue DEF ReceiptAborted, Goto
<1>9. CASE BroadcastAcked(s)
  <2> DEFINE d == WithStatus(claims[s], "pending")
  <2>1. d \in ClaimRec /\ d.st = "pending" BY <1>2, ClaimShape DEF ClaimTxStatus
  <2>2. Evident(d, mined) BY <2>1, NoEvidence
  <2> HIDE DEF d
  <2>3. CASE claims[s].st = "prepared"
    <3>1. \A n \in Nat : TaskTrue(b, CasCall(s, claims[s], d), mined, booked)
      BY <1>2, <2>1, <2>2, <2>3, ReconcilerCallTrue DEF IsActiveSigned
    <3>2. task' = [task EXCEPT ![b] = CasCall(s, claims[s], d)]
      BY <1>9, <2>3 DEF BroadcastAcked, Goto, d
    <3> QED BY <1>3, <3>1, <3>2
  <2>4. CASE claims[s].st # "prepared" BY <1>3, <1>9, <2>4, OffTrue DEF BroadcastAcked, Goto
  <2> QED BY <2>3, <2>4
<1>10. CASE ReceiptArrives(s)
  <2>1. PICK m \in mined :
          /\ m.tx = claims[s].tx
          /\ task' = [task EXCEPT ![w] =
               Settle(s, claims[s], IF m.ok THEN "confirmed" ELSE "reverted", 0)]
    BY <1>10 DEF ReceiptArrives, Goto
  <2> DEFINE st == IF m.ok THEN "confirmed" ELSE "reverted"
             d == WithStatus(claims[s], st)
  <2>2. st \in {"pending", "confirmed", "reverted"} OBVIOUS
  <2>3. (st = "confirmed" => m.ok) /\ (st = "reverted" => ~m.ok) OBVIOUS
  <2>4. task' = [task EXCEPT ![w] = Settle(s, claims[s], st, 0)] BY <2>1
  <2> HIDE DEF st
  <2>5. d.st = st /\ d.tx = claims[s].tx BY <1>2, <2>2, ClaimShape DEF ClaimTxStatus
  <2>6. Evident(d, mined) BY <2>1, <2>3, <2>5 DEF Evident
  <2>7. TaskTrue(w, Settle(s, claims[s], st, 0), mined, booked) BY <1>2, <2>2, <2>6, SettleTrue
  <2> QED BY <1>3, <2>4, <2>7
<1> QED BY <1>5, <1>6, <1>7, <1>8, <1>9, <1>10

\* The steps that end a transition.
LEMMA ReconcilerOverTrue ==
  ASSUME PayInv, OutcomeInv, NEW s \in Sessions,
         BroadcastTransition(s) \/ ReceiptSettled(s) \/ ReceiptLost(s)
  PROVE  OutcomeInv'
<1>1. PICK t \in {Broadcast(s), Receipt(s)} :
        /\ task[t].pc \in {"cas", "read"} /\ task[t].reply # "none"
        /\ claims' = [claims EXCEPT ![task[t].s] = Learned(task[t])]
        /\ \/ t = Broadcast(s) /\ BroadcastTransition(s)
           \/ t = Receipt(s) /\ (ReceiptSettled(s) \/ ReceiptLost(s))
  BY DEF BroadcastTransition, ReceiptSettled, ReceiptLost, Over, Learn
<1> DEFINE k == task[t]
           c == Learned(k)
           o == Observed(k)
<1>2. UNCHANGED <<db, mined, booked>>
  BY DEF BroadcastTransition, ReceiptSettled, ReceiptLost, ReconcileFrame
<1>3. /\ k \in TaskRec /\ ReconcilerSound(s, k, db, claims) /\ k.s = s
      /\ Signed(claims[s]) /\ c \in ClaimRec /\ Carries(db[s], c)
  BY <1>1, ReconcilerLearns
<1>4. t \in Tasks /\ task \in [Tasks -> TaskRec] BY AreTasks DEF PayInv, Shape
<1>5. Carries(db[s], k.new) /\ Evident(k.new, mined)
  BY <1>1, <1>3, <1>4 DEF ReconcilerSound, OutcomeInv, TasksTrue, TaskTrue
<1>6. Evident(c, mined) /\ Evident(o, mined) BY <1>3, <1>4, LearnedTrue
<1>7. o.st = "confirmed" => PaidIn(s, mined)
  <2>1. o.st = "confirmed" => Agrees(db[s], o)
    BY <1>3, Constants DEF Observed, ReconcilerSound, Carries
  <2> QED BY <1>6, <2>1, ConfirmedIsPaid
<1>8. ASSUME NEW i \in TaskRec, TaskTrue(t, i, mined, booked),
             \A u \in Tasks : \/ task'[u] = [task EXCEPT ![t] = i][u]
                              \/ u = Completion(s) /\ task'[u] = At("hooks", s) /\ PaidIn(s, mined)
      PROVE  OutcomeInv'
  <2>1. \A u \in Tasks : \/ task'[u] = task[u]
                         \/ TaskTrue(u, task'[u], mined, booked)
                         \/ u = Completion(s) /\ task'[u] = At("hooks", s) /\ PaidIn(s, mined)
    BY <1>4, <1>8
  <2>2. claims' = [claims EXCEPT ![s] = c] BY <1>1, <1>3
  <2> HIDE DEF c
  <2> QED BY <1>2, <1>6, <2>1, <2>2, LearnStepTrue
<1>9. TaskTrue(t, Off, mined, booked) /\ Off \in TaskRec BY OffTrue, Constants
<1>10. TaskTrue(t, At("retry", s), mined, booked) /\ At("retry", s) \in TaskRec
  <2>1. \A v \in Sessions : t # Completion(v) BY KindsDiffer
  <2> QED BY <2>1, AtTrue, Constants DEF Places
<1>11. ASSUME NEW i \in TaskRec, TaskTrue(t, i, mined, booked),
              task' = Reconciled([task EXCEPT ![t] = i], s, o)
       PROVE  OutcomeInv'
  <2> DEFINE tasks == [task EXCEPT ![t] = i]
  <2>1. tasks \in [Tasks -> TaskRec] BY <1>4
  <2>2. task' = Reconciled(tasks, s, o) BY <1>11
  <2> HIDE DEF tasks, o
  <2>3. \A u \in Tasks : \/ task'[u] = tasks[u]
                         \/ u = Completion(s) /\ task'[u] = At("hooks", s) /\ o.st = "confirmed"
    BY <2>1, <2>2, ReconciledShape
  <2> QED BY <1>7, <1>8, <1>11, <2>3 DEF tasks
<1>12. CASE t = Broadcast(s) /\ BroadcastTransition(s)
  BY <1>4, <1>8, <1>9, <1>10, <1>11, <1>12 DEF BroadcastTransition, Goto
<1>13. CASE t = Receipt(s) /\ ReceiptSettled(s)
  <2> DEFINE tasks == [task EXCEPT ![t] = Off]
  <2>1. tasks \in [Tasks -> TaskRec] BY <1>4, <1>9
  <2>2. task' = tasks \/ (task' = Completing(tasks, s) /\ k.new.st = "confirmed")
    BY <1>13 DEF ReceiptSettled, Goto
  <2>3. k.new.st = "confirmed" => PaidIn(s, mined) BY <1>5, ConfirmedIsPaid DEF Carries
  <2> HIDE DEF tasks
  <2>4. \A u \in Tasks : Completing(tasks, s)[u] = tasks[u]
                         \/ (u = Completion(s) /\ Completing(tasks, s)[u] = At("hooks", s))
    BY <2>1, ReconciledShape
  <2>5. \A u \in Tasks : \/ task'[u] = tasks[u]
                         \/ u = Completion(s) /\ task'[u] = At("hooks", s) /\ PaidIn(s, mined)
    BY <2>2, <2>3, <2>4
  <2> QED BY <1>8, <1>9, <2>5 DEF tasks
<1>14. CASE t = Receipt(s) /\ ReceiptLost(s)
  <2> DEFINE n == k.try + 1
             i == Settle(s, c, k.new.st, n)
  <2>1. task' = Reconciled([task EXCEPT ![t] = IF Outcome(k) = "lost" THEN i
                                               ELSE IF Up THEN At("retry", s) ELSE Off], s, o)
    BY <1>14 DEF ReceiptLost
  <2>2. n \in Nat BY <1>3 DEF TaskRec
  <2>3. k.new.st \in {"prepared", "pending", "confirmed", "reverted"} BY <1>5 DEF Carries, Signed
  <2>4. c.tx = k.new.tx BY <1>3, <1>5 DEF Carries, Agrees
  <2> HIDE DEF n, c
  <2>5. i \in TaskRec
    <3>1. Agrees(db[s], c) BY <1>3 DEF Carries
    <3> QED BY <1>3, <2>2, <2>3, <3>1, SettleSound
  <2>6. TaskTrue(t, i, mined, booked)
    <3> DEFINE d == WithStatus(c, k.new.st)
    <3>1. d \in ClaimRec /\ d.st = k.new.st /\ d.tx = k.new.tx
      BY <1>3, <2>3, <2>4, ClaimShape DEF ClaimTxStatus
    <3>2. Evident(d, mined) BY <1>5, <3>1 DEF Evident
    <3> QED BY <1>3, <1>14, <2>2, <2>3, <3>2, SettleTrue DEF d
  <2> HIDE DEF i
  <2> QED BY <1>9, <1>10, <1>11, <2>1, <2>5, <2>6
<1> QED BY <1>1, <1>12, <1>13, <1>14

-----------------------------------------------------------------------------
(* Steps of completeConfirmedClaim.                                        *)

\* What a completion may do next, once the session is paid and booked.
LEMMA FinalizeTrue ==
  ASSUME NEW M, NEW B, NEW s \in Sessions, PaidIn(s, M), s \in B, NEW c, Evident(c, M), c.st = "confirmed"
  PROVE  TaskTrue(Completion(s), [At("finalize", s) EXCEPT !.exp = c], M, B)
<1> DEFINE k == [At("finalize", s) EXCEPT !.exp = c]
<1>1. k.pc = "finalize" /\ k.exp = c /\ k.new = NoClaim /\ k.row.claim = NoClaim BY DEF At, NoRow
<1> HIDE DEF k
<1>2. \A u \in Sessions : Completion(s) \notin {Broadcast(u), Receipt(u)} BY KindsDiffer
<1>3. \A u \in Sessions : Completion(s) = Completion(u) => u = s BY TasksDiffer
<1>4. TaskTrue(Completion(s), k, M, B) BY <1>1, <1>2, <1>3, NoClaimEvident DEF TaskTrue
<1> QED BY <1>4 DEF k

\* The other points of a completion.
LEMMA CompletionAtTrue ==
  ASSUME NEW M, NEW B, NEW s \in Sessions, PaidIn(s, M)
  PROVE  /\ TaskTrue(Completion(s), At("hooks", s), M, B)
         /\ s \in B => TaskTrue(Completion(s), At("read", s), M, B)
<1>1. \A u \in Sessions : Completion(s) \notin {Broadcast(u), Receipt(u)} BY KindsDiffer
<1>2. \A u \in Sessions : Completion(s) = Completion(u) => u = s BY TasksDiffer
<1> QED BY <1>1, <1>2, AtTrue

\* The hooks, their failure, and the look at the row.
LEMMA HooksTrue ==
  ASSUME PayInv, OutcomeInv, NEW s \in Sessions,
         ClaimedHooks(s) \/ ClaimedHooksFail(s) \/ FinalizeLookup(s)
  PROVE  OutcomeInv'
<1> DEFINE f == Completion(s)
<1>1. f \in Tasks /\ UNCHANGED <<db, claims, mined>> /\ booked \subseteq booked'
  BY AreTasks DEF ClaimedHooks, ClaimedHooksFail, FinalizeLookup, CompletionFrame
<1>2. PaidIn(s, mined) /\ (task[f].pc = "finalize" => s \in booked)
  BY <1>1 DEF ClaimedHooks, ClaimedHooksFail, FinalizeLookup, OutcomeInv, TasksTrue, TaskTrue
<1>3. ASSUME NEW k, task' = [task EXCEPT ![f] = k], TaskTrue(f, k, mined, booked') PROVE OutcomeInv'
  BY <1>1, <1>3, QuietTaskStep
<1>4. CASE ClaimedHooks(s)
  <2>1. s \in booked' BY <1>4 DEF ClaimedHooks
  <2>2. CASE Up /\ claims[s].st = "confirmed"
    <3>1. Evident(claims[s], mined) BY DEF OutcomeInv, RowsTrue
    <3>2. TaskTrue(f, [At("finalize", s) EXCEPT !.exp = claims[s]], mined, booked')
      BY <1>2, <2>1, <2>2, <3>1, FinalizeTrue
    <3>3. task' = [task EXCEPT ![f] = [At("finalize", s) EXCEPT !.exp = claims[s]]]
      BY <1>4, <2>2 DEF ClaimedHooks, Goto
    <3> QED BY <1>3, <3>2, <3>3
  <2>3. CASE ~(Up /\ claims[s].st = "confirmed")
    <3>1. task' = [task EXCEPT ![f] = Off] BY <1>4, <2>3 DEF ClaimedHooks, Goto
    <3> QED BY <1>3, <3>1, OffTrue
  <2> QED BY <2>2, <2>3
<1>5. CASE ClaimedHooksFail(s)
  BY <1>2, <1>3, <1>5, OffTrue, CompletionAtTrue DEF ClaimedHooksFail, Goto
<1>6. CASE FinalizeLookup(s)
  <2>1. s \in booked' BY <1>1, <1>2, <1>6 DEF FinalizeLookup
  <2> QED BY <1>2, <1>3, <1>6, <2>1, CompletionAtTrue DEF FinalizeLookup, Goto
<1> QED BY <1>4, <1>5, <1>6

\* The completion ends or tries again.
LEMMA CompletionOverTrue ==
  ASSUME PayInv, OutcomeInv, NEW s \in Sessions, CompletionDone(s) \/ FinalizeRetry(s)
  PROVE  OutcomeInv'
<1> DEFINE f == Completion(s)
           k == task[f]
           c == IF k.pc = "read" /\ k.reply = "ok" THEN k.row.claim ELSE claims[s]
<1>1. f \in Tasks /\ task \in [Tasks -> TaskRec] /\ claims \in [Sessions -> ClaimRec] /\ k \in TaskRec
  BY AreTasks DEF PayInv, Shape
<1>2. UNCHANGED <<db, mined, booked>> /\ k.pc \in {"finalize", "read"}
  BY DEF CompletionDone, FinalizeRetry, CompletionFrame
<1>3. claims' = [claims EXCEPT ![s] = c] BY DEF CompletionDone, FinalizeRetry
<1>4. PaidIn(s, mined) /\ s \in booked BY <1>1, <1>2 DEF OutcomeInv, TasksTrue, TaskTrue
<1>5. Evident(c, mined) BY <1>1 DEF OutcomeInv, TasksTrue, TaskTrue, RowsTrue
<1>6. c \in ClaimRec BY <1>1 DEF TaskRec, RowRec
<1> DEFINE fin == [At("finalize", s) EXCEPT !.exp = c]
<1>7. TaskTrue(f, Off, mined, booked) /\ Off \in TaskRec BY OffTrue, Constants
<1>8. c.st = "confirmed" => TaskTrue(f, fin, mined, booked) BY <1>4, <1>5, FinalizeTrue
<1>9. fin \in TaskRec
  <2>1. At("finalize", s) \in TaskRec BY Constants DEF Places
  <2> HIDE DEF c
  <2> QED BY <1>6, <2>1 DEF TaskRec
<1>10. ASSUME NEW u \in Tasks
       PROVE  \/ task'[u] = task[u]
              \/ TaskTrue(u, task'[u], mined, booked)
              \/ u = Completion(s) /\ task'[u] = At("hooks", s) /\ PaidIn(s, mined)
  <2>1. CASE CompletionDone(s) BY <1>1, <1>7, <2>1 DEF CompletionDone, Goto
  <2>2. CASE FinalizeRetry(s)
    <3>1. PICK i, o : /\ i = Off \/ (i = fin /\ c.st = "confirmed")
                      /\ task' = Reconciled([task EXCEPT ![f] = i], s, o)
      <4> DEFINE again == k.reply = "ok" => k.row.status = "claiming" /\ c.st = "confirmed"
                 i == IF again /\ Up /\ c.st = "confirmed" THEN fin ELSE Off
                 o == IF again THEN NoClaim ELSE c
      <4>1. k.pc = "read" BY <2>2 DEF FinalizeRetry
      <4>2. task' = Reconciled([task EXCEPT ![f] = i], s, o) BY <2>2, <4>1 DEF FinalizeRetry
      <4>3. i = Off \/ (i = fin /\ c.st = "confirmed") OBVIOUS
      <4> HIDE DEF i, o
      <4> QED BY <4>2, <4>3
    <3>2. i \in TaskRec /\ TaskTrue(f, i, mined, booked) BY <1>7, <1>8, <1>9, <3>1
    <3> DEFINE tasks == [task EXCEPT ![f] = i]
    <3>3. tasks \in [Tasks -> TaskRec] /\ (tasks[u] = task[u] \/ TaskTrue(u, tasks[u], mined, booked))
      BY <1>1, <3>2
    <3>4. task' = Reconciled(tasks, s, o) BY <3>1
    <3> HIDE DEF tasks
    <3>5. task'[u] = tasks[u] \/ (u = Completion(s) /\ task'[u] = At("hooks", s))
      BY <3>3, <3>4, ReconciledShape
    <3> QED BY <1>4, <3>3, <3>5
  <2> QED BY <2>1, <2>2
<1> HIDE DEF c
<1> QED BY <1>2, <1>3, <1>5, <1>10, LearnStepTrue

-----------------------------------------------------------------------------
(* Shutdown, crash and restart.                                            *)

\* A stopped process has no memory; a new one reads what is true from the rows
\* and completes the confirmed claims, which are paid.
LEMMA RestartTrue ==
  ASSUME PayInv, OutcomeInv, Dispose \/ Stop \/ Initialize
  PROVE  OutcomeInv'
<1>1. CASE Dispose
  <2>1. UNCHANGED <<db, mined, booked, claims, task>> BY <1>1 DEF Dispose, durable, memory
  <2> QED BY <2>1, QuietStep DEF OutcomeInv, RowsTrue
<1>2. CASE Stop
  <2>1. /\ UNCHANGED <<db, mined, booked>>
        /\ claims' = [s \in Sessions |-> NoClaim] /\ task' = [t \in Tasks |-> Off]
    BY <1>2 DEF Stop, durable
  <2> QED BY <2>1, OffTrue, NoClaimEvident, QuietStep
<1>3. CASE Initialize
  <2> DEFINE active == Claiming({"prepared", "pending"})
             confirmed == Claiming({"confirmed"})
             owned == Claiming({"queue"}) \union active \union confirmed
  <2>1. /\ UNCHANGED <<db, mined, booked>>
        /\ claims' = [s \in Sessions |-> IF s \in owned THEN db[s].claim ELSE NoClaim]
        /\ task' = [t \in Tasks |->
                      IF t \in {Broadcast(s) : s \in active} THEN At("send", t[2])
                      ELSE IF t \in {Receipt(s) : s \in active} THEN At("watch", t[2])
                      ELSE IF t \in {Completion(s) : s \in confirmed} THEN At("hooks", t[2])
                      ELSE Off]
    BY <1>3 DEF Initialize, durable
  <2>2. active \subseteq Sessions /\ confirmed \subseteq Sessions BY DEF Claiming
  <2>3. ASSUME NEW s \in confirmed PROVE PaidIn(s, mined)
    <3>1. s \in Sessions /\ db[s].claim.st = "confirmed" BY DEF Claiming
    <3>2. Agrees(db[s], db[s].claim) BY <3>1 DEF Agrees, PayInv, RowsSound, RowSound
    <3>3. Evident(db[s].claim, mined) BY <3>1 DEF OutcomeInv, RowsTrue, RowTrue
    <3> QED BY <3>1, <3>2, <3>3, ConfirmedIsPaid
  <2>4. \A s \in Sessions : Evident(claims'[s], mined)
    BY <2>1, NoClaimEvident DEF OutcomeInv, RowsTrue, RowTrue
  <2> HIDE DEF active, confirmed, owned
  <2>5. ASSUME NEW t \in Tasks PROVE TaskTrue(t, task'[t], mined, booked)
    <3>1. \/ task'[t] = Off
          \/ \E s \in active : t = Broadcast(s) /\ task'[t] = At("send", s)
          \/ \E s \in active : t = Receipt(s) /\ task'[t] = At("watch", s)
          \/ \E s \in confirmed : t = Completion(s) /\ task'[t] = At("hooks", s)
      <4>1. \A s : Broadcast(s)[2] = s /\ Receipt(s)[2] = s /\ Completion(s)[2] = s
        BY DEF Broadcast, Receipt, Completion
      <4> QED BY <2>1, <4>1
    <3>2. ASSUME NEW s \in active, NEW u \in {Broadcast(s), Receipt(s)}, NEW p \in {"send", "watch"}
          PROVE  TaskTrue(u, At(p, s), mined, booked)
      <4>1. \A v \in Sessions : u # Completion(v) BY <2>2, KindsDiffer
      <4> QED BY <4>1, AtTrue
    <3>3. ASSUME NEW s \in confirmed PROVE TaskTrue(Completion(s), At("hooks", s), mined, booked)
      BY <2>2, <2>3, CompletionAtTrue
    <3> QED BY <3>1, <3>2, <3>3, OffTrue
  <2> QED BY <2>1, <2>4, <2>5, QuietStep
<1> QED BY <1>1, <1>2, <1>3

-----------------------------------------------------------------------------
(* The theorems.                                                           *)

\* OutcomeInv is inductive relative to PayInv.
LEMMA StepTrue == PayInv /\ OutcomeInv /\ [Next]_vars => OutcomeInv'
<1> SUFFICES ASSUME PayInv, OutcomeInv, [Next]_vars PROVE OutcomeInv' OBVIOUS
<1>1. CASE \E t \in Tasks : Database(t)
  BY <1>1, TryCreateClaimTrue, CompareAndSetClaimTrue, FinalizeConfirmedRowTrue, GetSessionTrue
     DEF Database
<1>2. CASE \E t \in Transitioners : TransitionRetry(t) BY <1>2, TransitionRetryTrue
<1>3. CASE \E r \in Requests : Create(r) \/ \E s \in Sessions : ClaimReward(r, s)
  BY <1>3, HandlersTrue, ClaimCreatedTrue DEF Create
<1>4. CASE ProcessQueue \/ RunQueue BY <1>4, QueueStepsTrue, QueueOverTrue DEF RunQueue
<1>5. CASE \E s \in Sessions : Rebroadcast(s) \/ AwaitReceipt(s) \/ Complete(s) \/ TryTimeoutSession(s)
  BY <1>5, ReconcilerStepsTrue, ReconcilerOverTrue, HooksTrue, CompletionOverTrue, TryTimeoutSessionTrue
     DEF Rebroadcast, AwaitReceipt, Complete
<1>6. CASE \E x \in pool : Mine(x) BY <1>6, MineTrue
<1>7. CASE Dispose \/ Stop \/ Initialize BY <1>7, RestartTrue
<1>8. CASE UNCHANGED vars
  <2>1. UNCHANGED <<db, mined, booked, claims, task>> BY <1>8 DEF vars, durable, memory
  <2> QED BY <2>1, QuietStep DEF OutcomeInv, RowsTrue
<1> QED BY <1>1, <1>2, <1>3, <1>4, <1>5, <1>6, <1>7, <1>8 DEF Next

\* Every claim that says how its transaction ended is right, in the rows, in
\* memory and in every call and reply under way.
THEOREM OutcomeInvariance == Spec => [](PayInv /\ OutcomeInv)
<1>1. PayInv /\ OutcomeInv /\ [Next]_vars => OutcomeInv' BY StepTrue
<1> QED BY PayInvariance, InitTrue, <1>1, PTL DEF Spec

\* A session without signed bytes has no transaction anywhere.
LEMMA UnsignedIsUnpaid ==
  ASSUME PayInv, NEW s \in Sessions, ~Signed(db[s].claim)
  PROVE  ~PaidIn(s, mined) /\ \A x \in pool : x.s # s
<1>1. db[s].claim.tx = NoTx BY DEF PayInv, RowsSound, RowSound
<1>2. \A x \in pool : x.s # s BY <1>1, Constants, ClaimAssumption DEF PayInv, ChainSound, ClaimAssumption
<1> QED BY <1>2 DEF PaidIn, PayInv, ChainSound

\* A session whose only transaction has reverted is not paid, and none follows.
LEMMA RevertedIsUnpaid ==
  ASSUME PayInv, NEW s \in Sessions, NEW c, Agrees(db[s], c), c.st = "reverted", Evident(c, mined)
  PROVE  ~PaidIn(s, mined) /\ \A x \in pool : x.s = s => \E m \in mined : m.tx = x
<1>1. PICK n \in mined : n.tx = c.tx /\ ~n.ok BY DEF Evident
<1>2. c.tx = db[s].claim.tx BY DEF Agrees, Signed
<1>3. \A x \in pool : x.s = s => x = n.tx BY <1>1, <1>2 DEF PayInv, ChainSound
<1>4. ASSUME NEW m \in mined, m.tx.s = s, m.ok PROVE FALSE
  <2>1. m.tx = n.tx BY <1>3, <1>4 DEF PayInv, ChainSound
  <2>2. m = n BY <2>1 DEF PayInv, ChainSound
  <2> QED BY <1>1, <1>4, <2>2
<1> QED BY <1>3, <1>4 DEF PaidIn

\* Paid and PaidIn are the same.
LEMMA PaidIsPaidIn == \A s : s \in Paid <=> PaidIn(s, mined)
BY DEF Paid, PaidIn

\* settleClaim, failQueuedClaim and the session timeout: a row says "failed"
\* only if the session was not paid and no transaction can pay it any more.
THEOREM FailedUnpaid == Spec => []FailedIsNeverPaid
<1>1. PayInv /\ OutcomeInv => FailedIsNeverPaid
  <2> SUFFICES ASSUME PayInv, OutcomeInv, NEW s \in Sessions, db[s].status = "failed"
               PROVE  ~PaidIn(s, mined) /\ \A x \in pool : x.s = s => \E m \in mined : m.tx = x
    BY PaidIsPaidIn DEF FailedIsNeverPaid
  <2>1. db[s].claim.st \in {"none", "failed", "reverted"} /\ Evident(db[s].claim, mined)
    BY DEF OutcomeInv, RowsTrue, RowTrue
  <2>2. CASE db[s].claim.st = "reverted"
    <3>1. Agrees(db[s], db[s].claim) BY DEF Agrees, PayInv, RowsSound, RowSound
    <3> QED BY <2>1, <2>2, <3>1, RevertedIsUnpaid
  <2>3. CASE db[s].claim.st # "reverted"
    <3>1. ~Signed(db[s].claim) BY <2>1, <2>3 DEF Signed
    <3> QED BY <3>1, UnsignedIsUnpaid
  <2> QED BY <2>2, <2>3
<1> QED BY OutcomeInvariance, <1>1, PTL

\* completeConfirmedClaim: FINISHED is published only for a session that was
\* paid and whose hooks ran.
THEOREM FinishedPaidAndBooked == Spec => []FinishedIsPaidAndBooked
<1>1. PayInv /\ OutcomeInv => FinishedIsPaidAndBooked
  <2> SUFFICES ASSUME PayInv, OutcomeInv, NEW s \in Sessions, db[s].status = "finished"
               PROVE  PaidIn(s, mined) /\ s \in booked
    BY PaidIsPaidIn DEF FinishedIsPaidAndBooked
  <2>1. db[s].claim.st = "confirmed" /\ Evident(db[s].claim, mined) /\ s \in booked
    BY DEF OutcomeInv, RowsTrue, RowTrue
  <2>2. Agrees(db[s], db[s].claim) BY DEF Agrees, PayInv, RowsSound, RowSound
  <2> QED BY <2>1, <2>2, ConfirmedIsPaid
<1> QED BY OutcomeInvariance, <1>1, PTL

-----------------------------------------------------------------------------
(* The pipeline implements ClaimLedger: what remains of a step when only   *)
(* the status of the rows, the payouts and the bookings are looked at.     *)

LedgerStep == [Ledger!LedgerNext]_(Ledger!ledger)

\* A step of the ledger leaves everything alone.
LEMMA LedgerStutters == UNCHANGED <<db, mined, booked>> => LedgerStep
BY DEF LedgerStep, Ledger!ledger, Paid

\* A row moves on as the ledger allows.
LEMMA LedgerRowMoves ==
  ASSUME db \in [Sessions -> RowRec], NEW a \in Sessions, NEW row2, db' = [db EXCEPT ![a] = row2],
         UNCHANGED <<mined, booked>>,
         \/ row2.status = db[a].status
         \/ db[a].status = "claimable" /\ row2.status = "claiming"
         \/ /\ db[a].status = "claiming" /\ row2.status = "finished"
            /\ PaidIn(a, mined) /\ a \in booked
         \/ /\ db[a].status \in {"claimable", "claiming"} /\ row2.status = "failed"
            /\ a \notin Legacy /\ ~PaidIn(a, mined)
  PROVE  LedgerStep
<1> DEFINE R == [s \in Sessions |-> db[s].status]
           R2 == [s \in Sessions |-> db'[s].status]
<1>1. R2 = [R EXCEPT ![a] = row2.status] /\ R[a] = db[a].status OBVIOUS
<1>2. UNCHANGED <<Paid, booked>> BY DEF Paid
<1>3. a \in Paid <=> PaidIn(a, mined) BY PaidIsPaidIn
<1>4. CASE row2.status = db[a].status
  <2>1. R2 = R BY <1>1, <1>4
  <2> QED BY <1>2, <2>1 DEF LedgerStep, Ledger!ledger
<1>5. CASE db[a].status = "claimable" /\ row2.status = "claiming"
  <2>1. Ledger!Claim(a) BY <1>1, <1>2, <1>5 DEF Ledger!Claim
  <2> QED BY <2>1 DEF LedgerStep, Ledger!LedgerNext
<1>6. CASE /\ db[a].status = "claiming" /\ row2.status = "finished"
           /\ PaidIn(a, mined) /\ a \in booked
  <2>1. Ledger!Finish(a) BY <1>1, <1>2, <1>3, <1>6 DEF Ledger!Finish
  <2> QED BY <2>1 DEF LedgerStep, Ledger!LedgerNext
<1>7. CASE /\ db[a].status \in {"claimable", "claiming"} /\ row2.status = "failed"
           /\ a \notin Legacy /\ ~PaidIn(a, mined)
  <2>1. Ledger!Fail(a) BY <1>1, <1>2, <1>3, <1>7 DEF Ledger!Fail
  <2> QED BY <2>1 DEF LedgerStep, Ledger!LedgerNext
<1> QED BY <1>4, <1>5, <1>6, <1>7

\* An UPDATE, acknowledged or not.
LEMMA LedgerUpdate ==
  ASSUME PayInv, NEW t, NEW hit \in BOOLEAN, NEW row2, task[t].s \in Sessions,
         Update(t, hit, row2), DbFrame,
         LET a == task[t].s
         IN hit => \/ row2.status = db[a].status
                   \/ db[a].status = "claimable" /\ row2.status = "claiming"
                   \/ /\ db[a].status = "claiming" /\ row2.status = "finished"
                      /\ PaidIn(a, mined) /\ a \in booked
                   \/ /\ db[a].status \in {"claimable", "claiming"} /\ row2.status = "failed"
                      /\ a \notin Legacy /\ ~PaidIn(a, mined)
  PROVE  LedgerStep
<1>1. UNCHANGED <<mined, booked>> /\ db \in [Sessions -> RowRec] BY DEF DbFrame, PayInv, Shape
<1>2. db' = db \/ (hit /\ db' = [db EXCEPT ![task[t].s] = row2]) BY DEF Update
<1>3. CASE db' = db BY <1>1, <1>3, LedgerStutters
<1>4. CASE hit /\ db' = [db EXCEPT ![task[t].s] = row2] BY <1>1, <1>4, LedgerRowMoves
<1> QED BY <1>2, <1>3, <1>4

\* tryCreateClaim is Claim, compareAndSetClaim is Fail or nothing,
\* finalizeConfirmedRow is Finish.
LEMMA LedgerDatabase ==
  ASSUME PayInv, OutcomeInv, NEW t \in Tasks, Database(t)
  PROVE  LedgerStep
<1> DEFINE k == task[t]
           a == k.s
<1>1. /\ TaskSound(t, k, db, claims) /\ TaskTrue(t, k, mined, booked)
      /\ db \in [Sessions -> RowRec]
  BY DEF PayInv, TasksSound, OutcomeInv, TasksTrue, Shape
<1>2. CASE TryCreateClaim(t)
  <2> DEFINE row2 == [status |-> "claiming", claim |-> k.new]
             hit == db[a].status = "claimable" /\ db[a].claim = NoClaim
  <2>1. k.pc = "create" /\ Update(t, hit, row2) /\ DbFrame BY <1>2 DEF TryCreateClaim, Turn
  <2>2. a \in Sessions BY <1>1, <2>1, CallerKinds DEF RequestSound
  <2>3. hit => db[a].status = "claimable" /\ row2.status = "claiming" OBVIOUS
  <2> HIDE DEF row2, hit
  <2>4. hit \in BOOLEAN BY DEF hit
  <2> QED BY <2>1, <2>2, <2>3, <2>4, LedgerUpdate
<1>3. CASE CompareAndSetClaim(t)
  <2> DEFINE to == IF k.new.st \in {"reverted", "failed"} THEN "failed" ELSE "claiming"
             row2 == [status |-> to, claim |-> k.new]
             hit == db[a].status = "claiming" /\ db[a].claim = k.exp
  <2>1. k.pc = "cas" /\ Update(t, hit, row2) /\ DbFrame BY <1>3 DEF CompareAndSetClaim, Turn
  <2>2. \/ t = Queue /\ QueueSound(k, db, claims)
        \/ \E s \in Sessions : t \in {Broadcast(s), Receipt(s)} /\ ReconcilerSound(s, k, db, claims)
    BY <1>1, <2>1, CallerKinds
  <2>3. a \in Sessions /\ k.exp.st \in {"queue", "prepared", "pending"}
    BY <1>1, <2>1, <2>2 DEF QueueSound, ReconcilerSound, TaskTrue, IsActiveSigned
  <2>4. ASSUME hit, row2.status # db[a].status
        PROVE  /\ db[a].status = "claiming" /\ row2.status = "failed"
               /\ a \notin Legacy /\ ~PaidIn(a, mined)
    <3>1. db[a].status = "claiming" /\ to = "failed" /\ k.new.st \in {"reverted", "failed"}
      BY <2>4
    <3>2. a \notin Legacy BY <2>3, <2>4 DEF OutcomeInv, RowsTrue, RowTrue
    <3>3. CASE k.new.st = "reverted"
      <4>1. Carries(db[a], k.new) BY <2>1, <2>2, <3>3 DEF QueueSound, ReconcilerSound
      <4> QED BY <1>1, <2>3, <3>1, <3>2, <3>3, <4>1, RevertedIsUnpaid DEF Carries, TaskTrue
    <3>4. CASE k.new.st = "failed"
      <4>1. k.exp.st = "queue" BY <2>1, <2>2, <3>4 DEF QueueSound, ReconcilerSound, Carries, Signed
      <4>2. ~Signed(db[a].claim) BY <2>4, <4>1 DEF Signed
      <4> QED BY <2>3, <3>1, <3>2, <4>2, UnsignedIsUnpaid
    <3> QED BY <3>1, <3>3, <3>4
  <2> HIDE DEF row2, hit
  <2>5. hit \in BOOLEAN BY DEF hit
  <2> QED BY <2>1, <2>3, <2>4, <2>5, LedgerUpdate
<1>4. CASE FinalizeConfirmedRow(t)
  <2> DEFINE row2 == [db[a] EXCEPT !.status = "finished"]
             hit == db[a].status = "claiming" /\ db[a].claim = k.exp
  <2>1. k.pc = "finalize" /\ Update(t, hit, row2) /\ DbFrame BY <1>4 DEF FinalizeConfirmedRow, Turn
  <2>2. PICK s \in Sessions : t = Completion(s) /\ CompletionSound(s, k, db, claims)
    BY <1>1, <2>1, CallerKinds
  <2>3. a = s /\ PaidIn(s, mined) /\ s \in booked BY <1>1, <2>1, <2>2 DEF CompletionSound, TaskTrue
  <2>4. row2.status = "finished" BY <1>1, <2>3 DEF RowRec
  <2>5. hit => db[a].status = "claiming" OBVIOUS
  <2> HIDE DEF row2, hit
  <2>6. hit \in BOOLEAN BY DEF hit
  <2> QED BY <2>1, <2>3, <2>4, <2>5, <2>6, LedgerUpdate
<1>5. CASE GetSession(t)
  BY <1>5, LedgerStutters DEF GetSession, DbFrame
<1> QED BY <1>2, <1>3, <1>4, <1>5 DEF Database

\* A timeout is Fail.
LEMMA LedgerTimeout ==
  ASSUME PayInv, OutcomeInv, NEW a \in Sessions, TryTimeoutSession(a)
  PROVE  LedgerStep
<1> DEFINE row2 == [db[a] EXCEPT !.status = "failed"]
<1>1. db \in [Sessions -> RowRec] BY DEF PayInv, Shape
<1>2. /\ UNCHANGED <<mined, booked>> /\ db' = [db EXCEPT ![a] = row2]
      /\ db[a].status = "claimable" /\ db[a].claim = NoClaim
  BY <1>1 DEF TryTimeoutSession
<1>3. row2.status = "failed" BY <1>1 DEF RowRec
<1>4. a \notin Legacy BY <1>2 DEF OutcomeInv, RowsTrue, RowTrue
<1>5. ~PaidIn(a, mined) BY <1>2, Constants, UnsignedIsUnpaid
<1> HIDE DEF row2
<1> QED BY <1>1, <1>2, <1>3, <1>4, <1>5, LedgerRowMoves

\* A successful transaction is Pay, a reverted one nothing.
LEMMA LedgerMine ==
  ASSUME PayInv, OutcomeInv, NEW x \in pool, Mine(x)
  PROVE  LedgerStep
<1> DEFINE s == x.s
<1>1. s \in Sessions /\ db[s].claim.tx = x BY DEF PayInv, ChainSound
<1>2. x.nonce = chainNonce /\ UNCHANGED <<db, booked>> BY DEF Mine
<1>3. PICK ok \in BOOLEAN : mined' = mined \union {[tx |-> x, ok |-> ok]} BY DEF Mine
<1>4. \A m \in mined : m.tx # x
  BY <1>2 DEF PayInv, ChainSound
<1>5. CASE ~ok
  <2>1. Paid' = Paid BY <1>3, <1>5 DEF Paid
  <2> QED BY <1>2, <2>1 DEF LedgerStep, Ledger!ledger
<1>6. CASE ok
  <2>1. Paid' = Paid \union {s}
    <3>1. ASSUME NEW u \in Paid' PROVE u \in Paid \union {s}
      <4>1. PICK m \in mined' : m.ok /\ u = m.tx.s BY <3>1 DEF Paid
      <4>2. CASE m \in mined BY <4>1, <4>2 DEF Paid
      <4>3. CASE m = [tx |-> x, ok |-> ok] BY <4>1, <4>3
      <4> QED BY <1>3, <4>2, <4>3
    <3>2. ASSUME NEW u \in Paid PROVE u \in Paid'
      <4>1. PICK m \in mined : m.ok /\ u = m.tx.s BY <3>2 DEF Paid
      <4>2. m \in mined' BY <1>3
      <4> QED BY <4>1, <4>2 DEF Paid
    <3>3. s \in Paid'
      <4> DEFINE m == [tx |-> x, ok |-> ok]
      <4>1. m \in mined' /\ m.ok /\ m.tx.s = s BY <1>3, <1>6
      <4> HIDE DEF m
      <4> QED BY <4>1 DEF Paid
    <3> QED BY <3>1, <3>2, <3>3
  <2>2. s \notin Paid
    <3>1. ASSUME NEW m \in mined, m.tx.s = s PROVE FALSE
      BY <1>1, <1>4, <3>1 DEF PayInv, ChainSound
    <3> QED BY <3>1 DEF Paid
  <2>3. Signed(db[s].claim) BY <1>1, UnsignedIsUnpaid
  <2>4. s \notin Legacy BY <1>1, <2>3 DEF OutcomeInv, RowsTrue, RowTrue, Signed
  <2>5. db[s].status = "claiming"
    <3>1. ~Evident(db[s].claim, mined) \/ db[s].claim.st \in {"prepared", "pending"}
      BY <1>1, <1>4, <2>3 DEF Evident, Signed
    <3>2. db[s].claim.st \in {"prepared", "pending"} BY <1>1, <3>1 DEF OutcomeInv, RowsTrue, RowTrue
    <3>3. db[s].status \in {"none", "claimable", "claiming", "finished", "failed"}
      BY <1>1 DEF PayInv, Shape, RowRec
    <3> QED BY <1>1, <3>2, <3>3 DEF OutcomeInv, RowsTrue, RowTrue
  <2>6. Ledger!Pay(s) BY <1>1, <1>2, <2>1, <2>2, <2>4, <2>5 DEF Ledger!Pay
  <2> QED BY <1>1, <2>6 DEF LedgerStep, Ledger!LedgerNext
<1> QED BY <1>5, <1>6

\* The hooks are Book.
LEMMA LedgerHooks ==
  ASSUME PayInv, OutcomeInv, NEW s \in Sessions, ClaimedHooks(s)
  PROVE  LedgerStep
<1>1. UNCHANGED <<db, mined>> /\ booked' = booked \union {s} /\ task[Completion(s)].pc = "hooks"
  BY DEF ClaimedHooks, CompletionFrame
<1>2. Completion(s) \in Tasks BY AreTasks
<1>3. PaidIn(s, mined) BY <1>1, <1>2 DEF OutcomeInv, TasksTrue, TaskTrue
<1>4. s \in Paid /\ Paid' = Paid BY <1>1, <1>3, PaidIsPaidIn DEF Paid
<1>5. Ledger!Book(s) BY <1>1, <1>4 DEF Ledger!Book
<1> QED BY <1>5 DEF LedgerStep, Ledger!LedgerNext

\* Every other step is invisible to the ledger.
LEMMA LedgerInvisible ==
  ASSUME \/ \E t \in Transitioners : TransitionRetry(t)
         \/ \E r \in Requests : Create(r) \/ \E s \in Sessions : ClaimReward(r, s)
         \/ ProcessQueue \/ RunQueue
         \/ \E s \in Sessions : Rebroadcast(s) \/ AwaitReceipt(s) \/ (Complete(s) /\ ~ClaimedHooks(s))
         \/ Dispose \/ Stop \/ Initialize
         \/ UNCHANGED vars
  PROVE  LedgerStep
<1>1. UNCHANGED <<db, mined, booked>>
  <2>1. CASE \E t \in Transitioners : TransitionRetry(t) BY <2>1 DEF TransitionRetry, durable
  <2>2. CASE \E r \in Requests : Create(r) \/ \E s \in Sessions : ClaimReward(r, s)
    BY <2>2 DEF Create, RejectClaim, CreateClaim, ClaimCreated, ClaimReward, durable
  <2>3. CASE ProcessQueue \/ RunQueue
    BY <2>3 DEF ProcessQueue, RunQueue, ProcessQueueTx, PrepareClaimTx, PrepareFails, QueueAborted,
                QueuePrepared, QueueFailed, QueueLost, QueueDone, QueueFrame, durable
  <2>4. CASE \E s \in Sessions : Rebroadcast(s)
    BY <2>4 DEF Rebroadcast, Retry, BroadcastAcked, BroadcastUnacked, BroadcastTransition, ReconcileFrame
  <2>5. CASE \E s \in Sessions : AwaitReceipt(s)
    BY <2>5 DEF AwaitReceipt, Retry, ReceiptArrives, ReceiptAborted, ReceiptSettled, ReceiptLost,
                ReconcileFrame
  <2>6. CASE \E s \in Sessions : Complete(s) /\ ~ClaimedHooks(s)
    BY <2>6 DEF Complete, ClaimedHooksFail, FinalizeLookup, CompletionDone, FinalizeRetry, CompletionFrame
  <2>7. CASE Dispose \/ Stop \/ Initialize BY <2>7 DEF Dispose, Stop, Initialize, durable
  <2>8. CASE UNCHANGED vars BY <2>8 DEF vars, durable
  <2> QED BY <2>1, <2>2, <2>3, <2>4, <2>5, <2>6, <2>7, <2>8
<1> QED BY <1>1, LedgerStutters

\* The claim pipeline implements the abstract ledger: whatever crashes, lost
\* acknowledgements and reordered replies happen, a session is claimed once,
\* paid at most once and only while claiming, booked after it was paid, and
\* finished or failed in agreement with the chain.
THEOREM ImplementsClaimLedger == Spec => LedgerSpec
<1>1. Init => Ledger!LedgerInit
  <2> SUFFICES ASSUME Init PROVE Ledger!LedgerInit OBVIOUS
  <2>1. \A s \in Sessions : db[s].status = IF s \in Legacy THEN "claiming" ELSE "claimable"
    BY DEF Init
  <2>2. Paid = {} /\ booked = {} BY DEF Init, Paid
  <2> QED BY <2>1, <2>2 DEF Ledger!LedgerInit
<1>2. PayInv /\ OutcomeInv /\ [Next]_vars => [Ledger!LedgerNext]_(Ledger!ledger)
  <2> SUFFICES ASSUME PayInv, OutcomeInv, [Next]_vars PROVE LedgerStep BY DEF LedgerStep
  <2> QED BY LedgerDatabase, LedgerTimeout, LedgerMine, LedgerHooks, LedgerInvisible DEF Next
<1> QED BY OutcomeInvariance, <1>1, <1>2, PTL DEF Spec, LedgerSpec, Ledger!LedgerSpec

-----------------------------------------------------------------------------
(***************************************************************************)
(* Who holds a claim.  While the manager runs, a signed claim that is not  *)
(* settled keeps its reservation and its slot in pendingTxQueue, and every *)
(* claim of a row is owned unless the acknowledgement of its creation was  *)
(* lost, whichever reply comes late: what a task releases belongs to a row *)
(* that is no longer CLAIMING.  It follows that ethMaxPending bounds the   *)
(* claims in flight across restarts and, over endpoints that do not lag,   *)
(* that no two signed claims share a nonce.                                *)
(***************************************************************************)

Active(row) == row.claim.st \in {"prepared", "pending"}
Settled(c) == c.st \in {"confirmed", "reverted"}

\* The queue has a transition under way; it is to sign a claim or has done so.
Writing(q) == q.pc \in {"cas", "read"}
Flying(q) == Writing(q) /\ q.new.st = "prepared"

\* What the queue has read or written is what the row holds.
QueueFresh(q, D) ==
  /\ q.pc = "read" /\ q.reply = "ok" => q.row = D[q.s]
  /\ q.pc = "cas" /\ q.reply = "ok" => D[q.s].claim = q.new

\* A late reply may be out of date, but never about a settled claim.
ReplySettled(k, row) ==
  /\ k.pc = "read" /\ k.reply = "ok" /\ Settled(k.row.claim) => row.claim = k.row.claim
  /\ k.pc = "read" /\ k.reply = "ok" /\ k.row.status = "finished" => row.status = "finished"
  /\ k.pc = "cas" /\ k.reply = "ok" /\ Settled(k.new) => row.claim = k.new
  /\ k.pc = "finalize" /\ k.reply = "ok" => row.status = "finished"

\* A claim that is queued in memory is owned, and only the queue can sign it.
QueueHolds(s, row, c, q) ==
  c.st = "queue" =>
    /\ s \in dict
    /\ ~Signed(row.claim) \/ (Writing(q) /\ q.s = s /\ row.claim = q.new)

\* A signed claim that is not settled has a reservation and a slot.
RowHeld(s, row, q) ==
  Active(row) => row.claim.tx \in reserved /\ (s \in pending \/ (Writing(q) /\ q.s = s))

\* Some handler has written the claim of s and not yet continued.
Unreported(s) == \E r \in Requests : Wrote(task[Request(r)]) /\ task[Request(r)].s = s

RowOwned(s, row) ==
  row.status = "claiming" =>
    /\ row.claim.st \in {"prepared", "pending", "confirmed"} => s \in dict
    /\ row.claim.st = "queue" => s \in dict \/ Unreported(s) \/ dbErrors > 0

RowsOpen == \A s \in Sessions : db[s].status = "claiming" => db[s].claim.st \notin {"failed", "reverted"}
HandlersFresh ==
  \A r \in Requests : LET k == task[Request(r)] IN Wrote(k) => db[k.s].claim = k.new
RepliesSettled ==
  \A s \in Sessions : \A t \in {Broadcast(s), Receipt(s), Completion(s)} : ReplySettled(task[t], db[s])
\* settleClaim only writes an outcome.
ReceiptsSettle == \A s \in Sessions : Writing(task[Receipt(s)]) => Settled(task[Receipt(s)].new)
Custody ==
  /\ Flying(task[Queue]) => task[Queue].new.tx \in reserved
  /\ \A s \in Sessions : /\ QueueHolds(s, db[s], claims[s], task[Queue])
                         /\ RowHeld(s, db[s], task[Queue])
                         /\ RowOwned(s, db[s])

\* The inductive invariant.
CustodyInv ==
  /\ dbErrors \in Nat
  /\ RowsOpen
  /\ QueueFresh(task[Queue], db)
  /\ HandlersFresh
  /\ RepliesSettled /\ ReceiptsSettle
  /\ Up => Custody

\* The sessions in flight: signed and not settled, or about to be.
InFlight ==
  {s \in Sessions : Active(db[s])} \union
  {s \in Sessions : s = task[Queue].s /\ (task[Queue].pc = "sign" \/ Flying(task[Queue]))}

SlotInv == pending \subseteq Sessions /\ Cardinality(InFlight) <= EthMaxPending

\* The wallet's nonce is above every signed one, and they differ.
NoncesApart ==
  \A a, b \in Sessions :
    Signed(db[a].claim) /\ Signed(db[b].claim) /\ db[a].claim.tx.nonce = db[b].claim.tx.nonce => a = b
FlyingApart ==
  LET q == task[Queue]
  IN Flying(q) => \A b \in Sessions :
       Signed(db[b].claim) /\ b # q.s => db[b].claim.tx.nonce # q.new.tx.nonce
NonceAhead ==
  LET q == task[Queue]
  IN /\ \A s \in Sessions : Signed(db[s].claim) => db[s].claim.tx.nonce < nonce
     /\ Flying(q) => q.new.tx.nonce < nonce
NonceInv ==
  /\ NoncesApart /\ FlyingApart
  /\ task[Queue].pc = "sign" => ready
  /\ Up /\ ready => NonceAhead

\* Over one worker, at most one reply is under way and it is about the row as it is.
OneReply == \A t, u \in Tasks : task[t].reply # "none" /\ task[u].reply # "none" => t = u
ReceiptFresh(k, row) ==
  /\ k.pc = "cas" /\ k.reply = "ok" /\ k.new.st = "confirmed" => row.status = "claiming"
  /\ k.pc = "read" /\ k.reply = "ok" => row = k.row
StatsInv ==
  /\ OneReply
  /\ \A s \in Sessions : ReceiptFresh(task[Receipt(s)], db[s])
  /\ stats \in [Sessions -> Nat]
  /\ \A s \in Sessions :
       /\ stats[s] <= 1
       /\ stats[s] = 1 => /\ db[s].status = "finished" /\ s \notin dict
                          /\ task[Completion(s)].pc = "off"

\* The bounds of what the wallet signs and the manager numbers.
KnownTx == [s : Sessions, nonce : 0 .. (signed - 1), sig : 1 .. signed]
KnownClaim == [st : ClaimTxStatus \union {"none", "processing"}, idx : 0 .. MaxIdx,
               tx : KnownTx \union {NoTx}]
KnownRow == [status : {"claimable", "claiming", "finished", "failed"}, claim : KnownClaim]
KnownTask == [pc : Places, s : Sessions \union {NoSession}, exp : KnownClaim, new : KnownClaim,
              reply : {"none", "ok", "no", "error"}, row : KnownRow \union {NoRow},
              err : BOOLEAN, try : 0 .. 2]
BytesInv ==
  /\ signed \in 0 .. MaxSigned
  /\ db \in [Sessions -> KnownRow] /\ claims \in [Sessions -> KnownClaim] /\ task \in [Tasks -> KnownTask]
  /\ pool \subseteq KnownTx /\ reserved \subseteq KnownTx
  /\ mined \subseteq [tx : KnownTx, ok : BOOLEAN]
  /\ chainNonce \in 0 .. signed /\ nonce \in 0 .. signed
\* What the manager keeps beside them.
ListsInv ==
  /\ booked \subseteq Sessions /\ dict \subseteq Sessions /\ pending \subseteq Sessions
  /\ queue \in Seq(Sessions)
  /\ phase \in {"down", "up", "closing"} /\ ready \in BOOLEAN
  /\ nextIdx \in Nat /\ stats \in [Sessions -> Nat]
  /\ restarts \in Nat /\ dbErrors \in Nat

-----------------------------------------------------------------------------
(* A step of rebroadcastClaim, awaitTxReceipt or completeConfirmedClaim of *)
(* session s, after which the object of s holds claim c.                   *)

ReconcilerTasks(s) == {Broadcast(s), Receipt(s), Completion(s)}

\* Task t of session s has moved on to k: it waits for no reply.
Moved(s, t, k) ==
  /\ t \in ReconcilerTasks(s) /\ k.reply = "none"
  /\ t = Receipt(s) /\ Writing(k) => Settled(k.new)

ReconcilerStep(s, c) ==
  /\ UNCHANGED <<db, mined, chainNonce, phase, queue, nextIdx, nonce, ready, signed, restarts, dbErrors>>
  /\ claims' = [claims EXCEPT ![s] = c] /\ Signed(c)
  /\ dict' \in {dict, dict \ {s}} /\ pending' \in {pending, pending \ {s}}
  /\ reserved' \in {reserved, reserved \ {db[s].claim.tx}}
  /\ db[s].status = "claiming" => UNCHANGED <<dict, pending, reserved>>
  /\ \A t \in Tasks : task'[t] = task[t] \/ Moved(s, t, task'[t])

\* A row whose claim is not settled is still CLAIMING.
LEMMA ActiveIsClaiming ==
  ASSUME PayInv, OutcomeInv, NEW s \in Sessions, Active(db[s])
  PROVE  db[s].status = "claiming" /\ Signed(db[s].claim)
BY DEF PayInv, Shape, RowRec, OutcomeInv, RowsTrue, RowTrue, Active, Signed

\* The claim the queue works on is unsigned in memory.
LEMMA QueueClaim ==
  ASSUME PayInv
  PROVE  LET q == task[Queue]
         IN /\ q.pc \in {"sign", "cas", "read"} => q.s \in Sessions /\ claims[q.s].st = "queue"
                                                   /\ db[q.s].status # "claimable"
            /\ Writing(q) => \/ q.new.st = "prepared" /\ q.new.tx.s = q.s
                             \/ q.new.st = "failed" /\ q.new.tx = NoTx
<1> DEFINE q == task[Queue]
<1>1. QueueSound(q, db, claims) BY AreTasks, KindSound DEF PayInv, TasksSound
<1>2. q.pc \in {"sign", "cas", "read"} => q.s \in Sessions /\ claims[q.s].st = "queue"
  BY <1>1 DEF QueueSound
<1>3. q.pc \in {"sign", "cas", "read"} => db[q.s].status # "claimable"
  BY <1>2, Constants DEF PayInv, RowsSound, MemorySound
<1>4. Writing(q) => \/ q.new.st = "prepared" /\ q.new.tx.s = q.s
                    \/ q.new.st = "failed" /\ q.new.tx = NoTx
  BY <1>1 DEF QueueSound, Writing
<1> QED BY <1>2, <1>3, <1>4

\* What the tasks that reconcile session s know.
LEMMA ReconcilerClaim ==
  ASSUME PayInv, OutcomeInv, NEW s \in Sessions, NEW t \in ReconcilerTasks(s), task[t].pc # "off"
  PROVE  /\ task[t].s = s /\ Signed(claims[s]) /\ t \in Tasks
         /\ Agrees(db[s], claims[s])
         /\ task[t].pc = "cas" => Carries(db[s], task[t].new) /\ t # Completion(s)
         /\ task[t].pc \in {"cas", "read"} /\ t # Completion(s) =>
              IsActiveSigned(task[t].exp) /\ Carries(db[s], task[t].new)
         /\ task[t].pc = "read" => task[t].reply # "no"
                                   \/ t = Completion(s)
         /\ task[t].pc = "read" /\ task[t].reply = "ok" => Carries(db[s], task[t].row.claim)
<1>1. t \in Tasks BY AreTasks DEF ReconcilerTasks
<1>2. TaskSound(t, task[t], db, claims) /\ TaskTrue(t, task[t], mined, booked)
  BY <1>1 DEF PayInv, TasksSound, OutcomeInv, TasksTrue
<1>3. Agrees(db[s], claims[s]) BY DEF PayInv, RowsSound, MemorySound
<1>4. CASE t = Completion(s)
  <2>1. CompletionSound(s, task[t], db, claims) BY <1>2, <1>4, KindSound
  <2> QED BY <1>1, <1>3, <1>4, <2>1 DEF CompletionSound
<1>5. CASE t \in {Broadcast(s), Receipt(s)}
  <2>1. ReconcilerSound(s, task[t], db, claims) BY <1>2, <1>5, KindSound
  <2>2. task[t].pc \in {"cas", "read"} => IsActiveSigned(task[t].exp) BY <1>2, <1>5 DEF TaskTrue
  <2>3. t # Completion(s) BY <1>5, KindsDiffer
  <2> QED BY <1>1, <1>3, <2>1, <2>2, <2>3 DEF ReconcilerSound
<1> QED BY <1>4, <1>5 DEF ReconcilerTasks

\* Such a step keeps the invariant.
LEMMA ReconcilerStepKeeps ==
  ASSUME PayInv, OutcomeInv, CustodyInv, ClaimAssumption, NEW s \in Sessions, NEW c, Signed(claims[s]),
         ReconcilerStep(s, c)
  PROVE  CustodyInv'
<1> DEFINE q == task[Queue]
<1>1. /\ UNCHANGED <<db, phase, dbErrors>> /\ claims \in [Sessions -> ClaimRec]
      /\ claims' = [claims EXCEPT ![s] = c] /\ Signed(c)
  BY DEF ReconcilerStep, PayInv, Shape
<1>2. /\ \A t \in Tasks : task'[t] = task[t] \/ Moved(s, t, task'[t])
      /\ \A u \in Sessions : u # s => (u \in dict' <=> u \in dict) /\ (u \in pending' <=> u \in pending)
      /\ db[s].status = "claiming" => UNCHANGED <<dict, pending, reserved>>
  BY DEF ReconcilerStep
<1>3. task'[Queue] = q /\ \A r \in Requests : task'[Request(r)] = task[Request(r)]
  BY <1>2, AreTasks, KindsDiffer DEF ReconcilerTasks, Moved
<1>4. \A r \in Requests : Wrote(task[Request(r)])' <=> Wrote(task[Request(r)]) BY <1>3 DEF Wrote
<1>5. \A u \in Sessions : Unreported(u)' <=> Unreported(u) BY <1>3, <1>4 DEF Unreported
<1>6. QueueFresh(task[Queue], db)' BY <1>1, <1>3 DEF CustodyInv, QueueFresh
<1>7. HandlersFresh' BY <1>1, <1>3, <1>4 DEF CustodyInv, HandlersFresh
<1>8. RepliesSettled'
  <2> SUFFICES ASSUME NEW u \in Sessions, NEW t \in {Broadcast(u), Receipt(u), Completion(u)}
               PROVE  ReplySettled(task'[t], db[u])
    BY <1>1 DEF RepliesSettled
  <2>1. t \in Tasks BY AreTasks
  <2>2. CASE task'[t] = task[t] BY <2>2 DEF CustodyInv, RepliesSettled
  <2>3. CASE task'[t].reply = "none" BY <2>3 DEF ReplySettled
  <2> QED BY <1>2, <2>1, <2>2, <2>3 DEF Moved
<1>11. ReceiptsSettle'
  <2> SUFFICES ASSUME NEW u \in Sessions, Writing(task'[Receipt(u)]) PROVE Settled(task'[Receipt(u)].new)
    BY DEF ReceiptsSettle, Writing
  <2>1. Receipt(u) \in Tasks BY AreTasks
  <2>2. CASE task'[Receipt(u)] = task[Receipt(u)] BY <2>2 DEF CustodyInv, ReceiptsSettle
  <2>3. CASE Moved(s, Receipt(u), task'[Receipt(u)])
    <3>1. Receipt(u) = Receipt(s) BY <2>3, KindsDiffer, TasksDiffer DEF Moved, ReconcilerTasks
    <3> QED BY <2>3, <3>1 DEF Moved
  <2> QED BY <1>2, <2>1, <2>2, <2>3
<1>9. ASSUME Up', NEW x \in reserved, x.s # s PROVE x \in reserved'
  <2>1. Signed(db[s].claim) => db[s].claim.tx.s = s BY DEF PayInv, RowsSound, RowSound
  <2>2. Agrees(db[s], claims[s]) BY DEF PayInv, RowsSound, MemorySound
  <2>3. db[s].claim.tx.s = s BY <2>1, <2>2 DEF Agrees
  <2> QED BY <1>9, <2>3 DEF ReconcilerStep
<1>10. ASSUME Up' PROVE Custody'
  <2>1. Custody BY <1>1, <1>10 DEF CustodyInv, Up
  <2>2. Writing(q) => q.s # s BY QueueClaim DEF Writing, Signed
  <2>3. Flying(q) => q.new.tx \in reserved'
    <3>1. Flying(q) => q.new.tx.s = q.s BY QueueClaim DEF Flying
    <3> QED BY <1>9, <1>10, <2>1, <2>2, <3>1 DEF Custody, Flying
  <2>4. ASSUME NEW u \in Sessions
        PROVE  /\ QueueHolds(u, db[u], claims[u], q)' /\ RowHeld(u, db[u], q)' /\ RowOwned(u, db[u])'
    <3>1. QueueHolds(u, db[u], claims[u], q) /\ RowHeld(u, db[u], q) /\ RowOwned(u, db[u])
      BY <2>1 DEF Custody
    <3>2. CASE u = s
      <4>1. ~(claims'[u].st = "queue") BY <1>1, <3>2 DEF Signed
      <4>2. Active(db[u]) => db[s].status = "claiming" BY <3>2, ActiveIsClaiming
      <4>3. RowHeld(u, db[u], q)' BY <1>1, <1>2, <1>3, <3>1, <4>2 DEF RowHeld
      <4>4. RowOwned(u, db[u])' BY <1>1, <1>2, <1>5, <3>1, <3>2 DEF RowOwned
      <4> QED BY <4>1, <4>3, <4>4 DEF QueueHolds
    <3>3. CASE u # s
      <4>1. claims'[u] = claims[u] BY <1>1, <3>3
      <4>2. Active(db[u]) => db[u].claim.tx.s = u
        BY ActiveIsClaiming DEF PayInv, RowsSound, RowSound
      <4>3. RowHeld(u, db[u], q)' BY <1>1, <1>2, <1>3, <1>9, <1>10, <3>1, <3>3, <4>2 DEF RowHeld
      <4>4. RowOwned(u, db[u])' BY <1>1, <1>2, <1>5, <3>1, <3>3 DEF RowOwned
      <4>5. QueueHolds(u, db[u], claims[u], q)' BY <1>1, <1>2, <1>3, <3>1, <3>3, <4>1 DEF QueueHolds
      <4> QED BY <4>3, <4>4, <4>5
    <3> QED BY <3>2, <3>3
  <2> QED BY <1>3, <2>3, <2>4 DEF Custody
<1> QED BY <1>1, <1>6, <1>7, <1>8, <1>10, <1>11 DEF CustodyInv, RowsOpen

\* A task that has just moved on waits for no reply.
LEMMA NoReply ==
  /\ Off.reply = "none"
  /\ \A p, s : At(p, s).reply = "none"
  /\ \A s, c : [At("finalize", s) EXCEPT !.exp = c].reply = "none"
  /\ \A s, c, d : CasCall(s, c, d).reply = "none"
  /\ \A s, c, d, n : [CasCall(s, c, d) EXCEPT !.try = n].reply = "none"
  /\ \A s, c, o, n : Settle(s, c, o, n).reply = "none"
BY DEF Off, At, CasCall, Settle

\* A task of session s moves on and perhaps starts the completion.
LEMMA ReconcilerGoto ==
  ASSUME PayInv, NEW s \in Sessions, NEW t \in ReconcilerTasks(s), NEW i, Moved(s, t, i), NEW o,
         \/ task' = [task EXCEPT ![t] = i]
         \/ task' = Completing([task EXCEPT ![t] = i], s)
         \/ task' = Reconciled([task EXCEPT ![t] = i], s, o)
  PROVE  \A u \in Tasks : task'[u] = task[u] \/ Moved(s, u, task'[u])
<1> DEFINE tasks == [task EXCEPT ![t] = i]
<1>1. t \in Tasks /\ Completion(s) \in ReconcilerTasks(s) /\ task \in [Tasks -> TaskRec]
  BY AreTasks DEF ReconcilerTasks, PayInv, Shape
<1>2. \A u \in Tasks : tasks[u] = task[u] \/ Moved(s, u, tasks[u]) BY <1>1
<1>3. DOMAIN tasks = Tasks BY <1>1
<1>4. task' = tasks \/ task' = Completing(tasks, s) \/ task' = Reconciled(tasks, s, o) OBVIOUS
<1> HIDE DEF tasks
<1>5. task' = tasks \/ task' = [tasks EXCEPT ![Completion(s)] = At("hooks", s)]
  BY <1>4 DEF Completing, Reconciled
<1>6. Moved(s, Completion(s), At("hooks", s)) BY <1>1, NoReply, KindsDiffer DEF Moved
<1> QED BY <1>1, <1>2, <1>3, <1>5, <1>6

\* Where the tasks of s move on to.
LEMMA Moves ==
  ASSUME NEW s \in Sessions
  PROVE  /\ \A t \in ReconcilerTasks(s) :
              /\ Moved(s, t, Off)
              /\ \A p \in {"send", "watch", "retry", "hooks"} : \A u : Moved(s, t, At(p, u))
         /\ \A c, d : Moved(s, Broadcast(s), CasCall(s, c, d))
         /\ \A c, n : \A o \in {"confirmed", "reverted"} : c \in ClaimRec => Moved(s, Receipt(s), Settle(s, c, o, n))
         /\ \A u : Moved(s, Completion(s), At("read", u))
         /\ \A u, c : Moved(s, Completion(s), [At("finalize", u) EXCEPT !.exp = c])
<1>1. Broadcast(s) # Receipt(s) /\ Completion(s) # Receipt(s) BY KindsDiffer
<1>2. \A p, u : At(p, u).pc = p BY DEF At
<1>3. Off.pc = "off" BY Constants
<1>4. ASSUME NEW c \in ClaimRec, NEW n, NEW o \in {"confirmed", "reverted"}
      PROVE  Writing(Settle(s, c, o, n)) => Settled(Settle(s, c, o, n).new)
  <2>1. CASE IsActiveSigned(c) /\ n < 3
    <3>1. Settle(s, c, o, n).new = WithStatus(c, o) BY <2>1 DEF Settle, CasCall, At
    <3>2. WithStatus(c, o).st = o BY ClaimShape DEF ClaimTxStatus
    <3> QED BY <3>1, <3>2 DEF Settled
  <2>2. CASE ~(IsActiveSigned(c) /\ n < 3) BY <2>2, <1>3 DEF Settle, Writing
  <2> QED BY <2>1, <2>2
<1> QED BY <1>1, <1>2, <1>3, <1>4, NoReply DEF Moved, Writing, ReconcilerTasks

\* reconcileObservedTerminal for a signed claim that is o: it forgets the claim
\* only when the row says that it has reverted.
LEMMA TerminalReleases ==
  ASSUME PayInv, CustodyInv, NEW s \in Sessions, NEW o, o.st \notin {"failed"},
         o.st = "reverted" => db[s].claim = o, ReconcileTerminal(s, o, {})
  PROVE  /\ dict' \in {dict, dict \ {s}} /\ pending' \in {pending, pending \ {s}}
         /\ reserved' \in {reserved, reserved \ {db[s].claim.tx}} /\ UNCHANGED queue
         /\ db[s].status = "claiming" => UNCHANGED <<dict, pending, reserved>>
<1>1. o.st = "reverted" => db[s].status # "claiming" BY DEF CustodyInv, RowsOpen
<1>2. reserved \ {} = reserved OBVIOUS
<1> QED BY <1>1, <1>2 DEF ReconcileTerminal

\* What a reconciling task observes in a row that has settled.
LEMMA ObservedSettled ==
  ASSUME PayInv, OutcomeInv, CustodyInv, NEW s \in Sessions, NEW t \in ReconcilerTasks(s), task[t].pc # "off"
  PROVE  /\ Observed(task[t]).st # "failed"
         /\ Observed(task[t]).st = "reverted" => db[s].claim = Observed(task[t])
         /\ Signed(Learned(task[t]))
<1> DEFINE k == task[t]
<1>1. k.s = s /\ Signed(claims[s]) BY ReconcilerClaim
<1>2. k.pc = "read" /\ k.reply = "ok" => Signed(k.row.claim) BY ReconcilerClaim DEF Carries
<1>3. k.pc = "read" /\ k.reply = "ok" /\ Settled(k.row.claim) => db[s].claim = k.row.claim
  BY DEF CustodyInv, RepliesSettled, ReplySettled, ReconcilerTasks
<1>4. k.pc = "cas" => Signed(k.new) BY ReconcilerClaim DEF Carries
<1>5. NoClaim.st = "none" BY Constants
<1> QED BY <1>1, <1>2, <1>3, <1>4, <1>5 DEF Observed, Learned, Settled, Signed

\* rebroadcastClaim and awaitTxReceipt.
LEMMA ReconcilerEffect ==
  ASSUME PayInv, OutcomeInv, CustodyInv, NEW s \in Sessions, Rebroadcast(s) \/ AwaitReceipt(s)
  PROVE  Signed(claims[s]) /\ \E c : ReconcilerStep(s, c)
<1> DEFINE b == Broadcast(s)
           w == Receipt(s)
<1>1. b \in ReconcilerTasks(s) /\ w \in ReconcilerTasks(s) BY DEF ReconcilerTasks
<1>2. UNCHANGED <<db, mined, chainNonce, phase, nextIdx, nonce, ready, signed, restarts, dbErrors>>
  BY DEF Rebroadcast, AwaitReceipt, Retry, BroadcastAcked, BroadcastUnacked, BroadcastTransition,
         ReceiptArrives, ReceiptAborted, ReceiptSettled, ReceiptLost, ReconcileFrame, bounds
<1>3. claims \in [Sessions -> ClaimRec] BY DEF PayInv, Shape
<1>4. CASE \/ Retry(b, "send") \/ BroadcastAcked(s) \/ BroadcastUnacked(s)
           \/ Retry(w, "watch") \/ ReceiptArrives(s) \/ ReceiptAborted(s)
  <2>1. UNCHANGED <<claims, dict, queue, pending, reserved>>
    BY <1>4 DEF Retry, BroadcastAcked, BroadcastUnacked, ReceiptArrives, ReceiptAborted
  <2>2. PICK t \in {b, w} : task[t].pc # "off" /\ \E i : Moved(s, t, i) /\ task' = [task EXCEPT ![t] = i]
    <3>1. CASE Retry(b, "send") BY <1>1, <3>1, Moves DEF Retry, Goto
    <3>2. CASE Retry(w, "watch") BY <1>1, <3>2, Moves DEF Retry, Goto
    <3>3. CASE BroadcastAcked(s) BY <1>1, <3>3, Moves DEF BroadcastAcked, Goto
    <3>4. CASE BroadcastUnacked(s) BY <1>1, <3>4, Moves DEF BroadcastUnacked, Goto
    <3>5. CASE ReceiptArrives(s) BY <1>1, <1>3, <3>5, Moves DEF ReceiptArrives, Goto
    <3>6. CASE ReceiptAborted(s) BY <1>1, <3>6, Moves DEF ReceiptAborted, Goto
    <3> QED BY <1>4, <3>1, <3>2, <3>3, <3>4, <3>5, <3>6
  <2>3. Signed(claims[s]) BY <1>1, <2>2, ReconcilerClaim
  <2>4. \A u \in Tasks : task'[u] = task[u] \/ Moved(s, u, task'[u])
    BY <1>1, <2>2, ReconcilerGoto
  <2>5. claims' = [claims EXCEPT ![s] = claims[s]] BY <1>3, <2>1
  <2>6. ReconcilerStep(s, claims[s]) BY <1>2, <2>1, <2>3, <2>4, <2>5 DEF ReconcilerStep
  <2> QED BY <2>3, <2>6
<1>5. CASE BroadcastTransition(s) \/ ReceiptSettled(s) \/ ReceiptLost(s)
  <2>1. PICK t \in {b, w} :
          /\ task[t].pc \in {"cas", "read"} /\ task[t].reply # "none"
          /\ claims' = [claims EXCEPT ![task[t].s] = Learned(task[t])]
          /\ t = b => BroadcastTransition(s)
          /\ t = w => ReceiptSettled(s) \/ ReceiptLost(s)
    BY <1>5, KindsDiffer DEF BroadcastTransition, ReceiptSettled, ReceiptLost, Over, Learn
  <2> DEFINE k == task[t]
             c == Learned(k)
             o == Observed(k)
  <2>2. k.s = s /\ Signed(claims[s]) /\ Signed(c) /\ t \in ReconcilerTasks(s)
        /\ o.st # "failed" /\ (o.st = "reverted" => db[s].claim = o)
    BY <1>1, <2>1, ReconcilerClaim, ObservedSettled
  <2>3. ASSUME ReconcileTerminal(s, o, {})
        PROVE  /\ dict' \in {dict, dict \ {s}} /\ pending' \in {pending, pending \ {s}}
               /\ reserved' \in {reserved, reserved \ {db[s].claim.tx}} /\ UNCHANGED queue
               /\ db[s].status = "claiming" => UNCHANGED <<dict, pending, reserved>>
    <3> HIDE DEF o
    <3> QED BY <2>2, <2>3, TerminalReleases
  <2>4. ASSUME UNCHANGED <<dict, pending, reserved, queue>> \/ ReconcileTerminal(s, o, {}),
               NEW i, Moved(s, t, i),
               \/ task' = [task EXCEPT ![t] = i]
               \/ task' = Completing([task EXCEPT ![t] = i], s)
               \/ task' = Reconciled([task EXCEPT ![t] = i], s, o)
        PROVE  \E d : ReconcilerStep(s, d)
    <3>1. \A u \in Tasks : task'[u] = task[u] \/ Moved(s, u, task'[u])
      <4> HIDE DEF o
      <4> QED BY <2>2, <2>4, ReconcilerGoto
    <3>2. claims' = [claims EXCEPT ![s] = c] BY <2>1, <2>2
    <3> HIDE DEF c, o
    <3>3. ReconcilerStep(s, c) BY <1>2, <2>2, <2>3, <2>4, <3>1, <3>2 DEF ReconcilerStep
    <3> QED BY <3>3
  <2>5. CASE t = b
    <3>1. BroadcastTransition(s) BY <2>1, <2>5
    <3> DEFINE i == IF Outcome(k) = "threw" /\ Up THEN At("retry", s) ELSE Off
    <3>2. \/ task' = [task EXCEPT ![t] = Off] /\ UNCHANGED <<dict, pending, reserved, queue>>
          \/ task' = Reconciled([task EXCEPT ![t] = i], s, o) /\ ReconcileTerminal(s, o, {})
      BY <2>5, <3>1 DEF BroadcastTransition, Goto
    <3>3. Moved(s, t, i) /\ Moved(s, t, Off) BY <2>2, Moves
    <3> HIDE DEF i, o
    <3> QED BY <2>2, <2>4, <3>2, <3>3
  <2>6. CASE t = w /\ ReceiptLost(s)
    <3> DEFINE i == IF Outcome(k) = "lost" THEN Settle(s, c, k.new.st, k.try + 1)
                    ELSE IF Up THEN At("retry", s) ELSE Off
    <3>1. task' = Reconciled([task EXCEPT ![t] = i], s, o) /\ ReconcileTerminal(s, o, {})
      BY <2>6 DEF ReceiptLost
    <3>2. Moved(s, t, i)
      <4>1. c \in ClaimRec BY <2>1, ReconcilerLearns
      <4>2. k.new.st \in {"confirmed", "reverted"}
        BY <2>1, <2>6 DEF CustodyInv, ReceiptsSettle, Writing, Settled
      <4> HIDE DEF c
      <4> QED BY <2>2, <2>6, <4>1, <4>2, Moves
    <3> HIDE DEF i, o
    <3> QED BY <2>2, <2>4, <3>1, <3>2
  <2>7. CASE t = w /\ ReceiptSettled(s)
    <3>1. CASE k.new.st = "confirmed"
      <4>1. task' = Completing([task EXCEPT ![t] = Off], s) /\ UNCHANGED <<dict, pending, reserved, queue>>
        BY <2>7, <3>1 DEF ReceiptSettled
      <4> QED BY <2>2, <2>4, <4>1, Moves
    <3>2. CASE k.new.st # "confirmed"
      <4>1. task' = [task EXCEPT ![t] = Off] /\ Forget(s, k.new.tx) /\ UNCHANGED queue
        BY <2>7, <3>2 DEF ReceiptSettled, Goto
      <4>2. Outcome(k) = "won" BY <2>7 DEF ReceiptSettled, Over
      <4>3. k.new.st = "reverted" /\ Agrees(db[s], k.new) /\ Signed(k.new)
        <5>1. Carries(db[s], k.new) BY <2>1, <2>2, ReconcilerClaim, KindsDiffer
        <5>2. k.new.st \in {"confirmed", "reverted"} BY <2>1, <2>7 DEF CustodyInv, ReceiptsSettle, Writing, Settled
        <5> QED BY <3>2, <5>1, <5>2 DEF Carries
      <4>4. db[s].claim = k.new
        <5>1. \/ k.pc = "cas" /\ k.reply = "ok"
              \/ k.pc = "read" /\ k.reply = "ok" /\ k.row.claim = k.new
          <6>1. k.pc = "read" => k.reply # "no" BY <2>1, <2>2, ReconcilerClaim, KindsDiffer
          <6>2. k.reply \in {"none", "ok", "no", "error"} BY <2>2, AreTasks DEF PayInv, Shape, TaskRec
          <6> QED BY <2>1, <4>2, <6>1, <6>2 DEF Outcome, ReadOutcome
        <5> QED BY <2>1, <4>3, <5>1 DEF CustodyInv, RepliesSettled, ReplySettled, Settled
      <4>5. db[s].status # "claiming" BY <4>3, <4>4 DEF CustodyInv, RowsOpen
      <4>6. \A u \in Tasks : task'[u] = task[u] \/ Moved(s, u, task'[u])
        BY <2>2, <4>1, Moves, ReconcilerGoto
      <4>7. claims' = [claims EXCEPT ![s] = c] BY <2>1, <2>2
      <4> HIDE DEF c
      <4>8. ReconcilerStep(s, c) BY <1>2, <2>2, <4>1, <4>4, <4>5, <4>6, <4>7 DEF ReconcilerStep, Forget
      <4> QED BY <2>2, <4>8
    <3> QED BY <3>1, <3>2
  <2> QED BY <2>1, <2>2, <2>5, <2>6, <2>7
<1> QED BY <1>4, <1>5 DEF Rebroadcast, AwaitReceipt

\* completeConfirmedClaim: the claim is forgotten only after the row is FINISHED.
LEMMA CompletionEffect ==
  ASSUME PayInv, OutcomeInv, CustodyInv, NEW s \in Sessions, Complete(s)
  PROVE  Signed(claims[s]) /\ \E c : ReconcilerStep(s, c)
<1> DEFINE f == Completion(s)
           k == task[f]
<1>1. f \in ReconcilerTasks(s) BY DEF ReconcilerTasks
<1>2. /\ UNCHANGED <<db, mined, chainNonce, phase, nextIdx, nonce, ready, signed, restarts, dbErrors>>
      /\ k.pc # "off"
  BY DEF Complete, ClaimedHooks, ClaimedHooksFail, FinalizeLookup, CompletionDone, FinalizeRetry, CompletionFrame
<1>3. claims \in [Sessions -> ClaimRec] BY DEF PayInv, Shape
<1>4. /\ Signed(claims[s]) /\ Agrees(db[s], claims[s])
      /\ k.pc = "read" /\ k.reply = "ok" => Carries(db[s], k.row.claim)
  BY <1>1, <1>2, ReconcilerClaim
<1>5. ReplySettled(k, db[s]) BY DEF CustodyInv, RepliesSettled
<1>6. CASE ClaimedHooks(s) \/ ClaimedHooksFail(s) \/ FinalizeLookup(s)
  <2>1. UNCHANGED <<claims, dict, queue, pending, reserved>>
    BY <1>6 DEF ClaimedHooks, ClaimedHooksFail, FinalizeLookup
  <2>2. PICK i : Moved(s, f, i) /\ task' = [task EXCEPT ![f] = i]
    <3>1. CASE ClaimedHooks(s) BY <1>1, <3>1, Moves DEF ClaimedHooks, Goto
    <3>2. CASE ClaimedHooksFail(s) BY <1>1, <3>2, Moves DEF ClaimedHooksFail, Goto
    <3>3. CASE FinalizeLookup(s) BY <1>1, <3>3, Moves DEF FinalizeLookup, Goto
    <3> QED BY <1>6, <3>1, <3>2, <3>3
  <2>3. \A u \in Tasks : task'[u] = task[u] \/ Moved(s, u, task'[u]) BY <1>1, <2>2, ReconcilerGoto
  <2>4. claims' = [claims EXCEPT ![s] = claims[s]] BY <1>3, <2>1
  <2>5. ReconcilerStep(s, claims[s]) BY <1>2, <1>4, <2>1, <2>3, <2>4 DEF ReconcilerStep
  <2> QED BY <1>4, <2>5
<1>7. CASE CompletionDone(s)
  <2> DEFINE now == IF k.pc = "read" /\ k.reply = "ok" THEN k.row.claim ELSE claims[s]
  <2>1. claims' = [claims EXCEPT ![s] = now] /\ task' = [task EXCEPT ![f] = Off] /\ UNCHANGED queue
    BY <1>7 DEF CompletionDone, Goto
  <2>2. Carries(db[s], now) BY <1>4 DEF Carries
  <2>3. db[s].status = "finished" BY <1>5, <1>7 DEF CompletionDone, ReplySettled
  <2>4. /\ dict' = dict \ {s} /\ pending' = pending \ {s}
        /\ reserved' \in {reserved, reserved \ {now.tx}}
    BY <1>7 DEF CompletionDone, Forget
  <2> HIDE DEF now
  <2>5. \A u \in Tasks : task'[u] = task[u] \/ Moved(s, u, task'[u])
    BY <1>1, <2>1, Moves, ReconcilerGoto
  <2>6. now.tx = db[s].claim.tx BY <2>2 DEF Carries, Agrees
  <2>7. ReconcilerStep(s, now)
    BY <1>2, <2>1, <2>2, <2>3, <2>4, <2>5, <2>6 DEF ReconcilerStep, Carries
  <2> QED BY <1>4, <2>7
<1>8. CASE FinalizeRetry(s)
  <2> DEFINE now == IF k.reply = "ok" THEN k.row.claim ELSE claims[s]
             again == k.reply = "ok" => k.row.status = "claiming" /\ now.st = "confirmed"
             seen == IF again THEN NoClaim ELSE now
             i == IF again /\ Up /\ now.st = "confirmed" THEN [At("finalize", s) EXCEPT !.exp = now] ELSE Off
  <2>1. /\ k.pc = "read" /\ claims' = [claims EXCEPT ![s] = now]
        /\ ReconcileTerminal(s, seen, {}) /\ task' = Reconciled([task EXCEPT ![f] = i], s, seen)
    BY <1>8 DEF FinalizeRetry
  <2>2. Signed(now) BY <1>4, <2>1 DEF Carries
  <2>3. seen.st # "failed" /\ (seen.st = "reverted" => db[s].claim = seen)
    BY <1>5, <2>1, <2>2, Constants DEF ReplySettled, Settled, Signed
  <2>4. Moved(s, f, i) BY <1>1, Moves
  <2> HIDE DEF i, seen, now
  <2>5. /\ dict' \in {dict, dict \ {s}} /\ pending' \in {pending, pending \ {s}}
        /\ reserved' \in {reserved, reserved \ {db[s].claim.tx}} /\ UNCHANGED queue
        /\ db[s].status = "claiming" => UNCHANGED <<dict, pending, reserved>>
    BY <2>1, <2>3, TerminalReleases
  <2>6. \A u \in Tasks : task'[u] = task[u] \/ Moved(s, u, task'[u])
    BY <1>1, <2>1, <2>4, ReconcilerGoto
  <2>7. ReconcilerStep(s, now) BY <1>2, <2>1, <2>2, <2>5, <2>6 DEF ReconcilerStep
  <2> QED BY <1>4, <2>7
<1> QED BY <1>6, <1>7, <1>8 DEF Complete

\* transitionClaim reads the row or tries the CAS again, for the queue and for a reconciling task.
LEMMA RetryEffect ==
  ASSUME PayInv, NEW t \in Transitioners, TransitionRetry(t)
  PROVE  LET k == task[t]
         IN /\ UNCHANGED <<durable, phase, dict, queue, pending, nextIdx, wallet, bounds>>
            /\ claims' = [claims EXCEPT ![k.s] = Learned(k)]
            /\ k.pc \in {"cas", "read"} /\ t \in Tasks
            /\ \E j \in TaskRec : /\ task' = [task EXCEPT ![t] = j]
                                  /\ j.pc \in {"cas", "read"} /\ j.s = k.s /\ j.new = k.new /\ j.exp = k.exp
                                  /\ j.reply = "none" /\ j.try = k.try
                                  /\ j.row \in {k.row, NoRow}
<1> DEFINE k == task[t]
<1>1. t \in Tasks /\ k \in TaskRec BY TransitionerKinds DEF PayInv, Shape
<1>2. k.s \in Sessions
  <2>1. CASE t = Queue BY <2>1, QueueClaim DEF TransitionRetry
  <2>2. ASSUME NEW s \in Sessions, t \in {Broadcast(s), Receipt(s)} PROVE k.s \in Sessions
    BY <2>2, ReconcilerLearns DEF TransitionRetry
  <2> QED BY <2>1, <2>2, TransitionerKinds
<1>3. /\ UNCHANGED <<durable, phase, dict, queue, pending, nextIdx, wallet, bounds>>
      /\ claims' = [claims EXCEPT ![k.s] = Learned(k)] /\ k.pc \in {"cas", "read"}
  BY DEF TransitionRetry, Learn
<1> DEFINE rd == [k EXCEPT !.pc = "read", !.reply = "none", !.err = k.reply = "error"]
           cs == [CasCall(k.s, k.exp, k.new) EXCEPT !.try = k.try]
<1>4. task' = [task EXCEPT ![t] = rd] \/ task' = [task EXCEPT ![t] = cs] BY DEF TransitionRetry, Goto
<1>5. /\ rd \in TaskRec /\ rd.pc = "read" /\ rd.s = k.s /\ rd.new = k.new /\ rd.exp = k.exp
      /\ rd.reply = "none" /\ rd.try = k.try /\ rd.row = k.row
  BY <1>1 DEF TaskRec, Places
<1>6. /\ cs \in TaskRec /\ cs.pc = "cas" /\ cs.s = k.s /\ cs.new = k.new /\ cs.exp = k.exp
      /\ cs.reply = "none" /\ cs.try = k.try /\ cs.row = NoRow
  <2> DEFINE g == CasCall(k.s, k.exp, k.new)
  <2>1. k.exp \in ClaimRec /\ k.new \in ClaimRec /\ k.try \in Nat BY <1>1 DEF TaskRec
  <2>2. g \in TaskRec /\ g.pc = "cas" /\ g.s = k.s /\ g.reply = "none" /\ g.exp = k.exp /\ g.new = k.new
    BY <1>2, <2>1, CasCallShape
  <2>3. g.row = NoRow BY DEF CasCall, At
  <2> HIDE DEF g
  <2> QED BY <2>1, <2>2, <2>3 DEF TaskRec, g
<1> HIDE DEF rd, cs
<1> QED BY <1>1, <1>3, <1>4, <1>5, <1>6

\* The same as a step of session s.
LEMMA RetryStep ==
  ASSUME PayInv, OutcomeInv, CustodyInv, NEW s \in Sessions, NEW t \in {Broadcast(s), Receipt(s)},
         TransitionRetry(t)
  PROVE  Signed(claims[s]) /\ \E c : ReconcilerStep(s, c)
<1> DEFINE k == task[t]
<1>1. t \in Transitioners /\ t \in ReconcilerTasks(s)
  BY DEF Transitioners, Reconcilers, ReconcilerTasks
<1>2. /\ UNCHANGED <<durable, phase, dict, queue, pending, nextIdx, wallet, bounds>>
      /\ claims' = [claims EXCEPT ![k.s] = Learned(k)] /\ k.pc \in {"cas", "read"}
  BY <1>1, RetryEffect
<1>3. PICK j : /\ task' = [task EXCEPT ![t] = j] /\ j.new = k.new /\ j.reply = "none"
  BY <1>1, RetryEffect
<1>4. k.s = s /\ Signed(claims[s]) /\ Signed(Learned(k)) BY <1>1, <1>2, ReconcilerClaim, ObservedSettled
<1>5. Moved(s, t, j)
  BY <1>1, <1>2, <1>3 DEF Moved, CustodyInv, ReceiptsSettle, Writing
<1>6. \A u \in Tasks : task'[u] = task[u] \/ Moved(s, u, task'[u]) BY <1>1, <1>3, <1>5, ReconcilerGoto
<1>7. ReconcilerStep(s, Learned(k))
  BY <1>2, <1>4, <1>6 DEF ReconcilerStep, durable, wallet, bounds
<1> QED BY <1>4, <1>7

-----------------------------------------------------------------------------
(* Steps of the queue.                                                     *)

\* A step of the queue keeps the invariant if it keeps what is said of a running manager.
LEMMA QueueStepKeeps ==
  ASSUME PayInv, CustodyInv, UNCHANGED <<db, phase, dbErrors>>,
         \A u \in Tasks \ {Queue} : task'[u] = task[u] \/ \E s \in Sessions : Moved(s, u, task'[u]),
         task'[Queue].reply = "none", Up => Custody'
  PROVE  CustodyInv'
<1>1. \A r \in Requests : task'[Request(r)] = task[Request(r)]
  BY AreTasks, KindsDiffer DEF Moved, ReconcilerTasks
<1>2. HandlersFresh' BY <1>1 DEF CustodyInv, HandlersFresh, Wrote
<1>3. QueueFresh(task[Queue], db)' BY DEF QueueFresh
<1>4. ASSUME NEW s \in Sessions, NEW t \in {Broadcast(s), Receipt(s), Completion(s)}
      PROVE  ReplySettled(task'[t], db[s]) /\ (t = Receipt(s) /\ Writing(task'[t]) => Settled(task'[t].new))
  <2>1. t \in Tasks \ {Queue} BY AreTasks, KindsDiffer
  <2>2. CASE task'[t] = task[t] BY <2>2 DEF CustodyInv, RepliesSettled, ReceiptsSettle
  <2>3. ASSUME NEW u \in Sessions, Moved(u, t, task'[t])
        PROVE  ReplySettled(task'[t], db[s]) /\ (t = Receipt(s) /\ Writing(task'[t]) => Settled(task'[t].new))
    <3>1. t = Receipt(s) => s = u BY <2>3, KindsDiffer, TasksDiffer DEF Moved, ReconcilerTasks
    <3> QED BY <2>3, <3>1 DEF Moved, ReplySettled
  <2> QED BY <2>1, <2>2, <2>3
<1>5. RepliesSettled' BY <1>4 DEF RepliesSettled
<1>6. ReceiptsSettle' BY <1>4 DEF ReceiptsSettle, Writing
<1> QED BY <1>2, <1>3, <1>5, <1>6 DEF CustodyInv, RowsOpen, Up

\* What is said of the rows, for a step of the queue after which it has no transition under way.
LEMMA QueueLoops ==
  ASSUME CustodyInv, UNCHANGED <<db, dbErrors>>, ~Writing(task'[Queue]),
         \A r \in Requests : task'[Request(r)] = task[Request(r)],
         \A u \in Sessions :
           /\ claims'[u].st = "queue" => u \in dict' /\ ~Signed(db[u].claim)
           /\ Active(db[u]) => db[u].claim.tx \in reserved' /\ u \in pending'
           /\ RowOwned(u, db[u])
           /\ db[u].status = "claiming" /\ u \in dict => u \in dict'
  PROVE  Custody'
<1>1. ~Flying(task[Queue])' BY DEF Flying
<1>2. ASSUME NEW u \in Sessions
      PROVE  QueueHolds(u, db[u], claims[u], task[Queue])' /\ RowHeld(u, db[u], task[Queue])'
             /\ RowOwned(u, db[u])'
  <2>1. QueueHolds(u, db[u], claims[u], task[Queue])' BY DEF QueueHolds
  <2>2. RowHeld(u, db[u], task[Queue])' BY DEF RowHeld
  <2>3. Unreported(u)' <=> Unreported(u) BY DEF Unreported, Wrote
  <2>4. RowOwned(u, db[u])' BY <2>3 DEF RowOwned
  <2> QED BY <2>1, <2>2, <2>4
<1> QED BY <1>1, <1>2 DEF Custody

\* A queue that has no transition under way takes a claim, signs it or stops.
LEMMA QueueIdleStep ==
  ASSUME PayInv, OutcomeInv, CustodyInv, UNCHANGED <<db, phase, dbErrors, claims, dict, pending>>,
         ~Writing(task[Queue]), reserved \subseteq reserved',
         NEW i, i.reply = "none", task' = [task EXCEPT ![Queue] = i],
         Flying(i) => i.new.tx \in reserved'
  PROVE  CustodyInv'
<1>1. Queue \in Tasks /\ task \in [Tasks -> TaskRec] BY AreTasks DEF PayInv, Shape
<1>2. task'[Queue] = i /\ \A u \in Tasks \ {Queue} : task'[u] = task[u] BY <1>1
<1>3. \A r \in Requests : task'[Request(r)] = task[Request(r)] BY <1>2, AreTasks, KindsDiffer
<1>4. ASSUME Up PROVE Custody'
  <2>1. Custody BY <1>4 DEF CustodyInv
  <2>2. ASSUME NEW u \in Sessions
        PROVE  QueueHolds(u, db[u], claims[u], task[Queue])' /\ RowHeld(u, db[u], task[Queue])'
               /\ RowOwned(u, db[u])'
    <3>1. QueueHolds(u, db[u], claims[u], task[Queue]) /\ RowHeld(u, db[u], task[Queue])
          /\ RowOwned(u, db[u])
      BY <2>1 DEF Custody
    <3>2. QueueHolds(u, db[u], claims[u], task[Queue])' BY <3>1 DEF QueueHolds
    <3>3. RowHeld(u, db[u], task[Queue])' BY <3>1 DEF RowHeld
    <3>4. Unreported(u)' <=> Unreported(u) BY <1>3 DEF Unreported, Wrote
    <3>5. RowOwned(u, db[u])' BY <3>1, <3>4 DEF RowOwned
    <3> QED BY <3>2, <3>3, <3>5
  <2> QED BY <1>2, <2>2 DEF Custody
<1> QED BY <1>2, <1>4, QueueStepKeeps

\* The steps of the queue before it writes keep the custody of the claims.
LEMMA QueueStepsHeld ==
  ASSUME PayInv, OutcomeInv, CustodyInv,
         \/ ProcessQueue \/ ProcessQueueTx \/ PrepareClaimTx \/ PrepareFails
         \/ QueueAborted \/ QueueDone
  PROVE  CustodyInv'
<1>1. /\ UNCHANGED <<db, phase, dbErrors, claims, dict, pending>> /\ ~Writing(task[Queue])
      /\ reserved \subseteq reserved'
  BY DEF ProcessQueue, ProcessQueueTx, PrepareClaimTx, PrepareFails, QueueAborted, QueueDone,
         QueueFrame, durable, memory, wallet, Writing
<1>2. ASSUME NEW i, i.reply = "none", task' = [task EXCEPT ![Queue] = i], Flying(i) => i.new.tx \in reserved'
      PROVE  CustodyInv'
  BY <1>1, <1>2, QueueIdleStep
<1>3. claims \in [Sessions -> ClaimRec] BY DEF PayInv, Shape
<1>4. \A p, s : At(p, s).pc = p BY DEF At
<1>5. Off.pc = "off" BY Constants
<1>6. \A s, c, d : CasCall(s, c, d).new = d BY Carried
<1>7. CASE ProcessQueue \/ QueueAborted \/ QueueDone
  BY <1>2, <1>4, <1>5, <1>7, NoReply DEF ProcessQueue, QueueAborted, QueueDone, Goto, Flying, Writing
<1>8. \A s \in Sessions : WithStatus(claims[s], "failed").st = "failed"
  BY <1>3, ClaimShape DEF ClaimTxStatus
<1>9. CASE ProcessQueueTx
  <2>1. PICK s \in Sessions :
          \/ task' = [task EXCEPT ![Queue] = At("loop", NoSession)]
          \/ task' = [task EXCEPT ![Queue] = At("sign", s)]
          \/ task' = [task EXCEPT ![Queue] = CasCall(s, claims[s], WithStatus(claims[s], "failed"))]
    BY <1>9 DEF ProcessQueueTx, Goto
  <2>2. ~Flying(At("loop", NoSession)) /\ ~Flying(At("sign", s))
        /\ ~Flying(CasCall(s, claims[s], WithStatus(claims[s], "failed")))
    BY <1>4, <1>6, <1>8 DEF Flying, Writing
  <2> QED BY <1>2, <2>1, <2>2, NoReply
<1>10. task[Queue].pc = "sign" => task[Queue].s \in Sessions BY QueueClaim
<1>11. CASE PrepareFails
  <2> DEFINE s == task[Queue].s
  <2>1. /\ s \in Sessions
        /\ task' = [task EXCEPT ![Queue] = CasCall(s, claims[s], WithStatus(claims[s], "failed"))]
    BY <1>10, <1>11 DEF PrepareFails, Goto
  <2>2. ~Flying(CasCall(s, claims[s], WithStatus(claims[s], "failed")))
    BY <1>6, <1>8, <2>1 DEF Flying
  <2>3. CasCall(s, claims[s], WithStatus(claims[s], "failed")).reply = "none" BY NoReply
  <2> QED BY <1>2, <2>1, <2>2, <2>3
<1>12. CASE PrepareClaimTx
  <2> DEFINE s == task[Queue].s
             x == [s |-> s, nonce |-> nonce, sig |-> signed + 1]
  <2>1. /\ task' = [task EXCEPT ![Queue] = CasCall(s, claims[s], WithTx(claims[s], x))]
        /\ x \in reserved' /\ s \in Sessions
    BY <1>10, <1>12 DEF PrepareClaimTx, Goto
  <2>2. x \in TxRec BY <2>1 DEF TxRec, PayInv, Shape
  <2>3. WithTx(claims[s], x).tx = x BY <1>3, <2>1, <2>2, ClaimShape
  <2> DEFINE i == CasCall(s, claims[s], WithTx(claims[s], x))
  <2>4. i.reply = "none" /\ i.new.tx = x BY <1>6, <2>3, NoReply
  <2>5. task' = [task EXCEPT ![Queue] = i] BY <2>1
  <2> HIDE DEF i, x
  <2> QED BY <1>2, <2>1, <2>4, <2>5
<1> QED BY <1>7, <1>9, <1>11, <1>12

\* transitionClaim has succeeded for the queue: the row holds the new claim.
LEMMA QueueWon ==
  ASSUME PayInv, CustodyInv, LET q == task[Queue] IN Writing(q) /\ q.reply # "none" /\ Outcome(q) = "won"
  PROVE  LET q == task[Queue] IN db[q.s].claim = q.new /\ Learned(q) = q.new
<1> DEFINE q == task[Queue]
<1>1. QueueSound(q, db, claims) /\ q \in TaskRec
  BY AreTasks, KindSound DEF PayInv, TasksSound, Shape
<1>2. q.new.st \in ClaimTxStatus BY QueueClaim DEF ClaimTxStatus
<1>3. QueueFresh(q, db) BY DEF CustodyInv
<1>4. CASE q.pc = "cas"
  <2>1. q.reply = "ok" BY <1>4 DEF Outcome
  <2> QED BY <1>3, <1>4, <2>1 DEF QueueFresh, Learned
<1>5. CASE q.pc = "read"
  <2>1. q.reply \in {"ok", "error"} BY <1>1, <1>5 DEF QueueSound, TaskRec
  <2>2. q.reply = "ok" /\ q.row.claim = q.new BY <1>5, <2>1 DEF Outcome, ReadOutcome
  <2> QED BY <1>2, <1>3, <1>5, <2>2 DEF QueueFresh, Learned, IsClaimData
<1> QED BY <1>4, <1>5 DEF Writing

\* It has not, while the manager runs: the row is as the queue has read it, and unsigned.
LEMMA QueueMissed ==
  ASSUME PayInv, CustodyInv, Up,
         LET q == task[Queue] IN Writing(q) /\ q.reply # "none" /\ Outcome(q) \in {"lost", "threw"}
  PROVE  LET q == task[Queue]
         IN /\ ~Signed(db[q.s].claim) /\ q.row = db[q.s]
            /\ IF IsClaimData(db[q.s].claim) THEN Learned(q) = db[q.s].claim
                                             ELSE Learned(q) = claims[q.s]
            /\ Observed(q) \in {NoClaim, db[q.s].claim}
<1> DEFINE q == task[Queue]
<1>1. QueueSound(q, db, claims) /\ q \in TaskRec
  BY AreTasks, KindSound DEF PayInv, TasksSound, Shape
<1>2. q.pc = "read" BY DEF Outcome, Writing
<1>3. q.reply \in {"ok", "error"} BY <1>1, <1>2 DEF QueueSound, TaskRec
<1>4. q.reply = "ok" BY <1>2, <1>3 DEF Outcome, ReadOutcome
<1>5. q.row = db[q.s] BY <1>2, <1>4 DEF CustodyInv, QueueFresh
<1>6. q.row.claim # q.new
  <2>1. q.new.st # "confirmed" BY QueueClaim
  <2> QED BY <1>2, <1>4, <2>1 DEF Outcome, ReadOutcome
<1>7. q.s \in Sessions /\ claims[q.s].st = "queue" BY QueueClaim DEF Writing
<1>8. QueueHolds(q.s, db[q.s], claims[q.s], q) BY <1>7 DEF CustodyInv, Custody
<1>9. ~Signed(db[q.s].claim) BY <1>5, <1>6, <1>7, <1>8 DEF QueueHolds
<1> QED BY <1>2, <1>4, <1>5, <1>9 DEF Learned, Observed

\* The queue ends a transition.
LEMMA QueueOverHeld ==
  ASSUME PayInv, OutcomeInv, CustodyInv, ClaimAssumption, QueuePrepared \/ QueueFailed \/ QueueLost
  PROVE  CustodyInv'
<1> DEFINE q == task[Queue]
           s == q.s
           c == Learned(q)
<1>1. /\ Writing(q) /\ q.reply # "none" /\ claims' = [claims EXCEPT ![s] = c]
      /\ UNCHANGED <<db, phase, dbErrors>>
  BY DEF QueuePrepared, QueueFailed, QueueLost, Over, Learn, QueueFrame, durable, Writing
<1>2. s \in Sessions /\ claims[s].st = "queue" BY <1>1, QueueClaim DEF Writing
<1>3. Queue \in Tasks /\ task \in [Tasks -> TaskRec] /\ claims \in [Sessions -> ClaimRec]
  BY AreTasks DEF PayInv, Shape
<1>4. \A u \in Sessions : claims'[u] = IF u = s THEN c ELSE claims[u] BY <1>1, <1>3
<1>5. Broadcast(s) \in Tasks \ {Queue} /\ Receipt(s) \in Tasks \ {Queue} /\ Completion(s) \in Tasks \ {Queue}
  BY <1>2, AreTasks, KindsDiffer
<1>6. ASSUME Up PROVE Custody BY <1>6 DEF CustodyInv
<1>7. ASSUME Up, NEW u \in Sessions, u # s
      PROVE  /\ claims'[u].st = "queue" => u \in dict /\ ~Signed(db[u].claim)
             /\ Active(db[u]) => db[u].claim.tx \in reserved /\ u \in pending /\ db[u].claim.tx.s = u
             /\ RowOwned(u, db[u])
  <2>1. QueueHolds(u, db[u], claims[u], q) /\ RowHeld(u, db[u], q) /\ RowOwned(u, db[u])
    BY <1>6, <1>7 DEF Custody
  <2>2. Active(db[u]) => db[u].claim.tx.s = u BY ActiveIsClaiming DEF PayInv, RowsSound, RowSound
  <2> QED BY <1>4, <1>7, <2>1, <2>2 DEF QueueHolds, RowHeld
<1>8. ASSUME Up PROVE RowOwned(s, db[s]) BY <1>2, <1>6, <1>8 DEF Custody
<1>9. ASSUME NEW i, i.reply = "none", ~Writing(i),
             task' \in [Tasks -> TaskRec], task'[Queue] = i,
             \A u \in Tasks \ {Queue} : task'[u] = task[u] \/ Moved(s, u, task'[u]),
             ASSUME Up
             PROVE  /\ \A u \in Sessions : u # s => (u \in dict => u \in dict') /\ (u \in pending => u \in pending')
                    /\ \A x \in reserved : x.s \in Sessions /\ x.s # s => x \in reserved'
                    /\ c.st = "queue" => s \in dict' /\ ~Signed(db[s].claim)
                    /\ Active(db[s]) => db[s].claim.tx \in reserved' /\ s \in pending'
                    /\ db[s].status = "claiming" /\ s \in dict => s \in dict'
      PROVE  CustodyInv'
  <2>1. \A r \in Requests : task'[Request(r)] = task[Request(r)]
    BY <1>2, <1>9, AreTasks, KindsDiffer DEF Moved, ReconcilerTasks
  <2>2. ASSUME Up PROVE Custody'
    <3>1. ASSUME NEW u \in Sessions
          PROVE  /\ claims'[u].st = "queue" => u \in dict' /\ ~Signed(db[u].claim)
                 /\ Active(db[u]) => db[u].claim.tx \in reserved' /\ u \in pending'
                 /\ RowOwned(u, db[u])
                 /\ db[u].status = "claiming" /\ u \in dict => u \in dict'
      <4>1. CASE u = s BY <1>4, <1>8, <1>9, <2>2, <4>1
      <4>2. CASE u # s BY <1>7, <1>9, <2>2, <4>2
      <4> QED BY <4>1, <4>2
    <3>2. ~Writing(task'[Queue]) BY <1>9
    <3> QED BY <1>1, <2>1, <3>1, <3>2, QueueLoops
  <2> QED BY <1>1, <1>2, <1>9, <2>2, QueueStepKeeps
<1>10. ~Writing(Off) /\ ~Writing(At("loop", NoSession)) /\ Off \in TaskRec /\ At("loop", NoSession) \in TaskRec
       /\ Off.reply = "none" /\ At("loop", NoSession).reply = "none"
  BY Constants, NoReply DEF Writing, Places
<1>11. CASE QueueFailed
  <2>1. /\ task' = [task EXCEPT ![Queue] = At("loop", NoSession)] /\ dict' = dict \ {s}
        /\ UNCHANGED <<pending, reserved>> /\ q.new.st = "failed" /\ Outcome(q) = "won"
    BY <1>11 DEF QueueFailed, Goto, wallet, Over
  <2>2. db[s].claim = q.new /\ c = q.new BY <1>1, <2>1, QueueWon
  <2>3. db[s].status # "claiming" /\ ~Active(db[s]) BY <1>2, <2>1, <2>2 DEF CustodyInv, RowsOpen, Active
  <2>4. c.st # "queue" BY <2>1, <2>2
  <2>5. /\ task' \in [Tasks -> TaskRec] /\ task'[Queue] = At("loop", NoSession)
        /\ \A u \in Tasks \ {Queue} : task'[u] = task[u]
    BY <1>3, <1>10, <2>1
  <2> HIDE DEF c
  <2> QED BY <1>9, <1>10, <2>1, <2>3, <2>4, <2>5
<1>12. CASE QueuePrepared
  <2>1. /\ UNCHANGED <<dict, reserved>> /\ q.new.st = "prepared" /\ Outcome(q) = "won"
        /\ Up => pending' = pending \union {s}
    BY <1>12 DEF QueuePrepared, wallet, Over
  <2>2. db[s].claim = q.new /\ c = q.new BY <1>1, <2>1, QueueWon
  <2>3. c.st # "queue" BY <2>1, <2>2
  <2>4. Up => db[s].claim.tx \in reserved
    BY <1>1, <1>6, <2>1, <2>2 DEF Custody, Flying
  <2>5. /\ task' \in [Tasks -> TaskRec] /\ task'[Queue] = At("loop", NoSession)
        /\ \A u \in Tasks \ {Queue} : task'[u] = task[u] \/ Moved(s, u, task'[u])
    <3>1. CASE ~Up
      <4>1. task' = [task EXCEPT ![Queue] = At("loop", NoSession)] BY <1>12, <3>1 DEF QueuePrepared, Goto
      <4> QED BY <1>3, <1>10, <4>1
    <3>2. CASE Up
      <4>1. task' = [task EXCEPT ![Queue] = At("loop", NoSession),
                                 ![Broadcast(s)] = At("send", s), ![Receipt(s)] = At("watch", s)]
        BY <1>12, <3>2 DEF QueuePrepared
      <4>2. At("send", s) \in TaskRec /\ At("watch", s) \in TaskRec BY <1>2, Constants DEF Places
      <4>3. Moved(s, Broadcast(s), At("send", s)) /\ Moved(s, Receipt(s), At("watch", s))
        BY <1>2, Moves DEF ReconcilerTasks
      <4>4. Broadcast(s) # Receipt(s) BY <1>2, KindsDiffer
      <4>5. /\ task' \in [Tasks -> TaskRec] /\ task'[Queue] = At("loop", NoSession)
            /\ task'[Broadcast(s)] = At("send", s) /\ task'[Receipt(s)] = At("watch", s)
            /\ \A u \in Tasks \ {Queue, Broadcast(s), Receipt(s)} : task'[u] = task[u]
        BY <1>3, <1>5, <1>10, <4>1, <4>2, <4>4
      <4> QED BY <4>3, <4>5
    <3> QED BY <3>1, <3>2
  <2> HIDE DEF c
  <2> QED BY <1>9, <1>10, <2>1, <2>3, <2>4, <2>5
<1>13. CASE QueueLost
  <2> DEFINE i == IF Outcome(q) = "threw" THEN Off ELSE At("loop", NoSession)
             o == Observed(q)
             tasks == [task EXCEPT ![Queue] = i]
  <2>1. /\ ReconcileTerminal(s, o, {q.new.tx}) /\ Outcome(q) \in {"lost", "threw"}
        /\ task' = Reconciled(tasks, s, o)
    BY <1>13 DEF QueueLost, Over
  <2>2. i.reply = "none" /\ ~Writing(i) /\ i \in TaskRec BY <1>10
  <2>3. /\ task' \in [Tasks -> TaskRec] /\ task'[Queue] = i
        /\ \A u \in Tasks \ {Queue} : task'[u] = task[u] \/ Moved(s, u, task'[u])
    <3>1. tasks \in [Tasks -> TaskRec] /\ tasks[Queue] = i /\ \A u \in Tasks \ {Queue} : tasks[u] = task[u]
      BY <1>3, <2>2
    <3> HIDE DEF tasks, o, i
    <3>2. task' = tasks \/ task' = [tasks EXCEPT ![Completion(s)] = At("hooks", s)]
      BY <2>1 DEF Reconciled, Completing
    <3>3. At("hooks", s) \in TaskRec BY <1>2, Constants DEF Places
    <3>4. Moved(s, Completion(s), At("hooks", s)) BY <1>2, Moves DEF ReconcilerTasks
    <3>5. Completion(s) \in Tasks /\ Completion(s) # Queue BY <1>5
    <3>6. CASE task' = tasks BY <3>1, <3>6
    <3>7. CASE task' = [tasks EXCEPT ![Completion(s)] = At("hooks", s)]
      <4>1. \A u \in Tasks : task'[u] = IF u = Completion(s) THEN At("hooks", s) ELSE tasks[u]
        BY <3>1, <3>5, <3>7
      <4>2. task' \in [Tasks -> TaskRec] BY <3>1, <3>3, <3>7
      <4> QED BY <1>3, <3>1, <3>4, <3>5, <4>1, <4>2
    <3> QED BY <3>2, <3>6, <3>7
  <2>4. ASSUME Up
        PROVE  /\ ~Signed(db[s].claim) /\ (o = NoClaim \/ o = db[s].claim)
               /\ c.st = "queue" => o.st # "failed" /\ ~Signed(db[s].claim)
    <3>1. ~Signed(db[s].claim) /\ (o = NoClaim \/ o = db[s].claim) BY <1>1, <2>1, <2>4, QueueMissed
    <3>2. IF IsClaimData(db[s].claim) THEN c = db[s].claim ELSE c = claims[s]
      BY <1>1, <2>1, <2>4, QueueMissed
    <3> HIDE DEF o, c
    <3>3. ASSUME c.st = "queue" PROVE o.st # "failed"
      BY <3>1, <3>2, <3>3, Constants DEF IsClaimData, ClaimTxStatus
    <3> QED BY <3>1, <3>3
  <2>5. q.new.tx.s = s \/ q.new.tx.s = NoSession BY <1>1, QueueClaim, Constants
  <2> HIDE DEF o, c, i, tasks
  <2>6. ASSUME Up
        PROVE  /\ \A u \in Sessions : u # s => (u \in dict => u \in dict') /\ (u \in pending => u \in pending')
               /\ \A x \in reserved : x.s \in Sessions /\ x.s # s => x \in reserved'
               /\ c.st = "queue" => s \in dict' /\ ~Signed(db[s].claim)
               /\ Active(db[s]) => db[s].claim.tx \in reserved' /\ s \in pending'
               /\ db[s].status = "claiming" /\ s \in dict => s \in dict'
    <3>1. o.st # "reverted" BY <2>4, <2>6, Constants DEF Signed
    <3>2. ~Active(db[s]) BY <2>4, <2>6 DEF Active, Signed
    <3>3. /\ dict' = IF o.st = "failed" /\ s \in dict THEN dict \ {s} ELSE dict
          /\ pending' = pending /\ reserved' = reserved \ {q.new.tx}
      BY <2>1, <3>1 DEF ReconcileTerminal
    <3>4. s \in dict BY <1>2, <1>6, <2>6 DEF Custody, QueueHolds
    <3>5. o.st = "failed" => db[s].status # "claiming"
      BY <1>2, <2>4, <2>6, Constants DEF CustodyInv, RowsOpen
    <3>6. NoSession \notin Sessions BY DEF ClaimAssumption
    <3> QED BY <2>4, <2>5, <2>6, <3>2, <3>3, <3>4, <3>5, <3>6
  <2> QED BY <1>9, <2>2, <2>3, <2>6
<1> QED BY <1>11, <1>12, <1>13

\* The queue reads the row or tries again.
LEMMA QueueRetryHeld ==
  ASSUME PayInv, PayInv', OutcomeInv, CustodyInv, TransitionRetry(Queue)
  PROVE  CustodyInv'
<1> DEFINE q == task[Queue]
           s == q.s
<1>1. Queue \in Transitioners BY DEF Transitioners
<1>2. /\ UNCHANGED <<db, phase, dbErrors, dict, pending, reserved>>
      /\ claims' = [claims EXCEPT ![s] = Learned(q)] /\ Writing(q)
  BY <1>1, RetryEffect DEF durable, wallet, bounds, Writing
<1>3. PICK j \in TaskRec : /\ task' = [task EXCEPT ![Queue] = j] /\ Writing(j) /\ j.s = s /\ j.new = q.new
                           /\ j.reply = "none"
  BY <1>1, RetryEffect DEF Writing
<1>4. Queue \in Tasks /\ task \in [Tasks -> TaskRec] /\ claims \in [Sessions -> ClaimRec]
  BY AreTasks DEF PayInv, Shape
<1>5. task'[Queue] = j /\ \A u \in Tasks \ {Queue} : task'[u] = task[u] BY <1>3, <1>4
<1>6. s \in Sessions /\ claims[s].st = "queue" BY <1>2, QueueClaim DEF Writing
<1>7. \A r \in Requests : task'[Request(r)] = task[Request(r)] BY <1>5, AreTasks, KindsDiffer
<1>8. ASSUME Up PROVE Custody'
  <2>1. Custody BY <1>8 DEF CustodyInv
  <2>2. ASSUME NEW u \in Sessions
        PROVE  QueueHolds(u, db[u], claims[u], task[Queue])' /\ RowHeld(u, db[u], task[Queue])'
               /\ RowOwned(u, db[u])'
    <3>1. QueueHolds(u, db[u], claims[u], q) /\ RowHeld(u, db[u], q) /\ RowOwned(u, db[u])
      BY <2>1 DEF Custody
    <3>2. u # s => claims'[u] = claims[u] BY <1>2, <1>4
    <3>3. QueueHolds(u, db[u], claims[u], task[Queue])'
      BY <1>2, <1>3, <1>5, <1>6, <3>1, <3>2 DEF QueueHolds
    <3>4. RowHeld(u, db[u], task[Queue])' BY <1>2, <1>3, <1>5, <3>1 DEF RowHeld
    <3>5. Unreported(u)' <=> Unreported(u) BY <1>7 DEF Unreported, Wrote
    <3>6. RowOwned(u, db[u])' BY <1>2, <3>1, <3>5 DEF RowOwned
    <3> QED BY <3>3, <3>4, <3>6
  <2>3. Flying(j) => j.new.tx \in reserved' BY <1>2, <1>3, <2>1 DEF Custody, Flying
  <2> QED BY <1>5, <2>2, <2>3 DEF Custody
<1> QED BY <1>2, <1>3, <1>5, <1>8, QueueStepKeeps

-----------------------------------------------------------------------------
(* Steps of the database.                                                  *)

\* The task that gets a reply is otherwise what it was.
LEMMA AnsweredTasks ==
  ASSUME PayInv, NEW t \in Tasks, NEW x \in {"none", "ok", "no", "error"},
         task' = [task EXCEPT ![t] = [task[t] EXCEPT !.reply = x]]
  PROVE  /\ task'[t].reply = x /\ \A u \in Tasks \ {t} : task'[u] = task[u]
         /\ \A u \in Tasks : /\ task'[u].pc = task[u].pc /\ task'[u].s = task[u].s /\ task'[u].new = task[u].new
                             /\ task'[u].exp = task[u].exp /\ task'[u].row = task[u].row
<1>1. task \in [Tasks -> TaskRec] BY DEF PayInv, Shape
<1> DEFINE j == [task[t] EXCEPT !.reply = x]
<1>2. /\ j.reply = x /\ j.pc = task[t].pc /\ j.s = task[t].s /\ j.new = task[t].new
      /\ j.exp = task[t].exp /\ j.row = task[t].row
  BY <1>1, AnswerShape
<1>3. task' = [task EXCEPT ![t] = j] OBVIOUS
<1> HIDE DEF j
<1> QED BY <1>1, <1>2, <1>3

\* A write to the row of session a, acknowledged or not, that respects what others know of it.
LEMMA RowWriteHeld ==
  ASSUME PayInv, OutcomeInv, CustodyInv, NEW t \in Tasks, NEW a \in Sessions, task[t].s = a,
         task[t].reply = "none", task[t].pc # "read", NEW x \in {"ok", "no", "error"}, NEW row3 \in RowRec,
         db' = [db EXCEPT ![a] = row3], task' = [task EXCEPT ![t] = [task[t] EXCEPT !.reply = x]],
         UNCHANGED <<phase, claims, dict, pending, reserved>>, dbErrors' \in Nat, dbErrors' >= dbErrors,
         row3.status = "claiming" => row3.claim.st \notin {"failed", "reverted"},
         Settled(db[a].claim) => row3.claim = db[a].claim,
         db[a].status = "finished" => row3.status = "finished",
         row3 # db[a] => /\ t # Queue => claims[a].st # "queue"
                         /\ \A u \in Tasks : IsRequest(u) /\ Wrote(task[u]) => task[u].s # a,
         x = "ok" => /\ task[t].pc \in {"cas", "create"} => row3.claim = task[t].new
                     /\ task[t].pc = "finalize" => row3.status = "finished",
         Up => /\ RowHeld(a, row3, task[Queue]) /\ QueueHolds(a, row3, claims[a], task[Queue])
               /\ row3.status = "claiming" =>
                    /\ row3.claim.st \in {"prepared", "pending", "confirmed"} => a \in dict
                    /\ row3.claim.st = "queue" => a \in dict \/ Unreported(a)' \/ dbErrors' > 0
  PROVE  CustodyInv'
<1> DEFINE q == task[Queue]
<1>1. db \in [Sessions -> RowRec] /\ Queue \in Tasks BY AreTasks DEF PayInv, Shape
<1>2. db'[a] = row3 /\ \A u \in Sessions : u # a => db'[u] = db[u] BY <1>1
<1>3. /\ task'[t].reply = x /\ \A u \in Tasks \ {t} : task'[u] = task[u]
      /\ \A u \in Tasks : /\ task'[u].pc = task[u].pc /\ task'[u].s = task[u].s /\ task'[u].new = task[u].new
                          /\ task'[u].exp = task[u].exp /\ task'[u].row = task[u].row
  BY AnsweredTasks
<1>4. task'[Queue].pc = q.pc /\ task'[Queue].s = q.s /\ task'[Queue].new = q.new BY <1>1, <1>3
<1>5. RowsOpen' BY <1>2 DEF CustodyInv, RowsOpen
<1>6. QueueFresh(task[Queue], db)'
  <2>1. CASE t = Queue BY <1>2, <1>3, <1>4, <2>1 DEF QueueFresh
  <2>2. CASE t # Queue
    <3>1. task'[Queue] = q BY <1>1, <1>3, <2>2
    <3>2. QueueFresh(q, db) BY DEF CustodyInv
    <3>3. q.pc \in {"cas", "read"} => q.s \in Sessions /\ db'[q.s] = db[q.s]
      BY <1>1, <1>2, <2>2, QueueClaim
    <3> QED BY <3>1, <3>2, <3>3 DEF QueueFresh
  <2> QED BY <2>1, <2>2
<1>7. HandlersFresh'
  <2> SUFFICES ASSUME NEW r \in Requests, Wrote(task'[Request(r)])
               PROVE  db'[task'[Request(r)].s].claim = task'[Request(r)].new
    BY DEF HandlersFresh, Wrote
  <2>1. Request(r) \in Tasks BY AreTasks
  <2>2. CASE t = Request(r) BY <1>2, <1>3, <2>2 DEF Wrote
  <2>3. CASE t # Request(r)
    <3> DEFINE k == task[Request(r)]
    <3>1. task'[Request(r)] = k BY <1>3, <2>1, <2>3
    <3>2. Wrote(k) /\ IsRequest(Request(r)) BY <3>1 DEF IsRequest
    <3>3. db[k.s].claim = k.new BY <3>2 DEF CustodyInv, HandlersFresh
    <3>4. k.s \in Sessions
      BY <2>1, <3>2, KindSound DEF PayInv, TasksSound, RequestSound, Wrote
    <3>5. db'[k.s] = db[k.s] BY <1>1, <1>2, <2>1, <3>2, <3>4
    <3> QED BY <3>1, <3>3, <3>5
  <2> QED BY <2>2, <2>3
<1>8. RepliesSettled'
  <2> SUFFICES ASSUME NEW s \in Sessions, NEW u \in {Broadcast(s), Receipt(s), Completion(s)}
               PROVE  ReplySettled(task'[u], db'[s])
    BY DEF RepliesSettled
  <2>1. u \in Tasks BY AreTasks
  <2>2. CASE u = t
    <3>1. task[u].pc # "off" => task[u].s = s BY ReconcilerClaim DEF ReconcilerTasks
    <3> QED BY <1>2, <1>3, <2>1, <2>2, <3>1 DEF ReplySettled
  <2>3. CASE u # t
    <3>1. task'[u] = task[u] BY <1>3, <2>1, <2>3
    <3>2. ReplySettled(task[u], db[s]) BY DEF CustodyInv, RepliesSettled
    <3> QED BY <1>2, <3>1, <3>2 DEF ReplySettled
  <2> QED BY <2>2, <2>3
<1>9. ReceiptsSettle' BY <1>3, AreTasks DEF CustodyInv, ReceiptsSettle, Writing
<1>10. ASSUME Up PROVE Custody'
  <2>1. Custody BY <1>10 DEF CustodyInv
  <2>2. \A u \in Sessions : Unreported(u) => Unreported(u)'
    <3>1. \A r \in Requests : Wrote(task[Request(r)]) => task'[Request(r)] = task[Request(r)]
      BY <1>3, AreTasks DEF Wrote
    <3> QED BY <3>1 DEF Unreported, Wrote
  <2>3. ASSUME NEW u \in Sessions
        PROVE  QueueHolds(u, db[u], claims[u], task[Queue])' /\ RowHeld(u, db[u], task[Queue])'
               /\ RowOwned(u, db[u])'
    <3>1. QueueHolds(u, db[u], claims[u], q) /\ RowHeld(u, db[u], q) /\ RowOwned(u, db[u])
      BY <2>1 DEF Custody
    <3>2. CASE u = a
      <4>1. QueueHolds(u, db[u], claims[u], task[Queue])'
        BY <1>2, <1>4, <1>10, <3>2 DEF QueueHolds, Writing
      <4>2. RowHeld(u, db[u], task[Queue])' BY <1>2, <1>4, <1>10, <3>2 DEF RowHeld, Writing
      <4>3. RowOwned(u, db[u])' BY <1>2, <1>10, <3>2 DEF RowOwned
      <4> QED BY <4>1, <4>2, <4>3
    <3>3. CASE u # a
      <4>1. QueueHolds(u, db[u], claims[u], task[Queue])'
        BY <1>2, <1>4, <3>1, <3>3 DEF QueueHolds, Writing
      <4>2. RowHeld(u, db[u], task[Queue])' BY <1>2, <1>4, <3>1, <3>3 DEF RowHeld, Writing
      <4>3. dbErrors > 0 => dbErrors' > 0 BY DEF CustodyInv
      <4>4. RowOwned(u, db[u])' BY <1>2, <2>2, <3>1, <3>3, <4>3 DEF RowOwned
      <4> QED BY <4>1, <4>2, <4>4
    <3> QED BY <3>2, <3>3
  <2>4. Flying(task[Queue])' => task'[Queue].new.tx \in reserved'
    BY <1>4, <2>1 DEF Custody, Flying, Writing
  <2> QED BY <2>3, <2>4 DEF Custody
<1> QED BY <1>5, <1>6, <1>7, <1>8, <1>9, <1>10 DEF CustodyInv, Up

\* What an UPDATE does to its row, the reply and the count of errors.
LEMMA UpdateEffect ==
  ASSUME PayInv, CustodyInv, NEW t \in Tasks, NEW hit \in BOOLEAN, NEW row2, task[t].s \in Sessions,
         hit => row2 \in RowRec, Update(t, hit, row2)
  PROVE  LET a == task[t].s
         IN \E x \in {"ok", "no", "error"}, row3 \in RowRec :
              /\ db' = [db EXCEPT ![a] = row3]
              /\ task' = [task EXCEPT ![t] = [task[t] EXCEPT !.reply = x]]
              /\ row3 = db[a] \/ (hit /\ row3 = row2 /\ x # "no")
              /\ x = "ok" => hit /\ row3 = row2
              /\ dbErrors' \in Nat /\ dbErrors' >= dbErrors
              /\ x = "error" => dbErrors' > 0
<1> DEFINE a == task[t].s
<1>1. db \in [Sessions -> RowRec] /\ db[a] \in RowRec /\ task \in [Tasks -> TaskRec] /\ dbErrors \in Nat
  BY DEF PayInv, Shape, CustodyInv
<1>2. db = [db EXCEPT ![a] = db[a]] BY <1>1
<1>3. CASE hit /\ db' = [db EXCEPT ![a] = row2] /\ task' = [task EXCEPT ![t] = [task[t] EXCEPT !.reply = "ok"]]
           /\ UNCHANGED dbErrors
  <2>1. row2 \in RowRec BY <1>3
  <2>2. "ok" \in {"ok", "no", "error"} /\ dbErrors' \in Nat /\ dbErrors' >= dbErrors BY <1>1, <1>3
  <2> QED BY <1>3, <2>1, <2>2
<1>4. CASE ~hit /\ db' = db /\ task' = [task EXCEPT ![t] = [task[t] EXCEPT !.reply = "no"]]
           /\ UNCHANGED dbErrors
  BY <1>1, <1>2, <1>4
<1>5. CASE /\ dbErrors' = dbErrors + 1 /\ (db' = db \/ (hit /\ db' = [db EXCEPT ![a] = row2]))
           /\ task' = [task EXCEPT ![t] = [task[t] EXCEPT !.reply = "error"]]
  <2>1. dbErrors' \in Nat /\ dbErrors' >= dbErrors /\ dbErrors' > 0 BY <1>1, <1>5
  <2>2. CASE db' = db BY <1>1, <1>2, <1>5, <2>1, <2>2
  <2>3. CASE hit /\ db' = [db EXCEPT ![a] = row2] BY <1>5, <2>1, <2>3
  <2> QED BY <1>5, <2>2, <2>3
<1> QED BY <1>1, <1>3, <1>4, <1>5 DEF Update, Answer

\* An UPDATE keeps the invariant if the row it would write does.
LEMMA UpdateHeld ==
  ASSUME PayInv, OutcomeInv, CustodyInv, NEW t \in Tasks, NEW hit \in BOOLEAN, NEW row2,
         NEW a \in Sessions, task[t].s = a, task[t].reply = "none", task[t].pc # "read",
         Update(t, hit, row2), DbFrame,
         hit => /\ row2 \in RowRec
                /\ row2.status = "claiming" => row2.claim.st \notin {"failed", "reverted"}
                /\ Settled(db[a].claim) => row2.claim = db[a].claim
                /\ db[a].status # "finished"
                /\ t # Queue => claims[a].st # "queue"
                /\ \A u \in Tasks : IsRequest(u) /\ Wrote(task[u]) => task[u].s # a
                /\ task[t].pc \in {"cas", "create"} => row2.claim = task[t].new
                /\ task[t].pc = "finalize" => row2.status = "finished"
                /\ Up => /\ RowHeld(a, row2, task[Queue]) /\ QueueHolds(a, row2, claims[a], task[Queue])
                         /\ row2.status = "claiming" =>
                              /\ row2.claim.st \in {"prepared", "pending", "confirmed"} => a \in dict
                              /\ row2.claim.st = "queue" => IsRequest(t) /\ task[t].pc = "create"
  PROVE  CustodyInv'
<1>1. PICK x \in {"ok", "no", "error"}, row3 \in RowRec :
              /\ db' = [db EXCEPT ![a] = row3]
              /\ task' = [task EXCEPT ![t] = [task[t] EXCEPT !.reply = x]]
              /\ row3 = db[a] \/ (hit /\ row3 = row2 /\ x # "no")
              /\ x = "ok" => hit /\ row3 = row2
              /\ dbErrors' \in Nat /\ dbErrors' >= dbErrors
              /\ x = "error" => dbErrors' > 0
  BY UpdateEffect
<1>2. UNCHANGED <<phase, claims, dict, pending, reserved>> BY DEF DbFrame, memory, wallet
<1>3. /\ task'[t].reply = x /\ \A u \in Tasks \ {t} : task'[u] = task[u]
      /\ \A u \in Tasks : task'[u].pc = task[u].pc /\ task'[u].s = task[u].s
  BY <1>1, AnsweredTasks
<1>4. Unreported(a) => Unreported(a)'
  <2>1. \A r \in Requests : Wrote(task[Request(r)]) => task'[Request(r)] = task[Request(r)]
    BY <1>3, AreTasks DEF Wrote
  <2> QED BY <2>1 DEF Unreported, Wrote
<1>5. /\ row3.status = "claiming" => row3.claim.st \notin {"failed", "reverted"}
      /\ Settled(db[a].claim) => row3.claim = db[a].claim
      /\ db[a].status = "finished" => row3.status = "finished"
      /\ row3 # db[a] => /\ t # Queue => claims[a].st # "queue"
                         /\ \A u \in Tasks : IsRequest(u) /\ Wrote(task[u]) => task[u].s # a
      /\ x = "ok" => /\ task[t].pc \in {"cas", "create"} => row3.claim = task[t].new
                     /\ task[t].pc = "finalize" => row3.status = "finished"
  BY <1>1 DEF CustodyInv, RowsOpen
<1>6. ASSUME Up
      PROVE /\ RowHeld(a, row3, task[Queue]) /\ QueueHolds(a, row3, claims[a], task[Queue])
            /\ row3.status = "claiming" =>
                    /\ row3.claim.st \in {"prepared", "pending", "confirmed"} => a \in dict
                    /\ row3.claim.st = "queue" => a \in dict \/ Unreported(a)' \/ dbErrors' > 0
  <2>1. CASE row3 = db[a]
    <3>1. RowHeld(a, row3, task[Queue]) /\ QueueHolds(a, row3, claims[a], task[Queue]) /\ RowOwned(a, row3)
      BY <1>6, <2>1 DEF CustodyInv, Custody
    <3>2. dbErrors > 0 => dbErrors' > 0 BY <1>1 DEF CustodyInv
    <3> QED BY <1>4, <3>1, <3>2 DEF RowOwned
  <2>2. CASE hit /\ row3 = row2 /\ x # "no"
    <3>1. /\ RowHeld(a, row2, task[Queue]) /\ QueueHolds(a, row2, claims[a], task[Queue])
          /\ row2.status = "claiming" =>
                              /\ row2.claim.st \in {"prepared", "pending", "confirmed"} => a \in dict
                              /\ row2.claim.st = "queue" => IsRequest(t) /\ task[t].pc = "create"
      BY <1>6, <2>2
    <3>2. ASSUME IsRequest(t), task[t].pc = "create", x = "ok" PROVE Unreported(a)'
      <4>1. PICK r \in Requests : t = Request(r) BY <3>2 DEF IsRequest
      <4>2. task'[Request(r)].pc = "create" /\ task'[Request(r)].reply = "ok" /\ task'[Request(r)].s = a
        BY <1>3, <3>2, <4>1
      <4> QED BY <4>2 DEF Unreported, Wrote
    <3>3. x = "ok" \/ dbErrors' > 0 BY <1>1, <2>2
    <3> QED BY <2>2, <3>1, <3>2, <3>3
  <2> QED BY <1>1, <2>1, <2>2
<1> QED BY <1>1, <1>2, <1>5, <1>6, RowWriteHeld

\* No handler has written the claim of a session that is claimable or owned by another task.
LEMMA NoWriter ==
  ASSUME PayInv, NEW a \in Sessions, db[a].status = "claimable" \/ claims[a] # NoClaim
  PROVE  \A u \in Tasks : IsRequest(u) /\ Wrote(task[u]) => task[u].s # a
<1> SUFFICES ASSUME NEW u \in Tasks, IsRequest(u), Wrote(task[u]) PROVE task[u].s # a OBVIOUS
<1>1. RequestSound(task[u], db, claims) BY DEF PayInv, TasksSound, TaskSound, IsRequest
<1> QED BY <1>1 DEF RequestSound

\* tryCreateClaim: the handler that wrote the row has not yet continued.
LEMMA TryCreateClaimHeld ==
  ASSUME PayInv, OutcomeInv, CustodyInv, NEW t \in Tasks, TryCreateClaim(t)
  PROVE  CustodyInv'
<1> DEFINE k == task[t]
           a == k.s
           row2 == [status |-> "claiming", claim |-> k.new]
           hit == db[a].status = "claimable" /\ db[a].claim = NoClaim
<1>1. TaskSound(t, k, db, claims) /\ k \in TaskRec /\ db \in [Sessions -> RowRec]
  BY DEF PayInv, TasksSound, Shape
<1>2. k.pc = "create" /\ k.reply = "none" /\ Update(t, hit, row2) /\ DbFrame BY DEF TryCreateClaim, Turn
<1>3. IsRequest(t) /\ RequestSound(k, db, claims) BY <1>1, <1>2, CallerKinds
<1>4. a \in Sessions /\ k.new.st = "queue" BY <1>2, <1>3 DEF RequestSound
<1>5. row2 \in RowRec BY <1>1 DEF RowRec, TaskRec
<1>6. row2.status = "claiming" /\ row2.claim = k.new OBVIOUS
<1>7. ASSUME hit
      PROVE  /\ ~Settled(db[a].claim) /\ claims[a].st # "queue" /\ db[a].status # "finished"
             /\ \A u \in Tasks : IsRequest(u) /\ Wrote(task[u]) => task[u].s # a
  <2>1. claims[a] = NoClaim BY <1>4, <1>7 DEF PayInv, RowsSound, MemorySound
  <2> QED BY <1>4, <1>7, <2>1, Constants, NoWriter DEF Settled
<1>8. RowHeld(a, row2, task[Queue]) BY <1>4, <1>6 DEF RowHeld, Active
<1> HIDE DEF row2
<1>9. hit => QueueHolds(a, row2, claims[a], task[Queue]) BY <1>7 DEF QueueHolds
<1> HIDE DEF hit
<1>10. hit \in BOOLEAN BY DEF hit
<1> QED BY <1>2, <1>3, <1>4, <1>5, <1>6, <1>7, <1>8, <1>9, <1>10, UpdateHeld

\* compareAndSetClaim: only the queue signs, and it has reserved what it signs.
LEMMA CompareAndSetClaimHeld ==
  ASSUME PayInv, OutcomeInv, CustodyInv, NEW t \in Tasks, CompareAndSetClaim(t)
  PROVE  CustodyInv'
<1> DEFINE k == task[t]
           a == k.s
           to == IF k.new.st \in {"reverted", "failed"} THEN "failed" ELSE "claiming"
           row2 == [status |-> to, claim |-> k.new]
           hit == db[a].status = "claiming" /\ db[a].claim = k.exp
           q == task[Queue]
<1>1. TaskSound(t, k, db, claims) /\ k \in TaskRec /\ db \in [Sessions -> RowRec]
  BY DEF PayInv, TasksSound, Shape
<1>2. k.pc = "cas" /\ k.reply = "none" /\ Update(t, hit, row2) /\ DbFrame BY DEF CompareAndSetClaim, Turn
<1>3. row2 \in RowRec BY <1>1 DEF RowRec, TaskRec
<1>4. row2.claim = k.new /\ (row2.status = "claiming" => k.new.st \notin {"reverted", "failed"}) OBVIOUS
<1>5. hit \in BOOLEAN OBVIOUS
<1>6. CASE t = Queue
  <2>1. QueueSound(k, db, claims) BY <1>1, <1>6 DEF TaskSound
  <2>2. /\ a \in Sessions /\ claims[a].st = "queue" /\ k.exp.st = "queue"
        /\ \/ k.new.st = "prepared" /\ k.new.tx.s = a
           \/ k.new.st = "failed" /\ k.new.tx = NoTx
    BY <1>2, <2>1 DEF QueueSound
  <2>3. \A u \in Tasks : IsRequest(u) /\ Wrote(task[u]) => task[u].s # a BY <2>2, NoWriter, Constants
  <2>4. hit => ~Settled(db[a].claim) /\ db[a].status # "finished" BY <2>2 DEF Settled
  <2>5. Writing(q) BY <1>2, <1>6 DEF Writing
  <2> HIDE DEF row2
  <2>6. ASSUME Up
        PROVE  /\ RowHeld(a, row2, q) /\ QueueHolds(a, row2, claims[a], q) /\ a \in dict
               /\ row2.claim.st # "queue"
    <3>1. Custody BY <2>6 DEF CustodyInv
    <3>2. a \in dict BY <2>2, <3>1 DEF Custody, QueueHolds
    <3>3. k.new.st = "prepared" => k.new.tx \in reserved BY <1>6, <2>5, <3>1 DEF Custody, Flying
    <3>4. RowHeld(a, row2, q) BY <1>4, <1>6, <2>2, <2>5, <3>3 DEF RowHeld, Active
    <3>5. QueueHolds(a, row2, claims[a], q) BY <1>4, <1>6, <2>5, <3>2 DEF QueueHolds
    <3> QED BY <1>4, <2>2, <3>2, <3>4, <3>5
  <2> HIDE DEF hit
  <2> QED BY <1>2, <1>3, <1>4, <1>5, <1>6, <2>2, <2>3, <2>4, <2>6, UpdateHeld
<1>7. ASSUME NEW s \in Sessions, t \in {Broadcast(s), Receipt(s)} PROVE CustodyInv'
  <2>1. t \in ReconcilerTasks(s) /\ k.pc # "off" BY <1>2, <1>7 DEF ReconcilerTasks
  <2>2. a = s /\ Signed(claims[a]) /\ Carries(db[a], k.new) /\ IsActiveSigned(k.exp)
    BY <1>2, <1>7, <2>1, ReconcilerClaim, KindsDiffer
  <2>3. claims[a].st # "queue" /\ claims[a] # NoClaim BY <2>2, Constants DEF Signed
  <2>4. \A u \in Tasks : IsRequest(u) /\ Wrote(task[u]) => task[u].s # a BY <2>2, <2>3, NoWriter
  <2>5. hit => Active(db[a]) /\ ~Settled(db[a].claim) /\ db[a].status # "finished"
    BY <2>2 DEF Active, Settled, IsActiveSigned
  <2> HIDE DEF row2
  <2>6. ASSUME Up, hit
        PROVE  /\ RowHeld(a, row2, q) /\ QueueHolds(a, row2, claims[a], q) /\ a \in dict
               /\ row2.claim.st # "queue"
    <3>1. RowHeld(a, db[a], q) /\ RowOwned(a, db[a]) BY <2>2, <2>6 DEF CustodyInv, Custody
    <3>2. a \in dict BY <2>5, <2>6, <3>1 DEF RowOwned, Active
    <3>3. k.new.tx = db[a].claim.tx /\ Signed(k.new) BY <2>2 DEF Carries, Agrees
    <3>4. RowHeld(a, row2, q) BY <1>4, <2>5, <2>6, <3>1, <3>3 DEF RowHeld
    <3>5. QueueHolds(a, row2, claims[a], q) BY <2>3 DEF QueueHolds
    <3> QED BY <1>4, <3>2, <3>3, <3>4, <3>5 DEF Signed
  <2> HIDE DEF hit
  <2> QED BY <1>2, <1>3, <1>4, <1>5, <2>2, <2>3, <2>4, <2>5, <2>6, UpdateHeld
<1>8. t = Queue \/ \E s \in Sessions : t \in {Broadcast(s), Receipt(s)} BY <1>1, <1>2, CallerKinds
<1> QED BY <1>6, <1>7, <1>8

\* finalizeConfirmedRow ends a row whose claim is confirmed.
LEMMA FinalizeConfirmedRowHeld ==
  ASSUME PayInv, OutcomeInv, CustodyInv, NEW t \in Tasks, FinalizeConfirmedRow(t)
  PROVE  CustodyInv'
<1> DEFINE k == task[t]
           a == k.s
           row2 == [db[a] EXCEPT !.status = "finished"]
           hit == db[a].status = "claiming" /\ db[a].claim = k.exp
           q == task[Queue]
<1>1. TaskSound(t, k, db, claims) /\ k \in TaskRec /\ db \in [Sessions -> RowRec]
      /\ TaskTrue(t, k, mined, booked)
  BY DEF PayInv, TasksSound, Shape, OutcomeInv, TasksTrue
<1>2. k.pc = "finalize" /\ k.reply = "none" /\ Update(t, hit, row2) /\ DbFrame BY DEF FinalizeConfirmedRow, Turn
<1>3. PICK s \in Sessions : t = Completion(s) /\ CompletionSound(s, k, db, claims)
  BY <1>1, <1>2, CallerKinds
<1>4. a = s /\ Signed(claims[a]) /\ k.exp.st = "confirmed"
  BY <1>1, <1>2, <1>3 DEF CompletionSound, TaskTrue
<1>5. row2 \in RowRec /\ row2.claim = db[a].claim /\ row2.status = "finished"
  BY <1>1, <1>4 DEF RowRec
<1>6. hit \in BOOLEAN OBVIOUS
<1>7. claims[a].st # "queue" /\ claims[a] # NoClaim BY <1>4, Constants DEF Signed
<1>8. \A u \in Tasks : IsRequest(u) /\ Wrote(task[u]) => task[u].s # a BY <1>4, <1>7, NoWriter
<1>9. hit => ~Active(row2) /\ db[a].status # "finished" BY <1>4, <1>5 DEF Active
<1>10. QueueHolds(a, row2, claims[a], q) BY <1>7 DEF QueueHolds
<1>11. hit => RowHeld(a, row2, q) BY <1>9 DEF RowHeld
<1> HIDE DEF row2, hit
<1> QED BY <1>2, <1>4, <1>5, <1>6, <1>7, <1>8, <1>9, <1>10, <1>11, UpdateHeld

-----------------------------------------------------------------------------
(* The other steps.                                                        *)

\* A step that leaves rows, claims and ownership alone: a handler moves on without a reply,
\* a read is answered, or no task moves.
LEMMA QuietHeld ==
  ASSUME PayInv, CustodyInv, UNCHANGED <<db, claims, dict, pending, reserved>>, Up' => Up,
         dbErrors' \in Nat, dbErrors' >= dbErrors, NEW t \in Tasks, NEW j, task' = [task EXCEPT ![t] = j],
         j = task[t] \/ IF IsRequest(t) THEN ~Wrote(task[t]) /\ ~Wrote(j)
                        ELSE /\ j.pc = "read" /\ task[t].pc = "read" /\ j.s = task[t].s /\ j.new = task[t].new
                             /\ j.reply \in {"ok", "error"} /\ (j.reply = "ok" => j.row = db[j.s])
  PROVE  CustodyInv'
<1> DEFINE q == task[Queue]
<1>1. task \in [Tasks -> TaskRec] /\ Queue \in Tasks BY AreTasks DEF PayInv, Shape
<1>2. task'[t] = j /\ \A u \in Tasks \ {t} : task'[u] = task[u] BY <1>1
<1>3. ~IsRequest(Queue) /\ \A s \in Sessions : ~IsRequest(Broadcast(s)) /\ ~IsRequest(Receipt(s)) /\ ~IsRequest(Completion(s))
  BY KindsDiffer DEF IsRequest
<1>4. task'[Queue].pc = q.pc /\ task'[Queue].s = q.s /\ task'[Queue].new = q.new
  BY <1>1, <1>2, <1>3
<1>5. QueueFresh(task[Queue], db)'
  <2>1. CASE task'[Queue] = q BY <2>1 DEF CustodyInv, QueueFresh
  <2>2. CASE task'[Queue] # q BY <1>1, <1>2, <1>3, <2>2 DEF QueueFresh
  <2> QED BY <2>1, <2>2
<1>6. \A r \in Requests : Wrote(task'[Request(r)]) \/ Wrote(task[Request(r)]) => task'[Request(r)] = task[Request(r)]
  BY <1>2, AreTasks DEF IsRequest
<1>7. HandlersFresh' BY <1>6 DEF CustodyInv, HandlersFresh, Wrote
<1>8. ASSUME NEW s \in Sessions, NEW u \in {Broadcast(s), Receipt(s), Completion(s)}
      PROVE  ReplySettled(task'[u], db[s]) /\ (u = Receipt(s) /\ Writing(task'[u]) => Settled(task'[u].new))
  <2>1. u \in Tasks /\ ~IsRequest(u) BY <1>3, AreTasks
  <2>2. CASE task'[u] = task[u] BY <2>2 DEF CustodyInv, RepliesSettled, ReceiptsSettle
  <2>3. CASE task'[u] # task[u]
    <3>1. u = t /\ task'[u] = j BY <1>2, <2>1, <2>3
    <3>2. /\ j.pc = "read" /\ task[u].pc = "read" /\ j.s = task[u].s /\ j.new = task[u].new
          /\ (j.reply = "ok" => j.row = db[j.s])
      BY <2>1, <2>3, <3>1
    <3>3. task[u].s = s
      <4>1. TaskSound(u, task[u], db, claims) BY <2>1 DEF PayInv, TasksSound
      <4> QED BY <3>2, <4>1 DEF TaskSound, ReconcilerSound, CompletionSound
    <3>4. u = Receipt(s) => Settled(task[u].new) BY <3>2 DEF CustodyInv, ReceiptsSettle, Writing
    <3> QED BY <3>1, <3>2, <3>3, <3>4 DEF ReplySettled
  <2> QED BY <2>2, <2>3
<1>9. RepliesSettled' BY <1>8 DEF RepliesSettled
<1>10. ReceiptsSettle' BY <1>8 DEF ReceiptsSettle, Writing
<1>11. ASSUME Up' PROVE Custody'
  <2>1. Custody BY <1>11 DEF CustodyInv
  <2>2. ASSUME NEW u \in Sessions
        PROVE  QueueHolds(u, db[u], claims[u], task[Queue])' /\ RowHeld(u, db[u], task[Queue])'
               /\ RowOwned(u, db[u])'
    <3>1. QueueHolds(u, db[u], claims[u], q) /\ RowHeld(u, db[u], q) /\ RowOwned(u, db[u])
      BY <2>1 DEF Custody
    <3>2. QueueHolds(u, db[u], claims[u], task[Queue])' BY <1>4, <3>1 DEF QueueHolds, Writing
    <3>3. RowHeld(u, db[u], task[Queue])' BY <1>4, <3>1 DEF RowHeld, Writing
    <3>4. Unreported(u) => Unreported(u)' BY <1>6 DEF Unreported, Wrote
    <3>5. dbErrors > 0 => dbErrors' > 0 BY DEF CustodyInv
    <3>6. RowOwned(u, db[u])' BY <3>1, <3>4, <3>5 DEF RowOwned
    <3> QED BY <3>2, <3>3, <3>6
  <2>3. Flying(task[Queue])' => task'[Queue].new.tx \in reserved'
    BY <1>4, <2>1 DEF Custody, Flying, Writing
  <2> QED BY <2>2, <2>3 DEF Custody
<1> QED BY <1>5, <1>7, <1>9, <1>10, <1>11 DEF CustodyInv, RowsOpen

\* getSession.
LEMMA GetSessionHeld ==
  ASSUME PayInv, CustodyInv, NEW t \in Tasks, GetSession(t)
  PROVE  CustodyInv'
<1> DEFINE k == task[t]
           a == k.s
<1>1. TaskSound(t, k, db, claims) /\ k \in TaskRec /\ task \in [Tasks -> TaskRec]
      /\ db \in [Sessions -> RowRec] /\ dbErrors \in Nat
  BY DEF PayInv, TasksSound, Shape, CustodyInv
<1>2. k.pc = "read" /\ UNCHANGED <<db, claims, dict, pending, reserved, phase>>
      /\ dbErrors' \in Nat /\ dbErrors' >= dbErrors
  BY <1>1 DEF GetSession, Turn, DbFrame, memory, wallet
<1>3. a \in Sessions /\ ~IsRequest(t)
  <2>1. IsRequest(t) => RequestSound(k, db, claims) BY <1>1 DEF TaskSound, IsRequest
  <2>2. ~IsRequest(t) BY <1>2, <2>1 DEF RequestSound
  <2> QED BY <1>1, <1>2, <2>2, CallerKinds DEF QueueSound, ReconcilerSound, CompletionSound
<1>4. \/ task' = [task EXCEPT ![t] = [k EXCEPT !.reply = "error"]]
      \/ task' = [task EXCEPT ![t] = [k EXCEPT !.reply = "ok", !.row = db[a]]]
  BY <1>1 DEF GetSession, Answer
<1> DEFINE e == [k EXCEPT !.reply = "error"]
           o == [k EXCEPT !.reply = "ok", !.row = db[a]]
<1>5. /\ e.reply = "error" /\ e.pc = "read" /\ e.s = k.s /\ e.new = k.new
      /\ o.reply = "ok" /\ o.pc = "read" /\ o.s = k.s /\ o.new = k.new /\ o.row = db[o.s]
  BY <1>1, <1>2 DEF TaskRec
<1> HIDE DEF e, o
<1>6. CASE task' = [task EXCEPT ![t] = e] BY <1>2, <1>3, <1>5, <1>6, QuietHeld DEF Up
<1>7. CASE task' = [task EXCEPT ![t] = o] BY <1>2, <1>3, <1>5, <1>7, QuietHeld DEF Up
<1> QED BY <1>4, <1>6, <1>7 DEF e, o

\* Steps without a task, and stuttering.
LEMMA StillHeld ==
  ASSUME PayInv, CustodyInv, (\E x \in pool : Mine(x)) \/ Dispose \/ UNCHANGED vars
  PROVE  CustodyInv'
<1>1. /\ UNCHANGED <<db, claims, dict, pending, reserved, task>> /\ (Up' => Up)
      /\ dbErrors' \in Nat /\ dbErrors' >= dbErrors
  BY DEF Mine, Dispose, vars, durable, memory, wallet, bounds, CustodyInv, Up
<1>2. Queue \in Tasks /\ task' = [task EXCEPT ![Queue] = task[Queue]] BY <1>1, AreTasks DEF PayInv, Shape
<1> QED BY <1>1, <1>2, QuietHeld

\* The handlers.
LEMMA HandlersHeld ==
  ASSUME PayInv, CustodyInv, NEW r \in Requests,
         RejectClaim(r) \/ CreateClaim(r) \/ \E s \in Sessions : ClaimReward(r, s)
  PROVE  CustodyInv'
<1> DEFINE t == Request(r)
<1>1. t \in Tasks /\ IsRequest(t) BY AreTasks DEF IsRequest
<1>2. /\ UNCHANGED <<db, claims, dict, pending, reserved, phase>> /\ ~Wrote(task[t])
      /\ dbErrors' \in Nat /\ dbErrors' >= dbErrors
  BY DEF RejectClaim, CreateClaim, ClaimReward, durable, memory, wallet, bounds, Wrote, CustodyInv
<1>3. PICK j : task' = [task EXCEPT ![t] = j] /\ ~Wrote(j)
  <2>1. ~Wrote(Off) /\ \A s : ~Wrote(At("hooks", s)) BY Constants, Carried DEF Wrote
  <2>2. \A s, c : ~Wrote([At("create", s) EXCEPT !.new = c])
    <3>1. \A s, c : [At("create", s) EXCEPT !.new = c].reply = "none" BY DEF At
    <3> QED BY <3>1 DEF Wrote
  <2>3. CASE RejectClaim(r) BY <2>1, <2>3 DEF RejectClaim, Goto
  <2>4. CASE CreateClaim(r) BY <2>2, <2>4 DEF CreateClaim, Goto
  <2>5. CASE \E s \in Sessions : ClaimReward(r, s) BY <2>1, <2>5 DEF ClaimReward, Goto
  <2> QED BY <2>3, <2>4, <2>5
<1> HIDE DEF t
<1> QED BY <1>1, <1>2, <1>3, QuietHeld DEF Up

\* The handler that wrote the claim makes the manager own it.
LEMMA ClaimCreatedHeld ==
  ASSUME PayInv, CustodyInv, NEW r \in Requests, ClaimCreated(r)
  PROVE  CustodyInv'
<1> DEFINE t == Request(r)
           k == task[t]
           s == k.s
           q == task[Queue]
<1>1. t \in Tasks /\ IsRequest(t) BY AreTasks DEF IsRequest
<1>2. /\ UNCHANGED <<db, pending, reserved, dbErrors, phase>> /\ k.pc = "create" /\ k.reply # "none"
      /\ task' = [task EXCEPT ![t] = Off] /\ dbErrors' \in Nat /\ dbErrors' >= dbErrors
  BY DEF ClaimCreated, durable, wallet, bounds, CustodyInv, Goto
<1>3. ~Wrote(Off) BY Constants DEF Wrote
<1>4. CASE k.reply # "ok"
  <2>1. UNCHANGED <<dict, claims>> BY <1>4 DEF ClaimCreated
  <2>2. ~Wrote(k) BY <1>4 DEF Wrote
  <2> HIDE DEF t
  <2> QED BY <1>1, <1>2, <1>3, <2>1, <2>2, QuietHeld DEF Up
<1>5. CASE k.reply = "ok"
  <2>1. dict' = dict \union {s} /\ claims' = [claims EXCEPT ![s] = k.new] BY <1>5 DEF ClaimCreated
  <2>2. Wrote(k) BY <1>2, <1>5 DEF Wrote
  <2>3. RequestSound(k, db, claims) BY <1>1, KindSound DEF PayInv, TasksSound
  <2>4. s \in Sessions /\ k.new.st = "queue" /\ claims[s] = NoClaim BY <1>2, <2>2, <2>3 DEF RequestSound
  <2>5. db[s].claim = k.new BY <2>2 DEF CustodyInv, HandlersFresh
  <2>6. task \in [Tasks -> TaskRec] /\ claims \in [Sessions -> ClaimRec] BY DEF PayInv, Shape
  <2>7. task'[t] = Off /\ \A u \in Tasks \ {t} : task'[u] = task[u] BY <1>1, <1>2, <2>6
  <2>8. task'[Queue] = q BY <2>7, AreTasks, KindsDiffer
  <2>9. \A u \in Sessions : /\ task'[Broadcast(u)] = task[Broadcast(u)] /\ task'[Receipt(u)] = task[Receipt(u)]
                            /\ task'[Completion(u)] = task[Completion(u)]
    BY <2>7, AreTasks, KindsDiffer
  <2>10. \A p \in Requests : Wrote(task'[Request(p)]) => task'[Request(p)] = task[Request(p)]
    BY <1>3, <2>7, AreTasks
  <2>11. QueueFresh(task[Queue], db)' BY <1>2, <2>8 DEF CustodyInv, QueueFresh
  <2>12. HandlersFresh' BY <1>2, <2>10 DEF CustodyInv, HandlersFresh, Wrote
  <2>13. RepliesSettled' BY <1>2, <2>9 DEF CustodyInv, RepliesSettled
  <2>14. ReceiptsSettle' BY <2>9 DEF CustodyInv, ReceiptsSettle
  <2>15. ASSUME Up PROVE Custody'
    <3>1. Custody BY <2>15 DEF CustodyInv
    <3>2. ASSUME NEW u \in Sessions
          PROVE  QueueHolds(u, db[u], claims[u], task[Queue])' /\ RowHeld(u, db[u], task[Queue])'
                 /\ RowOwned(u, db[u])'
      <4>1. QueueHolds(u, db[u], claims[u], q) /\ RowHeld(u, db[u], q) /\ RowOwned(u, db[u])
        BY <3>1 DEF Custody
      <4>2. u # s => claims'[u] = claims[u] BY <2>1, <2>6
      <4>3. ~Signed(db[s].claim) BY <2>4, <2>5 DEF Signed
      <4>4. QueueHolds(u, db[u], claims[u], task[Queue])'
        BY <1>2, <2>1, <2>8, <4>1, <4>2, <4>3 DEF QueueHolds
      <4>5. RowHeld(u, db[u], task[Queue])' BY <1>2, <2>8, <4>1 DEF RowHeld
      <4>6. u # s /\ Unreported(u) => Unreported(u)'
        <5> SUFFICES ASSUME u # s, NEW p \in Requests, Wrote(task[Request(p)]), task[Request(p)].s = u
                     PROVE  Unreported(u)'
          BY DEF Unreported
        <5>1. Request(p) # t OBVIOUS
        <5>2. task'[Request(p)] = task[Request(p)] BY <2>7, <5>1, AreTasks
        <5> QED BY <5>2 DEF Unreported, Wrote
      <4>7. RowOwned(u, db[u])' BY <1>2, <2>1, <4>1, <4>6 DEF RowOwned
      <4> QED BY <4>4, <4>5, <4>7
    <3>3. Flying(task[Queue])' => task'[Queue].new.tx \in reserved'
      BY <1>2, <2>8, <3>1 DEF Custody, Flying, Writing
    <3> QED BY <3>2, <3>3 DEF Custody
  <2> QED BY <1>2, <2>11, <2>12, <2>13, <2>14, <2>15 DEF CustodyInv, RowsOpen, Up
<1> QED BY <1>4, <1>5

\* A timeout fails a row that has no claim.
LEMMA TimeoutHeld ==
  ASSUME PayInv, CustodyInv, NEW a \in Sessions, TryTimeoutSession(a)
  PROVE  CustodyInv'
<1> DEFINE q == task[Queue]
<1>1. db \in [Sessions -> RowRec] BY DEF PayInv, Shape
<1>2. /\ db[a].status = "claimable" /\ db' = [db EXCEPT ![a].status = "failed"]
      /\ UNCHANGED <<phase, claims, dict, pending, reserved, task, dbErrors>>
  BY DEF TryTimeoutSession, memory, wallet, bounds
<1>3. /\ db'[a].status = "failed" /\ \A s \in Sessions : db'[s].claim = db[s].claim
      /\ \A s \in Sessions : s # a => db'[s] = db[s]
  BY <1>1, <1>2 DEF RowRec
<1>4. RowsOpen' BY <1>2, <1>3 DEF CustodyInv, RowsOpen
<1>5. QueueFresh(task[Queue], db)'
  <2>1. Writing(q) => q.s \in Sessions /\ q.s # a BY <1>2, QueueClaim DEF Writing
  <2> QED BY <1>2, <1>3, <2>1 DEF CustodyInv, QueueFresh, Writing
<1>6. HandlersFresh'
  <2> SUFFICES ASSUME NEW r \in Requests, Wrote(task[Request(r)])
               PROVE  db'[task[Request(r)].s].claim = task[Request(r)].new
    BY <1>2 DEF HandlersFresh, Wrote
  <2>1. RequestSound(task[Request(r)], db, claims) BY AreTasks, KindSound DEF PayInv, TasksSound
  <2>2. task[Request(r)].s \in Sessions BY <2>1 DEF RequestSound, Wrote
  <2> QED BY <1>3, <2>2 DEF CustodyInv, HandlersFresh
<1>7. RepliesSettled'
  <2> SUFFICES ASSUME NEW s \in Sessions, NEW u \in {Broadcast(s), Receipt(s), Completion(s)}
               PROVE  ReplySettled(task[u], db'[s])
    BY <1>2 DEF RepliesSettled
  <2>1. ReplySettled(task[u], db[s]) BY DEF CustodyInv, RepliesSettled
  <2> QED BY <1>2, <1>3, <2>1 DEF ReplySettled
<1>8. ReceiptsSettle' BY <1>2 DEF CustodyInv, ReceiptsSettle
<1>9. ASSUME Up PROVE Custody'
  <2>1. Custody BY <1>9 DEF CustodyInv
  <2>2. ASSUME NEW u \in Sessions
        PROVE  QueueHolds(u, db[u], claims[u], task[Queue])' /\ RowHeld(u, db[u], task[Queue])'
               /\ RowOwned(u, db[u])'
    <3>1. QueueHolds(u, db[u], claims[u], q) /\ RowHeld(u, db[u], q) /\ RowOwned(u, db[u])
      BY <2>1 DEF Custody
    <3>2. QueueHolds(u, db[u], claims[u], task[Queue])' BY <1>2, <1>3, <3>1 DEF QueueHolds
    <3>3. RowHeld(u, db[u], task[Queue])' BY <1>2, <1>3, <3>1 DEF RowHeld, Active
    <3>4. Unreported(u)' <=> Unreported(u) BY <1>2 DEF Unreported
    <3>5. RowOwned(u, db[u])' BY <1>2, <1>3, <3>1, <3>4 DEF RowOwned
    <3> QED BY <3>2, <3>3, <3>5
  <2>3. Flying(task[Queue])' => task'[Queue].new.tx \in reserved'
    BY <1>2, <2>1 DEF Custody
  <2> QED BY <2>2, <2>3 DEF Custody
<1> QED BY <1>2, <1>4, <1>5, <1>6, <1>7, <1>8, <1>9 DEF CustodyInv, Up

\* When no task waits for a reply or is in a transition, only the rows matter.
LEMMA FreshTasks ==
  ASSUME NEW tasks, \A t \in Tasks : tasks[t].reply = "none" /\ ~Writing(tasks[t]), task' = tasks,
         dbErrors' \in Nat, RowsOpen', Up' => Custody'
  PROVE  CustodyInv'
<1>1. \A t \in Tasks : task'[t].reply = "none" /\ ~Writing(task'[t]) OBVIOUS
<1>2. QueueFresh(task[Queue], db)' BY <1>1, AreTasks DEF QueueFresh
<1>3. HandlersFresh' BY <1>1, AreTasks DEF HandlersFresh, Wrote
<1>4. RepliesSettled' BY <1>1, AreTasks DEF RepliesSettled, ReplySettled
<1>5. ReceiptsSettle' BY <1>1, AreTasks DEF ReceiptsSettle, Writing
<1> QED BY <1>2, <1>3, <1>4, <1>5 DEF CustodyInv

\* The process stops and starts again.
LEMMA RestartHeld ==
  ASSUME PayInv, OutcomeInv, CustodyInv, Stop \/ Initialize
  PROVE  CustodyInv'
<1>1. UNCHANGED <<db, dbErrors>> BY DEF Stop, Initialize, durable, bounds
<1>2. RowsOpen' /\ dbErrors' \in Nat BY <1>1 DEF CustodyInv, RowsOpen
<1>3. \A p, s : At(p, s).pc = p /\ At(p, s).reply = "none" BY Carried, NoReply
<1>4. Off.reply = "none" /\ ~Writing(Off) BY Constants, NoReply DEF Writing
<1>5. CASE Stop
  <2>1. task' = [t \in Tasks |-> Off] /\ ~Up' BY <1>5 DEF Stop, Up
  <2> QED BY <1>2, <1>4, <2>1, FreshTasks
<1>6. CASE Initialize
  <2> DEFINE queued    == Claiming({"queue"})
             active    == Claiming({"prepared", "pending"})
             confirmed == Claiming({"confirmed"})
             owned     == queued \union active \union confirmed
             tasks == [t \in Tasks |->
                   IF t \in {Broadcast(s) : s \in active} THEN At("send", t[2])
                   ELSE IF t \in {Receipt(s) : s \in active} THEN At("watch", t[2])
                   ELSE IF t \in {Completion(s) : s \in confirmed} THEN At("hooks", t[2])
                   ELSE Off]
  <2>1. /\ claims' = [s \in Sessions |-> IF s \in owned THEN db[s].claim ELSE NoClaim]
        /\ dict' = owned /\ pending' = active /\ reserved' = {db[s].claim.tx : s \in active}
        /\ task' = tasks
    BY <1>6 DEF Initialize
  <2>2. \A t \in Tasks : tasks[t].reply = "none" /\ ~Writing(tasks[t]) BY <1>3, <1>4 DEF Writing
  <2> HIDE DEF tasks
  <2>3. Custody'
    <3>1. ~Writing(task'[Queue]) BY <2>1, <2>2, AreTasks
    <3>2. ASSUME NEW u \in Sessions
          PROVE  QueueHolds(u, db[u], claims[u], task[Queue])' /\ RowHeld(u, db[u], task[Queue])'
                 /\ RowOwned(u, db[u])'
      <4>1. claims'[u] = IF u \in owned THEN db[u].claim ELSE NoClaim BY <2>1
      <4>2. claims'[u].st = "queue" => u \in owned /\ db[u].claim.st = "queue" BY <4>1, Constants
      <4>3. QueueHolds(u, db[u], claims[u], task[Queue])'
        BY <1>1, <2>1, <4>2 DEF QueueHolds, Signed
      <4>4. Active(db[u]) => u \in active BY ActiveIsClaiming DEF Claiming, Active
      <4>5. RowHeld(u, db[u], task[Queue])' BY <1>1, <2>1, <4>4 DEF RowHeld, Active
      <4>6. RowOwned(u, db[u])' BY <1>1, <2>1 DEF RowOwned, Claiming
      <4> QED BY <4>3, <4>5, <4>6
    <3> QED BY <3>1, <3>2 DEF Custody, Flying, Writing
  <2> QED BY <1>2, <2>1, <2>2, <2>3, FreshTasks
<1> QED BY <1>5, <1>6

\* Initially no process runs.
LEMMA InitHeld == Init => CustodyInv
<1> SUFFICES ASSUME Init PROVE CustodyInv OBVIOUS
<1>1. task = [t \in Tasks |-> Off] /\ ~Up /\ dbErrors = 0 BY DEF Init, Up
<1>2. Off.reply = "none" /\ Off.pc = "off" BY Constants, NoReply
<1>3. \A t \in Tasks : task[t].reply = "none" /\ task[t].pc = "off" BY <1>1, <1>2
<1>4. RowsOpen BY DEF Init, RowsOpen, NoClaim
<1>5. QueueFresh(task[Queue], db) BY <1>3, AreTasks DEF QueueFresh
<1>6. HandlersFresh BY <1>3, AreTasks DEF HandlersFresh, Wrote
<1>7. RepliesSettled BY <1>3, AreTasks DEF RepliesSettled, ReplySettled
<1>8. ReceiptsSettle BY <1>3, AreTasks DEF ReceiptsSettle, Writing
<1> QED BY <1>1, <1>4, <1>5, <1>6, <1>7, <1>8 DEF CustodyInv

\* Every step keeps the invariant.
LEMMA StepHeld == PayInv /\ OutcomeInv /\ CustodyInv /\ ClaimAssumption /\ [Next]_vars => CustodyInv'
<1> SUFFICES ASSUME PayInv, OutcomeInv, CustodyInv, ClaimAssumption, [Next]_vars PROVE CustodyInv' OBVIOUS
<1>1. CASE \E t \in Tasks : Database(t)
  BY <1>1, TryCreateClaimHeld, CompareAndSetClaimHeld, FinalizeConfirmedRowHeld, GetSessionHeld DEF Database
<1>2. ASSUME NEW t \in Transitioners, TransitionRetry(t) PROVE CustodyInv'
  <2>1. PayInv' BY <1>2, TransitionRetrySound
  <2>2. CASE t = Queue BY <1>2, <2>1, <2>2, QueueRetryHeld
  <2>3. ASSUME NEW s \in Sessions, t \in {Broadcast(s), Receipt(s)} PROVE CustodyInv'
    BY <1>2, <2>3, RetryStep, ReconcilerStepKeeps
  <2> QED BY <2>2, <2>3, TransitionerKinds
<1>3. CASE \E r \in Requests : Create(r) \/ \E s \in Sessions : ClaimReward(r, s)
  BY <1>3, HandlersHeld, ClaimCreatedHeld DEF Create
<1>4. CASE ProcessQueue \/ RunQueue BY <1>4, QueueStepsHeld, QueueOverHeld DEF RunQueue
<1>5. ASSUME NEW s \in Sessions, Rebroadcast(s) \/ AwaitReceipt(s) \/ Complete(s) PROVE CustodyInv'
  BY <1>5, ReconcilerEffect, CompletionEffect, ReconcilerStepKeeps
<1>6. CASE \E s \in Sessions : TryTimeoutSession(s) BY <1>6, TimeoutHeld
<1>7. CASE (\E x \in pool : Mine(x)) \/ Dispose \/ UNCHANGED vars BY <1>7, StillHeld
<1>8. CASE Stop \/ Initialize BY <1>8, RestartHeld
<1> QED BY <1>1, <1>2, <1>3, <1>4, <1>5, <1>6, <1>7, <1>8 DEF Next

\* Whatever crashes, lost acknowledgements, retries and late replies happen, the manager holds
\* what the rows say it must.
THEOREM CustodyInvariance == Spec => [](PayInv /\ OutcomeInv /\ CustodyInv)
<1>1. PayInv /\ OutcomeInv /\ CustodyInv /\ [Next]_vars => CustodyInv' BY StepHeld, ClaimAssumption
<1>2. Spec => [](PayInv /\ OutcomeInv) BY OutcomeInvariance
<1> QED BY InitHeld, <1>1, <1>2, PTL DEF Spec

\* The wallet holds the reservation of every claim that is signed and not settled: a nonce of an
\* unsettled claim is not handed out again by loadWalletState.
THEOREM ReservedWhileActive == Spec => []ActiveIsReserved
<1>1. CustodyInv => ActiveIsReserved
  BY DEF CustodyInv, Custody, RowHeld, Active, ActiveIsReserved, Claiming
<1> QED BY CustodyInvariance, <1>1, PTL

\* A claim of a row that the running manager does not own was just written, or the acknowledgement of
\* its creation was lost.
THEOREM UnownedByLostAck == Spec => []UnownedOnlyByLostAck
<1>1. CustodyInv => UnownedOnlyByLostAck
  <2> SUFFICES ASSUME CustodyInv, Up, NEW s \in Claiming(ClaimTxStatus), s \notin dict
               PROVE  \/ \E r \in Requests : task[Request(r)].s = s /\ task[Request(r)].reply \in {"ok", "error"}
                      \/ dbErrors > 0 /\ db[s].claim.st = "queue"
    BY DEF UnownedOnlyByLostAck
  <2>1. s \in Sessions /\ db[s].status = "claiming" /\ db[s].claim.st \in ClaimTxStatus BY DEF Claiming
  <2>2. db[s].claim.st \notin {"failed", "reverted"} BY <2>1 DEF CustodyInv, RowsOpen
  <2>3. RowOwned(s, db[s]) BY <2>1 DEF CustodyInv, Custody
  <2>4. db[s].claim.st = "queue" BY <2>1, <2>2, <2>3 DEF RowOwned, ClaimTxStatus
  <2>5. Unreported(s) \/ dbErrors > 0 BY <2>1, <2>3, <2>4 DEF RowOwned
  <2> QED BY <2>4, <2>5 DEF Unreported, Wrote
<1> QED BY CustodyInvariance, <1>1, PTL

-----------------------------------------------------------------------------
(* What the steps do to the rows and to the queue.                         *)

\* Task t writes row2 over row.
Rewrites(t, row, row2) ==
  LET k == task[t]
  IN \/ /\ k.pc = "create" /\ IsRequest(t) /\ row.status = "claimable"
        /\ row2 = [status |-> "claiming", claim |-> k.new]
     \/ /\ k.pc = "cas" /\ t \in Transitioners /\ row.status = "claiming" /\ row.claim = k.exp
        /\ row2 = [status |-> IF k.new.st \in {"reverted", "failed"} THEN "failed" ELSE "claiming",
                   claim |-> k.new]
     \/ /\ k.pc = "finalize" /\ row.status = "claiming" /\ row2.claim = row.claim
        /\ row2.status = "finished"

\* What an UPDATE does, whatever it is for.
LEMMA UpdateMoves ==
  ASSUME PayInv, CustodyInv, NEW t \in Tasks, NEW a \in Sessions, task[t].s = a, NEW hit \in BOOLEAN, NEW row2,
         hit => row2 \in RowRec /\ Rewrites(t, db[a], row2), Update(t, hit, row2)
  PROVE  /\ \A u \in Tasks \ {t} : task'[u] = task[u]
         /\ \E x \in {"ok", "no", "error"} :
              /\ task'[t] = [task[t] EXCEPT !.reply = x]
              /\ \/ db' = db /\ x # "ok"
                 \/ row2 \in RowRec /\ Rewrites(t, db[a], row2) /\ db' = [db EXCEPT ![a] = row2] /\ x # "no"
<1>1. PICK x \in {"ok", "no", "error"}, row3 \in RowRec :
              /\ db' = [db EXCEPT ![a] = row3]
              /\ task' = [task EXCEPT ![t] = [task[t] EXCEPT !.reply = x]]
              /\ row3 = db[a] \/ (hit /\ row3 = row2 /\ x # "no")
              /\ x = "ok" => hit /\ row3 = row2
  BY UpdateEffect
<1>2. db \in [Sessions -> RowRec] /\ task \in [Tasks -> TaskRec] BY DEF PayInv, Shape
<1>3. task'[t] = [task[t] EXCEPT !.reply = x] /\ \A u \in Tasks \ {t} : task'[u] = task[u] BY <1>1, <1>2
<1>4. CASE hit /\ row3 = row2 /\ x # "no" BY <1>1, <1>3, <1>4
<1>5. CASE row3 = db[a] /\ x # "ok"
  <2>1. db' = db BY <1>1, <1>2, <1>5
  <2> QED BY <1>3, <1>5, <2>1
<1> QED BY <1>1, <1>4, <1>5

\* What a step of the database does.
LEMMA DatabaseMoves ==
  ASSUME PayInv, CustodyInv, NEW t \in Tasks, Database(t)
  PROVE  LET k == task[t]
         IN /\ DbFrame /\ task[t].reply = "none"
            /\ OrderedReplies => \A u \in Tasks : task[u].reply = "none"
            /\ k.s \in Sessions /\ k.pc \in {"create", "cas", "finalize", "read"}
            /\ \A u \in Tasks \ {t} : task'[u] = task[u]
            /\ \/ /\ k.pc # "read"
                  /\ \E x \in {"ok", "no", "error"} :
                       /\ task'[t] = [k EXCEPT !.reply = x]
                       /\ \/ db' = db /\ x # "ok"
                          \/ \E row2 \in RowRec : /\ Rewrites(t, db[k.s], row2) /\ x # "no"
                                                  /\ db' = [db EXCEPT ![k.s] = row2]
               \/ /\ k.pc = "read" /\ db' = db
                  /\ \/ task'[t] = [k EXCEPT !.reply = "error"]
                     \/ task'[t] = [k EXCEPT !.reply = "ok", !.row = db[k.s]]
<1> DEFINE k == task[t]
           a == k.s
           turn == /\ DbFrame /\ task[t].reply = "none"
                   /\ OrderedReplies => \A u \in Tasks : task[u].reply = "none"
           eff == /\ \A u \in Tasks \ {t} : task'[u] = task[u]
                  /\ \E x \in {"ok", "no", "error"} :
                       /\ task'[t] = [k EXCEPT !.reply = x]
                       /\ \/ db' = db /\ x # "ok"
                          \/ \E row2 \in RowRec : /\ Rewrites(t, db[a], row2) /\ x # "no"
                                                  /\ db' = [db EXCEPT ![a] = row2]
<1>1. TaskSound(t, k, db, claims) /\ k \in TaskRec /\ db \in [Sessions -> RowRec] /\ task \in [Tasks -> TaskRec]
  BY DEF PayInv, TasksSound, Shape
<1>2. turn BY DEF Database, TryCreateClaim, CompareAndSetClaim, FinalizeConfirmedRow, GetSession, Turn
<1>3. CASE TryCreateClaim(t)
  <2> DEFINE row2 == [status |-> "claiming", claim |-> k.new]
             hit == db[a].status = "claimable" /\ db[a].claim = NoClaim
  <2>1. k.pc = "create" /\ Update(t, hit, row2) BY <1>3 DEF TryCreateClaim, Turn
  <2>2. IsRequest(t) /\ a \in Sessions BY <1>1, <2>1, CallerKinds DEF RequestSound
  <2>3. row2 \in RowRec BY <1>1 DEF RowRec, TaskRec
  <2>4. hit => Rewrites(t, db[a], row2) BY <2>1, <2>2 DEF Rewrites
  <2>5. hit \in BOOLEAN OBVIOUS
  <2> HIDE DEF row2, hit
  <2>6. eff BY <2>1, <2>2, <2>3, <2>4, <2>5, UpdateMoves
  <2> QED BY <1>2, <2>1, <2>2, <2>6
<1>4. CASE CompareAndSetClaim(t)
  <2> DEFINE row2 == [status |-> IF k.new.st \in {"reverted", "failed"} THEN "failed" ELSE "claiming",
                      claim |-> k.new]
             hit == db[a].status = "claiming" /\ db[a].claim = k.exp
  <2>1. k.pc = "cas" /\ Update(t, hit, row2) BY <1>4 DEF CompareAndSetClaim, Turn
  <2>2. a \in Sessions /\ t \in Transitioners
    BY <1>1, <2>1, CallerKinds DEF QueueSound, ReconcilerSound, Transitioners, Reconcilers
  <2>3. row2 \in RowRec BY <1>1 DEF RowRec, TaskRec
  <2>4. hit => Rewrites(t, db[a], row2) BY <2>1, <2>2 DEF Rewrites
  <2>5. hit \in BOOLEAN OBVIOUS
  <2> HIDE DEF row2, hit
  <2>6. eff BY <2>1, <2>2, <2>3, <2>4, <2>5, UpdateMoves
  <2> QED BY <1>2, <2>1, <2>2, <2>6
<1>5. CASE FinalizeConfirmedRow(t)
  <2> DEFINE row2 == [db[a] EXCEPT !.status = "finished"]
             hit == db[a].status = "claiming" /\ db[a].claim = k.exp
  <2>1. k.pc = "finalize" /\ Update(t, hit, row2) BY <1>5 DEF FinalizeConfirmedRow, Turn
  <2>2. a \in Sessions BY <1>1, <2>1, CallerKinds DEF CompletionSound
  <2>3. row2 \in RowRec /\ row2.claim = db[a].claim /\ row2.status = "finished" BY <1>1, <2>2 DEF RowRec
  <2>4. hit => Rewrites(t, db[a], row2) BY <2>1, <2>3 DEF Rewrites
  <2>5. hit \in BOOLEAN OBVIOUS
  <2> HIDE DEF row2, hit
  <2>6. eff BY <2>1, <2>2, <2>3, <2>4, <2>5, UpdateMoves
  <2> QED BY <1>2, <2>1, <2>2, <2>6
<1>6. CASE GetSession(t)
  <2>1. k.pc = "read" /\ db' = db BY <1>6 DEF GetSession, Turn
  <2>2. a \in Sessions BY <1>1, <2>1, CallerKinds DEF QueueSound, ReconcilerSound, CompletionSound
  <2>3. \/ task' = [task EXCEPT ![t] = [k EXCEPT !.reply = "error"]]
        \/ task' = [task EXCEPT ![t] = [k EXCEPT !.reply = "ok", !.row = db[a]]]
    BY <1>1, <1>6 DEF GetSession, Answer
  <2>4. /\ \A u \in Tasks \ {t} : task'[u] = task[u]
        /\ task'[t] = [k EXCEPT !.reply = "error"] \/ task'[t] = [k EXCEPT !.reply = "ok", !.row = db[a]]
    BY <1>1, <2>3
  <2> QED BY <1>2, <2>1, <2>2, <2>4
<1> QED BY <1>3, <1>4, <1>5, <1>6 DEF Database

\* A task that is answered stays where it is.
LEMMA DatabaseTasks ==
  ASSUME PayInv, CustodyInv, NEW t \in Tasks, Database(t)
  PROVE  \A u \in Tasks : /\ task'[u].pc = task[u].pc /\ task'[u].s = task[u].s /\ task'[u].new = task[u].new
                          /\ task'[u].exp = task[u].exp
<1> DEFINE k == task[t]
<1>1. k \in TaskRec BY DEF PayInv, Shape
<1>2. CASE \E x \in {"ok", "no", "error"} : task'[t] = [k EXCEPT !.reply = x]
  <2>1. PICK x \in {"ok", "no", "error"} : task'[t] = [k EXCEPT !.reply = x] BY <1>2
  <2>2. task'[t].pc = k.pc /\ task'[t].s = k.s /\ task'[t].new = k.new /\ task'[t].exp = k.exp
    BY <1>1, <2>1, AnswerShape
  <2>3. \A u \in Tasks \ {t} : task'[u] = task[u] BY DatabaseMoves
  <2> QED BY <2>2, <2>3
<1>3. CASE task'[t] = [k EXCEPT !.reply = "ok", !.row = db[k.s]]
  <2>1. task'[t].pc = k.pc /\ task'[t].s = k.s /\ task'[t].new = k.new /\ task'[t].exp = k.exp
    BY <1>1, <1>3 DEF TaskRec
  <2>2. \A u \in Tasks \ {t} : task'[u] = task[u] BY DatabaseMoves
  <2> QED BY <2>1, <2>2
<1>4. \/ \E x \in {"ok", "no", "error"} : task'[t] = [k EXCEPT !.reply = x]
      \/ task'[t] = [k EXCEPT !.reply = "ok", !.row = db[k.s]]
  BY DatabaseMoves
<1> QED BY <1>2, <1>3, <1>4

\* A row that row2 replaces: no claim gets signed, and none becomes active again.
RowKept(row, row2) ==
  Signed(row2.claim) => /\ Signed(row.claim) /\ row2.claim.tx = row.claim.tx
                        /\ Active(row2) => Active(row)

\* Only the queue signs the claim of a row.
LEMMA RowsMove ==
  ASSUME PayInv, OutcomeInv, CustodyInv, [Next]_vars, NEW s \in Sessions
  PROVE  \/ RowKept(db[s], db'[s])
         \/ LET q == task[Queue] IN Flying(q) /\ s = q.s /\ db'[s].claim = q.new
                                    /\ \E t \in Tasks : Database(t)
<1> DEFINE q == task[Queue]
<1>1. db \in [Sessions -> RowRec] BY DEF PayInv, Shape
<1>2. \A row : RowKept(row, row) BY DEF RowKept
<1>3. ASSUME NEW t \in Tasks, Database(t)
      PROVE  RowKept(db[s], db'[s]) \/ (Flying(q) /\ s = q.s /\ db'[s].claim = q.new)
  <2> DEFINE k == task[t]
             a == k.s
  <2>1. CASE db' = db BY <1>2, <2>1
  <2>2. ASSUME NEW row2 \in RowRec, Rewrites(t, db[a], row2), db' = [db EXCEPT ![a] = row2], a \in Sessions
        PROVE  RowKept(db[s], db'[s]) \/ (Flying(q) /\ s = q.s /\ db'[s].claim = q.new)
    <3>1. db'[a] = row2 /\ (s # a => db'[s] = db[s]) BY <1>1, <2>2
    <3>2. CASE s # a BY <1>2, <3>1, <3>2
    <3>3. CASE s = a /\ k.pc = "create" /\ IsRequest(t) /\ row2.claim = k.new
      <4>1. RequestSound(k, db, claims) BY <3>3 DEF PayInv, TasksSound, TaskSound, IsRequest
      <4>2. ~Signed(row2.claim) BY <3>3, <4>1 DEF RequestSound, Signed
      <4> QED BY <3>1, <3>3, <4>2 DEF RowKept
    <3>4. CASE s = a /\ k.pc = "cas" /\ t = Queue /\ row2.claim = k.new
      <4>1. k.new.st \in {"prepared", "failed"} BY <3>4, QueueClaim DEF Writing
      <4>2. CASE k.new.st = "prepared" BY <3>1, <3>4, <4>2 DEF Flying, Writing
      <4>3. CASE k.new.st = "failed" BY <3>1, <3>4, <4>3 DEF RowKept, Signed
      <4> QED BY <4>1, <4>2, <4>3
    <3>5. ASSUME NEW u \in Sessions, t \in {Broadcast(u), Receipt(u)}, s = a, k.pc = "cas", row2.claim = k.new,
                 db[a].claim = k.exp
          PROVE  RowKept(db[s], db'[s])
      <4>1. t \in ReconcilerTasks(u) /\ t # Completion(u) BY <3>5, KindsDiffer DEF ReconcilerTasks
      <4>2. k.s = u /\ Carries(db[u], k.new) /\ IsActiveSigned(k.exp) BY <3>5, <4>1, ReconcilerClaim
      <4> QED BY <3>1, <3>5, <4>2 DEF RowKept, Carries, Agrees, Active, IsActiveSigned
    <3>6. CASE s = a /\ k.pc = "finalize" /\ row2.claim = db[a].claim BY <3>1, <3>6 DEF RowKept, Active
    <3> QED BY <2>2, <3>2, <3>3, <3>4, <3>5, <3>6, TransitionerKinds DEF Rewrites
  <2> QED BY <1>3, <2>1, <2>2, DatabaseMoves
<1>4. CASE \E u \in Sessions : TryTimeoutSession(u)
  <2>1. PICK u \in Sessions : db' = [db EXCEPT ![u].status = "failed"] BY <1>4 DEF TryTimeoutSession
  <2>2. db'[s].claim = db[s].claim BY <1>1, <2>1 DEF RowRec
  <2> QED BY <2>2 DEF RowKept, Active
<1>5. CASE (\E x \in pool : Mine(x)) \/ Dispose \/ UNCHANGED vars \/ Stop \/ Initialize
  <2>1. db' = db BY <1>5 DEF Mine, Dispose, Stop, Initialize, vars, durable
  <2> QED BY <1>2, <2>1
<1>6. CASE \E t \in Transitioners : TransitionRetry(t) BY <1>2, <1>6 DEF TransitionRetry, durable
<1>7. CASE \E r \in Requests : Create(r) \/ \E u \in Sessions : ClaimReward(r, u)
  <2>1. db' = db BY <1>7 DEF Create, RejectClaim, CreateClaim, ClaimCreated, ClaimReward, durable
  <2> QED BY <1>2, <2>1
<1>8. CASE ProcessQueue \/ RunQueue
  <2>1. db' = db BY <1>8 DEF ProcessQueue, RunQueue, ProcessQueueTx, PrepareClaimTx, PrepareFails, QueueAborted,
                             QueuePrepared, QueueFailed, QueueLost, QueueDone, QueueFrame, durable
  <2> QED BY <1>2, <2>1
<1>9. ASSUME NEW u \in Sessions, Rebroadcast(u) \/ AwaitReceipt(u) \/ Complete(u) PROVE RowKept(db[s], db'[s])
  <2>1. db' = db BY <1>9, ReconcilerEffect, CompletionEffect DEF ReconcilerStep
  <2> QED BY <1>2, <2>1
<1> QED BY <1>3, <1>4, <1>5, <1>6, <1>7, <1>8, <1>9 DEF Next

\* After a restart the queue is idle.
LEMMA RestartIdles ==
  ASSUME PayInv, Stop \/ Initialize
  PROVE  task'[Queue] = Off
<1>1. Queue \in Tasks BY AreTasks
<1>2. CASE Stop BY <1>1, <1>2 DEF Stop
<1>3. CASE Initialize
  <2>1. \A S \in SUBSET Sessions : Queue \notin {Broadcast(s) : s \in S} /\ Queue \notin {Receipt(s) : s \in S}
                                   /\ Queue \notin {Completion(s) : s \in S}
    BY KindsDiffer
  <2>2. \A st : Claiming(st) \in SUBSET Sessions BY DEF Claiming
  <2> QED BY <1>1, <1>3, <2>1, <2>2 DEF Initialize
<1> QED BY <1>2, <1>3

\* Where the queue may be after a step.
LEMMA QueueMoves ==
  ASSUME PayInv, OutcomeInv, CustodyInv, [Next]_vars
  PROVE  LET q == task[Queue]
             i == task'[Queue]
         IN /\ i.pc = "sign" => (q.pc = "sign" /\ i.s = q.s) \/ ProcessQueueTx
            /\ Flying(i) => (Flying(q) /\ i.s = q.s /\ i.new = q.new) \/ PrepareClaimTx
<1> DEFINE q == task[Queue]
           i == task'[Queue]
           goal == /\ i.pc = "sign" => (q.pc = "sign" /\ i.s = q.s) \/ ProcessQueueTx
                   /\ Flying(i) => (Flying(q) /\ i.s = q.s /\ i.new = q.new) \/ PrepareClaimTx
<1>1. Queue \in Tasks /\ task \in [Tasks -> TaskRec] BY AreTasks DEF PayInv, Shape
<1>2. CASE i = q BY <1>2
<1>3. CASE i.pc = q.pc /\ i.s = q.s /\ i.new = q.new BY <1>3 DEF Flying, Writing
<1>4. CASE i.pc \notin {"sign", "cas", "read"} BY <1>4 DEF Flying, Writing
<1>5. CASE \E t \in Tasks : Database(t) BY <1>1, <1>3, <1>5, DatabaseTasks
<1>6. ASSUME NEW t \in Transitioners, TransitionRetry(t) PROVE goal
  <2>1. t \in Tasks /\ \E j \in TaskRec : /\ task' = [task EXCEPT ![t] = j]
                                  /\ j.pc \in {"cas", "read"} /\ j.s = task[t].s /\ j.new = task[t].new
        /\ task[t].pc \in {"cas", "read"}
    BY <1>6, RetryEffect
  <2>2. CASE t = Queue BY <1>1, <2>1, <2>2 DEF Flying, Writing
  <2>3. CASE t # Queue BY <1>1, <1>2, <2>1, <2>3
  <2> QED BY <2>2, <2>3
<1>7. ASSUME NEW r \in Requests, Create(r) \/ \E s \in Sessions : ClaimReward(r, s) PROVE goal
  <2>1. \E j : task' = [task EXCEPT ![Request(r)] = j]
    BY <1>7 DEF Create, RejectClaim, CreateClaim, ClaimCreated, ClaimReward, Goto
  <2>2. i = q BY <1>1, <2>1, KindsDiffer
  <2> QED BY <1>2, <2>2
<1>8. CASE (\E x \in pool : Mine(x)) \/ Dispose \/ UNCHANGED vars \/ \E s \in Sessions : TryTimeoutSession(s)
  <2>1. task' = task BY <1>8 DEF Mine, Dispose, TryTimeoutSession, vars
  <2> QED BY <1>2, <2>1
<1>9. CASE Stop \/ Initialize BY <1>4, <1>9, RestartIdles, Constants
<1>10. ASSUME NEW s \in Sessions, Rebroadcast(s) \/ AwaitReceipt(s) \/ Complete(s) PROVE goal
  <2>1. PICK c : ReconcilerStep(s, c) BY <1>10, ReconcilerEffect, CompletionEffect
  <2>2. i = q BY <1>1, <2>1, KindsDiffer DEF ReconcilerStep, Moved, ReconcilerTasks
  <2> QED BY <1>2, <2>2
<1>11. CASE ProcessQueue \/ QueueAborted \/ QueueDone \/ QueueFailed
  <2>1. task' = [task EXCEPT ![Queue] = Off] \/ task' = [task EXCEPT ![Queue] = At("loop", NoSession)]
    BY <1>11 DEF ProcessQueue, QueueAborted, QueueDone, QueueFailed, Goto
  <2>2. i = Off \/ i = At("loop", NoSession) BY <1>1, <2>1
  <2> QED BY <1>4, <2>2, Constants, Carried
<1>12. CASE QueuePrepared \/ QueueLost
  <2>1. i = Off \/ i = At("loop", NoSession)
    <3>1. task[Queue].pc \in {"cas", "read"} BY <1>12 DEF QueuePrepared, QueueLost, Over
    <3>2. q.s \in Sessions BY <3>1, QueueClaim
    <3>3. Broadcast(q.s) # Queue /\ Receipt(q.s) # Queue /\ Completion(q.s) # Queue BY <3>2, KindsDiffer
    <3>4. CASE QueuePrepared BY <1>1, <3>3, <3>4 DEF QueuePrepared, Goto
    <3>5. CASE QueueLost
      <4> DEFINE j == IF Outcome(q) = "threw" THEN Off ELSE At("loop", NoSession)
                 tasks == [task EXCEPT ![Queue] = j]
      <4>1. task' = Reconciled(tasks, q.s, Observed(q)) BY <3>5 DEF QueueLost
      <4>2. tasks[Queue] = j BY <1>1
      <4>3. DOMAIN tasks = Tasks BY <1>1
      <4> HIDE DEF tasks
      <4>4. i = tasks[Queue] BY <1>1, <3>3, <4>1, <4>3 DEF Reconciled, Completing
      <4> QED BY <4>2, <4>4
    <3> QED BY <1>12, <3>4, <3>5
  <2> QED BY <1>4, <2>1, Constants, Carried
<1>13. CASE ProcessQueueTx
  <2>1. PICK s \in Sessions :
          \/ task' = [task EXCEPT ![Queue] = At("loop", NoSession)]
          \/ task' = [task EXCEPT ![Queue] = At("sign", s)]
          \/ task' = [task EXCEPT ![Queue] = CasCall(s, claims[s], WithStatus(claims[s], "failed"))]
    BY <1>13 DEF ProcessQueueTx, Goto
  <2>2. i \in {At("loop", NoSession), At("sign", s), CasCall(s, claims[s], WithStatus(claims[s], "failed"))}
    BY <1>1, <2>1
  <2>3. claims[s] \in ClaimRec BY DEF PayInv, Shape
  <2>4. WithStatus(claims[s], "failed").st = "failed" BY <2>3, ClaimShape DEF ClaimTxStatus
  <2>5. ~Flying(i) BY <2>2, <2>4, Carried DEF Flying, Writing
  <2> QED BY <1>13, <2>5
<1>14. CASE PrepareFails \/ PrepareClaimTx
  <2>1. q.pc = "sign" /\ q.s \in Sessions BY <1>14, QueueClaim DEF PrepareFails, PrepareClaimTx
  <2>2. claims[q.s] \in ClaimRec BY <2>1 DEF PayInv, Shape
  <2>3. WithStatus(claims[q.s], "failed").st = "failed" BY <2>2, ClaimShape DEF ClaimTxStatus
  <2>4. PICK d : i = CasCall(q.s, claims[q.s], d) /\ (PrepareFails => d.st = "failed")
    <3>1. CASE PrepareFails BY <1>1, <2>3, <3>1 DEF PrepareFails, Goto
    <3>2. CASE PrepareClaimTx /\ ~PrepareFails BY <1>1, <3>2 DEF PrepareClaimTx, Goto
    <3> QED BY <1>14, <3>1, <3>2
  <2>5. i.pc = "cas" /\ i.new = d BY <2>4, Carried
  <2> QED BY <1>14, <2>4, <2>5 DEF Flying
<1> QED BY <1>5, <1>6, <1>7, <1>8, <1>9, <1>10, <1>11, <1>12, <1>13, <1>14 DEF Next, RunQueue

-----------------------------------------------------------------------------
(* ethMaxPending.                                                          *)

\* Slots belong to sessions.
LEMMA SlotsAreSessions ==
  ASSUME PayInv, OutcomeInv, CustodyInv, [Next]_vars, pending \subseteq Sessions
  PROVE  pending' \subseteq Sessions
<1>1. CASE \E t \in Tasks : Database(t) BY <1>1, DatabaseMoves DEF DbFrame, memory
<1>2. CASE \E t \in Transitioners : TransitionRetry(t) BY <1>2 DEF TransitionRetry
<1>3. CASE \E r \in Requests : Create(r) \/ \E s \in Sessions : ClaimReward(r, s)
  BY <1>3 DEF Create, RejectClaim, CreateClaim, ClaimCreated, ClaimReward, memory
<1>4. CASE ProcessQueue \/ ProcessQueueTx \/ PrepareClaimTx \/ PrepareFails \/ QueueAborted \/ QueueFailed \/ QueueDone
  BY <1>4 DEF ProcessQueue, ProcessQueueTx, PrepareClaimTx, PrepareFails, QueueAborted, QueueFailed, QueueDone,
              memory
<1>5. CASE QueuePrepared
  <2>1. task[Queue].s \in Sessions BY <1>5, QueueClaim DEF QueuePrepared, Over
  <2> QED BY <1>5, <2>1 DEF QueuePrepared
<1>6. CASE QueueLost BY <1>6 DEF QueueLost, ReconcileTerminal
<1>7. ASSUME NEW s \in Sessions, Rebroadcast(s) \/ AwaitReceipt(s) \/ Complete(s) PROVE pending' \subseteq Sessions
  <2>1. PICK c : ReconcilerStep(s, c) BY <1>7, ReconcilerEffect, CompletionEffect
  <2> QED BY <2>1 DEF ReconcilerStep
<1>8. CASE (\E x \in pool : Mine(x)) \/ Dispose \/ UNCHANGED vars \/ \E s \in Sessions : TryTimeoutSession(s)
  BY <1>8 DEF Mine, Dispose, TryTimeoutSession, vars, memory
<1>9. CASE Stop \/ Initialize BY <1>9 DEF Stop, Initialize, Claiming
<1> QED BY <1>1, <1>2, <1>3, <1>4, <1>5, <1>6, <1>7, <1>8, <1>9 DEF Next, RunQueue

\* Every step keeps the bound: a claim is put in flight only by ProcessQueueTx, which has counted the slots.
LEMMA StepBounded ==
  ASSUME PayInv, OutcomeInv, CustodyInv, ClaimAssumption, SlotInv, [Next]_vars
  PROVE  SlotInv'
<1> DEFINE q == task[Queue]
<1>1. pending' \subseteq Sessions BY SlotsAreSessions DEF SlotInv
<1>2. IsFiniteSet(Sessions) /\ EthMaxPending \in Nat BY DEF ClaimAssumption
<1>3. InFlight \subseteq Sessions /\ InFlight' \subseteq Sessions BY DEF InFlight
<1>4. ASSUME NEW S, S \subseteq Sessions PROVE IsFiniteSet(S) /\ Cardinality(S) \in Nat
  BY <1>2, <1>4, FS_Subset, FS_CardinalityType
<1>5. ASSUME NEW S, NEW T, S \subseteq T, T \subseteq Sessions PROVE Cardinality(S) <= Cardinality(T)
  BY <1>4, <1>5, FS_Subset
<1>6. \A s \in Sessions : Active(db'[s]) => Active(db[s]) \/ (s = q.s /\ Flying(q))
  <2> TAKE s \in Sessions
  <2> HAVE Active(db'[s])
  <2>1. Signed(db'[s].claim) BY DEF Active, Signed
  <2> QED BY <2>1, RowsMove DEF RowKept
<1>7. CASE ~ProcessQueueTx
  <2>1. ASSUME NEW s \in InFlight' PROVE s \in InFlight
    <3>1. s \in Sessions BY <1>3
    <3>2. CASE Active(db'[s]) BY <1>6, <3>1, <3>2 DEF InFlight
    <3>3. CASE s = task'[Queue].s /\ task'[Queue].pc = "sign" BY <1>7, <3>1, <3>3, QueueMoves DEF InFlight
    <3>4. CASE s = task'[Queue].s /\ Flying(task'[Queue])
      <4>1. CASE PrepareClaimTx
        <5>1. q.pc = "sign" /\ q.s \in Sessions BY <4>1, QueueClaim DEF PrepareClaimTx
        <5>2. PICK d : task'[Queue] = CasCall(q.s, claims[q.s], d)
          BY <4>1, AreTasks DEF PrepareClaimTx, Goto, PayInv, Shape
        <5>3. CasCall(q.s, claims[q.s], d).s = q.s BY DEF CasCall, At
        <5> QED BY <3>1, <3>4, <5>1, <5>2, <5>3 DEF InFlight
      <4>2. CASE ~PrepareClaimTx BY <3>1, <3>4, <4>2, QueueMoves DEF InFlight
      <4> QED BY <4>1, <4>2
    <3>5. /\ Flying(task[Queue])' <=> Flying(task'[Queue])
      BY DEF Flying, Writing
    <3> QED BY <3>2, <3>3, <3>4, <3>5 DEF InFlight, Active
  <2>2. Cardinality(InFlight') <= Cardinality(InFlight) BY <1>3, <1>5, <2>1
  <2>3. Cardinality(InFlight) \in Nat /\ Cardinality(InFlight') \in Nat BY <1>3, <1>4
  <2> QED BY <1>1, <1>2, <2>2, <2>3 DEF SlotInv
<1>8. CASE ProcessQueueTx
  <2>1. PICK s \in Sessions :
          /\ Up /\ q.pc = "loop" /\ ~QueueBlocked /\ UNCHANGED db
          /\ \/ task' = [task EXCEPT ![Queue] = At("loop", NoSession)]
             \/ task' = [task EXCEPT ![Queue] = At("sign", s)]
             \/ task' = [task EXCEPT ![Queue] = CasCall(s, claims[s], WithStatus(claims[s], "failed"))]
    BY <1>8 DEF ProcessQueueTx, Goto, QueueFrame, durable
  <2>2. task'[Queue].s \in {s, NoSession}
    <3>1. At("loop", NoSession).s = NoSession /\ At("sign", s).s = s
          /\ CasCall(s, claims[s], WithStatus(claims[s], "failed")).s = s
      BY DEF At, CasCall
    <3> QED BY <2>1, <3>1, AreTasks DEF PayInv, Shape
  <2>3. \A u \in Sessions : Active(db[u]) => u \in pending
    BY <2>1 DEF CustodyInv, Custody, RowHeld, Writing
  <2>4. InFlight' \subseteq pending \union {s}
    <3>1. NoSession \notin Sessions BY DEF ClaimAssumption
    <3> QED BY <2>1, <2>2, <2>3, <3>1 DEF InFlight, Active
  <2>5. Cardinality(pending) < EthMaxPending
    <3>1. pending \subseteq Sessions BY DEF SlotInv
    <3>2. Cardinality(pending) \in Nat BY <1>4, <3>1
    <3> QED BY <1>2, <2>1, <3>2 DEF QueueBlocked
  <2>6. Cardinality(pending \union {s}) <= Cardinality(pending) + 1 /\ Cardinality(pending) \in Nat
    <3>1. pending \subseteq Sessions BY DEF SlotInv
    <3>2. IsFiniteSet(pending) /\ Cardinality(pending) \in Nat BY <1>4, <3>1
    <3>3. Cardinality(pending \union {s}) = IF s \in pending THEN Cardinality(pending) ELSE Cardinality(pending) + 1
      BY <3>2, FS_AddElement, Zenon
    <3> QED BY <3>2, <3>3
  <2>7. pending \union {s} \subseteq Sessions BY DEF SlotInv
  <2>8. Cardinality(InFlight') <= Cardinality(pending \union {s}) BY <1>5, <2>4, <2>7
  <2>9. Cardinality(InFlight') \in Nat /\ Cardinality(pending \union {s}) \in Nat BY <1>3, <1>4, <2>7
  <2> QED BY <1>1, <1>2, <2>5, <2>6, <2>8, <2>9 DEF SlotInv
<1> QED BY <1>7, <1>8

\* Initially nothing is in flight.
LEMMA InitBounded == Init /\ ClaimAssumption => SlotInv
<1> SUFFICES ASSUME Init, ClaimAssumption PROVE SlotInv OBVIOUS
<1>1. pending = {} BY DEF Init
<1>2. InFlight = {}
  <2>1. task[Queue].pc = "off" BY AreTasks, Constants DEF Init
  <2>2. \A s \in Sessions : ~Active(db[s]) BY DEF Init, Active, NoClaim
  <2> QED BY <2>1, <2>2 DEF InFlight, Flying, Writing
<1> QED BY <1>1, <1>2, FS_EmptySet DEF SlotInv, ClaimAssumption

\* The slots of pendingTxQueue and the claim under way bound the signed claims that are not settled.
THEOREM SlotInvariance == Spec => []SlotInv
<1>1. PayInv /\ OutcomeInv /\ CustodyInv /\ SlotInv /\ [Next]_vars => SlotInv' BY StepBounded, ClaimAssumption
<1>2. Init => SlotInv BY InitBounded, ClaimAssumption
<1> QED BY CustodyInvariance, <1>1, <1>2, PTL DEF Spec

\* ethMaxPending bounds the signed claims in flight, across crashes, restarts and lost acknowledgements.
THEOREM InFlightBounded == Spec => []InFlightBound
<1>1. SlotInv => InFlightBound
  <2> SUFFICES ASSUME SlotInv PROVE InFlightBound OBVIOUS
  <2>1. Claiming({"prepared", "pending"}) \subseteq InFlight /\ InFlight \subseteq Sessions
    BY DEF Claiming, InFlight, Active
  <2>2. IsFiniteSet(Sessions) /\ EthMaxPending \in Nat BY ClaimAssumption DEF ClaimAssumption
  <2>3. IsFiniteSet(InFlight) BY <2>1, <2>2, FS_Subset
  <2>4. /\ IsFiniteSet(Claiming({"prepared", "pending"}))
        /\ Cardinality(Claiming({"prepared", "pending"})) <= Cardinality(InFlight)
    BY <2>1, <2>3, FS_Subset
  <2>5. Cardinality(InFlight) \in Nat /\ Cardinality(Claiming({"prepared", "pending"})) \in Nat
    BY <2>3, <2>4, FS_CardinalityType
  <2> QED BY <2>2, <2>4, <2>5 DEF SlotInv, InFlightBound
<1> QED BY SlotInvariance, <1>1, PTL

-----------------------------------------------------------------------------
(* Nonces, over endpoints that know every mined transaction.               *)

\* The steps that touch the wallet's nonce.
LEMMA WalletMoves ==
  ASSUME PayInv, OutcomeInv, CustodyInv, [Next]_vars
  PROVE  (UNCHANGED <<nonce, ready>> /\ (Up' => Up)) \/ PrepareClaimTx \/ QueueDone \/ Stop \/ Initialize
<1>1. CASE \E t \in Tasks : Database(t) BY <1>1, DatabaseMoves DEF DbFrame, wallet, Up
<1>2. CASE \E t \in Transitioners : TransitionRetry(t) BY <1>2 DEF TransitionRetry, wallet, Up
<1>3. CASE \E r \in Requests : Create(r) \/ \E s \in Sessions : ClaimReward(r, s)
  BY <1>3 DEF Create, RejectClaim, CreateClaim, ClaimCreated, ClaimReward, wallet, Up
<1>4. CASE ProcessQueue \/ ProcessQueueTx \/ PrepareFails \/ QueueAborted \/ QueueFailed \/ QueuePrepared \/ QueueLost
  BY <1>4 DEF ProcessQueue, ProcessQueueTx, PrepareFails, QueueAborted, QueueFailed, QueuePrepared, QueueLost,
              wallet, QueueFrame, Up
<1>5. ASSUME NEW s \in Sessions, Rebroadcast(s) \/ AwaitReceipt(s) \/ Complete(s)
      PROVE  UNCHANGED <<nonce, ready>> /\ (Up' => Up)
  <2>1. PICK c : ReconcilerStep(s, c) BY <1>5, ReconcilerEffect, CompletionEffect
  <2> QED BY <2>1 DEF ReconcilerStep, Up
<1>6. CASE (\E x \in pool : Mine(x)) \/ Dispose \/ UNCHANGED vars \/ \E s \in Sessions : TryTimeoutSession(s)
  BY <1>6 DEF Mine, Dispose, TryTimeoutSession, vars, wallet, Up
<1> QED BY <1>1, <1>2, <1>3, <1>4, <1>5, <1>6 DEF Next, RunQueue

\* A settled claim has used its nonce.
LEMMA SettledIsMined ==
  ASSUME PayInv, OutcomeInv, NEW s \in Sessions, Signed(db[s].claim), ~Active(db[s])
  PROVE  db[s].claim.tx.nonce < chainNonce
<1>1. db[s].claim.st \in {"confirmed", "reverted"} BY DEF Signed, Active
<1>2. Evident(db[s].claim, mined) BY DEF OutcomeInv, RowsTrue, RowTrue
<1>3. PICK m \in mined : m.tx = db[s].claim.tx BY <1>1, <1>2 DEF Evident
<1> QED BY <1>3 DEF PayInv, ChainSound

\* loadWalletState, when it succeeds, goes past the chain and past every reservation.
LEMMA LoadedAhead ==
  ASSUME PayInv, RpcLag = 0, NEW txs, txs \subseteq TxRec, NEW f, LoadWalletState(txs, f), ready'
  PROVE  nonce' \in Nat /\ nonce' >= chainNonce /\ \A x \in txs : nonce' >= x.nonce + 1
<1>1. PICK n \in 0 .. MaxSigned : RpcCount(n) /\ nonce' \in NonceAbove(n, txs)
  BY DEF LoadWalletState
<1>2. n \in Nat /\ chainNonce \in Nat BY <1>1 DEF PayInv, ChainSound
<1>3. n >= chainNonce BY <1>1, <1>2 DEF RpcCount
<1>4. nonce' \in Nat /\ nonce' >= n /\ \A x \in txs : nonce' >= x.nonce + 1
  BY <1>1, <1>2 DEF NonceAbove, TxRec
<1> QED BY <1>2, <1>3, <1>4

\* After a reload every signed row is below the nonce.
LEMMA ReloadedAhead ==
  ASSUME PayInv, OutcomeInv, RpcLag = 0, NEW txs, txs \subseteq TxRec, NEW f, LoadWalletState(txs, f), ready',
         UNCHANGED db, \A s \in Sessions : Active(db[s]) => db[s].claim.tx \in txs, ~Flying(task'[Queue])
  PROVE  NonceAhead'
<1>1. nonce' \in Nat /\ nonce' >= chainNonce /\ \A x \in txs : nonce' >= x.nonce + 1 BY LoadedAhead
<1>2. ASSUME NEW s \in Sessions, Signed(db[s].claim) PROVE db[s].claim.tx.nonce < nonce'
  <2>1. chainNonce \in Nat BY DEF PayInv, ChainSound
  <2>2. db[s].claim.tx.nonce \in Nat BY DEF PayInv, Shape, RowRec, ClaimRec, TxRec
  <2>3. CASE Active(db[s]) BY <1>1, <2>2, <2>3
  <2>4. CASE ~Active(db[s])
    <3>1. db[s].claim.tx.nonce < chainNonce BY <1>2, <2>4, SettledIsMined
    <3> QED BY <1>1, <2>1, <2>2, <3>1
  <2> QED BY <2>3, <2>4
<1> QED BY <1>2 DEF NonceAhead, Flying, Writing, Signed

\* Every step keeps the nonces apart.
LEMMA StepApart ==
  ASSUME PayInv, PayInv', OutcomeInv, CustodyInv, NonceInv, RpcLag = 0, [Next]_vars
  PROVE  NonceInv'
<1> DEFINE q == task[Queue]
           i == task'[Queue]
<1>1. NoncesApart /\ FlyingApart /\ (q.pc = "sign" => ready) /\ (Up /\ ready => NonceAhead) BY DEF NonceInv
<1>2. Queue \in Tasks /\ task \in [Tasks -> TaskRec] /\ nonce \in Nat /\ signed \in Nat
      /\ claims \in [Sessions -> ClaimRec] /\ db \in [Sessions -> RowRec] /\ reserved \subseteq TxRec
  BY AreTasks DEF PayInv, Shape
<1>3. \A s \in Sessions : Signed(db'[s].claim) =>
         \/ Signed(db[s].claim) /\ db'[s].claim.tx = db[s].claim.tx
         \/ Flying(q) /\ s = q.s /\ db'[s].claim = q.new
  BY RowsMove DEF RowKept
<1>4. NoncesApart'
  <2> SUFFICES ASSUME NEW a \in Sessions, NEW b \in Sessions, Signed(db'[a].claim), Signed(db'[b].claim),
                      db'[a].claim.tx.nonce = db'[b].claim.tx.nonce, a # b
               PROVE  FALSE
    BY DEF NoncesApart, Signed
  <2>1. CASE Signed(db[a].claim) /\ db'[a].claim.tx = db[a].claim.tx
    <3>1. CASE Signed(db[b].claim) /\ db'[b].claim.tx = db[b].claim.tx BY <1>1, <2>1, <3>1 DEF NoncesApart
    <3>2. CASE Flying(q) /\ b = q.s /\ db'[b].claim = q.new BY <1>1, <2>1, <3>2 DEF FlyingApart
    <3> QED BY <1>3, <3>1, <3>2
  <2>2. CASE Flying(q) /\ a = q.s /\ db'[a].claim = q.new
    <3>1. Signed(db[b].claim) /\ db'[b].claim.tx = db[b].claim.tx BY <1>3, <2>2
    <3> QED BY <1>1, <2>2, <3>1 DEF FlyingApart
  <2> QED BY <1>3, <2>1, <2>2
<1>5. CASE PrepareClaimTx
  <2> DEFINE x == [s |-> q.s, nonce |-> nonce, sig |-> signed + 1]
  <2>1. /\ Up /\ q.pc = "sign" /\ nonce' = nonce + 1 /\ UNCHANGED <<db, ready>>
        /\ task' = [task EXCEPT ![Queue] = CasCall(q.s, claims[q.s], WithTx(claims[q.s], x))]
    BY <1>5 DEF PrepareClaimTx, QueueFrame, durable, Goto
  <2>2. q.s \in Sessions BY <2>1, QueueClaim
  <2>3. x \in TxRec /\ x.nonce = nonce BY <1>2, <2>2 DEF TxRec
  <2>4. i = CasCall(q.s, claims[q.s], WithTx(claims[q.s], x)) BY <1>2, <2>1
  <2>5. WithTx(claims[q.s], x).tx = x BY <1>2, <2>2, <2>3, ClaimShape
  <2>6. i.new.tx.nonce = nonce /\ i.pc = "cas" BY <2>3, <2>4, <2>5, Carried
  <2>7. NonceAhead BY <1>1, <2>1
  <2>8. \A s \in Sessions : Signed(db[s].claim) => db[s].claim.tx.nonce < nonce /\ db[s].claim.tx.nonce \in Nat
    BY <1>2, <2>7 DEF NonceAhead, RowRec, ClaimRec, TxRec
  <2>9. FlyingApart' BY <1>2, <2>1, <2>6, <2>8 DEF FlyingApart, Signed
  <2>10. NonceAhead' BY <1>2, <2>1, <2>6, <2>8 DEF NonceAhead, Signed
  <2> QED BY <1>4, <2>6, <2>9, <2>10 DEF NonceInv
<1>6. CASE ~PrepareClaimTx
  <2>1. Flying(i) => Flying(q) /\ i.s = q.s /\ i.new = q.new BY <1>6, QueueMoves
  <2>2. Flying(task[Queue])' <=> Flying(i) BY DEF Flying, Writing
  <2>3. FlyingApart'
    <3> SUFFICES ASSUME Flying(i), NEW b \in Sessions, Signed(db'[b].claim), b # i.s
                 PROVE  db'[b].claim.tx.nonce # i.new.tx.nonce
      BY <2>2 DEF FlyingApart, Signed
    <3>1. Signed(db[b].claim) /\ db'[b].claim.tx = db[b].claim.tx BY <1>3, <2>1
    <3> QED BY <1>1, <2>1, <3>1 DEF FlyingApart
  <2>4. CASE UNCHANGED <<nonce, ready>> /\ (Up' => Up)
    <3>1. ASSUME Up', ready' PROVE NonceAhead'
      <4>1. NonceAhead BY <1>1, <2>4, <3>1
      <4>2. ASSUME NEW s \in Sessions, Signed(db'[s].claim) PROVE db'[s].claim.tx.nonce < nonce'
        BY <1>3, <2>4, <4>1, <4>2 DEF NonceAhead
      <4>3. Flying(i) => i.new.tx.nonce < nonce' BY <2>1, <2>4, <4>1 DEF NonceAhead
      <4> QED BY <2>2, <4>2, <4>3 DEF NonceAhead, Signed
    <3>2. i.pc = "sign" => ready'
      <4>1. CASE q.pc = "sign" BY <1>1, <2>4, <4>1
      <4>2. CASE ProcessQueueTx
        <5>1. PICK s \in Sessions :
                task' = [task EXCEPT ![Queue] = IF claims[s].st # "queue" THEN At("loop", NoSession)
                    ELSE IF ready THEN At("sign", s)
                    ELSE CasCall(s, claims[s], WithStatus(claims[s], "failed"))]
          BY <4>2 DEF ProcessQueueTx, Goto
        <5>2. i = IF claims[s].st # "queue" THEN At("loop", NoSession)
                    ELSE IF ready THEN At("sign", s)
                    ELSE CasCall(s, claims[s], WithStatus(claims[s], "failed"))
          BY <1>2, <5>1
        <5>3. At("loop", NoSession).pc = "loop" /\ CasCall(s, claims[s], WithStatus(claims[s], "failed")).pc = "cas"
          BY Carried
        <5> QED BY <2>4, <5>2, <5>3
      <4> QED BY <4>1, <4>2, QueueMoves
    <3> QED BY <1>4, <2>3, <3>1, <3>2 DEF NonceInv
  <2>5. CASE QueueDone /\ ~UNCHANGED <<nonce, ready>>
    <3>1. /\ Up /\ q.pc = "loop" /\ LoadWalletState(reserved, {0}) /\ UNCHANGED db
          /\ task' = [task EXCEPT ![Queue] = Off]
      BY <2>5 DEF QueueDone, Goto, QueueFrame, durable
    <3>2. i.pc = "off" BY <1>2, <3>1, Constants
    <3>3. \A s \in Sessions : Active(db[s]) => db[s].claim.tx \in reserved
      BY <3>1 DEF CustodyInv, Custody, RowHeld
    <3>4. ready' => NonceAhead' BY <1>2, <3>1, <3>2, <3>3, ReloadedAhead DEF Flying, Writing
    <3> QED BY <1>4, <2>3, <3>2, <3>4 DEF NonceInv
  <2>6. CASE Stop
    <3>1. i.pc = "off" /\ ~Up' BY <2>6, RestartIdles, Constants DEF Stop, Up
    <3> QED BY <1>4, <2>3, <3>1 DEF NonceInv
  <2>7. CASE Initialize
    <3> DEFINE txs == {db[s].claim.tx : s \in Claiming({"prepared", "pending"})}
    <3>1. i.pc = "off" BY <2>7, RestartIdles, Constants
    <3>2. LoadWalletState(txs, NonceAbove(0, txs)) /\ UNCHANGED db BY <2>7 DEF Initialize, durable
    <3>3. txs \subseteq TxRec BY <1>2 DEF Claiming, RowRec, ClaimRec
    <3>4. \A s \in Sessions : Active(db[s]) => db[s].claim.tx \in txs BY ActiveIsClaiming DEF Claiming, Active
    <3> HIDE DEF txs
    <3>5. ready' => NonceAhead' BY <3>1, <3>2, <3>3, <3>4, ReloadedAhead DEF Flying, Writing
    <3> QED BY <1>4, <2>3, <3>1, <3>5 DEF NonceInv
  <2>8. CASE QueueDone /\ UNCHANGED <<nonce, ready>>
    <3>1. Up' => Up BY <2>8 DEF QueueDone, QueueFrame, Up
    <3> QED BY <2>4, <2>8, <3>1
  <2> QED BY <1>6, <2>4, <2>5, <2>6, <2>7, <2>8, WalletMoves
<1> QED BY <1>5, <1>6

\* Initially nothing is signed.
LEMMA InitApart == Init => NonceInv
<1> SUFFICES ASSUME Init PROVE NonceInv OBVIOUS
<1>1. task[Queue].pc = "off" BY AreTasks, Constants DEF Init
<1>2. \A s \in Sessions : ~Signed(db[s].claim) BY DEF Init, Signed, NoClaim
<1>3. ~Up BY DEF Init, Up
<1> QED BY <1>1, <1>2, <1>3 DEF NonceInv, NoncesApart, FlyingApart, Flying, Writing

\* Over endpoints that know every mined transaction, no two signed claims of the table share a nonce,
\* through crashes, reloads of the wallet and lost acknowledgements.
THEOREM NonceInvariance == RpcLag = 0 /\ Spec => []NonceInv
<1>1. ASSUME RpcLag = 0 PROVE PayInv /\ PayInv' /\ OutcomeInv /\ CustodyInv /\ NonceInv /\ [Next]_vars => NonceInv'
  BY <1>1, StepApart
<1>2. CASE RpcLag = 0
  <2>1. PayInv /\ PayInv' /\ OutcomeInv /\ CustodyInv /\ NonceInv /\ [Next]_vars => NonceInv' BY <1>1, <1>2
  <2> QED BY CustodyInvariance, InitApart, <2>1, PTL DEF Spec
<1> QED BY <1>2

\* The nonce of a signed claim is not signed again for another session.
THEOREM NonceUsedOnce == RpcLag = 0 /\ Spec => []NoNonceReuse
<1>1. NonceInv => NoNonceReuse BY DEF NonceInv, NoncesApart, NoNonceReuse, Claiming, Signed
<1> QED BY NonceInvariance, <1>1, PTL

-----------------------------------------------------------------------------
(* Statistics, over replies that come in order.                            *)

\* A session is owned again only by its handler or after a restart.
LEMMA DictMoves ==
  ASSUME PayInv, OutcomeInv, CustodyInv, [Next]_vars, NEW u \in Sessions, u \notin dict, u \in dict'
  PROVE  Unreported(u) \/ Initialize
<1>1. CASE \E t \in Tasks : Database(t) BY <1>1, DatabaseMoves DEF DbFrame, memory
<1>2. CASE \E t \in Transitioners : TransitionRetry(t) BY <1>2 DEF TransitionRetry
<1>3. ASSUME NEW r \in Requests, Create(r) \/ \E s \in Sessions : ClaimReward(r, s) PROVE Unreported(u)
  <2>1. ClaimCreated(r) BY <1>3 DEF Create, RejectClaim, CreateClaim, ClaimReward, memory
  <2> QED BY <2>1 DEF ClaimCreated, Unreported, Wrote
<1>4. CASE ProcessQueue \/ RunQueue
  BY <1>4 DEF ProcessQueue, RunQueue, ProcessQueueTx, PrepareClaimTx, PrepareFails, QueueAborted, QueuePrepared,
              QueueFailed, QueueLost, QueueDone, ReconcileTerminal, memory
<1>5. ASSUME NEW s \in Sessions, Rebroadcast(s) \/ AwaitReceipt(s) \/ Complete(s) PROVE FALSE
  <2>1. PICK c : ReconcilerStep(s, c) BY <1>5, ReconcilerEffect, CompletionEffect
  <2> QED BY <2>1 DEF ReconcilerStep
<1>6. CASE (\E x \in pool : Mine(x)) \/ Dispose \/ UNCHANGED vars \/ Stop \/ \E s \in Sessions : TryTimeoutSession(s)
  BY <1>6 DEF Mine, Dispose, Stop, TryTimeoutSession, vars, memory
<1> QED BY <1>1, <1>2, <1>3, <1>4, <1>5, <1>6 DEF Next

\* Only a receipt, a restart or the reconciliation of an owned claim starts a completion.
LEMMA CompletionMoves ==
  ASSUME PayInv, OutcomeInv, CustodyInv, [Next]_vars, NEW u \in Sessions,
         task[Completion(u)].pc = "off", task'[Completion(u)].pc # "off"
  PROVE  \/ u \in dict
         \/ Initialize /\ db[u].status = "claiming"
         \/ ReceiptSettled(u) /\ task[Receipt(u)].new.st = "confirmed"
<1> DEFINE f == Completion(u)
<1>1. f \in Tasks /\ task \in [Tasks -> TaskRec] BY AreTasks DEF PayInv, Shape
<1>2. CASE \E t \in Tasks : Database(t) BY <1>1, <1>2, DatabaseTasks
<1>3. ASSUME NEW t \in Transitioners, TransitionRetry(t) PROVE FALSE
  <2>1. t # f BY <1>3, TransitionerKinds, KindsDiffer
  <2>2. \E j : task' = [task EXCEPT ![t] = j] BY <1>3, RetryEffect
  <2> QED BY <1>1, <2>1, <2>2
<1>4. ASSUME NEW r \in Requests, Create(r) \/ \E s \in Sessions : ClaimReward(r, s) PROVE FALSE
  <2>1. \E j : task' = [task EXCEPT ![Request(r)] = j]
    BY <1>4 DEF Create, RejectClaim, CreateClaim, ClaimCreated, ClaimReward, Goto
  <2> QED BY <1>1, <2>1, KindsDiffer
<1>5. CASE (\E x \in pool : Mine(x)) \/ Dispose \/ UNCHANGED vars \/ \E s \in Sessions : TryTimeoutSession(s)
  BY <1>5 DEF Mine, Dispose, TryTimeoutSession, vars
<1>6. CASE Stop BY <1>1, <1>6, Constants DEF Stop
<1>7. CASE Initialize
  <2>1. f \in {Completion(s) : s \in Claiming({"confirmed"})}
    <3>1. \A S \in SUBSET Sessions : f \notin {Broadcast(s) : s \in S} /\ f \notin {Receipt(s) : s \in S}
      BY KindsDiffer
    <3>2. \A st : Claiming(st) \in SUBSET Sessions BY DEF Claiming
    <3> QED BY <1>1, <1>7, <3>1, <3>2, Constants DEF Initialize
  <2>2. u \in Claiming({"confirmed"}) BY <2>1, TasksDiffer DEF Claiming
  <2> QED BY <1>7, <2>2 DEF Claiming
<1>8. CASE \/ ProcessQueue \/ ProcessQueueTx \/ PrepareClaimTx \/ PrepareFails \/ QueueAborted \/ QueueFailed
           \/ QueueDone
  <2>1. \E j : task' = [task EXCEPT ![Queue] = j]
    BY <1>8 DEF ProcessQueue, ProcessQueueTx, PrepareClaimTx, PrepareFails, QueueAborted, QueueFailed, QueueDone, Goto
  <2> QED BY <1>1, <2>1, KindsDiffer
<1>9. CASE QueuePrepared
  <2>1. task[Queue].s \in Sessions BY <1>9, QueueClaim DEF QueuePrepared, Over
  <2>2. f # Broadcast(task[Queue].s) /\ f # Receipt(task[Queue].s) /\ f # Queue BY <2>1, KindsDiffer
  <2> QED BY <1>1, <1>9, <2>2 DEF QueuePrepared, Goto
<1>10. ASSUME NEW s \in Sessions, NEW t \in Tasks \ {f}, NEW j, NEW o,
              task' = [task EXCEPT ![t] = j] \/ task' = Reconciled([task EXCEPT ![t] = j], s, o)
       PROVE  u \in dict
  <2> DEFINE tasks == [task EXCEPT ![t] = j]
  <2>1. DOMAIN tasks = Tasks /\ tasks[f] = task[f] BY <1>1
  <2>2. task' = tasks \/ task' = Reconciled(tasks, s, o) BY <1>10
  <2> HIDE DEF tasks
  <2>3. task' = [tasks EXCEPT ![Completion(s)] = At("hooks", s)] /\ s \in dict
    BY <1>1, <2>1, <2>2 DEF Reconciled, Completing
  <2>4. f = Completion(s) BY <1>1, <2>1, <2>3
  <2> QED BY <2>3, <2>4, TasksDiffer
<1>11. CASE QueueLost
  <2>1. task[Queue].s \in Sessions BY <1>11, QueueClaim DEF QueueLost, Over
  <2>2. Queue \in Tasks \ {f} BY AreTasks, KindsDiffer
  <2>3. \E j : task' = Reconciled([task EXCEPT ![Queue] = j], task[Queue].s, Observed(task[Queue]))
    BY <1>11 DEF QueueLost
  <2> QED BY <1>10, <2>1, <2>2, <2>3
<1>12. ASSUME NEW s \in Sessions, Rebroadcast(s)
       PROVE  u \in dict
  <2>1. Broadcast(s) \in Tasks \ {f} BY AreTasks, KindsDiffer
  <2>2. \E j, o : \/ task' = [task EXCEPT ![Broadcast(s)] = j]
                  \/ task' = Reconciled([task EXCEPT ![Broadcast(s)] = j], s, o)
    BY <1>12 DEF Rebroadcast, Retry, BroadcastAcked, BroadcastUnacked, BroadcastTransition, Goto
  <2> QED BY <1>10, <2>1, <2>2
<1>13. ASSUME NEW s \in Sessions, AwaitReceipt(s), ~ReceiptSettled(s)
       PROVE  u \in dict
  <2>1. Receipt(s) \in Tasks \ {f} BY AreTasks, KindsDiffer
  <2>2. \E j, o : \/ task' = [task EXCEPT ![Receipt(s)] = j]
                  \/ task' = Reconciled([task EXCEPT ![Receipt(s)] = j], s, o)
    BY <1>13 DEF AwaitReceipt, Retry, ReceiptArrives, ReceiptAborted, ReceiptLost, Goto
  <2> QED BY <1>10, <2>1, <2>2
<1>14. ASSUME NEW s \in Sessions, ReceiptSettled(s)
       PROVE  ReceiptSettled(u) /\ task[Receipt(u)].new.st = "confirmed"
  <2>1. Receipt(s) \in Tasks \ {f} BY AreTasks, KindsDiffer
  <2> DEFINE tasks == [task EXCEPT ![Receipt(s)] = Off]
  <2>2. DOMAIN tasks = Tasks /\ tasks[f] = task[f] BY <1>1, <2>1
  <2>3. \/ task[Receipt(s)].new.st = "confirmed" /\ task' = Completing(tasks, s)
        \/ task' = tasks
    BY <1>14 DEF ReceiptSettled, Goto
  <2> HIDE DEF tasks
  <2>4. f = Completion(s) /\ task[Receipt(s)].new.st = "confirmed" BY <1>1, <2>2, <2>3 DEF Completing
  <2> QED BY <1>14, <2>4, TasksDiffer
<1>15. ASSUME NEW s \in Sessions, Complete(s) PROVE FALSE
  <2>1. task[Completion(s)].pc # "off"
    BY <1>15 DEF Complete, ClaimedHooks, ClaimedHooksFail, FinalizeLookup, CompletionDone, FinalizeRetry
  <2>2. PICK c : ReconcilerStep(s, c) BY <1>15, CompletionEffect
  <2>3. f \notin ReconcilerTasks(s) BY <2>1, KindsDiffer, TasksDiffer DEF ReconcilerTasks
  <2> QED BY <1>1, <2>2, <2>3 DEF ReconcilerStep, Moved
<1> QED BY <1>2, <1>3, <1>4, <1>5, <1>6, <1>7, <1>8, <1>9, <1>11, <1>12, <1>13, <1>14, <1>15 DEF Next, RunQueue

\* Only the database answers.
LEMMA OthersAsk ==
  ASSUME PayInv, OutcomeInv, CustodyInv, [Next]_vars, ~\E t \in Tasks : Database(t)
  PROVE  \A u \in Tasks : task'[u] = task[u] \/ task'[u].reply = "none"
<1> DEFINE goal == \A u \in Tasks : task'[u] = task[u] \/ task'[u].reply = "none"
<1>1. task \in [Tasks -> TaskRec] /\ Queue \in Tasks BY AreTasks DEF PayInv, Shape
<1>2. ASSUME NEW t \in Tasks, NEW j, j.reply = "none", task' = [task EXCEPT ![t] = j] PROVE goal BY <1>1, <1>2
<1>3. ASSUME NEW t \in Transitioners, TransitionRetry(t) PROVE goal
  <2>1. PICK j : task' = [task EXCEPT ![t] = j] /\ j.reply = "none" BY <1>3, RetryEffect
  <2> QED BY <1>2, <2>1, TransitionerKinds
<1>4. ASSUME NEW r \in Requests, Create(r) \/ \E s \in Sessions : ClaimReward(r, s) PROVE goal
  <2>1. \A s, c : [At("create", s) EXCEPT !.new = c].reply = "none" BY DEF At
  <2>2. PICK j : task' = [task EXCEPT ![Request(r)] = j] /\ j.reply = "none"
    <3>1. CASE RejectClaim(r) \/ ClaimCreated(r) BY <3>1, NoReply DEF RejectClaim, ClaimCreated, Goto
    <3>2. CASE CreateClaim(r) BY <2>1, <3>2 DEF CreateClaim, Goto
    <3>3. CASE \E s \in Sessions : ClaimReward(r, s)
      <4>1. PICK s \in Sessions : task' = [task EXCEPT ![Request(r)] = At("hooks", s)]
        BY <3>3 DEF ClaimReward, Goto
      <4> QED BY <4>1, NoReply
    <3> QED BY <1>4, <3>1, <3>2, <3>3 DEF Create
  <2> QED BY <1>2, <2>2, AreTasks
<1>5. CASE (\E x \in pool : Mine(x)) \/ Dispose \/ UNCHANGED vars \/ \E s \in Sessions : TryTimeoutSession(s)
  BY <1>5 DEF Mine, Dispose, TryTimeoutSession, vars
<1>6. CASE Stop BY <1>1, <1>6, NoReply DEF Stop
<1>7. CASE Initialize BY <1>1, <1>7, NoReply DEF Initialize
<1>8. CASE \/ ProcessQueue \/ ProcessQueueTx \/ PrepareClaimTx \/ PrepareFails \/ QueueAborted \/ QueueFailed
           \/ QueueDone
  <2>1. PICK j : task' = [task EXCEPT ![Queue] = j] /\ j.reply = "none"
    <3>1. CASE ProcessQueue \/ QueueAborted \/ QueueFailed \/ QueueDone
      BY <3>1, NoReply DEF ProcessQueue, QueueAborted, QueueFailed, QueueDone, Goto
    <3>2. CASE ProcessQueueTx
      <4>1. PICK s \in Sessions :
              \/ task' = [task EXCEPT ![Queue] = At("loop", NoSession)]
              \/ task' = [task EXCEPT ![Queue] = At("sign", s)]
              \/ task' = [task EXCEPT ![Queue] = CasCall(s, claims[s], WithStatus(claims[s], "failed"))]
        BY <3>2 DEF ProcessQueueTx, Goto
      <4> QED BY <4>1, NoReply
    <3>3. CASE PrepareFails
      <4> DEFINE j == CasCall(task[Queue].s, claims[task[Queue].s], WithStatus(claims[task[Queue].s], "failed"))
      <4>1. task' = [task EXCEPT ![Queue] = j] BY <3>3 DEF PrepareFails, Goto
      <4>2. j.reply = "none" BY NoReply
      <4> HIDE DEF j
      <4> QED BY <4>1, <4>2
    <3>4. CASE PrepareClaimTx
      <4> DEFINE tx == [s |-> task[Queue].s, nonce |-> nonce, sig |-> signed + 1]
                 j == CasCall(task[Queue].s, claims[task[Queue].s], WithTx(claims[task[Queue].s], tx))
      <4>1. task' = [task EXCEPT ![Queue] = j] BY <3>4 DEF PrepareClaimTx, Goto
      <4>2. j.reply = "none" BY NoReply
      <4> HIDE DEF j
      <4> QED BY <4>1, <4>2
    <3> QED BY <1>8, <3>1, <3>2, <3>3, <3>4
  <2> QED BY <1>1, <1>2, <2>1
<1>9. CASE QueuePrepared
  <2>1. task[Queue].s \in Sessions BY <1>9, QueueClaim DEF QueuePrepared, Over
  <2> QED BY <1>1, <1>9, <2>1, NoReply, AreTasks DEF QueuePrepared, Goto
<1>10. CASE QueueLost
  <2> DEFINE j == IF Outcome(task[Queue]) = "threw" THEN Off ELSE At("loop", NoSession)
             tasks == [task EXCEPT ![Queue] = j]
             s == task[Queue].s
  <2>1. task' = Reconciled(tasks, s, Observed(task[Queue])) BY <1>10 DEF QueueLost
  <2>2. j.reply = "none" BY NoReply
  <2>3. DOMAIN tasks = Tasks /\ \A u \in Tasks : tasks[u] = task[u] \/ tasks[u].reply = "none" BY <1>1, <2>2
  <2> HIDE DEF tasks, j
  <2>4. task' = tasks \/ task' = [tasks EXCEPT ![Completion(s)] = At("hooks", s)]
    BY <2>1 DEF Reconciled, Completing
  <2> QED BY <2>3, <2>4, NoReply
<1>11. ASSUME NEW s \in Sessions, Rebroadcast(s) \/ AwaitReceipt(s) \/ Complete(s) PROVE goal
  <2>1. PICK c : ReconcilerStep(s, c) BY <1>11, ReconcilerEffect, CompletionEffect
  <2> QED BY <2>1 DEF ReconcilerStep, Moved
<1> QED BY <1>3, <1>4, <1>5, <1>6, <1>7, <1>8, <1>9, <1>10, <1>11 DEF Next, RunQueue

\* Every step keeps the replies in order and the statistics exact.
LEMMA StepCounted ==
  ASSUME PayInv, OutcomeInv, CustodyInv, StatsInv, OrderedReplies, [Next]_vars
  PROVE  StatsInv'
<1>1. task \in [Tasks -> TaskRec] /\ db \in [Sessions -> RowRec] BY DEF PayInv, Shape
<1>2. OneReply /\ (\A s \in Sessions : ReceiptFresh(task[Receipt(s)], db[s])) /\ stats \in [Sessions -> Nat]
  BY DEF StatsInv
<1>3. \A s \in Sessions : stats[s] <= 1 /\ (stats[s] = 1 => /\ db[s].status = "finished" /\ s \notin dict
                                                            /\ task[Completion(s)].pc = "off")
  BY DEF StatsInv
\* Rows that are finished, and rows with a receipt under way, are left alone outside the database.
<1>4. ASSUME ~\E t \in Tasks : Database(t), NEW s \in Sessions, db[s].status # "claimable"
      PROVE  db'[s] = db[s]
  <2>1. CASE \E u \in Sessions : TryTimeoutSession(u) BY <1>1, <1>4, <2>1 DEF TryTimeoutSession
  <2>2. CASE (\E x \in pool : Mine(x)) \/ Dispose \/ UNCHANGED vars \/ Stop \/ Initialize
    BY <2>2 DEF Mine, Dispose, Stop, Initialize, vars, durable
  <2>3. CASE \E t \in Transitioners : TransitionRetry(t) BY <2>3 DEF TransitionRetry, durable
  <2>4. CASE \E r \in Requests : Create(r) \/ \E u \in Sessions : ClaimReward(r, u)
    BY <2>4 DEF Create, RejectClaim, CreateClaim, ClaimCreated, ClaimReward, durable
  <2>5. CASE ProcessQueue \/ RunQueue
    BY <2>5 DEF ProcessQueue, RunQueue, ProcessQueueTx, PrepareClaimTx, PrepareFails, QueueAborted,
                QueuePrepared, QueueFailed, QueueLost, QueueDone, QueueFrame, durable
  <2>6. ASSUME NEW u \in Sessions, Rebroadcast(u) \/ AwaitReceipt(u) \/ Complete(u) PROVE db' = db
    <3>1. PICK c : ReconcilerStep(u, c) BY <2>6, ReconcilerEffect, CompletionEffect
    <3> QED BY <3>1 DEF ReconcilerStep
  <2> QED BY <1>4, <2>1, <2>2, <2>3, <2>4, <2>5, <2>6 DEF Next
<1>5. OneReply'
  <2>1. ASSUME NEW t \in Tasks, Database(t) PROVE OneReply'
    <3>1. \A u \in Tasks \ {t} : task'[u].reply = "none" BY <2>1, DatabaseMoves
    <3> QED BY <3>1 DEF OneReply
  <2>2. CASE ~\E t \in Tasks : Database(t)
    <3>1. \A u \in Tasks : task'[u] = task[u] \/ task'[u].reply = "none" BY <2>2, OthersAsk
    <3> QED BY <1>2, <3>1 DEF OneReply
  <2> QED BY <2>1, <2>2
<1>6. ASSUME NEW s \in Sessions PROVE ReceiptFresh(task'[Receipt(s)], db'[s])
  <2> DEFINE w == Receipt(s)
             k == task[w]
  <2>1. w \in Tasks /\ w \in ReconcilerTasks(s) BY AreTasks DEF ReconcilerTasks
  <2>2. ASSUME NEW t \in Tasks, Database(t), t # w PROVE ReceiptFresh(task'[w], db'[s])
    <3>1. task'[w].reply = "none" BY <2>1, <2>2, DatabaseMoves
    <3> QED BY <3>1 DEF ReceiptFresh
  <2>3. CASE Database(w)
    <3>1. k.pc \in {"create", "cas", "finalize", "read"} BY <2>1, <2>3, DatabaseMoves
    <3>2. k.s = s BY <2>1, <3>1, ReconcilerClaim
    <3>3. CASE k.pc = "read"
      <4>1. db' = db /\ (task'[w] = [k EXCEPT !.reply = "error"] \/ task'[w] = [k EXCEPT !.reply = "ok", !.row = db[s]])
        BY <2>1, <2>3, <3>2, <3>3, DatabaseMoves
      <4>2. k \in TaskRec BY <1>1, <2>1
      <4>3. CASE task'[w] = [k EXCEPT !.reply = "error"]
        <5>1. task'[w].reply = "error" BY <4>2, <4>3 DEF TaskRec
        <5> QED BY <5>1 DEF ReceiptFresh
      <4>4. CASE task'[w] = [k EXCEPT !.reply = "ok", !.row = db[s]]
        <5>1. task'[w].pc = "read" /\ task'[w].row = db[s] BY <3>3, <4>2, <4>4 DEF TaskRec
        <5> QED BY <4>1, <5>1 DEF ReceiptFresh
      <4> QED BY <4>1, <4>3, <4>4
    <3>4. CASE k.pc # "read"
      <4>1. PICK x \in {"ok", "no", "error"} :
                       /\ task'[w] = [k EXCEPT !.reply = x]
                       /\ \/ db' = db /\ x # "ok"
                          \/ \E row2 \in RowRec : /\ Rewrites(w, db[s], row2) /\ x # "no"
                                                  /\ db' = [db EXCEPT ![s] = row2]
        <5>1. LET a == k.s
              IN \E x \in {"ok", "no", "error"} :
                       /\ task'[w] = [k EXCEPT !.reply = x]
                       /\ \/ db' = db /\ x # "ok"
                          \/ \E row2 \in RowRec : /\ Rewrites(w, db[a], row2) /\ x # "no"
                                                  /\ db' = [db EXCEPT ![a] = row2]
          BY <2>1, <2>3, <3>4, DatabaseMoves
        <5> QED BY <3>2, <5>1
      <4>2. k \in TaskRec BY <1>1, <2>1
      <4>3. task'[w].reply = x /\ task'[w].pc = k.pc /\ task'[w].new = k.new BY <4>1, <4>2, AnswerShape
      <4>4. CASE x # "ok" BY <4>3, <4>4 DEF ReceiptFresh
      <4>5. ASSUME NEW row2 \in RowRec, Rewrites(w, db[s], row2), db' = [db EXCEPT ![s] = row2]
            PROVE  ReceiptFresh(task'[w], db'[s])
        <5>1. db'[s] = row2 BY <1>1, <4>5
        <5>2. k.pc = "cas" /\ k.new.st = "confirmed" => row2.status = "claiming" BY <4>5 DEF Rewrites
        <5> QED BY <3>4, <4>3, <5>1, <5>2 DEF ReceiptFresh
      <4> QED BY <4>1, <4>4, <4>5
    <3> QED BY <3>3, <3>4
  <2>4. CASE ~\E t \in Tasks : Database(t)
    <3>1. task'[w] = k \/ task'[w].reply = "none" BY <2>1, <2>4, OthersAsk
    <3>2. CASE task'[w].reply = "none" BY <3>2 DEF ReceiptFresh
    <3>3. CASE task'[w] = k /\ k.pc = "off" BY <3>3 DEF ReceiptFresh
    <3>4. CASE task'[w] = k /\ k.pc # "off"
      <4>1. Signed(claims[s]) /\ Agrees(db[s], claims[s]) BY <2>1, <3>4, ReconcilerClaim
      <4>2. db[s].status # "claimable"
        BY <4>1 DEF Agrees, Signed, OutcomeInv, RowsTrue, RowTrue
      <4>3. db'[s] = db[s] BY <1>4, <2>4, <4>2
      <4> QED BY <1>2, <3>4, <4>3
    <3> QED BY <3>1, <3>2, <3>3, <3>4
  <2> QED BY <2>1, <2>2, <2>3, <2>4
\* A session with statistics stays finished and is not taken up again.
<1>7. ASSUME NEW u \in Sessions, stats[u] = 1
      PROVE  db'[u].status = "finished" /\ u \notin dict' /\ task'[Completion(u)].pc = "off"
  <2>1. db[u].status = "finished" /\ u \notin dict /\ task[Completion(u)].pc = "off" BY <1>3, <1>7
  <2>2. db[u].claim.st = "confirmed" BY <2>1 DEF OutcomeInv, RowsTrue, RowTrue
  <2>3. db'[u].status = "finished"
    <3>1. ASSUME NEW t \in Tasks, Database(t) PROVE db'[u].status = "finished"
      <4> DEFINE a == task[t].s
      <4>1. a \in Sessions /\ (db' = db \/ \E row2 \in RowRec : Rewrites(t, db[a], row2) /\ db' = [db EXCEPT ![a] = row2])
        BY <3>1, DatabaseMoves
      <4>2. CASE db' = db BY <2>1, <4>2
      <4>3. ASSUME NEW row2 \in RowRec, Rewrites(t, db[a], row2), db' = [db EXCEPT ![a] = row2]
            PROVE  db'[u].status = "finished"
        BY <1>1, <2>1, <4>1, <4>3 DEF Rewrites
      <4> QED BY <4>1, <4>2, <4>3
    <3>2. CASE ~\E t \in Tasks : Database(t) BY <1>4, <2>1, <3>2
    <3> QED BY <3>1, <3>2
  <2>4. u \notin dict'
    <3>1. ~Unreported(u)
      <4> SUFFICES ASSUME NEW r \in Requests, Wrote(task[Request(r)]), task[Request(r)].s = u PROVE FALSE
        BY DEF Unreported
      <4>1. RequestSound(task[Request(r)], db, claims) BY AreTasks, KindSound DEF PayInv, TasksSound
      <4>2. task[Request(r)].new.st = "queue" BY <4>1 DEF RequestSound, Wrote
      <4> QED BY <2>2, <4>2 DEF CustodyInv, HandlersFresh
    <3>2. Initialize => u \notin dict' BY <2>1 DEF Initialize, Claiming
    <3> QED BY <2>1, <3>1, <3>2, DictMoves
  <2>5. task'[Completion(u)].pc = "off"
    <3>1. ~(ReceiptSettled(u) /\ task[Receipt(u)].new.st = "confirmed")
      <4> SUFFICES ASSUME ReceiptSettled(u), task[Receipt(u)].new.st = "confirmed" PROVE FALSE OBVIOUS
      <4> DEFINE k == task[Receipt(u)]
      <4>1. k.pc \in {"cas", "read"} /\ k.reply # "none" /\ Outcome(k) = "won" BY DEF ReceiptSettled, Over
      <4>2. ReceiptFresh(k, db[u]) BY <1>2
      <4>3. Receipt(u) \in ReconcilerTasks(u) /\ Receipt(u) \in Tasks /\ Receipt(u) # Completion(u)
        BY AreTasks, KindsDiffer DEF ReconcilerTasks
      <4>4. k.pc = "read" => k.reply # "no" BY <4>1, <4>3, ReconcilerClaim
      <4>5. k.reply \in {"none", "ok", "no", "error"} BY <1>1, <4>3 DEF TaskRec
      <4>6. CASE k.pc = "cas"
        <5>1. k.reply = "ok" BY <4>1, <4>6 DEF Outcome
        <5> QED BY <2>1, <4>2, <4>6, <5>1 DEF ReceiptFresh
      <4>7. CASE k.pc = "read"
        <5>1. k.reply = "ok" /\ ~(k.row.status = "finished") BY <4>1, <4>4, <4>5, <4>7 DEF Outcome, ReadOutcome
        <5> QED BY <2>1, <4>2, <4>7, <5>1 DEF ReceiptFresh
      <4> QED BY <4>1, <4>6, <4>7
    <3> QED BY <2>1, <3>1, CompletionMoves
  <2> QED BY <2>3, <2>4, <2>5
<1>8. CASE stats' = stats
  <2>1. \A u \in Sessions : stats'[u] <= 1 /\ (stats'[u] = 1 => /\ db'[u].status = "finished" /\ u \notin dict'
                                                                /\ task'[Completion(u)].pc = "off")
    BY <1>3, <1>7, <1>8
  <2> QED BY <1>2, <1>5, <1>6, <1>8, <2>1 DEF StatsInv, ReceiptFresh
<1>9. ASSUME NEW s \in Sessions, CompletionDone(s), stats' # stats PROVE StatsInv'
  <2> DEFINE f == Completion(s)
             k == task[f]
  <2>1. /\ stats' = [stats EXCEPT ![s] = @ + 1] /\ dict' = dict \ {s} /\ task' = [task EXCEPT ![f] = Off] /\ db' = db
        /\ k.pc # "off"
    BY <1>9 DEF CompletionDone, Forget, Goto, CompletionFrame
  <2>2. stats[s] = 0 BY <1>2, <1>3, <2>1
  <2>3. db[s].status = "finished"
    <3>1. ReplySettled(k, db[s]) BY DEF CustodyInv, RepliesSettled
    <3> QED BY <1>9, <3>1 DEF CompletionDone, ReplySettled
  <2>4. task'[f].pc = "off" BY <1>1, <2>1, AreTasks, Constants
  <2>5. stats' \in [Sessions -> Nat] /\ stats'[s] = 1 /\ \A u \in Sessions : u # s => stats'[u] = stats[u]
    BY <1>2, <2>1, <2>2
  <2>6. \A u \in Sessions : stats'[u] <= 1 /\ (stats'[u] = 1 => /\ db'[u].status = "finished" /\ u \notin dict'
                                                                /\ task'[Completion(u)].pc = "off")
    BY <1>3, <1>7, <2>1, <2>3, <2>4, <2>5
  <2> QED BY <1>5, <1>6, <2>5, <2>6 DEF StatsInv, ReceiptFresh
<1>10. stats' = stats \/ \E s \in Sessions : CompletionDone(s)
  <2>1. CASE \E t \in Tasks : Database(t) BY <2>1, DatabaseMoves DEF DbFrame
  <2>2. CASE (\E x \in pool : Mine(x)) \/ Dispose \/ UNCHANGED vars \/ Stop \/ Initialize
             \/ \E u \in Sessions : TryTimeoutSession(u)
    BY <2>2 DEF Mine, Dispose, Stop, Initialize, TryTimeoutSession, vars, bounds
  <2>3. CASE \E t \in Transitioners : TransitionRetry(t) BY <2>3 DEF TransitionRetry, bounds
  <2>4. CASE \E r \in Requests : Create(r) \/ \E u \in Sessions : ClaimReward(r, u)
    BY <2>4 DEF Create, RejectClaim, CreateClaim, ClaimCreated, ClaimReward, bounds
  <2>5. CASE ProcessQueue \/ RunQueue
    BY <2>5 DEF ProcessQueue, RunQueue, ProcessQueueTx, PrepareClaimTx, PrepareFails, QueueAborted,
                QueuePrepared, QueueFailed, QueueLost, QueueDone, QueueFrame
  <2>6. CASE \E u \in Sessions : Rebroadcast(u) \/ AwaitReceipt(u)
    BY <2>6 DEF Rebroadcast, AwaitReceipt, Retry, BroadcastAcked, BroadcastUnacked, BroadcastTransition,
                ReceiptArrives, ReceiptAborted, ReceiptSettled, ReceiptLost, ReconcileFrame, bounds
  <2>7. CASE \E u \in Sessions : Complete(u)
    BY <2>7 DEF Complete, ClaimedHooks, ClaimedHooksFail, FinalizeLookup, FinalizeRetry, CompletionFrame
  <2> QED BY <2>1, <2>2, <2>3, <2>4, <2>5, <2>6, <2>7 DEF Next
<1> QED BY <1>8, <1>9, <1>10

\* Initially nothing is counted.
LEMMA InitCounted == Init => StatsInv
<1> SUFFICES ASSUME Init PROVE StatsInv OBVIOUS
<1>1. \A t \in Tasks : task[t].reply = "none" BY NoReply DEF Init
<1>2. OneReply /\ \A s \in Sessions : ReceiptFresh(task[Receipt(s)], db[s])
  BY <1>1, AreTasks DEF OneReply, ReceiptFresh
<1>3. stats \in [Sessions -> Nat] /\ \A s \in Sessions : stats[s] = 0 BY DEF Init
<1> QED BY <1>2, <1>3 DEF StatsInv

\* Over one worker, the replies keep the order of the rows.
THEOREM StatsInvariance == OrderedReplies /\ Spec => []StatsInv
<1>1. ASSUME OrderedReplies PROVE PayInv /\ OutcomeInv /\ CustodyInv /\ StatsInv /\ [Next]_vars => StatsInv'
  BY <1>1, StepCounted
<1>2. CASE OrderedReplies
  <2>1. PayInv /\ OutcomeInv /\ CustodyInv /\ StatsInv /\ [Next]_vars => StatsInv' BY <1>1, <1>2
  <2> QED BY CustodyInvariance, InitCounted, <2>1, PTL DEF Spec
<1> QED BY <1>2

\* Over one SQLite worker, completeConfirmedClaim writes the statistics of a session at most once.
THEOREM StatsWrittenOnce == OrderedReplies /\ Spec => []StatsOnce
<1>1. StatsInv => StatsOnce BY DEF StatsInv, StatsOnce
<1> QED BY StatsInvariance, <1>1, PTL

-----------------------------------------------------------------------------
(* The type invariant.                                                     *)

\* The filter leaves a queue of sessions.
LEMMA WithoutClaimShape ==
  ASSUME NEW S, NEW q \in Seq(S), NEW s
  PROVE  WithoutClaim(q, s) \in Seq(S)
<1>1. CASE ~\E i \in DOMAIN q : q[i] = s BY <1>1 DEF WithoutClaim
<1>2. CASE \E i \in DOMAIN q : q[i] = s
  <2> DEFINE i == CHOOSE j \in DOMAIN q : q[j] = s
  <2>1. i \in DOMAIN q BY <1>2
  <2>2. WithoutClaim(q, s) = SubSeq(q, 1, i - 1) \o SubSeq(q, i + 1, Len(q)) BY <1>2 DEF WithoutClaim
  <2> HIDE DEF i
  <2>3. Len(q) \in Nat /\ i \in 1 .. Len(q) /\ \A j \in 1 .. Len(q) : q[j] \in S BY <2>1
  <2>4. SubSeq(q, 1, i - 1) \in Seq(S)
    <3>1. i - 1 \in Int /\ \A j \in 1 .. (i - 1) : q[j] \in S BY <2>3
    <3> QED BY <3>1, SubSeqProperties
  <2>5. SubSeq(q, i + 1, Len(q)) \in Seq(S)
    <3>1. i + 1 \in Int /\ Len(q) \in Int /\ \A j \in (i + 1) .. Len(q) : q[j] \in S BY <2>3
    <3> QED BY <3>1, SubSeqProperties
  <2> QED BY <2>2, <2>4, <2>5, ConcatProperties
<1> QED BY <1>1, <1>2

\* initialize queues sessions.
LEMMA ArrangementShape ==
  ASSUME ClaimAssumption, NEW S, S \subseteq Sessions, NEW q \in Arrangements(S)
  PROVE  q \in Seq(Sessions)
<1>1. Cardinality(S) \in Nat BY FS_Subset, FS_CardinalityType DEF ClaimAssumption
<1>2. q \in [1 .. Cardinality(S) -> S] BY DEF Arrangements
<1> HIDE DEF Arrangements
<1> DEFINE n == Cardinality(S)
<1>3. \A i \in 1 .. n : q[i] \in Sessions BY <1>2
<1>4. q = [i \in 1 .. n |-> q[i]] BY <1>2
<1>5. n \in Nat BY <1>1
<1> HIDE DEF n
<1> QED BY <1>3, <1>4, <1>5, IsASeq

\* Every step keeps the lists of sessions.
LEMMA StepListed ==
  ASSUME PayInv, OutcomeInv, CustodyInv, ClaimAssumption, ListsInv, [Next]_vars
  PROVE  ListsInv'
<1>1. \A r \in Requests : task[Request(r)].pc # "off" => task[Request(r)].s \in Sessions
  <2>1. \A r \in Requests : RequestSound(task[Request(r)], db, claims)
    BY AreTasks, KindSound DEF PayInv, TasksSound
  <2> QED BY <2>1 DEF RequestSound
<1>2. pending' \subseteq Sessions BY SlotsAreSessions DEF ListsInv
<1>3. CASE \E t \in Tasks : Database(t)
  BY <1>3 DEF ListsInv, Database, TryCreateClaim, CompareAndSetClaim, FinalizeConfirmedRow, GetSession, Update,
              DbFrame, memory, wallet
<1>4. CASE \E t \in Transitioners : TransitionRetry(t)
  BY <1>4 DEF ListsInv, TransitionRetry, durable, wallet, bounds
<1>5. CASE \E r \in Requests : Create(r) \/ \E s \in Sessions : ClaimReward(r, s)
  <2>1. CASE \E r \in Requests : RejectClaim(r) \/ CreateClaim(r) \/ \E s \in Sessions : ClaimReward(r, s)
    BY <2>1 DEF ListsInv, RejectClaim, CreateClaim, ClaimReward, durable, memory, wallet, bounds
  <2>2. ASSUME NEW r \in Requests, ClaimCreated(r) PROVE ListsInv'
    <3>1. task[Request(r)].s \in Sessions BY <1>1, <2>2 DEF ClaimCreated
    <3>2. queue' \in {queue, Append(queue, task[Request(r)].s)} /\ dict' \subseteq Sessions
      BY <2>2, <3>1 DEF ClaimCreated, ListsInv
    <3>3. queue' \in Seq(Sessions) BY <3>1, <3>2, AppendProperties DEF ListsInv
    <3> QED BY <1>2, <2>2, <3>2, <3>3 DEF ListsInv, ClaimCreated, durable, wallet, bounds
  <2> QED BY <1>5, <2>1, <2>2 DEF Create
<1>6. CASE ProcessQueue \/ PrepareClaimTx \/ PrepareFails \/ QueueAborted \/ QueuePrepared \/ QueueFailed
  BY <1>2, <1>6 DEF ListsInv, ProcessQueue, PrepareClaimTx, PrepareFails, QueueAborted, QueuePrepared,
              QueueFailed, QueueFrame, durable, memory, wallet
<1>7. CASE ProcessQueueTx
  <2>1. queue # <<>> /\ queue' = Tail(queue) BY <1>7 DEF ProcessQueueTx, QueueBlocked
  <2>2. queue' \in Seq(Sessions) BY <2>1, HeadTailProperties DEF ListsInv
  <2> QED BY <1>2, <1>7, <2>2 DEF ListsInv, ProcessQueueTx, QueueFrame, durable, wallet
<1>8. ASSUME NEW s, NEW c, NEW x, ReconcileTerminal(s, c, x)
      PROVE  dict' \subseteq Sessions /\ queue' \in Seq(Sessions)
  BY <1>8, WithoutClaimShape DEF ReconcileTerminal, ListsInv
<1>9. CASE QueueLost
  <2>1. dict' \subseteq Sessions /\ queue' \in Seq(Sessions) BY <1>8, <1>9 DEF QueueLost
  <2> QED BY <1>2, <1>9, <2>1 DEF ListsInv, QueueLost, QueueFrame, durable
<1>10. CASE QueueDone
  <2>1. ready' \in BOOLEAN BY <1>10 DEF QueueDone, LoadWalletState, ListsInv
  <2> QED BY <1>10, <2>1 DEF ListsInv, QueueDone, QueueFrame, durable, memory
<1>11. ASSUME NEW s \in Sessions, Rebroadcast(s) \/ AwaitReceipt(s) \/ Complete(s) PROVE ListsInv'
  <2>1. PICK c : ReconcilerStep(s, c) BY <1>11, ReconcilerEffect, CompletionEffect
  <2>2. booked' \subseteq Sessions /\ stats' \in [Sessions -> Nat]
    <3>1. CASE Rebroadcast(s) \/ AwaitReceipt(s)
      BY <3>1 DEF ListsInv, Rebroadcast, AwaitReceipt, Retry, BroadcastAcked, BroadcastUnacked, BroadcastTransition,
                  ReceiptArrives, ReceiptAborted, ReceiptSettled, ReceiptLost, ReconcileFrame, bounds
    <3>2. CASE Complete(s) /\ ~CompletionDone(s)
      BY <3>2 DEF ListsInv, Complete, ClaimedHooks, ClaimedHooksFail, FinalizeLookup, FinalizeRetry
    <3>3. CASE CompletionDone(s)
      <4>1. booked' = booked /\ (stats' = stats \/ stats' = [stats EXCEPT ![s] = @ + 1])
        BY <3>3 DEF CompletionDone
      <4> QED BY <4>1 DEF ListsInv
    <3> QED BY <1>11, <3>1, <3>2, <3>3
  <2> QED BY <1>2, <2>1, <2>2 DEF ReconcilerStep, ListsInv
<1>12. CASE (\E x \in pool : Mine(x)) \/ Dispose \/ UNCHANGED vars \/ \E s \in Sessions : TryTimeoutSession(s)
  BY <1>12 DEF ListsInv, Mine, Dispose, TryTimeoutSession, vars, durable, memory, wallet, bounds
<1>13. CASE Stop
  <2>1. queue' \in Seq(Sessions) BY <1>13 DEF Stop
  <2>2. restarts' \in Nat BY <1>13 DEF Stop, ListsInv
  <2>3. dict' \subseteq Sessions /\ phase' = "down" /\ ready' = FALSE /\ nextIdx' = 1 BY <1>13 DEF Stop
  <2>4. UNCHANGED <<booked, stats, dbErrors>> BY <1>13 DEF Stop, durable
  <2> QED BY <1>2, <2>1, <2>2, <2>3, <2>4 DEF ListsInv
<1>14. CASE Initialize
  <2> DEFINE idxs == {db[s].claim.idx : s \in Claiming(ClaimTxStatus \union {"processing"})}
  <2>1. PICK q \in Arrangements(Claiming({"queue"})) : queue' = q BY <1>14 DEF Initialize
  <2>2. \A st : Claiming(st) \subseteq Sessions BY DEF Claiming
  <2>3. queue' \in Seq(Sessions) BY <2>1, <2>2, ArrangementShape
  <2>4. idxs \subseteq Nat BY <2>2 DEF PayInv, Shape, RowRec, ClaimRec
  <2>5. \E m \in idxs \union {0} : nextIdx' = m + 1 BY <1>14 DEF Initialize
  <2> HIDE DEF idxs
  <2>6. nextIdx' \in Nat BY <2>4, <2>5
  <2>7. dict' \subseteq Sessions /\ phase' = "up" /\ ready' \in BOOLEAN
    BY <1>14, <2>2 DEF Initialize, LoadWalletState
  <2>8. UNCHANGED <<durable, bounds>> BY <1>14 DEF Initialize
  <2> QED BY <1>2, <2>3, <2>6, <2>7, <2>8 DEF ListsInv, durable, bounds
<1> QED BY <1>3, <1>4, <1>5, <1>6, <1>7, <1>9, <1>10, <1>11, <1>12, <1>13, <1>14 DEF Next, RunQueue

\* The records the manager builds.
LEMMA KnownShapes ==
  ASSUME ClaimAssumption, signed \in Nat
  PROVE  /\ NoClaim \in KnownClaim
         /\ \A c \in KnownClaim : \A st \in ClaimTxStatus : WithStatus(c, st) \in KnownClaim
         /\ \A c \in KnownClaim : \A x \in KnownTx : WithTx(c, x) \in KnownClaim
         /\ \A i \in 0 .. MaxIdx : QueuedClaim(i) \in KnownClaim
<1>1. NoTx \in KnownTx \union {NoTx} /\ 0 \in 0 .. MaxIdx /\ ClaimTxStatus # {} BY DEF ClaimAssumption, ClaimTxStatus
<1> DEFINE T == KnownTx \union {NoTx}
<1>2. KnownClaim = [st : ClaimTxStatus \union {"none", "processing"}, idx : 0 .. MaxIdx, tx : T] BY DEF KnownClaim
<1>3. KnownTx \subseteq T OBVIOUS
<1> HIDE DEF T
<1>4. NoTx \in T BY <1>1 DEF T
<1> QED BY <1>1, <1>2, <1>3, <1>4 DEF NoClaim, WithStatus, WithTx, QueuedClaim, ClaimTxStatus

\* The tasks it starts and continues.
LEMMA KnownTasks ==
  ASSUME ClaimAssumption, signed \in Nat
  PROVE  /\ \A p \in Places : \A s \in Sessions \union {NoSession} : At(p, s) \in KnownTask
         /\ Off \in KnownTask
         /\ \A s \in Sessions : \A c, d \in KnownClaim :
              /\ CasCall(s, c, d) \in KnownTask
              /\ [At("create", s) EXCEPT !.new = c] \in KnownTask
              /\ [At("finalize", s) EXCEPT !.exp = c] \in KnownTask
              /\ \A n \in 0 .. 2 : [CasCall(s, c, d) EXCEPT !.try = n] \in KnownTask
         /\ \A k \in KnownTask :
              /\ k.exp \in KnownClaim /\ k.new \in KnownClaim /\ k.row.claim \in KnownClaim /\ k.try \in 0 .. 2
              /\ \A x \in {"none", "ok", "no", "error"} : [k EXCEPT !.reply = x] \in KnownTask
              /\ \A row \in KnownRow : [k EXCEPT !.reply = "ok", !.row = row] \in KnownTask
              /\ \A b \in BOOLEAN : [k EXCEPT !.pc = "read", !.reply = "none", !.err = b] \in KnownTask
<1>1. NoClaim \in KnownClaim BY KnownShapes
<1>2. \A row \in KnownRow \union {NoRow} : row.claim \in KnownClaim BY <1>1 DEF KnownRow, NoRow
<1> DEFINE R == KnownRow \union {NoRow}
<1>3. NoRow \in R /\ KnownRow \subseteq R /\ \A row \in R : row.claim \in KnownClaim BY <1>2
<1>4. KnownTask = [pc : Places, s : Sessions \union {NoSession}, exp : KnownClaim, new : KnownClaim,
                   reply : {"none", "ok", "no", "error"}, row : R, err : BOOLEAN, try : 0 .. 2]
  BY DEF KnownTask
<1> HIDE DEF R
<1>5. \A p \in Places : \A s \in Sessions \union {NoSession} : At(p, s) \in KnownTask BY <1>1, <1>3, <1>4 DEF At
<1>6. Off \in KnownTask BY <1>5 DEF Off, Places
<1>7. ASSUME NEW s \in Sessions, NEW c \in KnownClaim, NEW d \in KnownClaim
      PROVE  /\ CasCall(s, c, d) \in KnownTask
             /\ [At("create", s) EXCEPT !.new = c] \in KnownTask
             /\ [At("finalize", s) EXCEPT !.exp = c] \in KnownTask
             /\ \A n \in 0 .. 2 : [CasCall(s, c, d) EXCEPT !.try = n] \in KnownTask
  <2> DEFINE a == At("cas", s)
             b == At("create", s)
             e == At("finalize", s)
             f == CasCall(s, c, d)
  <2>1. a \in KnownTask /\ b \in KnownTask /\ e \in KnownTask BY <1>5 DEF Places
  <2>2. f = [a EXCEPT !.exp = c, !.new = d] BY DEF CasCall
  <2> HIDE DEF a, b, e, f
  <2>3. f \in KnownTask BY <1>4, <1>7, <2>1, <2>2
  <2>4. [b EXCEPT !.new = c] \in KnownTask BY <1>4, <1>7, <2>1
  <2>5. [e EXCEPT !.exp = c] \in KnownTask BY <1>4, <1>7, <2>1
  <2>6. \A n \in 0 .. 2 : [f EXCEPT !.try = n] \in KnownTask BY <1>4, <2>3
  <2> QED BY <2>3, <2>4, <2>5, <2>6 DEF b, e, f
<1>8. ASSUME NEW k \in KnownTask
      PROVE  /\ k.exp \in KnownClaim /\ k.new \in KnownClaim /\ k.row.claim \in KnownClaim /\ k.try \in 0 .. 2
             /\ \A x \in {"none", "ok", "no", "error"} : [k EXCEPT !.reply = x] \in KnownTask
             /\ \A row \in KnownRow : [k EXCEPT !.reply = "ok", !.row = row] \in KnownTask
             /\ \A b \in BOOLEAN : [k EXCEPT !.pc = "read", !.reply = "none", !.err = b] \in KnownTask
  BY <1>3, <1>4 DEF Places
<1> QED BY <1>5, <1>6, <1>7, <1>8

\* settleClaim, and what transitionClaim has learned.
LEMMA KnownReplies ==
  ASSUME ClaimAssumption, BytesInv
  PROVE  /\ \A s \in Sessions : \A c \in KnownClaim : \A o \in ClaimTxStatus : \A n \in Nat :
              Settle(s, c, o, n) \in KnownTask
         /\ \A k \in KnownTask : k.s \in Sessions => Learned(k) \in KnownClaim
<1>1. signed \in Nat /\ claims \in [Sessions -> KnownClaim] BY DEF BytesInv, ClaimAssumption
<1>2. ASSUME NEW s \in Sessions, NEW c \in KnownClaim, NEW o \in ClaimTxStatus, NEW n \in Nat
      PROVE  Settle(s, c, o, n) \in KnownTask
  <2>1. WithStatus(c, o) \in KnownClaim BY <1>1, KnownShapes
  <2>2. \A m \in 0 .. 2 : [CasCall(s, c, WithStatus(c, o)) EXCEPT !.try = m] \in KnownTask BY <1>1, <2>1, KnownTasks
  <2>3. n < 3 => n \in 0 .. 2 OBVIOUS
  <2>4. Off \in KnownTask BY <1>1, KnownTasks
  <2> QED BY <2>2, <2>3, <2>4 DEF Settle
<1>3. ASSUME NEW k \in KnownTask, k.s \in Sessions PROVE Learned(k) \in KnownClaim
  <2>1. k.new \in KnownClaim /\ k.row.claim \in KnownClaim BY <1>1, KnownTasks
  <2> QED BY <1>1, <1>3, <2>1 DEF Learned
<1> QED BY <1>2, <1>3

\* What was known stays known.
LEMMA KnownGrows ==
  ASSUME signed \in Nat, signed' \in Nat, signed <= signed'
  PROVE  /\ KnownTx \subseteq KnownTx' /\ KnownClaim \subseteq KnownClaim' /\ KnownRow \subseteq KnownRow'
         /\ KnownTask \subseteq KnownTask'
<1>1. KnownTx \subseteq KnownTx' BY DEF KnownTx
<1>2. KnownClaim \subseteq KnownClaim' BY <1>1 DEF KnownClaim
<1>3. KnownRow \subseteq KnownRow' BY <1>2 DEF KnownRow
<1>4. KnownTask \subseteq KnownTask' BY <1>2, <1>3 DEF KnownTask
<1> QED BY <1>1, <1>2, <1>3, <1>4

\* The bytes of a signed claim are known.
LEMMA SignedIsKnown ==
  ASSUME PayInv, ClaimAssumption, BytesInv, NEW s \in Sessions
  PROVE  /\ Signed(db[s].claim) => db[s].claim.tx \in KnownTx
         /\ Signed(claims[s]) => claims[s].tx \in KnownTx
<1>1. db[s].claim \in KnownClaim BY DEF BytesInv, KnownRow
<1>2. db[s].claim.tx \in KnownTx \union {NoTx} BY <1>1 DEF KnownClaim
<1>3. Signed(db[s].claim) => db[s].claim.tx.s = s BY DEF PayInv, RowsSound, RowSound
<1>4. NoTx.s \notin Sessions BY Constants DEF ClaimAssumption
<1>5. Signed(db[s].claim) => db[s].claim.tx # NoTx BY <1>3, <1>4
<1>6. Signed(claims[s]) => Signed(db[s].claim) /\ claims[s].tx = db[s].claim.tx
  BY DEF PayInv, RowsSound, MemorySound, Agrees
<1> QED BY <1>2, <1>5, <1>6

\* loadWalletState finds no nonce beyond the signed ones.
LEMMA LoadedBelow ==
  ASSUME ClaimAssumption, BytesInv, NEW txs, txs \subseteq KnownTx, NEW f, f \subseteq 0 .. signed,
         LoadWalletState(txs, f)
  PROVE  nonce' \in 0 .. signed
<1>1. signed \in Nat /\ chainNonce \in 0 .. signed BY DEF BytesInv, ClaimAssumption
<1>2. \A x \in KnownTx : x.nonce + 1 \in 0 .. signed BY <1>1 DEF KnownTx
<1>3. ASSUME NEW n \in 0 .. MaxSigned, RpcCount(n), nonce' \in NonceAbove(n, txs) PROVE nonce' \in 0 .. signed
  <2>1. n \in 0 .. signed
    <3>1. CASE n <= chainNonce BY <1>1, <3>1
    <3>2. CASE n > chainNonce
      <4>1. n - 1 \in chainNonce .. (n - 1) BY <1>1, <3>2
      <4>2. PICK x \in pool : x.nonce = n - 1 BY <1>3, <4>1 DEF RpcCount
      <4>3. x.nonce + 1 \in 0 .. signed BY <1>2, <4>2 DEF BytesInv
      <4> QED BY <4>2, <4>3
    <3> QED BY <1>1, <3>1, <3>2
  <2> QED BY <1>2, <1>3, <2>1 DEF NonceAbove
<1> QED BY <1>3 DEF LoadWalletState

\* One step keeps what is known.
LEMMA StepKnown ==
  ASSUME PayInv, OutcomeInv, CustodyInv, ClaimAssumption, ListsInv, BytesInv, [Next]_vars
  PROVE  BytesInv'
<1> DEFINE Rws == [Sessions -> KnownRow]
           Clm == [Sessions -> KnownClaim]
           Tsk == [Tasks -> KnownTask]
<1>1. /\ signed \in Nat /\ MaxSigned \in Nat /\ signed \in 0 .. MaxSigned
      /\ db \in Rws /\ claims \in Clm /\ task \in Tsk
      /\ pool \subseteq KnownTx /\ reserved \subseteq KnownTx /\ mined \subseteq [tx : KnownTx, ok : BOOLEAN]
      /\ chainNonce \in 0 .. signed /\ nonce \in 0 .. signed
  BY DEF BytesInv, ClaimAssumption
\* A step that signs nothing.
<1>2. ASSUME signed' = signed, db' \in Rws, claims' \in Clm, task' \in Tsk, pool' \subseteq KnownTx,
             reserved' \subseteq KnownTx, mined' \subseteq [tx : KnownTx, ok : BOOLEAN],
             chainNonce' \in 0 .. signed, nonce' \in 0 .. signed
      PROVE  BytesInv'
  <2>1. KnownTx' = KnownTx /\ KnownClaim' = KnownClaim BY <1>2 DEF KnownTx, KnownClaim
  <2>2. KnownRow' = KnownRow BY <2>1 DEF KnownRow
  <2>3. KnownTask' = KnownTask BY <2>1, <2>2 DEF KnownTask
  <2> QED BY <1>1, <1>2, <2>1, <2>2, <2>3 DEF BytesInv
<1>3. ASSUME NEW tasks \in Tsk, NEW t, NEW j \in KnownTask PROVE [tasks EXCEPT ![t] = j] \in Tsk BY <1>3
<1>4. ASSUME NEW tasks \in Tsk, NEW s \in Sessions, NEW c
      PROVE  Completing(tasks, s) \in Tsk /\ Reconciled(tasks, s, c) \in Tsk
  <2>1. At("hooks", s) \in KnownTask BY <1>1, KnownTasks DEF Places
  <2>2. [tasks EXCEPT ![Completion(s)] = At("hooks", s)] \in Tsk BY <1>3, <2>1
  <2>3. Completing(tasks, s) \in Tsk BY <2>2 DEF Completing
  <2> QED BY <2>3 DEF Reconciled
<1>5. ASSUME NEW t \in Tasks, task[t].s \in Sessions, Learn(task[t]) PROVE claims' \in Clm
  <2>1. Learned(task[t]) \in KnownClaim BY <1>1, <1>5, KnownReplies
  <2> QED BY <1>1, <1>5, <2>1 DEF Learn
<1>6. Off \in KnownTask /\ \A p \in Places : \A s \in Sessions \union {NoSession} : At(p, s) \in KnownTask
  BY <1>1, KnownTasks
<1>7. \A s \in Sessions : \A c \in KnownClaim : \A st \in ClaimTxStatus :
        WithStatus(c, st) \in KnownClaim /\ CasCall(s, c, WithStatus(c, st)) \in KnownTask
  <2>1. \A c \in KnownClaim : \A st \in ClaimTxStatus : WithStatus(c, st) \in KnownClaim BY <1>1, KnownShapes
  <2>2. \A s \in Sessions : \A c, d \in KnownClaim : CasCall(s, c, d) \in KnownTask BY <1>1, KnownTasks
  <2> QED BY <2>1, <2>2
\* The database.
<1>8. ASSUME NEW t \in Tasks, Database(t) PROVE BytesInv'
  <2> DEFINE k == task[t]
  <2>1. DbFrame /\ k.s \in Sessions BY <1>8, DatabaseMoves
  <2>2. k \in KnownTask /\ db[k.s] \in KnownRow BY <1>1, <2>1
  <2>3. k.new \in KnownClaim BY <1>1, <2>2, KnownTasks
  <2>4. ASSUME NEW x \in {"none", "ok", "no", "error"}, Answer(t, x) PROVE task' \in Tsk
    <3>1. [k EXCEPT !.reply = x] \in KnownTask BY <1>1, <2>2, KnownTasks
    <3>2. task' = [task EXCEPT ![t] = [k EXCEPT !.reply = x]] BY <1>1, <2>4 DEF Answer
    <3> QED BY <1>1, <1>3, <3>1, <3>2
  <2>5. ASSUME NEW hit, NEW row \in KnownRow, Update(t, hit, row) PROVE db' \in Rws /\ task' \in Tsk
    <3>1. \E x \in {"none", "ok", "no", "error"} : Answer(t, x) BY <2>5 DEF Update
    <3>2. db' = db \/ db' = [db EXCEPT ![k.s] = row] BY <2>5 DEF Update
    <3> QED BY <1>1, <2>4, <3>1, <3>2
  <2>6. db' \in Rws /\ task' \in Tsk
    <3>1. CASE TryCreateClaim(t)
      <4>1. [status |-> "claiming", claim |-> k.new] \in KnownRow BY <2>3 DEF KnownRow
      <4> QED BY <2>5, <3>1, <4>1 DEF TryCreateClaim
    <3>2. CASE CompareAndSetClaim(t)
      <4> DEFINE to == IF k.new.st \in {"reverted", "failed"} THEN "failed" ELSE "claiming"
      <4>1. [status |-> to, claim |-> k.new] \in KnownRow BY <2>3 DEF KnownRow
      <4> QED BY <2>5, <3>2, <4>1 DEF CompareAndSetClaim
    <3>3. CASE FinalizeConfirmedRow(t)
      <4>1. [db[k.s] EXCEPT !.status = "finished"] \in KnownRow BY <2>2 DEF KnownRow
      <4> QED BY <2>5, <3>3, <4>1 DEF FinalizeConfirmedRow
    <3>4. CASE GetSession(t)
      <4>1. db' = db BY <3>4 DEF GetSession
      <4>2. CASE Answer(t, "error") BY <1>1, <2>4, <4>1, <4>2
      <4>3. CASE task' = [task EXCEPT ![t].reply = "ok", ![t].row = db[k.s]]
        <5>1. [k EXCEPT !.reply = "ok", !.row = db[k.s]] \in KnownTask BY <1>1, <2>2, KnownTasks
        <5>2. task' = [task EXCEPT ![t] = [k EXCEPT !.reply = "ok", !.row = db[k.s]]] BY <1>1, <4>3
        <5> QED BY <1>1, <1>3, <4>1, <5>1, <5>2
      <4> QED BY <3>4, <4>2, <4>3 DEF GetSession
    <3> QED BY <1>8, <3>1, <3>2, <3>3, <3>4 DEF Database
  <2> QED BY <1>1, <1>2, <2>1, <2>6 DEF DbFrame, memory, wallet
\* transitionClaim continues.
<1>9. ASSUME NEW t \in Transitioners, TransitionRetry(t) PROVE BytesInv'
  <2> DEFINE k == task[t]
  <2>1. t \in Tasks BY TransitionerKinds
  <2>2. k.s \in Sessions
    <3>1. k.pc \in {"cas", "read"} BY <1>9 DEF TransitionRetry
    <3>2. CASE t = Queue BY <3>1, <3>2, QueueClaim
    <3>3. ASSUME NEW s \in Sessions, t \in {Broadcast(s), Receipt(s)} PROVE k.s \in Sessions
      BY <3>1, <3>3, ReconcilerClaim DEF ReconcilerTasks
    <3> QED BY <3>2, <3>3, TransitionerKinds
  <2>3. claims' \in Clm BY <1>5, <1>9, <2>1, <2>2 DEF TransitionRetry
  <2>4. k \in KnownTask BY <1>1, <2>1
  <2>5. task' \in Tsk
    <3>1. [k EXCEPT !.pc = "read", !.reply = "none", !.err = k.reply = "error"] \in KnownTask
      BY <1>1, <2>4, KnownTasks
    <3>2. [CasCall(k.s, k.exp, k.new) EXCEPT !.try = k.try] \in KnownTask BY <1>1, <2>2, <2>4, KnownTasks
    <3>3. \E j \in KnownTask : task' = [task EXCEPT ![t] = j] BY <1>9, <3>1, <3>2 DEF TransitionRetry, Goto
    <3> QED BY <1>1, <1>3, <3>3
  <2> QED BY <1>1, <1>2, <1>9, <2>3, <2>5 DEF TransitionRetry, durable, wallet, bounds
\* The handlers.
<1>10. ASSUME NEW r \in Requests, Create(r) \/ \E s \in Sessions : ClaimReward(r, s) PROVE BytesInv'
  <2> DEFINE k == task[Request(r)]
  <2>1. RequestSound(k, db, claims) /\ Request(r) \in Tasks BY AreTasks, KindSound DEF PayInv, TasksSound
  <2>2. k \in KnownTask /\ (k.pc # "off" => k.s \in Sessions) BY <1>1, <2>1 DEF RequestSound
  <2>3. \E j \in KnownTask : task' = [task EXCEPT ![Request(r)] = j]
    <3>1. CASE RejectClaim(r) \/ ClaimCreated(r) BY <1>6, <3>1 DEF RejectClaim, ClaimCreated, Goto
    <3>2. CASE CreateClaim(r)
      <4>1. nextIdx \in 0 .. MaxIdx /\ k.s \in Sessions BY <2>2, <3>2 DEF CreateClaim, ListsInv, ClaimAssumption
      <4>2. QueuedClaim(nextIdx) \in KnownClaim BY <1>1, <4>1, KnownShapes
      <4>3. [At("create", k.s) EXCEPT !.new = QueuedClaim(nextIdx)] \in KnownTask BY <1>1, <4>1, <4>2, KnownTasks
      <4> QED BY <3>2, <4>3 DEF CreateClaim, Goto
    <3>3. ASSUME NEW s \in Sessions, ClaimReward(r, s) PROVE \E j \in KnownTask : task' = [task EXCEPT ![Request(r)] = j]
      <4>1. At("hooks", s) \in KnownTask BY <1>6 DEF Places
      <4> QED BY <3>3, <4>1 DEF ClaimReward, Goto
    <3> QED BY <1>10, <3>1, <3>2, <3>3 DEF Create
  <2>4. task' \in Tsk BY <1>1, <1>3, <2>3
  <2>5. claims' \in Clm
    <3>1. CASE ClaimCreated(r)
      <4>1. k.s \in Sessions /\ k.new \in KnownClaim BY <1>1, <2>2, <3>1, KnownTasks DEF ClaimCreated
      <4> QED BY <1>1, <3>1, <4>1 DEF ClaimCreated
    <3>2. CASE ~ClaimCreated(r)
      <4>1. claims' = claims BY <1>10, <3>2 DEF Create, RejectClaim, CreateClaim, ClaimReward, memory
      <4> QED BY <1>1, <4>1
    <3> QED BY <3>1, <3>2
  <2>6. UNCHANGED <<durable, wallet, bounds>>
    BY <1>10 DEF Create, RejectClaim, CreateClaim, ClaimCreated, ClaimReward
  <2> QED BY <1>1, <1>2, <2>4, <2>5, <2>6 DEF durable, wallet, bounds
\* The chain and the phases.
<1>11. ASSUME NEW x \in pool, Mine(x) PROVE BytesInv'
  <2>1. x \in KnownTx /\ x.nonce = chainNonce /\ chainNonce' = chainNonce + 1 BY <1>1, <1>11 DEF Mine
  <2>2. chainNonce' \in 0 .. signed BY <1>1, <2>1 DEF KnownTx
  <2>3. PICK ok \in BOOLEAN : mined' = mined \union {[tx |-> x, ok |-> ok]} BY <1>11 DEF Mine
  <2>4. mined' \subseteq [tx : KnownTx, ok : BOOLEAN] BY <1>1, <2>1, <2>3
  <2> QED BY <1>1, <1>2, <1>11, <2>2, <2>4 DEF Mine, memory, wallet, bounds
<1>12. ASSUME NEW s \in Sessions, TryTimeoutSession(s) PROVE BytesInv'
  <2>1. db' = [db EXCEPT ![s].status = "failed"] /\ db[s] \in KnownRow BY <1>1, <1>12 DEF TryTimeoutSession
  <2>2. [db[s] EXCEPT !.status = "failed"] \in KnownRow BY <2>1 DEF KnownRow
  <2>3. db' \in Rws BY <1>1, <2>1, <2>2
  <2> QED BY <1>1, <1>2, <1>12, <2>3 DEF TryTimeoutSession, memory, wallet, bounds
<1>13. CASE Dispose \/ UNCHANGED vars
  BY <1>1, <1>2, <1>13 DEF Dispose, vars, durable, memory, wallet, bounds
<1>14. NoClaim \in KnownClaim BY <1>1, KnownShapes
<1>15. CASE Stop
  <2>1. claims' \in Clm /\ task' \in Tsk BY <1>6, <1>14, <1>15 DEF Stop
  <2>2. reserved' = {} /\ nonce' = 0 /\ UNCHANGED <<durable, signed>> BY <1>15 DEF Stop
  <2> QED BY <1>1, <1>2, <2>1, <2>2 DEF durable
<1>16. CASE Initialize
  <2> DEFINE active == Claiming({"prepared", "pending"})
             txs == {db[s].claim.tx : s \in active}
  <2>1. claims' \in Clm
    <3>1. \A s \in Sessions : db[s].claim \in KnownClaim BY <1>1 DEF KnownRow
    <3>2. PICK owned : claims' = [s \in Sessions |-> IF s \in owned THEN db[s].claim ELSE NoClaim]
      BY <1>16 DEF Initialize
    <3> QED BY <1>14, <3>1, <3>2
  <2>2. task' \in Tsk
    <3>1. \A s \in Sessions : At("send", s) \in KnownTask /\ At("watch", s) \in KnownTask /\ At("hooks", s) \in KnownTask
      BY <1>6 DEF Places
    <3>2. \A st : Claiming(st) \subseteq Sessions BY DEF Claiming
    <3>3. \A s \in Sessions : Broadcast(s)[2] = s /\ Receipt(s)[2] = s /\ Completion(s)[2] = s
      BY DEF Broadcast, Receipt, Completion
    <3> QED BY <1>6, <1>16, <3>1, <3>2, <3>3 DEF Initialize
  <2>3. txs \subseteq KnownTx
    <3>1. \A s \in active : s \in Sessions /\ Signed(db[s].claim) BY DEF Claiming, Signed
    <3> QED BY <3>1, SignedIsKnown
  <2>4. reserved' = txs /\ LoadWalletState(txs, NonceAbove(0, txs)) /\ UNCHANGED <<durable, bounds>>
    BY <1>16 DEF Initialize
  <2>5. NonceAbove(0, txs) \subseteq 0 .. signed
    <3>1. \A x \in txs : x.nonce + 1 \in 0 .. signed BY <1>1, <2>3 DEF KnownTx
    <3> HIDE DEF txs
    <3> QED BY <1>1, <3>1 DEF NonceAbove
  <2> HIDE DEF txs
  <2>6. nonce' \in 0 .. signed BY <2>3, <2>4, <2>5, LoadedBelow
  <2> QED BY <1>1, <1>2, <2>1, <2>2, <2>3, <2>4, <2>6 DEF durable, bounds
\* The queue.
<1>17. CASE ProcessQueue \/ QueueAborted
  <2>1. At("loop", NoSession) \in KnownTask BY <1>6 DEF Places
  <2>2. task' \in Tsk BY <1>1, <1>3, <1>6, <1>17, <2>1 DEF ProcessQueue, QueueAborted, Goto
  <2> QED BY <1>1, <1>2, <1>17, <2>2 DEF ProcessQueue, QueueAborted, QueueFrame, durable, memory, wallet
<1>18. CASE ProcessQueueTx
  <2>1. PICK s \in Sessions :
          \/ task' = [task EXCEPT ![Queue] = At("loop", NoSession)]
          \/ task' = [task EXCEPT ![Queue] = At("sign", s)]
          \/ task' = [task EXCEPT ![Queue] = CasCall(s, claims[s], WithStatus(claims[s], "failed"))]
    BY <1>18 DEF ProcessQueueTx, Goto
  <2>2. At("loop", NoSession) \in KnownTask /\ At("sign", s) \in KnownTask BY <1>6 DEF Places
  <2>3. CasCall(s, claims[s], WithStatus(claims[s], "failed")) \in KnownTask BY <1>1, <1>7 DEF ClaimTxStatus
  <2>4. task' \in Tsk BY <1>1, <1>3, <2>1, <2>2, <2>3
  <2> QED BY <1>1, <1>2, <1>18, <2>4 DEF ProcessQueueTx, QueueFrame, durable, wallet
<1>19. CASE PrepareFails
  <2> DEFINE s == task[Queue].s
             j == CasCall(s, claims[s], WithStatus(claims[s], "failed"))
  <2>1. s \in Sessions BY <1>19, QueueClaim DEF PrepareFails
  <2>2. j \in KnownTask BY <1>1, <1>7, <2>1 DEF ClaimTxStatus
  <2>3. task' = [task EXCEPT ![Queue] = j] BY <1>19 DEF PrepareFails, Goto
  <2> HIDE DEF j
  <2>4. task' \in Tsk BY <1>1, <1>3, <2>2, <2>3
  <2> QED BY <1>1, <1>2, <1>19, <2>4 DEF PrepareFails, QueueFrame, durable, memory, wallet
\* Only prepareClaimTx signs: the new bytes carry the nonce the wallet has reached.
<1>20. CASE PrepareClaimTx
  <2> DEFINE s == task[Queue].s
             tx == [s |-> s, nonce |-> nonce, sig |-> signed + 1]
             j == CasCall(s, claims[s], WithTx(claims[s], tx))
  <2>1. s \in Sessions BY <1>20, QueueClaim DEF PrepareClaimTx
  <2>2. /\ signed' = signed + 1 /\ signed' \in 0 .. MaxSigned /\ nonce' = nonce + 1 /\ reserved' = reserved \union {tx}
        /\ task' = [task EXCEPT ![Queue] = j] /\ UNCHANGED <<durable, claims>>
    BY <1>1, <1>20 DEF PrepareClaimTx, QueueFrame, memory, Goto
  <2>3. signed' \in Nat /\ signed <= signed' BY <1>1, <2>2
  <2>4. tx \in KnownTx' BY <1>1, <2>1, <2>2 DEF KnownTx
  <2>5. /\ KnownTx \subseteq KnownTx' /\ KnownClaim \subseteq KnownClaim' /\ KnownRow \subseteq KnownRow'
        /\ KnownTask \subseteq KnownTask'
    BY <1>1, <2>3, KnownGrows
  <2>6. claims[s] \in KnownClaim' BY <1>1, <2>1, <2>5
  <2> HIDE DEF tx
  <2>7. WithTx(claims[s], tx) \in KnownClaim'
    <3>1. ASSUME NEW c \in KnownClaim', NEW x \in KnownTx' PROVE WithTx(c, x) \in KnownClaim'
      BY <3>1 DEF KnownClaim, WithTx, ClaimTxStatus
    <3> QED BY <2>4, <2>6, <3>1
  <2>8. j \in KnownTask'
    <3>1. ASSUME NEW c \in KnownClaim', NEW d \in KnownClaim' PROVE CasCall(s, c, d) \in KnownTask'
      <4> DEFINE a == At("cas", s)
      <4>1. a \in KnownTask' BY <1>6, <2>1, <2>5 DEF Places
      <4>2. CasCall(s, c, d) = [a EXCEPT !.exp = c, !.new = d] BY DEF CasCall
      <4> HIDE DEF a
      <4> QED BY <3>1, <4>1, <4>2 DEF KnownTask
    <3> QED BY <2>6, <2>7, <3>1
  <2> HIDE DEF j
  <2>9. task' \in [Tasks -> KnownTask'] BY <1>1, <2>2, <2>5, <2>8
  <2>10. db' \in [Sessions -> KnownRow'] /\ claims' \in [Sessions -> KnownClaim'] BY <1>1, <2>2, <2>5 DEF durable
  <2>11. pool' \subseteq KnownTx' /\ reserved' \subseteq KnownTx' BY <1>1, <2>2, <2>4, <2>5 DEF durable
  <2>12. mined' \subseteq [tx : KnownTx', ok : BOOLEAN] BY <1>1, <2>2, <2>5 DEF durable
  <2>13. chainNonce' \in 0 .. signed' /\ nonce' \in 0 .. signed' BY <1>1, <2>2 DEF durable
  <2> QED BY <2>2, <2>9, <2>10, <2>11, <2>12, <2>13 DEF BytesInv
<1>21. ASSUME QueuePrepared \/ QueueFailed \/ QueueLost
       PROVE  task[Queue].s \in Sessions /\ claims' \in Clm
  <2>1. task[Queue].s \in Sessions BY <1>21, QueueClaim DEF QueuePrepared, QueueFailed, QueueLost, Over
  <2>2. Learn(task[Queue]) BY <1>21 DEF QueuePrepared, QueueFailed, QueueLost, Over
  <2> QED BY <1>5, <2>1, <2>2, AreTasks
<1>22. CASE QueuePrepared
  <2> DEFINE s == task[Queue].s
  <2>1. At("loop", NoSession) \in KnownTask /\ At("send", s) \in KnownTask /\ At("watch", s) \in KnownTask
    BY <1>6, <1>21, <1>22 DEF Places
  <2>2. \/ task' = [task EXCEPT ![Queue] = At("loop", NoSession), ![Broadcast(s)] = At("send", s),
                                ![Receipt(s)] = At("watch", s)]
        \/ task' = [task EXCEPT ![Queue] = At("loop", NoSession)]
    BY <1>22 DEF QueuePrepared, Goto
  <2>3. task' \in Tsk BY <1>1, <2>1, <2>2
  <2> QED BY <1>1, <1>2, <1>21, <1>22, <2>3 DEF QueuePrepared, QueueFrame, durable, wallet
<1>23. CASE QueueFailed
  <2>1. At("loop", NoSession) \in KnownTask BY <1>6 DEF Places
  <2>2. task' \in Tsk BY <1>1, <1>3, <1>23, <2>1 DEF QueueFailed, Goto
  <2> QED BY <1>1, <1>2, <1>21, <1>23, <2>2 DEF QueueFailed, QueueFrame, durable, wallet
<1>24. CASE QueueLost
  <2> DEFINE j == IF Outcome(task[Queue]) = "threw" THEN Off ELSE At("loop", NoSession)
             s == task[Queue].s
             tasks == [task EXCEPT ![Queue] = j]
  <2>1. j \in KnownTask BY <1>6 DEF Places
  <2>2. tasks \in Tsk BY <1>1, <1>3, <2>1
  <2>3. task' = Reconciled(tasks, s, Observed(task[Queue])) /\ reserved' \subseteq reserved
    BY <1>24 DEF QueueLost, ReconcileTerminal
  <2> HIDE DEF tasks
  <2>4. task' \in Tsk BY <1>4, <1>21, <1>24, <2>2, <2>3
  <2> QED BY <1>1, <1>2, <1>21, <1>24, <2>3, <2>4 DEF QueueLost, QueueFrame, durable
<1>25. CASE QueueDone
  <2>1. task' \in Tsk BY <1>1, <1>3, <1>6, <1>25 DEF QueueDone, Goto
  <2>2. nonce' \in 0 .. signed
    <3>1. {0} \subseteq 0 .. signed BY <1>1
    <3>2. CASE nonce' = nonce BY <1>1, <3>2
    <3>3. CASE LoadWalletState(reserved, {0}) BY <1>1, <3>1, <3>3, LoadedBelow
    <3> QED BY <1>25, <3>2, <3>3 DEF QueueDone
  <2> QED BY <1>1, <1>2, <1>25, <2>1, <2>2 DEF QueueDone, QueueFrame, durable, memory
\* The reconciliation of session s.
<1>26. ASSUME NEW s \in Sessions, Rebroadcast(s) \/ AwaitReceipt(s) \/ Complete(s) PROVE BytesInv'
  <2>1. PICK c : ReconcilerStep(s, c) BY <1>26, ReconcilerEffect, CompletionEffect
  <2>2. /\ UNCHANGED <<db, mined, chainNonce, nonce, signed>> /\ reserved' \subseteq reserved
    BY <2>1 DEF ReconcilerStep
  <2>3. Broadcast(s) \in Tasks /\ Receipt(s) \in Tasks /\ Completion(s) \in Tasks BY AreTasks
  <2>4. \A p \in {"send", "watch", "retry", "hooks", "read", "finalize"} : At(p, s) \in KnownTask
    BY <1>6 DEF Places
  <2>5. claims[s] \in KnownClaim BY <1>1
  <2>6. \A t \in ReconcilerTasks(s) : task[t].pc # "off" => task[t].s = s /\ Signed(claims[s])
    BY ReconcilerClaim
  <2>7. ASSUME NEW t \in Tasks, NEW j \in KnownTask, NEW o,
               \/ task' = [task EXCEPT ![t] = j]
               \/ task' = Completing([task EXCEPT ![t] = j], s)
               \/ task' = Reconciled([task EXCEPT ![t] = j], s, o)
        PROVE  task' \in Tsk
    <3> DEFINE tasks == [task EXCEPT ![t] = j]
    <3>1. tasks \in Tsk BY <1>1, <1>3
    <3>2. task' = tasks \/ task' = Completing(tasks, s) \/ task' = Reconciled(tasks, s, o) BY <2>7
    <3> HIDE DEF tasks
    <3>3. Completing(tasks, s) \in Tsk BY <1>4, <3>1
    <3>4. Reconciled(tasks, s, o) \in Tsk BY <1>4, <3>1
    <3> QED BY <3>1, <3>2, <3>3, <3>4
  <2>8. pool' \subseteq KnownTx /\ claims' \in Clm /\ task' \in Tsk
    <3>1. CASE Retry(Broadcast(s), "send") \/ Retry(Receipt(s), "watch")
      <4>1. PICK t \in {Broadcast(s), Receipt(s)}, p \in {"send", "watch"} : Retry(t, p) BY <3>1
      <4>2. task[t].s = s BY <2>6, <4>1 DEF Retry, ReconcilerTasks
      <4>3. task' = [task EXCEPT ![t] = At(p, s)] \/ task' = [task EXCEPT ![t] = Off]
        BY <4>1, <4>2 DEF Retry, Goto
      <4>4. task' \in Tsk BY <1>6, <2>3, <2>4, <2>7, <4>1, <4>3
      <4> QED BY <1>1, <3>1, <4>4 DEF Retry
    <3>2. CASE BroadcastAcked(s) \/ BroadcastUnacked(s)
      <4>1. Signed(claims[s]) BY <2>6, <3>2 DEF BroadcastAcked, BroadcastUnacked, ReconcilerTasks
      <4>2. claims[s].tx \in KnownTx BY <4>1, SignedIsKnown
      <4>3. CasCall(s, claims[s], WithStatus(claims[s], "pending")) \in KnownTask
        BY <1>7, <2>5 DEF ClaimTxStatus
      <4>4. \/ task' = [task EXCEPT ![Broadcast(s)] = CasCall(s, claims[s], WithStatus(claims[s], "pending"))]
            \/ task' = [task EXCEPT ![Broadcast(s)] = Off]
            \/ task' = [task EXCEPT ![Broadcast(s)] = At("retry", s)]
        BY <3>2 DEF BroadcastAcked, BroadcastUnacked, Goto
      <4>5. task' \in Tsk BY <1>6, <2>3, <2>4, <2>7, <4>3, <4>4
      <4>6. claims' = claims /\ pool' \subseteq pool \union {claims[s].tx}
        BY <3>2 DEF BroadcastAcked, BroadcastUnacked
      <4> QED BY <1>1, <4>2, <4>5, <4>6
    <3>3. CASE BroadcastTransition(s)
      <4> DEFINE k == task[Broadcast(s)]
      <4>1. Learn(k) /\ k.s = s BY <2>6, <3>3 DEF BroadcastTransition, Over, ReconcilerTasks
      <4>2. claims' \in Clm BY <1>5, <2>3, <4>1
      <4>3. \/ task' = [task EXCEPT ![Broadcast(s)] = Off]
            \/ task' = Reconciled([task EXCEPT ![Broadcast(s)] = Off], s, Observed(k))
            \/ task' = Reconciled([task EXCEPT ![Broadcast(s)] = At("retry", s)], s, Observed(k))
        BY <3>3 DEF BroadcastTransition, Goto
      <4>4. task' \in Tsk BY <1>6, <2>3, <2>4, <2>7, <4>3
      <4> QED BY <1>1, <3>3, <4>2, <4>4 DEF BroadcastTransition
    <3>4. CASE ReceiptArrives(s)
      <4>1. PICK o \in {"confirmed", "reverted"} : task' = [task EXCEPT ![Receipt(s)] = Settle(s, claims[s], o, 0)]
        BY <3>4 DEF ReceiptArrives, Goto
      <4>2. Settle(s, claims[s], o, 0) \in KnownTask BY <2>5, KnownReplies DEF ClaimTxStatus
      <4>3. task' \in Tsk BY <2>3, <2>7, <4>1, <4>2
      <4> QED BY <1>1, <3>4, <4>3 DEF ReceiptArrives
    <3>5. CASE ReceiptAborted(s)
      <4>1. task' \in Tsk BY <1>6, <2>3, <2>7, <3>5 DEF ReceiptAborted, Goto
      <4> QED BY <1>1, <3>5, <4>1 DEF ReceiptAborted
    <3>6. CASE ReceiptSettled(s)
      <4> DEFINE k == task[Receipt(s)]
      <4>1. Learn(k) /\ k.s = s BY <2>6, <3>6 DEF ReceiptSettled, Over, ReconcilerTasks
      <4>2. claims' \in Clm BY <1>5, <2>3, <4>1
      <4>3. \/ task' = [task EXCEPT ![Receipt(s)] = Off]
            \/ task' = Completing([task EXCEPT ![Receipt(s)] = Off], s)
        BY <3>6 DEF ReceiptSettled, Goto
      <4>4. task' \in Tsk BY <1>6, <2>3, <2>7, <4>3
      <4> QED BY <1>1, <3>6, <4>2, <4>4 DEF ReceiptSettled
    <3>7. CASE ReceiptLost(s)
      <4> DEFINE k == task[Receipt(s)]
                 j == Settle(s, Learned(k), k.new.st, k.try + 1)
      <4>1. Learn(k) /\ k.s = s /\ k.pc \in {"cas", "read"} BY <2>6, <3>7 DEF ReceiptLost, Over, ReconcilerTasks
      <4>2. claims' \in Clm BY <1>5, <2>3, <4>1
      <4>3. k \in KnownTask BY <1>1, <2>3
      <4>4. j \in KnownTask
        <5>1. k.new.st \in ClaimTxStatus BY <4>1 DEF CustodyInv, ReceiptsSettle, Writing, Settled, ClaimTxStatus
        <5>2. k.try + 1 \in Nat BY <2>3 DEF PayInv, Shape, TaskRec
        <5>3. Learned(k) \in KnownClaim BY <4>1, <4>3, KnownReplies
        <5> QED BY <5>1, <5>2, <5>3, KnownReplies
      <4>5. \/ task' = Reconciled([task EXCEPT ![Receipt(s)] = j], s, Observed(k))
            \/ task' = Reconciled([task EXCEPT ![Receipt(s)] = Off], s, Observed(k))
            \/ task' = Reconciled([task EXCEPT ![Receipt(s)] = At("retry", s)], s, Observed(k))
        BY <3>7 DEF ReceiptLost
      <4> HIDE DEF j
      <4>6. task' \in Tsk BY <1>6, <2>3, <2>4, <2>7, <4>4, <4>5
      <4> QED BY <1>1, <3>7, <4>2, <4>6 DEF ReceiptLost
    <3>8. CASE ClaimedHooks(s) \/ ClaimedHooksFail(s) \/ FinalizeLookup(s)
      <4>1. [At("finalize", s) EXCEPT !.exp = claims[s]] \in KnownTask BY <1>1, <2>5, KnownTasks
      <4>2. \/ task' = [task EXCEPT ![Completion(s)] = [At("finalize", s) EXCEPT !.exp = claims[s]]]
            \/ task' = [task EXCEPT ![Completion(s)] = Off]
            \/ task' = [task EXCEPT ![Completion(s)] = At("hooks", s)]
            \/ task' = [task EXCEPT ![Completion(s)] = At("read", s)]
        BY <3>8 DEF ClaimedHooks, ClaimedHooksFail, FinalizeLookup, Goto
      <4>3. task' \in Tsk BY <1>6, <2>3, <2>4, <2>7, <4>1, <4>2
      <4> QED BY <1>1, <3>8, <4>3 DEF ClaimedHooks, ClaimedHooksFail, FinalizeLookup, CompletionFrame
    <3>9. CASE CompletionDone(s) \/ FinalizeRetry(s)
      <4> DEFINE k == task[Completion(s)]
      <4>1. k \in KnownTask BY <1>1, <2>3
      <4>2. k.row.claim \in KnownClaim BY <1>1, <4>1, KnownTasks
      <4>3. PICK now \in {k.row.claim, claims[s]} :
              /\ claims' = [claims EXCEPT ![s] = now]
              /\ \/ task' = [task EXCEPT ![Completion(s)] = Off]
                 \/ \E o : \/ task' = Reconciled([task EXCEPT ![Completion(s)] = Off], s, o)
                           \/ task' = Reconciled([task EXCEPT ![Completion(s)] =
                                                     [At("finalize", s) EXCEPT !.exp = now]], s, o)
        <5>1. CASE CompletionDone(s) BY <5>1 DEF CompletionDone, Goto
        <5>2. CASE FinalizeRetry(s) BY <5>2 DEF FinalizeRetry
        <5> QED BY <3>9, <5>1, <5>2
      <4>4. now \in KnownClaim BY <2>5, <4>2, <4>3
      <4>5. [At("finalize", s) EXCEPT !.exp = now] \in KnownTask BY <1>1, <4>4, KnownTasks
      <4>6. task' \in Tsk BY <1>6, <2>3, <2>7, <4>3, <4>5
      <4>7. pool' = pool BY <3>9 DEF CompletionDone, FinalizeRetry, CompletionFrame
      <4> QED BY <1>1, <4>3, <4>4, <4>6, <4>7
    <3> QED BY <1>26, <3>1, <3>2, <3>3, <3>4, <3>5, <3>6, <3>7, <3>8, <3>9 DEF Rebroadcast, AwaitReceipt, Complete
  <2> QED BY <1>1, <1>2, <2>2, <2>8
<1> QED BY <1>8, <1>9, <1>10, <1>11, <1>12, <1>13, <1>15, <1>16, <1>17, <1>18, <1>19, <1>20, <1>22, <1>23, <1>24,
           <1>25, <1>26 DEF Next, RunQueue

\* Initially nothing is signed.
LEMMA InitKnown == Init /\ ClaimAssumption => BytesInv /\ ListsInv
<1> SUFFICES ASSUME Init, ClaimAssumption PROVE BytesInv /\ ListsInv OBVIOUS
<1>1. signed = 0 /\ signed \in Nat BY DEF Init
<1>2. Off \in KnownTask /\ NoClaim \in KnownClaim BY <1>1, KnownTasks, KnownShapes
<1>3. [NoClaim EXCEPT !.st = "processing", !.idx = 1] \in KnownClaim
  <2>1. 1 \in 0 .. MaxIdx BY DEF ClaimAssumption
  <2> QED BY <1>2, <2>1 DEF KnownClaim
<1>4. db \in [Sessions -> KnownRow] BY <1>2, <1>3 DEF Init, KnownRow
<1>5. claims \in [Sessions -> KnownClaim] /\ task \in [Tasks -> KnownTask] BY <1>2 DEF Init
<1>6. BytesInv BY <1>1, <1>4, <1>5 DEF Init, BytesInv, ClaimAssumption
<1>7. queue \in Seq(Sessions) BY DEF Init
<1>8. ListsInv BY <1>7 DEF Init, ListsInv
<1> QED BY <1>6, <1>8

\* What is known is within the bounds.
LEMMA KnownIsTyped == ClaimAssumption /\ BytesInv /\ ListsInv => TypeOK
<1> SUFFICES ASSUME ClaimAssumption, BytesInv, ListsInv PROVE TypeOK OBVIOUS
<1>1. signed \in Nat /\ MaxSigned \in Nat /\ signed <= MaxSigned BY DEF BytesInv, ClaimAssumption
<1>2. KnownTx \subseteq Txs BY <1>1 DEF KnownTx, Txs
<1>3. KnownClaim \subseteq Claims BY <1>2 DEF KnownClaim, Claims
<1>4. KnownRow \subseteq Rows BY <1>3 DEF KnownRow, Rows
<1>5. KnownTask \subseteq TaskStates BY <1>3, <1>4 DEF KnownTask, TaskStates, Places
<1>6. db \in [Sessions -> Rows] /\ claims \in [Sessions -> Claims] /\ task \in [Tasks -> TaskStates]
  BY <1>3, <1>4, <1>5 DEF BytesInv
<1>7. pool \subseteq Txs /\ reserved \subseteq Txs /\ mined \subseteq [tx : Txs, ok : BOOLEAN] BY <1>2 DEF BytesInv
<1>8. chainNonce \in Nat /\ nonce \in Nat BY <1>1 DEF BytesInv
<1> QED BY <1>6, <1>7, <1>8 DEF TypeOK, BytesInv, ListsInv

\* Every variable keeps its shape and its bounds: no more is signed, numbered or retried than the guards allow.
THEOREM TypeCorrect == Spec => []TypeOK
<1>1. PayInv /\ OutcomeInv /\ CustodyInv /\ BytesInv /\ ListsInv /\ [Next]_vars => (BytesInv /\ ListsInv)'
  BY ClaimAssumption, StepKnown, StepListed
<1>2. Init => BytesInv /\ ListsInv BY ClaimAssumption, InitKnown
<1>3. BytesInv /\ ListsInv => TypeOK BY ClaimAssumption, KnownIsTyped
<1> QED BY CustodyInvariance, <1>1, <1>2, <1>3, PTL DEF Spec

\* Over one SQLite worker and endpoints that know every mined transaction: no two live claims share a wallet nonce,
\* every signed claim that is not settled has its reservation, and the statistics of a session are written once.
THEOREM ExclusiveNonces == RpcLag = 0 /\ OrderedReplies /\ Spec => []NoncesAreExclusive
<1>1. TypeOK /\ NoNonceReuse /\ ActiveIsReserved /\ StatsOnce => NoncesAreExclusive BY DEF NoncesAreExclusive
<1> QED BY TypeCorrect, NonceUsedOnce, ReservedWhileActive, StatsWrittenOnce, <1>1, PTL
=============================================================================
