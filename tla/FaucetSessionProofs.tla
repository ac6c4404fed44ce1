------------------------ MODULE FaucetSessionProofs -------------------------
(***************************************************************************)
(* A session and its row agree, for every amount and every number of       *)
(* requests, database errors and restarts.  None of the properties is      *)
(* inductive by itself: the object decides on what a reply said of the row *)
(* some steps ago, while the other worker goes on.  SessionInv therefore   *)
(* relates the object to the row, says for every program point of the two  *)
(* workers what they may rely on (ChainSound, SaverSound), for every       *)
(* database call what its reply is still worth when it is read             *)
(* (CallSound), who waits for which save (SavesSound), what the start has  *)
(* left to do (StartSound), and what the hooks were told (HooksSound).     *)
(* The saver and the chain stay out of each other's way because the chain  *)
(* waits for the tail of the saves before it writes a terminal row         *)
(* (PastTail).                                                             *)
(***************************************************************************)
EXTENDS FaucetSession, TLAPS

Code == {"none", "low", "complete", "other", "timeout"}
Amount == Nat \union {-1}
Expected == FaucetSessionStatus \union {"none"}
MemRec == [status : FaucetSessionStatus, drop : Amount, data : 0..MaxData, code : Code,
           dirty : BOOLEAN, persist : {"absent", "durable", "uncertain"}, snapshot : Row,
           failure : {"none", "preparing", "pending", "complete"}, expected : Expected,
           already : BOOLEAN, failed : Row, disposed : BOOLEAN, completion : BOOLEAN,
           cancel : BOOLEAN, depth : 0..1]
Kinds == {"reward", "setDrop", "penalty", "complete", "fail", "timeout"}
OpRec == [kind : Kinds \union {"none"}, listed : Row, amount : Nat, default : BOOLEAN, owns : BOOLEAN,
          reject : BOOLEAN, expected : Expected, already : BOOLEAN, data : Row]
CallRec == [state : {"none", "sent", "done"},
            op : {"none", "insert", "update", "transition", "timeout", "read"}, data : Row,
            expected : Expected, reply : {"none", "ok", "no", "error"}, read : Row]
Savers == {"start", "timer", "timeout", "tail", "exit"}

\* Program points.
Saving == {"reconcile", "insert", "insertRead", "update", "updateSync"}
Failing == {"failReconcile", "failTransition", "failRead"}
Completing == {"completing", "commitTail", "commit", "claimable", "claimableRead"}
TimingOut == {"bareTimeout", "retry", "timeoutSave", "saved", "saveError", "timeout",
              "timeoutMissed", "timeoutRead"}
ChainPoints == {"idle", "factors", "accounting", "failHooks", "tail", "persist", "sync"}
                 \union Failing \union Completing \union TimingOut
SaverPoints == {"idle"} \union Saving \union Failing

\* The database call that is in flight at a program point.
CallOf(p) ==
  CASE p = "insert" -> "insert"
    [] p = "update" -> "update"
    [] p \in {"failTransition", "claimable"} -> "transition"
    [] p \in {"timeout", "bareTimeout"} -> "timeout"
    [] p \in {"reconcile", "insertRead", "updateSync", "failReconcile", "failRead", "claimableRead",
              "sync", "timeoutRead", "timeoutMissed"} -> "read"
    [] OTHER -> "none"

Shape ==
  /\ SessionAssumption /\ row \in Row /\ mem \in MemRec /\ chain \in OpRec
  /\ queue \in Seq(OpRec) /\ saves \in Seq(Savers)
  /\ pc \in [Workers -> ChainPoints \union SaverPoints] /\ call \in [Workers -> CallRec]
  /\ pc["chain"] \in ChainPoints /\ pc["saver"] \in SaverPoints
  /\ rollback \in {"none", "registered", "ran", "cleared"}
  /\ start \in {"new", "hooks", "saving", "saved", "saveError", "done"}
  /\ phase \in {"open", "stopped", "closed", "saving", "exited", "failedExit"}
  /\ reserved \in BOOLEAN /\ accounted \in Nat /\ completions \in 0..1

\* The object by itself.
Open == {"unknown", "starting", "running"}
HasFailure(m) == m.failure # "none" /\ m.failed.status = "failed" /\ m.expected \in Open
ObjectSound(m) ==
  /\ m.status = "claimable" => m.disposed
  /\ m.status = "failed" => m.failure # "none"
  /\ m.failure # "none" => m.status \in {"failed", "claimable"}
  /\ m.failure \in {"preparing", "pending"} => m.status = "failed"
  /\ m.failure = "complete" => m.disposed
  /\ m.failure = "pending" => HasFailure(m)
  /\ m.disposed => m.status \in {"unknown", "claimable", "failed"}
  /\ m.status = "committing" => m.drop # -1

\* The object and its row.
TimedOutRow(r) == r.status = "failed" /\ r.code = "timeout"
RowSound(m, r) ==
  /\ r.status = "absent" => r = Absent
  /\ r.status = "running" => ~m.disposed
  /\ r.status = "claimable" => m.status \notin {"starting", "running"}
  /\ m.persist = "absent" /\ m.status # "unknown" => r = Absent
  /\ m.already => r.status = "failed"
  /\ m.disposed /\ m.status = "failed" => r = Absent \/ r.status = "failed"
  /\ m.disposed /\ m.status = "claimable" => (r.status = "claimable" /\ r.drop = m.drop) \/ TimedOutRow(r)

\* The chain: what the locals and the object say at each point.
Committing(p, l) == p \in Completing \/ (p = "sync" /\ l.kind # "timeout")
ChainSound(p, l, m, r) ==
  /\ Committing(p, l) => /\ m.status = "committing" \/ m.disposed
                         /\ m.failure \in {"none", "complete"}
  /\ m.status = "committing" => Committing(p, l)
  /\ p \in {"failHooks", "tail", "persist"} => m.failure # "none"
  /\ p = "failHooks" => l.expected \in Open /\ r.status # "claimable" /\ m.status = "failed"
  /\ p \in {"factors", "accounting"} \union Completing => l.kind # "timeout"
  /\ p \in TimingOut => l.kind = "timeout"
  /\ p \in {"factors", "accounting"} \union TimingOut => l.expected = "none"
  /\ l.already => r.status = "failed"
  /\ p \in {"claimable", "claimableRead"} => l.data.status = "claimable" /\ l.data.drop = m.drop
  /\ p = "factors" <=> m.depth = 1

\* The saver: it does not touch the row while the chain ends the session, and has not read it as
\* claimable before the chain begins to.
PastTail(p, l) ==
  p \in {"persist", "commit", "claimable", "claimableRead"} \union Failing \/ (p = "sync" /\ l.kind # "timeout")
SaverSound(q, c, p, l, m, r) ==
  /\ q \in Saving => ~PastTail(p, l)
  /\ q \in Failing => ~Committing(p, l)
  /\ q \in {"insert", "reconcile"} => ~m.disposed \/ r # Absent
  /\ q \in {"insert", "reconcile", "insertRead"} => m.persist = "uncertain" \/ r # Absent
  /\ c.state = "done" /\ c.read.status = "claimable" =>
       p # "failHooks" /\ m.status \notin {"starting", "running"}

\* A database call c of a worker at point p.
CallSound(p, c, m, r, a) ==
  /\ c.op = CallOf(p)
  /\ c.op = "none" <=> c.state = "none"
  /\ p \in Failing => HasFailure(m)
  /\ c.op \in {"insert", "update"} \/ p = "reconcile" => c.data.status = "running"
  /\ p = "failTransition" => c.data.status = "failed" /\ c.expected \in Open
  /\ p = "claimable" => /\ c.data.status = "claimable" /\ c.expected = "running"
                        /\ c.data.drop = m.drop /\ (c.data.drop = a \/ m.disposed)
  /\ c.op = "timeout" => c.data.status \in {"running", "claimable"}
  /\ c.state = "done" =>
       /\ c.read # Absent => r # Absent
       /\ p \in {"reconcile", "insertRead", "failReconcile"} /\ c.read = Absent => r = Absent
       /\ IsTerminalStatus(c.read.status) => r = c.read \/ (c.read.status = "claimable" /\ TimedOutRow(r))
       /\ c.reply # "none"
       /\ c.op = "read" => c.reply # "no"
       /\ c.reply = "ok" /\ c.op \in {"insert", "update", "transition"} => c.read = c.data
       /\ c.reply = "ok" /\ c.op = "timeout" => r.status = "failed"

QueueSound(Q, p) ==
  /\ p # "idle" => Q # <<>>
  /\ \A i \in DOMAIN Q : /\ Q[i].expected = "none" /\ ~Q[i].already /\ Q[i].kind # "none"
                         /\ Q[i].kind = "timeout" => Q[i].listed.status \in {"running", "claimable"}

\* Who waits for a save.
SavesSound(S, p, q) ==
  /\ q # "idle" => S # <<>> /\ S[1] # "tail"
  /\ \A i \in DOMAIN S : /\ S[i] = "tail" => p \in {"commitTail", "tail"}
                         /\ S[i] = "timeout" => p \in {"retry", "timeoutSave"}
  /\ \A i, j \in DOMAIN S : S[i] \in {"tail", "timeout"} /\ S[j] \in {"tail", "timeout"} => i = j
  /\ \A i, j \in DOMAIN S : S[i] = "start" /\ S[j] = "start" => i = j

\* The start of the session.
StartSound(m, r, Q, S, p, q) ==
  /\ start = "new" => m.status = "unknown" /\ ~m.disposed /\ m.failure = "none" /\ Q = <<>> /\ p = "idle"
  /\ start # "new" => (reserved <=> ~m.disposed) /\ (m.status = "unknown" => m.disposed)
  /\ start \in {"new", "hooks"} =>
       /\ r = Absent /\ m.persist = "absent" /\ q = "idle" /\ \A i \in DOMAIN S : S[i] # "start"
       /\ m.status \in {"unknown", "starting", "failed"}
       /\ p \in {"idle", "factors", "accounting", "tail", "persist"}
       /\ \A i \in DOMAIN Q : Q[i].kind = "setDrop"
  /\ start = "hooks" => m.status # "unknown"
  /\ start = "saving" =>
       \/ r # Absent
       \/ /\ m.status = "running" /\ m.failure = "none" /\ Q = <<>> /\ p = "idle"
          /\ m.dirty \/ q \in Saving
  /\ \A i \in DOMAIN S : S[i] = "start" => start = "saving"
  /\ start = "saved" => r # Absent

\* What the hooks were told.
Norm(d) == IF d = -1 THEN 0 ELSE d
HooksSound(m, r, a, n) ==
  /\ m.disposed \/ a = Norm(m.drop)
  /\ r.status = "claimable" => r.drop = a
  /\ n = 1 => m.status \in {"committing", "failed", "claimable"}

RollbackSound(m, r, b) ==
  /\ b = "ran" => r.status \in {"absent", "failed"} /\ m.disposed
  /\ b = "cleared" => r # Absent

\* The inductive invariant.
SessionInv ==
  /\ Shape
  /\ ObjectSound(mem) /\ RowSound(mem, row)
  /\ ChainSound(pc["chain"], chain, mem, row)
  /\ SaverSound(pc["saver"], call["saver"], pc["chain"], chain, mem, row)
  /\ \A w \in Workers : CallSound(pc[w], call[w], mem, row, accounted)
  /\ QueueSound(queue, pc["chain"]) /\ SavesSound(saves, pc["chain"], pc["saver"])
  /\ StartSound(mem, row, queue, saves, pc["chain"], pc["saver"])
  /\ HooksSound(mem, row, accounted, completions) /\ RollbackSound(mem, row, rollback)

-----------------------------------------------------------------------------
(* The row.  Only the database changes it, and it changes nothing else of  *)
(* what the invariant is about.                                            *)

\* In the beginning nothing is stored, called or asked for.
LEMMA InitSound == SessionAssumption /\ Init => SessionInv
<1> SUFFICES ASSUME SessionAssumption, Init PROVE SessionInv OBVIOUS
<1> USE DEF Init, SessionAssumption
<1>1. Absent \in Row BY DEF Absent, Row
<1>2. NewSession \in MemRec
  BY <1>1 DEF NewSession, MemRec, FaucetSessionStatus, Code, Amount, Expected
<1>3. NoOp \in OpRec /\ NoCall \in CallRec
  BY <1>1 DEF NoOp, OpRec, NoCall, CallRec, Expected
<1>4. Shape
  <2>1. "idle" \in ChainPoints /\ "idle" \in SaverPoints BY DEF ChainPoints, SaverPoints
  <2>2. pc \in [Workers -> ChainPoints \union SaverPoints] /\ call \in [Workers -> CallRec]
    BY <1>3, <2>1
  <2>3. pc["chain"] = "idle" /\ pc["saver"] = "idle" BY DEF Workers
  <2>4. queue \in Seq(OpRec) /\ saves \in Seq(Savers) OBVIOUS
  <2>5. reserved \in BOOLEAN OBVIOUS
  <2>6. row \in Row /\ mem \in MemRec /\ chain \in OpRec BY <1>1, <1>2, <1>3
  <2>7. accounted \in Nat /\ completions \in 0..1 OBVIOUS
  <2>8. /\ rollback \in {"none", "registered", "ran", "cleared"}
        /\ start \in {"new", "hooks", "saving", "saved", "saveError", "done"}
        /\ phase \in {"open", "stopped", "closed", "saving", "exited", "failedExit"}
    OBVIOUS
  <2> HIDE DEF Init, SessionAssumption
  <2> QED BY <2>1, <2>2, <2>3, <2>4, <2>5, <2>6, <2>7, <2>8 DEF Shape
<1>5. /\ ObjectSound(mem) /\ RowSound(mem, row)
      /\ SaverSound(pc["saver"], call["saver"], pc["chain"], chain, mem, row)
      /\ QueueSound(queue, pc["chain"]) /\ SavesSound(saves, pc["chain"], pc["saver"])
  BY DEF ObjectSound, RowSound, SaverSound, QueueSound, SavesSound, NewSession, NoCall, Absent, Saving, Failing,
    PastTail, Workers, Open
<1>6. ChainSound(pc["chain"], chain, mem, row)
  BY DEF ChainSound, NewSession, Absent, Committing, Completing, TimingOut, Workers, NoOp
<1>7. \A w \in Workers : CallSound(pc[w], call[w], mem, row, accounted)
  BY DEF CallSound, NoCall, CallOf, Failing, Workers
<1>8. /\ StartSound(mem, row, queue, saves, pc["chain"], pc["saver"])
      /\ HooksSound(mem, row, accounted, completions) /\ RollbackSound(mem, row, rollback)
  BY DEF StartSound, HooksSound, RollbackSound, NewSession, Absent, Workers, Norm
<1> QED BY <1>4, <1>5, <1>6, <1>7, <1>8 DEF SessionInv

\* A terminal row stays, but an unclaimed claimable one may time out; a stored row stays stored.
Onward(r, s) ==
  /\ IsTerminalStatus(r.status) => s = r \/ (r.status = "claimable" /\ TimedOutRow(s))
  /\ r # Absent => s # Absent

\* Every statement the database executes moves the row on.
LEMMA EffectMovesOn ==
  ASSUME SessionInv, NEW w \in Workers, call[w].state = "sent"
  PROVE  LET s == Effect(call[w])[1]
             reply == Effect(call[w])[2]
         IN /\ s \in Row /\ Onward(row, s) /\ reply \in {"ok", "no", "error"}
            /\ call[w].op = "read" => s = row /\ reply = "ok"
            /\ reply = "ok" /\ call[w].op \in {"insert", "update", "transition"} => s = call[w].data
            /\ reply = "ok" /\ call[w].op = "timeout" => TimedOutRow(s)
            /\ \/ s = row
               \/ call[w].op = "insert" /\ row = Absent /\ s = call[w].data
               \/ call[w].op = "update" /\ row.status = "running" /\ s = call[w].data
               \/ call[w].op = "transition" /\ row.status = call[w].expected /\ s = call[w].data
               \/ /\ call[w].op = "timeout" /\ row.status = call[w].data.status
                  /\ s = [row EXCEPT !.status = "failed", !.code = "timeout"]
<1> DEFINE c == call[w]
<1>1. c \in CallRec /\ row \in Row /\ CallSound(pc[w], c, mem, row, accounted)
  BY DEF SessionInv, Shape
<1>2. c.data \in Row /\ c.op \in {"insert", "update", "transition", "timeout", "read"}
  BY <1>1 DEF CallRec, CallSound
<1>3. row.status = "absent" => row = Absent BY DEF SessionInv, RowSound
<1>4. CASE c.op = "insert"
  <2>1. Effect(c) = IF row = Absent THEN <<c.data, "ok">> ELSE <<row, "error">>
    BY <1>4 DEF Effect, InsertRunningSession
  <2>2. c.data.status = "running" BY <1>1, <1>4 DEF CallSound
  <2> QED BY <1>1, <1>2, <1>4, <2>1, <2>2 DEF Onward, Absent, IsTerminalStatus
<1>5. CASE c.op = "update"
  <2>1. Effect(c) = IF row.status = "running" THEN <<c.data, "ok">> ELSE <<row, "no">>
    BY <1>5 DEF Effect, UpdateRunningSession
  <2>2. c.data.status = "running" BY <1>1, <1>5 DEF CallSound
  <2> QED BY <1>1, <1>2, <1>5, <2>1, <2>2 DEF Onward, Absent, IsTerminalStatus
<1>6. CASE c.op = "transition"
  <2>1. Effect(c) = IF row.status = c.expected THEN <<c.data, "ok">> ELSE <<row, "no">>
    BY <1>6 DEF Effect, TransitionSession
  <2>2. c.data.status \in {"failed", "claimable"} /\ c.expected \in Open
    BY <1>1, <1>6 DEF CallSound, CallOf, Open
  <2> QED BY <1>1, <1>2, <1>6, <2>1, <2>2 DEF Onward, Absent, IsTerminalStatus, Open
<1>7. CASE c.op = "timeout"
  <2> DEFINE s == [row EXCEPT !.status = "failed", !.code = "timeout"]
  <2>1. Effect(c) = IF row.status = c.data.status /\ row.data = c.data.data THEN <<s, "ok">> ELSE <<row, "no">>
    BY <1>7 DEF Effect, TryTimeoutSession
  <2>2. c.data.status \in {"running", "claimable"} BY <1>1, <1>7 DEF CallSound
  <2>3. s \in Row /\ TimedOutRow(s) /\ s # Absent BY <1>1 DEF Row, TimedOutRow, Absent
  <2> HIDE DEF s
  <2> QED BY <1>1, <1>2, <1>7, <2>1, <2>2, <2>3 DEF Onward, IsTerminalStatus, s
<1>8. CASE c.op = "read"
  <2>1. Effect(c) = <<row, "ok">> BY <1>8 DEF Effect
  <2> QED BY <1>1, <1>8, <2>1 DEF Onward
<1> QED BY <1>2, <1>4, <1>5, <1>6, <1>7, <1>8

\* Who may write the row, and how, when its statement is executed.
LEMMA RowWritten ==
  ASSUME SessionInv, NEW w \in Workers, call[w].state = "sent"
  PROVE  LET s == Effect(call[w])[1]
         IN \/ s = row
            \/ /\ pc["saver"] = "insert" /\ row = Absent /\ s.status = "running"
               /\ ~mem.disposed /\ mem.persist = "uncertain"
            \/ row.status = "running" /\ s.status = "running"
            \/ row.status = "running" /\ s.status = "failed"
            \/ /\ pc["chain"] = "claimable" /\ row.status = "running" /\ s.status = "claimable"
               /\ s.drop = accounted
            \/ row.status \in {"running", "claimable"} /\ TimedOutRow(s)
<1> DEFINE c == call[w]
           p == pc[w]
           s == Effect(c)[1]
<1>1. /\ c \in CallRec /\ row \in Row /\ CallSound(p, c, mem, row, accounted)
      /\ ObjectSound(mem) /\ RowSound(mem, row)
      /\ ChainSound(pc["chain"], chain, mem, row)
      /\ SaverSound(pc["saver"], call["saver"], pc["chain"], chain, mem, row)
      /\ pc["chain"] \in ChainPoints /\ pc["saver"] \in SaverPoints
  BY DEF SessionInv, Shape
<1>2. p = pc["chain"] \/ p = pc["saver"] BY DEF Workers
<1>3. \/ s = row
      \/ c.op = "insert" /\ row = Absent /\ s = c.data
      \/ c.op = "update" /\ row.status = "running" /\ s = c.data
      \/ c.op = "transition" /\ row.status = c.expected /\ s = c.data
      \/ /\ c.op = "timeout" /\ row.status = c.data.status
         /\ s = [row EXCEPT !.status = "failed", !.code = "timeout"]
  BY EffectMovesOn
<1>4. c.op = CallOf(p) BY <1>1 DEF CallSound
<1> HIDE DEF c, p, s
<1>5. CASE c.op = "insert" /\ row = Absent /\ s = c.data
  <2>1. p = "insert" BY <1>4, <1>5 DEF CallOf
  <2>2. pc["saver"] = "insert"
    BY <1>1, <1>2, <2>1 DEF ChainPoints, Failing, Completing, TimingOut
  <2>3. s.status = "running" BY <1>1, <1>5 DEF CallSound
  <2>4. ~mem.disposed /\ mem.persist = "uncertain" BY <1>1, <1>5, <2>2 DEF SaverSound
  <2> QED BY <1>5, <2>2, <2>3, <2>4 DEF s, c
<1>6. CASE c.op = "update" /\ row.status = "running" /\ s = c.data
  <2>1. s.status = "running" BY <1>1, <1>6 DEF CallSound
  <2> QED BY <1>6, <2>1 DEF s, c
<1>7. CASE c.op = "transition" /\ row.status = c.expected /\ s = c.data
  <2>1. p \in {"failTransition", "claimable"} BY <1>4, <1>7 DEF CallOf
  <2>2. row.status \in {"absent", "running", "claimable", "failed"} BY <1>1 DEF Row
  <2>3. CASE p = "failTransition"
    <3>1. s.status = "failed" /\ row.status = "running" BY <1>1, <1>7, <2>2, <2>3 DEF CallSound, Open
    <3> QED BY <3>1 DEF s, c
  <2>4. CASE p = "claimable"
    <3>1. row.status = "running" /\ s.status = "claimable" BY <1>1, <1>7, <2>4 DEF CallSound
    <3>2. s.drop = accounted BY <1>1, <1>7, <2>4, <3>1 DEF CallSound, RowSound
    <3>3. pc["chain"] = "claimable" BY <1>1, <1>2, <2>4 DEF SaverPoints, Saving, Failing
    <3> QED BY <3>1, <3>2, <3>3 DEF s, c
  <2> QED BY <2>1, <2>3, <2>4
<1>8. CASE /\ c.op = "timeout" /\ row.status = c.data.status
           /\ s = [row EXCEPT !.status = "failed", !.code = "timeout"]
  <2>1. row.status \in {"running", "claimable"} BY <1>1, <1>8 DEF CallSound
  <2>2. TimedOutRow(s) BY <1>1, <1>8 DEF TimedOutRow, Row
  <2> QED BY <2>1, <2>2 DEF s, c
<1> QED BY <1>3, <1>5, <1>6, <1>7, <1>8 DEF s, c

\* A statement that is executed, or fails before or after its effect, keeps the invariant, and a
\* terminal row.
LEMMA DbExecuteKeeps ==
  ASSUME SessionInv, NEW w \in Workers, DbExecute(w)
  PROVE  SessionInv' /\ Onward(row, row')
<1> DEFINE c == call[w]
           s == Effect(c)[1]
           reply == Effect(c)[2]
<1>1. c.state = "sent" BY DEF DbExecute
<1>2. PICK outcome \in {"answer", "lost", "error"} :
        /\ row' = IF outcome = "error" THEN row ELSE s
        /\ call' = [call EXCEPT ![w].state = "done", ![w].read = row',
                      ![w].reply = IF outcome = "answer" THEN reply ELSE "error"]
  BY DEF DbExecute
<1>3. /\ mem' = mem /\ chain' = chain /\ pc' = pc /\ queue' = queue /\ saves' = saves
      /\ rollback' = rollback /\ start' = start /\ reserved' = reserved
      /\ accounted' = accounted /\ completions' = completions /\ phase' = phase
  BY DEF DbExecute
<1>4. /\ s \in Row /\ Onward(row, s) /\ reply \in {"ok", "no", "error"}
      /\ c.op = "read" => s = row /\ reply = "ok"
      /\ reply = "ok" /\ c.op \in {"insert", "update", "transition"} => s = c.data
      /\ reply = "ok" /\ c.op = "timeout" => TimedOutRow(s)
  BY <1>1, EffectMovesOn
<1>5. \/ s = row
      \/ /\ pc["saver"] = "insert" /\ row = Absent /\ s.status = "running"
         /\ ~mem.disposed /\ mem.persist = "uncertain"
      \/ row.status = "running" /\ s.status = "running"
      \/ row.status = "running" /\ s.status = "failed"
      \/ /\ pc["chain"] = "claimable" /\ row.status = "running" /\ s.status = "claimable"
         /\ s.drop = accounted
      \/ row.status \in {"running", "claimable"} /\ TimedOutRow(s)
  BY <1>1, RowWritten
<1> DEFINE answer == IF outcome = "answer" THEN reply ELSE "error"
           d == [c EXCEPT !.state = "done", !.read = row', !.reply = answer]
<1>6. /\ Shape /\ ObjectSound(mem) /\ RowSound(mem, row)
      /\ ChainSound(pc["chain"], chain, mem, row)
      /\ SaverSound(pc["saver"], call["saver"], pc["chain"], chain, mem, row)
      /\ \A u \in Workers : CallSound(pc[u], call[u], mem, row, accounted)
      /\ QueueSound(queue, pc["chain"]) /\ SavesSound(saves, pc["chain"], pc["saver"])
      /\ StartSound(mem, row, queue, saves, pc["chain"], pc["saver"])
      /\ HooksSound(mem, row, accounted, completions) /\ RollbackSound(mem, row, rollback)
  BY DEF SessionInv
<1>7. call \in [Workers -> CallRec] /\ c \in CallRec /\ row \in Row /\ mem \in MemRec
  BY <1>6 DEF Shape
<1>8. row' \in Row /\ Onward(row, row') /\ answer \in {"ok", "no", "error"}
  BY <1>2, <1>4, <1>7 DEF Onward
<1> HIDE DEF s, reply
<1>9. /\ call'[w] = d /\ call' \in [Workers -> CallRec]
      /\ \A u \in Workers \ {w} : call'[u] = call[u]
  <2>1. d \in CallRec BY <1>7, <1>8 DEF CallRec
  <2>2. call' = [call EXCEPT ![w] = d] BY <1>2, <1>7
  <2> HIDE DEF d
  <2> QED BY <1>7, <2>1, <2>2
<1>10. /\ d.op = c.op /\ d.data = c.data /\ d.expected = c.expected
       /\ d.state = "done" /\ d.reply = answer /\ d.read = row'
  BY <1>7 DEF CallRec
<1>11. /\ answer = "ok" => outcome = "answer" /\ reply = "ok"
       /\ c.op = "read" => row' = row /\ answer # "no"
  BY <1>2, <1>4
<1> HIDE DEF d, c, answer
<1>12. Shape' BY <1>3, <1>6, <1>8, <1>9 DEF Shape
<1>13. mem.persist = "absent" /\ mem.status # "unknown" => row' = Absent
  BY <1>2, <1>5, <1>6 DEF RowSound, Absent, TimedOutRow
<1>14. RowSound(mem, row')
  BY <1>2, <1>5, <1>6, <1>7, <1>8, <1>13 DEF RowSound, ObjectSound, ChainSound, Committing, Completing, Absent, TimedOutRow,
    Onward, IsTerminalStatus, Row
<1>15. ChainSound(pc["chain"], chain, mem, row')
  BY <1>2, <1>5, <1>6, <1>8 DEF ChainSound, Onward, IsTerminalStatus, TimedOutRow
<1>16. SaverSound(pc["saver"], call'["saver"], pc["chain"], chain, mem, row')
  <2>1. row'.status = "claimable" => pc["chain"] # "failHooks" /\ mem.status \notin {"starting", "running"}
    BY <1>14, <1>15 DEF RowSound, ChainSound
  <2>2. CASE w = "saver" BY <1>6, <1>8, <1>9, <1>10, <2>1, <2>2 DEF SaverSound, Onward
  <2>3. CASE w # "saver" BY <1>6, <1>8, <1>9, <2>3 DEF SaverSound, Onward, Workers
  <2> QED BY <2>2, <2>3
<1>17. ASSUME NEW u \in Workers PROVE CallSound(pc[u], call'[u], mem, row', accounted)
  <2>1. CallSound(pc[u], call[u], mem, row, accounted) BY <1>6
  <2>2. CASE u # w
    <3>1. pc[u] \in {"reconcile", "insertRead", "failReconcile"} /\ row = Absent => row' = Absent
      <4>1. ASSUME row = Absent, row' # Absent PROVE pc["saver"] = "insert"
        BY <1>2, <1>5, <4>1 DEF Absent
      <4>2. pc["saver"] = "insert" => pc["chain"] \notin {"reconcile", "insertRead", "failReconcile"}
        BY <1>6 DEF SaverSound, PastTail, Saving, Failing, Shape, ChainPoints, Completing, TimingOut
      <4> QED BY <4>1, <4>2 DEF Workers
    <3> QED BY <1>8, <1>9, <2>1, <2>2, <3>1 DEF CallSound, Onward, IsTerminalStatus, TimedOutRow
  <2>3. CASE u = w
    <3>1. /\ c.op = CallOf(pc[w]) /\ (c.op = "none" <=> c.state = "none")
          /\ c.state = "sent"
      BY <1>1, <2>1, <2>3 DEF CallSound, c
    <3>2. IsTerminalStatus(row'.status) => row' # Absent BY DEF IsTerminalStatus, Absent
    <3>3. pc[w] \in {"reconcile", "insertRead", "failReconcile"} => c.op = "read"
      BY <3>1 DEF CallOf
    <3>4. answer = "ok" /\ c.op \in {"insert", "update", "transition"} => row' = c.data
      BY <1>2, <1>4, <1>11
    <3>5. answer = "ok" /\ c.op = "timeout" => row'.status = "failed"
      BY <1>2, <1>4, <1>11 DEF TimedOutRow
    <3>6. CallSound(pc[w], c, mem, row, accounted) BY <2>1, <2>3 DEF c
    <3>7. CallSound(pc[w], d, mem, row', accounted)
      BY <1>8, <1>10, <1>11, <3>1, <3>2, <3>3, <3>4, <3>5, <3>6 DEF CallSound
    <3> QED BY <1>9, <2>3, <3>7
  <2> QED BY <2>2, <2>3
<1>18. StartSound(mem, row', queue, saves, pc["chain"], pc["saver"])
  <2>1. start \in {"new", "hooks"} => row' = Absent
    BY <1>2, <1>5, <1>6 DEF StartSound, Absent
  <2> QED BY <1>6, <1>8, <2>1 DEF StartSound, Onward
<1>19. HooksSound(mem, row', accounted, completions)
  BY <1>2, <1>5, <1>6, <1>8 DEF HooksSound, Onward, IsTerminalStatus, TimedOutRow
<1>20. RollbackSound(mem, row', rollback)
  BY <1>2, <1>5, <1>6, <1>8 DEF RollbackSound, Onward, IsTerminalStatus, TimedOutRow, Absent
<1> QED BY <1>3, <1>6, <1>8, <1>12, <1>14, <1>15, <1>16, <1>17, <1>18, <1>19, <1>20
  DEF SessionInv, StartSound, HooksSound, RollbackSound

-----------------------------------------------------------------------------
(* Ends of the steps of the two workers.                                   *)

\* What an operation of the chain may make of the object.
ChainObject(m) ==
  /\ m \in MemRec /\ ObjectSound(m) /\ RowSound(m, row)
  /\ mem.disposed => m.disposed
  /\ pc["saver"] \in {"insert", "reconcile"} => ~m.disposed \/ row # Absent
  /\ pc["saver"] \in {"insert", "reconcile", "insertRead"} => m.persist = "uncertain" \/ row # Absent
  /\ pc["saver"] \in Failing => HasFailure(m)
  /\ m.status = "unknown" => m.disposed
  /\ m.status \in {"starting", "running"} => mem.status = m.status
  /\ start = "hooks" => m.persist = "absent" /\ m.status \in {"starting", "failed"}

\* The chain works on something, and not on a save it waits for.
Busy == pc["chain"] # "idle" \/ queue # <<>>
Awaiting == {"commitTail", "tail", "retry", "timeoutSave"}

\* The parts of the invariant.
LEMMA Parts ==
  ASSUME SessionInv
  PROVE  /\ Shape /\ ObjectSound(mem) /\ RowSound(mem, row)
         /\ ChainSound(pc["chain"], chain, mem, row)
         /\ SaverSound(pc["saver"], call["saver"], pc["chain"], chain, mem, row)
         /\ CallSound(pc["chain"], call["chain"], mem, row, accounted)
         /\ CallSound(pc["saver"], call["saver"], mem, row, accounted)
         /\ QueueSound(queue, pc["chain"]) /\ SavesSound(saves, pc["chain"], pc["saver"])
         /\ StartSound(mem, row, queue, saves, pc["chain"], pc["saver"])
         /\ HooksSound(mem, row, accounted, completions) /\ RollbackSound(mem, row, rollback)
BY DEF SessionInv, Workers

\* They make up the invariant, whatever the workers did.
LEMMA Whole ==
  ASSUME Shape', ObjectSound(mem'), RowSound(mem', row'),
         ChainSound(pc'["chain"], chain', mem', row'),
         SaverSound(pc'["saver"], call'["saver"], pc'["chain"], chain', mem', row'),
         CallSound(pc'["chain"], call'["chain"], mem', row', accounted'),
         CallSound(pc'["saver"], call'["saver"], mem', row', accounted'),
         QueueSound(queue', pc'["chain"]), SavesSound(saves', pc'["chain"], pc'["saver"]),
         StartSound(mem, row, queue, saves, pc["chain"], pc["saver"])',
         HooksSound(mem', row', accounted', completions'), RollbackSound(mem', row', rollback')
  PROVE  SessionInv'
<1>1. \A w \in Workers : CallSound(pc'[w], call'[w], mem', row', accounted') BY DEF Workers
<1> QED BY <1>1 DEF SessionInv, StartSound

\* The call of the saver stays sound when the chain keeps a failure it works on.
LEMMA SaverCallKept ==
  ASSUME SessionInv, NEW m, NEW a, ChainObject(m)
  PROVE  CallSound(pc["saver"], call["saver"], m, row, a)
<1>1. CallSound(pc["saver"], call["saver"], mem, row, accounted) BY Parts
<1>2. pc["saver"] # "claimable" BY Parts DEF Shape, SaverPoints, Saving, Failing
<1> QED BY <1>1, <1>2 DEF CallSound, ChainObject

\* Nobody waits for the chain when it does not wait.
LEMMA NobodyWaits ==
  ASSUME SessionInv, pc["chain"] \notin Awaiting
  PROVE  \A i \in DOMAIN saves : saves[i] \notin {"tail", "timeout"}
BY Parts DEF SavesSound, Awaiting

\* The running operation of the chain ends.
LEMMA OperationEnds ==
  ASSUME SessionInv, NEW m, NEW reject, EndOperation(m, reject), Busy, pc["chain"] \notin Awaiting,
         ChainObject(m), m.status # "committing", m.depth = 0,
         row' = row, saves' = saves, start' = start, phase' = phase,
         accounted' \in Nat, completions' \in 0..1, HooksSound(m, row, accounted', completions'),
         rollback' \in {"none", "registered", "ran", "cleared"}, RollbackSound(m, row, rollback')
  PROVE  SessionInv'
<1> DEFINE e == m.completion /\ ~(chain.owns /\ ~m.disposed /\ (reject \/ chain.kind = "timeout"))
           x == [m EXCEPT !.completion = e]
<1>1. /\ Shape /\ SaverSound(pc["saver"], call["saver"], pc["chain"], chain, mem, row)
      /\ QueueSound(queue, pc["chain"]) /\ SavesSound(saves, pc["chain"], pc["saver"])
      /\ StartSound(mem, row, queue, saves, pc["chain"], pc["saver"])
      /\ CallSound(pc["saver"], call["saver"], m, row, accounted')
  BY Parts, SaverCallKept
<1>2. /\ m \in MemRec /\ ObjectSound(m) /\ RowSound(m, row) BY DEF ChainObject
<1>3. queue # <<>> BY <1>1 DEF Busy, QueueSound
<1>4. /\ mem' = x /\ queue' = Tail(queue) /\ chain' = NoOp
      /\ pc' = [pc EXCEPT !["chain"] = "idle"] /\ call' = [call EXCEPT !["chain"] = NoCall]
      /\ reserved' = (reserved /\ ~x.disposed)
  BY DEF EndOperation, Release, Goto
<1>5. e \in BOOLEAN OBVIOUS
<1> HIDE DEF e
<1>6. /\ x \in MemRec /\ x.status = m.status /\ x.drop = m.drop /\ x.persist = m.persist
      /\ x.failure = m.failure /\ x.expected = m.expected /\ x.already = m.already
      /\ x.failed = m.failed /\ x.disposed = m.disposed /\ x.depth = m.depth /\ x.dirty = m.dirty
  BY <1>2, <1>5 DEF MemRec
<1> HIDE DEF x
<1>7. /\ NoOp \in OpRec /\ NoCall \in CallRec /\ Absent \in Row
      /\ NoOp.kind = "none" /\ NoOp.expected = "none" /\ NoOp.already = FALSE
      /\ NoCall.op = "none" /\ NoCall.state = "none"
  <2>1. Absent \in Row
    BY <1>1 DEF Absent, Row, Shape, SessionAssumption
  <2> QED BY <2>1 DEF NoOp, NoCall, OpRec, CallRec, Expected
<1>8. /\ pc'["chain"] = "idle" /\ pc'["saver"] = pc["saver"] /\ call'["chain"] = NoCall
      /\ call'["saver"] = call["saver"]
      /\ pc' \in [Workers -> ChainPoints \union SaverPoints] /\ call' \in [Workers -> CallRec]
  BY <1>1, <1>4, <1>7 DEF Shape, Workers, ChainPoints
<1>9. /\ queue' \in Seq(OpRec) /\ \A i \in DOMAIN queue' : i + 1 \in DOMAIN queue /\ queue'[i] = queue[i + 1]
  BY <1>1, <1>3, <1>4 DEF Shape
<1>10. Shape'
  BY <1>1, <1>4, <1>6, <1>7, <1>8, <1>9 DEF Shape, ChainPoints
<1>11. ObjectSound(mem') /\ RowSound(mem', row') BY <1>2, <1>4, <1>6 DEF ObjectSound, RowSound, HasFailure
<1>12. ChainSound(pc'["chain"], chain', mem', row')
  BY <1>4, <1>6, <1>7, <1>8 DEF ChainSound, Committing, Completing, TimingOut
<1>13. SaverSound(pc'["saver"], call'["saver"], pc'["chain"], chain', mem', row')
  BY <1>1, <1>4, <1>6, <1>8 DEF SaverSound, PastTail, Committing, Completing, Failing, ChainObject
<1>14. CallSound(pc'["chain"], call'["chain"], mem', row', accounted')
  BY <1>7, <1>8 DEF CallSound, CallOf, Failing
<1>15. CallSound(pc'["saver"], call'["saver"], mem', row', accounted')
  BY <1>1, <1>4, <1>6, <1>8 DEF CallSound, HasFailure
<1>16. QueueSound(queue', pc'["chain"]) BY <1>1, <1>8, <1>9 DEF QueueSound
<1>17. SavesSound(saves', pc'["chain"], pc'["saver"])
  BY <1>1, <1>8, NobodyWaits DEF SavesSound
<1>18. StartSound(mem, row, queue, saves, pc["chain"], pc["saver"])'
  <2>1. start # "new" /\ (start = "saving" => row # Absent) BY <1>1, <1>3 DEF StartSound
  <2>2. reserved' <=> ~mem'.disposed
    BY <1>1, <1>4, <1>6, <2>1 DEF StartSound, ChainObject, Shape
  <2>3. (start \in {"new", "hooks"}) => \A i \in DOMAIN queue' : queue'[i].kind = "setDrop"
    BY <1>1, <1>9 DEF StartSound
  <2> QED BY <1>1, <1>4, <1>6, <1>8, <2>1, <2>2, <2>3 DEF StartSound, ChainObject
<1>19. HooksSound(mem', row', accounted', completions') /\ RollbackSound(mem', row', rollback')
  BY <1>4, <1>6 DEF HooksSound, RollbackSound
<1> QED BY <1>10, <1>11, <1>12, <1>13, <1>14, <1>15, <1>16, <1>17, <1>18, <1>19, Whole

\* An entry that is added to the saves waits for the chain.
LEMMA SavesGrow ==
  ASSUME SessionInv, pc["chain"] \notin Awaiting, NEW p, NEW entry \in {"tail", "timeout"},
         entry = "tail" => p \in {"commitTail", "tail"}, entry = "timeout" => p \in {"retry", "timeoutSave"}
  PROVE  /\ Append(saves, entry) \in Seq(Savers) /\ SavesSound(Append(saves, entry), p, pc["saver"])
         /\ \A i \in DOMAIN Append(saves, entry) :
              Append(saves, entry)[i] = "start" => \E j \in DOMAIN saves : saves[j] = "start"
<1> DEFINE S == Append(saves, entry)
<1>1. saves \in Seq(Savers) /\ SavesSound(saves, pc["chain"], pc["saver"]) BY Parts DEF Shape
<1>2. /\ S \in Seq(Savers) /\ Len(S) = Len(saves) + 1 /\ DOMAIN S = 1..(Len(saves) + 1)
      /\ S[Len(saves) + 1] = entry /\ \A i \in DOMAIN saves : S[i] = saves[i]
      /\ DOMAIN saves = 1..Len(saves) /\ Len(saves) \in Nat
  BY <1>1 DEF Savers
<1>3. \A i \in DOMAIN S : i \in DOMAIN saves \/ i = Len(saves) + 1 BY <1>2
<1>4. saves # <<>> => 1 \in DOMAIN saves BY <1>1, <1>2
<1>5. \A i \in DOMAIN saves : saves[i] \notin {"tail", "timeout"} BY NobodyWaits
<1> HIDE DEF S
<1>6. pc["saver"] # "idle" => S # <<>> /\ S[1] # "tail" BY <1>1, <1>2, <1>4 DEF SavesSound
<1>7. \A i \in DOMAIN S : S[i] \in {"tail", "timeout"} => i = Len(saves) + 1 BY <1>2, <1>3, <1>5
<1>8. SavesSound(S, p, pc["saver"])
  <2>1. ASSUME NEW i \in DOMAIN S
        PROVE  (S[i] = "tail" => p \in {"commitTail", "tail"}) /\ (S[i] = "timeout" => p \in {"retry", "timeoutSave"})
    BY <1>2, <1>7
  <2>2. \A i, j \in DOMAIN S : S[i] = "start" /\ S[j] = "start" => i = j
    BY <1>1, <1>2, <1>3 DEF SavesSound
  <2> QED BY <1>6, <1>7, <2>1, <2>2 DEF SavesSound
<1> QED BY <1>2, <1>3, <1>8 DEF S

\* The running operation of the chain goes on, with a database call, waiting for a save, or not.
LEMMA OperationGoes ==
  ASSUME SessionInv, NEW m, NEW l \in OpRec, NEW p \in ChainPoints \ {"idle"}, NEW c \in CallRec,
         ChainGoes(m, l, p, c), Busy, pc["chain"] \notin Awaiting,
         ChainObject(m), m.disposed = mem.disposed,
         ChainSound(p, l, m, row), CallSound(p, c, m, row, accounted'),
         pc["saver"] \in Saving => ~PastTail(p, l), pc["saver"] \in Failing => ~Committing(p, l),
         p = "failHooks" => mem.status = "running",
         \/ saves' = saves
         \/ saves' = Append(saves, "tail") /\ p \in {"commitTail", "tail"}
         \/ saves' = Append(saves, "timeout") /\ p \in {"retry", "timeoutSave"},
         start = "hooks" => p \in {"factors", "accounting", "tail", "persist"},
         accounted' \in Nat, completions' \in 0..1, HooksSound(m, row, accounted', completions')
  PROVE  SessionInv'
<1>1. /\ Shape /\ SaverSound(pc["saver"], call["saver"], pc["chain"], chain, mem, row)
      /\ QueueSound(queue, pc["chain"]) /\ SavesSound(saves, pc["chain"], pc["saver"])
      /\ StartSound(mem, row, queue, saves, pc["chain"], pc["saver"])
      /\ RollbackSound(mem, row, rollback)
      /\ CallSound(pc["saver"], call["saver"], m, row, accounted')
  BY Parts, SaverCallKept
<1>2. /\ mem' = m /\ chain' = l /\ row' = row /\ rollback' = rollback /\ reserved' = reserved
      /\ start' = start /\ queue' = queue /\ phase' = phase
      /\ pc' = [pc EXCEPT !["chain"] = p] /\ call' = [call EXCEPT !["chain"] = c]
  BY DEF ChainGoes, Goto
<1>3. /\ pc'["chain"] = p /\ pc'["saver"] = pc["saver"] /\ call'["chain"] = c
      /\ call'["saver"] = call["saver"]
      /\ pc' \in [Workers -> ChainPoints \union SaverPoints] /\ call' \in [Workers -> CallRec]
  BY <1>1, <1>2 DEF Shape, Workers
<1>4. queue # <<>> BY <1>1 DEF Busy, QueueSound
<1>5. /\ saves' \in Seq(Savers) /\ SavesSound(saves', p, pc["saver"])
      /\ \A i \in DOMAIN saves' : saves'[i] = "start" => \E j \in DOMAIN saves : saves[j] = "start"
  <2>1. CASE saves' = saves
    BY <1>1, <2>1, NobodyWaits DEF Shape, SavesSound
  <2>2. CASE saves' = Append(saves, "tail") /\ p \in {"commitTail", "tail"}
    BY <2>2, SavesGrow
  <2>3. CASE saves' = Append(saves, "timeout") /\ p \in {"retry", "timeoutSave"}
    BY <2>3, SavesGrow
  <2> QED BY <2>1, <2>2, <2>3
<1>6. Shape' BY <1>1, <1>2, <1>3, <1>5 DEF Shape, ChainObject
<1>7. ObjectSound(mem') /\ RowSound(mem', row') BY <1>2 DEF ChainObject
<1>8. SaverSound(pc'["saver"], call'["saver"], pc'["chain"], chain', mem', row')
  BY <1>1, <1>2, <1>3 DEF SaverSound, ChainObject
<1>9. QueueSound(queue', pc'["chain"]) BY <1>1, <1>2, <1>4 DEF QueueSound
<1>10. StartSound(mem, row, queue, saves, pc["chain"], pc["saver"])'
  <2>1. start # "new" /\ (start = "saving" => row # Absent) BY <1>1, <1>4 DEF StartSound
  <2>2. \A i \in DOMAIN saves' : saves'[i] = "start" => start = "saving"
    BY <1>1, <1>5 DEF StartSound
  <2>3. start = "hooks" => \A i \in DOMAIN saves' : saves'[i] # "start" BY <2>2
  <2> QED BY <1>1, <1>2, <1>3, <2>1, <2>2, <2>3 DEF StartSound, ChainObject
<1>11. HooksSound(mem', row', accounted', completions') /\ RollbackSound(mem', row', rollback')
  BY <1>1, <1>2 DEF RollbackSound
<1> QED BY <1>1, <1>2, <1>3, <1>5, <1>6, <1>7, <1>8, <1>9, <1>10, <1>11, Whole

\* What a save may make of the object.
SaverObject(m) ==
  /\ m \in MemRec /\ ObjectSound(m) /\ RowSound(m, row)
  /\ mem.disposed => m.disposed
  /\ ChainSound(pc["chain"], chain, m, row)
  /\ CallSound(pc["chain"], call["chain"], m, row, accounted)
  /\ HooksSound(m, row, accounted, completions)
  /\ start = "new" => m.status = "unknown" /\ ~m.disposed /\ m.failure = "none"
  /\ start \in {"new", "hooks"} => m.persist = "absent" /\ m.status \in {"unknown", "starting", "failed"}
  /\ start # "new" /\ m.status = "unknown" => m.disposed
  /\ start = "hooks" => m.status # "unknown"

\* The first save is taken off; the chain may have waited for it.
LEMMA SavesShrink ==
  ASSUME SessionInv, saves # <<>>, NEW p,
         p = pc["chain"] \/ Head(saves) \in {"tail", "timeout"}
  PROVE  /\ Tail(saves) \in Seq(Savers) /\ Head(saves) \in Savers /\ SavesSound(Tail(saves), p, "idle")
         /\ Head(saves) = saves[1] /\ 1 \in DOMAIN saves
         /\ \A i \in DOMAIN Tail(saves) : i + 1 \in DOMAIN saves /\ Tail(saves)[i] = saves[i + 1]
<1>1. saves \in Seq(Savers) /\ SavesSound(saves, pc["chain"], pc["saver"]) BY Parts DEF Shape
<1>2. /\ Tail(saves) \in Seq(Savers) /\ Head(saves) \in Savers
      /\ Head(saves) = saves[1] /\ 1 \in DOMAIN saves
      /\ \A i \in DOMAIN Tail(saves) : i \in Nat /\ i # 0 /\ i + 1 \in DOMAIN saves /\ Tail(saves)[i] = saves[i + 1]
  BY <1>1
<1> DEFINE S == Tail(saves)
<1>3. \A i \in DOMAIN S : i \in Nat /\ i # 0 /\ i + 1 \in DOMAIN saves /\ S[i] = saves[i + 1]
  BY <1>2
<1> HIDE DEF S
<1>4. \A i, j \in DOMAIN S : S[i] \in {"tail", "timeout"} /\ S[j] \in {"tail", "timeout"} => i = j
  <2> SUFFICES ASSUME NEW i \in DOMAIN S, NEW j \in DOMAIN S,
                      S[i] \in {"tail", "timeout"}, S[j] \in {"tail", "timeout"}
               PROVE  i = j
    OBVIOUS
  <2>1. i + 1 = j + 1 BY <1>1, <1>3 DEF SavesSound
  <2> QED BY <1>3, <2>1
<1>5. ASSUME NEW i \in DOMAIN S
      PROVE  (S[i] = "tail" => p \in {"commitTail", "tail"}) /\ (S[i] = "timeout" => p \in {"retry", "timeoutSave"})
  <2>1. CASE p = pc["chain"] BY <1>1, <1>3, <2>1 DEF SavesSound
  <2>2. CASE Head(saves) \in {"tail", "timeout"}
    <3>1. S[i] \in {"tail", "timeout"} => i + 1 = 1 BY <1>1, <1>2, <1>3, <2>2 DEF SavesSound
    <3> QED BY <1>3, <3>1
  <2> QED BY <2>1, <2>2
<1>6. \A i, j \in DOMAIN S : S[i] = "start" /\ S[j] = "start" => i = j
  <2> SUFFICES ASSUME NEW i \in DOMAIN S, NEW j \in DOMAIN S, S[i] = "start", S[j] = "start" PROVE i = j
    OBVIOUS
  <2>1. i + 1 = j + 1 BY <1>1, <1>3 DEF SavesSound
  <2> QED BY <1>3, <2>1
<1> QED BY <1>2, <1>4, <1>5, <1>6 DEF SavesSound, S

\* A save ends, with success or an error.
LEMMA SaveEnds ==
  ASSUME SessionInv, NEW m, NEW ok \in BOOLEAN, EndSave(m, ok), SaverObject(m),
         saves # <<>>, Head(saves) # "tail",
         row' = row, queue' = queue, chain' = chain, accounted' = accounted, completions' = completions,
         rollback' \in {"none", "registered", "ran", "cleared"}, RollbackSound(m, row, rollback'),
         start = "saving" =>
           row # Absent \/ (~ok /\ m.status = "running" /\ m.failure = "none" /\ m.dirty)
  PROVE  SessionInv'
<1> DEFINE who == Head(saves)
           p == IF who # "timeout" THEN pc["chain"] ELSE IF ok THEN "saved" ELSE "saveError"
<1>1. /\ Shape /\ ChainSound(pc["chain"], chain, m, row)
      /\ CallSound(pc["chain"], call["chain"], m, row, accounted)
      /\ QueueSound(queue, pc["chain"]) /\ SavesSound(saves, pc["chain"], pc["saver"])
      /\ StartSound(mem, row, queue, saves, pc["chain"], pc["saver"])
  BY Parts DEF SaverObject
<1>2. /\ mem' = m /\ reserved' = (reserved /\ ~m.disposed) /\ saves' = Tail(saves)
      /\ start' = IF who = "start" THEN IF ok THEN "saved" ELSE "saveError" ELSE start
      /\ phase' = IF who = "exit" THEN IF ok THEN "exited" ELSE "failedExit" ELSE phase
      /\ pc' = [pc EXCEPT !["saver"] = "idle",
                 !["chain"] = IF who # "timeout" THEN @ ELSE IF ok THEN "saved" ELSE "saveError"]
      /\ call' = [call EXCEPT !["saver"] = NoCall]
  BY DEF EndSave, Release
<1>3. NoCall \in CallRec /\ NoCall.op = "none" /\ NoCall.state = "none"
  <2>1. Absent \in Row BY <1>1 DEF Absent, Row, Shape, SessionAssumption
  <2> QED BY <2>1 DEF NoCall, CallRec, Expected
<1>4. /\ pc'["chain"] = p /\ pc'["saver"] = "idle" /\ call'["saver"] = NoCall
      /\ call'["chain"] = call["chain"] /\ call' \in [Workers -> CallRec]
  BY <1>1, <1>2, <1>3 DEF Shape, Workers
<1>5. who = "timeout" => pc["chain"] \in {"retry", "timeoutSave"}
  BY <1>1, SavesShrink DEF SavesSound
<1>6. p \in ChainPoints BY <1>1 DEF Shape, ChainPoints, TimingOut
<1>7. pc' \in [Workers -> ChainPoints \union SaverPoints]
  BY <1>1, <1>2, <1>4, <1>6 DEF Shape, Workers, SaverPoints
<1>8. /\ saves' \in Seq(Savers) /\ SavesSound(saves', p, "idle")
      /\ \A i \in DOMAIN saves' : i + 1 \in DOMAIN saves /\ saves'[i] = saves[i + 1]
  BY <1>2, SavesShrink
<1>9. Shape'
  <2>1. start' \in {"new", "hooks", "saving", "saved", "saveError", "done"} BY <1>1, <1>2 DEF Shape
  <2>2. phase' \in {"open", "stopped", "closed", "saving", "exited", "failedExit"} BY <1>1, <1>2 DEF Shape
  <2>3. reserved' \in BOOLEAN BY <1>2
  <2>4. pc'["chain"] \in ChainPoints /\ pc'["saver"] \in SaverPoints
    BY <1>4, <1>6 DEF SaverPoints
  <2> QED BY <1>1, <1>2, <1>4, <1>7, <1>8, <2>1, <2>2, <2>3, <2>4 DEF Shape, SaverObject
<1>10. ObjectSound(mem') /\ RowSound(mem', row') BY <1>2 DEF SaverObject
<1> HIDE DEF who
<1>11. ChainSound(p, chain, m, row) /\ CallSound(p, call["chain"], m, row, accounted)
  <2>1. CASE who # "timeout" BY <1>1, <2>1
  <2>2. CASE who = "timeout"
    <3>1. pc["chain"] \in {"retry", "timeoutSave"} /\ p \in {"saved", "saveError"} BY <1>5, <2>2
    <3>2. ChainSound(p, chain, m, row)
      BY <1>1, <3>1 DEF ChainSound, Committing, Completing, TimingOut
    <3>3. CallSound(p, call["chain"], m, row, accounted)
      BY <1>1, <3>1 DEF CallSound, CallOf, Failing
    <3> QED BY <3>2, <3>3
  <2> QED BY <2>1, <2>2
<1>12. SaverSound(pc'["saver"], call'["saver"], pc'["chain"], chain', mem', row') BY <1>3, <1>4 DEF SaverSound, Saving, Failing
<1>13. CallSound(pc'["saver"], call'["saver"], mem', row', accounted')
  BY <1>3, <1>4 DEF CallSound, CallOf, Failing
<1>14. QueueSound(queue', pc'["chain"]) BY <1>1, <1>4, <1>5 DEF QueueSound
<1>15. StartSound(mem, row, queue, saves, pc["chain"], pc["saver"])'
  <2>1. who = "start" => start = "saving" BY <1>1, SavesShrink DEF StartSound, who
  <2>2. start' # "new" => (reserved' <=> ~mem'.disposed) /\ (mem'.status = "unknown" => mem'.disposed)
    BY <1>1, <1>2, <2>1 DEF StartSound, SaverObject
  <2>3. start' = "new" => /\ mem'.status = "unknown" /\ ~mem'.disposed /\ mem'.failure = "none"
                          /\ queue' = <<>> /\ pc'["chain"] = "idle"
    BY <1>1, <1>2, <1>4, <1>5 DEF StartSound, SaverObject
  <2>4. start' \in {"new", "hooks"} =>
       /\ start' = start /\ who # "timeout" /\ row' = Absent /\ mem'.persist = "absent" /\ pc'["saver"] = "idle"
       /\ mem'.status \in {"unknown", "starting", "failed"}
       /\ pc'["chain"] \in {"idle", "factors", "accounting", "tail", "persist"}
       /\ \A i \in DOMAIN queue' : queue'[i].kind = "setDrop"
    BY <1>1, <1>2, <1>4, <1>5, <2>1 DEF StartSound, SaverObject
  <2>5. ASSUME NEW i \in DOMAIN saves', saves'[i] = "start" PROVE start' = "saving"
    <3>1. start = "saving" /\ i + 1 # 1 /\ saves[i + 1] = "start" BY <1>1, <1>8, <2>5 DEF StartSound
    <3>2. i + 1 \in DOMAIN saves /\ 1 \in DOMAIN saves /\ Head(saves) = saves[1] /\ i \in Nat /\ i # 0
      BY <1>1, <1>8, SavesShrink DEF Shape
    <3>3. who # "start" BY <1>1, <3>1, <3>2 DEF SavesSound, who
    <3> QED BY <1>2, <3>1, <3>3
  <2>6. start' = "saved" => row' # Absent BY <1>1, <1>2, <2>1 DEF StartSound
  <2>7. start' = "saving" => \/ row' # Absent
                             \/ /\ mem'.status = "running" /\ mem'.failure = "none" /\ queue' = <<>> 
                                /\ pc'["chain"] = "idle" /\ mem'.dirty
    BY <1>1, <1>2, <1>4, <1>5 DEF StartSound
  <2>8. start' = "hooks" => mem'.status # "unknown" BY <1>2, <2>4 DEF SaverObject
  <2> QED BY <2>2, <2>3, <2>4, <2>5, <2>6, <2>7, <2>8 DEF StartSound
<1>16. HooksSound(mem', row', accounted', completions') /\ RollbackSound(mem', row', rollback')
  BY <1>2 DEF SaverObject
<1> QED BY <1>1, <1>2, <1>4, <1>8, <1>9, <1>10, <1>11, <1>12, <1>13, <1>14, <1>15, <1>16, Whole

\* A save goes on with a database call.
LEMMA SaveCalls ==
  ASSUME SessionInv, NEW m, NEW at \in SaverPoints \ {"idle"}, NEW c \in CallRec, SaverCalls(m, at, c),
         SaverObject(m), m.disposed = mem.disposed, CallSound(at, c, m, row, accounted),
         saves # <<>>, Head(saves) # "tail", start \notin {"new", "hooks"},
         SaverSound(at, c, pc["chain"], chain, m, row),
         start = "saving" => row # Absent \/ (m.status = "running" /\ m.failure = "none" /\ at \in Saving)
  PROVE  SessionInv'
<1>1. /\ Shape /\ ChainSound(pc["chain"], chain, m, row)
      /\ CallSound(pc["chain"], call["chain"], m, row, accounted)
      /\ QueueSound(queue, pc["chain"]) /\ SavesSound(saves, pc["chain"], pc["saver"])
      /\ StartSound(mem, row, queue, saves, pc["chain"], pc["saver"])
      /\ RollbackSound(mem, row, rollback)
  BY Parts DEF SaverObject
<1>2. /\ mem' = m /\ row' = row /\ rollback' = rollback /\ reserved' = reserved /\ start' = start
      /\ queue' = queue /\ chain' = chain /\ saves' = saves /\ phase' = phase
      /\ accounted' = accounted /\ completions' = completions
      /\ pc' = [pc EXCEPT !["saver"] = at] /\ call' = [call EXCEPT !["saver"] = c]
  BY DEF SaverCalls, Goto
<1>3. /\ pc'["saver"] = at /\ pc'["chain"] = pc["chain"] /\ call'["saver"] = c
      /\ call'["chain"] = call["chain"]
      /\ pc' \in [Workers -> ChainPoints \union SaverPoints] /\ call' \in [Workers -> CallRec]
  BY <1>1, <1>2 DEF Shape, Workers
<1>4. Shape' BY <1>1, <1>2, <1>3 DEF Shape, SaverObject
<1>5. ObjectSound(mem') /\ RowSound(mem', row') BY <1>2 DEF SaverObject
<1>6. SavesSound(saves', pc'["chain"], pc'["saver"])
  <2>1. Head(saves) = saves[1] BY SavesShrink
  <2> QED BY <1>1, <1>2, <1>3, <2>1 DEF SavesSound
<1>7. StartSound(mem, row, queue, saves, pc["chain"], pc["saver"])'
  BY <1>1, <1>2, <1>3 DEF StartSound, SaverObject
<1>8. HooksSound(mem', row', accounted', completions') /\ RollbackSound(mem', row', rollback')
  BY <1>1, <1>2 DEF SaverObject, RollbackSound
<1> QED BY <1>1, <1>2, <1>3, <1>4, <1>5, <1>6, <1>7, <1>8, Whole

-----------------------------------------------------------------------------
(* What the steps make of the object.                                      *)

\* The fields of the records the steps write.
LEMMA FinalizedFields ==
  ASSUME NEW m \in MemRec
  PROVE  LET x == FinalizedFailed(m)
         IN /\ x \in MemRec /\ x.failure = "complete" /\ x.disposed = TRUE
            /\ x.status = m.status /\ x.drop = m.drop /\ x.persist = m.persist /\ x.expected = m.expected
            /\ x.already = m.already /\ x.failed = m.failed /\ x.depth = m.depth
BY DEF FinalizedFailed, MemRec

\* The object after synchronizeTerminalState.
LEMMA SynchronizedFields ==
  ASSUME NEW m \in MemRec, NEW r \in Row, IsTerminalStatus(r.status)
  PROVE  LET x == SynchronizedTerminal(m, r)
         IN /\ x \in MemRec /\ x.failure = "complete" /\ x.disposed = TRUE
            /\ x.status = r.status /\ x.drop = r.drop /\ x.persist = "durable" /\ x.expected = m.expected
            /\ x.already = m.already /\ x.failed = m.failed /\ x.depth = m.depth
BY DEF SynchronizedTerminal, MemRec, Row, FaucetSessionStatus, IsTerminalStatus, Code, Amount

\* The object after it learned whether its insert is durable.
LEMMA PersistFields ==
  ASSUME NEW m \in MemRec, NEW k \in {"absent", "durable", "uncertain"}
  PROVE  LET x == [m EXCEPT !.persist = k]
         IN /\ x \in MemRec /\ x.persist = k /\ x.failure = m.failure /\ x.disposed = m.disposed
            /\ x.status = m.status /\ x.drop = m.drop /\ x.expected = m.expected /\ x.dirty = m.dirty
            /\ x.already = m.already /\ x.failed = m.failed /\ x.depth = m.depth /\ x.data = m.data
            /\ x.code = m.code /\ x.snapshot = m.snapshot
BY DEF MemRec

\* The object as it is.
LEMMA SameObject ==
  ASSUME SessionInv
  PROVE  SaverObject(mem) /\ (start # "new" => ChainObject(mem)) /\ (Busy => start # "new")
<1>1. /\ Shape /\ ObjectSound(mem) /\ RowSound(mem, row)
      /\ ChainSound(pc["chain"], chain, mem, row)
      /\ SaverSound(pc["saver"], call["saver"], pc["chain"], chain, mem, row)
      /\ CallSound(pc["chain"], call["chain"], mem, row, accounted)
      /\ CallSound(pc["saver"], call["saver"], mem, row, accounted)
      /\ StartSound(mem, row, queue, saves, pc["chain"], pc["saver"])
      /\ HooksSound(mem, row, accounted, completions)
  BY Parts
<1>2. SaverObject(mem) BY <1>1 DEF SaverObject, Shape, StartSound
<1>3. start = "hooks" => mem.status # "unknown"
  BY <1>1 DEF StartSound, ObjectSound, RowSound
<1> QED BY <1>1, <1>2, <1>3 DEF ChainObject, Shape, SaverSound, CallSound, StartSound, Busy

\* A row that was read as terminal is still the row, or was claimable and has timed out.
LEMMA TerminalRead ==
  ASSUME SessionInv, NEW w \in Workers, call[w].state = "done", IsTerminalStatus(Read(w).status)
  PROVE  /\ Read(w) \in Row /\ row # Absent /\ IsTerminalStatus(row.status)
         /\ row = Read(w) \/ (Read(w).status = "claimable" /\ TimedOutRow(row))
<1>1. call[w] \in CallRec /\ CallSound(pc[w], call[w], mem, row, accounted) BY DEF SessionInv, Shape
<1> QED BY <1>1 DEF Read, CallRec, CallSound, IsTerminalStatus, TimedOutRow, Absent

\* The object that takes over a terminal row agrees with it.
LEMMA SynchronizedSound ==
  ASSUME SessionInv, NEW w \in Workers, call[w].state = "done", IsTerminalStatus(Read(w).status)
  PROVE  LET x == SynchronizedTerminal(mem, Read(w))
         IN /\ x \in MemRec /\ ObjectSound(x) /\ RowSound(x, row)
            /\ x.disposed /\ x.failure = "complete" /\ x.status \in {"claimable", "failed"}
            /\ HasFailure(mem) => HasFailure(x)
            /\ x.depth = mem.depth
            /\ HooksSound(x, row, accounted, completions)
<1> DEFINE x == SynchronizedTerminal(mem, Read(w))
<1>1. /\ Read(w) \in Row /\ row # Absent /\ IsTerminalStatus(row.status)
      /\ row = Read(w) \/ (Read(w).status = "claimable" /\ TimedOutRow(row))
  BY TerminalRead
<1>2. mem \in MemRec /\ RowSound(mem, row) /\ HooksSound(mem, row, accounted, completions) BY Parts DEF Shape
<1>3. /\ x \in MemRec /\ x.failure = "complete" /\ x.disposed = TRUE
      /\ x.status = Read(w).status /\ x.drop = Read(w).drop /\ x.persist = "durable" /\ x.expected = mem.expected
      /\ x.already = mem.already /\ x.failed = mem.failed /\ x.depth = mem.depth
  BY <1>1, <1>2, SynchronizedFields
<1> HIDE DEF x
<1>4. ObjectSound(x) BY <1>3 DEF ObjectSound, IsTerminalStatus
<1>5. RowSound(x, row) BY <1>1, <1>2, <1>3 DEF RowSound, IsTerminalStatus, TimedOutRow
<1>6. HooksSound(x, row, accounted, completions) BY <1>2, <1>3 DEF HooksSound, IsTerminalStatus
<1>7. HasFailure(mem) => HasFailure(x) BY <1>3 DEF HasFailure
<1> QED BY <1>3, <1>4, <1>5, <1>6, <1>7 DEF x, IsTerminalStatus

\* A failure is final when the row says so, or when there is no row.
LEMMA FinalizedSound ==
  ASSUME SessionInv, NEW m \in MemRec, RowSound(m, row), mem.failure # "none", HasFailure(mem) => HasFailure(m),
         m.status = mem.status, m.drop = mem.drop, m.depth = mem.depth,
         m.status = "failed" => row = Absent \/ row.status = "failed"
  PROVE  LET x == FinalizedFailed(m)
         IN /\ x \in MemRec /\ ObjectSound(x) /\ RowSound(x, row)
            /\ x.disposed /\ x.failure = "complete" /\ x.status = mem.status
            /\ x.persist = m.persist /\ x.depth = mem.depth
            /\ HasFailure(mem) => HasFailure(x)
            /\ HooksSound(x, row, accounted, completions)
<1> DEFINE x == FinalizedFailed(m)
<1>1. /\ x \in MemRec /\ x.failure = "complete" /\ x.disposed = TRUE
      /\ x.status = m.status /\ x.drop = m.drop /\ x.persist = m.persist /\ x.expected = m.expected
      /\ x.already = m.already /\ x.failed = m.failed /\ x.depth = m.depth
  BY FinalizedFields
<1>2. mem \in MemRec /\ ObjectSound(mem) /\ RowSound(mem, row) /\ HooksSound(mem, row, accounted, completions)
  BY Parts DEF Shape
<1> HIDE DEF x
<1>3. ObjectSound(x) BY <1>1, <1>2 DEF ObjectSound
<1>4. RowSound(x, row)
  <2>1. x.status \in {"failed", "claimable"} /\ (x.status = "claimable" => mem.disposed)
    BY <1>1, <1>2 DEF ObjectSound
  <2>2. row.status # "running" BY <1>1, <1>2, <2>1 DEF RowSound, Absent, TimedOutRow
  <2> QED BY <1>1, <1>2, <2>1, <2>2 DEF RowSound
<1>5. HooksSound(x, row, accounted, completions) BY <1>1, <1>2 DEF HooksSound
<1>6. HasFailure(mem) => HasFailure(x) BY <1>1 DEF HasFailure
<1> QED BY <1>1, <1>3, <1>4, <1>5, <1>6 DEF x

\* An object whose failure is done is one a chain or a save may leave behind.
LEMMA DisposedObject ==
  ASSUME SessionInv, NEW x, x \in MemRec, ObjectSound(x), RowSound(x, row), x.disposed, x.failure = "complete",
         x.status \in {"claimable", "failed"}, HasFailure(mem) => HasFailure(x), x.depth = mem.depth,
         HooksSound(x, row, accounted, completions),
         start # "new", start = "hooks" => x.persist = "absent" /\ x.status = "failed"
  PROVE  /\ (pc["saver"] \in {"insert", "reconcile", "insertRead"} => row # Absent) => ChainObject(x)
         /\ /\ pc["chain"] = "failHooks" => x.status = "failed"
            /\ pc["chain"] \notin {"claimable", "claimableRead"}
            => SaverObject(x)
<1>1. /\ Shape /\ ObjectSound(mem) /\ RowSound(mem, row)
      /\ ChainSound(pc["chain"], chain, mem, row)
      /\ SaverSound(pc["saver"], call["saver"], pc["chain"], chain, mem, row)
      /\ CallSound(pc["chain"], call["chain"], mem, row, accounted)
      /\ CallSound(pc["saver"], call["saver"], mem, row, accounted)
  BY Parts
<1>2. ASSUME pc["saver"] \in {"insert", "reconcile", "insertRead"} => row # Absent
      PROVE  ChainObject(x)
  BY <1>1, <1>2 DEF ChainObject, CallSound
<1>3. ASSUME pc["chain"] = "failHooks" => x.status = "failed",
             pc["chain"] \notin {"claimable", "claimableRead"}
      PROVE  SaverObject(x)
  <2>1. ChainSound(pc["chain"], chain, x, row) BY <1>1, <1>3 DEF ChainSound
  <2>2. CallSound(pc["chain"], call["chain"], x, row, accounted) BY <1>1, <1>3 DEF CallSound
  <2> QED BY <1>3, <2>1, <2>2 DEF SaverObject
<1> QED BY <1>2, <1>3

-----------------------------------------------------------------------------
(* A failure is made durable, by the chain or in a save.                   *)

\* Start rollbacks run only when the session never becomes payable.
LEMMA RollbackRuns ==
  ASSUME SessionInv, NEW m, ObjectSound(m), RowSound(m, row), m \in MemRec, mem.disposed => m.disposed,
         RunStartRollbacks(m) \/ rollback' = rollback
  PROVE  rollback' \in {"none", "registered", "ran", "cleared"} /\ RollbackSound(m, row, rollback')
<1>1. Shape /\ RollbackSound(mem, row, rollback) BY Parts
<1>2. CASE rollback' = rollback BY <1>1, <1>2 DEF RollbackSound, Shape
<1>3. CASE RunStartRollbacks(m)
  <2>1. rollback' = rollback \/ (rollback' \in {"ran", "cleared"} /\ m.failure = "complete")
    BY <1>3 DEF RunStartRollbacks
  <2>2. rollback' # rollback => m.disposed /\ m.status \in {"failed", "claimable"}
    BY <2>1 DEF ObjectSound
  <2>3. rollback' # rollback /\ rollback' = "ran" => row.status \in {"absent", "failed"}
    BY <1>3, <2>2 DEF RunStartRollbacks, RowSound, Absent, IsTerminalStatus, MemRec
  <2>4. rollback' # rollback /\ rollback' = "cleared" => row # Absent
    BY <1>3, <2>2 DEF RunStartRollbacks, RowSound, Absent, IsTerminalStatus, TimedOutRow
  <2> QED BY <1>1, <2>1, <2>2, <2>3, <2>4 DEF RollbackSound, Shape
<1> QED BY <1>2, <1>3

\* A worker that persists the failure of the session.
FailingWorker(w) ==
  /\ w = "chain" => pc["chain"] \in {"persist"} \union Failing /\ ChainSound(pc["chain"], chain, mem, row)
  /\ w = "saver" => /\ saves # <<>> /\ Head(saves) # "tail"
                    /\ \/ pc["saver"] = "idle" /\ mem.failure = "pending"
                       \/ pc["saver"] \in Failing

\* What holds while a worker makes a failure durable.
LEMMA FailingContext ==
  ASSUME SessionInv, NEW w \in Workers, FailingWorker(w)
  PROVE  /\ mem.failure # "none" /\ start # "new" /\ (start = "saving" => row # Absent)
         /\ w = "chain" => /\ Busy /\ pc["chain"] \notin Awaiting /\ mem.depth = 0
                           /\ ~Committing(pc["chain"], chain) /\ PastTail(pc["chain"], chain)
                           /\ pc["saver"] \notin Saving
         /\ w = "saver" => ~Committing(pc["chain"], chain)
<1>1. /\ Shape /\ ChainSound(pc["chain"], chain, mem, row) /\ ObjectSound(mem)
      /\ SaverSound(pc["saver"], call["saver"], pc["chain"], chain, mem, row)
      /\ CallSound(pc["chain"], call["chain"], mem, row, accounted)
      /\ CallSound(pc["saver"], call["saver"], mem, row, accounted)
      /\ StartSound(mem, row, queue, saves, pc["chain"], pc["saver"])
  BY Parts
<1>2. mem.failure # "none" BY <1>1 DEF FailingWorker, ChainSound, CallSound, HasFailure, Workers
<1>3. start # "new" /\ (start = "saving" => row # Absent) BY <1>1, <1>2 DEF StartSound
<1>4. ASSUME w = "chain"
      PROVE  /\ Busy /\ pc["chain"] \notin Awaiting /\ mem.depth = 0
             /\ ~Committing(pc["chain"], chain) /\ PastTail(pc["chain"], chain)
  <2>1. pc["chain"] \in {"persist", "failReconcile", "failTransition", "failRead"}
    BY <1>4 DEF FailingWorker, Failing
  <2>2. mem.depth = 0 BY <1>1, <2>1 DEF ChainSound, Shape, MemRec
  <2> QED BY <2>1, <2>2 DEF Busy, Awaiting, Committing, PastTail, Completing, Failing
<1>5. w = "saver" => ~Committing(pc["chain"], chain)
  BY <1>1 DEF FailingWorker, ChainSound, SaverSound
<1> QED BY <1>1, <1>2, <1>3, <1>4, <1>5 DEF SaverSound

\* An object that a failing worker leaves behind.
LEMMA FailedObject ==
  ASSUME SessionInv, NEW w \in Workers, FailingWorker(w), NEW x, x \in MemRec, ObjectSound(x), RowSound(x, row),
         x.disposed, x.failure = "complete", x.status \in {"claimable", "failed"},
         HasFailure(mem) => HasFailure(x), x.depth = mem.depth, HooksSound(x, row, accounted, completions),
         start = "hooks" => x.persist = "absent" /\ x.status = "failed",
         w = "saver" /\ pc["chain"] = "failHooks" => x.status = "failed"
  PROVE  (w = "chain" => ChainObject(x)) /\ (w = "saver" => SaverObject(x))
<1>1. start # "new" BY FailingContext
<1>2. w = "chain" => ~(pc["saver"] \in {"insert", "reconcile", "insertRead"})
  BY FailingContext DEF Saving
<1>3. w = "saver" => pc["chain"] \notin {"claimable", "claimableRead"}
  BY FailingContext DEF Committing, Completing
<1> QED BY <1>1, <1>2, <1>3, DisposedObject

\* persistFailedSession returns or throws.
LEMMA FailedEnds ==
  ASSUME SessionInv, NEW w \in Workers, FailingWorker(w), NEW m, NEW ok \in BOOLEAN, PersistFailedEnds(w, m, ok),
         m.depth = mem.depth, m.status # "committing", HooksSound(m, row, accounted, completions),
         (w = "chain" => ChainObject(m)) /\ (w = "saver" => SaverObject(m))
  PROVE  SessionInv'
<1>1. /\ m \in MemRec /\ ObjectSound(m) /\ RowSound(m, row) /\ (mem.disposed => m.disposed)
  BY DEF ChainObject, SaverObject, Workers
<1>2. /\ row' = row /\ accounted' = accounted /\ completions' = completions
      /\ RunStartRollbacks(m) \/ rollback' = rollback
  BY DEF PersistFailedEnds
<1>3. rollback' \in {"none", "registered", "ran", "cleared"} /\ RollbackSound(m, row, rollback')
  BY <1>1, <1>2, RollbackRuns
<1>4. accounted \in Nat /\ completions \in 0..1 BY Parts DEF Shape
<1>5. CASE w = "chain"
  <2>1. EndOperation(m, chain.reject \/ ~ok) /\ saves' = saves /\ start' = start /\ phase' = phase
    BY <1>5 DEF PersistFailedEnds
  <2>2. Busy /\ pc["chain"] \notin Awaiting /\ m.depth = 0 BY <1>5, FailingContext
  <2> QED BY <1>2, <1>3, <1>4, <1>5, <2>1, <2>2, OperationEnds
<1>6. CASE w = "saver"
  <2>1. EndSave(m, ok) /\ queue' = queue /\ chain' = chain BY <1>6 DEF PersistFailedEnds
  <2>2. saves # <<>> /\ Head(saves) # "tail" /\ (start = "saving" => row # Absent)
    BY <1>6, FailingContext DEF FailingWorker
  <2> QED BY <1>2, <1>3, <1>6, <2>1, <2>2, SaveEnds
<1> QED BY <1>5, <1>6 DEF Workers

\* persistFailedSession calls the database.
LEMMA FailedCalls ==
  ASSUME SessionInv, NEW w \in Workers, FailingWorker(w), NEW m, NEW at \in Failing, NEW c \in CallRec,
         PersistFailedCalls(w, m, at, c), c.state = "sent", CallSound(at, c, m, row, accounted),
         m.disposed = mem.disposed, m.failure = mem.failure, m.depth = mem.depth, start # "hooks",
         HooksSound(m, row, accounted, completions),
         (w = "chain" => ChainObject(m)) /\ (w = "saver" => SaverObject(m))
  PROVE  SessionInv'
<1>1. accounted' = accounted /\ completions' = completions /\ saves' = saves BY DEF PersistFailedCalls
<1>2. accounted \in Nat /\ completions \in 0..1 /\ chain \in OpRec BY Parts DEF Shape
<1>3. at \in ChainPoints \ {"idle"} /\ at \in SaverPoints \ {"idle"} BY DEF ChainPoints, SaverPoints, Failing
<1>4. at # "failHooks" /\ at \notin Saving /\ at \notin {"insert", "reconcile", "insertRead"}
  BY DEF Failing, Saving
<1>5. CASE w = "chain"
  <2>1. ChainGoes(m, chain, at, c) BY <1>5 DEF PersistFailedCalls, ChainGoes
  <2>2. /\ Busy /\ pc["chain"] \notin Awaiting /\ mem.failure # "none" /\ mem.depth = 0
        /\ pc["saver"] \notin Saving
    BY <1>5, FailingContext
  <2>3. ~Committing(at, chain) BY DEF Failing, Committing, Completing
  <2>4. ChainSound(at, chain, m, row)
    <3>1. m.status # "committing" BY <1>5, <2>2 DEF ChainObject, ObjectSound
    <3>2. chain.already => row.status = "failed" BY Parts DEF ChainSound
    <3> QED BY <2>2, <2>3, <3>1, <3>2 DEF ChainSound, Failing, Completing, TimingOut
  <2>5. start = "hooks" => at \in {"factors", "accounting", "tail", "persist"} OBVIOUS
  <2> QED BY <1>1, <1>2, <1>3, <1>4, <1>5, <2>1, <2>2, <2>3, <2>4, <2>5, OperationGoes
<1>6. CASE w = "saver"
  <2>1. SaverCalls(m, at, c) BY <1>6 DEF PersistFailedCalls, SaverCalls
  <2>2. /\ saves # <<>> /\ Head(saves) # "tail" /\ (start = "saving" => row # Absent)
        /\ start \notin {"new", "hooks"} /\ ~Committing(pc["chain"], chain)
    BY <1>6, FailingContext DEF FailingWorker
  <2>3. SaverSound(at, c, pc["chain"], chain, m, row) BY <1>4, <2>2 DEF SaverSound
  <2> QED BY <1>1, <1>3, <1>6, <2>1, <2>2, <2>3, SaveCalls
<1> QED BY <1>5, <1>6 DEF Workers

\* The calls of a failing worker.
LEMMA SentFields ==
  ASSUME SessionInv, NEW op \in {"insert", "update", "transition", "timeout", "read"},
         NEW data \in Row, NEW expected \in Expected
  PROVE  LET c == Sent(op, data, expected)
         IN /\ c \in CallRec /\ c.state = "sent" /\ c.op = op /\ c.data = data /\ c.expected = expected
            /\ Absent \in Row
<1>1. Absent \in Row BY Parts DEF Absent, Row, Shape, SessionAssumption
<1> QED BY <1>1 DEF Sent, NoCall, CallRec, Expected

\* The database calls that make a failure durable are sound.
LEMMA FailingCalls ==
  ASSUME SessionInv, NEW m, m \in MemRec, HasFailure(m)
  PROVE  /\ Sent("transition", mem.failed, mem.expected) \in CallRec
         /\ Sent("read", Absent, "none") \in CallRec
         /\ Sent("transition", mem.failed, mem.expected).state = "sent"
         /\ Sent("read", Absent, "none").state = "sent"
         /\ HasFailure(mem) => CallSound("failTransition", Sent("transition", mem.failed, mem.expected), m, row, accounted)
         /\ CallSound("failReconcile", Sent("read", Absent, "none"), m, row, accounted)
         /\ CallSound("failRead", Sent("read", Absent, "none"), m, row, accounted)
<1>1. mem \in MemRec /\ mem.failed \in Row /\ mem.expected \in Expected BY Parts DEF Shape, MemRec
<1>2. Absent \in Row BY Parts DEF Absent, Row, Shape, SessionAssumption
<1> DEFINE t == Sent("transition", mem.failed, mem.expected)
           r == Sent("read", Absent, "none")
<1>3. /\ t \in CallRec /\ t.state = "sent" /\ t.op = "transition" /\ t.data = mem.failed /\ t.expected = mem.expected
      /\ r \in CallRec /\ r.state = "sent" /\ r.op = "read"
  BY <1>1, <1>2, SentFields DEF Expected
<1> HIDE DEF t, r
<1>4. HasFailure(mem) => CallSound("failTransition", t, m, row, accounted)
  BY <1>3 DEF CallSound, CallOf, HasFailure, Failing
<1>5. CallSound("failReconcile", r, m, row, accounted) /\ CallSound("failRead", r, m, row, accounted)
  BY <1>3 DEF CallSound, CallOf, Failing
<1> QED BY <1>3, <1>4, <1>5 DEF t, r

\* The object whose insert is known to be durable, or to be lost.
LEMMA PersistSound ==
  ASSUME SessionInv, NEW w \in Workers, FailingWorker(w), NEW k \in {"absent", "durable", "uncertain"},
         k = "absent" => row = Absent \/ mem.persist = "absent",
         start # "hooks" \/ k = mem.persist
  PROVE  LET x == [mem EXCEPT !.persist = k]
         IN /\ x \in MemRec /\ ObjectSound(x) /\ RowSound(x, row) /\ x.persist = k
            /\ x.status = mem.status /\ x.drop = mem.drop /\ x.depth = mem.depth /\ x.failure = mem.failure
            /\ x.disposed = mem.disposed /\ (HasFailure(mem) <=> HasFailure(x))
            /\ HooksSound(x, row, accounted, completions)
            /\ w = "chain" => ChainObject(x)
            /\ w = "saver" => SaverObject(x)
<1> DEFINE x == [mem EXCEPT !.persist = k]
<1>1. /\ Shape /\ mem \in MemRec /\ ObjectSound(mem) /\ RowSound(mem, row)
      /\ HooksSound(mem, row, accounted, completions) /\ SaverObject(mem) /\ (start # "new" => ChainObject(mem))
  BY Parts, SameObject DEF Shape
<1>2. /\ x \in MemRec /\ x.persist = k /\ x.failure = mem.failure /\ x.disposed = mem.disposed
      /\ x.status = mem.status /\ x.drop = mem.drop /\ x.expected = mem.expected /\ x.dirty = mem.dirty
      /\ x.already = mem.already /\ x.failed = mem.failed /\ x.depth = mem.depth
  BY <1>1, PersistFields
<1> HIDE DEF x
<1>3. ObjectSound(x) /\ (HasFailure(mem) <=> HasFailure(x)) BY <1>1, <1>2 DEF ObjectSound, HasFailure
<1>4. RowSound(x, row) BY <1>1, <1>2 DEF RowSound
<1>5. HooksSound(x, row, accounted, completions) BY <1>1, <1>2 DEF HooksSound
<1>6. start # "new" BY FailingContext
<1>7. ASSUME w = "chain" PROVE ChainObject(x)
  <2>1. pc["saver"] \notin {"insert", "reconcile", "insertRead"} BY <1>7, FailingContext DEF Saving
  <2> QED BY <1>1, <1>2, <1>3, <1>4, <1>6, <2>1 DEF ChainObject
<1>8. ASSUME w = "saver" PROVE SaverObject(x)
  <2>1. ChainSound(pc["chain"], chain, x, row) /\ CallSound(pc["chain"], call["chain"], x, row, accounted)
    BY <1>1, <1>2, <1>3 DEF SaverObject, ChainSound, CallSound
  <2> QED BY <1>1, <1>2, <1>3, <1>4, <1>5, <1>6, <2>1 DEF SaverObject
<1> QED BY <1>2, <1>3, <1>4, <1>5, <1>7, <1>8 DEF x

\* The final failure of an object whose row is known.
LEMMA FinalizedEnds ==
  ASSUME SessionInv, NEW w \in Workers, FailingWorker(w), NEW k \in {"absent", "durable", "uncertain"},
         k = "absent" => row = Absent \/ mem.persist = "absent",
         start # "hooks" \/ k = mem.persist,
         mem.status = "failed" => row = Absent \/ row.status = "failed",
         PersistFailedEnds(w, FinalizedFailed([mem EXCEPT !.persist = k]), TRUE)
  PROVE  SessionInv'
<1> DEFINE y == [mem EXCEPT !.persist = k]
           x == FinalizedFailed(y)
<1>1. /\ y \in MemRec /\ RowSound(y, row) /\ y.persist = k
      /\ y.status = mem.status /\ y.drop = mem.drop /\ y.depth = mem.depth
      /\ (HasFailure(mem) <=> HasFailure(y))
  BY PersistSound
<1>2. mem.failure # "none" /\ start # "new" BY FailingContext
<1>3. /\ x \in MemRec /\ ObjectSound(x) /\ RowSound(x, row) /\ x.disposed /\ x.failure = "complete"
      /\ x.status = mem.status /\ x.persist = k /\ x.depth = mem.depth /\ (HasFailure(mem) => HasFailure(x))
      /\ HooksSound(x, row, accounted, completions)
  BY <1>1, <1>2, FinalizedSound
<1>4. /\ ObjectSound(mem) /\ ChainSound(pc["chain"], chain, mem, row) /\ RowSound(mem, row)
      /\ StartSound(mem, row, queue, saves, pc["chain"], pc["saver"])
  BY Parts
<1>5. mem.status \in {"failed", "claimable"} BY <1>2, <1>4 DEF ObjectSound
<1>6. start = "hooks" => k = "absent" /\ mem.status = "failed" BY <1>4, <1>5 DEF StartSound
<1>7. pc["chain"] = "failHooks" => mem.status = "failed" BY <1>4 DEF ChainSound
<1>8. PersistFailedEnds(w, x, TRUE) OBVIOUS
<1> HIDE DEF x, y
<1>9. (w = "chain" => ChainObject(x)) /\ (w = "saver" => SaverObject(x))
  BY <1>3, <1>5, <1>6, <1>7, FailedObject
<1>10. x.status # "committing" BY <1>3, <1>5
<1> QED BY <1>3, <1>8, <1>9, <1>10, FailedEnds

\* The session takes over the terminal row that a failing worker finds.
LEMMA FailedSynchronizes ==
  ASSUME SessionInv, NEW w \in Workers, FailingWorker(w), call[w].state = "done", IsTerminalStatus(Read(w).status),
         PersistFailedEnds(w, SynchronizedTerminal(mem, Read(w)), TRUE)
  PROVE  SessionInv'
<1> DEFINE x == SynchronizedTerminal(mem, Read(w))
<1>1. /\ x \in MemRec /\ ObjectSound(x) /\ RowSound(x, row)
      /\ x.disposed /\ x.failure = "complete" /\ x.status \in {"claimable", "failed"}
      /\ HasFailure(mem) => HasFailure(x)
      /\ x.depth = mem.depth /\ HooksSound(x, row, accounted, completions)
  BY SynchronizedSound
<1>2. x.status = Read(w).status /\ row # Absent
  <2>1. Read(w) \in Row /\ row # Absent BY TerminalRead
  <2>2. mem \in MemRec BY Parts DEF Shape
  <2> QED BY <2>1, <2>2, SynchronizedFields
<1>3. /\ SaverSound(pc["saver"], call["saver"], pc["chain"], chain, mem, row)
      /\ StartSound(mem, row, queue, saves, pc["chain"], pc["saver"])
  BY Parts
<1>4. w = "saver" /\ pc["chain"] = "failHooks" => x.status = "failed"
  BY <1>1, <1>2, <1>3 DEF SaverSound, Read
<1>5. start # "hooks" BY <1>2, <1>3 DEF StartSound
<1>6. PersistFailedEnds(w, x, TRUE) OBVIOUS
<1> HIDE DEF x
<1>7. (w = "chain" => ChainObject(x)) /\ (w = "saver" => SaverObject(x))
  BY <1>1, <1>4, <1>5, FailedObject
<1> QED BY <1>1, <1>6, <1>7, FailedEnds

\* The failure stays pending: the database could not tell.
LEMMA FailedGivesUp ==
  ASSUME SessionInv, NEW w \in Workers, FailingWorker(w), NEW ok \in BOOLEAN, PersistFailedEnds(w, mem, ok)
  PROVE  SessionInv'
<1>1. start # "new" /\ mem.failure # "none" BY FailingContext
<1>2. SaverObject(mem) /\ ChainObject(mem) BY <1>1, SameObject
<1>3. HooksSound(mem, row, accounted, completions) /\ ObjectSound(mem) BY Parts
<1>4. mem.status # "committing" BY <1>1, <1>3 DEF ObjectSound
<1> QED BY <1>2, <1>3, <1>4, FailedEnds

\* persistFailedSession, up to its first call.
LEMMA PersistFailedKeeps ==
  ASSUME SessionInv, NEW w \in Workers, FailingWorker(w), PersistFailedSession(w),
         w = "chain" => pc["chain"] = "persist", w = "saver" => pc["saver"] = "idle"
  PROVE  SessionInv'
<1>1. /\ Shape /\ ObjectSound(mem) /\ RowSound(mem, row)
      /\ StartSound(mem, row, queue, saves, pc["chain"], pc["saver"])
  BY Parts
<1>2. mem \in MemRec BY <1>1 DEF Shape
<1>3. CASE mem.failure # "pending"
  <2>1. PersistFailedEnds(w, mem, TRUE) BY <1>3 DEF PersistFailedSession
  <2> QED BY <2>1, FailedGivesUp
<1>4. CASE mem.failure = "pending" /\ (mem.already \/ mem.persist = "absent")
  <2> DEFINE k == IF mem.already THEN "durable" ELSE mem.persist
  <2>1. PersistFailedEnds(w, FinalizedFailed([mem EXCEPT !.persist = k]), TRUE)
    BY <1>4 DEF PersistFailedSession
  <2>2. k \in {"absent", "durable", "uncertain"} BY <1>2 DEF MemRec
  <2>3. start = "hooks" => k = mem.persist BY <1>1 DEF StartSound, RowSound, Absent
  <2>4. mem.status = "failed" => row = Absent \/ row.status = "failed" BY <1>1, <1>4 DEF RowSound
  <2>5. k = "absent" => mem.persist = "absent" OBVIOUS
  <2> HIDE DEF k
  <2> QED BY <2>1, <2>2, <2>3, <2>4, <2>5, FinalizedEnds
<1>5. CASE mem.failure = "pending" /\ ~mem.already /\ mem.persist # "absent"
  <2>1. HasFailure(mem) BY <1>1, <1>5 DEF ObjectSound
  <2>2. start \notin {"new", "hooks"} BY <1>1, <1>5 DEF StartSound
  <2>3. SaverObject(mem) /\ ChainObject(mem) /\ HooksSound(mem, row, accounted, completions)
    BY <2>2, SameObject, Parts
  <2>4. "failReconcile" \in Failing /\ "failTransition" \in Failing BY DEF Failing
  <2>5. CASE mem.persist = "uncertain"
    <3>1. PersistFailedCalls(w, mem, "failReconcile", Sent("read", Absent, "none"))
      BY <1>5, <2>5 DEF PersistFailedSession
    <3> QED BY <1>2, <2>1, <2>2, <2>3, <2>4, <3>1, FailingCalls, FailedCalls
  <2>6. CASE mem.persist # "uncertain"
    <3>1. PersistFailedCalls(w, mem, "failTransition", Sent("transition", mem.failed, mem.expected))
      BY <1>5, <2>6 DEF PersistFailedSession
    <3> QED BY <1>2, <2>1, <2>2, <2>3, <2>4, <3>1, FailingCalls, FailedCalls
  <2> QED BY <2>5, <2>6
<1> QED BY <1>3, <1>4, <1>5

\* A worker that has the answer to such a call.
LEMMA AnsweredFailing ==
  ASSUME SessionInv, NEW w \in Workers, NEW at \in Failing, Answered(w, at)
  PROVE  /\ FailingWorker(w) /\ HasFailure(mem) /\ start # "hooks" /\ call[w].state = "done"
         /\ call[w] \in CallRec /\ CallSound(at, call[w], mem, row, accounted)
         /\ mem \in MemRec /\ ObjectSound(mem) /\ RowSound(mem, row)
<1>1. /\ Shape /\ ChainSound(pc["chain"], chain, mem, row) /\ ObjectSound(mem) /\ RowSound(mem, row)
      /\ CallSound(pc[w], call[w], mem, row, accounted)
      /\ StartSound(mem, row, queue, saves, pc["chain"], pc["saver"])
      /\ SavesSound(saves, pc["chain"], pc["saver"])
  BY Parts DEF Workers
<1>2. pc[w] = at /\ call[w].state = "done" /\ at # "idle" /\ at \notin {"factors", "accounting", "tail", "persist"}
  BY DEF Answered, Failing
<1>3. HasFailure(mem) BY <1>1, <1>2 DEF CallSound
<1>4. start # "hooks" BY <1>1, <1>2 DEF StartSound, Workers
<1>5. w = "saver" => saves # <<>> /\ Head(saves) # "tail"
  BY <1>1, <1>2, SavesShrink DEF SavesSound
<1>6. FailingWorker(w) BY <1>1, <1>2, <1>5 DEF FailingWorker
<1> QED BY <1>1, <1>2, <1>3, <1>4, <1>6 DEF Shape

\* reconcileUncertainInsert within persistFailedSession.
LEMMA FailReconcileKeeps ==
  ASSUME SessionInv, NEW w \in Workers, FailReconcile(w)
  PROVE  SessionInv'
<1>1. Answered(w, "failReconcile") /\ "failReconcile" \in Failing BY DEF FailReconcile, Failing
<1>2. /\ FailingWorker(w) /\ HasFailure(mem) /\ start # "hooks" /\ call[w].state = "done"
      /\ call[w] \in CallRec /\ CallSound("failReconcile", call[w], mem, row, accounted)
      /\ mem \in MemRec /\ ObjectSound(mem) /\ RowSound(mem, row)
  BY <1>1, AnsweredFailing
<1>3. CASE Reply(w) = "error" \/ Reconciled(mem, Read(w))[2] = "mismatch"
  <2>1. PersistFailedEnds(w, mem, FALSE) BY <1>3 DEF FailReconcile
  <2> QED BY <1>2, <2>1, FailedGivesUp
<1>4. CASE Reply(w) # "error" /\ Read(w) = Absent
  <2>1. Reconciled(mem, Read(w)) = <<[mem EXCEPT !.persist = "absent"], "absent">> BY <1>4 DEF Reconciled
  <2> DEFINE r == Reconciled(mem, Read(w))
             y == [mem EXCEPT !.persist = "absent"]
  <2>4. r[2] = "absent" /\ r[1] = y BY <2>1
  <2>5. PersistFailedEnds(w, IF r[2] = "absent" THEN FinalizedFailed(r[1]) ELSE r[1], TRUE)
    <3> HIDE DEF y
    <3> QED BY <1>4, <2>4 DEF FailReconcile
  <2>2. PersistFailedEnds(w, FinalizedFailed(y), TRUE)
    <3> HIDE DEF y, r
    <3> QED BY <2>4, <2>5
  <2> HIDE DEF r
  <2>6. PersistFailedEnds(w, FinalizedFailed([mem EXCEPT !.persist = "absent"]), TRUE)
    BY <2>2
  <2>3. row = Absent BY <1>2, <1>4 DEF CallSound, Read
  <2> QED BY <1>2, <2>3, <2>6, FinalizedEnds
<1>5. CASE Reply(w) # "error" /\ Read(w) # Absent /\ Read(w) = mem.snapshot
  <2> DEFINE x == [mem EXCEPT !.persist = "durable"]
  <2>1. Reconciled(mem, Read(w)) = <<x, "durable">> BY <1>5 DEF Reconciled
  <2>2. PersistFailedCalls(w, x, "failTransition", Sent("transition", mem.failed, mem.expected))
    BY <1>5, <2>1 DEF FailReconcile
  <2>3. /\ x \in MemRec /\ x.depth = mem.depth /\ x.failure = mem.failure /\ x.disposed = mem.disposed
        /\ HasFailure(x) /\ HooksSound(x, row, accounted, completions)
        /\ w = "chain" => ChainObject(x)
        /\ w = "saver" => SaverObject(x)
    BY <1>2, PersistSound
  <2>4. "failTransition" \in Failing BY DEF Failing
  <2> HIDE DEF x
  <2> QED BY <1>2, <2>2, <2>3, <2>4, FailingCalls, FailedCalls
<1>6. CASE /\ Reply(w) # "error" /\ Read(w) # Absent /\ Read(w) # mem.snapshot
           /\ IsTerminalStatus(Read(w).status)
  <2>1. Reconciled(mem, Read(w)) = <<SynchronizedTerminal(mem, Read(w)), "terminal">>
    BY <1>6 DEF Reconciled
  <2> DEFINE r == Reconciled(mem, Read(w))
             y == SynchronizedTerminal(mem, Read(w))
  <2>3. r[2] = "terminal" /\ r[1] = y BY <2>1
  <2>4. PersistFailedEnds(w, IF r[2] = "absent" THEN FinalizedFailed(r[1]) ELSE r[1], TRUE)
    <3> HIDE DEF y
    <3> QED BY <1>6, <2>3 DEF FailReconcile
  <2>2. PersistFailedEnds(w, y, TRUE)
    <3> HIDE DEF y, r
    <3> QED BY <2>3, <2>4
  <2> QED BY <1>2, <1>6, <2>2, FailedSynchronizes
<1>7. CASE /\ Reply(w) # "error" /\ Read(w) # Absent /\ Read(w) # mem.snapshot
           /\ ~IsTerminalStatus(Read(w).status)
  <2>1. Reconciled(mem, Read(w))[2] = "mismatch" BY <1>7 DEF Reconciled
  <2> QED BY <1>3, <2>1
<1> QED BY <1>3, <1>4, <1>5, <1>6, <1>7

\* The transition to FAILED, and the read after one that did not succeed.
LEMMA FailTransitionKeeps ==
  ASSUME SessionInv, NEW w \in Workers, FailTransition(w)
  PROVE  SessionInv'
<1>1. Answered(w, "failTransition") /\ "failTransition" \in Failing /\ "failRead" \in Failing
  BY DEF FailTransition, Failing
<1>2. /\ FailingWorker(w) /\ HasFailure(mem) /\ start # "hooks" /\ call[w].state = "done"
      /\ call[w] \in CallRec /\ CallSound("failTransition", call[w], mem, row, accounted)
      /\ mem \in MemRec
  BY <1>1, AnsweredFailing
<1>3. CASE Reply(w) = "ok"
  <2>1. PersistFailedEnds(w, FinalizedFailed([mem EXCEPT !.persist = "durable"]), TRUE)
    BY <1>3 DEF FailTransition
  <2>2. row.status = "failed"
    BY <1>2, <1>3 DEF CallSound, CallOf, Reply, IsTerminalStatus, TimedOutRow
  <2> QED BY <1>2, <2>1, <2>2, FinalizedEnds
<1>4. CASE Reply(w) # "ok"
  <2>1. PersistFailedCalls(w, mem, "failRead", Sent("read", Absent, "none"))
    BY <1>4 DEF FailTransition
  <2>2. SaverObject(mem) /\ ChainObject(mem) /\ HooksSound(mem, row, accounted, completions)
    BY <1>2, FailingContext, SameObject, Parts
  <2> QED BY <1>1, <1>2, <2>1, <2>2, FailingCalls, FailedCalls
<1> QED BY <1>3, <1>4

\* The row was read after a failed transition.
LEMMA FailReadKeeps ==
  ASSUME SessionInv, NEW w \in Workers, FailRead(w)
  PROVE  SessionInv'
<1>1. Answered(w, "failRead") /\ "failRead" \in Failing BY DEF FailRead, Failing
<1>2. /\ FailingWorker(w) /\ HasFailure(mem) /\ start # "hooks" /\ call[w].state = "done"
      /\ call[w] \in CallRec /\ CallSound("failRead", call[w], mem, row, accounted)
      /\ mem \in MemRec
  BY <1>1, AnsweredFailing
<1>3. CASE Reply(w) = "error" \/ (Read(w) # mem.failed /\ ~IsTerminalStatus(Read(w).status))
  <2>1. PersistFailedEnds(w, mem, FALSE) BY <1>3 DEF FailRead
  <2> QED BY <1>2, <2>1, FailedGivesUp
<1>4. CASE Reply(w) # "error" /\ Read(w) = mem.failed
  <2>1. PersistFailedEnds(w, FinalizedFailed([mem EXCEPT !.persist = "durable"]), TRUE)
    BY <1>4 DEF FailRead
  <2>2. IsTerminalStatus(Read(w).status) /\ Read(w).status = "failed"
    BY <1>2, <1>4 DEF HasFailure, IsTerminalStatus
  <2>3. row.status = "failed" BY <1>2, <2>2, TerminalRead
  <2> QED BY <1>2, <2>1, <2>3, FinalizedEnds
<1>5. CASE Reply(w) # "error" /\ Read(w) # mem.failed /\ IsTerminalStatus(Read(w).status)
  <2>1. PersistFailedEnds(w, SynchronizedTerminal(mem, Read(w)), TRUE) BY <1>5 DEF FailRead
  <2> QED BY <1>2, <1>5, <2>1, FailedSynchronizes
<1> QED BY <1>3, <1>4, <1>5

-----------------------------------------------------------------------------
(* The saver.                                                              *)

\* Only what a save may write differs.
SameBut(x) ==
  /\ x \in MemRec /\ x.status = mem.status /\ x.drop = mem.drop /\ x.failure = mem.failure
  /\ x.expected = mem.expected /\ x.already = mem.already /\ x.failed = mem.failed
  /\ x.disposed = mem.disposed /\ x.depth = mem.depth

\* What a save may change of the object.
LEMMA SavedObject ==
  ASSUME SessionInv, NEW x, SameBut(x), x.persist = "absent" => row = Absent \/ mem.persist = "absent",
         start \notin {"new", "hooks"} \/ x.persist = mem.persist
  PROVE  SaverObject(x)
<1>1. SaverObject(mem) BY SameObject
<1>2. ObjectSound(x) /\ RowSound(x, row)
  BY <1>1 DEF SaverObject, SameBut, ObjectSound, RowSound, HasFailure
<1>3. ChainSound(pc["chain"], chain, x, row) BY <1>1 DEF SaverObject, SameBut, ChainSound
<1>4. CallSound(pc["chain"], call["chain"], x, row, accounted)
  BY <1>1 DEF SaverObject, SameBut, CallSound, HasFailure
<1>5. HooksSound(x, row, accounted, completions) BY <1>1 DEF SaverObject, SameBut, HooksSound
<1> QED BY <1>1, <1>2, <1>3, <1>4, <1>5 DEF SaverObject, SameBut

\* The fields of the objects a save makes.
LEMMA SavedFields ==
  ASSUME SessionInv, NEW d \in BOOLEAN
  PROVE  /\ SameBut(mem) /\ mem \in MemRec
         /\ SameBut([mem EXCEPT !.dirty = d])
         /\ [mem EXCEPT !.dirty = d].persist = mem.persist /\ [mem EXCEPT !.dirty = d].dirty = d
         /\ [mem EXCEPT !.dirty = d].data = mem.data /\ [mem EXCEPT !.dirty = d].code = mem.code
<1>1. mem \in MemRec BY Parts DEF Shape
<1> QED BY <1>1 DEF SameBut, MemRec

\* A save learns the durability, and marks the object dirty again.
LEMMA SavedPersist ==
  ASSUME SessionInv, NEW k \in {"absent", "durable", "uncertain"}
  PROVE  LET y == [mem EXCEPT !.persist = k]
             x == [y EXCEPT !.dirty = TRUE]
         IN /\ SameBut(y) /\ y.persist = k
            /\ SameBut(x) /\ x.persist = k /\ x.dirty = TRUE
<1>1. mem \in MemRec BY Parts DEF Shape
<1> QED BY <1>1 DEF SameBut, MemRec

\* A save takes the snapshot of its insert.
LEMMA SavedSnapshot ==
  ASSUME SessionInv, NEW r \in Row, NEW y,
         y = [mem EXCEPT !.dirty = FALSE] \/ y = [mem EXCEPT !.persist = "absent"]
  PROVE  LET x == [y EXCEPT !.persist = "uncertain", !.snapshot = r]
         IN SameBut(x) /\ x.persist = "uncertain"
<1>1. mem \in MemRec BY Parts DEF Shape
<1> QED BY <1>1 DEF SameBut, MemRec

\* A save that ends without a start rollback.
LEMMA SaverEndsKeeps ==
  ASSUME SessionInv, NEW m, NEW ok \in BOOLEAN, SaverEnds(m, ok), SaverObject(m), saves # <<>>, Head(saves) # "tail",
         start = "saving" =>
           row # Absent \/ (~ok /\ m.status = "running" /\ m.failure = "none" /\ m.dirty)
  PROVE  SessionInv'
<1>1. /\ EndSave(m, ok) /\ row' = row /\ queue' = queue /\ chain' = chain /\ rollback' = rollback
      /\ accounted' = accounted /\ completions' = completions
  BY DEF SaverEnds
<1>2. rollback' \in {"none", "registered", "ran", "cleared"} /\ RollbackSound(m, row, rollback')
  BY <1>1, RollbackRuns DEF SaverObject
<1> QED BY <1>1, <1>2, SaveEnds

\* The start of a save.
LEMMA PersistSessionKeeps ==
  ASSUME SessionInv, PersistSession
  PROVE  SessionInv'
<1>1. pc["saver"] = "idle" /\ saves # <<>> /\ Head(saves) # "tail" BY DEF PersistSession
<1>2. /\ Shape /\ mem \in MemRec /\ ObjectSound(mem) /\ RowSound(mem, row)
      /\ ChainSound(pc["chain"], chain, mem, row) /\ SaverObject(mem)
      /\ StartSound(mem, row, queue, saves, pc["chain"], pc["saver"])
  BY Parts, SameObject DEF Shape
<1>3. mem.failure \in {"none", "preparing", "pending", "complete"} BY <1>2 DEF MemRec
<1>4. CASE mem.failure = "pending"
  <2>1. PersistFailedSession("saver") BY <1>4 DEF PersistSession
  <2>2. FailingWorker("saver") /\ "saver" \in Workers BY <1>1, <1>4 DEF FailingWorker, Workers
  <2> QED BY <1>1, <2>1, <2>2, PersistFailedKeeps
<1>5. CASE mem.failure = "complete"
  <2>1. PersistFailedEnds("saver", mem, TRUE) BY <1>5 DEF PersistSession
  <2>2. /\ EndSave(mem, TRUE) /\ row' = row /\ queue' = queue /\ chain' = chain /\ RunStartRollbacks(mem)
        /\ accounted' = accounted /\ completions' = completions
    BY <2>1 DEF PersistFailedEnds
  <2>3. rollback' \in {"none", "registered", "ran", "cleared"} /\ RollbackSound(mem, row, rollback')
    BY <1>2, <2>2, RollbackRuns
  <2>4. start = "saving" => row # Absent BY <1>2, <1>5 DEF StartSound
  <2> QED BY <1>1, <1>2, <2>2, <2>3, <2>4, SaveEnds
<1>6. CASE mem.failure \notin {"pending", "complete"}
  <2>1. PersistRunningSession BY <1>6 DEF PersistSession
  <2>2. CASE ~mem.dirty \/ mem.disposed \/ mem.status # "running"
    <3>1. SaverEnds(mem, TRUE) BY <2>1, <2>2 DEF PersistRunningSession
    <3>2. start = "saving" => row # Absent BY <1>1, <1>2, <2>2 DEF StartSound, ObjectSound, Saving
    <3> QED BY <1>1, <1>2, <3>1, <3>2, SaverEndsKeeps
  <2>3. CASE mem.dirty /\ ~mem.disposed /\ mem.status = "running"
    <3> DEFINE m == [mem EXCEPT !.dirty = FALSE]
               data == StoreData(m)
               i == [m EXCEPT !.persist = "uncertain", !.snapshot = data]
    <3>0. Absent \in Row BY <1>2 DEF Absent, Row, Shape, SessionAssumption
    <3>1. SameBut(m) /\ m.persist = mem.persist /\ m.data = mem.data /\ m.code = mem.code
      BY <3>0, SavedFields
    <3>2. data \in Row /\ data.status = "running"
      BY <1>2, <2>3, <3>1 DEF StoreData, SameBut, MemRec, Row, Amount, Code
    <3>3. m.persist \in {"absent", "uncertain", "durable"} BY <1>2, <3>1 DEF MemRec
    <3>4. CASE m.persist = "absent" /\ SaverCalls(i, "insert", Sent("insert", data, "none")) 
      <4>1. SameBut(i) /\ i.persist = "uncertain" BY <3>2, SavedSnapshot
      <4> DEFINE c == Sent("insert", data, "none")
      <4>2. c \in CallRec /\ c.state = "sent" /\ c.op = "insert" /\ c.data = data
        BY <3>2, SentFields DEF Expected
      <4>3. SaverCalls(i, "insert", c) BY <3>4
      <4> HIDE DEF c, i, data, m
      <4>4. start \notin {"new", "hooks"} BY <1>2, <2>3 DEF StartSound
      <4>5. SaverObject(i) BY <4>1, <4>4, SavedObject
      <4>6. ~PastTail(pc["chain"], chain)
        BY <1>2, <1>6, <2>3 DEF PastTail, ChainSound, CallSound, SaverObject, HasFailure, Committing, Completing, ObjectSound
      <4>7. SaverSound("insert", c, pc["chain"], chain, i, row)
        BY <2>3, <4>1, <4>2, <4>6 DEF SaverSound, SameBut, Failing
      <4>8. CallSound("insert", c, i, row, accounted) BY <3>2, <4>2 DEF CallSound, CallOf, Failing
      <4>9. "insert" \in SaverPoints \ {"idle"} /\ "insert" \in Saving BY DEF SaverPoints, Saving
      <4>10. mem.failure = "none" BY <1>2, <2>3 DEF ObjectSound
      <4> QED BY <1>1, <2>3, <4>1, <4>2, <4>3, <4>4, <4>5, <4>7, <4>8, <4>9, <4>10, SaveCalls DEF SameBut
    <3>5. ASSUME NEW at \in {"reconcile", "update"}, NEW op \in {"read", "update"},
                 op = CallOf(at), at = "reconcile" => mem.persist = "uncertain", SaverCalls(m, at, Sent(op, data, "none"))
          PROVE  SessionInv'
      <4> DEFINE c == Sent(op, data, "none")
      <4>2. c \in CallRec /\ c.state = "sent" /\ c.op = op /\ c.data = data
        BY <3>2, SentFields DEF Expected
      <4>3. SaverCalls(m, at, c) BY <3>5
      <4> HIDE DEF c, data, m
      <4>4. start \notin {"new", "hooks"} BY <1>2, <2>3 DEF StartSound
      <4>5. SaverObject(m) BY <3>1, <4>4, SavedObject
      <4>6. ~PastTail(pc["chain"], chain)
        BY <1>2, <1>6, <2>3 DEF PastTail, ChainSound, CallSound, SaverObject, HasFailure, Committing, Completing, ObjectSound
      <4>7. SaverSound(at, c, pc["chain"], chain, m, row)
        BY <2>3, <3>1, <3>5, <4>2, <4>6 DEF SaverSound, SameBut, Failing
      <4>8. CallSound(at, c, m, row, accounted) BY <3>2, <3>5, <4>2 DEF CallSound, CallOf, Failing
      <4>9. at \in SaverPoints \ {"idle"} /\ at \in Saving BY DEF SaverPoints, Saving
      <4>10. mem.failure = "none" BY <1>2, <2>3 DEF ObjectSound
      <4> QED BY <1>1, <2>3, <3>1, <4>2, <4>3, <4>4, <4>5, <4>7, <4>8, <4>9, <4>10, SaveCalls DEF SameBut
    <3>6. CASE m.persist = "absent"
      <4>1. SaverCalls(i, "insert", Sent("insert", data, "none"))
        BY <2>1, <2>3, <3>6 DEF PersistRunningSession, Insert
      <4> QED BY <3>4, <3>6, <4>1
    <3>7. CASE m.persist = "uncertain"
      <4>1. SaverCalls(m, "reconcile", Sent("read", data, "none"))
        BY <2>1, <2>3, <3>7 DEF PersistRunningSession
      <4> HIDE DEF m, data
      <4> QED BY <3>1, <3>5, <3>7, <4>1 DEF CallOf
    <3>8. CASE m.persist = "durable"
      <4>1. SaverCalls(m, "update", Sent("update", data, "none"))
        BY <2>1, <2>3, <3>8 DEF PersistRunningSession
      <4> HIDE DEF m, data
      <4> QED BY <3>1, <3>5, <3>8, <4>1 DEF CallOf
    <3> QED BY <3>3, <3>6, <3>7, <3>8
  <2> QED BY <2>2, <2>3
<1> QED BY <1>3, <1>4, <1>5, <1>6

\* A save whose call is answered.
LEMMA AnsweredSaving ==
  ASSUME SessionInv, NEW at \in Saving, Answered("saver", at)
  PROVE  /\ saves # <<>> /\ Head(saves) # "tail" /\ start \notin {"new", "hooks"}
         /\ call["saver"].state = "done" /\ call["saver"] \in CallRec /\ call["saver"].data \in Row
         /\ call["saver"].read \in Row
         /\ CallSound(at, call["saver"], mem, row, accounted) /\ mem \in MemRec /\ RowSound(mem, row)
         /\ ~PastTail(pc["chain"], chain) /\ "saver" \in Workers
         /\ at \in {"insert", "reconcile"} => ~mem.disposed \/ row # Absent
         /\ at \in {"insert", "reconcile", "insertRead"} => mem.persist = "uncertain" \/ row # Absent
         /\ start = "saving" => row # Absent \/ (mem.status = "running" /\ mem.failure = "none")
<1>1. /\ Shape /\ CallSound(pc["saver"], call["saver"], mem, row, accounted) /\ RowSound(mem, row)
      /\ StartSound(mem, row, queue, saves, pc["chain"], pc["saver"])
      /\ SavesSound(saves, pc["chain"], pc["saver"])
      /\ SaverSound(pc["saver"], call["saver"], pc["chain"], chain, mem, row)
  BY Parts
<1>2. pc["saver"] = at /\ call["saver"].state = "done" /\ at # "idle" BY DEF Answered, Saving
<1>3. saves # <<>> /\ Head(saves) # "tail" BY <1>1, <1>2, SavesShrink DEF SavesSound
<1>4. call["saver"] \in CallRec /\ "saver" \in Workers BY <1>1 DEF Shape, Workers
<1> QED BY <1>1, <1>2, <1>3, <1>4 DEF StartSound, SaverSound, Shape, CallRec

\* The save throws and leaves the object dirty.
LEMMA SaveThrowsKeeps ==
  ASSUME SessionInv, NEW at \in Saving, Answered("saver", at), NEW k \in {"absent", "durable", "uncertain"},
         k = "absent" => row = Absent \/ mem.persist = "absent",
         SaveThrows([mem EXCEPT !.persist = k])
  PROVE  SessionInv'
<1> DEFINE x == [[mem EXCEPT !.persist = k] EXCEPT !.dirty = TRUE]
<1>1. /\ saves # <<>> /\ Head(saves) # "tail" /\ start \notin {"new", "hooks"}
      /\ call["saver"].read \in Row
      /\ start = "saving" => row # Absent \/ (mem.status = "running" /\ mem.failure = "none")
  BY AnsweredSaving
<1>2. SameBut(x) /\ x.persist = k /\ x.dirty = TRUE BY SavedPersist
<1>3. SaverEnds(x, FALSE) BY DEF SaveThrows
<1> HIDE DEF x
<1>4. SaverObject(x) BY <1>1, <1>2, SavedObject
<1> QED BY <1>1, <1>2, <1>3, <1>4, SaverEndsKeeps DEF SameBut

\* The object as it is.
LEMMA SamePersist == ASSUME mem \in MemRec PROVE [mem EXCEPT !.persist = mem.persist] = mem
BY DEF MemRec

\* The session takes over the terminal row that a save finds.
LEMMA SaveSynchronizes ==
  ASSUME SessionInv, NEW at \in Saving, Answered("saver", at), IsTerminalStatus(Read("saver").status),
         SaverEnds(SynchronizedTerminal(mem, Read("saver")), TRUE)
  PROVE  SessionInv'
<1> DEFINE x == SynchronizedTerminal(mem, Read("saver"))
<1>1. /\ saves # <<>> /\ Head(saves) # "tail" /\ start \notin {"new", "hooks"}
      /\ call["saver"].state = "done" /\ ~PastTail(pc["chain"], chain) /\ "saver" \in Workers
      /\ mem \in MemRec
  BY AnsweredSaving
<1>2. /\ x \in MemRec /\ ObjectSound(x) /\ RowSound(x, row)
      /\ x.disposed /\ x.failure = "complete" /\ x.status \in {"claimable", "failed"}
      /\ HasFailure(mem) => HasFailure(x)
      /\ x.depth = mem.depth /\ HooksSound(x, row, accounted, completions)
  BY <1>1, SynchronizedSound
<1>3. row # Absent /\ Read("saver") \in Row BY <1>1, TerminalRead
<1>4. x.status = Read("saver").status BY <1>1, <1>3, SynchronizedFields
<1>5. SaverSound(pc["saver"], call["saver"], pc["chain"], chain, mem, row) BY Parts
<1>6. pc["chain"] = "failHooks" => x.status = "failed" BY <1>1, <1>2, <1>4, <1>5 DEF SaverSound, Read
<1>7. pc["chain"] \notin {"claimable", "claimableRead"} BY <1>1 DEF PastTail
<1>8. SaverEnds(x, TRUE) OBVIOUS
<1> HIDE DEF x
<1>9. SaverObject(x) BY <1>1, <1>2, <1>6, <1>7, DisposedObject
<1> QED BY <1>1, <1>3, <1>8, <1>9, SaverEndsKeeps

\* The save is done: the row is stored.
LEMMA SaveSucceeds ==
  ASSUME SessionInv, NEW at \in Saving, Answered("saver", at), NEW k \in {"durable", "uncertain", "absent"},
         k = "absent" => mem.persist = "absent", row # Absent, SaverEnds([mem EXCEPT !.persist = k], TRUE)
  PROVE  SessionInv'
<1> DEFINE x == [mem EXCEPT !.persist = k]
<1>1. /\ saves # <<>> /\ Head(saves) # "tail" /\ start \notin {"new", "hooks"} /\ call["saver"].read \in Row
  BY AnsweredSaving
<1>2. SameBut(x) /\ x.persist = k BY SavedPersist
<1>3. SaverEnds(x, TRUE) OBVIOUS
<1> HIDE DEF x
<1>4. SaverObject(x) BY <1>1, <1>2, SavedObject
<1> QED BY <1>1, <1>3, <1>4, SaverEndsKeeps

\* The save reads the row next.
LEMMA SaveReads ==
  ASSUME SessionInv, NEW at \in Saving, Answered("saver", at), NEW d \in BOOLEAN, NEW x,
         x = mem \/ x = [mem EXCEPT !.dirty = d],
         NEW to \in {"insertRead", "updateSync"}, to = "insertRead" => at = "insert",
         SaverCalls(x, to, Sent("read", Absent, "none"))
  PROVE  SessionInv'
<1> DEFINE c == Sent("read", Absent, "none")
<1>1. /\ saves # <<>> /\ Head(saves) # "tail" /\ start \notin {"new", "hooks"} /\ call["saver"].read \in Row
      /\ ~PastTail(pc["chain"], chain)
      /\ at \in {"insert", "reconcile", "insertRead"} => mem.persist = "uncertain" \/ row # Absent
      /\ start = "saving" => row # Absent \/ (mem.status = "running" /\ mem.failure = "none")
  BY AnsweredSaving
<1>2. SameBut(x) /\ x.persist = mem.persist BY <1>1, SavedFields
<1>3. Absent \in Row BY Parts DEF Absent, Row, Shape, SessionAssumption
<1>4. c \in CallRec /\ c.state = "sent" /\ c.op = "read" BY <1>3, SentFields DEF Expected
<1>5. SaverCalls(x, to, c) OBVIOUS
<1> HIDE DEF c
<1>6. SaverObject(x) BY <1>1, <1>2, SavedObject
<1>7. CallSound(to, c, x, row, accounted) BY <1>4 DEF CallSound, CallOf, Failing
<1>8. to \in SaverPoints \ {"idle"} /\ to \in Saving /\ to \notin Failing BY DEF SaverPoints, Saving, Failing
<1>9. SaverSound(to, c, pc["chain"], chain, x, row)
  BY <1>1, <1>2, <1>4, <1>8 DEF SaverSound
<1> QED BY <1>1, <1>2, <1>4, <1>5, <1>6, <1>7, <1>8, <1>9, SaveCalls DEF SameBut

\* reconcileUncertainInsert at the start of a save.
LEMMA ReconcileKeeps ==
  ASSUME SessionInv, Reconcile
  PROVE  SessionInv'
<1>1. Answered("saver", "reconcile") /\ "reconcile" \in Saving BY DEF Reconcile, Saving
<1>2. /\ saves # <<>> /\ Head(saves) # "tail" /\ start \notin {"new", "hooks"}
      /\ call["saver"].state = "done" /\ call["saver"] \in CallRec /\ call["saver"].data \in Row
      /\ CallSound("reconcile", call["saver"], mem, row, accounted) /\ mem \in MemRec
      /\ ~PastTail(pc["chain"], chain) /\ "saver" \in Workers
      /\ ~mem.disposed \/ row # Absent
      /\ start = "saving" => row # Absent \/ (mem.status = "running" /\ mem.failure = "none")
  BY <1>1, AnsweredSaving
<1> DEFINE r == Reconciled(mem, Read("saver"))
<1>3. CASE Reply("saver") = "error" \/ r[2] = "mismatch"
  <2>1. SaveThrows([mem EXCEPT !.persist = mem.persist]) BY <1>2, <1>3, SamePersist DEF Reconcile
  <2>2. mem.persist \in {"absent", "durable", "uncertain"} BY <1>2 DEF MemRec
  <2> QED BY <1>1, <2>1, <2>2, SaveThrowsKeeps
<1>4. CASE Reply("saver") # "error" /\ Read("saver") = Absent
  <2> DEFINE y == [mem EXCEPT !.persist = "absent"]
             data == call["saver"].data
             x == [y EXCEPT !.persist = "uncertain", !.snapshot = data]
             c == Sent("insert", data, "none")
  <2>1. r[2] = "absent" /\ r[1] = y BY <1>4 DEF Reconciled
  <2>2. Insert(r[1], data)
    <3> HIDE DEF y, r
    <3> QED BY <1>4, <2>1 DEF Reconcile, r
  <2>3. SaverCalls(x, "insert", c) BY <2>1, <2>2 DEF Insert
  <2>4. SameBut(x) /\ x.persist = "uncertain" BY <1>2, SavedSnapshot
  <2>5. c \in CallRec /\ c.state = "sent" /\ c.op = "insert" /\ c.data = data
    BY <1>2, SentFields DEF Expected
  <2>6. data.status = "running" BY <1>2 DEF CallSound
  <2> HIDE DEF x, c, data, y, r
  <2>7. SaverObject(x) BY <1>2, <2>4, SavedObject
  <2>8. CallSound("insert", c, x, row, accounted) BY <2>5, <2>6 DEF CallSound, CallOf, Failing
  <2>9. SaverSound("insert", c, pc["chain"], chain, x, row)
    BY <1>2, <2>4, <2>5 DEF SaverSound, SameBut, Failing
  <2>10. "insert" \in SaverPoints \ {"idle"} /\ "insert" \in Saving BY DEF SaverPoints, Saving
  <2> QED BY <1>2, <2>3, <2>4, <2>5, <2>7, <2>8, <2>9, <2>10, SaveCalls DEF SameBut
<1>5. CASE Reply("saver") # "error" /\ Read("saver") # Absent /\ Read("saver") = mem.snapshot
  <2>1. r[2] = "durable" /\ r[1] = [mem EXCEPT !.persist = "durable"] BY <1>5 DEF Reconciled
  <2>2. SaverEnds(r[1], TRUE)
    <3> HIDE DEF r
    <3> QED BY <1>5, <2>1 DEF Reconcile, r
  <2>3. row # Absent BY <1>2, <1>5 DEF CallSound, Read
  <2> QED BY <1>1, <2>1, <2>2, <2>3, SaveSucceeds
<1>6. CASE /\ Reply("saver") # "error" /\ Read("saver") # Absent /\ Read("saver") # mem.snapshot
           /\ IsTerminalStatus(Read("saver").status)
  <2>1. r[2] = "terminal" /\ r[1] = SynchronizedTerminal(mem, Read("saver")) BY <1>6 DEF Reconciled
  <2>2. SaverEnds(r[1], TRUE)
    <3> HIDE DEF r
    <3> QED BY <1>6, <2>1 DEF Reconcile, r
  <2> QED BY <1>1, <1>6, <2>1, <2>2, SaveSynchronizes
<1>7. CASE /\ Reply("saver") # "error" /\ Read("saver") # Absent /\ Read("saver") # mem.snapshot
           /\ ~IsTerminalStatus(Read("saver").status)
  <2>1. r[2] = "mismatch" BY <1>7 DEF Reconciled
  <2> QED BY <1>3, <2>1
<1> QED BY <1>3, <1>4, <1>5, <1>6, <1>7

\* The insert is answered, or was not and is looked up.
LEMMA InsertedKeeps ==
  ASSUME SessionInv, Inserted
  PROVE  SessionInv'
<1>1. Answered("saver", "insert") /\ "insert" \in Saving BY DEF Inserted, Saving
<1>2. call["saver"].state = "done" /\ CallSound("insert", call["saver"], mem, row, accounted)
  BY <1>1, AnsweredSaving
<1>3. CASE Reply("saver") = "ok"
  <2>1. SaverEnds([mem EXCEPT !.persist = "durable"], TRUE) BY <1>3 DEF Inserted
  <2>2. row # Absent BY <1>2, <1>3 DEF CallSound, CallOf, Reply, Absent
  <2> QED BY <1>1, <2>1, <2>2, SaveSucceeds
<1>4. CASE Reply("saver") # "ok"
  <2>1. SaverCalls(mem, "insertRead", Sent("read", Absent, "none")) BY <1>4 DEF Inserted
  <2> QED BY <1>1, <2>1, SaveReads
<1> QED BY <1>3, <1>4

\* The row was read after an insert without acknowledgement.
LEMMA InsertReadKeeps ==
  ASSUME SessionInv, InsertRead
  PROVE  SessionInv'
<1>1. Answered("saver", "insertRead") /\ "insertRead" \in Saving BY DEF InsertRead, Saving
<1>2. /\ call["saver"].state = "done" /\ CallSound("insertRead", call["saver"], mem, row, accounted) /\ mem \in MemRec
  BY <1>1, AnsweredSaving
<1> DEFINE r == Reconciled(mem, Read("saver"))
<1>3. mem.persist \in {"absent", "durable", "uncertain"} BY <1>2 DEF MemRec
<1>4. CASE Reply("saver") = "error"
  <2>1. SaveThrows([mem EXCEPT !.persist = mem.persist]) BY <1>2, <1>4, SamePersist DEF InsertRead
  <2> QED BY <1>1, <1>3, <2>1, SaveThrowsKeeps
<1>5. CASE Reply("saver") # "error" /\ Read("saver") = Absent
  <2>1. r[2] = "absent" /\ r[1] = [mem EXCEPT !.persist = "absent"] BY <1>5 DEF Reconciled
  <2>2. SaveThrows(r[1])
    <3> HIDE DEF r
    <3> QED BY <1>5, <2>1 DEF InsertRead, r
  <2>3. row = Absent BY <1>2, <1>5 DEF CallSound, Read
  <2> QED BY <1>1, <2>1, <2>2, <2>3, SaveThrowsKeeps
<1>6. CASE Reply("saver") # "error" /\ Read("saver") # Absent /\ Read("saver") = mem.snapshot
  <2>1. r[2] = "durable" /\ r[1] = [mem EXCEPT !.persist = "durable"] BY <1>6 DEF Reconciled
  <2>2. SaverEnds(r[1], TRUE)
    <3> HIDE DEF r
    <3> QED BY <1>6, <2>1 DEF InsertRead, r
  <2>3. row # Absent BY <1>2, <1>6 DEF CallSound, Read
  <2> QED BY <1>1, <2>1, <2>2, <2>3, SaveSucceeds
<1>7. CASE /\ Reply("saver") # "error" /\ Read("saver") # Absent /\ Read("saver") # mem.snapshot
           /\ IsTerminalStatus(Read("saver").status)
  <2>1. r[2] = "terminal" /\ r[1] = SynchronizedTerminal(mem, Read("saver")) BY <1>7 DEF Reconciled
  <2>2. SaverEnds(r[1], TRUE)
    <3> HIDE DEF r
    <3> QED BY <1>7, <2>1 DEF InsertRead, r
  <2> QED BY <1>1, <1>7, <2>1, <2>2, SaveSynchronizes
<1>8. CASE /\ Reply("saver") # "error" /\ Read("saver") # Absent /\ Read("saver") # mem.snapshot
           /\ ~IsTerminalStatus(Read("saver").status)
  <2>1. r[2] = "mismatch" /\ r[1] = mem BY <1>8 DEF Reconciled
  <2>2. SaveThrows(r[1])
    <3> HIDE DEF r
    <3> QED BY <1>8, <2>1 DEF InsertRead, r
  <2>3. SaveThrows([mem EXCEPT !.persist = mem.persist]) BY <1>2, <2>1, <2>2, SamePersist
  <2> QED BY <1>1, <1>3, <2>3, SaveThrowsKeeps
<1> QED BY <1>4, <1>5, <1>6, <1>7, <1>8

\* The update is answered; a row that is no longer running is taken over.
LEMMA UpdatedKeeps ==
  ASSUME SessionInv, Updated
  PROVE  SessionInv'
<1>1. Answered("saver", "update") /\ "update" \in Saving BY DEF Updated, Saving
<1>2. /\ call["saver"].state = "done" /\ CallSound("update", call["saver"], mem, row, accounted)
      /\ mem \in MemRec /\ call["saver"] \in CallRec
  BY <1>1, AnsweredSaving
<1>3. mem.persist \in {"absent", "durable", "uncertain"} BY <1>2 DEF MemRec
<1>4. Reply("saver") \in {"ok", "no", "error"} BY <1>2 DEF CallSound, CallRec, Reply
<1>5. CASE Reply("saver") = "ok"
  <2>1. SaverEnds([mem EXCEPT !.persist = mem.persist], TRUE) BY <1>2, <1>5, SamePersist DEF Updated
  <2>2. row # Absent BY <1>2, <1>5 DEF CallSound, CallOf, Reply, Absent
  <2> QED BY <1>1, <1>3, <2>1, <2>2, SaveSucceeds
<1>6. CASE Reply("saver") = "no"
  <2>1. SaverCalls([mem EXCEPT !.dirty = TRUE], "updateSync", Sent("read", Absent, "none"))
    BY <1>6 DEF Updated
  <2> QED BY <1>1, <2>1, SaveReads
<1>7. CASE Reply("saver") = "error"
  <2>1. SaveThrows([mem EXCEPT !.persist = mem.persist]) BY <1>2, <1>7, SamePersist DEF Updated
  <2> QED BY <1>1, <1>3, <2>1, SaveThrowsKeeps
<1> QED BY <1>4, <1>5, <1>6, <1>7

\* The row was read after an update that found no running row.
LEMMA UpdateSyncKeeps ==
  ASSUME SessionInv, UpdateSync
  PROVE  SessionInv'
<1>1. Answered("saver", "updateSync") /\ "updateSync" \in Saving BY DEF UpdateSync, Saving
<1>2. mem \in MemRec BY <1>1, AnsweredSaving
<1>3. mem.persist \in {"absent", "durable", "uncertain"} BY <1>2 DEF MemRec
<1>4. CASE Reply("saver") = "error" \/ ~IsTerminalStatus(Read("saver").status)
  <2>1. SaveThrows([mem EXCEPT !.persist = mem.persist]) BY <1>2, <1>4, SamePersist DEF UpdateSync
  <2> QED BY <1>1, <1>3, <2>1, SaveThrowsKeeps
<1>5. CASE Reply("saver") # "error" /\ IsTerminalStatus(Read("saver").status)
  <2>1. SaverEnds(SynchronizedTerminal(mem, Read("saver")), TRUE) BY <1>5 DEF UpdateSync
  <2> QED BY <1>1, <1>5, <2>1, SaveSynchronizes
<1> QED BY <1>4, <1>5

-----------------------------------------------------------------------------
(* The chain.                                                              *)

\* The points where no database call of the chain is in flight.
Resting == {"factors", "accounting", "failHooks", "tail", "persist", "completing", "commitTail",
            "commit", "retry", "timeoutSave", "saved", "saveError"}

\* A worker without a call.
LEMMA NoCallSound ==
  ASSUME SessionInv, NEW p \in Resting, NEW m, NEW a
  PROVE  NoCall \in CallRec /\ CallSound(p, NoCall, m, row, a) /\ p \in ChainPoints \ {"idle"}
<1>1. Absent \in Row BY Parts DEF Absent, Row, Shape, SessionAssumption
<1>2. NoCall \in CallRec /\ NoCall.op = "none" /\ NoCall.state = "none"
  BY <1>1 DEF NoCall, CallRec, Expected
<1>3. CallSound(p, NoCall, m, row, a) BY <1>2 DEF CallSound, CallOf, Failing, Resting
<1>4. p \in ChainPoints \ {"idle"} BY DEF ChainPoints, Resting, Completing, TimingOut
<1> QED BY <1>2, <1>3, <1>4

\* An object m and locals l with which the running operation may go on.
Ready(m, l) ==
  /\ ChainObject(m) /\ m.depth = 0 /\ m.disposed = mem.disposed /\ m.status = mem.status
  /\ HooksSound(m, row, accounted, completions)
  /\ l \in OpRec /\ (l.already => row.status = "failed")
  /\ Busy /\ pc["chain"] \notin Awaiting

\* The operation ends and the object keeps what the hooks were told.
LEMMA EndsKeeps ==
  ASSUME SessionInv, NEW m, NEW reject, EndOperation(m, reject), Busy, pc["chain"] \notin Awaiting,
         ChainObject(m), m.status # "committing", m.depth = 0,
         UNCHANGED <<row, rollback, saves, start, phase, completions>>,
         accounted' \in Nat, HooksSound(m, row, accounted', completions)
  PROVE  SessionInv'
<1>1. completions \in 0..1 /\ rollback \in {"none", "registered", "ran", "cleared"} BY Parts DEF Shape
<1>2. RollbackSound(m, row, rollback) BY Parts DEF RollbackSound, ChainObject
<1> QED BY <1>1, <1>2, OperationEnds

\* An operation ends.
LEMMA ChainEndsKeeps ==
  ASSUME SessionInv, NEW m, NEW reject, ChainEnds(m, reject), Busy, pc["chain"] \notin Awaiting,
         ChainObject(m), m.status # "committing", m.depth = 0, HooksSound(m, row, accounted, completions)
  PROVE  SessionInv'
<1>1. accounted \in Nat BY Parts DEF Shape
<1>2. /\ EndOperation(m, reject) /\ UNCHANGED <<row, rollback, saves, start, phase, completions>>
      /\ accounted' = accounted
  BY DEF ChainEnds
<1> QED BY <1>1, <1>2, EndsKeeps

\* What holds of a session whose failure has not begun.
LEMMA Unfailed ==
  ASSUME SessionInv, NEW m, NEW l, Ready(m, l), ~m.disposed, m.failure = "none"
  PROVE  /\ m.status \in {"starting", "running", "committing"} /\ pc["saver"] \notin Failing
         /\ start # "new" /\ (start = "hooks" => m.status = "starting")
         /\ m.status \in {"starting", "running"} => row.status # "claimable"
<1>1. m \in MemRec /\ ObjectSound(m) /\ RowSound(m, row) BY DEF Ready, ChainObject
<1>2. m.status \in {"starting", "running", "committing"}
  BY <1>1 DEF Ready, ChainObject, ObjectSound, MemRec, FaucetSessionStatus
<1>3. pc["saver"] \notin Failing BY DEF Ready, ChainObject, HasFailure
<1>4. start # "new" BY SameObject DEF Ready
<1>5. start = "hooks" => m.status = "starting" BY <1>2 DEF Ready, ChainObject
<1> QED BY <1>1, <1>2, <1>3, <1>4, <1>5 DEF RowSound

\* The object whose failure begins, or is to be made durable.
LEMMA FailureBegins ==
  ASSUME SessionInv, NEW m, NEW l, Ready(m, l), ~m.disposed, m.failure = "none",
         NEW code \in Code, NEW k \in {"preparing", "pending"}, NEW x \in MemRec,
         x.status = "failed", x.failure = k, x.drop = m.drop, x.persist = m.persist,
         x.disposed = m.disposed, x.depth = m.depth, k = "pending" => HasFailure(x),
         x.already => row.status = "failed"
  PROVE  ChainObject(x) /\ \A n \in 0..1 : HooksSound(x, row, accounted, n)
<1>1. m \in MemRec /\ ObjectSound(m) /\ RowSound(m, row) /\ HooksSound(m, row, accounted, completions)
  BY DEF Ready, ChainObject
<1>2. pc["saver"] \notin Failing /\ m.status # "unknown" BY Unfailed
<1>3. ObjectSound(x) BY <1>1 DEF ObjectSound
<1>4. RowSound(x, row) BY <1>1, <1>2 DEF RowSound
<1>5. ChainObject(x) BY <1>1, <1>2, <1>3, <1>4 DEF ChainObject, Ready
<1>6. \A n \in 0..1 : HooksSound(x, row, accounted, n) BY <1>1 DEF HooksSound
<1> QED BY <1>5, <1>6

\* finishFailedSession.
LEMMA FinishFailedKeeps ==
  ASSUME SessionInv, NEW m, NEW l, NEW code \in Code, NEW hooks \in BOOLEAN, Ready(m, l),
         l.expected \in Open \union {"none"} \/ m.disposed, hooks => m.status # "committing",
         FinishFailedSession(m, l, code, hooks), accounted' = accounted
  PROVE  SessionInv'
<1> DEFINE expected == IF l.expected # "none" THEN l.expected
                       ELSE IF m.status = "committing" THEN "running" ELSE m.status
           failing == [m EXCEPT !.failure = "preparing", !.code = code, !.status = "failed", !.dirty = TRUE]
           locals == [l EXCEPT !.expected = expected]
           pending == [failing EXCEPT !.failure = "pending", !.expected = expected,
                                      !.already = l.already, !.failed = StoreData(failing)]
<1>1. /\ ChainObject(m) /\ m.depth = 0 /\ m.disposed = mem.disposed /\ m.status = mem.status
      /\ HooksSound(m, row, accounted, completions)
      /\ l \in OpRec /\ (l.already => row.status = "failed")
      /\ Busy /\ pc["chain"] \notin Awaiting
  BY DEF Ready
<1>2. m \in MemRec /\ ObjectSound(m) /\ RowSound(m, row) BY <1>1 DEF ChainObject
<1>3. accounted \in Nat /\ completions \in 0..1 BY Parts DEF Shape
<1>4. CASE m.disposed
  <2>1. EndOperation(m, l.reject) /\ UNCHANGED <<row, rollback, saves, start, phase, completions>>
    BY <1>4 DEF FinishFailedSession
  <2>2. m.status # "committing" BY <1>2, <1>4 DEF ObjectSound
  <2> QED BY <1>1, <1>3, <2>1, <2>2, EndsKeeps
<1>5. CASE ~m.disposed /\ m.failure # "none"
  <2>1. ChainGoes(m, l, "tail", NoCall) /\ saves' = Append(saves, "tail") /\ completions' = completions
    BY <1>5 DEF FinishFailedSession
  <2>2. ChainSound("tail", l, m, row)
    BY <1>1, <1>2, <1>5 DEF ChainSound, Committing, Completing, TimingOut, ObjectSound
  <2>3. "tail" \in Resting /\ ~PastTail("tail", l) /\ ~Committing("tail", l)
    BY DEF Resting, PastTail, Failing, Committing, Completing
  <2>4. NoCall \in CallRec /\ CallSound("tail", NoCall, m, row, accounted') /\ "tail" \in ChainPoints \ {"idle"}
    BY <2>3, NoCallSound
  <2> QED BY <1>1, <1>3, <2>1, <2>2, <2>3, <2>4, OperationGoes
<1>6. CASE ~m.disposed /\ m.failure = "none"
  <2>1. /\ m.status \in {"starting", "running", "committing"}
        /\ start # "new" /\ (start = "hooks" => m.status = "starting")
        /\ m.status \in {"starting", "running"} => row.status # "claimable"
    BY <1>6, Unfailed
  <2>2. expected \in Open BY <1>6, <2>1 DEF Open
  <2>3. expected \in Expected /\ "failed" \in FaucetSessionStatus BY <2>2 DEF Expected, FaucetSessionStatus, Open
  <2>4. locals \in OpRec /\ locals.expected = expected /\ locals.already = l.already
    BY <1>1, <2>3 DEF OpRec
  <2>5. /\ failing \in MemRec /\ failing.status = "failed" /\ failing.failure = "preparing"
        /\ failing.drop = m.drop /\ failing.persist = m.persist /\ failing.disposed = m.disposed
        /\ failing.depth = m.depth /\ failing.already = m.already
    BY <1>2, <2>3 DEF MemRec
  <2>6. StoreData(failing) \in Row /\ StoreData(failing).status = "failed"
    BY <2>5 DEF StoreData, MemRec, Row, Amount, Code
  <2>7. /\ pending \in MemRec /\ pending.status = "failed" /\ pending.failure = "pending"
        /\ pending.drop = m.drop /\ pending.persist = m.persist /\ pending.disposed = m.disposed
        /\ pending.depth = m.depth /\ pending.already = l.already /\ HasFailure(pending)
    <3>1. l.already \in BOOLEAN BY <1>1 DEF OpRec
    <3> HIDE DEF expected
    <3>2. /\ pending \in MemRec /\ pending.failure = "pending" /\ pending.status = failing.status
          /\ pending.drop = failing.drop /\ pending.persist = failing.persist
          /\ pending.disposed = failing.disposed /\ pending.depth = failing.depth
          /\ pending.already = l.already /\ pending.expected = expected
          /\ pending.failed = StoreData(failing)
      <4> HIDE DEF failing
      <4> DEFINE f == StoreData(failing)
      <4>1. f \in Row BY <2>6
      <4> HIDE DEF f
      <4>2. pending = [failing EXCEPT !.failure = "pending", !.expected = expected,
                                      !.already = l.already, !.failed = f]
        BY DEF f
      <4>3. f = StoreData(failing) BY DEF f
      <4> QED BY <2>3, <2>5, <3>1, <4>1, <4>2, <4>3 DEF MemRec
    <3> HIDE DEF pending, failing
    <3> QED BY <2>2, <2>5, <2>6, <3>2 DEF HasFailure
  <2>8. CASE hooks /\ m.status = "running"
    <3>1. ChainGoes(failing, locals, "failHooks", NoCall) /\ completions' = completions + 1 /\ saves' = saves
      BY <1>6, <2>8 DEF FinishFailedSession
    <3> HIDE DEF failing, locals, pending, expected
    <3>2. completions = 0 BY <1>1, <1>3, <2>8 DEF HooksSound
    <3>3. m.already => row.status = "failed" BY <1>2 DEF RowSound
    <3>4. ChainObject(failing) /\ HooksSound(failing, row, accounted, completions')
      BY <1>6, <2>5, <3>1, <3>2, <3>3, FailureBegins
    <3>5. ChainSound("failHooks", locals, failing, row)
      BY <1>1, <2>1, <2>2, <2>4, <2>5, <2>8 DEF ChainSound, Committing, Completing, TimingOut
    <3>6. "failHooks" \in Resting /\ ~PastTail("failHooks", locals) /\ ~Committing("failHooks", locals)
      BY DEF Resting, PastTail, Failing, Committing, Completing
    <3>7. /\ NoCall \in CallRec /\ CallSound("failHooks", NoCall, failing, row, accounted')
          /\ "failHooks" \in ChainPoints \ {"idle"}
      BY <3>6, NoCallSound
    <3> QED BY <1>1, <1>3, <2>1, <2>4, <2>5, <2>8, <3>1, <3>2, <3>4, <3>5, <3>6, <3>7, OperationGoes
  <2>9. CASE ~(hooks /\ m.status = "running")
    <3>1. ChainGoes(pending, locals, "tail", NoCall) /\ completions' = completions /\ saves' = Append(saves, "tail")
      BY <1>6, <2>9 DEF FinishFailedSession
    <3> HIDE DEF failing, locals, pending, expected
    <3>2. ChainObject(pending) /\ HooksSound(pending, row, accounted, completions')
      BY <1>1, <1>3, <1>6, <2>7, <3>1, FailureBegins
    <3>3. ChainSound("tail", locals, pending, row)
      BY <1>1, <2>4, <2>7 DEF ChainSound, Committing, Completing, TimingOut
    <3>4. "tail" \in Resting /\ ~PastTail("tail", locals) /\ ~Committing("tail", locals)
      BY DEF Resting, PastTail, Failing, Committing, Completing
    <3>5. /\ NoCall \in CallRec /\ CallSound("tail", NoCall, pending, row, accounted')
          /\ "tail" \in ChainPoints \ {"idle"}
      BY <3>4, NoCallSound
    <3> QED BY <1>1, <1>3, <2>4, <2>7, <3>1, <3>2, <3>3, <3>4, <3>5, OperationGoes
  <2> QED BY <2>8, <2>9
<1> QED BY <1>4, <1>5, <1>6

\* The operation at a point where it does not wait.
LEMMA ReadyHere ==
  ASSUME SessionInv, pc["chain"] \notin {"idle", "factors"} \union Awaiting
  PROVE  /\ Ready(mem, chain) /\ Shape /\ mem \in MemRec /\ ObjectSound(mem) /\ RowSound(mem, row)
         /\ ChainSound(pc["chain"], chain, mem, row) /\ chain \in OpRec
         /\ pc["chain"] \notin {"accounting", "tail", "persist"} => start # "hooks"
         /\ accounted \in Nat /\ completions \in 0..1
         /\ PastTail(pc["chain"], chain) => pc["saver"] \notin Saving
         /\ Committing(pc["chain"], chain) => pc["saver"] \notin Failing
<1>1. /\ Shape /\ ObjectSound(mem) /\ RowSound(mem, row)
      /\ ChainSound(pc["chain"], chain, mem, row)
      /\ SaverSound(pc["saver"], call["saver"], pc["chain"], chain, mem, row)
      /\ HooksSound(mem, row, accounted, completions)
      /\ StartSound(mem, row, queue, saves, pc["chain"], pc["saver"])
  BY Parts
<1>2. Busy BY DEF Busy
<1>3. ChainObject(mem) BY <1>2, SameObject
<1>4. mem.depth = 0 BY <1>1 DEF ChainSound, Shape, MemRec
<1>5. chain.already => row.status = "failed" BY <1>1 DEF ChainSound
<1>6. Ready(mem, chain) BY <1>1, <1>2, <1>3, <1>4, <1>5 DEF Ready, Shape
<1>7. pc["chain"] \notin {"accounting", "tail", "persist"} => start # "hooks" BY <1>1 DEF StartSound
<1>8. /\ PastTail(pc["chain"], chain) => pc["saver"] \notin Saving
      /\ Committing(pc["chain"], chain) => pc["saver"] \notin Failing
  BY <1>1 DEF SaverSound
<1> QED BY <1>1, <1>6, <1>7, <1>8 DEF Shape

\* The chain's database call is answered.
LEMMA AnsweredChain ==
  ASSUME SessionInv, NEW at \in ChainPoints \ ({"idle", "factors"} \union Awaiting), Answered("chain", at)
  PROVE  /\ pc["chain"] = at /\ call["chain"] \in CallRec /\ call["chain"].state = "done" /\ "chain" \in Workers
         /\ CallSound(at, call["chain"], mem, row, accounted)
BY Parts DEF Answered, Shape, Workers

\* The chain gives up and leaves the object as it is.
LEMMA ChainLeaves ==
  ASSUME SessionInv, pc["chain"] \notin {"idle", "factors"} \union Awaiting,
         ~Committing(pc["chain"], chain), NEW reject, ChainEnds(mem, reject)
  PROVE  SessionInv'
<1>1. Ready(mem, chain) /\ ChainSound(pc["chain"], chain, mem, row) BY ReadyHere
<1>2. mem.status # "committing" BY <1>1 DEF ChainSound
<1> QED BY <1>1, <1>2, ChainEndsKeeps DEF Ready

\* The chain takes over a terminal row.
LEMMA ChainSynchronizes ==
  ASSUME SessionInv, pc["chain"] \notin {"idle", "factors", "accounting", "tail", "persist"} \union Awaiting,
         call["chain"].state = "done", IsTerminalStatus(Read("chain").status),
         NEW reject, ChainEnds(SynchronizedTerminal(mem, Read("chain")), reject)
  PROVE  SessionInv'
<1> DEFINE x == SynchronizedTerminal(mem, Read("chain"))
<1>1. Ready(mem, chain) /\ start # "hooks" BY ReadyHere
<1>2. "chain" \in Workers BY DEF Workers
<1>3. /\ x \in MemRec /\ ObjectSound(x) /\ RowSound(x, row)
      /\ x.disposed /\ x.failure = "complete" /\ x.status \in {"claimable", "failed"}
      /\ HasFailure(mem) => HasFailure(x)
      /\ x.depth = mem.depth /\ HooksSound(x, row, accounted, completions)
  BY <1>2, SynchronizedSound
<1>4. row # Absent BY <1>2, TerminalRead
<1>5. ChainEnds(x, reject) OBVIOUS
<1>6. start # "new" BY <1>1, SameObject DEF Ready
<1> HIDE DEF x
<1>7. ChainObject(x) BY <1>1, <1>3, <1>4, <1>6, DisposedObject
<1>8. x.status # "committing" /\ x.depth = 0 BY <1>1, <1>3 DEF Ready
<1> QED BY <1>1, <1>3, <1>5, <1>7, <1>8, ChainEndsKeeps DEF Ready

\* The chain goes on to a database call, with the object as it is.
LEMMA ChainCalls ==
  ASSUME SessionInv, pc["chain"] \notin {"idle", "factors", "accounting", "tail", "persist"} \union Awaiting,
         NEW at \in ChainPoints \ ({"idle", "factors", "failHooks", "tail", "persist"} \union Resting),
         NEW l \in OpRec, NEW c \in CallRec, ChainGoes(mem, l, at, c),
         UNCHANGED <<saves, accounted, completions>>,
         ChainSound(at, l, mem, row), CallSound(at, c, mem, row, accounted),
         PastTail(at, l) => PastTail(pc["chain"], chain),
         Committing(at, l) => Committing(pc["chain"], chain)
  PROVE  SessionInv'
<1>1. /\ Ready(mem, chain) /\ start # "hooks" /\ accounted \in Nat /\ completions \in 0..1
      /\ PastTail(pc["chain"], chain) => pc["saver"] \notin Saving
      /\ Committing(pc["chain"], chain) => pc["saver"] \notin Failing
  BY ReadyHere
<1>2. at \in ChainPoints \ {"idle"} /\ at # "failHooks" OBVIOUS
<1>3. /\ pc["saver"] \in Saving => ~PastTail(at, l)
      /\ pc["saver"] \in Failing => ~Committing(at, l)
  BY <1>1
<1> QED BY <1>1, <1>2, <1>3, OperationGoes DEF Ready

\* The chain looks up the row.
LEMMA ChainReadsKeeps ==
  ASSUME SessionInv, pc["chain"] \notin {"idle", "factors", "accounting", "tail", "persist"} \union Awaiting,
         NEW at \in {"claimableRead", "sync", "timeoutRead", "timeoutMissed"}, ChainReads(at),
         at = "claimableRead" => pc["chain"] = "claimable",
         at = "sync" => (pc["chain"] = "claimable" \/ chain.kind = "timeout"),
         at \in {"timeoutRead", "timeoutMissed"} => pc["chain"] \in TimingOut
  PROVE  SessionInv'
<1> DEFINE c == Sent("read", Absent, "none")
<1>1. /\ ChainSound(pc["chain"], chain, mem, row) /\ chain \in OpRec /\ Ready(mem, chain) /\ Shape
      /\ ObjectSound(mem)
  BY ReadyHere
<1>2. Absent \in Row BY <1>1 DEF Absent, Row, Shape, SessionAssumption
<1>3. c \in CallRec /\ c.state = "sent" /\ c.op = "read" BY <1>2, SentFields DEF Expected
<1>4. ChainGoes(mem, chain, at, c) /\ UNCHANGED <<saves, accounted, completions>> BY DEF ChainReads
<1> HIDE DEF c
<1>5. at \in ChainPoints \ ({"idle", "factors", "failHooks", "tail", "persist"} \union Resting)
  BY DEF ChainPoints, Completing, TimingOut, Resting
<1>6. CallSound(at, c, mem, row, accounted) BY <1>3 DEF CallSound, CallOf, Failing
<1>7. pc["chain"] = "claimable" => chain.kind # "timeout" BY <1>1 DEF ChainSound, Completing
<1>8. pc["chain"] \in TimingOut => chain.kind = "timeout" BY <1>1 DEF ChainSound
<1>9. Committing(at, chain) => pc["chain"] = "claimable"
  BY <1>7, <1>8 DEF Committing, Completing
<1>10. PastTail(at, chain) => pc["chain"] = "claimable" BY <1>7, <1>8 DEF PastTail, Failing
<1>11. pc["chain"] = "claimable" => PastTail(pc["chain"], chain) /\ Committing(pc["chain"], chain)
  BY DEF PastTail, Committing, Completing
<1>12. Committing(at, chain) \/ mem.status # "committing"
  <2>1. CASE pc["chain"] = "claimable"
    BY <1>7, <2>1 DEF Committing, Completing, TimingOut
  <2>2. CASE pc["chain"] # "claimable" 
    <3>1. chain.kind = "timeout" BY <1>8, <2>2
    <3>2. ~Committing(pc["chain"], chain) BY <1>1, <3>1 DEF ChainSound, Committing
    <3> QED BY <1>1, <3>2 DEF ChainSound
  <2> QED BY <2>1, <2>2
<1>13. at \in TimingOut => chain.expected = "none"
  BY <1>1 DEF ChainSound, TimingOut
<1>14. ChainSound(at, chain, mem, row)
  BY <1>1, <1>7, <1>8, <1>9, <1>11, <1>12, <1>13 DEF ChainSound, Ready, TimingOut, Completing
<1> QED BY <1>1, <1>3, <1>4, <1>5, <1>6, <1>9, <1>10, <1>11, <1>14, ChainCalls

\* The hooks of a failed session end.
LEMMA FailHooksEndKeeps ==
  ASSUME SessionInv, FailHooksEnd
  PROVE  SessionInv'
<1>1. pc["chain"] = "failHooks" BY DEF FailHooksEnd
<1>2. /\ Ready(mem, chain) /\ Shape /\ mem \in MemRec /\ ObjectSound(mem) /\ RowSound(mem, row)
      /\ ChainSound("failHooks", chain, mem, row) /\ chain \in OpRec /\ start # "hooks"
      /\ accounted \in Nat /\ completions \in 0..1
  BY <1>1, ReadyHere DEF Awaiting
<1>3. chain.expected \in Open /\ mem.status = "failed" /\ mem.failure # "none" BY <1>2 DEF ChainSound
<1> DEFINE f == StoreData(mem)
           x == [mem EXCEPT !.failure = "pending", !.expected = chain.expected,
                            !.already = chain.already, !.failed = f]
<1>4. PICK thrown \in BOOLEAN : ChainGoes(x, [chain EXCEPT !.reject = @ \/ thrown], "tail", NoCall)
  BY DEF FailHooksEnd
<1> DEFINE l == [chain EXCEPT !.reject = @ \/ thrown]
<1>5. l \in OpRec /\ l.already = chain.already /\ l.kind = chain.kind /\ l.expected = chain.expected
  BY <1>2 DEF OpRec
<1>6. f \in Row /\ f.status = "failed" BY <1>2, <1>3 DEF StoreData, MemRec, Row, Amount, Code
<1>7. chain.already \in BOOLEAN /\ chain.expected \in Expected BY <1>2 DEF OpRec
<1> HIDE DEF f
<1>8. /\ x \in MemRec /\ x.status = mem.status /\ x.failure = "pending" /\ x.drop = mem.drop
      /\ x.persist = mem.persist /\ x.disposed = mem.disposed /\ x.depth = mem.depth
      /\ x.already = chain.already /\ x.expected = chain.expected /\ x.failed = f
  BY <1>2, <1>6, <1>7 DEF MemRec
<1>9. ChainGoes(x, l, "tail", NoCall) BY <1>4
<1>10. UNCHANGED <<accounted, completions>> /\ saves' = Append(saves, "tail") BY DEF FailHooksEnd
<1> HIDE DEF x, l
<1>11. HasFailure(x) BY <1>3, <1>6, <1>8 DEF HasFailure
<1>12. ObjectSound(x) /\ HooksSound(x, row, accounted, completions)
  BY <1>2, <1>3, <1>8, <1>11 DEF ObjectSound, HooksSound, Ready
<1>13. RowSound(x, row) BY <1>2, <1>8 DEF RowSound, Ready
<1>14. ChainObject(x) BY <1>2, <1>3, <1>8, <1>11, <1>12, <1>13 DEF ChainObject, Ready
<1>15. ChainSound("tail", l, x, row)
  BY <1>2, <1>3, <1>5, <1>8 DEF ChainSound, Committing, Completing, TimingOut, Ready
<1>16. "tail" \in Resting /\ ~PastTail("tail", l) /\ ~Committing("tail", l)
  BY DEF Resting, PastTail, Failing, Committing, Completing
<1>17. NoCall \in CallRec /\ CallSound("tail", NoCall, x, row, accounted') /\ "tail" \in ChainPoints \ {"idle"}
  BY <1>16, NoCallSound
<1> QED BY <1>1, <1>2, <1>5, <1>8, <1>9, <1>10, <1>12, <1>14, <1>15, <1>16, <1>17, OperationGoes DEF Ready

\* The chain makes the failure durable.
LEMMA PersistFailureKeeps ==
  ASSUME SessionInv, PersistFailure
  PROVE  SessionInv'
<1>1. pc["chain"] = "persist" /\ PersistFailedSession("chain") /\ "chain" \in Workers
  BY DEF PersistFailure, Workers
<1>2. FailingWorker("chain") BY <1>1, Parts DEF FailingWorker
<1> QED BY <1>1, <1>2, PersistFailedKeeps

\* The catch block of finishSession.
LEMMA CompletionFailsKeeps ==
  ASSUME SessionInv, Committing(pc["chain"], chain), pc["chain"] \notin Awaiting, CompletionFails
  PROVE  SessionInv'
<1> DEFINE e == IF mem.status = "committing" THEN "running" ELSE "claimable"
           l == [chain EXCEPT !.reject = TRUE, !.already = FALSE, !.expected = e]
<1>1. pc["chain"] \notin {"idle", "factors"} BY DEF Committing, Completing
<1>2. /\ Ready(mem, chain) /\ ChainSound(pc["chain"], chain, mem, row) /\ chain \in OpRec
  BY <1>1, ReadyHere
<1>3. FinishFailedSession(mem, l, "complete", FALSE) /\ accounted' = accounted BY DEF CompletionFails
<1>4. e \in Open \union {"none"} \/ mem.disposed BY <1>2 DEF ChainSound, Open
<1>5. e \in Expected BY DEF Expected, FaucetSessionStatus
<1> HIDE DEF e
<1>6. l \in OpRec /\ l.already = FALSE /\ l.expected = e BY <1>2, <1>5 DEF OpRec
<1> HIDE DEF l
<1>7. Ready(mem, l) BY <1>2, <1>6 DEF Ready
<1>8. "complete" \in Code BY DEF Code
<1> QED BY <1>3, <1>4, <1>6, <1>7, <1>8, FinishFailedKeeps

\* The SessionComplete hooks of a completion end.
LEMMA CompleteHooksEndKeeps ==
  ASSUME SessionInv, CompleteHooksEnd
  PROVE  SessionInv'
<1>1. pc["chain"] = "completing" /\ Committing(pc["chain"], chain) /\ pc["chain"] \notin Awaiting
  BY DEF CompleteHooksEnd, Committing, Completing, Awaiting
<1>2. CASE CompletionFails BY <1>1, <1>2, CompletionFailsKeeps
<1>3. CASE ~CompletionFails
  <2>1. ChainGoes(mem, chain, "commitTail", NoCall) /\ saves' = Append(saves, "tail")
        /\ UNCHANGED <<accounted, completions>>
    BY <1>3 DEF CompleteHooksEnd
  <2>2. /\ Ready(mem, chain) /\ ChainSound("completing", chain, mem, row) /\ chain \in OpRec /\ start # "hooks"
        /\ accounted \in Nat /\ completions \in 0..1 /\ pc["saver"] \notin Failing
    BY <1>1, ReadyHere
  <2>3. ChainSound("commitTail", chain, mem, row)
    BY <2>2 DEF ChainSound, Committing, Completing, TimingOut
  <2>4. "commitTail" \in Resting /\ ~PastTail("commitTail", chain)
    BY DEF Resting, PastTail, Failing
  <2>5. /\ NoCall \in CallRec /\ CallSound("commitTail", NoCall, mem, row, accounted')
        /\ "commitTail" \in ChainPoints \ {"idle"}
    BY <2>4, NoCallSound
  <2> QED BY <1>1, <2>1, <2>2, <2>3, <2>4, <2>5, OperationGoes DEF Ready
<1> QED BY <1>2, <1>3

\* The saves are done: the claimable row is sent.
LEMMA CommitKeeps ==
  ASSUME SessionInv, Commit
  PROVE  SessionInv'
<1>1. pc["chain"] = "commit" /\ PastTail("commit", chain) /\ Committing("commit", chain)
  BY DEF Commit, PastTail, Committing, Completing
<1>2. pc["chain"] \notin {"idle", "factors", "accounting", "tail", "persist"} \union Awaiting
  BY <1>1 DEF Awaiting
<1>3. /\ Ready(mem, chain) /\ ChainSound("commit", chain, mem, row) /\ chain \in OpRec
      /\ mem \in MemRec /\ ObjectSound(mem)
  BY <1>1, <1>2, ReadyHere
<1> DEFINE d == [StoreData(mem) EXCEPT !.status = "claimable"]
           l == [chain EXCEPT !.data = d]
           c == Sent("transition", d, "running")
<1>4. ChainGoes(mem, l, "claimable", c) /\ UNCHANGED <<saves, accounted, completions>>
  BY DEF Commit
<1>5. d \in Row /\ d.status = "claimable" /\ d.drop = mem.drop
  BY <1>3 DEF StoreData, MemRec, Row, Amount, Code
<1> HIDE DEF d
<1>6. l \in OpRec /\ l.data = d /\ l.kind = chain.kind /\ l.already = chain.already
  BY <1>3, <1>5 DEF OpRec
<1>7. c \in CallRec /\ c.state = "sent" /\ c.op = "transition" /\ c.data = d /\ c.expected = "running"
  BY <1>5, SentFields DEF Expected, FaucetSessionStatus
<1> HIDE DEF l, c
<1>8. mem.disposed \/ mem.drop = accounted
  BY <1>3 DEF Ready, HooksSound, ChainSound, Committing, Completing, ObjectSound, Norm
<1>9. CallSound("claimable", c, mem, row, accounted)
  BY <1>5, <1>7, <1>8 DEF CallSound, CallOf, Failing
<1>10. ChainSound("claimable", l, mem, row)
  BY <1>3, <1>5, <1>6 DEF ChainSound, Committing, Completing, TimingOut
<1>11. "claimable" \in ChainPoints \ ({"idle", "factors", "failHooks", "tail", "persist"} \union Resting)
  BY DEF ChainPoints, Completing, Resting
<1> QED BY <1>1, <1>2, <1>4, <1>6, <1>7, <1>9, <1>10, <1>11, ChainCalls

\* The row is claimable, or has timed out since.
LEMMA ClaimableKeeps ==
  ASSUME SessionInv, pc["chain"] \in {"claimable", "claimableRead"}, NEW reject,
         ChainEnds(Claimable(mem), reject),
         (row.status = "claimable" /\ row.drop = mem.drop) \/ TimedOutRow(row)
  PROVE  SessionInv'
<1> DEFINE x == Claimable(mem)
<1>1. /\ pc["chain"] \notin {"idle", "factors", "accounting", "tail", "persist"} \union Awaiting
      /\ PastTail(pc["chain"], chain) /\ Committing(pc["chain"], chain)
  BY DEF Awaiting, PastTail, Committing, Completing
<1>2. /\ Ready(mem, chain) /\ start # "hooks" /\ mem \in MemRec /\ ObjectSound(mem) /\ RowSound(mem, row)
      /\ ChainSound(pc["chain"], chain, mem, row)
      /\ pc["saver"] \notin Saving /\ pc["saver"] \notin Failing
  BY <1>1, ReadyHere
<1>3. /\ x \in MemRec /\ x.status = "claimable" /\ x.persist = "durable" /\ x.disposed = TRUE
      /\ x.drop = mem.drop /\ x.failure = mem.failure /\ x.already = mem.already /\ x.depth = mem.depth
      /\ x.failed = mem.failed /\ x.expected = mem.expected
  BY <1>2 DEF Claimable, MemRec, FaucetSessionStatus
<1>4. ChainEnds(x, reject) OBVIOUS
<1> HIDE DEF x
<1>5. ObjectSound(x) BY <1>1, <1>2, <1>3 DEF ObjectSound, ChainSound
<1>6. RowSound(x, row) BY <1>2, <1>3 DEF RowSound, TimedOutRow
<1>7. HooksSound(x, row, accounted, completions) BY <1>2, <1>3 DEF HooksSound, Ready
<1>8. ChainObject(x) BY <1>2, <1>3, <1>5, <1>6 DEF ChainObject, Saving
<1> QED BY <1>2, <1>3, <1>4, <1>7, <1>8, ChainEndsKeeps DEF Ready

\* The terminal transition is answered.
LEMMA CommittedKeeps ==
  ASSUME SessionInv, Committed
  PROVE  SessionInv'
<1>1. /\ Answered("chain", "claimable")
      /\ "claimable" \in ChainPoints \ ({"idle", "factors"} \union Awaiting)
      /\ pc["chain"] \notin {"idle", "factors", "accounting", "tail", "persist"} \union Awaiting
  BY DEF Committed, Answered, ChainPoints, Completing, Awaiting
<1>2. /\ pc["chain"] = "claimable" /\ call["chain"] \in CallRec /\ call["chain"].state = "done"
      /\ CallSound("claimable", call["chain"], mem, row, accounted)
  BY <1>1, AnsweredChain
<1>3. Reply("chain") \in {"ok", "no", "error"} BY <1>2 DEF CallRec, CallSound, Reply
<1>4. CASE Reply("chain") = "ok"
  <2>1. ChainEnds(Claimable(mem), chain.reject) BY <1>4 DEF Committed
  <2>2. (row.status = "claimable" /\ row.drop = mem.drop) \/ TimedOutRow(row)
    BY <1>2, <1>4 DEF CallSound, CallOf, Reply, IsTerminalStatus
  <2> QED BY <1>2, <2>1, <2>2, ClaimableKeeps
<1>5. CASE Reply("chain") = "no"
  <2>1. ChainReads("sync") BY <1>5 DEF Committed
  <2> QED BY <1>1, <1>2, <2>1, ChainReadsKeeps DEF TimingOut
<1>6. CASE Reply("chain") = "error"
  <2>1. ChainReads("claimableRead") BY <1>6 DEF Committed
  <2> QED BY <1>1, <1>2, <2>1, ChainReadsKeeps DEF TimingOut
<1> QED BY <1>3, <1>4, <1>5, <1>6

\* The row was read after a transition without acknowledgement.
LEMMA CommitReadKeeps ==
  ASSUME SessionInv, CommitRead
  PROVE  SessionInv'
<1>1. /\ Answered("chain", "claimableRead")
      /\ "claimableRead" \in ChainPoints \ ({"idle", "factors"} \union Awaiting)
      /\ pc["chain"] \notin {"idle", "factors", "accounting", "tail", "persist"} \union Awaiting
      /\ Committing(pc["chain"], chain)
  BY DEF CommitRead, Answered, ChainPoints, Completing, Awaiting, Committing
<1>2. /\ pc["chain"] = "claimableRead" /\ call["chain"].state = "done" /\ "chain" \in Workers
  BY <1>1, AnsweredChain
<1>3. ChainSound("claimableRead", chain, mem, row) BY <1>2, Parts
<1>4. CASE /\ Reply("chain") # "error" /\ Read("chain") = chain.data
  <2>1. ChainEnds(Claimable(mem), chain.reject) BY <1>4 DEF CommitRead
  <2>2. Read("chain").status = "claimable" /\ Read("chain").drop = mem.drop BY <1>3, <1>4 DEF ChainSound
  <2>3. (row.status = "claimable" /\ row.drop = mem.drop) \/ TimedOutRow(row)
    BY <1>2, <2>2, TerminalRead DEF IsTerminalStatus
  <2> QED BY <1>2, <2>1, <2>3, ClaimableKeeps
<1>5. CASE /\ Reply("chain") # "error" /\ Read("chain") # chain.data
           /\ IsTerminalStatus(Read("chain").status)
  <2>1. ChainEnds(SynchronizedTerminal(mem, Read("chain")), chain.reject) BY <1>5 DEF CommitRead
  <2> QED BY <1>1, <1>2, <1>5, <2>1, ChainSynchronizes
<1>6. CASE Reply("chain") = "error" \/ (Read("chain") # chain.data /\ ~IsTerminalStatus(Read("chain").status))
  <2>1. CompletionFails BY <1>6 DEF CommitRead
  <2> QED BY <1>1, <2>1, CompletionFailsKeeps
<1> QED BY <1>4, <1>5, <1>6

\* The row was read because another writer was first.
LEMMA SyncReadKeeps ==
  ASSUME SessionInv, SyncRead
  PROVE  SessionInv'
<1>1. /\ Answered("chain", "sync") /\ "sync" \in ChainPoints \ ({"idle", "factors"} \union Awaiting)
      /\ pc["chain"] \notin {"idle", "factors", "accounting", "tail", "persist"} \union Awaiting
      /\ Committing(pc["chain"], chain) <=> chain.kind # "timeout"
  BY DEF SyncRead, Answered, ChainPoints, Completing, Awaiting, Committing
<1>2. call["chain"].state = "done" BY <1>1, AnsweredChain
<1>3. CASE Reply("chain") # "error" /\ IsTerminalStatus(Read("chain").status)
  <2>1. ChainEnds(SynchronizedTerminal(mem, Read("chain")), chain.reject) BY <1>3 DEF SyncRead
  <2> QED BY <1>1, <1>2, <1>3, <2>1, ChainSynchronizes
<1>4. CASE ~(Reply("chain") # "error" /\ IsTerminalStatus(Read("chain").status)) /\ chain.kind = "timeout"
  <2>1. ChainEnds(mem, TRUE) BY <1>4 DEF SyncRead
  <2> QED BY <1>1, <1>4, <2>1, ChainLeaves
<1>5. CASE ~(Reply("chain") # "error" /\ IsTerminalStatus(Read("chain").status)) /\ chain.kind # "timeout"
  <2>1. CompletionFails BY <1>5 DEF SyncRead
  <2> QED BY <1>1, <1>5, <2>1, CompletionFailsKeeps
<1> QED BY <1>3, <1>4, <1>5

\* finishSession up to its first await.
LEMMA FinishSessionKeeps ==
  ASSUME SessionInv, NEW m, NEW l, Ready(m, l), FinishSession(m, l), m.status # "committing",
         l.expected = "none", l.kind # "timeout"
  PROVE  SessionInv'
<1>1. /\ ChainObject(m) /\ m.depth = 0 /\ m.disposed = mem.disposed /\ m.status = mem.status
      /\ HooksSound(m, row, accounted, completions)
      /\ l \in OpRec /\ (l.already => row.status = "failed")
      /\ Busy /\ pc["chain"] \notin Awaiting /\ accounted' = accounted
  BY DEF Ready, FinishSession
<1>2. m \in MemRec /\ ObjectSound(m) /\ RowSound(m, row) BY <1>1 DEF ChainObject
<1>3. accounted \in Nat /\ completions \in 0..1 /\ MinDropAmount \in Nat
  BY Parts DEF Shape, SessionAssumption
<1>4. CASE m.status # "running"
  <2>1. EndOperation(m, l.reject) /\ UNCHANGED <<row, rollback, saves, start, phase, completions>>
    BY <1>4 DEF FinishSession
  <2> QED BY <1>1, <1>3, <2>1, EndsKeeps
<1>5. CASE m.status = "running" /\ m.drop < MinDropAmount
  <2>1. FinishFailedSession(m, l, "low", TRUE) BY <1>5 DEF FinishSession
  <2>2. "low" \in Code BY DEF Code
  <2> QED BY <1>1, <2>1, <2>2, FinishFailedKeeps
<1>6. CASE m.status = "running" /\ ~(m.drop < MinDropAmount)
  <2> DEFINE x == [m EXCEPT !.status = "committing", !.dirty = TRUE]
  <2>1. ChainGoes(x, l, "completing", NoCall) /\ completions' = completions + 1 /\ saves' = saves
    BY <1>6 DEF FinishSession
  <2>2. ~m.disposed /\ m.failure = "none" BY <1>2, <1>6 DEF ObjectSound
  <2>3. start # "hooks" /\ pc["saver"] \notin Failing BY <1>6, <2>2, Unfailed
  <2>4. /\ x \in MemRec /\ x.status = "committing" /\ x.drop = m.drop /\ x.persist = m.persist
        /\ x.failure = "none" /\ x.disposed = m.disposed /\ x.depth = 0 /\ x.already = m.already
        /\ x.failed = m.failed /\ x.expected = m.expected
    BY <1>1, <1>2, <2>2 DEF MemRec, FaucetSessionStatus
  <2> HIDE DEF x
  <2>5. m.drop # -1 BY <1>2, <1>3, <1>6
  <2>6. completions = 0 BY <1>1, <1>3, <1>6 DEF HooksSound
  <2>7. ObjectSound(x) BY <2>2, <2>4, <2>5 DEF ObjectSound
  <2>8. RowSound(x, row) BY <1>2, <1>6, <2>2, <2>4 DEF RowSound
  <2>9. ChainObject(x) BY <1>1, <2>2, <2>3, <2>4, <2>7, <2>8 DEF ChainObject
  <2>10. HooksSound(x, row, accounted, completions') BY <1>1, <2>1, <2>4, <2>6 DEF HooksSound
  <2>11. ChainSound("completing", l, x, row)
    BY <1>1, <2>4 DEF ChainSound, Committing, Completing, TimingOut
  <2>12. "completing" \in Resting /\ ~PastTail("completing", l)
    BY DEF Resting, PastTail, Failing
  <2>13. /\ NoCall \in CallRec /\ CallSound("completing", NoCall, x, row, accounted')
         /\ "completing" \in ChainPoints \ {"idle"}
    BY <2>12, NoCallSound
  <2>14. completions' \in 0..1 BY <2>1, <2>6
  <2> QED BY <1>1, <1>3, <2>1, <2>3, <2>4, <2>9, <2>10, <2>11, <2>12, <2>13, <2>14, OperationGoes
<1> QED BY <1>4, <1>5, <1>6

\* An object that may still be rewarded goes on, or its operation ends, with a new drop amount.
\* (Only fields that the invariant does not relate to others change.)
SameCourse(m, x) ==
  /\ x \in MemRec /\ x.status = m.status /\ x.persist = m.persist /\ x.failure = m.failure
  /\ x.expected = m.expected /\ x.already = m.already /\ x.failed = m.failed /\ x.disposed = m.disposed

\* The object after a step of a reward.
LEMMA CourseKept ==
  ASSUME SessionInv, NEW m, NEW l, Ready(m, l), NEW x, SameCourse(m, x), x.drop = m.drop \/ m.status \in {"starting", "running"}
  PROVE  ChainObject(x)
<1>1. m \in MemRec /\ ObjectSound(m) /\ RowSound(m, row) /\ ChainObject(m) BY DEF Ready, ChainObject
<1>2. ObjectSound(x) /\ RowSound(x, row) BY <1>1 DEF SameCourse, ObjectSound, RowSound, HasFailure
<1> QED BY <1>1, <1>2 DEF SameCourse, ChainObject, HasFailure

\* applyReward up to the factor hooks.
LEMMA ApplyRewardKeeps ==
  ASSUME SessionInv, NEW m, NEW l, Ready(m, l), ApplyReward(m, l), m.status # "committing",
         l.expected = "none", l.kind # "timeout"
  PROVE  SessionInv'
<1>1. /\ ChainObject(m) /\ m.depth = 0 /\ m.disposed = mem.disposed /\ m.status = mem.status
      /\ HooksSound(m, row, accounted, completions)
      /\ l \in OpRec /\ (l.already => row.status = "failed")
      /\ Busy /\ pc["chain"] \notin Awaiting
  BY DEF Ready
<1>2. m \in MemRec BY <1>1 DEF ChainObject
<1>3. accounted \in Nat /\ completions \in 0..1 BY Parts DEF Shape
<1>4. CASE (~CanStartReward(m) \/ l.amount = 0) /\ l.default
  <2>1. FinishSession(m, l) BY <1>4 DEF ApplyReward
  <2> QED BY <2>1, FinishSessionKeeps
<1>5. CASE (~CanStartReward(m) \/ l.amount = 0) /\ ~l.default
  <2>1. ChainEnds(m, FALSE) BY <1>5 DEF ApplyReward
  <2> QED BY <1>1, <2>1, ChainEndsKeeps
<1>6. CASE CanStartReward(m) /\ l.amount # 0
  <2> DEFINE x == [m EXCEPT !.depth = @ + 1]
  <2>1. ChainGoes(x, l, "factors", NoCall) /\ UNCHANGED <<saves, accounted, completions>>
    BY <1>6 DEF ApplyReward
  <2>2. SameCourse(m, x) /\ x.drop = m.drop /\ x.depth = 1 BY <1>1, <1>2 DEF SameCourse, MemRec
  <2> HIDE DEF x
  <2>3. ChainObject(x) BY <2>2, CourseKept
  <2>4. HooksSound(x, row, accounted, completions) BY <1>1, <2>2 DEF HooksSound, SameCourse
  <2>5. ChainSound("factors", l, x, row)
    BY <1>1, <2>2 DEF ChainSound, Committing, Completing, TimingOut, SameCourse
  <2>6. "factors" \in Resting /\ ~PastTail("factors", l) /\ ~Committing("factors", l)
    BY DEF Resting, PastTail, Failing, Committing, Completing
  <2>7. NoCall \in CallRec /\ CallSound("factors", NoCall, x, row, accounted') /\ "factors" \in ChainPoints \ {"idle"}
    BY <2>6, NoCallSound
  <2> QED BY <1>1, <1>3, <2>1, <2>2, <2>3, <2>4, <2>5, <2>6, <2>7, OperationGoes DEF SameCourse
<1> QED BY <1>4, <1>5, <1>6

\* A reward returns: a default reward goes on with the completion.
LEMMA RewardReturnsKeeps ==
  ASSUME SessionInv, NEW m, Ready(m, chain), RewardReturns(m), m.status # "committing",
         chain.expected = "none", chain.kind # "timeout"
  PROVE  SessionInv'
<1>1. CASE chain.default
  <2>1. FinishSession(m, chain) BY <1>1 DEF RewardReturns
  <2> QED BY <2>1, FinishSessionKeeps
<1>2. CASE ~chain.default
  <2>1. ChainEnds(m, FALSE) BY <1>2 DEF RewardReturns
  <2> QED BY <2>1, ChainEndsKeeps DEF Ready
<1> QED BY <1>1, <1>2

\* The factor hooks settle.
LEMMA FactorHooksEndKeeps ==
  ASSUME SessionInv, FactorHooksEnd
  PROVE  SessionInv'
<1>1. pc["chain"] = "factors" /\ Busy /\ pc["chain"] \notin Awaiting
  BY DEF FactorHooksEnd, Busy, Awaiting
<1>2. /\ Shape /\ mem \in MemRec /\ chain \in OpRec /\ ChainSound("factors", chain, mem, row)
      /\ HooksSound(mem, row, accounted, completions) /\ ChainObject(mem)
      /\ accounted \in Nat /\ completions \in 0..1
  BY <1>1, Parts, SameObject DEF Shape
<1>3. mem.depth = 1 /\ mem.status # "committing" /\ chain.expected = "none" /\ chain.kind # "timeout"
  BY <1>2 DEF ChainSound, Committing, Completing
<1> DEFINE m == [mem EXCEPT !.depth = @ - 1]
           l(thrown) == [chain EXCEPT !.reject = thrown]
<1>4. PICK intent \in {"none", "complete", "failed"}, thrown \in BOOLEAN, scaled \in 0..chain.amount :
         /\ (intent # "none" \/ thrown) => scaled = 0
         /\ CASE intent = "failed" -> FinishFailedSession(m, l(thrown), "other", TRUE) /\ UNCHANGED accounted
              [] intent = "complete" /\ ~m.completion -> FinishSession(m, l(thrown))
              [] intent = "complete" /\ m.completion  -> IF thrown THEN ChainEnds(m, TRUE)
                                                                   ELSE RewardReturns(m)
              [] intent = "none" /\ thrown -> ChainEnds(m, TRUE)
              [] OTHER ->
                   IF ~CanStartReward(m) \/ m.cancel THEN RewardReturns(m)
                   ELSE /\ ChainGoes([m EXCEPT !.drop = (IF @ = -1 THEN 0 ELSE @) + scaled,
                                               !.dirty = TRUE], l(thrown), "accounting", NoCall)
                        /\ accounted' = accounted + scaled
                        /\ UNCHANGED <<timer, saves, completions>>
  BY Zenon DEF FactorHooksEnd
<1>5. /\ m \in MemRec /\ m.depth = 0 /\ m.status = mem.status /\ m.drop = mem.drop
      /\ m.persist = mem.persist /\ m.failure = mem.failure /\ m.expected = mem.expected
      /\ m.already = mem.already /\ m.failed = mem.failed /\ m.disposed = mem.disposed
  BY <1>2, <1>3 DEF MemRec
<1>6. /\ l(thrown) \in OpRec /\ l(thrown).expected = chain.expected /\ l(thrown).kind = chain.kind
      /\ l(thrown).already = chain.already
  BY <1>2 DEF OpRec
<1> HIDE DEF m, l
<1>7. ObjectSound(m) /\ RowSound(m, row)
  BY <1>2, <1>5 DEF ChainObject, ObjectSound, RowSound, HasFailure
<1>8. ChainObject(m) /\ HooksSound(m, row, accounted, completions)
  BY <1>2, <1>5, <1>7 DEF ChainObject, HooksSound, HasFailure
<1>9. Ready(m, l(thrown)) /\ Ready(m, chain)
  BY <1>1, <1>2, <1>5, <1>6, <1>8 DEF Ready, ChainSound
<1>10. CASE FinishFailedSession(m, l(thrown), "other", TRUE) /\ UNCHANGED accounted
  <2>1. "other" \in Code BY DEF Code
  <2> QED BY <1>3, <1>5, <1>6, <1>9, <1>10, <2>1, FinishFailedKeeps
<1>11. CASE FinishSession(m, l(thrown)) BY <1>3, <1>5, <1>6, <1>9, <1>11, FinishSessionKeeps
<1>12. CASE ChainEnds(m, TRUE) BY <1>1, <1>3, <1>5, <1>8, <1>12, ChainEndsKeeps
<1>13. CASE RewardReturns(m) BY <1>3, <1>5, <1>9, <1>13, RewardReturnsKeeps
<1> DEFINE x == [m EXCEPT !.drop = (IF @ = -1 THEN 0 ELSE @) + scaled, !.dirty = TRUE]
<1>14. CASE /\ CanStartReward(m) /\ ChainGoes(x, l(thrown), "accounting", NoCall)
            /\ accounted' = accounted + scaled /\ UNCHANGED <<saves, completions>>
  <2>1. scaled \in Nat /\ m.drop \in Nat \union {-1} BY <1>2, <1>5 DEF MemRec, Amount, OpRec
  <2> DEFINE d == (IF m.drop = -1 THEN 0 ELSE m.drop) + scaled
  <2>2. d \in Nat /\ d = Norm(m.drop) + scaled BY <2>1 DEF Norm
  <2>3. x = [m EXCEPT !.drop = d, !.dirty = TRUE] OBVIOUS
  <2> HIDE DEF d
  <2>4. SameCourse(m, x) /\ x.drop = d /\ x.depth = 0
    BY <1>5, <2>2, <2>3 DEF SameCourse, MemRec, Amount
  <2> HIDE DEF x
  <2>5. m.status \in {"starting", "running"} BY <1>14 DEF CanStartReward, CanCommitReward
  <2>6. ChainObject(x) BY <1>9, <2>4, <2>5, CourseKept
  <2>7. row.status # "claimable" /\ ~m.disposed BY <1>7, <2>5 DEF RowSound, ObjectSound
  <2>8. HooksSound(x, row, accounted', completions')
    <3>1. accounted = Norm(m.drop) BY <1>8, <2>7 DEF HooksSound
    <3>2. Norm(x.drop) = d BY <2>2, <2>4 DEF Norm
    <3> QED BY <1>8, <1>14, <2>2, <2>4, <2>7, <3>1, <3>2 DEF HooksSound, SameCourse
  <2>9. ChainSound("accounting", l(thrown), x, row)
    BY <1>2, <1>3, <1>5, <1>6, <2>4 DEF ChainSound, Committing, Completing, TimingOut, SameCourse
  <2>10. "accounting" \in Resting /\ ~PastTail("accounting", l(thrown)) /\ ~Committing("accounting", l(thrown))
    BY DEF Resting, PastTail, Failing, Committing, Completing
  <2>11. /\ NoCall \in CallRec /\ CallSound("accounting", NoCall, x, row, accounted')
         /\ "accounting" \in ChainPoints \ {"idle"}
    BY <2>10, NoCallSound
  <2>12. accounted' \in Nat BY <1>2, <1>14, <2>1
  <2>13. x.disposed = mem.disposed BY <1>5, <2>4 DEF SameCourse
  <2> QED BY <1>1, <1>2, <1>6, <1>14, <2>6, <2>8, <2>9, <2>10, <2>11, <2>12, <2>13, OperationGoes
<1>15. \/ FinishFailedSession(m, l(thrown), "other", TRUE) /\ UNCHANGED accounted
       \/ FinishSession(m, l(thrown))
       \/ ChainEnds(m, TRUE)
       \/ RewardReturns(m)
       \/ /\ CanStartReward(m) /\ ChainGoes(x, l(thrown), "accounting", NoCall)
          /\ accounted' = accounted + scaled /\ UNCHANGED <<saves, completions>>
  <2>1. CASE intent = "failed" BY <1>4, <2>1
  <2>2. CASE intent = "complete" BY <1>4, <2>2
  <2>3. CASE intent = "none" /\ thrown BY <1>4, <2>3
  <2>4. CASE intent = "none" /\ ~thrown BY <1>4, <2>4
  <2> QED BY <2>1, <2>2, <2>3, <2>4
<1> QED BY <1>10, <1>11, <1>12, <1>13, <1>14, <1>15

\* An operation that ends with a new drop amount.
LEMMA RewardEnds ==
  ASSUME SessionInv, NEW l, Ready(mem, l), mem.status \in {"starting", "running"}, NEW x, SameCourse(mem, x),
         x.depth = 0, EndOperation(x, FALSE), UNCHANGED <<row, rollback, saves, start, phase, completions>>,
         accounted' \in Nat, accounted' = Norm(x.drop)
  PROVE  SessionInv'
<1>1. ChainObject(x) BY CourseKept
<1>2. ObjectSound(mem) /\ RowSound(mem, row) BY DEF Ready, ChainObject
<1>3. HooksSound(x, row, accounted', completions)
  BY <1>2 DEF Ready, HooksSound, SameCourse, RowSound
<1> QED BY <1>1, <1>3, EndsKeeps DEF Ready, SameCourse

\* The amount of a session that may be rewarded is what the hooks were told.
LEMMA DropAccounted ==
  ASSUME SessionInv, mem.status \in {"starting", "running"}
  PROVE  ~mem.disposed /\ accounted = Norm(mem.drop) /\ accounted \in Nat /\ mem.drop \in Nat \union {-1}
         /\ mem \in MemRec
BY Parts DEF Shape, MemRec, Amount, ObjectSound, HooksSound

\* The SessionRewarded hooks end.
LEMMA AccountingHooksEndKeeps ==
  ASSUME SessionInv, AccountingHooksEnd
  PROVE  SessionInv'
<1>1. pc["chain"] = "accounting" BY DEF AccountingHooksEnd
<1>2. Ready(mem, chain) /\ ChainSound("accounting", chain, mem, row) /\ chain \in OpRec
  BY <1>1, ReadyHere DEF Awaiting
<1>3. mem.status # "committing" /\ chain.expected = "none" /\ chain.kind # "timeout"
  BY <1>2 DEF ChainSound, Committing, Completing
<1>4. PICK intent \in {"none", "complete", "failed"}, thrown \in BOOLEAN :
        \/ /\ FinishFailedSession(mem, [chain EXCEPT !.reject = thrown], "other", TRUE)
           /\ UNCHANGED accounted
        \/ FinishSession(mem, chain)
        \/ /\ mem.dirty /\ CanCommitReward(mem) /\ ~chain.default
           /\ EndOperation(LazySaved(mem), FALSE)
           /\ UNCHANGED <<row, rollback, saves, start, phase, accounted, completions>>
        \/ RewardReturns(mem)
  BY DEF AccountingHooksEnd
<1>5. CASE /\ FinishFailedSession(mem, [chain EXCEPT !.reject = thrown], "other", TRUE)
           /\ UNCHANGED accounted
  <2> DEFINE l == [chain EXCEPT !.reject = thrown]
  <2>1. l \in OpRec /\ l.already = chain.already /\ l.expected = chain.expected BY <1>2 DEF OpRec
  <2>2. FinishFailedSession(mem, l, "other", TRUE) /\ accounted' = accounted BY <1>5
  <2> HIDE DEF l
  <2>3. Ready(mem, l) BY <1>2, <2>1 DEF Ready
  <2>4. "other" \in Code BY DEF Code
  <2> QED BY <1>3, <2>1, <2>2, <2>3, <2>4, FinishFailedKeeps
<1>6. CASE FinishSession(mem, chain) BY <1>2, <1>3, <1>6, FinishSessionKeeps
<1>7. CASE /\ CanCommitReward(mem) /\ EndOperation(LazySaved(mem), FALSE)
           /\ UNCHANGED <<row, rollback, saves, start, phase, accounted, completions>>
  <2> DEFINE x == LazySaved(mem)
  <2>1. mem.status \in {"starting", "running"} BY <1>7 DEF CanCommitReward
  <2>2. /\ ~mem.disposed /\ accounted = Norm(mem.drop) /\ accounted \in Nat /\ mem \in MemRec
    BY <2>1, DropAccounted
  <2>3. SameCourse(mem, x) /\ x.drop = mem.drop /\ x.depth = 0
    BY <1>2, <2>2 DEF SameCourse, LazySaved, MemRec, Ready
  <2>4. EndOperation(x, FALSE) BY <1>7
  <2> HIDE DEF x
  <2> QED BY <1>2, <1>7, <2>1, <2>2, <2>3, <2>4, RewardEnds
<1>8. CASE RewardReturns(mem) BY <1>2, <1>3, <1>8, RewardReturnsKeeps
<1> QED BY <1>4, <1>5, <1>6, <1>7, <1>8

\* The next operation of the chain.
LEMMA ReadyNext ==
  ASSUME SessionInv, pc["chain"] = "idle", queue # <<>>
  PROVE  /\ Ready(mem, Head(queue)) /\ mem.status # "committing" /\ Head(queue) \in OpRec
         /\ Head(queue).expected = "none" /\ ~Head(queue).already /\ Head(queue).kind \in Kinds
         /\ Head(queue).kind = "timeout" => /\ Head(queue).listed.status \in {"running", "claimable"}
                                            /\ start # "hooks"
         /\ Shape /\ mem \in MemRec /\ ObjectSound(mem) /\ accounted \in Nat /\ completions \in 0..1
<1>1. /\ Shape /\ ChainSound("idle", chain, mem, row) /\ QueueSound(queue, pc["chain"])
      /\ HooksSound(mem, row, accounted, completions) /\ ObjectSound(mem)
      /\ StartSound(mem, row, queue, saves, pc["chain"], pc["saver"])
  BY Parts
<1>2. Busy /\ pc["chain"] \notin Awaiting BY DEF Busy, Awaiting
<1>3. ChainObject(mem) BY <1>2, SameObject
<1>4. mem.depth = 0 /\ mem.status # "committing"
  BY <1>1 DEF ChainSound, Shape, MemRec, Committing, Completing
<1>5. Head(queue) = queue[1] /\ 1 \in DOMAIN queue /\ Head(queue) \in OpRec BY <1>1 DEF Shape
<1>6. /\ Head(queue).expected = "none" /\ ~Head(queue).already /\ Head(queue).kind # "none"
      /\ Head(queue).kind = "timeout" => Head(queue).listed.status \in {"running", "claimable"}
  BY <1>1, <1>5 DEF QueueSound
<1>7. Head(queue).kind = "timeout" => start # "hooks" BY <1>1, <1>5 DEF StartSound
<1>8. Ready(mem, Head(queue)) BY <1>1, <1>2, <1>3, <1>4, <1>5, <1>6 DEF Ready
<1>9. Head(queue).kind \in Kinds BY <1>5, <1>6 DEF OpRec
<1> QED BY <1>1, <1>4, <1>5, <1>6, <1>7, <1>8, <1>9 DEF Shape

\* A penalty.
LEMMA ApplyPenaltyKeeps ==
  ASSUME SessionInv, pc["chain"] = "idle", queue # <<>>, ApplyPenalty(mem, Head(queue))
  PROVE  SessionInv'
<1> DEFINE l == Head(queue)
<1>1. Ready(mem, l) /\ mem.status # "committing" /\ l \in OpRec BY ReadyNext
<1> HIDE DEF l
<1>2. CASE ~CanStartReward(mem)
  <2>1. ChainEnds(mem, FALSE) BY <1>2 DEF ApplyPenalty, l
  <2> QED BY <1>1, <2>1, ChainEndsKeeps DEF Ready
<1>3. CASE CanStartReward(mem)
  <2> DEFINE drop == IF mem.drop = -1 THEN 0 ELSE mem.drop
             amount == IF l.amount > drop THEN drop ELSE l.amount
             x == [LazySaved(mem) EXCEPT !.drop = drop - amount]
  <2>1. /\ EndOperation(x, FALSE) /\ accounted' = accounted - amount
        /\ UNCHANGED <<row, rollback, saves, start, phase, completions>>
    BY <1>3 DEF ApplyPenalty, l
  <2>2. mem.status \in {"starting", "running"} BY <1>3 DEF CanStartReward, CanCommitReward
  <2>3. /\ ~mem.disposed /\ accounted = Norm(mem.drop) /\ accounted \in Nat /\ mem \in MemRec
        /\ mem.drop \in Nat \union {-1}
    BY <2>2, DropAccounted
  <2>4. l.amount \in Nat BY <1>1 DEF OpRec
  <2>5. drop \in Nat /\ amount \in Nat /\ amount <= drop /\ drop = accounted
    BY <2>3, <2>4 DEF Norm
  <2> DEFINE d == drop - amount
  <2>6. d \in Nat BY <2>5
  <2>7. accounted' = d BY <2>1, <2>5
  <2> HIDE DEF d
  <2>8. SameCourse(mem, x) /\ x.drop = d /\ x.depth = 0
    <3>1. x = [LazySaved(mem) EXCEPT !.drop = d] BY DEF d
    <3> HIDE DEF x
    <3> QED BY <1>1, <2>3, <2>6, <3>1 DEF SameCourse, LazySaved, MemRec, Amount, Ready
  <2> HIDE DEF x
  <2>9. accounted' \in Nat /\ accounted' = Norm(x.drop) BY <2>6, <2>7, <2>8 DEF Norm
  <2> QED BY <1>1, <2>1, <2>2, <2>8, <2>9, RewardEnds
<1> QED BY <1>2, <1>3

\* The amount a SessionStart hook sets.
LEMMA ApplyDropAmountKeeps ==
  ASSUME SessionInv, pc["chain"] = "idle", queue # <<>>, Head(queue).kind # "timeout",
         ApplyDropAmount(mem, Head(queue))
  PROVE  SessionInv'
<1> DEFINE l == Head(queue)
<1>1. Ready(mem, l) /\ mem.status # "committing" /\ l \in OpRec /\ l.expected = "none" /\ l.kind # "timeout"
  BY ReadyNext
<1> HIDE DEF l
<1>2. CASE mem.drop # -1 \/ ~CanStartReward(mem)
  <2>1. ChainEnds(mem, FALSE) BY <1>2 DEF ApplyDropAmount, l
  <2> QED BY <1>1, <2>1, ChainEndsKeeps DEF Ready
<1>3. CASE ~(mem.drop # -1 \/ ~CanStartReward(mem))
  <2>1. mem.status \in {"starting", "running"} BY <1>3 DEF CanStartReward, CanCommitReward
  <2>2. /\ ~mem.disposed /\ accounted = Norm(mem.drop) /\ accounted \in Nat /\ mem \in MemRec
    BY <2>1, DropAccounted
  <2>3. accounted = 0 BY <1>3, <2>2 DEF Norm
  <2>4. CASE l.amount > 0
    <3> DEFINE x == [mem EXCEPT !.drop = 0]
    <3>1. ApplyReward(x, l) BY <1>3, <2>4 DEF ApplyDropAmount, l
    <3>2. SameCourse(mem, x) /\ x.drop = 0 /\ x.depth = mem.depth
      BY <2>2 DEF SameCourse, MemRec, Amount
    <3> HIDE DEF x
    <3>3. ChainObject(x) BY <1>1, <2>1, <3>2, CourseKept
    <3>4. HooksSound(x, row, accounted, completions)
      BY <1>1, <2>3, <3>2 DEF Ready, HooksSound, Norm, SameCourse
    <3>5. Ready(x, l) BY <1>1, <3>2, <3>3, <3>4 DEF Ready, SameCourse
    <3> QED BY <1>1, <3>1, <3>2, <3>5, ApplyRewardKeeps DEF SameCourse
  <2>5. CASE ~(l.amount > 0)
    <3> DEFINE x == [LazySaved(mem) EXCEPT !.drop = 0]
    <3>1. /\ EndOperation(x, FALSE) /\ accounted' = accounted
          /\ UNCHANGED <<row, rollback, saves, start, phase, completions>>
      BY <1>3, <2>5 DEF ApplyDropAmount, l
    <3>2. SameCourse(mem, x) /\ x.drop = 0 /\ x.depth = 0
      BY <1>1, <2>2 DEF SameCourse, LazySaved, MemRec, Amount, Ready
    <3> HIDE DEF x
    <3> QED BY <1>1, <2>1, <2>3, <3>1, <3>2, RewardEnds DEF Norm
  <2> QED BY <2>4, <2>5
<1> QED BY <1>2, <1>3

\* processSessionTimeout: without the session, retrying its failure, or before the save.
LEMMA ApplyTimeoutKeeps ==
  ASSUME SessionInv, pc["chain"] = "idle", queue # <<>>, Head(queue).kind = "timeout",
         ApplyTimeout(mem, Head(queue))
  PROVE  SessionInv'
<1> DEFINE l == Head(queue)
<1>1. /\ Ready(mem, l) /\ mem.status # "committing" /\ l \in OpRec /\ l.expected = "none" /\ l.kind = "timeout"
      /\ ~l.already /\ l.listed.status \in {"running", "claimable"} /\ start # "hooks"
      /\ accounted \in Nat /\ completions \in 0..1 /\ mem \in MemRec
  BY ReadyNext
<1> HIDE DEF l
<1>2. \A p \in {"bareTimeout", "retry", "timeoutSave"} : ~PastTail(p, l) /\ ~Committing(p, l)
  BY DEF PastTail, Failing, Committing, Completing
<1>3. CASE ~registered
  <2> DEFINE c == Sent("timeout", l.listed, "none")
  <2>1. ChainGoes(mem, l, "bareTimeout", c) /\ UNCHANGED <<saves, accounted, completions>>
    BY <1>3 DEF ApplyTimeout, l
  <2>2. l.listed \in Row BY <1>1 DEF OpRec
  <2>3. c \in CallRec /\ c.state = "sent" /\ c.op = "timeout" /\ c.data = l.listed
    BY <2>2, SentFields DEF Expected
  <2> HIDE DEF c
  <2>4. CallSound("bareTimeout", c, mem, row, accounted) BY <1>1, <2>3 DEF CallSound, CallOf, Failing
  <2>5. ChainSound("bareTimeout", l, mem, row)
    BY <1>1 DEF ChainSound, Committing, Completing, TimingOut, Ready
  <2>6. "bareTimeout" \in ChainPoints \ {"idle"} BY DEF ChainPoints, TimingOut
  <2> QED BY <1>1, <1>2, <2>1, <2>3, <2>4, <2>5, <2>6, OperationGoes DEF Ready
<1>4. CASE registered /\ mem.failure = "pending"
  <2>1. ChainGoes(mem, l, "retry", NoCall) /\ saves' = Append(saves, "timeout")
        /\ UNCHANGED <<accounted, completions>>
    BY <1>4 DEF ApplyTimeout, l
  <2>2. ChainSound("retry", l, mem, row)
    BY <1>1 DEF ChainSound, Committing, Completing, TimingOut, Ready
  <2>3. "retry" \in Resting BY DEF Resting
  <2>4. NoCall \in CallRec /\ CallSound("retry", NoCall, mem, row, accounted') /\ "retry" \in ChainPoints \ {"idle"}
    BY <2>3, NoCallSound
  <2> QED BY <1>1, <1>2, <2>1, <2>2, <2>4, OperationGoes DEF Ready
<1>5. CASE registered /\ mem.failure # "pending" /\ (mem.completion \/ mem.status # "running")
  <2>1. ChainEnds(mem, FALSE) BY <1>5 DEF ApplyTimeout, l
  <2> QED BY <1>1, <2>1, ChainEndsKeeps DEF Ready
<1>6. CASE registered /\ mem.failure # "pending" /\ ~(mem.completion \/ mem.status # "running")
  <2> DEFINE x == [mem EXCEPT !.completion = TRUE]
             o == [l EXCEPT !.owns = TRUE]
  <2>1. ChainGoes(x, o, "timeoutSave", NoCall) /\ saves' = Append(saves, "timeout")
        /\ UNCHANGED <<accounted, completions>>
    BY <1>6 DEF ApplyTimeout, l
  <2>2. SameCourse(mem, x) /\ x.drop = mem.drop /\ x.depth = mem.depth BY <1>1 DEF SameCourse, MemRec
  <2>3. o \in OpRec /\ o.already = l.already /\ o.expected = "none" /\ o.kind = "timeout"
    BY <1>1 DEF OpRec
  <2> HIDE DEF x, o
  <2>4. ChainObject(x) BY <1>1, <2>2, CourseKept
  <2>5. HooksSound(x, row, accounted, completions) BY <1>1, <2>2 DEF HooksSound, SameCourse, Ready
  <2>6. ChainSound("timeoutSave", o, x, row)
    BY <1>1, <2>2, <2>3 DEF ChainSound, Committing, Completing, TimingOut, Ready, SameCourse
  <2>7. "timeoutSave" \in Resting /\ ~PastTail("timeoutSave", o) /\ ~Committing("timeoutSave", o)
    BY DEF Resting, PastTail, Failing, Committing, Completing
  <2>8. /\ NoCall \in CallRec /\ CallSound("timeoutSave", NoCall, x, row, accounted')
        /\ "timeoutSave" \in ChainPoints \ {"idle"}
    BY <2>7, NoCallSound
  <2> QED BY <1>1, <2>1, <2>2, <2>3, <2>4, <2>5, <2>6, <2>7, <2>8, OperationGoes DEF Ready, SameCourse
<1> QED BY <1>3, <1>4, <1>5, <1>6

\* The chain takes its next operation.
LEMMA RunRewardOperationKeeps ==
  ASSUME SessionInv, RunRewardOperation
  PROVE  SessionInv'
<1> DEFINE l == Head(queue)
<1>1. pc["chain"] = "idle" /\ queue # <<>> BY DEF RunRewardOperation
<1>2. /\ Ready(mem, l) /\ mem.status # "committing" /\ l \in OpRec /\ l.expected = "none"
      /\ ~l.already /\ l.kind \in Kinds /\ Shape
  BY <1>1, ReadyNext
<1>3. CASE l.kind = "reward"
  <2>1. ApplyReward(mem, l) BY <1>3 DEF RunRewardOperation
  <2> QED BY <1>2, <1>3, <2>1, ApplyRewardKeeps
<1>4. CASE l.kind = "setDrop"
  <2>1. ApplyDropAmount(mem, l) BY <1>4 DEF RunRewardOperation
  <2> QED BY <1>1, <1>4, <2>1, ApplyDropAmountKeeps
<1>5. CASE l.kind = "penalty"
  <2>1. ApplyPenalty(mem, l) BY <1>5 DEF RunRewardOperation
  <2> QED BY <1>1, <2>1, ApplyPenaltyKeeps
<1>6. CASE l.kind = "timeout"
  <2>1. ApplyTimeout(mem, l) BY <1>6 DEF RunRewardOperation
  <2> QED BY <1>1, <1>6, <2>1, ApplyTimeoutKeeps
<1>7. CASE l.kind = "fail"
  <2>1. FinishFailedSession(mem, l, "other", TRUE) /\ accounted' = accounted
    BY <1>7 DEF RunRewardOperation
  <2>2. "other" \in Code BY DEF Code
  <2> HIDE DEF l
  <2> QED BY <1>2, <2>1, <2>2, FinishFailedKeeps
<1>8. CASE l.kind = "complete" /\ mem.drop = -1 /\ mem.depth = 0
  <2> DEFINE d == [l EXCEPT !.default = TRUE, !.amount = MaxDropAmount]
  <2>1. ApplyReward(mem, d) BY <1>8 DEF RunRewardOperation
  <2>2. d \in OpRec /\ d.expected = "none" /\ d.kind = "complete" /\ d.already = l.already
    BY <1>2, <1>8 DEF OpRec, Shape, SessionAssumption
  <2> HIDE DEF l, d
  <2>3. Ready(mem, d) BY <1>2, <2>2 DEF Ready
  <2> QED BY <1>2, <2>1, <2>2, <2>3, ApplyRewardKeeps
<1>9. CASE l.kind = "complete" /\ ~(mem.drop = -1 /\ mem.depth = 0)
  <2>1. FinishSession(mem, l) BY <1>9 DEF RunRewardOperation
  <2> HIDE DEF l
  <2> QED BY <1>2, <1>9, <2>1, FinishSessionKeeps
<1> HIDE DEF l
<1> QED BY <1>2, <1>3, <1>4, <1>5, <1>6, <1>7, <1>8, <1>9 DEF Kinds

\* The points of a timeout at which the chain does not wait.
TimingOutHere == {"bareTimeout", "saved", "saveError", "timeout", "timeoutMissed", "timeoutRead"}

\* What holds while the chain times out a session.
LEMMA TimingOutReady ==
  ASSUME SessionInv, pc["chain"] \in TimingOutHere
  PROVE  /\ pc["chain"] \notin {"idle", "factors", "accounting", "tail", "persist"} \union Awaiting
         /\ pc["chain"] \in TimingOut
         /\ pc["chain"] \in ChainPoints \ ({"idle", "factors"} \union Awaiting)
         /\ ~PastTail(pc["chain"], chain) /\ ~Committing(pc["chain"], chain)
         /\ Ready(mem, chain) /\ mem \in MemRec /\ ObjectSound(mem) /\ RowSound(mem, row) /\ chain \in OpRec
         /\ chain.kind = "timeout" /\ chain.expected = "none" /\ mem.status # "committing"
         /\ start # "hooks" /\ (chain.already => row.status = "failed")
<1>1. /\ pc["chain"] \notin {"idle", "factors", "accounting", "tail", "persist"} \union Awaiting
      /\ pc["chain"] \in TimingOut /\ pc["chain"] \in ChainPoints \ ({"idle", "factors"} \union Awaiting)
  BY DEF TimingOutHere, Awaiting, TimingOut, ChainPoints
<1>2. ~PastTail(pc["chain"], chain) /\ ~Committing(pc["chain"], chain)
  BY DEF TimingOutHere, PastTail, Failing, Committing, Completing
<1>3. /\ Ready(mem, chain) /\ mem \in MemRec /\ ObjectSound(mem) /\ RowSound(mem, row) /\ chain \in OpRec
      /\ ChainSound(pc["chain"], chain, mem, row) /\ start # "hooks"
  BY <1>1, ReadyHere
<1> QED BY <1>1, <1>2, <1>3 DEF ChainSound

\* The save before the timeout is done.
LEMMA TimeoutSavedKeeps ==
  ASSUME SessionInv, TimeoutSaved
  PROVE  SessionInv'
<1>1. pc["chain"] \in TimingOutHere BY DEF TimeoutSaved, TimingOutHere
<1>2. /\ pc["chain"] \notin {"idle", "factors", "accounting", "tail", "persist"} \union Awaiting
      /\ ~PastTail(pc["chain"], chain) /\ ~Committing(pc["chain"], chain)
      /\ Ready(mem, chain) /\ mem \in MemRec /\ chain \in OpRec
      /\ chain.kind = "timeout" /\ chain.expected = "none" /\ mem.status # "committing"
  BY <1>1, TimingOutReady
<1>3. CASE pc["chain"] = "saveError" \/ ~chain.owns \/ mem.status # "running"
  <2>1. ChainEnds(mem, pc["chain"] = "saveError") BY <1>3 DEF TimeoutSaved
  <2> QED BY <1>2, <2>1, ChainLeaves
<1>4. CASE ~(pc["chain"] = "saveError" \/ ~chain.owns \/ mem.status # "running")
  <2> DEFINE d == StoreData(mem)
             c == Sent("timeout", d, "none")
  <2>1. ChainGoes(mem, chain, "timeout", c) /\ UNCHANGED <<saves, accounted, completions>>
    BY <1>4 DEF TimeoutSaved
  <2>2. d \in Row /\ d.status = "running" BY <1>2, <1>4 DEF StoreData, MemRec, Row, Amount, Code
  <2> HIDE DEF d
  <2>3. c \in CallRec /\ c.state = "sent" /\ c.op = "timeout" /\ c.data = d
    BY <2>2, SentFields DEF Expected
  <2> HIDE DEF c
  <2>4. CallSound("timeout", c, mem, row, accounted) BY <2>2, <2>3 DEF CallSound, CallOf, Failing
  <2>5. ChainSound("timeout", chain, mem, row)
    BY <1>2 DEF ChainSound, Committing, Completing, TimingOut, Ready
  <2>6. "timeout" \in ChainPoints \ ({"idle", "factors", "failHooks", "tail", "persist"} \union Resting)
    BY DEF ChainPoints, TimingOut, Resting
  <2>7. ~PastTail("timeout", chain) /\ ~Committing("timeout", chain)
    BY DEF PastTail, Failing, Committing, Completing
  <2> QED BY <1>2, <2>1, <2>3, <2>4, <2>5, <2>6, <2>7, ChainCalls
<1> QED BY <1>3, <1>4

\* The row has timed out.
LEMMA TimedOutKeeps ==
  ASSUME SessionInv, pc["chain"] \in TimingOutHere, row.status = "failed",
         NEW k \in {"absent", "durable", "uncertain"}, k = mem.persist \/ k = "durable", TimedOut([mem EXCEPT !.persist = k])
  PROVE  SessionInv'
<1> DEFINE x == [mem EXCEPT !.persist = k]
           l == [chain EXCEPT !.already = TRUE]
<1>1. /\ Ready(mem, chain) /\ mem \in MemRec /\ ObjectSound(mem) /\ RowSound(mem, row) /\ chain \in OpRec
      /\ chain.kind = "timeout" /\ chain.expected = "none" /\ mem.status # "committing" /\ start # "hooks"
  BY TimingOutReady
<1>2. FinishFailedSession(x, l, "timeout", TRUE) /\ accounted' = accounted BY DEF TimedOut
<1>3. l \in OpRec /\ l.expected = "none" BY <1>1 DEF OpRec
<1>4. /\ x \in MemRec /\ x.persist = k /\ x.failure = mem.failure /\ x.disposed = mem.disposed
      /\ x.status = mem.status /\ x.drop = mem.drop /\ x.expected = mem.expected
      /\ x.already = mem.already /\ x.failed = mem.failed /\ x.depth = mem.depth
  BY <1>1, PersistFields
<1> HIDE DEF x, l
<1>5. row # Absent BY DEF Absent
<1>6. ObjectSound(x) /\ RowSound(x, row) BY <1>1, <1>4 DEF ObjectSound, RowSound, HasFailure
<1>7. ChainObject(x) BY <1>1, <1>4, <1>5, <1>6 DEF Ready, ChainObject, HasFailure
<1>8. Ready(x, l) BY <1>1, <1>3, <1>4, <1>7 DEF Ready, HooksSound
<1>9. "timeout" \in Code BY DEF Code
<1> QED BY <1>1, <1>2, <1>3, <1>4, <1>8, <1>9, FinishFailedKeeps

\* The timeout statement is answered.
LEMMA TimeoutDecidedKeeps ==
  ASSUME SessionInv, TimeoutDecided
  PROVE  SessionInv'
<1>1. Answered("chain", "timeout") /\ pc["chain"] \in TimingOutHere /\ "timeout" \in TimingOutHere
  BY DEF TimeoutDecided, Answered, TimingOutHere
<1>2. /\ pc["chain"] \notin {"idle", "factors", "accounting", "tail", "persist"} \union Awaiting
      /\ pc["chain"] \in TimingOut /\ chain.kind = "timeout" /\ mem \in MemRec
      /\ pc["chain"] \in ChainPoints \ ({"idle", "factors"} \union Awaiting)
  BY <1>1, TimingOutReady
<1>3. /\ call["chain"] \in CallRec /\ call["chain"].state = "done"
      /\ CallSound("timeout", call["chain"], mem, row, accounted)
  BY <1>1, <1>2, AnsweredChain DEF Answered
<1>4. Reply("chain") \in {"ok", "no", "error"} BY <1>3 DEF CallRec, CallSound, Reply
<1>5. CASE Reply("chain") = "ok"
  <2>1. TimedOut([mem EXCEPT !.persist = mem.persist]) BY <1>2, <1>5, SamePersist DEF TimeoutDecided
  <2>2. row.status = "failed" BY <1>3, <1>5 DEF CallSound, CallOf, Reply
  <2>3. mem.persist \in {"absent", "durable", "uncertain"} BY <1>2 DEF MemRec
  <2> QED BY <1>1, <2>1, <2>2, <2>3, TimedOutKeeps
<1>6. CASE Reply("chain") = "no"
  <2>1. ChainReads("timeoutMissed") BY <1>6 DEF TimeoutDecided
  <2> QED BY <1>2, <2>1, ChainReadsKeeps
<1>7. CASE Reply("chain") = "error"
  <2>1. ChainReads("timeoutRead") BY <1>7 DEF TimeoutDecided
  <2> QED BY <1>2, <2>1, ChainReadsKeeps
<1> QED BY <1>4, <1>5, <1>6, <1>7

\* The row was read after a timeout without acknowledgement.
LEMMA TimeoutReadKeeps ==
  ASSUME SessionInv, TimeoutRead
  PROVE  SessionInv'
<1>1. Answered("chain", "timeoutRead") /\ pc["chain"] \in TimingOutHere /\ "chain" \in Workers
  BY DEF TimeoutRead, Answered, TimingOutHere, Workers
<1>2. /\ pc["chain"] \notin {"idle", "factors", "accounting", "tail", "persist"} \union Awaiting
      /\ ~Committing(pc["chain"], chain) /\ mem \in MemRec /\ call["chain"].state = "done"
  BY <1>1, TimingOutReady DEF Answered
<1> DEFINE r == Read("chain")
<1>3. CASE Reply("chain") = "error" \/ ~IsTerminalStatus(r.status)
  <2>1. ChainEnds(mem, TRUE) BY <1>3 DEF TimeoutRead, IsTerminalStatus
  <2> QED BY <1>2, <2>1, ChainLeaves
<1>4. CASE Reply("chain") # "error" /\ r.status = "failed" /\ r.code = "timeout"
  <2>1. TimedOut([mem EXCEPT !.persist = "durable"]) BY <1>4 DEF TimeoutRead
  <2>2. row.status = "failed" BY <1>1, <1>2, <1>4, TerminalRead DEF IsTerminalStatus
  <2> QED BY <1>1, <2>1, <2>2, TimedOutKeeps
<1>5. CASE /\ Reply("chain") # "error" /\ ~(r.status = "failed" /\ r.code = "timeout")
           /\ IsTerminalStatus(r.status)
  <2>1. ChainEnds(SynchronizedTerminal(mem, r), FALSE) BY <1>5 DEF TimeoutRead
  <2> QED BY <1>2, <1>5, <2>1, ChainSynchronizes
<1> QED BY <1>3, <1>4, <1>5

\* The row was read after a timeout that found another row.
LEMMA TimeoutMissedKeeps ==
  ASSUME SessionInv, TimeoutMissed
  PROVE  SessionInv'
<1>1. Answered("chain", "timeoutMissed") /\ pc["chain"] \in TimingOutHere
  BY DEF TimeoutMissed, Answered, TimingOutHere
<1>2. /\ pc["chain"] \notin {"idle", "factors", "accounting", "tail", "persist"} \union Awaiting
      /\ ~Committing(pc["chain"], chain) /\ chain.kind = "timeout"
  BY <1>1, TimingOutReady
<1>3. CASE Reply("chain") # "error" /\ IsTerminalStatus(Read("chain").status)
  <2>1. ChainReads("sync") BY <1>3 DEF TimeoutMissed
  <2> QED BY <1>2, <2>1, ChainReadsKeeps
<1>4. CASE ~(Reply("chain") # "error" /\ IsTerminalStatus(Read("chain").status))
  <2>1. ChainEnds(mem, Reply("chain") = "error") BY <1>4 DEF TimeoutMissed
  <2> QED BY <1>2, <2>1, ChainLeaves
<1> QED BY <1>3, <1>4

\* The timeout of a session that has no object is answered.
LEMMA BareTimeoutKeeps ==
  ASSUME SessionInv, BareTimeout
  PROVE  SessionInv'
<1>1. pc["chain"] \in TimingOutHere BY DEF BareTimeout, Answered, TimingOutHere
<1>2. pc["chain"] \notin {"idle", "factors"} \union Awaiting /\ ~Committing(pc["chain"], chain)
  BY <1>1, TimingOutReady
<1>3. ChainEnds(mem, Reply("chain") = "error") BY DEF BareTimeout
<1> QED BY <1>2, <1>3, ChainLeaves

-----------------------------------------------------------------------------
(* The rest of the process.                                                *)

\* The tail of the saves is reached.
LEMMA TailReachedKeeps ==
  ASSUME SessionInv, TailReached
  PROVE  SessionInv'
<1> DEFINE p == IF pc["chain"] = "commitTail" THEN "commit" ELSE "persist"
<1>1. /\ Shape /\ ObjectSound(mem) /\ RowSound(mem, row)
      /\ ChainSound(pc["chain"], chain, mem, row)
      /\ CallSound(pc["chain"], call["chain"], mem, row, accounted)
      /\ CallSound("idle", call["saver"], mem, row, accounted)
      /\ QueueSound(queue, pc["chain"]) /\ SavesSound(saves, pc["chain"], pc["saver"])
      /\ StartSound(mem, row, queue, saves, pc["chain"], pc["saver"])
      /\ HooksSound(mem, row, accounted, completions) /\ RollbackSound(mem, row, rollback)
  BY Parts DEF TailReached
<1>2. /\ pc["saver"] = "idle" /\ saves # <<>> /\ Head(saves) = "tail" /\ saves' = Tail(saves)
      /\ pc' = [pc EXCEPT !["chain"] = IF @ = "commitTail" THEN "commit" ELSE "persist"]
      /\ UNCHANGED <<row, mem, rollback, reserved, start, queue, chain, call, phase, accounted, completions>>
  BY DEF TailReached
<1>3. pc["chain"] \in {"commitTail", "tail"} BY <1>1, <1>2, SavesShrink DEF SavesSound
<1>4. p \in {"commit", "persist"} /\ (p = "commit" <=> pc["chain"] = "commitTail") OBVIOUS
<1>5. pc'["chain"] = p /\ pc'["saver"] = "idle" /\ pc' \in [Workers -> ChainPoints \union SaverPoints]
  BY <1>1, <1>2 DEF Shape, Workers, ChainPoints, Completing
<1> HIDE DEF p
<1>6. /\ saves' \in Seq(Savers) /\ SavesSound(saves', p, "idle")
      /\ \A i \in DOMAIN saves' : i + 1 \in DOMAIN saves /\ saves'[i] = saves[i + 1]
  BY <1>2, SavesShrink
<1>7. p \in ChainPoints BY <1>4 DEF ChainPoints, Completing
<1>8. Shape' BY <1>1, <1>2, <1>5, <1>6, <1>7 DEF Shape
<1>9. ChainSound(p, chain, mem, row)
  BY <1>1, <1>3, <1>4 DEF ChainSound, Committing, Completing, TimingOut
<1>10. CallSound(p, call["chain"], mem, row, accounted)
  BY <1>1, <1>3, <1>4 DEF CallSound, CallOf, Failing
<1>11. SaverSound("idle", call["saver"], p, chain, mem, row)
  BY <1>1 DEF SaverSound, Saving, Failing, CallSound, CallOf
<1>12. QueueSound(queue, p) BY <1>1, <1>3 DEF QueueSound
<1>13. StartSound(mem, row, queue, saves, pc["chain"], pc["saver"])'
  <2>1. \A i \in DOMAIN saves' : saves'[i] = "start" => start = "saving" BY <1>1, <1>6 DEF StartSound
  <2>2. start = "hooks" => \A i \in DOMAIN saves' : saves'[i] # "start" BY <2>1
  <2> QED BY <1>1, <1>2, <1>3, <1>4, <1>5, <2>1, <2>2 DEF StartSound
<1> QED BY <1>1, <1>2, <1>5, <1>6, <1>8, <1>9, <1>10, <1>11, <1>12, <1>13, Whole

\* A step of neither worker.
LEMMA Elsewhere ==
  ASSUME SessionInv, UNCHANGED <<row, pc, call, chain, accounted, completions>>,
         mem' \in MemRec, ObjectSound(mem'), RowSound(mem', row),
         ChainSound(pc["chain"], chain, mem', row),
         SaverSound(pc["saver"], call["saver"], pc["chain"], chain, mem', row),
         CallSound(pc["chain"], call["chain"], mem', row, accounted),
         CallSound(pc["saver"], call["saver"], mem', row, accounted),
         HooksSound(mem', row, accounted, completions),
         queue' \in Seq(OpRec), QueueSound(queue', pc["chain"]),
         saves' \in Seq(Savers), SavesSound(saves', pc["chain"], pc["saver"]),
         rollback' \in {"none", "registered", "ran", "cleared"}, RollbackSound(mem', row, rollback'),
         start' \in {"new", "hooks", "saving", "saved", "saveError", "done"},
         phase' \in {"open", "stopped", "closed", "saving", "exited", "failedExit"},
         reserved' \in BOOLEAN,
         StartSound(mem, row, queue, saves, pc["chain"], pc["saver"])'
  PROVE  SessionInv'
<1>1. Shape BY Parts
<1>2. Shape' BY <1>1 DEF Shape
<1> QED BY <1>1, <1>2, Whole

\* The object may change in what the invariant does not speak of.
LEMMA SameCourseParts ==
  ASSUME SessionInv, NEW x, SameCourse(mem, x), x.drop = mem.drop, x.depth = mem.depth
  PROVE  /\ x \in MemRec /\ ObjectSound(x) /\ RowSound(x, row)
         /\ ChainSound(pc["chain"], chain, x, row)
         /\ SaverSound(pc["saver"], call["saver"], pc["chain"], chain, x, row)
         /\ CallSound(pc["chain"], call["chain"], x, row, accounted)
         /\ CallSound(pc["saver"], call["saver"], x, row, accounted)
         /\ HooksSound(x, row, accounted, completions)
         /\ \A b : RollbackSound(mem, row, b) => RollbackSound(x, row, b)
<1>1. ObjectSound(x) /\ RowSound(x, row) BY Parts DEF SameCourse, ObjectSound, RowSound, HasFailure
<1>2. ChainSound(pc["chain"], chain, x, row) BY Parts DEF SameCourse, ChainSound
<1>3. SaverSound(pc["saver"], call["saver"], pc["chain"], chain, x, row) BY Parts DEF SameCourse, SaverSound
<1>4. CallSound(pc["chain"], call["chain"], x, row, accounted)
  BY Parts DEF SameCourse, CallSound, HasFailure
<1>5. CallSound(pc["saver"], call["saver"], x, row, accounted)
  BY Parts DEF SameCourse, CallSound, HasFailure
<1>6. HooksSound(x, row, accounted, completions) BY Parts DEF SameCourse, HooksSound
<1>7. \A b : RollbackSound(mem, row, b) => RollbackSound(x, row, b) BY DEF SameCourse, RollbackSound
<1> QED BY <1>1, <1>2, <1>3, <1>4, <1>5, <1>6, <1>7 DEF SameCourse

\* An operation is added to the chain.
LEMMA QueueGrows ==
  ASSUME SessionInv, NEW o \in OpRec, o.expected = "none", ~o.already, o.kind # "none",
         o.kind = "timeout" => o.listed.status \in {"running", "claimable"}
  PROVE  /\ Append(queue, o) \in Seq(OpRec) /\ QueueSound(Append(queue, o), pc["chain"])
         /\ \A i \in DOMAIN Append(queue, o) :
              Append(queue, o)[i] = o \/ (i \in DOMAIN queue /\ Append(queue, o)[i] = queue[i])
<1> DEFINE Q == Append(queue, o)
<1>1. queue \in Seq(OpRec) /\ QueueSound(queue, pc["chain"]) BY Parts DEF Shape
<1>2. /\ Q \in Seq(OpRec) /\ Q # <<>>
      /\ \A i \in DOMAIN Q : Q[i] = o \/ (i \in DOMAIN queue /\ Q[i] = queue[i])
  BY <1>1
<1> HIDE DEF Q
<1>3. QueueSound(Q, pc["chain"]) BY <1>1, <1>2 DEF QueueSound
<1> QED BY <1>2, <1>3 DEF Q

\* An operation that is queued.
LEMMA RequestedOp ==
  ASSUME SessionInv, NEW kind \in Kinds, NEW amount \in Nat
  PROVE  /\ Op(kind, amount) \in OpRec /\ Op(kind, amount).expected = "none" /\ ~Op(kind, amount).already
         /\ Op(kind, amount).kind = kind
<1>1. Absent \in Row BY Parts DEF Absent, Row, Shape, SessionAssumption
<1> DEFINE owns == kind \in {"complete", "fail"}
<1>2. owns \in BOOLEAN OBVIOUS
<1>3. Op(kind, amount) = [NoOp EXCEPT !.kind = kind, !.amount = amount, !.owns = owns] BY DEF Op
<1>4. NoOp \in OpRec /\ NoOp.expected = "none" /\ NoOp.already = FALSE BY <1>1 DEF NoOp, OpRec, Expected
<1> HIDE DEF owns
<1> QED BY <1>2, <1>3, <1>4 DEF OpRec

\* Someone other than the chain asks for a save.
LEMMA SavesAsked ==
  ASSUME SessionInv, NEW entry \in {"start", "timer", "exit"},
         entry = "start" => \A i \in DOMAIN saves : saves[i] # "start"
  PROVE  /\ Append(saves, entry) \in Seq(Savers)
         /\ SavesSound(Append(saves, entry), pc["chain"], pc["saver"])
         /\ \A i \in DOMAIN Append(saves, entry) :
              Append(saves, entry)[i] = entry \/ (i \in DOMAIN saves /\ Append(saves, entry)[i] = saves[i])
<1> DEFINE S == Append(saves, entry)
<1>1. saves \in Seq(Savers) /\ SavesSound(saves, pc["chain"], pc["saver"]) BY Parts DEF Shape
<1>2. /\ S \in Seq(Savers) /\ Len(S) = Len(saves) + 1 /\ DOMAIN S = 1..(Len(saves) + 1)
      /\ S[Len(saves) + 1] = entry /\ \A i \in DOMAIN saves : S[i] = saves[i]
      /\ DOMAIN saves = 1..Len(saves) /\ Len(saves) \in Nat
  BY <1>1 DEF Savers
<1>3. \A i \in DOMAIN S : i \in DOMAIN saves \/ i = Len(saves) + 1 BY <1>2
<1>4. saves # <<>> => 1 \in DOMAIN saves BY <1>1, <1>2
<1> HIDE DEF S
<1>5. pc["saver"] # "idle" => S # <<>> /\ S[1] # "tail" BY <1>1, <1>2, <1>4 DEF SavesSound
<1>6. \A i \in DOMAIN S : S[i] \in {"tail", "timeout"} => i \in DOMAIN saves /\ S[i] = saves[i]
  BY <1>2, <1>3
<1>7. \A i \in DOMAIN S : S[i] = "start" =>
        (i \in DOMAIN saves /\ S[i] = saves[i]) \/ (entry = "start" /\ i = Len(saves) + 1)
  BY <1>2, <1>3
<1>8. \A i, j \in DOMAIN S : S[i] = "start" /\ S[j] = "start" => i = j
  BY <1>1, <1>7 DEF SavesSound
<1>9. SavesSound(S, pc["chain"], pc["saver"]) BY <1>1, <1>5, <1>6, <1>8 DEF SavesSound
<1>10. \A i \in DOMAIN S : S[i] = entry \/ (i \in DOMAIN saves /\ S[i] = saves[i]) BY <1>2, <1>3
<1> QED BY <1>2, <1>9, <1>10 DEF S

\* The session is told to end, at the end of its start or from outside.
LEMMA TerminalKeeps ==
  ASSUME SessionInv, NEW kind \in {"complete", "fail"}, Terminal(mem, kind) \/ UNCHANGED <<mem, queue>>,
         UNCHANGED <<row, pc, call, chain, accounted, completions, reserved, saves, phase>>,
         start \notin {"new", "saving"}, start' = "done",
         rollback' \in {"none", "registered", "ran", "cleared"}, RollbackSound(mem, row, rollback')
  PROVE  SessionInv'
<1>1. /\ Shape /\ QueueSound(queue, pc["chain"]) /\ SavesSound(saves, pc["chain"], pc["saver"])
      /\ StartSound(mem, row, queue, saves, pc["chain"], pc["saver"]) /\ mem \in MemRec
  BY Parts DEF Shape
<1> DEFINE x == [mem EXCEPT !.completion = TRUE, !.cancel = @ \/ mem.depth > 0]
<1>2. SameCourse(mem, x) /\ x.drop = mem.drop /\ x.depth = mem.depth
  <2> DEFINE c == mem.cancel \/ mem.depth > 0
  <2>1. c \in BOOLEAN BY <1>1 DEF MemRec
  <2>2. x = [mem EXCEPT !.completion = TRUE, !.cancel = c] OBVIOUS
  <2> HIDE DEF c, x
  <2> QED BY <1>1, <2>1, <2>2 DEF SameCourse, MemRec
<1>3. SameCourse(mem, mem) BY <1>1 DEF SameCourse
<1>4. \/ mem' = mem /\ queue' = queue
      \/ mem' = x /\ queue' = Append(queue, Op(kind, 0))
  BY DEF Terminal
<1> HIDE DEF x
<1>5. SameCourse(mem, mem') /\ mem'.drop = mem.drop /\ mem'.depth = mem.depth BY <1>2, <1>3, <1>4
<1>6. queue' \in Seq(OpRec) /\ QueueSound(queue', pc["chain"])
  <2>1. kind \in Kinds /\ 0 \in Nat BY DEF Kinds
  <2> DEFINE o == Op(kind, 0)
  <2>2. o \in OpRec /\ o.expected = "none" /\ ~o.already /\ o.kind = kind BY <2>1, RequestedOp
  <2> HIDE DEF o
  <2>3. Append(queue, o) \in Seq(OpRec) /\ QueueSound(Append(queue, o), pc["chain"]) BY <2>2, QueueGrows
  <2> QED BY <1>1, <1>4, <2>3 DEF Shape, o
<1>7. StartSound(mem, row, queue, saves, pc["chain"], pc["saver"])'
  BY <1>1, <1>5 DEF StartSound, SameCourse
<1>8. /\ mem' \in MemRec /\ ObjectSound(mem') /\ RowSound(mem', row)
      /\ ChainSound(pc["chain"], chain, mem', row)
      /\ SaverSound(pc["saver"], call["saver"], pc["chain"], chain, mem', row)
      /\ CallSound(pc["chain"], call["chain"], mem', row, accounted)
      /\ CallSound(pc["saver"], call["saver"], mem', row, accounted)
      /\ HooksSound(mem', row, accounted, completions)
      /\ RollbackSound(mem', row, rollback')
  BY <1>5, SameCourseParts
<1>9. /\ saves' \in Seq(Savers) /\ SavesSound(saves', pc["chain"], pc["saver"]) /\ reserved' \in BOOLEAN
      /\ phase' \in {"open", "stopped", "closed", "saving", "exited", "failedExit"}
      /\ start' \in {"new", "hooks", "saving", "saved", "saveError", "done"}
  BY <1>1 DEF Shape
<1> QED BY <1>6, <1>7, <1>8, <1>9, Elsewhere

\* A step that leaves the object, the start and the rollbacks, and may add work.
LEMMA WorkKeeps ==
  ASSUME SessionInv, NEW x, mem' = x, SameCourse(mem, x), x.drop = mem.drop, x.depth = mem.depth,
         x.dirty \in {mem.dirty, TRUE} \/ start # "saving",
         UNCHANGED <<row, pc, call, chain, accounted, completions, reserved, start>>,
         queue' \in Seq(OpRec), QueueSound(queue', pc["chain"]),
         queue' = queue \/ start = "done" \/
           (start = "hooks" /\ \A i \in DOMAIN queue' : queue'[i].kind = "setDrop"),
         saves' \in Seq(Savers), SavesSound(saves', pc["chain"], pc["saver"]),
         \A i \in DOMAIN saves' : saves'[i] = "start" => \E j \in DOMAIN saves : saves[j] = "start",
         phase' \in {"open", "stopped", "closed", "saving", "exited", "failedExit"},
         rollback' = rollback \/ rollback' = "registered"
  PROVE  SessionInv'
<1>1. /\ Shape /\ StartSound(mem, row, queue, saves, pc["chain"], pc["saver"])
      /\ RollbackSound(mem, row, rollback)
  BY Parts
<1>2. \A i \in DOMAIN saves' : saves'[i] = "start" => start = "saving" BY <1>1 DEF StartSound
<1>3. StartSound(mem, row, queue, saves, pc["chain"], pc["saver"])'
  <2>1. start \in {"new", "hooks"} => \A i \in DOMAIN saves' : saves'[i] # "start" BY <1>2
  <2>2. start \in {"new", "hooks"} => \A i \in DOMAIN queue' : queue'[i].kind = "setDrop"
    BY <1>1 DEF StartSound
  <2> QED BY <1>1, <1>2, <2>1, <2>2 DEF StartSound, SameCourse
<1>4. RollbackSound(mem, row, rollback') BY <1>1 DEF RollbackSound
<1>5. /\ mem' \in MemRec /\ ObjectSound(mem') /\ RowSound(mem', row)
      /\ ChainSound(pc["chain"], chain, mem', row)
      /\ SaverSound(pc["saver"], call["saver"], pc["chain"], chain, mem', row)
      /\ CallSound(pc["chain"], call["chain"], mem', row, accounted)
      /\ CallSound(pc["saver"], call["saver"], mem', row, accounted)
      /\ HooksSound(mem', row, accounted, completions)
      /\ RollbackSound(mem', row, rollback')
  BY <1>4, SameCourseParts
<1>6. /\ rollback' \in {"none", "registered", "ran", "cleared"} /\ reserved' \in BOOLEAN
      /\ start' \in {"new", "hooks", "saving", "saved", "saveError", "done"}
  BY <1>1 DEF Shape
<1> QED BY <1>3, <1>5, <1>6, Elsewhere

\* Requests to a started session.
LEMMA RequestKeeps ==
  ASSUME SessionInv, NEW kind \in {"reward", "penalty", "complete", "fail"}, Request(kind)
  PROVE  SessionInv'
<1>1. start = "done" /\ UNCHANGED <<row, reserved, chain, saves, pc, call, accounted, completions, rollback,
                                    start, phase>>
  BY DEF Request, unchangedByRequest
<1>2. Shape /\ SavesSound(saves, pc["chain"], pc["saver"]) /\ RollbackSound(mem, row, rollback) /\ mem \in MemRec
  BY Parts DEF Shape
<1>3. CASE kind \in {"reward", "penalty"}
  <2> DEFINE o == Op(kind, 1)
  <2>1. queue' = Append(queue, o) /\ mem' = mem BY <1>3 DEF Request
  <2>2. kind \in Kinds /\ 1 \in Nat BY <1>3 DEF Kinds
  <2>3. o \in OpRec /\ o.expected = "none" /\ ~o.already /\ o.kind = kind BY <2>2, RequestedOp
  <2> HIDE DEF o
  <2>4. Append(queue, o) \in Seq(OpRec) /\ QueueSound(Append(queue, o), pc["chain"]) BY <1>3, <2>3, QueueGrows
  <2>5. SameCourse(mem, mem) BY <1>2 DEF SameCourse
  <2> QED BY <1>1, <1>2, <2>1, <2>4, <2>5, WorkKeeps DEF Shape
<1>4. CASE kind \in {"complete", "fail"}
  <2>1. Terminal(mem, kind) BY <1>4 DEF Request
  <2> QED BY <1>1, <1>2, <1>4, <2>1, TerminalKeeps DEF Shape
<1> QED BY <1>3, <1>4

\* A module stores session data.
LEMMA SetSessionDataKeeps ==
  ASSUME SessionInv, SetSessionData
  PROVE  SessionInv'
<1> DEFINE x == LazySaved([mem EXCEPT !.data = @ + 1])
<1>1. /\ mem' = x /\ mem.data < MaxData
      /\ UNCHANGED <<row, reserved, chain, saves, pc, call, accounted, completions, rollback,
                     start, queue, phase>>
  BY DEF SetSessionData, unchangedByRequest
<1>2. /\ Shape /\ SavesSound(saves, pc["chain"], pc["saver"]) /\ QueueSound(queue, pc["chain"])
      /\ mem \in MemRec
  BY Parts DEF Shape
<1>3. SameCourse(mem, x) /\ x.drop = mem.drop /\ x.depth = mem.depth /\ x.dirty = TRUE
  <2> DEFINE d == mem.data + 1
  <2>1. d \in 0..MaxData BY <1>1, <1>2 DEF MemRec, Shape, SessionAssumption
  <2>2. x = LazySaved([mem EXCEPT !.data = d]) OBVIOUS
  <2> HIDE DEF d, x
  <2> QED BY <1>2, <2>1, <2>2 DEF SameCourse, LazySaved, MemRec
<1> HIDE DEF x
<1> QED BY <1>1, <1>2, <1>3, WorkKeeps DEF Shape

\* The save timer fires.
LEMMA SaveTimerKeeps ==
  ASSUME SessionInv, SaveTimer
  PROVE  SessionInv'
<1>1. /\ saves' = Append(saves, "timer")
      /\ UNCHANGED <<row, mem, rollback, reserved, start, queue, chain, pc, call, phase, accounted, completions>>
  BY DEF SaveTimer
<1>2. Shape /\ QueueSound(queue, pc["chain"]) /\ mem \in MemRec BY Parts DEF Shape
<1>3. SameCourse(mem, mem) BY <1>2 DEF SameCourse
<1>4. /\ saves' \in Seq(Savers) /\ SavesSound(saves', pc["chain"], pc["saver"])
      /\ \A i \in DOMAIN saves' : saves'[i] = "start" => \E j \in DOMAIN saves : saves[j] = "start"
  BY <1>1, SavesAsked
<1> QED BY <1>1, <1>2, <1>3, <1>4, WorkKeeps DEF Shape

\* The shutdown saves the sessions.
LEMMA SaveAllSessionsKeeps ==
  ASSUME SessionInv, SaveAllSessions
  PROVE  SessionInv'
<1>1. /\ saves' = saves \/ saves' = Append(saves, "exit")
      /\ phase' \in {"saving", "exited"}
      /\ UNCHANGED <<row, mem, rollback, reserved, start, queue, chain, pc, call, accounted, completions>>
  BY DEF SaveAllSessions, unchangedByShutdown
<1>2. /\ Shape /\ QueueSound(queue, pc["chain"]) /\ SavesSound(saves, pc["chain"], pc["saver"]) /\ mem \in MemRec
  BY Parts DEF Shape
<1>3. SameCourse(mem, mem) BY <1>2 DEF SameCourse
<1>4. /\ saves' \in Seq(Savers) /\ SavesSound(saves', pc["chain"], pc["saver"])
      /\ \A i \in DOMAIN saves' : saves'[i] = "start" => \E j \in DOMAIN saves : saves[j] = "start"
  <2>1. CASE saves' = saves BY <1>2, <2>1 DEF Shape
  <2>2. CASE saves' = Append(saves, "exit") BY <2>2, SavesAsked
  <2> QED BY <1>1, <2>1, <2>2
<1> QED BY <1>1, <1>2, <1>3, <1>4, WorkKeeps DEF Shape

\* The timeout interval lists the row.
LEMMA ProcessSessionTimeoutsKeeps ==
  ASSUME SessionInv, ProcessSessionTimeouts
  PROVE  SessionInv'
<1> DEFINE t == Op("timeout", 0)
           o == [t EXCEPT !.listed = row]
<1>1. /\ start = "done" /\ row.status \notin {"absent", "failed"} /\ queue' = Append(queue, o)
      /\ UNCHANGED <<row, reserved, chain, saves, pc, call, accounted, completions, mem, rollback, start, phase>>
  BY DEF ProcessSessionTimeouts, unchangedByRequest
<1>2. Shape /\ SavesSound(saves, pc["chain"], pc["saver"]) /\ mem \in MemRec BY Parts DEF Shape
<1>3. row \in Row /\ row.status \in {"running", "claimable"} BY <1>1, <1>2 DEF Shape, Row
<1>4. "timeout" \in Kinds /\ 0 \in Nat BY DEF Kinds
<1>5. t \in OpRec /\ t.expected = "none" /\ ~t.already /\ t.kind = "timeout" BY <1>4, RequestedOp
<1> HIDE DEF t
<1>6. o \in OpRec /\ o.expected = "none" /\ ~o.already /\ o.kind = "timeout" /\ o.listed = row
  BY <1>3, <1>5 DEF OpRec
<1> HIDE DEF o
<1>7. queue' \in Seq(OpRec) /\ QueueSound(queue', pc["chain"]) BY <1>1, <1>3, <1>6, QueueGrows
<1>8. SameCourse(mem, mem) BY <1>2 DEF SameCourse
<1> QED BY <1>1, <1>2, <1>7, <1>8, WorkKeeps DEF Shape

\* A SessionStart hook registers its rollback.
LEMMA RegisterStartRollbackKeeps ==
  ASSUME SessionInv, RegisterStartRollback
  PROVE  SessionInv'
<1>1. /\ rollback' = "registered"
      /\ UNCHANGED <<row, mem, reserved, start, queue, chain, saves, pc, call, phase, accounted, completions>>
  BY DEF RegisterStartRollback, unchangedByStart
<1>2. /\ Shape /\ QueueSound(queue, pc["chain"]) /\ SavesSound(saves, pc["chain"], pc["saver"]) /\ mem \in MemRec
  BY Parts DEF Shape
<1>3. SameCourse(mem, mem) BY <1>2 DEF SameCourse
<1> QED BY <1>1, <1>2, <1>3, WorkKeeps DEF Shape

\* A SessionStart hook sets the amount.
LEMMA SetDropAmountKeeps ==
  ASSUME SessionInv, NEW amount \in 0..1, SetDropAmount(amount)
  PROVE  SessionInv'
<1> DEFINE o == Op("setDrop", amount)
<1>1. /\ start = "hooks" /\ queue = <<>> /\ queue' = Append(queue, o)
      /\ UNCHANGED <<row, mem, reserved, start, rollback, chain, saves, pc, call, phase, accounted, completions>>
  BY DEF SetDropAmount, unchangedByStart
<1>2. Shape /\ SavesSound(saves, pc["chain"], pc["saver"]) /\ mem \in MemRec BY Parts DEF Shape
<1>3. "setDrop" \in Kinds /\ amount \in Nat BY DEF Kinds
<1>4. o \in OpRec /\ o.expected = "none" /\ ~o.already /\ o.kind = "setDrop" BY <1>3, RequestedOp
<1> HIDE DEF o
<1>5. /\ queue' \in Seq(OpRec) /\ QueueSound(queue', pc["chain"])
      /\ \A i \in DOMAIN queue' : queue'[i] = o \/ (i \in DOMAIN queue /\ queue'[i] = queue[i])
  BY <1>1, <1>4, QueueGrows
<1>6. \A i \in DOMAIN queue' : queue'[i].kind = "setDrop" BY <1>1, <1>4, <1>5
<1>7. SameCourse(mem, mem) BY <1>2 DEF SameCourse
<1> QED BY <1>1, <1>2, <1>5, <1>6, <1>7, WorkKeeps DEF Shape

\* The shutdown closes the reward chains.
LEMMA ShutdownKeeps ==
  ASSUME SessionInv, StopRewardOperations \/ CloseRewardOperations
  PROVE  SessionInv'
<1>1. /\ phase' \in {"stopped", "closed"}
      /\ UNCHANGED <<row, mem, rollback, reserved, start, queue, chain, saves, pc, call, accounted, completions>>
  BY DEF StopRewardOperations, CloseRewardOperations, unchangedByShutdown
<1>2. /\ Shape /\ QueueSound(queue, pc["chain"]) /\ SavesSound(saves, pc["chain"], pc["saver"]) /\ mem \in MemRec
  BY Parts DEF Shape
<1>3. SameCourse(mem, mem) BY <1>2 DEF SameCourse
<1> QED BY <1>1, <1>2, <1>3, WorkKeeps DEF Shape

\* The end of a start.
LEMMA StartEndsKeeps ==
  ASSUME SessionInv, StartFails \/ Activated \/ ActivationFails
  PROVE  SessionInv'
<1>1. Shape /\ RollbackSound(mem, row, rollback) /\ StartSound(mem, row, queue, saves, pc["chain"], pc["saver"])
  BY Parts
<1>2. CASE StartFails
  <2>1. /\ start = "hooks" /\ start' = "done" /\ Terminal(mem, "fail")
        /\ UNCHANGED <<row, pc, call, chain, accounted, completions, reserved, saves, phase, rollback>>
    BY <1>2 DEF StartFails, unchangedByStart
  <2> QED BY <1>1, <2>1, TerminalKeeps DEF Shape
<1>3. CASE Activated
  <2>1. /\ start = "saved" /\ start' = "done"
        /\ rollback' = IF rollback = "registered" THEN "cleared" ELSE rollback
        /\ Terminal(mem, "complete") \/ UNCHANGED <<mem, queue>>
        /\ UNCHANGED <<row, pc, call, chain, accounted, completions, reserved, saves, phase>>
    BY <1>3 DEF Activated, unchangedByStart
  <2>2. row # Absent BY <1>1, <2>1 DEF StartSound
  <2>3. rollback' \in {"none", "registered", "ran", "cleared"} /\ RollbackSound(mem, row, rollback')
    BY <1>1, <2>1, <2>2 DEF Shape, RollbackSound
  <2> QED BY <2>1, <2>3, TerminalKeeps
<1>4. CASE ActivationFails
  <2>1. /\ start = "saveError" /\ start' = "done"
        /\ Terminal(mem, "fail") \/ UNCHANGED <<mem, queue>>
        /\ UNCHANGED <<row, pc, call, chain, accounted, completions, reserved, saves, phase, rollback>>
    BY <1>4 DEF ActivationFails, unchangedByStart
  <2> QED BY <1>1, <2>1, TerminalKeeps DEF Shape
<1> QED BY <1>2, <1>3, <1>4

\* The object before its first save.
LEMMA StatusChanges ==
  ASSUME SessionInv, NEW x, x \in MemRec, x.drop = mem.drop, x.persist = mem.persist, x.failure = mem.failure,
         x.expected = mem.expected, x.already = mem.already, x.failed = mem.failed,
         x.disposed = mem.disposed, x.depth = mem.depth,
         x.status \in {"starting", "running"}, mem.status \in {"unknown", "starting"},
         ~mem.disposed, mem.failure = "none", start \in {"new", "hooks"}, pc["chain"] = "idle"
  PROVE  /\ ObjectSound(x) /\ RowSound(x, row)
         /\ ChainSound(pc["chain"], chain, x, row)
         /\ SaverSound(pc["saver"], call["saver"], pc["chain"], chain, x, row)
         /\ CallSound(pc["chain"], call["chain"], x, row, accounted)
         /\ CallSound(pc["saver"], call["saver"], x, row, accounted)
         /\ HooksSound(x, row, accounted, completions) /\ RollbackSound(x, row, rollback)
<1>1. /\ ObjectSound(mem) /\ RowSound(mem, row)
      /\ ChainSound("idle", chain, mem, row)
      /\ SaverSound("idle", call["saver"], "idle", chain, mem, row)
      /\ CallSound("idle", call["chain"], mem, row, accounted)
      /\ CallSound("idle", call["saver"], mem, row, accounted)
      /\ HooksSound(mem, row, accounted, completions) /\ RollbackSound(mem, row, rollback)
      /\ pc["saver"] = "idle" /\ row = Absent /\ mem.persist = "absent"
      /\ completions \in 0..1
  <2>1. pc["saver"] = "idle" /\ row = Absent /\ mem.persist = "absent" BY Parts DEF StartSound
  <2> QED BY <2>1, Parts DEF Shape
<1>2. ObjectSound(x) BY <1>1 DEF ObjectSound
<1>3. RowSound(x, row) BY <1>1 DEF RowSound, Absent
<1>4. ChainSound("idle", chain, x, row)
  BY <1>1 DEF ChainSound, Committing, Completing
<1>5. SaverSound("idle", call["saver"], "idle", chain, x, row)
  BY <1>1 DEF SaverSound, CallSound, CallOf, Saving, Failing
<1>6. /\ CallSound("idle", call["chain"], x, row, accounted)
      /\ CallSound("idle", call["saver"], x, row, accounted)
  BY <1>1 DEF CallSound, CallOf, Failing
<1>7. HooksSound(x, row, accounted, completions) BY <1>1 DEF HooksSound, Absent
<1>8. RollbackSound(x, row, rollback) BY <1>1 DEF RollbackSound
<1> QED BY <1>1, <1>2, <1>3, <1>4, <1>5, <1>6, <1>7, <1>8

\* A session starts.
LEMMA StartSessionKeeps ==
  ASSUME SessionInv, StartSession
  PROVE  SessionInv'
<1> DEFINE x == [mem EXCEPT !.status = "starting"]
<1>1. /\ start = "new" /\ start' = "hooks" /\ reserved' = TRUE /\ mem' = x
      /\ UNCHANGED <<row, chain, pc, call, phase, accounted, completions, rollback, queue, saves>>
  BY DEF StartSession, unchangedByStart
<1>2. /\ Shape /\ mem \in MemRec /\ StartSound(mem, row, queue, saves, pc["chain"], pc["saver"])
      /\ QueueSound(queue, pc["chain"]) /\ SavesSound(saves, pc["chain"], pc["saver"])
  BY Parts DEF Shape
<1>3. mem.status = "unknown" /\ ~mem.disposed /\ mem.failure = "none" /\ queue = <<>> /\ pc["chain"] = "idle"
  BY <1>1, <1>2 DEF StartSound
<1>4. /\ x \in MemRec /\ x.status = "starting" /\ x.drop = mem.drop /\ x.persist = mem.persist
      /\ x.failure = mem.failure /\ x.expected = mem.expected /\ x.already = mem.already
      /\ x.failed = mem.failed /\ x.disposed = mem.disposed /\ x.depth = mem.depth
  BY <1>2 DEF MemRec, FaucetSessionStatus
<1> HIDE DEF x
<1>5. /\ ObjectSound(x) /\ RowSound(x, row)
      /\ ChainSound(pc["chain"], chain, x, row)
      /\ SaverSound(pc["saver"], call["saver"], pc["chain"], chain, x, row)
      /\ CallSound(pc["chain"], call["chain"], x, row, accounted)
      /\ CallSound(pc["saver"], call["saver"], x, row, accounted)
      /\ HooksSound(x, row, accounted, completions) /\ RollbackSound(x, row, rollback)
  BY <1>1, <1>3, <1>4, StatusChanges
<1>6. StartSound(mem, row, queue, saves, pc["chain"], pc["saver"])'
  BY <1>1, <1>2, <1>3, <1>4 DEF StartSound
<1> QED BY <1>1, <1>2, <1>4, <1>5, <1>6, Elsewhere DEF Shape

\* The hooks of the start are done and the session is saved.
LEMMA ActivateKeeps ==
  ASSUME SessionInv, Activate
  PROVE  SessionInv'
<1>1. /\ start = "hooks" /\ queue = <<>>
      /\ UNCHANGED <<row, chain, pc, call, phase, accounted, completions, rollback, reserved, queue>>
  BY DEF Activate, unchangedByStart
<1>2. /\ Shape /\ mem \in MemRec /\ StartSound(mem, row, queue, saves, pc["chain"], pc["saver"])
      /\ QueueSound(queue, pc["chain"]) /\ SavesSound(saves, pc["chain"], pc["saver"]) /\ ObjectSound(mem)
      /\ RollbackSound(mem, row, rollback)
  BY Parts DEF Shape
<1>3. pc["chain"] = "idle" BY <1>1, <1>2 DEF QueueSound
<1>4. CASE mem.status = "failed"
  <2>1. start' = "done" /\ UNCHANGED <<mem, saves>> BY <1>4 DEF Activate
  <2> QED BY <1>1, <1>2, <2>1, TerminalKeeps DEF Shape
<1>5. CASE mem.status # "failed"
  <2> DEFINE x == [mem EXCEPT !.status = "running", !.dirty = TRUE]
  <2>1. start' = "saving" /\ mem' = x /\ saves' = Append(saves, "start") BY <1>5 DEF Activate
  <2>2. mem.status = "starting" /\ \A i \in DOMAIN saves : saves[i] # "start"
    BY <1>1, <1>2, <1>5 DEF StartSound
  <2>3. ~mem.disposed /\ mem.failure = "none" BY <1>2, <2>2 DEF ObjectSound
  <2>4. /\ x \in MemRec /\ x.status = "running" /\ x.drop = mem.drop /\ x.persist = mem.persist
        /\ x.failure = mem.failure /\ x.expected = mem.expected /\ x.already = mem.already
        /\ x.failed = mem.failed /\ x.disposed = mem.disposed /\ x.depth = mem.depth /\ x.dirty = TRUE
    BY <1>2 DEF MemRec, FaucetSessionStatus
  <2> HIDE DEF x
  <2>5. /\ ObjectSound(x) /\ RowSound(x, row)
        /\ ChainSound(pc["chain"], chain, x, row)
        /\ SaverSound(pc["saver"], call["saver"], pc["chain"], chain, x, row)
        /\ CallSound(pc["chain"], call["chain"], x, row, accounted)
        /\ CallSound(pc["saver"], call["saver"], x, row, accounted)
        /\ HooksSound(x, row, accounted, completions) /\ RollbackSound(x, row, rollback)
    BY <1>1, <1>3, <2>2, <2>3, <2>4, StatusChanges
  <2>6. saves' \in Seq(Savers) /\ SavesSound(saves', pc["chain"], pc["saver"])
    BY <2>1, <2>2, SavesAsked
  <2>7. StartSound(mem, row, queue, saves, pc["chain"], pc["saver"])'
    BY <1>1, <1>2, <1>3, <2>1, <2>3, <2>4 DEF StartSound
  <2> QED BY <1>1, <1>2, <2>1, <2>4, <2>5, <2>6, <2>7, Elsewhere DEF Shape
<1> QED BY <1>4, <1>5

\* A crash or the end of the process, and the restored session.
LEMMA RestartKeeps ==
  ASSUME SessionInv, Restart
  PROVE  SessionInv'
<1>1. /\ Shape /\ row \in Row /\ RowSound(mem, row) /\ HooksSound(mem, row, accounted, completions)
      /\ RollbackSound(mem, row, rollback)
  BY Parts DEF Shape
<1> DEFINE live == [NewSession EXCEPT !.status = "running", !.drop = row.drop, !.data = row.data,
                                      !.persist = "durable"]
           dead == [NewSession EXCEPT !.disposed = TRUE]
<1>2. /\ start' = "done" /\ mem' = IF row.status = "running" THEN live ELSE dead
      /\ reserved' = (row.status = "running")
      /\ rollback' = IF rollback = "registered" THEN "none" ELSE rollback
      /\ queue' = <<>> /\ chain' = NoOp /\ saves' = <<>>
      /\ pc' = [w \in Workers |-> "idle"] /\ call' = [w \in Workers |-> NoCall]
      /\ phase' = "open" /\ accounted' = Norm(row.drop) /\ completions' = 0 /\ row' = row
  BY DEF Restart, Norm
<1>3. Absent \in Row BY <1>1 DEF Absent, Row, Shape, SessionAssumption
<1>4. NewSession \in MemRec
  BY <1>1, <1>3 DEF NewSession, MemRec, FaucetSessionStatus, Code, Amount, Expected, Shape, SessionAssumption
<1>5. /\ NoOp \in OpRec /\ NoCall \in CallRec /\ NoOp.expected = "none" /\ NoOp.already = FALSE
      /\ NoCall.op = "none" /\ NoCall.state = "none"
  BY <1>3 DEF NoOp, OpRec, NoCall, CallRec, Expected
<1>6. /\ NewSession.status = "unknown" /\ NewSession.failure = "none" /\ NewSession.already = FALSE
      /\ NewSession.disposed = FALSE /\ NewSession.depth = 0 /\ NewSession.persist = "absent"
      /\ NewSession.drop = -1
  BY DEF NewSession
<1>7. /\ live \in MemRec /\ live.status = "running" /\ live.failure = "none" /\ live.already = FALSE
      /\ live.disposed = FALSE /\ live.depth = 0 /\ live.persist = "durable" /\ live.drop = row.drop
  BY <1>1, <1>4, <1>6 DEF MemRec, Row, FaucetSessionStatus, Amount
<1>8. /\ dead \in MemRec /\ dead.status = "unknown" /\ dead.failure = "none" /\ dead.already = FALSE
      /\ dead.disposed = TRUE /\ dead.depth = 0 /\ dead.persist = "absent"
  BY <1>4, <1>6 DEF MemRec
<1> HIDE DEF live, dead
<1>9. /\ mem' \in MemRec /\ mem'.failure = "none" /\ mem'.already = FALSE /\ mem'.depth = 0
      /\ \/ /\ row.status = "running" /\ mem'.status = "running" /\ mem'.disposed = FALSE
            /\ mem'.persist = "durable" /\ mem'.drop = row.drop
         \/ row.status # "running" /\ mem'.status = "unknown" /\ mem'.disposed = TRUE
  BY <1>2, <1>7, <1>8
<1>10. /\ pc'["chain"] = "idle" /\ pc'["saver"] = "idle" /\ call'["chain"] = NoCall /\ call'["saver"] = NoCall
       /\ pc' \in [Workers -> ChainPoints \union SaverPoints] /\ call' \in [Workers -> CallRec]
  BY <1>2, <1>5 DEF Workers, ChainPoints
<1>11. accounted' \in Nat /\ (row.status = "claimable" => row.drop = accounted')
  BY <1>1, <1>2 DEF Row, Norm, HooksSound, Shape
<1>12. Shape'
  <2>1. "idle" \in ChainPoints /\ "idle" \in SaverPoints BY DEF ChainPoints, SaverPoints
  <2>2. /\ queue' \in Seq(OpRec) /\ saves' \in Seq(Savers) /\ reserved' \in BOOLEAN
        /\ rollback' \in {"none", "registered", "ran", "cleared"} /\ chain' \in OpRec
        /\ SessionAssumption
    BY <1>1, <1>2, <1>5 DEF Shape
  <2>3. row' \in Row /\ start' = "done" /\ phase' = "open" /\ completions' = 0 BY <1>1, <1>2
  <2> QED BY <1>9, <1>10, <1>11, <2>1, <2>2, <2>3 DEF Shape
<1>13. ObjectSound(mem') BY <1>9 DEF ObjectSound
<1>14. RowSound(mem', row') BY <1>1, <1>2, <1>9 DEF RowSound
<1>15. ChainSound(pc'["chain"], chain', mem', row')
  BY <1>2, <1>5, <1>9, <1>10 DEF ChainSound, Committing, Completing, TimingOut
<1>16. SaverSound(pc'["saver"], call'["saver"], pc'["chain"], chain', mem', row')
  BY <1>5, <1>10 DEF SaverSound, Saving, Failing
<1>17. /\ CallSound(pc'["chain"], call'["chain"], mem', row', accounted')
       /\ CallSound(pc'["saver"], call'["saver"], mem', row', accounted')
  BY <1>5, <1>10 DEF CallSound, CallOf, Failing
<1>18. QueueSound(queue', pc'["chain"]) /\ SavesSound(saves', pc'["chain"], pc'["saver"])
  BY <1>2, <1>10 DEF QueueSound, SavesSound
<1>19. StartSound(mem, row, queue, saves, pc["chain"], pc["saver"])'
  <2>1. start' = "done" /\ (reserved' <=> ~mem'.disposed) /\ (mem'.status = "unknown" => mem'.disposed)
    BY <1>2, <1>9
  <2>2. \A i \in DOMAIN saves' : saves'[i] # "start" BY <1>2
  <2> QED BY <2>1, <2>2 DEF StartSound
<1>20. HooksSound(mem', row', accounted', completions') BY <1>2, <1>9, <1>11 DEF HooksSound
<1>21. RollbackSound(mem', row', rollback') BY <1>1, <1>2, <1>9 DEF RollbackSound
<1> QED BY <1>12, <1>13, <1>14, <1>15, <1>16, <1>17, <1>18, <1>19, <1>20, <1>21, Whole

-----------------------------------------------------------------------------
(* The theorems.                                                           *)

\* The invariant is inductive.
LEMMA NextKeeps ==
  ASSUME SessionInv, [Next]_vars
  PROVE  SessionInv'
<1>1. CASE PersistSession BY <1>1, PersistSessionKeeps
<1>2. CASE TailReached BY <1>2, TailReachedKeeps
<1>3. ASSUME NEW w \in Workers, Worker(w) PROVE SessionInv'
  BY <1>3, DbExecuteKeeps, FailReconcileKeeps, FailTransitionKeeps, FailReadKeeps DEF Worker
<1>4. CASE Saver
  BY <1>4, ReconcileKeeps, InsertedKeeps, InsertReadKeeps, UpdatedKeeps, UpdateSyncKeeps DEF Saver
<1>5. CASE Chain
  BY <1>5, RunRewardOperationKeeps, FailHooksEndKeeps, PersistFailureKeeps, CompleteHooksEndKeeps,
    CommitKeeps, CommittedKeeps, CommitReadKeeps, SyncReadKeeps, FactorHooksEndKeeps,
    AccountingHooksEndKeeps, TimeoutSavedKeeps, TimeoutDecidedKeeps, TimeoutReadKeeps,
    TimeoutMissedKeeps, BareTimeoutKeeps
  DEF Chain
<1>6. CASE Start \/ StartResumes
  BY <1>6, StartSessionKeeps, RegisterStartRollbackKeeps, StartEndsKeeps, ActivateKeeps, SetDropAmountKeeps
  DEF Start, StartResumes
<1>7. CASE Shutdown BY <1>7, ShutdownKeeps, SaveAllSessionsKeeps DEF Shutdown
<1>8. CASE SetSessionData \/ SaveTimer \/ ProcessSessionTimeouts
  BY <1>8, SetSessionDataKeeps, SaveTimerKeeps, ProcessSessionTimeoutsKeeps
<1>9. ASSUME NEW kind \in {"reward", "penalty", "complete", "fail"}, Request(kind) PROVE SessionInv'
  BY <1>9, RequestKeeps
<1>10. CASE Restart BY <1>10, RestartKeeps
<1>11. CASE UNCHANGED vars
  <2>1. UNCHANGED <<row, mem, rollback, reserved, start, queue, chain, saves, pc, call, phase,
                    accounted, completions>>
    BY <1>11 DEF vars
  <2>2. Shape' BY <2>1, Parts DEF Shape
  <2>3. StartSound(mem, row, queue, saves, pc["chain"], pc["saver"])' BY <2>1, Parts DEF StartSound
  <2> QED BY <2>1, <2>2, <2>3, Parts, Whole
<1> QED BY <1>1, <1>2, <1>3, <1>4, <1>5, <1>6, <1>7, <1>8, <1>9, <1>10, <1>11 DEF Next

\* The invariant holds in every reachable state.
THEOREM SessionInvariance == SessionAssumption /\ Spec => []SessionInv
<1>1. SessionAssumption /\ Init => SessionInv BY InitSound
<1>2. SessionInv /\ [Next]_vars => SessionInv' BY NextKeeps
<1> QED BY <1>1, <1>2, PTL DEF Spec

\* What the row, the object and the queues hold is what the code stores there.
THEOREM TypeCorrect == SessionAssumption /\ Spec => []TypeOK
<1>1. SessionInv => TypeOK
  <2> SUFFICES ASSUME SessionInv PROVE TypeOK OBVIOUS
  <2>1. Shape /\ QueueSound(queue, pc["chain"]) BY Parts
  <2>2. ASSUME NEW i \in DOMAIN queue
        PROVE  queue[i].kind \in {"reward", "setDrop", "penalty", "complete", "fail", "timeout"}
    <3>1. queue[i] \in OpRec BY <2>1 DEF Shape
    <3> QED BY <2>1, <3>1 DEF OpRec, Kinds, QueueSound
  <2>3. ASSUME NEW i \in DOMAIN saves PROVE saves[i] \in {"start", "timer", "exit", "timeout", "tail"}
    <3>1. saves[i] \in Savers BY <2>1 DEF Shape
    <3> QED BY <3>1 DEF Savers
  <2> QED BY <2>1, <2>2, <2>3 DEF TypeOK, Shape, MemRec
<1> QED BY <1>1, SessionInvariance, PTL

\* A running row always holds its admission reservation, also while its failure or its
\* completion is being made durable.
THEOREM RunningHoldsReservation == SessionAssumption /\ Spec => []RunningIsReserved
<1>1. SessionInv => RunningIsReserved
  <2> SUFFICES ASSUME SessionInv, row.status = "running" PROVE reserved BY DEF RunningIsReserved
  <2>1. RowSound(mem, row) /\ StartSound(mem, row, queue, saves, pc["chain"], pc["saver"]) BY Parts
  <2> QED BY <2>1 DEF RowSound, StartSound, Absent
<1> QED BY <1>1, SessionInvariance, PTL

\* A start rollback that ran gave back the voucher of a session that is not payable, in spite of
\* inserts whose outcome was unknown; one that was dropped belongs to a session that is stored.
THEOREM RollbacksFitTheRow == SessionAssumption /\ Spec => [](RollbackIsSafe /\ RollbackNotLost)
<1>1. SessionInv => RollbackIsSafe /\ RollbackNotLost
  BY Parts DEF RollbackSound, RollbackIsSafe, RollbackNotLost
<1> QED BY <1>1, SessionInvariance, PTL

\* An object that reached its end agrees with the row.
THEOREM EndAgreesWithRow == SessionAssumption /\ Spec => []DisposedAgrees
<1>1. SessionInv => DisposedAgrees
  <2> SUFFICES ASSUME SessionInv, mem.disposed, mem.status # "unknown"
               PROVE  \/ row.status = mem.status /\ (row.status = "claimable" => row.drop = mem.drop)
                      \/ row = Absent /\ mem.status = "failed"
                      \/ row.code = "timeout" /\ mem.status = "claimable"
    BY DEF DisposedAgrees
  <2>1. ObjectSound(mem) /\ RowSound(mem, row) BY Parts
  <2> QED BY <2>1 DEF ObjectSound, RowSound, TimedOutRow
<1> QED BY <1>1, SessionInvariance, PTL

\* What becomes claimable is what the SessionRewarded hooks were told, less the penalties.
THEOREM AmountIsAccounted == SessionAssumption /\ Spec => []ClaimableIsAccounted
<1>1. SessionInv => ClaimableIsAccounted BY Parts DEF HooksSound, ClaimableIsAccounted
<1> QED BY <1>1, SessionInvariance, PTL

\* The SessionComplete hooks of a session run at most once in a process.
THEOREM HooksRunOnce == SessionAssumption /\ Spec => []CompletionHooksOnce
<1>1. SessionInv => CompletionHooksOnce BY Parts DEF Shape, CompletionHooksOnce
<1> QED BY <1>1, SessionInvariance, PTL

\* The steps of the chain leave the row to the database.
LEMMA ChainLeavesRow ==
  ASSUME NEW m, NEW l, NEW code, NEW hooks, NEW reject
  PROVE  /\ ChainEnds(m, reject) => row' = row
         /\ FinishFailedSession(m, l, code, hooks) => row' = row
         /\ FinishSession(m, l) => row' = row
         /\ ApplyReward(m, l) => row' = row
         /\ RewardReturns(m) => row' = row
<1>1. ASSUME NEW n, NEW r PROVE ChainEnds(n, r) => row' = row BY Zenon DEF ChainEnds
<1>2. ASSUME NEW n, NEW k, NEW at, NEW c PROVE ChainGoes(n, k, at, c) => row' = row
  BY Zenon DEF ChainGoes
<1>3. ASSUME NEW n, NEW k, NEW w, NEW h PROVE FinishFailedSession(n, k, w, h) => row' = row
  <2> SUFFICES ASSUME FinishFailedSession(n, k, w, h) PROVE row' = row OBVIOUS
  <2>1. CASE n.disposed BY <2>1 DEF FinishFailedSession
  <2>2. CASE ~n.disposed BY <2>2, <1>2 DEF FinishFailedSession
  <2> QED BY <2>1, <2>2
<1>4. ASSUME NEW n, NEW k PROVE FinishSession(n, k) => row' = row
  BY <1>2, <1>3 DEF FinishSession
<1>5. ASSUME NEW n, NEW k PROVE ApplyReward(n, k) => row' = row
  BY <1>1, <1>2, <1>4 DEF ApplyReward
<1>6. RewardReturns(m) => row' = row BY <1>1, <1>4 DEF RewardReturns
<1> QED BY <1>1, <1>3, <1>4, <1>5, <1>6

\* The saves leave the row to the database as well.
LEMMA SavesLeaveRow ==
  ASSUME NEW m, NEW at, NEW c, NEW d, NEW ok, NEW w
  PROVE  /\ SaverCalls(m, at, c) => row' = row
         /\ SaverEnds(m, ok) => row' = row
         /\ SaveThrows(m) => row' = row
         /\ Insert(m, d) => row' = row
         /\ PersistFailedEnds(w, m, ok) => row' = row
         /\ PersistFailedCalls(w, m, at, c) => row' = row
         /\ PersistFailedSession(w) => row' = row
<1>1. ASSUME NEW n, NEW a, NEW b PROVE SaverCalls(n, a, b) => row' = row BY Zenon DEF SaverCalls
<1>2. ASSUME NEW n, NEW a PROVE SaverEnds(n, a) => row' = row BY Zenon DEF SaverEnds
<1>3. ASSUME NEW n, NEW a PROVE PersistFailedEnds(w, n, a) => row' = row BY Zenon DEF PersistFailedEnds
<1>4. ASSUME NEW n, NEW a, NEW b PROVE PersistFailedCalls(w, n, a, b) => row' = row
  BY Zenon DEF PersistFailedCalls
<1>5. PersistFailedSession(w) => row' = row BY <1>3, <1>4 DEF PersistFailedSession
<1>6. SaveThrows(m) => row' = row BY <1>2 DEF SaveThrows
<1>7. Insert(m, d) => row' = row BY <1>1 DEF Insert
<1> QED BY <1>1, <1>2, <1>3, <1>4, <1>5, <1>6, <1>7

\* Only the database writes the row.
LEMMA OnlyDatabaseWrites ==
  ASSUME SessionInv, [Next]_vars, \A w \in Workers : ~DbExecute(w)
  PROVE  row' = row
<1> DEFINE replies == {"ok", "no", "error"}
<1>0. ASSUME NEW w \in Workers, call[w].state = "done" PROVE Reply(w) \in replies
  BY <1>0, Parts DEF Shape, CallRec, CallSound, Reply, Workers
<1>1. CASE PersistSession
  <2>1. ASSUME NEW m, NEW d PROVE Insert(m, d) => row' = row BY SavesLeaveRow
  <2>2. ASSUME NEW m, NEW at, NEW c PROVE SaverCalls(m, at, c) => row' = row BY SavesLeaveRow
  <2>3. ASSUME NEW m, NEW ok PROVE SaverEnds(m, ok) => row' = row BY SavesLeaveRow
  <2>4. PersistRunningSession => row' = row
    <3> SUFFICES ASSUME PersistRunningSession PROVE row' = row OBVIOUS
    <3> DEFINE m == [mem EXCEPT !.dirty = FALSE]
    <3>1. CASE ~mem.dirty \/ mem.disposed \/ mem.status # "running"
      BY <3>1, <2>3 DEF PersistRunningSession
    <3>2. ASSUME ~(~mem.dirty \/ mem.disposed \/ mem.status # "running") PROVE row' = row
      <4>1. m.persist \in {"absent", "uncertain", "durable"} BY Parts DEF Shape, MemRec
      <4>2. CASE m.persist = "absent" BY <3>2, <4>2, <2>1 DEF PersistRunningSession
      <4>3. CASE m.persist = "uncertain" BY <3>2, <4>3, <2>2 DEF PersistRunningSession
      <4>4. CASE m.persist = "durable" BY <3>2, <4>4, <2>2 DEF PersistRunningSession
      <4> QED BY <4>1, <4>2, <4>3, <4>4
    <3> QED BY <3>1, <3>2
  <2>5. PersistFailedSession("saver") => row' = row BY SavesLeaveRow
  <2>6. PersistFailedEnds("saver", mem, TRUE) => row' = row BY SavesLeaveRow
  <2> QED BY <1>1, <2>4, <2>5, <2>6 DEF PersistSession
<1>2. CASE TailReached BY <1>2 DEF TailReached
<1>3. ASSUME NEW w \in Workers, Worker(w) PROVE row' = row
  <2>1. ASSUME NEW m, NEW ok PROVE PersistFailedEnds(w, m, ok) => row' = row BY SavesLeaveRow
  <2>2. ASSUME NEW m, NEW at, NEW c PROVE PersistFailedCalls(w, m, at, c) => row' = row BY SavesLeaveRow
  <2>3. CASE FailReconcile(w) BY <2>3, <2>1, <2>2 DEF FailReconcile
  <2>4. CASE FailTransition(w) BY <2>4, <2>1, <2>2 DEF FailTransition
  <2>5. CASE FailRead(w) BY <2>5, <2>1 DEF FailRead
  <2> QED BY <1>3, <2>3, <2>4, <2>5 DEF Worker
<1>4. CASE Saver
  <2>1. ASSUME NEW m, NEW d PROVE Insert(m, d) => row' = row BY SavesLeaveRow
  <2>2. ASSUME NEW m, NEW at, NEW c PROVE SaverCalls(m, at, c) => row' = row BY SavesLeaveRow
  <2>3. ASSUME NEW m, NEW ok PROVE SaverEnds(m, ok) => row' = row BY SavesLeaveRow
  <2>4. ASSUME NEW m PROVE SaveThrows(m) => row' = row BY SavesLeaveRow
  <2>5. CASE Reconcile BY <2>5, <2>1, <2>3, <2>4 DEF Reconcile
  <2>6. CASE Inserted BY <2>6, <2>2, <2>3 DEF Inserted
  <2>7. CASE InsertRead BY <2>7, <2>3, <2>4 DEF InsertRead
  <2>8. CASE Updated
    <3>1. CASE Reply("saver") = "ok" BY <2>8, <3>1, <2>3 DEF Updated
    <3>2. CASE Reply("saver") = "no" BY <2>8, <3>2, <2>2 DEF Updated
    <3>3. Reply("saver") \in replies BY <2>8, <1>0 DEF Updated, Answered, Workers
    <3>4. CASE Reply("saver") = "error" BY <2>8, <3>4, <2>4 DEF Updated
    <3> QED BY <3>1, <3>2, <3>3, <3>4
  <2>9. CASE UpdateSync BY <2>9, <2>3, <2>4 DEF UpdateSync
  <2> QED BY <1>4, <2>5, <2>6, <2>7, <2>8, <2>9 DEF Saver
<1>5. CASE Chain
  <2>1. ASSUME NEW m, NEW reject PROVE ChainEnds(m, reject) => row' = row BY ChainLeavesRow
  <2>2. ASSUME NEW m, NEW l, NEW code, NEW hooks PROVE FinishFailedSession(m, l, code, hooks) => row' = row
    BY ChainLeavesRow
  <2>3. ASSUME NEW m, NEW l PROVE FinishSession(m, l) => row' = row BY ChainLeavesRow
  <2>4. ASSUME NEW m, NEW l PROVE ApplyReward(m, l) => row' = row BY ChainLeavesRow
  <2>5. ASSUME NEW m PROVE RewardReturns(m) => row' = row BY ChainLeavesRow
  <2>6. ASSUME NEW m, NEW l, NEW at, NEW c PROVE ChainGoes(m, l, at, c) => row' = row
    BY Zenon DEF ChainGoes
  <2>7. ASSUME NEW at PROVE ChainReads(at) => row' = row BY <2>6 DEF ChainReads
  <2>8. CompletionFails => row' = row BY <2>2 DEF CompletionFails
  <2>9. ASSUME NEW m PROVE TimedOut(m) => row' = row BY <2>2 DEF TimedOut
  <2>10. CASE RunRewardOperation
    <3> DEFINE l == Head(queue)
    <3>1. ApplyPenalty(mem, l) => row' = row BY <2>1 DEF ApplyPenalty
    <3>2. ApplyDropAmount(mem, l) => row' = row BY <2>1, <2>4 DEF ApplyDropAmount
    <3>3. ApplyTimeout(mem, l) => row' = row BY <2>1, <2>6 DEF ApplyTimeout
    <3>4. l.kind \in Kinds BY <2>10, ReadyNext DEF RunRewardOperation
    <3>5. CASE l.kind = "reward" BY <2>10, <3>5, <2>4 DEF RunRewardOperation
    <3>6. CASE l.kind = "setDrop" BY <2>10, <3>6, <3>2 DEF RunRewardOperation
    <3>7. CASE l.kind = "penalty" BY <2>10, <3>7, <3>1 DEF RunRewardOperation
    <3>8. CASE l.kind = "timeout" BY <2>10, <3>8, <3>3 DEF RunRewardOperation
    <3>9. CASE l.kind = "fail" BY <2>10, <3>9, <2>2 DEF RunRewardOperation
    <3>10. CASE l.kind = "complete" BY <2>10, <3>10, <2>3, <2>4 DEF RunRewardOperation
    <3> QED BY <3>4, <3>5, <3>6, <3>7, <3>8, <3>9, <3>10 DEF Kinds
  <2>11. CASE FailHooksEnd BY <2>11, <2>6 DEF FailHooksEnd
  <2>12. CASE PersistFailure BY <2>12, SavesLeaveRow DEF PersistFailure
  <2>13. CASE CompleteHooksEnd BY <2>13, <2>6, <2>8 DEF CompleteHooksEnd
  <2>14. CASE Commit BY <2>14, <2>6 DEF Commit
  <2>15. CASE Committed
    <3>1. Reply("chain") \in replies BY <2>15, <1>0 DEF Committed, Answered, Workers
    <3>2. CASE Reply("chain") = "ok" BY <2>15, <3>2, <2>1 DEF Committed
    <3>3. CASE Reply("chain") = "no" BY <2>15, <3>3, <2>7 DEF Committed
    <3>4. CASE Reply("chain") = "error" BY <2>15, <3>4, <2>7 DEF Committed
    <3> QED BY <3>1, <3>2, <3>3, <3>4
  <2>16. CASE CommitRead BY <2>16, <2>1, <2>8 DEF CommitRead
  <2>17. CASE SyncRead BY <2>17, <2>1, <2>8 DEF SyncRead
  <2>18. CASE FactorHooksEnd BY <2>18, <2>1, <2>2, <2>3, <2>5, <2>6 DEF FactorHooksEnd
  <2>19. CASE AccountingHooksEnd BY <2>19, <2>2, <2>3, <2>5 DEF AccountingHooksEnd
  <2>20. CASE TimeoutSaved BY <2>20, <2>1, <2>6 DEF TimeoutSaved
  <2>21. CASE TimeoutDecided
    <3>1. Reply("chain") \in replies BY <2>21, <1>0 DEF TimeoutDecided, Answered, Workers
    <3>2. CASE Reply("chain") = "ok" BY <2>21, <3>2, <2>9 DEF TimeoutDecided
    <3>3. CASE Reply("chain") = "no" BY <2>21, <3>3, <2>7 DEF TimeoutDecided
    <3>4. CASE Reply("chain") = "error" BY <2>21, <3>4, <2>7 DEF TimeoutDecided
    <3> QED BY <3>1, <3>2, <3>3, <3>4
  <2>22. CASE TimeoutRead BY <2>22, <2>1, <2>9 DEF TimeoutRead
  <2>23. CASE TimeoutMissed BY <2>23, <2>1, <2>7 DEF TimeoutMissed
  <2>24. CASE BareTimeout BY <2>24, <2>1 DEF BareTimeout
  <2> QED BY <1>5, <2>10, <2>11, <2>12, <2>13, <2>14, <2>15, <2>16, <2>17, <2>18, <2>19, <2>20,
             <2>21, <2>22, <2>23, <2>24 DEF Chain
<1>6. CASE Start \/ StartResumes
  BY <1>6 DEF Start, StartResumes, StartSession, RegisterStartRollback, StartFails, Activate, Activated,
    ActivationFails, SetDropAmount, unchangedByStart
<1>7. CASE Shutdown
  BY <1>7 DEF Shutdown, StopRewardOperations, CloseRewardOperations, SaveAllSessions, unchangedByShutdown
<1>8. CASE SetSessionData \/ SaveTimer \/ ProcessSessionTimeouts
  BY <1>8 DEF SetSessionData, SaveTimer, ProcessSessionTimeouts, unchangedByRequest
<1>9. ASSUME NEW kind \in {"reward", "penalty", "complete", "fail"}, Request(kind) PROVE row' = row
  BY <1>9 DEF Request, unchangedByRequest
<1>10. CASE Restart BY <1>10 DEF Restart
<1>11. CASE UNCHANGED vars BY <1>11 DEF vars
<1> QED BY <1>1, <1>2, <1>3, <1>4, <1>5, <1>6, <1>7, <1>8, <1>9, <1>10, <1>11 DEF Next

\* A terminal row changes only by the timeout of an unclaimed claimable session: no late
\* save, retried transition or restart reopens or rewrites it.
THEOREM TerminalStays == SessionAssumption /\ Spec => [][TerminalIsFinalStep]_vars
<1>1. SessionInv /\ [Next]_vars => [TerminalIsFinalStep]_vars
  <2> SUFFICES ASSUME SessionInv, [Next]_vars PROVE TerminalIsFinalStep OBVIOUS
  <2>1. ASSUME NEW w \in Workers, DbExecute(w) PROVE TerminalIsFinalStep
    <3>1. Onward(row, row') BY <2>1, DbExecuteKeeps
    <3> QED BY <3>1 DEF Onward, TerminalIsFinalStep, TimedOutRow, IsTerminalStatus
  <2>2. CASE \A w \in Workers : ~DbExecute(w) BY <2>2, OnlyDatabaseWrites DEF TerminalIsFinalStep
  <2> QED BY <2>1, <2>2
<1> QED BY <1>1, SessionInvariance, PTL DEF Spec

-----------------------------------------------------------------------------
(* A clean exit.  The object is clean when it runs and nothing changed     *)
(* since its last save began; what CleanInv adds to SessionInv is where a  *)
(* clean object is stored: in the row, or in the save that is under way.   *)
(* An object whose first save failed may be newer than its row, but then   *)
(* its failure is queued (Doomed), and the shutdown waits for the queue.   *)

Clean(m) == m.status = "running" /\ ~m.dirty
Doomed == \E i \in DOMAIN queue : queue[i].kind = "fail"
Ended == {"saving", "exited", "failedExit"}

\* Where a clean object is stored, and what the saver's reply is worth.
CleanSound ==
  /\ Clean(mem) /\ ~Doomed =>
       /\ pc["saver"] \in {"insert", "insertRead"} => mem.snapshot = StoreData(mem)
       /\ pc["saver"] = "update" => call["saver"].data = StoreData(mem)
       /\ pc["saver"] \notin {"insert", "insertRead", "update"} /\ row.status = "running" =>
            row = StoreData(mem)
  /\ pc["saver"] = "insert" => call["saver"].data = mem.snapshot
  /\ call["saver"].state = "done" /\ row.status = "running" => row = call["saver"].read

\* A session that has not ended has no reason for its end.
CodeSound ==
  /\ row.status = "running" => row.code = "none"
  /\ mem.status \in Open => mem.code = "none"
  /\ pc["saver"] \in {"reconcile", "insert", "update"} => call["saver"].data.code = "none"

\* A running object whose insert is not acknowledged starts, or is going to fail.
InsertSound ==
  /\ mem.status = "running" /\ mem.persist # "durable" => start \in {"saving", "saveError"} \/ Doomed
  /\ mem.status = "running" /\ pc["saver"] = "reconcile" => Doomed
  /\ start = "saving" =>
       /\ queue = <<>> /\ saves # <<>> /\ Head(saves) = "start"
       /\ pc["saver"] \in {"idle", "insert", "insertRead"}
       /\ pc["saver"] = "idle" => mem.status = "running" /\ mem.dirty /\ mem.persist = "absent"
  /\ start \in {"saved", "saveError"} => queue = <<>> /\ pc["saver"] = "idle"
  /\ start # "done" => ~mem.completion

\* The running operation of the chain.
OperationSound ==
  /\ pc["chain"] # "idle" /\ Head(queue).kind = "fail" => mem.status # "running"
  /\ mem.status = "running" => \A i \in DOMAIN queue : queue[i].kind # "setDrop"
  /\ mem.failure = "preparing" => pc["chain"] = "failHooks"

\* The registry, and the shutdown.
ExitSound ==
  /\ registered => mem.status \notin {"unknown", "starting"}
  /\ ~registered => mem.disposed \/ (row = Absent /\ pc["saver"] \notin Saving /\ mem.status # "running")
  /\ phase \in {"closed"} \union Ended => start \in {"new", "done"}
  /\ phase = "saving" => queue = <<>>
  /\ \A i \in DOMAIN saves : saves[i] = "exit" => phase \in Ended
  /\ pc["saver"] \in Saving /\ Head(saves) = "exit" =>
       mem.disposed \/ (mem.status = "running" /\ (mem.dirty => pc["saver"] = "updateSync"))
  /\ CleanExitKeepsSession

CleanInv == CleanSound /\ CodeSound /\ InsertSound /\ OperationSound /\ ExitSound

\* What an operation of the chain makes of the object.
Course(m) ==
  /\ m \in MemRec /\ m.snapshot = mem.snapshot
  /\ m.status = "running" =>
       /\ mem.status = "running" /\ m.persist \in {mem.persist, "durable"}
       /\ m.failure = "none" /\ ~m.disposed
       /\ m.dirty \/ (~mem.dirty /\ StoreData(m) = StoreData(mem))
  /\ m.completion => mem.completion \/ start = "done"
  /\ m.status \in {"unknown", "starting"} => mem.status \in {"unknown", "starting"}
  /\ m.status \in Open => mem.status \in Open /\ m.code = mem.code
  /\ mem.disposed => m.disposed
Ongoing == SessionInv /\ SessionInv' /\ CleanInv /\ Up /\ queue # <<>>
FailureShows(m) == Head(queue).kind = "fail" => m.status # "running"

\* Every step of the chain.
LEMMA ChainClean ==
  ASSUME Ongoing, row' = row, start' = start, phase' = phase,
         pc'["saver"] = pc["saver"], call'["saver"] = call["saver"],
         registered' => registered, registered => registered' \/ mem'.disposed,
         queue' = queue \/ (queue' = Tail(queue) /\ pc'["chain"] = "idle"),
         saves' = saves \/ saves' = Append(saves, "tail") \/ saves' = Append(saves, "timeout"),
         NEW m, mem' = m, m.snapshot = mem.snapshot, m.completion => mem.completion \/ start = "done",
         m.status = "running" =>
           /\ mem.status = "running" /\ m.persist \in {mem.persist, "durable"}
           /\ m.dirty \/ (~mem.dirty /\ StoreData(m) = StoreData(mem)),
         m.status \in {"unknown", "starting"} => mem.status \in {"unknown", "starting"},
         m.status \in Open => mem.status \in Open /\ m.code = mem.code,
         mem.disposed => m.disposed, m.failure = "preparing" => pc'["chain"] = "failHooks",
         FailureShows(m)
  PROVE  CleanInv'
<1>1. /\ CleanSound /\ CodeSound /\ InsertSound /\ OperationSound /\ ExitSound /\ phase \notin Ended
      /\ start \notin {"saving", "saved", "saveError"}
      /\ queue \in Seq(OpRec) /\ saves \in Seq(Savers) /\ phase \in {"open", "stopped", "closed"}
      /\ SavesSound(saves, pc["chain"], pc["saver"])
  BY Parts DEF Ongoing, CleanInv, InsertSound, ExitSound, Up, Ended, Shape
<1>2. ASSUME m.status = "running", Doomed PROVE Doomed'
  <2>1. PICK i \in DOMAIN queue : queue[i].kind = "fail" BY <1>2 DEF Doomed
  <2>2. CASE queue' = queue BY <2>1, <2>2 DEF Doomed
  <2>3. CASE queue' = Tail(queue)
    <3>1. i # 1 BY <1>2, <2>1 DEF FailureShows
    <3>2. i - 1 \in DOMAIN Tail(queue) /\ Tail(queue)[i - 1] = queue[i] BY <1>1, <2>1, <3>1 DEF Ongoing
    <3> QED BY <2>1, <2>3, <3>2 DEF Doomed
  <2> QED BY <2>2, <2>3
<1>3. CleanSound'
  <2>1. ASSUME Clean(m), ~Doomed' PROVE Clean(mem) /\ ~Doomed /\ StoreData(m) = StoreData(mem)
    BY <1>2, <2>1 DEF Clean
  <2>2. ASSUME Clean(m), ~Doomed'
        PROVE  /\ pc["saver"] \in {"insert", "insertRead"} => m.snapshot = StoreData(m)
               /\ pc["saver"] = "update" => call["saver"].data = StoreData(m)
               /\ pc["saver"] \notin {"insert", "insertRead", "update"} /\ row.status = "running" =>
                    row = StoreData(m)
    BY <1>1, <2>1, <2>2 DEF CleanSound
  <2>3. /\ pc["saver"] = "insert" => call["saver"].data = m.snapshot
        /\ call["saver"].state = "done" /\ row.status = "running" => row = call["saver"].read
    BY <1>1 DEF CleanSound
  <2> QED BY <2>2, <2>3 DEF CleanSound
<1>c. CodeSound' BY <1>1 DEF CodeSound
<1>4. InsertSound' BY <1>1, <1>2 DEF InsertSound
<1>5. OperationSound'
  <2>1. ASSUME m.status = "running", NEW i \in DOMAIN queue' PROVE queue'[i].kind # "setDrop"
    <3>1. CASE queue' = queue BY <1>1, <2>1, <3>1 DEF OperationSound
    <3>2. CASE queue' = Tail(queue)
      <4>1. i + 1 \in DOMAIN queue /\ Tail(queue)[i] = queue[i + 1] BY <1>1, <2>1, <3>2 DEF Ongoing
      <4> QED BY <1>1, <2>1, <3>2, <4>1 DEF OperationSound
    <3> QED BY <3>1, <3>2
  <2>2. pc'["chain"] # "idle" => Head(queue') = Head(queue) OBVIOUS
  <2> QED BY <2>1, <2>2 DEF OperationSound, FailureShows
<1>6. ExitSound'
  <2>1. \A i \in DOMAIN saves : saves[i] # "exit" BY <1>1 DEF ExitSound
  <2>2. \A i \in DOMAIN saves' : saves'[i] # "exit"
    <3>1. ASSUME NEW a \in {"tail", "timeout"}, NEW i \in DOMAIN Append(saves, a)
          PROVE  Append(saves, a)[i] # "exit"
      BY <1>1, <2>1, <3>1
    <3> QED BY <2>1, <3>1
  <2>3. ~(pc["saver"] \in Saving /\ Head(saves') = "exit")
    <3> SUFFICES ASSUME pc["saver"] \in Saving PROVE Head(saves') # "exit" OBVIOUS
    <3>1. saves # <<>> BY <1>1 DEF SavesSound, Saving
    <3>2. saves' # <<>> /\ 1 \in DOMAIN saves' /\ Head(saves') = saves'[1] BY <1>1, <3>1
    <3> QED BY <2>2, <3>2
  <2>4. phase' \notin Ended BY <1>1
  <2>5. ~registered' => m.disposed \/ (row = Absent /\ pc["saver"] \notin Saving /\ m.status # "running")
    BY <1>1 DEF ExitSound
  <2>6. CleanExitKeepsSession' BY <2>4 DEF CleanExitKeepsSession, Ended
  <2> QED BY <1>1, <2>2, <2>3, <2>4, <2>5, <2>6 DEF ExitSound
<1> QED BY <1>3, <1>c, <1>4, <1>5, <1>6 DEF CleanInv

\* The running operation goes on.
LEMMA ChainGoesClean ==
  ASSUME Ongoing, NEW m, NEW l, NEW at \in ChainPoints \ {"idle"}, NEW c, ChainGoes(m, l, at, c),
         saves' = saves \/ saves' = Append(saves, "tail") \/ saves' = Append(saves, "timeout"),
         Course(m), FailureShows(m), m.failure = "preparing" => at = "failHooks"
  PROVE  CleanInv'
<1>1. pc' = [pc EXCEPT !["chain"] = at] /\ call' = [call EXCEPT !["chain"] = c] BY DEF ChainGoes, Goto
<1>2. pc'["saver"] = pc["saver"] /\ call'["saver"] = call["saver"] /\ pc'["chain"] = at
  BY <1>1, Parts DEF Ongoing, Shape, Workers
<1>3. mem' = m /\ row' = row /\ start' = start /\ phase' = phase /\ registered' = registered /\ queue' = queue
  BY DEF ChainGoes
<1> QED BY <1>2, <1>3, ChainClean DEF Course

\* It ends.
LEMMA EndOperationClean ==
  ASSUME Ongoing, NEW m, NEW reject, EndOperation(m, reject), Course(m), FailureShows(m),
         m.failure # "preparing", row' = row, start' = start, phase' = phase, saves' = saves
  PROVE  CleanInv'
<1> DEFINE kept == m.completion /\ ~(chain.owns /\ ~m.disposed /\ (reject \/ chain.kind = "timeout"))
           n == [m EXCEPT !.completion = kept]
<1>1. /\ mem' = n /\ registered' = (registered /\ ~n.disposed) /\ queue' = Tail(queue)
      /\ pc' = [pc EXCEPT !["chain"] = "idle"] /\ call' = [call EXCEPT !["chain"] = NoCall]
  BY DEF EndOperation, Release, Goto
<1>2. pc'["saver"] = pc["saver"] /\ call'["saver"] = call["saver"] /\ pc'["chain"] = "idle"
  BY <1>1, Parts DEF Ongoing, Shape, Workers
<1> DEFINE same(x) == /\ x.status = m.status /\ x.snapshot = m.snapshot /\ x.persist = m.persist
                      /\ x.dirty = m.dirty /\ x.drop = m.drop /\ x.data = m.data /\ x.code = m.code
                      /\ x.failure = m.failure /\ x.disposed = m.disposed
<1>3. same(n) /\ n.completion = kept BY DEF Course, MemRec
<1>4. StoreData(n) = StoreData(m) BY <1>3 DEF StoreData
<1>5. n.completion => mem.completion \/ start = "done" BY <1>3 DEF Course
<1> HIDE DEF n
<1>6. n.status = "running" => /\ mem.status = "running" /\ n.persist \in {mem.persist, "durable"}
                              /\ n.dirty \/ (~mem.dirty /\ StoreData(n) = StoreData(mem))
  BY <1>3, <1>4 DEF Course
<1>7. FailureShows(n) BY <1>3 DEF FailureShows
<1>8. /\ n.snapshot = mem.snapshot /\ n.failure # "preparing" /\ (mem.disposed => n.disposed)
      /\ n.status \in {"unknown", "starting"} => mem.status \in {"unknown", "starting"}
      /\ n.status \in Open => mem.status \in Open /\ n.code = mem.code
  BY <1>3 DEF Course
<1> QED BY <1>1, <1>2, <1>5, <1>6, <1>7, <1>8, ChainClean

\* The session stops to run.
LEMMA ChainGoesEnds ==
  ASSUME Ongoing, NEW m, NEW l, NEW at \in ChainPoints \ {"idle"}, NEW c, ChainGoes(m, l, at, c),
         saves' = saves \/ saves' = Append(saves, "tail") \/ saves' = Append(saves, "timeout"),
         m.status \notin {"unknown", "starting", "running"}, m.snapshot = mem.snapshot,
         m.completion => mem.completion \/ start = "done", mem.disposed => m.disposed,
         m.failure = "preparing" => at = "failHooks"
  PROVE  CleanInv'
<1>1. pc' = [pc EXCEPT !["chain"] = at] /\ call' = [call EXCEPT !["chain"] = c] BY DEF ChainGoes, Goto
<1>2. pc'["saver"] = pc["saver"] /\ call'["saver"] = call["saver"] /\ pc'["chain"] = at
  BY <1>1, Parts DEF Ongoing, Shape, Workers
<1>3. mem' = m /\ row' = row /\ start' = start /\ phase' = phase /\ registered' = registered /\ queue' = queue
  BY DEF ChainGoes
<1> QED BY <1>2, <1>3, ChainClean DEF FailureShows, Open

\* finishFailedSession: a session that can still fail stops to run.
LEMMA FinishFailedClean ==
  ASSUME Ongoing, NEW m, NEW l, NEW code, NEW hooks, FinishFailedSession(m, l, code, hooks), Course(m),
         m.failure # "preparing"
  PROVE  CleanInv'
<1> DEFINE expected == IF l.expected # "none" THEN l.expected
                       ELSE IF m.status = "committing" THEN "running" ELSE m.status
           failing == [m EXCEPT !.failure = "preparing", !.code = code, !.status = "failed", !.dirty = TRUE]
           locals == [l EXCEPT !.expected = expected]
           pending == [failing EXCEPT !.failure = "pending", !.expected = expected,
                                      !.already = l.already, !.failed = StoreData(failing)]
<1>1. {"tail", "failHooks"} \subseteq ChainPoints \ {"idle"} BY DEF ChainPoints
<1>2. CASE m.disposed
  <2>1. EndOperation(m, l.reject) /\ row' = row /\ start' = start /\ phase' = phase /\ saves' = saves
    BY <1>2 DEF FinishFailedSession
  <2>2. FailureShows(m) BY <1>2 DEF Course, FailureShows
  <2> QED BY <2>1, <2>2, EndOperationClean
<1>3. CASE ~m.disposed /\ m.failure # "none"
  <2>1. ChainGoes(m, l, "tail", NoCall) /\ saves' = Append(saves, "tail")
    BY <1>3 DEF FinishFailedSession
  <2>2. FailureShows(m) BY <1>3 DEF Course, FailureShows
  <2> QED BY <1>1, <2>1, <2>2, ChainGoesClean
<1>4. CASE ~m.disposed /\ m.failure = "none"
  <2>1. \/ ChainGoes(failing, locals, "failHooks", NoCall) /\ saves' = saves
        \/ ChainGoes(pending, locals, "tail", NoCall) /\ saves' = Append(saves, "tail")
    BY <1>4 DEF FinishFailedSession
  <2>2. /\ failing.status = "failed" /\ failing.snapshot = m.snapshot /\ failing.completion = m.completion
        /\ failing.disposed = m.disposed
    BY DEF Course, MemRec
  <2>3. /\ pending.status = "failed" /\ pending.snapshot = m.snapshot /\ pending.completion = m.completion
        /\ pending.disposed = m.disposed /\ pending.failure = "pending"
    BY DEF Course, MemRec
  <2> HIDE DEF failing, pending, locals
  <2>4. CASE ChainGoes(failing, locals, "failHooks", NoCall) /\ saves' = saves
    BY <1>1, <2>2, <2>4, ChainGoesEnds DEF Course, FailureShows
  <2>5. CASE ChainGoes(pending, locals, "tail", NoCall) /\ saves' = Append(saves, "tail")
    BY <1>1, <2>3, <2>5, ChainGoesEnds DEF Course, FailureShows
  <2> QED BY <2>1, <2>4, <2>5
<1> QED BY <1>2, <1>3, <1>4

\* The object as it is; one of its running sessions has not failed.
LEMMA SameCourseClean ==
  ASSUME Ongoing
  PROVE  /\ Course(mem) /\ mem \in MemRec
         /\ pc["chain"] # "failHooks" => mem.failure # "preparing"
         /\ pc["chain"] # "idle" => FailureShows(mem)
         /\ chain \in OpRec /\ Head(queue) \in OpRec
         /\ MaxDropAmount \in Nat
<1>1. /\ Shape /\ ObjectSound(mem) /\ OperationSound BY Parts DEF Ongoing, CleanInv
<1>2. mem.status = "running" => mem.failure = "none" /\ ~mem.disposed BY <1>1 DEF ObjectSound
<1>3. mem \in MemRec /\ mem.dirty \in BOOLEAN BY <1>1 DEF Shape, MemRec
<1>4. Course(mem) BY <1>2, <1>3 DEF Course
<1>5. queue # <<>> BY DEF Ongoing
<1>6. Head(queue) \in OpRec BY <1>1, <1>5 DEF Shape
<1> QED BY <1>1, <1>3, <1>4, <1>6 DEF Shape, OperationSound, FailureShows, SessionAssumption

\* An operation ends without another effect.
LEMMA ChainEndsClean ==
  ASSUME Ongoing, NEW m, NEW reject, ChainEnds(m, reject), Course(m), FailureShows(m),
         m.failure # "preparing"
  PROVE  CleanInv'
BY EndOperationClean DEF ChainEnds

\* The object reached its end, as the row says.
LEMMA SynchronizedClean ==
  ASSUME Ongoing, NEW r \in Row, IsTerminalStatus(r.status), NEW reject,
         ChainEnds(SynchronizedTerminal(mem, r), reject)
  PROVE  CleanInv'
<1> DEFINE m == SynchronizedTerminal(mem, r)
<1>1. mem \in MemRec BY SameCourseClean
<1>2. m \in MemRec /\ m.failure = "complete" /\ m.disposed = TRUE /\ m.status = r.status
  BY <1>1, SynchronizedFields
<1>3. m.snapshot = mem.snapshot /\ m.completion = mem.completion BY <1>1 DEF SynchronizedTerminal, MemRec
<1> HIDE DEF m
<1>4. Course(m) /\ FailureShows(m) BY <1>2, <1>3 DEF Course, FailureShows, IsTerminalStatus, Open
<1> QED BY <1>2, <1>4, ChainEndsClean DEF m

\* finishSession: the session fails, or its completion begins.
LEMMA FinishSessionClean ==
  ASSUME Ongoing, NEW m, NEW l, FinishSession(m, l), Course(m), m.failure # "preparing"
  PROVE  CleanInv'
<1>1. CASE m.status # "running"
  <2>1. EndOperation(m, l.reject) /\ row' = row /\ start' = start /\ phase' = phase /\ saves' = saves
    BY <1>1 DEF FinishSession
  <2> QED BY <1>1, <2>1, EndOperationClean DEF FailureShows
<1>2. CASE m.status = "running" /\ m.drop < MinDropAmount
  <2>1. FinishFailedSession(m, l, "low", TRUE) BY <1>2 DEF FinishSession
  <2> QED BY <2>1, FinishFailedClean
<1>3. CASE m.status = "running" /\ ~(m.drop < MinDropAmount)
  <2> DEFINE n == [m EXCEPT !.status = "committing", !.dirty = TRUE]
  <2>1. ChainGoes(n, l, "completing", NoCall) /\ saves' = saves BY <1>3 DEF FinishSession
  <2>2. /\ n.status = "committing" /\ n.snapshot = m.snapshot /\ n.completion = m.completion
        /\ n.disposed = m.disposed /\ n.failure = m.failure
    BY DEF Course, MemRec
  <2> HIDE DEF n
  <2> QED BY <2>1, <2>2, ChainGoesEnds DEF Course, ChainPoints, Completing
<1> QED BY <1>1, <1>2, <1>3

\* n is m with what a save does not store, or it is dirty.
Changed(n, m) ==
  /\ n.status = m.status /\ n.code = m.code /\ n.snapshot = m.snapshot /\ n.persist = m.persist
  /\ n.completion => m.completion \/ start = "done"
  /\ n.failure = m.failure /\ n.disposed = m.disposed
  /\ n.dirty \/ (n.dirty = m.dirty /\ StoreData(n) = StoreData(m))

\* The operation goes on with an object that may have become dirty.
LEMMA ChangedClean ==
  ASSUME Ongoing, NEW m, Course(m), FailureShows(m), NEW n, Changed(n, m), NEW l,
         NEW at \in ChainPoints \ {"idle"}, NEW c, ChainGoes(n, l, at, c), m.failure # "preparing",
         saves' = saves \/ saves' = Append(saves, "tail") \/ saves' = Append(saves, "timeout")
  PROVE  CleanInv'
<1>1. pc' = [pc EXCEPT !["chain"] = at] /\ call' = [call EXCEPT !["chain"] = c] BY DEF ChainGoes, Goto
<1>2. pc'["saver"] = pc["saver"] /\ call'["saver"] = call["saver"] /\ pc'["chain"] = at
  BY <1>1, Parts DEF Ongoing, Shape, Workers
<1>3. mem' = n /\ row' = row /\ start' = start /\ phase' = phase /\ registered' = registered /\ queue' = queue
  BY DEF ChainGoes
<1>4. n.status = "running" => /\ mem.status = "running" /\ n.persist \in {mem.persist, "durable"}
                              /\ n.dirty \/ (~mem.dirty /\ StoreData(n) = StoreData(mem))
  BY DEF Course, Changed
<1>5. /\ n.snapshot = mem.snapshot /\ n.failure # "preparing" /\ (mem.disposed => n.disposed)
      /\ n.status \in {"unknown", "starting"} => mem.status \in {"unknown", "starting"}
      /\ n.status \in Open => mem.status \in Open /\ n.code = mem.code
      /\ n.completion => mem.completion \/ start = "done"
      /\ FailureShows(n)
  BY DEF Course, Changed, FailureShows
<1> QED BY <1>2, <1>3, <1>4, <1>5, ChainClean

\* applyReward up to its first hooks.
LEMMA ApplyRewardClean ==
  ASSUME Ongoing, NEW m, NEW l, ApplyReward(m, l), Course(m), m.failure # "preparing", FailureShows(m)
  PROVE  CleanInv'
<1>1. CASE (~CanStartReward(m) \/ l.amount = 0) /\ l.default
  <2>1. FinishSession(m, l) BY <1>1 DEF ApplyReward
  <2> QED BY <2>1, FinishSessionClean
<1>2. CASE (~CanStartReward(m) \/ l.amount = 0) /\ ~l.default
  <2>1. ChainEnds(m, FALSE) BY <1>2 DEF ApplyReward
  <2> QED BY <2>1, ChainEndsClean
<1>3. CASE ~(~CanStartReward(m) \/ l.amount = 0)
  <2> DEFINE n == [m EXCEPT !.depth = @ + 1]
  <2>1. ChainGoes(n, l, "factors", NoCall) /\ saves' = saves BY <1>3 DEF ApplyReward
  <2>2. /\ n.status = m.status /\ n.snapshot = m.snapshot /\ n.completion = m.completion
        /\ n.disposed = m.disposed /\ n.failure = m.failure /\ n.persist = m.persist
        /\ n.dirty = m.dirty /\ n.drop = m.drop /\ n.data = m.data /\ n.code = m.code
    BY DEF Course, MemRec
  <2>3. StoreData(n) = StoreData(m) BY <2>2 DEF StoreData
  <2> HIDE DEF n
  <2>4. Changed(n, m) BY <2>2, <2>3 DEF Changed
  <2> QED BY <2>1, <2>2, <2>4, ChangedClean DEF FailureShows, ChainPoints
<1> QED BY <1>1, <1>2, <1>3

\* A reward returns; the default reward goes on to the completion.
LEMMA RewardReturnsClean ==
  ASSUME Ongoing, NEW m, RewardReturns(m), Course(m), m.failure # "preparing", FailureShows(m)
  PROVE  CleanInv'
<1>1. CASE chain.default BY <1>1, FinishSessionClean DEF RewardReturns
<1>2. CASE ~chain.default BY <1>2, ChainEndsClean DEF RewardReturns
<1> QED BY <1>1, <1>2

\* The chain takes its next operation.
LEMMA RunRewardOperationClean ==
  ASSUME Ongoing, RunRewardOperation
  PROVE  CleanInv'
<1> DEFINE l == Head(queue)
<1>1. pc["chain"] = "idle" BY DEF RunRewardOperation
<1>2. /\ Course(mem) /\ mem \in MemRec /\ mem.failure # "preparing" /\ l \in OpRec
  BY <1>1, SameCourseClean
<1>3. l.kind \in Kinds BY <1>1, ReadyNext DEF Ongoing
<1>4. ASSUME l.kind # "fail", NEW m PROVE FailureShows(m) BY <1>4 DEF FailureShows
<1>5. CASE l.kind = "reward" BY <1>2, <1>4, <1>5, ApplyRewardClean DEF RunRewardOperation
<1>6. CASE l.kind = "setDrop"
  <2> DEFINE n == [mem EXCEPT !.drop = 0]
             d == [LazySaved(mem) EXCEPT !.drop = 0]
  <2>1. mem.status # "running"
    <3>1. OperationSound /\ 1 \in DOMAIN queue /\ queue[1] = l
      BY Parts DEF Ongoing, CleanInv, Shape
    <3> QED BY <3>1, <1>6 DEF OperationSound
  <2>2. ApplyDropAmount(mem, l) BY <1>6 DEF RunRewardOperation
  <2>3. CASE ChainEnds(mem, FALSE) BY <1>2, <1>4, <1>6, <2>3, ChainEndsClean
  <2>4. CASE ApplyReward(n, l)
    <3>1. n \in MemRec /\ n.failure = mem.failure /\ n.status = mem.status /\ n.snapshot = mem.snapshot
          /\ n.completion = mem.completion /\ n.disposed = mem.disposed /\ n.code = mem.code
      BY <1>2 DEF MemRec, Amount
    <3> HIDE DEF n
    <3>2. Course(n) BY <3>1, <2>1 DEF Course
    <3> QED BY <1>2, <1>4, <1>6, <2>4, <3>1, <3>2, ApplyRewardClean
  <2>5. CASE EndOperation(d, FALSE) /\ UNCHANGED <<row, saves, start, phase>>
    <3>1. d \in MemRec /\ d.failure = mem.failure /\ d.status = mem.status /\ d.snapshot = mem.snapshot
          /\ d.completion = mem.completion /\ d.disposed = mem.disposed /\ d.code = mem.code
      BY <1>2 DEF MemRec, Amount, LazySaved
    <3> HIDE DEF d
    <3>2. Course(d) BY <3>1, <2>1 DEF Course
    <3> QED BY <1>2, <1>4, <1>6, <2>5, <3>1, <3>2, EndOperationClean
  <2> QED BY <2>2, <2>3, <2>4, <2>5 DEF ApplyDropAmount
<1>7. CASE l.kind = "penalty"
  <2> DEFINE drop == IF mem.drop = -1 THEN 0 ELSE mem.drop
             amount == IF l.amount > drop THEN drop ELSE l.amount
             d == [LazySaved(mem) EXCEPT !.drop = drop - amount]
  <2>1. ApplyPenalty(mem, l) BY <1>7 DEF RunRewardOperation
  <2>2. CASE ChainEnds(mem, FALSE) BY <1>2, <1>4, <1>7, <2>2, ChainEndsClean
  <2>3. CASE EndOperation(d, FALSE) /\ UNCHANGED <<row, saves, start, phase>>
    <3>1. drop - amount \in Nat BY <1>2 DEF MemRec, Amount, OpRec
    <3>2. d \in MemRec /\ d.failure = mem.failure /\ d.status = mem.status /\ d.snapshot = mem.snapshot
          /\ d.completion = mem.completion /\ d.disposed = mem.disposed /\ d.code = mem.code
          /\ d.dirty = TRUE /\ d.persist = mem.persist
      BY <1>2, <3>1 DEF MemRec, Amount, LazySaved
    <3> HIDE DEF d
    <3>3. Course(d) BY <3>2, <1>2 DEF Course
    <3> QED BY <1>2, <1>4, <1>7, <2>3, <3>2, <3>3, EndOperationClean
  <2> QED BY <2>1, <2>2, <2>3 DEF ApplyPenalty
<1>8. CASE l.kind = "timeout"
  <2> DEFINE m == [mem EXCEPT !.completion = TRUE]
             k == [l EXCEPT !.owns = TRUE]
  <2>1. ApplyTimeout(mem, l) BY <1>8 DEF RunRewardOperation
  <2>2. start = "done"
    <3>1. StartSound(mem, row, queue, saves, pc["chain"], pc["saver"]) /\ InsertSound
          /\ 1 \in DOMAIN queue /\ queue[1] = l /\ Shape
      BY Parts DEF Ongoing, CleanInv, Shape
    <3>2. start \notin {"new", "hooks"} BY <1>8, <3>1 DEF StartSound
    <3>3. start \notin {"saving", "saved", "saveError"} BY <3>1 DEF InsertSound, Ongoing
    <3> QED BY <3>1, <3>2, <3>3 DEF Shape
  <2>3. CASE ChainEnds(mem, FALSE) BY <1>2, <1>4, <1>8, <2>3, ChainEndsClean
  <2>4. CASE ChainGoes(mem, l, "bareTimeout", Sent("timeout", l.listed, "none")) /\ saves' = saves
    BY <1>2, <1>4, <1>8, <2>4, ChainGoesClean DEF ChainPoints, TimingOut
  <2>5. CASE ChainGoes(mem, l, "retry", NoCall) /\ saves' = Append(saves, "timeout")
    BY <1>2, <1>4, <1>8, <2>5, ChainGoesClean DEF ChainPoints, TimingOut
  <2>6. CASE ChainGoes(m, k, "timeoutSave", NoCall) /\ saves' = Append(saves, "timeout")
    <3>1. /\ m.status = mem.status /\ m.code = mem.code /\ m.snapshot = mem.snapshot
          /\ m.persist = mem.persist /\ m.failure = mem.failure /\ m.disposed = mem.disposed
          /\ m.dirty = mem.dirty /\ StoreData(m) = StoreData(mem)
      BY <1>2 DEF MemRec, StoreData
    <3> HIDE DEF m, k
    <3>2. Changed(m, mem) BY <2>2, <3>1 DEF Changed
    <3> QED BY <1>2, <1>4, <1>8, <2>6, <3>2, ChangedClean DEF ChainPoints, TimingOut
  <2> QED BY <2>1, <2>3, <2>4, <2>5, <2>6 DEF ApplyTimeout
<1>9. CASE l.kind = "fail"
  <2>1. FinishFailedSession(mem, l, "other", TRUE) BY <1>9 DEF RunRewardOperation
  <2> QED BY <1>2, <2>1, FinishFailedClean
<1>10. CASE l.kind = "complete"
  <2>1. \/ ApplyReward(mem, [l EXCEPT !.default = TRUE, !.amount = MaxDropAmount])
        \/ FinishSession(mem, l)
    BY <1>10 DEF RunRewardOperation
  <2> QED BY <1>2, <1>4, <1>10, <2>1, ApplyRewardClean, FinishSessionClean
<1> QED BY <1>3, <1>5, <1>6, <1>7, <1>8, <1>9, <1>10 DEF Kinds

\* The hooks of a reward end.
LEMMA FactorHooksEndClean ==
  ASSUME Ongoing, FactorHooksEnd
  PROVE  CleanInv'
<1>1. pc["chain"] = "factors" BY DEF FactorHooksEnd
<1>2. /\ Course(mem) /\ mem \in MemRec /\ mem.failure # "preparing" /\ FailureShows(mem) /\ chain \in OpRec
  BY <1>1, SameCourseClean
<1>3. mem.depth = 1 BY <1>1, Parts DEF Ongoing, ChainSound
<1> DEFINE m == [mem EXCEPT !.depth = @ - 1]
           l(thrown) == [chain EXCEPT !.reject = thrown]
           n(scaled) == [m EXCEPT !.drop = (IF @ = -1 THEN 0 ELSE @) + scaled, !.dirty = TRUE]
<1>4. PICK intent \in {"none", "complete", "failed"}, thrown \in BOOLEAN, scaled \in 0..chain.amount :
        /\ (intent # "none" \/ thrown) => scaled = 0
        /\ CASE intent = "failed" -> FinishFailedSession(m, l(thrown), "other", TRUE) /\ UNCHANGED accounted
             [] intent = "complete" /\ ~m.completion -> FinishSession(m, l(thrown))
             [] intent = "complete" /\ m.completion  -> IF thrown THEN ChainEnds(m, TRUE)
                                                                  ELSE RewardReturns(m)
             [] intent = "none" /\ thrown -> ChainEnds(m, TRUE)
             [] OTHER ->
                  IF ~CanStartReward(m) \/ m.cancel THEN RewardReturns(m)
                  ELSE /\ ChainGoes(n(scaled), l(thrown), "accounting", NoCall)
                       /\ accounted' = accounted + scaled
                       /\ UNCHANGED <<timer, saves, completions>>
  BY Zenon DEF FactorHooksEnd
<1>5. /\ m \in MemRec /\ m.status = mem.status /\ m.snapshot = mem.snapshot /\ m.completion = mem.completion
      /\ m.disposed = mem.disposed /\ m.failure = mem.failure /\ m.persist = mem.persist
      /\ m.dirty = mem.dirty /\ m.code = mem.code /\ m.drop = mem.drop /\ m.data = mem.data
  BY <1>2, <1>3 DEF MemRec
<1>6. StoreData(m) = StoreData(mem) BY <1>5 DEF StoreData
<1>7. LET x == n(scaled)
      IN  /\ x.status = m.status /\ x.snapshot = m.snapshot /\ x.completion = m.completion
          /\ x.disposed = m.disposed /\ x.failure = m.failure /\ x.persist = m.persist
          /\ x.dirty = TRUE /\ x.code = m.code
  BY <1>5 DEF MemRec
<1> HIDE DEF m, l
<1>8. Course(m) /\ FailureShows(m) /\ m.failure # "preparing"
  BY <1>2, <1>5, <1>6 DEF Course, FailureShows
<1>9. CASE ChainGoes(n(scaled), l(thrown), "accounting", NoCall) /\ saves' = saves
  <2>1. Changed(n(scaled), m) BY <1>7 DEF Changed
  <2> HIDE DEF n
  <2> QED BY <1>8, <1>9, <2>1, ChangedClean DEF ChainPoints
<1>10. CASE \/ FinishFailedSession(m, l(thrown), "other", TRUE)
            \/ FinishSession(m, l(thrown)) \/ ChainEnds(m, TRUE) \/ RewardReturns(m)
  BY <1>8, <1>10, FinishFailedClean, FinishSessionClean, ChainEndsClean, RewardReturnsClean
<1> HIDE DEF n
<1> QED BY <1>4, <1>9, <1>10

\* The SessionRewarded hooks end.
LEMMA AccountingHooksEndClean ==
  ASSUME Ongoing, AccountingHooksEnd
  PROVE  CleanInv'
<1>1. pc["chain"] = "accounting" BY DEF AccountingHooksEnd
<1>2. /\ Course(mem) /\ mem \in MemRec /\ mem.failure # "preparing" /\ FailureShows(mem)
  BY <1>1, SameCourseClean
<1> DEFINE d == LazySaved(mem)
<1>3. \/ \E thrown \in BOOLEAN : FinishFailedSession(mem, [chain EXCEPT !.reject = thrown], "other", TRUE)
      \/ FinishSession(mem, chain) \/ RewardReturns(mem)
      \/ EndOperation(d, FALSE) /\ UNCHANGED <<row, saves, start, phase>>
  BY DEF AccountingHooksEnd
<1>4. CASE EndOperation(d, FALSE) /\ UNCHANGED <<row, saves, start, phase>>
  <2>1. d \in MemRec /\ d.failure = mem.failure /\ d.status = mem.status /\ d.snapshot = mem.snapshot
        /\ d.completion = mem.completion /\ d.disposed = mem.disposed /\ d.code = mem.code
        /\ d.dirty = TRUE /\ d.persist = mem.persist
    BY <1>2 DEF MemRec, LazySaved
  <2> HIDE DEF d
  <2>2. Course(d) /\ FailureShows(d) BY <2>1, <1>2 DEF Course, FailureShows
  <2> QED BY <1>2, <1>4, <2>1, <2>2, EndOperationClean
<1> QED BY <1>2, <1>3, <1>4, FinishFailedClean, FinishSessionClean, RewardReturnsClean

\* The hooks of a failure end, and its row is written.
LEMMA FailHooksEndClean ==
  ASSUME Ongoing, FailHooksEnd
  PROVE  CleanInv'
<1> DEFINE m == [mem EXCEPT !.failure = "pending", !.expected = chain.expected,
                            !.already = chain.already, !.failed = StoreData(mem)]
<1>1. PICK thrown \in BOOLEAN :
        ChainGoes(m, [chain EXCEPT !.reject = @ \/ thrown], "tail", NoCall)
  BY DEF FailHooksEnd
<1>2. saves' = Append(saves, "tail") BY DEF FailHooksEnd
<1>3. mem.status = "failed" /\ mem \in MemRec
  BY SameCourseClean, Parts DEF FailHooksEnd, Ongoing, ChainSound
<1>4. /\ m.status = "failed" /\ m.snapshot = mem.snapshot /\ m.completion = mem.completion
      /\ m.disposed = mem.disposed /\ m.failure = "pending"
  BY <1>3 DEF MemRec
<1> HIDE DEF m
<1> QED BY <1>1, <1>2, <1>4, ChainGoesEnds DEF ChainPoints

\* The completion fails.
LEMMA CompletionFailsClean ==
  ASSUME Ongoing, CompletionFails, pc["chain"] # "failHooks"
  PROVE  CleanInv'
BY SameCourseClean, FinishFailedClean DEF CompletionFails

\* The chain reads the row, after a reply that leaves open what happened.
LEMMA ChainReadsClean ==
  ASSUME Ongoing, pc["chain"] \notin {"idle", "failHooks"}, NEW at \in ChainPoints \ {"idle"}, ChainReads(at)
  PROVE  CleanInv'
<1>1. ChainGoes(mem, chain, at, Sent("read", Absent, "none")) /\ saves' = saves BY DEF ChainReads
<1> QED BY <1>1, SameCourseClean, ChainGoesClean

\* Completion.
LEMMA CompletingClean ==
  ASSUME Ongoing, CompleteHooksEnd \/ Commit \/ Committed \/ CommitRead \/ SyncRead
  PROVE  CleanInv'
<1>1. pc["chain"] \in {"completing", "commit", "claimable", "claimableRead", "sync"}
  BY DEF CompleteHooksEnd, Commit, Committed, CommitRead, SyncRead, Answered
<1>2. /\ Course(mem) /\ mem \in MemRec /\ mem.failure # "preparing" /\ FailureShows(mem)
  BY <1>1, SameCourseClean
<1>3. {"commitTail", "claimable", "sync", "claimableRead"} \subseteq ChainPoints \ {"idle"}
  BY DEF ChainPoints, Completing
<1>4. Read("chain") \in Row /\ Reply("chain") \in {"none", "ok", "no", "error"}
  <2>1. call["chain"] \in CallRec BY Parts DEF Ongoing, Shape, Workers
  <2> QED BY <2>1 DEF CallRec, Read, Reply
<1>5. CASE CompletionFails BY <1>1, <1>5, CompletionFailsClean
<1>6. ASSUME NEW reject, ChainEnds(Claimable(mem), reject) PROVE CleanInv'
  <2> DEFINE m == Claimable(mem)
  <2>1. m \in MemRec /\ m.status = "claimable" /\ m.disposed = TRUE /\ m.snapshot = mem.snapshot
        /\ m.completion = mem.completion /\ m.failure = mem.failure
    BY <1>2 DEF Claimable, MemRec, FaucetSessionStatus
  <2> HIDE DEF m
  <2>2. Course(m) /\ FailureShows(m) BY <2>1 DEF Course, FailureShows, Open
  <2> QED BY <1>2, <1>6, <2>1, <2>2, ChainEndsClean DEF m
<1>7. CASE CompleteHooksEnd
  <2>1. CASE ChainGoes(mem, chain, "commitTail", NoCall) /\ saves' = Append(saves, "tail")
    BY <1>2, <1>3, <2>1, ChainGoesClean
  <2> QED BY <1>5, <1>7, <2>1 DEF CompleteHooksEnd
<1>8. CASE Commit
  <2>1. PICK l, c : ChainGoes(mem, l, "claimable", c) /\ saves' = saves BY <1>8 DEF Commit
  <2> QED BY <1>2, <1>3, <2>1, ChainGoesClean
<1>9. CASE Committed
  <2>1. Reply("chain") # "none" BY <1>9, Parts DEF Ongoing, Committed, Answered, CallSound, Reply
  <2>2. CASE Reply("chain") = "ok" BY <1>6, <1>9, <2>2 DEF Committed
  <2>3. CASE Reply("chain") = "no" BY <1>1, <1>3, <1>9, <2>3, ChainReadsClean DEF Committed
  <2>4. CASE Reply("chain") = "error" BY <1>1, <1>3, <1>9, <2>4, ChainReadsClean DEF Committed
  <2> QED BY <1>4, <2>1, <2>2, <2>3, <2>4
<1>10. CASE CommitRead
  <2>1. \/ CompletionFails \/ ChainEnds(Claimable(mem), chain.reject)
        \/ /\ IsTerminalStatus(Read("chain").status)
           /\ ChainEnds(SynchronizedTerminal(mem, Read("chain")), chain.reject)
    BY <1>10 DEF CommitRead
  <2> QED BY <1>4, <1>5, <1>6, <2>1, SynchronizedClean
<1>11. CASE SyncRead
  <2>1. \/ CompletionFails \/ ChainEnds(mem, TRUE)
        \/ /\ IsTerminalStatus(Read("chain").status)
           /\ ChainEnds(SynchronizedTerminal(mem, Read("chain")), chain.reject)
    BY <1>11 DEF SyncRead
  <2> QED BY <1>2, <1>4, <1>5, <2>1, SynchronizedClean, ChainEndsClean
<1> QED BY <1>7, <1>8, <1>9, <1>10, <1>11

\* Timeouts.
LEMMA TimingOutClean ==
  ASSUME Ongoing, TimeoutSaved \/ TimeoutDecided \/ TimeoutRead \/ TimeoutMissed \/ BareTimeout
  PROVE  CleanInv'
<1>1. pc["chain"] \in {"saved", "saveError", "timeout", "timeoutRead", "timeoutMissed", "bareTimeout"}
  BY DEF TimeoutSaved, TimeoutDecided, TimeoutRead, TimeoutMissed, BareTimeout, Answered
<1>2. /\ Course(mem) /\ mem \in MemRec /\ mem.failure # "preparing" /\ FailureShows(mem)
  BY <1>1, SameCourseClean
<1>3. {"timeout", "timeoutMissed", "timeoutRead", "sync"} \subseteq ChainPoints \ {"idle"}
  BY DEF ChainPoints, TimingOut
<1>4. Read("chain") \in Row /\ Reply("chain") \in {"none", "ok", "no", "error"}
  <2>1. call["chain"] \in CallRec BY Parts DEF Ongoing, Shape, Workers
  <2> QED BY <2>1 DEF CallRec, Read, Reply
<1>5. ASSUME NEW reject, ChainEnds(mem, reject) PROVE CleanInv' BY <1>2, <1>5, ChainEndsClean
<1>6. CASE TimedOut(mem) BY <1>2, <1>6, FinishFailedClean DEF TimedOut
<1>7. CASE TimeoutSaved
  <2>1. CASE ChainGoes(mem, chain, "timeout", Sent("timeout", StoreData(mem), "none")) /\ saves' = saves
    BY <1>2, <1>3, <2>1, ChainGoesClean
  <2> QED BY <1>5, <1>7, <2>1 DEF TimeoutSaved
<1>8. CASE TimeoutDecided
  <2>1. Reply("chain") # "none" BY <1>8, Parts DEF Ongoing, TimeoutDecided, Answered, CallSound, Reply
  <2>2. CASE Reply("chain") = "ok" BY <1>6, <1>8, <2>2 DEF TimeoutDecided
  <2>3. CASE Reply("chain") = "no" BY <1>1, <1>3, <1>8, <2>3, ChainReadsClean DEF TimeoutDecided
  <2>4. CASE Reply("chain") = "error" BY <1>1, <1>3, <1>8, <2>4, ChainReadsClean DEF TimeoutDecided
  <2> QED BY <1>4, <2>1, <2>2, <2>3, <2>4
<1>9. CASE TimeoutRead
  <2> DEFINE r == Read("chain")
             m == [mem EXCEPT !.persist = "durable"]
  <2>1. \/ ChainEnds(mem, TRUE)
        \/ IsTerminalStatus(r.status) /\ ChainEnds(SynchronizedTerminal(mem, r), FALSE)
        \/ r.status = "failed" /\ TimedOut(m)
    BY <1>9 DEF TimeoutRead
  <2>2. CASE r.status = "failed" /\ TimedOut(m)
    <3>1. /\ m \in MemRec /\ m.status = mem.status /\ m.code = mem.code /\ m.snapshot = mem.snapshot
          /\ m.persist = "durable" /\ m.failure = mem.failure /\ m.disposed = mem.disposed
          /\ m.completion = mem.completion /\ m.dirty = mem.dirty /\ StoreData(m) = StoreData(mem)
      BY <1>2 DEF MemRec, StoreData
    <3> HIDE DEF m
    <3>2. Course(m) BY <1>2, <3>1 DEF Course
    <3>3. FinishFailedSession(m, [chain EXCEPT !.already = TRUE], "timeout", TRUE) BY <2>2 DEF TimedOut
    <3> QED BY <1>2, <3>1, <3>2, <3>3, FinishFailedClean
  <2> QED BY <1>4, <1>5, <2>1, <2>2, SynchronizedClean
<1>10. CASE TimeoutMissed
  <2>1. ChainReads("sync") \/ \E reject : ChainEnds(mem, reject) BY <1>10 DEF TimeoutMissed
  <2> QED BY <1>1, <1>3, <1>5, <2>1, ChainReadsClean
<1>11. CASE BareTimeout BY <1>5, <1>11 DEF BareTimeout
<1> QED BY <1>7, <1>8, <1>9, <1>10, <1>11

\* The saver calls the database.
Saves ==
  /\ SessionInv /\ SessionInv' /\ CleanInv /\ Up /\ saves # <<>> /\ Head(saves) # "tail"
  /\ start \notin {"saved", "saveError"}

\* The saver calls the database: a clean object is in the call, or in the row.
LEMMA SaverCallsClean ==
  ASSUME Saves, NEW m, NEW at \in SaverPoints \ {"idle"}, NEW c, c.state = "sent",
         SaverCalls(m, at, c) \/ PersistFailedCalls("saver", m, at, c),
         m.status = mem.status, m.completion = mem.completion, m.disposed = mem.disposed,
         m.failure = mem.failure, m.code = mem.code,
         Clean(m) /\ ~Doomed =>
           /\ at \in {"insert", "insertRead"} => m.snapshot = StoreData(m)
           /\ at = "update" => c.data = StoreData(m)
           /\ at \in {"insert", "insertRead", "update"},
         at = "insert" => c.data = m.snapshot,
         at \in {"reconcile", "insert", "update"} => c.data.code = "none",
         m.status = "running" /\ m.persist # "durable" => start \in {"saving", "saveError"} \/ Doomed,
         m.status = "running" /\ at = "reconcile" => Doomed,
         start = "saving" => at \in {"insert", "insertRead"},
         at \in Saving => registered \/ m.disposed,
         at \in Saving /\ Head(saves) = "exit" =>
           m.disposed \/ (m.status = "running" /\ (m.dirty => at = "updateSync"))
  PROVE  CleanInv'
<1>1. /\ CleanSound /\ CodeSound /\ InsertSound /\ OperationSound /\ ExitSound /\ Shape
  BY Parts DEF Saves, CleanInv
<1>2. /\ mem' = m /\ pc' = [pc EXCEPT !["saver"] = at] /\ call' = [call EXCEPT !["saver"] = c]
      /\ row' = row /\ timer' = timer /\ registered' = registered /\ start' = start /\ queue' = queue
      /\ saves' = saves /\ phase' = phase
  BY DEF SaverCalls, PersistFailedCalls, Goto
<1>3. pc'["saver"] = at /\ call'["saver"] = c /\ pc'["chain"] = pc["chain"]
  BY <1>1, <1>2 DEF Shape, Workers
<1>4. Doomed' = Doomed BY <1>2 DEF Doomed
<1>5. at # "idle" OBVIOUS
<1>6. CleanSound' BY <1>1, <1>2, <1>3, <1>4, <1>5 DEF CleanSound, Clean
<1>7. CodeSound' BY <1>1, <1>2, <1>3 DEF CodeSound
<1>8. InsertSound' BY <1>1, <1>2, <1>3, <1>4, <1>5 DEF InsertSound, Saves
<1>9. OperationSound' BY <1>1, <1>2, <1>3 DEF OperationSound
<1>10. ExitSound'
  <2>1. phase # "exited" BY DEF Saves, Up
  <2>2. CleanExitKeepsSession' BY <1>2, <2>1 DEF CleanExitKeepsSession
  <2> QED BY <1>1, <1>2, <1>3, <2>2 DEF ExitSound
<1> QED BY <1>6, <1>7, <1>8, <1>9, <1>10 DEF CleanInv

\* A save ends.
LEMMA EndSaveClean ==
  ASSUME Saves, NEW m, NEW ok \in BOOLEAN, EndSave(m, ok), row' = row, queue' = queue, timer' = timer,
         m.status = "running" => mem.status = "running",
         m.status \in {"unknown", "starting"} => mem.status \in {"unknown", "starting"},
         m.status \in Open => mem.status \in Open /\ m.code = mem.code,
         m.completion => mem.completion, mem.disposed => m.disposed,
         m.failure = "preparing" => mem.failure = "preparing",
         Clean(m) /\ ~Doomed /\ row.status = "running" => row = StoreData(m),
         m.status = "running" /\ m.persist # "durable" => Doomed \/ (Head(saves) = "start" /\ ~ok),
         Head(saves) = "exit" /\ ok /\ row.status = "running" => row = StoreData(m)
  PROVE  CleanInv'
<1> DEFINE who == Head(saves)
<1>1. /\ CleanSound /\ CodeSound /\ InsertSound /\ OperationSound /\ ExitSound /\ Shape
      /\ SavesSound(saves, pc["chain"], pc["saver"])
      /\ StartSound(mem, row, queue, saves, pc["chain"], pc["saver"])
  BY Parts DEF Saves, CleanInv
<1>2. /\ mem' = m /\ registered' = (registered /\ ~m.disposed)
      /\ saves' = Tail(saves)
      /\ start' = IF who = "start" THEN IF ok THEN "saved" ELSE "saveError" ELSE start
      /\ phase' = IF who = "exit" THEN IF ok THEN "exited" ELSE "failedExit" ELSE phase
      /\ pc' = [pc EXCEPT !["saver"] = "idle",
                  !["chain"] = IF who # "timeout" THEN @ ELSE IF ok THEN "saved" ELSE "saveError"]
      /\ call' = [call EXCEPT !["saver"] = NoCall]
  BY DEF EndSave, Release
<1>3. /\ pc'["saver"] = "idle" /\ call'["saver"] = NoCall
      /\ pc'["chain"] = IF who # "timeout" THEN pc["chain"] ELSE IF ok THEN "saved" ELSE "saveError"
  BY <1>1, <1>2 DEF Shape, Workers
<1>4. 1 \in DOMAIN saves /\ saves[1] = who /\ saves \in Seq(Savers) BY <1>1 DEF Saves, Shape
<1>5. who = "timeout" => pc["chain"] \in {"retry", "timeoutSave"} BY <1>1, <1>4 DEF SavesSound
<1>6. who = "start" => start = "saving" BY <1>1, <1>4 DEF StartSound
<1>7. who = "exit" => phase = "saving" /\ start \in {"new", "done"}
  BY <1>1, <1>4 DEF ExitSound, Ended, Saves, Up
<1>8. start = "saving" => who = "start" BY <1>1 DEF InsertSound
<1>10. Doomed' = Doomed BY <1>2 DEF Doomed
<1>11. \A i \in DOMAIN saves' : i + 1 \in DOMAIN saves /\ saves'[i] = saves[i + 1]
  BY <1>2, <1>4 DEF Saves
<1>12. CleanSound'
  <2>1. NoCall.state # "done" BY DEF NoCall
  <2> QED BY <1>2, <1>3, <1>10, <2>1 DEF CleanSound, Clean
<1>13. CodeSound' BY <1>1, <1>2, <1>3 DEF CodeSound
<1>14. InsertSound'
  <2>1. m.status = "running" /\ m.persist # "durable" => start' \in {"saving", "saveError"} \/ Doomed'
    BY <1>2, <1>10
  <2>2. start' # "saving" BY <1>2, <1>8
  <2>3. start' \in {"saved", "saveError"} => queue' = <<>>
    BY <1>1, <1>2, <1>6 DEF InsertSound
  <2>4. start' # "done" => ~m.completion BY <1>1, <1>2, <1>6 DEF InsertSound
  <2> QED BY <1>2, <1>3, <2>1, <2>2, <2>3, <2>4 DEF InsertSound
<1>15. OperationSound' BY <1>1, <1>2, <1>3, <1>5 DEF OperationSound
<1>16. ExitSound'
  <2>1. \A i \in DOMAIN saves' : saves'[i] = "exit" => phase' \in Ended
    BY <1>1, <1>2, <1>11 DEF ExitSound, Ended
  <2>2. ~registered' => m.disposed \/ (row = Absent /\ m.status # "running")
    BY <1>1, <1>2 DEF ExitSound
  <2>3. phase' \in {"closed"} \union Ended => start' \in {"new", "done"}
    BY <1>1, <1>2, <1>6, <1>7 DEF ExitSound, Ended
  <2>4. CleanExitKeepsSession'
    <3>1. phase # "exited" BY DEF Saves, Up
    <3> QED BY <1>2, <3>1 DEF CleanExitKeepsSession
  <2>5. registered' => m.status \notin {"unknown", "starting"} BY <1>1, <1>2 DEF ExitSound
  <2>6. phase' = "saving" => queue' = <<>> BY <1>1, <1>2 DEF ExitSound
  <2>7. pc'["saver"] \notin Saving BY <1>3 DEF Saving
  <2> QED BY <1>2, <2>1, <2>2, <2>3, <2>4, <2>5, <2>6, <2>7 DEF ExitSound
<1> QED BY <1>12, <1>13, <1>14, <1>15, <1>16 DEF CleanInv

\* What holds when a save ends the shutdown.
LEMMA ExitSave ==
  ASSUME Saves, Head(saves) = "exit"
  PROVE  ~Doomed /\ pc["chain"] = "idle" /\ (row.status = "running" => registered /\ ~mem.disposed)
<1>1. /\ ExitSound /\ Shape /\ QueueSound(queue, pc["chain"]) /\ RowSound(mem, row)
  BY Parts DEF Saves, CleanInv
<1>2. 1 \in DOMAIN saves /\ saves[1] = "exit" BY <1>1 DEF Saves, Shape
<1>3. phase = "saving" BY <1>1, <1>2 DEF ExitSound, Ended, Saves, Up
<1>4. queue = <<>> BY <1>1, <1>3 DEF ExitSound
<1> QED BY <1>1, <1>4 DEF Doomed, QueueSound, ExitSound, RowSound, Absent

\* The save throws: the object stays dirty.
LEMMA SaveThrowsClean ==
  ASSUME Saves, NEW m \in MemRec, SaveThrows(m),
         m.status = mem.status, m.completion = mem.completion, m.disposed = mem.disposed,
         m.failure = mem.failure, m.code = mem.code,
         m.persist # "durable" => Doomed \/ Head(saves) = "start" \/ mem.status # "running"
  PROVE  CleanInv'
<1> DEFINE n == [m EXCEPT !.dirty = TRUE]
<1>1. EndSave(n, FALSE) /\ row' = row /\ queue' = queue /\ timer' = timer BY DEF SaveThrows, SaverEnds
<1>2. /\ n.status = m.status /\ n.completion = m.completion /\ n.disposed = m.disposed
      /\ n.failure = m.failure /\ n.code = m.code /\ n.persist = m.persist /\ n.dirty = TRUE
  BY DEF MemRec
<1> HIDE DEF n
<1> QED BY <1>1, <1>2, EndSaveClean DEF Clean

\* The object reached its end.
LEMMA EndSaveDisposed ==
  ASSUME Saves, NEW m \in MemRec, NEW ok \in BOOLEAN, EndSave(m, ok), row' = row, queue' = queue, timer' = timer,
         m.disposed, m.failure = "complete", m.completion = mem.completion
  PROVE  CleanInv'
<1>1. mem' = m BY DEF EndSave, Release
<1>2. RowSound(m, row) /\ ObjectSound(m)
  <2>1. RowSound(mem, row)' /\ ObjectSound(mem)' BY DEF Saves, SessionInv
  <2> QED BY <1>1, <2>1 DEF RowSound, ObjectSound, HasFailure
<1>3. row.status # "running" /\ m.status \notin Open BY <1>2 DEF RowSound, ObjectSound, Open
<1> QED BY <1>3, EndSaveClean DEF Open, Clean

\* A worker makes the failure durable.
FailureGoes(w) ==
  /\ SessionInv /\ SessionInv' /\ CleanInv /\ Up /\ FailingWorker(w)
  /\ w = "saver" => start \notin {"saved", "saveError"}
Failed(m) ==
  /\ m \in MemRec /\ m.status \notin Open /\ m.snapshot = mem.snapshot /\ m.completion = mem.completion
  /\ mem.disposed => m.disposed

\* An object that fails does not run, and the start does not wait for its save.
LEMMA FailureContext ==
  ASSUME NEW w \in Workers, FailureGoes(w)
  PROVE  /\ Failed(mem) /\ mem \in MemRec /\ mem.failure # "none" /\ mem.status \notin Open
         /\ w = "chain" => Ongoing /\ pc["chain"] \notin {"idle", "failHooks"} /\ mem.failure # "preparing"
         /\ w = "saver" => Saves /\ start # "saving"
<1>1. mem.failure # "none" BY FailingContext DEF FailureGoes
<1>2. /\ Shape /\ ObjectSound(mem) /\ QueueSound(queue, pc["chain"]) /\ InsertSound /\ OperationSound
  BY Parts DEF FailureGoes, CleanInv
<1>3. mem.status \notin Open BY <1>1, <1>2 DEF ObjectSound, Open
<1>4. mem \in MemRec BY <1>2 DEF Shape
<1>5. ASSUME w = "chain" PROVE Ongoing /\ pc["chain"] \notin {"idle", "failHooks"} /\ mem.failure # "preparing"
  <2>1. pc["chain"] \notin {"idle", "failHooks"} BY <1>5 DEF FailureGoes, FailingWorker, Failing
  <2> QED BY <1>2, <2>1 DEF FailureGoes, Ongoing, QueueSound, OperationSound
<1>6. ASSUME w = "saver" PROVE Saves /\ start # "saving"
  <2>1. pc["saver"] \in {"idle"} \union Failing BY <1>6 DEF FailureGoes, FailingWorker
  <2>2. start # "saving" BY <1>2, <1>3, <2>1 DEF InsertSound, Failing, Open
  <2> QED BY <1>6, <2>2 DEF FailureGoes, Saves, FailingWorker
<1> QED BY <1>1, <1>3, <1>4, <1>5, <1>6 DEF Failed

\* persistFailedSession ends: with the end of the session, or with an error.
LEMMA FailureEndsClean ==
  ASSUME NEW w \in Workers, FailureGoes(w), NEW m, Failed(m), NEW ok \in BOOLEAN, PersistFailedEnds(w, m, ok),
         m.failure = mem.failure \/ m.failure = "complete", ok => m.disposed /\ m.failure = "complete"
  PROVE  CleanInv'
<1>1. CASE w = "chain"
  <2>1. EndOperation(m, chain.reject \/ ~ok) /\ row' = row /\ start' = start /\ phase' = phase /\ saves' = saves
    BY <1>1 DEF PersistFailedEnds
  <2>2. Course(m) /\ FailureShows(m) BY DEF Failed, Course, FailureShows, Open
  <2> QED BY <1>1, <2>1, <2>2, FailureContext, EndOperationClean
<1>2. CASE w = "saver"
  <2>1. EndSave(m, ok) /\ row' = row /\ queue' = queue /\ timer' = timer
    BY <1>2 DEF PersistFailedEnds
  <2>2. Saves /\ mem.failure # "none" BY <1>2, FailureContext
  <2>3. CASE ok BY <2>1, <2>2, <2>3, EndSaveDisposed DEF Failed
  <2>4. CASE ~ok BY <2>1, <2>2, <2>4, EndSaveClean DEF Failed, Open, Clean
  <2> QED BY <2>3, <2>4
<1> QED BY <1>1, <1>2 DEF Workers

\* persistFailedSession calls the database.
LEMMA FailureCallsClean ==
  ASSUME NEW w \in Workers, FailureGoes(w), NEW m, Failed(m), NEW at \in Failing, NEW c, c.state = "sent",
         m.status = mem.status, m.disposed = mem.disposed, m.failure = mem.failure, m.code = mem.code,
         PersistFailedCalls(w, m, at, c)
  PROVE  CleanInv'
<1>1. at \notin Saving /\ at \in SaverPoints \ {"idle"} /\ at \in ChainPoints \ {"idle"}
      /\ at \notin {"insert", "insertRead", "update", "reconcile"}
  BY DEF Failing, Saving, SaverPoints, ChainPoints
<1>2. CASE w = "saver"
  <2>1. Saves /\ start # "saving" BY <1>2, FailureContext
  <2> QED BY <1>1, <1>2, <2>1, SaverCallsClean DEF Failed, Clean, Open
<1>3. CASE w = "chain"
  <2>1. /\ mem' = m /\ pc' = [pc EXCEPT !["chain"] = at] /\ call' = [call EXCEPT !["chain"] = c]
        /\ row' = row /\ start' = start /\ phase' = phase /\ registered' = registered /\ queue' = queue
        /\ saves' = saves
    BY <1>3 DEF PersistFailedCalls, Goto
  <2>2. Ongoing /\ mem.failure # "preparing" BY <1>3, FailureContext
  <2>3. pc'["saver"] = pc["saver"] /\ call'["saver"] = call["saver"] /\ pc'["chain"] = at
    BY <2>1, Parts DEF FailureGoes, Shape, Workers
  <2> QED BY <2>1, <2>2, <2>3, ChainClean DEF Failed, FailureShows, Open
<1> QED BY <1>2, <1>3 DEF Workers

\* What the object becomes.
LEMMA FailureObjects ==
  ASSUME NEW w \in Workers, FailureGoes(w), NEW k \in {"absent", "durable", "uncertain"}
  PROVE  LET y == [mem EXCEPT !.persist = k]
             x == FinalizedFailed(y)
         IN /\ Failed(y) /\ y.status = mem.status /\ y.disposed = mem.disposed /\ y.failure = mem.failure
            /\ y.code = mem.code
            /\ Failed(x) /\ x.disposed /\ x.failure = "complete"
<1>1. mem \in MemRec /\ mem.status \notin Open BY FailureContext
<1> QED BY <1>1 DEF Failed, FinalizedFailed, MemRec

\* What the object becomes when its row has ended already.
LEMMA FailureSynchronized ==
  ASSUME NEW w \in Workers, FailureGoes(w), NEW r \in Row, IsTerminalStatus(r.status)
  PROVE  LET x == SynchronizedTerminal(mem, r)
         IN Failed(x) /\ x.disposed /\ x.failure = "complete"
<1>1. mem \in MemRec BY FailureContext
<1> DEFINE x == SynchronizedTerminal(mem, r)
<1>2. x \in MemRec /\ x.failure = "complete" /\ x.disposed = TRUE /\ x.status = r.status
  BY <1>1, SynchronizedFields
<1>3. x.snapshot = mem.snapshot /\ x.completion = mem.completion BY <1>1 DEF SynchronizedTerminal, MemRec
<1> HIDE DEF x
<1> QED BY <1>2, <1>3 DEF Failed, IsTerminalStatus, Open, x

\* persistFailedSession.
LEMMA PersistFailedClean ==
  ASSUME NEW w \in Workers, FailureGoes(w), PersistFailedSession(w), w = "saver" => mem.failure = "pending"
  PROVE  CleanInv'
<1>1. /\ Failed(mem) /\ mem \in MemRec /\ mem.failure # "none"
      /\ w = "chain" => mem.failure # "preparing"
  BY FailureContext
<1>2. CASE mem.failure # "pending"
  <2>1. PersistFailedEnds(w, mem, TRUE) BY <1>2 DEF PersistFailedSession
  <2>2. mem.failure \in {"complete", "preparing"} BY <1>1, <1>2 DEF MemRec
  <2>3. mem.failure = "complete" /\ mem.disposed
    <3>1. ObjectSound(mem) BY Parts DEF FailureGoes
    <3> QED BY <1>1, <1>2, <2>2, <3>1 DEF ObjectSound, Workers
  <2> QED BY <1>1, <2>1, <2>3, FailureEndsClean
<1>3. CASE mem.failure = "pending" /\ (mem.already \/ mem.persist = "absent")
  <2> DEFINE k == IF mem.already THEN "durable" ELSE mem.persist
  <2>1. PersistFailedEnds(w, FinalizedFailed([mem EXCEPT !.persist = k]), TRUE)
    BY <1>3 DEF PersistFailedSession
  <2>2. k \in {"absent", "durable", "uncertain"} BY <1>1 DEF MemRec
  <2> HIDE DEF k
  <2> QED BY <2>1, <2>2, FailureObjects, FailureEndsClean
<1>4. CASE mem.failure = "pending" /\ ~(mem.already \/ mem.persist = "absent")
  <2>1. \/ PersistFailedCalls(w, mem, "failReconcile", Sent("read", Absent, "none"))
        \/ PersistFailedCalls(w, mem, "failTransition", Sent("transition", mem.failed, mem.expected))
    BY <1>4 DEF PersistFailedSession
  <2>2. /\ Sent("read", Absent, "none").state = "sent"
        /\ Sent("transition", mem.failed, mem.expected).state = "sent"
    BY DEF Sent, NoCall
  <2> QED BY <1>1, <2>1, <2>2, FailureCallsClean DEF Failing
<1> QED BY <1>2, <1>3, <1>4

\* The answers to the calls of persistFailedSession.
LEMMA FailingClean ==
  ASSUME SessionInv, SessionInv', CleanInv, Up, NEW w \in Workers,
         FailReconcile(w) \/ FailTransition(w) \/ FailRead(w)
  PROVE  CleanInv'
<1>1. PICK at \in Failing : Answered(w, at) BY DEF FailReconcile, FailTransition, FailRead, Failing
<1>2. FailingWorker(w) /\ call[w] \in CallRec BY <1>1, AnsweredFailing
<1>3. FailureGoes(w)
  <2>1. w = "saver" => pc["saver"] # "idle" BY <1>1 DEF Answered, Failing
  <2> QED BY <1>2, <2>1 DEF FailureGoes, CleanInv, InsertSound
<1>4. Failed(mem) /\ mem \in MemRec BY <1>3, FailureContext
<1>5. Read(w) \in Row BY <1>2 DEF CallRec, Read
<1>6. CASE PersistFailedEnds(w, mem, FALSE) BY <1>3, <1>4, <1>6, FailureEndsClean
<1>7. ASSUME NEW k \in {"absent", "durable"}, PersistFailedEnds(w, FinalizedFailed([mem EXCEPT !.persist = k]), TRUE)
      PROVE  CleanInv'
  BY <1>3, <1>7, FailureObjects, FailureEndsClean
<1>8. ASSUME IsTerminalStatus(Read(w).status), PersistFailedEnds(w, SynchronizedTerminal(mem, Read(w)), TRUE)
      PROVE  CleanInv'
  BY <1>3, <1>5, <1>8, FailureSynchronized, FailureEndsClean
<1>9. CASE FailReconcile(w)
  <2> DEFINE r == Reconciled(mem, Read(w))
             y == [mem EXCEPT !.persist = "durable"]
  <2>1. \/ r = <<[mem EXCEPT !.persist = "absent"], "absent">>
        \/ r = <<y, "durable">>
        \/ IsTerminalStatus(Read(w).status) /\ r = <<SynchronizedTerminal(mem, Read(w)), "terminal">>
        \/ r = <<mem, "mismatch">>
    BY DEF Reconciled
  <2>2. \/ PersistFailedEnds(w, mem, FALSE)
        \/ r[2] = "durable" /\ PersistFailedCalls(w, r[1], "failTransition", Sent("transition", mem.failed, mem.expected))
        \/ r[2] = "absent" /\ PersistFailedEnds(w, FinalizedFailed(r[1]), TRUE)
        \/ r[2] \notin {"absent", "durable", "mismatch"} /\ PersistFailedEnds(w, r[1], TRUE)
    BY <1>9 DEF FailReconcile
  <2> HIDE DEF r
  <2>3. CASE r = <<y, "durable">> /\ PersistFailedCalls(w, r[1], "failTransition", Sent("transition", mem.failed, mem.expected))
    <3>1. Sent("transition", mem.failed, mem.expected).state = "sent" BY DEF Sent, NoCall
    <3>2. r[1] = y /\ PersistFailedCalls(w, y, "failTransition", Sent("transition", mem.failed, mem.expected))
      BY <2>3
    <3> HIDE DEF y
    <3>3. /\ Failed(y) /\ y.status = mem.status /\ y.disposed = mem.disposed /\ y.failure = mem.failure
          /\ y.code = mem.code
      BY <1>3, FailureObjects DEF y
    <3> QED BY <1>3, <3>1, <3>2, <3>3, FailureCallsClean DEF Failing
  <2>4. r[2] = "durable" => r = <<y, "durable">> BY <2>1
  <2>5. r[2] = "absent" => r[1] = [mem EXCEPT !.persist = "absent"] BY <2>1
  <2>6. r[2] \notin {"absent", "durable", "mismatch"} =>
          IsTerminalStatus(Read(w).status) /\ r[1] = SynchronizedTerminal(mem, Read(w))
    BY <2>1
  <2> HIDE DEF y
  <2> QED BY <1>6, <1>7, <1>8, <2>2, <2>3, <2>4, <2>5, <2>6
<1>10. CASE FailTransition(w)
  <2>1. \/ PersistFailedEnds(w, FinalizedFailed([mem EXCEPT !.persist = "durable"]), TRUE)
        \/ PersistFailedCalls(w, mem, "failRead", Sent("read", Absent, "none"))
    BY <1>10 DEF FailTransition
  <2>2. Sent("read", Absent, "none").state = "sent" BY DEF Sent, NoCall
  <2> QED BY <1>3, <1>4, <1>7, <2>1, <2>2, FailureCallsClean DEF Failing
<1>11. CASE FailRead(w)
  <2>1. \/ PersistFailedEnds(w, mem, FALSE)
        \/ PersistFailedEnds(w, FinalizedFailed([mem EXCEPT !.persist = "durable"]), TRUE)
        \/ IsTerminalStatus(Read(w).status) /\ PersistFailedEnds(w, SynchronizedTerminal(mem, Read(w)), TRUE)
    BY <1>11 DEF FailRead
  <2> QED BY <1>6, <1>7, <1>8, <2>1
<1> QED BY <1>9, <1>10, <1>11

\* The saver has a call in flight.
LEMMA SavingContext ==
  ASSUME SessionInv, SessionInv', CleanInv, Up, pc["saver"] \in Saving
  PROVE  /\ Saves /\ CleanSound /\ CodeSound /\ InsertSound /\ ExitSound
         /\ start # "saveError" /\ (start = "saving" => Head(saves) = "start")
         /\ mem \in MemRec /\ Read("saver") \in Row
         /\ mem.status = "running" /\ mem.persist # "durable" => Doomed \/ Head(saves) = "start"
         /\ registered \/ mem.disposed
<1>1. /\ Shape /\ SavesSound(saves, pc["chain"], pc["saver"]) BY Parts
<1>2. CleanSound /\ CodeSound /\ InsertSound /\ ExitSound BY DEF CleanInv
<1>3. saves # <<>> /\ saves[1] # "tail" BY <1>1 DEF SavesSound, Saving
<1>4. Head(saves) = saves[1] BY <1>1, <1>3 DEF Shape
<1>5. start \notin {"saved", "saveError"} BY <1>2 DEF InsertSound, Saving
<1>6. Saves BY <1>3, <1>4, <1>5 DEF Saves
<1>7. start = "saving" => Head(saves) = "start" BY <1>2 DEF InsertSound
<1>8. mem \in MemRec /\ Read("saver") \in Row BY <1>1 DEF Shape, CallRec, Read, Workers
<1>9. mem.status = "running" /\ mem.persist # "durable" => Doomed \/ Head(saves) = "start"
  BY <1>2, <1>5, <1>7 DEF InsertSound
<1>10. registered \/ mem.disposed BY <1>2 DEF ExitSound
<1> QED BY <1>2, <1>5, <1>6, <1>7, <1>8, <1>9, <1>10

\* m is mem, up to what is known of its insert.
SameStored(m) ==
  /\ m \in MemRec /\ m.status = mem.status /\ m.completion = mem.completion /\ m.disposed = mem.disposed
  /\ m.failure = mem.failure /\ m.code = mem.code /\ m.dirty = mem.dirty /\ m.snapshot = mem.snapshot
  /\ StoreData(m) = StoreData(mem)

\* What is learned of the insert is not part of what is stored.
LEMMA PersistKnown ==
  ASSUME mem \in MemRec, NEW k \in {"absent", "durable", "uncertain"}
  PROVE  /\ SameStored(mem) /\ SameStored([mem EXCEPT !.persist = k])
         /\ [mem EXCEPT !.persist = k].persist = k
BY DEF SameStored, MemRec, StoreData

\* The save stored the object.
LEMMA SaveStores ==
  ASSUME SessionInv, SessionInv', CleanInv, Up, pc["saver"] \in Saving, pc["saver"] # "updateSync",
         NEW m, SameStored(m), SaverEnds(m, TRUE),
         Clean(mem) /\ ~Doomed /\ row.status = "running" => row = StoreData(mem),
         m.persist = "durable" \/ (m.persist = mem.persist /\ start # "saving")
  PROVE  CleanInv'
<1>1. EndSave(m, TRUE) /\ row' = row /\ queue' = queue /\ timer' = timer BY DEF SaverEnds
<1>2. Saves /\ ExitSound /\ InsertSound /\ start # "saveError" BY SavingContext
<1>3. ASSUME Head(saves) = "exit", row.status = "running" PROVE row = StoreData(m)
  <2>1. ~Doomed /\ ~mem.disposed BY <1>2, <1>3, ExitSave
  <2>2. mem.status = "running" /\ ~mem.dirty BY <1>2, <1>3, <2>1 DEF ExitSound
  <2> QED BY <1>3, <2>1, <2>2 DEF Clean, SameStored
<1>4. Clean(m) /\ ~Doomed /\ row.status = "running" => row = StoreData(m) BY DEF Clean, SameStored
<1>5. m.status = "running" /\ m.persist # "durable" => Doomed BY <1>2 DEF InsertSound, SameStored
<1> QED BY <1>1, <1>2, <1>3, <1>4, <1>5, EndSaveClean DEF SameStored

\* The save throws.
LEMMA SavingThrows ==
  ASSUME SessionInv, SessionInv', CleanInv, Up, pc["saver"] \in Saving, NEW m, SameStored(m), SaveThrows(m),
         m.persist = mem.persist \/ mem.persist # "durable"
  PROVE  CleanInv'
<1>1. /\ Saves /\ (mem.status = "running" /\ mem.persist # "durable" => Doomed \/ Head(saves) = "start")
  BY SavingContext
<1> QED BY <1>1, SaveThrowsClean DEF SameStored

\* The saver found the session ended.
LEMMA SavingEnded ==
  ASSUME SessionInv, SessionInv', CleanInv, Up, pc["saver"] \in Saving, IsTerminalStatus(Read("saver").status),
         SaverEnds(SynchronizedTerminal(mem, Read("saver")), TRUE)
  PROVE  CleanInv'
<1> DEFINE m == SynchronizedTerminal(mem, Read("saver"))
<1>1. Saves /\ mem \in MemRec /\ Read("saver") \in Row BY SavingContext
<1>2. m \in MemRec /\ m.failure = "complete" /\ m.disposed = TRUE BY <1>1, SynchronizedFields
<1>3. m.completion = mem.completion BY <1>1 DEF SynchronizedTerminal, MemRec
<1>4. EndSave(m, TRUE) /\ row' = row /\ queue' = queue /\ timer' = timer BY DEF SaverEnds
<1> HIDE DEF m
<1> QED BY <1>1, <1>2, <1>3, <1>4, EndSaveDisposed

\* What the saver read of its insert.
LEMMA ReconciledAs ==
  ASSUME mem \in MemRec
  PROVE  LET r == Reconciled(mem, Read("saver"))
         IN \/ Read("saver") = Absent /\ r[1] = [mem EXCEPT !.persist = "absent"] /\ r[2] = "absent"
            \/ Read("saver") = mem.snapshot /\ r[1] = [mem EXCEPT !.persist = "durable"] /\ r[2] = "durable"
            \/ /\ IsTerminalStatus(Read("saver").status) /\ r[2] = "terminal"
               /\ r[1] = SynchronizedTerminal(mem, Read("saver"))
            \/ r[1] = mem /\ r[2] = "mismatch"
BY DEF Reconciled

\* The insert is repeated, or its row is found.
LEMMA ReconcileClean ==
  ASSUME SessionInv, SessionInv', CleanInv, Up, Reconcile
  PROVE  CleanInv'
<1>1. pc["saver"] = "reconcile" /\ pc["saver"] \in Saving BY DEF Reconcile, Answered, Saving
<1>2. /\ Saves /\ CodeSound /\ InsertSound /\ ExitSound /\ mem \in MemRec /\ (registered \/ mem.disposed)
  BY <1>1, SavingContext
<1>3. mem.status = "running" => Doomed BY <1>1, <1>2 DEF InsertSound
<1> DEFINE r == Reconciled(mem, Read("saver"))
           data == call["saver"].data
<1>4. \/ SaveThrows(mem)
      \/ r[2] = "absent" /\ Insert(r[1], data)
      \/ r[2] \in {"durable", "terminal"} /\ SaverEnds(r[1], TRUE)
  BY <1>2, ReconciledAs DEF Reconcile
<1>5. \/ r[1] = [mem EXCEPT !.persist = "absent"] /\ r[2] = "absent"
      \/ r[1] = [mem EXCEPT !.persist = "durable"] /\ r[2] = "durable"
      \/ /\ IsTerminalStatus(Read("saver").status) /\ r[2] = "terminal"
         /\ r[1] = SynchronizedTerminal(mem, Read("saver"))
      \/ r[1] = mem /\ r[2] = "mismatch"
  BY <1>2, ReconciledAs
<1> HIDE DEF r
<1>6. CASE SaveThrows(mem) BY <1>1, <1>2, <1>6, PersistKnown, SavingThrows
<1>7. CASE r[2] = "absent" /\ Insert(r[1], data)
  <2> DEFINE y == [mem EXCEPT !.persist = "absent"]
             m == [y EXCEPT !.persist = "uncertain", !.snapshot = data]
             c == Sent("insert", data, "none")
  <2>1. SaverCalls(m, "insert", c) BY <1>5, <1>7 DEF Insert
  <2>2. /\ m.status = mem.status /\ m.completion = mem.completion /\ m.disposed = mem.disposed
        /\ m.failure = mem.failure /\ m.code = mem.code /\ m.dirty = mem.dirty /\ m.snapshot = data
    BY <1>2 DEF MemRec
  <2>3. c.state = "sent" /\ c.data = data BY DEF Sent, NoCall
  <2>4. data.code = "none" BY <1>1, <1>2 DEF CodeSound
  <2>5. Head(saves) = "exit" => m.disposed \/ (m.status = "running" /\ ~m.dirty)
    BY <1>1, <1>2, <2>2 DEF ExitSound
  <2> HIDE DEF y, m, c
  <2>6. "insert" \in SaverPoints \ {"idle"} BY DEF SaverPoints, Saving
  <2>7. m.status = "running" => Doomed BY <1>3, <2>2
  <2> QED BY <1>2, <2>1, <2>2, <2>3, <2>4, <2>5, <2>6, <2>7, SaverCallsClean DEF Clean
<1>8. CASE r[2] = "durable" /\ SaverEnds(r[1], TRUE)
  <2> DEFINE m == [mem EXCEPT !.persist = "durable"]
  <2>1. SameStored(m) /\ m.persist = "durable" /\ SaverEnds(m, TRUE)
    BY <1>2, <1>5, <1>8, PersistKnown
  <2> HIDE DEF m
  <2>2. Clean(mem) /\ ~Doomed /\ row.status = "running" => row = StoreData(mem) BY <1>3 DEF Clean
  <2> QED BY <1>1, <2>1, <2>2, SaveStores
<1>9. CASE r[2] = "terminal" /\ SaverEnds(r[1], TRUE) BY <1>1, <1>5, <1>9, SavingEnded
<1> QED BY <1>4, <1>6, <1>7, <1>8, <1>9

\* The insert is answered.
LEMMA InsertedClean ==
  ASSUME SessionInv, SessionInv', CleanInv, Up, Inserted
  PROVE  CleanInv'
<1>1. /\ pc["saver"] = "insert" /\ pc["saver"] \in Saving /\ call["saver"].state = "done"
  BY DEF Inserted, Answered, Saving
<1>2. /\ Saves /\ CleanSound /\ InsertSound /\ ExitSound /\ mem \in MemRec /\ (registered \/ mem.disposed)
  BY <1>1, SavingContext
<1>3. CASE Reply("saver") = "ok"
  <2> DEFINE m == [mem EXCEPT !.persist = "durable"]
  <2>1. SaverEnds(m, TRUE) /\ SameStored(m) /\ m.persist = "durable"
    BY <1>2, <1>3, PersistKnown DEF Inserted
  <2> HIDE DEF m
  <2>2. CallSound("insert", call["saver"], mem, row, accounted) BY <1>1, Parts DEF Workers
  <2>3. call["saver"].read = call["saver"].data
    BY <1>1, <1>3, <2>2 DEF CallSound, CallOf, Reply
  <2>4. Clean(mem) /\ ~Doomed /\ row.status = "running" => row = StoreData(mem)
    BY <1>1, <1>2, <2>3 DEF CleanSound
  <2> QED BY <1>1, <2>1, <2>4, SaveStores
<1>4. CASE Reply("saver") # "ok"
  <2> DEFINE c == Sent("read", Absent, "none")
  <2>1. SaverCalls(mem, "insertRead", c) BY <1>4 DEF Inserted
  <2>2. c.state = "sent" BY DEF Sent, NoCall
  <2> HIDE DEF c
  <2>3. "insertRead" \in SaverPoints \ {"idle"} BY DEF SaverPoints, Saving
  <2>4. Clean(mem) /\ ~Doomed => mem.snapshot = StoreData(mem) BY <1>1, <1>2 DEF CleanSound
  <2>5. mem.status = "running" /\ mem.persist # "durable" => start \in {"saving", "saveError"} \/ Doomed
    BY <1>2 DEF InsertSound
  <2>6. Head(saves) = "exit" => mem.disposed \/ (mem.status = "running" /\ ~mem.dirty)
    BY <1>1, <1>2 DEF ExitSound
  <2> QED BY <1>2, <2>1, <2>2, <2>3, <2>4, <2>5, <2>6, SaverCallsClean
<1> QED BY <1>3, <1>4

\* The row is read after an insert that was not acknowledged.
LEMMA InsertReadClean ==
  ASSUME SessionInv, SessionInv', CleanInv, Up, InsertRead
  PROVE  CleanInv'
<1>1. /\ pc["saver"] = "insertRead" /\ pc["saver"] \in Saving /\ call["saver"].state = "done"
  BY DEF InsertRead, Answered, Saving
<1>2. Saves /\ CleanSound /\ mem \in MemRec BY <1>1, SavingContext
<1> DEFINE r == Reconciled(mem, Read("saver"))
<1>3. \/ SaveThrows(mem)
      \/ r[2] = "absent" /\ SaveThrows(r[1])
      \/ r[2] \in {"durable", "terminal"} /\ SaverEnds(r[1], TRUE)
  BY <1>2, ReconciledAs DEF InsertRead
<1>4. \/ Read("saver") = Absent /\ r[1] = [mem EXCEPT !.persist = "absent"] /\ r[2] = "absent"
      \/ Read("saver") = mem.snapshot /\ r[1] = [mem EXCEPT !.persist = "durable"] /\ r[2] = "durable"
      \/ /\ IsTerminalStatus(Read("saver").status) /\ r[2] = "terminal"
         /\ r[1] = SynchronizedTerminal(mem, Read("saver"))
      \/ r[1] = mem /\ r[2] = "mismatch"
  BY <1>2, ReconciledAs
<1> HIDE DEF r
<1>5. CASE SaveThrows(mem) BY <1>1, <1>2, <1>5, PersistKnown, SavingThrows
<1>6. CASE r[2] = "absent" /\ SaveThrows(r[1])
  <2> DEFINE m == [mem EXCEPT !.persist = "absent"]
  <2>1. SameStored(m) /\ SaveThrows(m) BY <1>2, <1>4, <1>6, PersistKnown
  <2> HIDE DEF m
  <2>2. Read("saver") = Absent BY <1>4, <1>6
  <2>3. /\ CallSound("insertRead", call["saver"], mem, row, accounted)
        /\ SaverSound("insertRead", call["saver"], pc["chain"], chain, mem, row)
    BY <1>1, Parts DEF Workers
  <2>4. row = Absent BY <1>1, <2>2, <2>3 DEF CallSound, Read
  <2>5. mem.persist = "uncertain" BY <2>3, <2>4 DEF SaverSound
  <2> QED BY <1>1, <2>1, <2>5, SavingThrows
<1>7. CASE r[2] = "durable" /\ SaverEnds(r[1], TRUE)
  <2> DEFINE m == [mem EXCEPT !.persist = "durable"]
  <2>1. SameStored(m) /\ m.persist = "durable" /\ SaverEnds(m, TRUE)
    BY <1>2, <1>4, <1>7, PersistKnown
  <2> HIDE DEF m
  <2>2. call["saver"].read = mem.snapshot BY <1>4, <1>7 DEF Read
  <2>3. Clean(mem) /\ ~Doomed /\ row.status = "running" => row = StoreData(mem)
    BY <1>1, <1>2, <2>2 DEF CleanSound
  <2> QED BY <1>1, <2>1, <2>3, SaveStores
<1>8. CASE r[2] = "terminal" /\ SaverEnds(r[1], TRUE) BY <1>1, <1>4, <1>8, SavingEnded
<1> QED BY <1>3, <1>5, <1>6, <1>7, <1>8

\* The update is answered.
LEMMA UpdatedClean ==
  ASSUME SessionInv, SessionInv', CleanInv, Up, Updated
  PROVE  CleanInv'
<1>1. /\ pc["saver"] = "update" /\ pc["saver"] \in Saving /\ call["saver"].state = "done"
  BY DEF Updated, Answered, Saving
<1>2. /\ Saves /\ CleanSound /\ InsertSound /\ ExitSound /\ mem \in MemRec /\ (registered \/ mem.disposed)
  BY <1>1, SavingContext
<1>3. CallSound("update", call["saver"], mem, row, accounted) BY <1>1, Parts DEF Workers
<1>4. start # "saving" BY <1>1, <1>2 DEF InsertSound
<1>5. Reply("saver") \in {"ok", "no", "error"}
  BY <1>1, <1>3, Parts DEF Shape, CallRec, CallSound, Reply, Workers
<1>6. SameStored(mem) BY <1>2, PersistKnown
<1>7. CASE Reply("saver") = "ok"
  <2>1. SaverEnds(mem, TRUE) BY <1>7 DEF Updated
  <2>2. call["saver"].read = call["saver"].data
    BY <1>1, <1>3, <1>7 DEF CallSound, CallOf, Reply
  <2>3. Clean(mem) /\ ~Doomed /\ row.status = "running" => row = StoreData(mem)
    BY <1>1, <1>2, <2>2 DEF CleanSound
  <2> QED BY <1>1, <1>4, <1>6, <2>1, <2>3, SaveStores
<1>8. CASE Reply("saver") = "no"
  <2> DEFINE c == Sent("read", Absent, "none")
             m == [mem EXCEPT !.dirty = TRUE]
  <2>1. SaverCalls(m, "updateSync", c) BY <1>8 DEF Updated
  <2>2. c.state = "sent" BY DEF Sent, NoCall
  <2>3. /\ m.status = mem.status /\ m.completion = mem.completion /\ m.disposed = mem.disposed
        /\ m.failure = mem.failure /\ m.code = mem.code /\ m.dirty /\ m.persist = mem.persist
    BY <1>2 DEF MemRec
  <2> HIDE DEF c, m
  <2>4. "updateSync" \in SaverPoints \ {"idle"} BY DEF SaverPoints, Saving
  <2>5. mem.status = "running" /\ mem.persist # "durable" => start \in {"saving", "saveError"} \/ Doomed
    BY <1>2 DEF InsertSound
  <2>6. Head(saves) = "exit" => mem.disposed \/ mem.status = "running"
    BY <1>1, <1>2 DEF ExitSound
  <2> QED BY <1>2, <1>4, <2>1, <2>2, <2>3, <2>4, <2>5, <2>6, SaverCallsClean DEF Clean
<1>9. CASE Reply("saver") = "error"
  <2>1. SaveThrows(mem) BY <1>9 DEF Updated
  <2> QED BY <1>1, <1>6, <2>1, SavingThrows
<1> QED BY <1>5, <1>7, <1>8, <1>9

\* The row is read after an update that did not find it running.
LEMMA UpdateSyncClean ==
  ASSUME SessionInv, SessionInv', CleanInv, Up, UpdateSync
  PROVE  CleanInv'
<1>1. pc["saver"] \in Saving BY DEF UpdateSync, Answered, Saving
<1>2. mem \in MemRec BY <1>1, SavingContext
<1>3. \/ SaveThrows(mem)
      \/ /\ IsTerminalStatus(Read("saver").status)
         /\ SaverEnds(SynchronizedTerminal(mem, Read("saver")), TRUE)
  BY DEF UpdateSync
<1>4. CASE SaveThrows(mem) BY <1>1, <1>2, <1>4, PersistKnown, SavingThrows
<1> QED BY <1>1, <1>3, <1>4, SavingEnded

\* persistSession begins a save.
LEMMA PersistSessionClean ==
  ASSUME SessionInv, SessionInv', CleanInv, PersistSession
  PROVE  CleanInv'
<1>1. Up /\ pc["saver"] = "idle" /\ saves # <<>> /\ Head(saves) # "tail" BY DEF PersistSession
<1>2. start \notin {"saved", "saveError"} BY DEF PersistSession
<1>3. Saves BY <1>1, <1>2 DEF Saves
<1>4. /\ CleanSound /\ CodeSound /\ InsertSound /\ OperationSound /\ ExitSound
      /\ ObjectSound(mem) /\ Shape /\ mem \in MemRec /\ ChainSound(pc["chain"], chain, mem, row)
  BY Parts DEF CleanInv, Shape
<1>5. CASE mem.failure = "pending"
  <2>1. PersistFailedSession("saver") BY <1>5 DEF PersistSession
  <2>2. FailureGoes("saver") BY <1>1, <1>2, <1>5 DEF FailureGoes, FailingWorker
  <2> QED BY <1>5, <2>1, <2>2, PersistFailedClean DEF Workers
<1>6. CASE mem.failure = "complete"
  <2>1. PersistFailedEnds("saver", mem, TRUE) BY <1>6 DEF PersistSession
  <2>2. EndSave(mem, TRUE) /\ row' = row /\ queue' = queue /\ timer' = timer
    BY <2>1 DEF PersistFailedEnds
  <2>3. mem.disposed BY <1>4, <1>6 DEF ObjectSound
  <2> QED BY <1>3, <1>4, <1>6, <2>2, <2>3, EndSaveDisposed
<1>7. CASE mem.failure \in {"none", "preparing"}
  <2>1. PersistRunningSession BY <1>7 DEF PersistSession
  <2>2. CASE ~mem.dirty \/ mem.disposed \/ mem.status # "running"
    <3>1. EndSave(mem, TRUE) /\ row' = row /\ queue' = queue /\ timer' = timer
      BY <2>1, <2>2 DEF PersistRunningSession, SaverEnds
    <3>2. Clean(mem) /\ ~Doomed /\ row.status = "running" => row = StoreData(mem)
      BY <1>1, <1>4 DEF CleanSound
    <3>3. mem.status = "running" => ~mem.disposed /\ ~mem.dirty BY <1>4, <2>2 DEF ObjectSound
    <3>4. mem.status = "running" /\ mem.persist # "durable" => Doomed
      BY <1>1, <1>4, <1>2, <3>3 DEF InsertSound
    <3>5. ASSUME Head(saves) = "exit", row.status = "running" PROVE row = StoreData(mem)
      <4>1. ~Doomed /\ pc["chain"] = "idle" /\ registered /\ ~mem.disposed BY <1>3, <3>5, ExitSave
      <4>2. mem.status \notin {"unknown", "starting", "claimable"}
        BY <1>4, <4>1 DEF ExitSound, ObjectSound
      <4>3. mem.status # "committing"
        BY <1>4, <4>1 DEF ChainSound, Committing, Completing
      <4>4. mem.status # "failed"
        BY <1>4, <1>7, <4>1 DEF ObjectSound, OperationSound
      <4>5. mem.status = "running"
        BY <1>4, <4>2, <4>3, <4>4 DEF MemRec, FaucetSessionStatus
      <4> QED BY <3>2, <3>3, <3>5, <4>1, <4>5 DEF Clean
    <3> QED BY <1>3, <3>1, <3>2, <3>4, <3>5, EndSaveClean
  <2>3. CASE ~(~mem.dirty \/ mem.disposed \/ mem.status # "running")
    <3> DEFINE m == [mem EXCEPT !.dirty = FALSE]
    <3>1. /\ m \in MemRec /\ m.status = "running" /\ m.completion = mem.completion /\ m.disposed = mem.disposed
          /\ m.failure = mem.failure /\ m.code = mem.code /\ m.dirty = FALSE /\ m.persist = mem.persist
          /\ mem.status = "running"
      BY <1>4, <2>3 DEF MemRec
    <3>2. \/ m.persist = "absent" /\ Insert(m, StoreData(m))
          \/ m.persist = "uncertain" /\ SaverCalls(m, "reconcile", Sent("read", StoreData(m), "none"))
          \/ m.persist = "durable" /\ SaverCalls(m, "update", Sent("update", StoreData(m), "none"))
      <4>1. m.persist \in {"absent", "uncertain", "durable"} BY <3>1 DEF MemRec
      <4>2. CASE m.persist = "absent" BY <2>1, <2>3, <4>2 DEF PersistRunningSession
      <4>3. CASE m.persist = "uncertain" BY <2>1, <2>3, <4>3 DEF PersistRunningSession
      <4>4. CASE m.persist = "durable" BY <2>1, <2>3, <4>4 DEF PersistRunningSession
      <4> QED BY <4>1, <4>2, <4>3, <4>4
    <3> HIDE DEF m
    <3>3. registered BY <1>4, <3>1 DEF ExitSound, ObjectSound
    <3>4. StoreData(m).code = "none" BY <1>4, <3>1 DEF StoreData, CodeSound, Open
    <3>5. mem.persist # "durable" => start = "saving" \/ Doomed BY <1>4, <1>2, <3>1 DEF InsertSound
    <3>6. start = "saving" => mem.persist = "absent" BY <1>1, <1>4 DEF InsertSound
    <3>7. {"insert", "reconcile", "update"} \subseteq SaverPoints \ {"idle"} BY DEF SaverPoints, Saving
    <3>8. ASSUME NEW op, NEW d PROVE Sent(op, d, "none").state = "sent" /\ Sent(op, d, "none").data = d
      BY DEF Sent, NoCall
    <3>9. CASE m.persist = "absent" /\ Insert(m, StoreData(m))
      <4> DEFINE n == [m EXCEPT !.persist = "uncertain", !.snapshot = StoreData(m)]
                 c == Sent("insert", StoreData(m), "none")
      <4>1. SaverCalls(n, "insert", c) BY <3>9 DEF Insert
      <4>2. /\ n.status = m.status /\ n.completion = m.completion /\ n.disposed = m.disposed
            /\ n.failure = m.failure /\ n.code = m.code /\ n.dirty = m.dirty /\ n.snapshot = StoreData(m)
            /\ n.drop = m.drop /\ n.data = m.data
        BY <3>1 DEF MemRec
      <4>3. StoreData(n) = StoreData(m) BY <4>2 DEF StoreData
      <4>4. c.state = "sent" /\ c.data = StoreData(m) BY <3>8
      <4> HIDE DEF n, c
      <4> QED BY <1>3, <3>1, <3>3, <3>4, <3>5, <3>7, <3>9, <4>1, <4>2, <4>3, <4>4, SaverCallsClean
    <3>10. CASE m.persist = "uncertain" /\ SaverCalls(m, "reconcile", Sent("read", StoreData(m), "none"))
      <4> DEFINE c == Sent("read", StoreData(m), "none")
      <4>1. SaverCalls(m, "reconcile", c) /\ c.state = "sent" /\ c.data = StoreData(m) BY <3>8, <3>10
      <4> HIDE DEF c
      <4>2. Doomed /\ start # "saving" BY <3>1, <3>5, <3>6, <3>10
      <4> QED BY <1>3, <3>1, <3>3, <3>4, <3>7, <4>1, <4>2, SaverCallsClean
    <3>11. CASE m.persist = "durable" /\ SaverCalls(m, "update", Sent("update", StoreData(m), "none"))
      <4> DEFINE c == Sent("update", StoreData(m), "none")
      <4>1. SaverCalls(m, "update", c) /\ c.state = "sent" /\ c.data = StoreData(m) BY <3>8, <3>11
      <4> HIDE DEF c
      <4>2. start # "saving" BY <3>1, <3>6, <3>11
      <4> QED BY <1>3, <3>1, <3>3, <3>4, <3>7, <3>11, <4>1, <4>2, SaverCallsClean
    <3> QED BY <3>2, <3>9, <3>10, <3>11
  <2> QED BY <2>2, <2>3
<1> QED BY <1>4, <1>5, <1>6, <1>7 DEF MemRec

\* The chain goes on after the saves before it.
LEMMA TailReachedClean ==
  ASSUME SessionInv, SessionInv', CleanInv, TailReached
  PROVE  CleanInv'
<1> DEFINE at == IF pc["chain"] = "commitTail" THEN "commit" ELSE "persist"
<1>1. /\ CleanSound /\ CodeSound /\ InsertSound /\ OperationSound /\ ExitSound /\ Shape
      /\ SavesSound(saves, pc["chain"], pc["saver"])
  BY Parts DEF CleanInv
<1>2. /\ Up /\ pc["saver"] = "idle" /\ saves # <<>> /\ Head(saves) = "tail" /\ saves' = Tail(saves)
      /\ pc' = [pc EXCEPT !["chain"] = at] /\ call' = call
      /\ UNCHANGED <<row, mem, timer, registered, start, queue, phase>>
  BY DEF TailReached
<1>3. pc'["chain"] = at /\ pc'["saver"] = "idle" BY <1>1, <1>2 DEF Shape, Workers
<1>4. saves \in Seq(Savers) /\ 1 \in DOMAIN saves /\ saves[1] = "tail" BY <1>1, <1>2 DEF Shape
<1>5. pc["chain"] \in {"commitTail", "tail"} BY <1>1, <1>4 DEF SavesSound
<1>6. start # "saving" BY <1>1, <1>2 DEF InsertSound
<1>7. Doomed' = Doomed BY <1>2 DEF Doomed
<1>8. \A i \in DOMAIN saves' : i + 1 \in DOMAIN saves /\ saves'[i] = saves[i + 1] BY <1>2, <1>4
<1>9. CleanSound' BY <1>1, <1>2, <1>3, <1>7 DEF CleanSound
<1>10. CodeSound' BY <1>1, <1>2, <1>3 DEF CodeSound
<1>11. InsertSound' BY <1>1, <1>2, <1>3, <1>6, <1>7 DEF InsertSound
<1>12. OperationSound' BY <1>1, <1>2, <1>3, <1>5 DEF OperationSound
<1>13. ExitSound'
  <2>1. \A i \in DOMAIN saves' : saves'[i] = "exit" => phase' \in Ended
    BY <1>1, <1>2, <1>8 DEF ExitSound
  <2>2. CleanExitKeepsSession' BY <1>2 DEF CleanExitKeepsSession, Up
  <2>3. "idle" \notin Saving BY DEF Saving
  <2> QED BY <1>1, <1>2, <1>3, <2>1, <2>2, <2>3 DEF ExitSound
<1> QED BY <1>9, <1>10, <1>11, <1>12, <1>13 DEF CleanInv

\* Only the saver writes a running row.
LEMMA RunningRowWritten ==
  ASSUME SessionInv, NEW w \in Workers, call[w].state = "sent"
  PROVE  LET s == Effect(call[w])[1]
         IN \/ s = row
            \/ row # Absent /\ s.status # "running"
            \/ w = "saver" /\ pc["saver"] = "insert" /\ s = call["saver"].data
            \/ w = "saver" /\ pc["saver"] = "update" /\ s = call["saver"].data /\ row # Absent
<1> DEFINE c == call[w]
           s == Effect(c)[1]
<1>1. /\ CallSound(pc[w], c, mem, row, accounted) /\ pc["chain"] \in ChainPoints /\ c \in CallRec /\ row \in Row
  BY Parts DEF Shape, Workers
<1>2. \/ s = row
      \/ c.op = "insert" /\ row = Absent /\ s = c.data
      \/ c.op = "update" /\ row.status = "running" /\ s = c.data
      \/ c.op = "transition" /\ row.status = c.expected /\ s = c.data
      \/ /\ c.op = "timeout" /\ row.status = c.data.status
         /\ s = [row EXCEPT !.status = "failed", !.code = "timeout"]
  BY EffectMovesOn
<1>3. c.op = CallOf(pc[w]) BY <1>1 DEF CallSound
<1> HIDE DEF s, c
<1>4. CASE c.op \in {"insert", "update"} /\ s = c.data
  <2>1. pc[w] = c.op BY <1>3, <1>4 DEF CallOf
  <2>2. w = "saver" BY <1>1, <1>4, <2>1 DEF Workers, ChainPoints, Failing, Completing, TimingOut
  <2> QED BY <1>2, <1>4, <2>1, <2>2 DEF c, s, Absent
<1>5. CASE c.op = "transition" /\ row.status = c.expected /\ s = c.data
  <2>1. pc[w] \in {"failTransition", "claimable"} BY <1>3, <1>5 DEF CallOf
  <2>2. s.status \in {"failed", "claimable"} /\ row.status \in Open
    BY <1>1, <1>5, <2>1 DEF CallSound, Open
  <2> QED BY <2>2 DEF c, s, Open, Absent
<1>6. CASE /\ c.op = "timeout" /\ row.status = c.data.status
           /\ s = [row EXCEPT !.status = "failed", !.code = "timeout"]
  <2>1. row.status \in {"running", "claimable"} BY <1>1, <1>6 DEF CallSound
  <2>2. s.status = "failed" BY <1>1, <1>6 DEF Row
  <2> QED BY <2>1, <2>2 DEF c, s, Absent
<1> QED BY <1>2, <1>4, <1>5, <1>6 DEF c, s

\* The database executes a call.
LEMMA DbExecuteClean ==
  ASSUME SessionInv, SessionInv', CleanInv, Up, NEW w \in Workers, DbExecute(w)
  PROVE  CleanInv'
<1> DEFINE s == Effect(call[w])[1]
<1>1. PICK outcome \in {"answer", "lost", "error"} :
        /\ row' = IF outcome = "error" THEN row ELSE s
        /\ call' = [call EXCEPT ![w].state = "done", ![w].read = row',
                      ![w].reply = IF outcome = "answer" THEN Effect(call[w])[2] ELSE "error"]
  BY DEF DbExecute
<1>2. UNCHANGED <<mem, timer, registered, start, queue, saves, pc, phase>> BY DEF DbExecute
<1>3. /\ CleanSound /\ CodeSound /\ InsertSound /\ OperationSound /\ ExitSound /\ Shape BY Parts DEF CleanInv
<1>4. call[w].state = "sent" BY DEF DbExecute
<1>5. \/ row' = row
      \/ row # Absent /\ row'.status # "running"
      \/ w = "saver" /\ pc["saver"] = "insert" /\ row' = call["saver"].data
      \/ w = "saver" /\ pc["saver"] = "update" /\ row' = call["saver"].data /\ row # Absent
  BY <1>1, <1>4, RunningRowWritten
<1> HIDE DEF s
<1>6. /\ call'["saver"].data = call["saver"].data
      /\ w = "saver" => call'["saver"].read = row'
      /\ w = "chain" => call'["saver"] = call["saver"]
  BY <1>1, <1>3 DEF Shape, Workers, CallRec
<1>7. Doomed' = Doomed BY <1>2 DEF Doomed
<1>8. CleanSound'
  <2>1. Clean(mem)' = Clean(mem) /\ StoreData(mem)' = StoreData(mem) BY <1>2
  <2>2. call'["saver"].state = "done" /\ row'.status = "running" => row' = call'["saver"].read
    BY <1>3, <1>5, <1>6 DEF CleanSound, Workers
  <2> QED BY <1>2, <1>3, <1>5, <1>6, <1>7, <2>1, <2>2 DEF CleanSound
<1>9. CodeSound' BY <1>2, <1>3, <1>5, <1>6 DEF CodeSound
<1>10. InsertSound' BY <1>2, <1>3, <1>7 DEF InsertSound
<1>11. OperationSound' BY <1>2, <1>3 DEF OperationSound
<1>12. ExitSound'
  <2>1. CleanExitKeepsSession' BY <1>2 DEF CleanExitKeepsSession, Up
  <2>2. ~registered => mem.disposed \/ (row' = Absent /\ pc["saver"] \notin Saving /\ mem.status # "running")
    BY <1>3, <1>5 DEF ExitSound, Saving
  <2> QED BY <1>2, <1>3, <2>1, <2>2 DEF ExitSound
<1> QED BY <1>8, <1>9, <1>10, <1>11, <1>12 DEF CleanInv

\* The steps of the chain.
LEMMA ChainStepClean ==
  ASSUME SessionInv, SessionInv', CleanInv, Up, Chain
  PROVE  CleanInv'
<1>1. QueueSound(queue, pc["chain"]) BY Parts
<1>2. pc["chain"] # "idle" => Ongoing BY <1>1 DEF QueueSound, Ongoing
<1>3. CASE RunRewardOperation
  <2>1. Ongoing BY <1>3 DEF RunRewardOperation, Ongoing
  <2> QED BY <1>3, <2>1, RunRewardOperationClean
<1>4. CASE FailHooksEnd BY <1>2, <1>4, FailHooksEndClean DEF FailHooksEnd
<1>5. CASE PersistFailure
  <2>1. pc["chain"] = "persist" /\ PersistFailedSession("chain") BY <1>5 DEF PersistFailure
  <2>2. FailureGoes("chain") BY <2>1, Parts DEF FailureGoes, FailingWorker
  <2> QED BY <2>1, <2>2, PersistFailedClean DEF Workers
<1>6. CASE CompleteHooksEnd \/ Commit \/ Committed \/ CommitRead \/ SyncRead
  BY <1>2, <1>6, CompletingClean DEF CompleteHooksEnd, Commit, Committed, CommitRead, SyncRead, Answered
<1>7. CASE FactorHooksEnd BY <1>2, <1>7, FactorHooksEndClean DEF FactorHooksEnd
<1>8. CASE AccountingHooksEnd BY <1>2, <1>8, AccountingHooksEndClean DEF AccountingHooksEnd
<1>9. CASE TimeoutSaved \/ TimeoutDecided \/ TimeoutRead \/ TimeoutMissed \/ BareTimeout
  BY <1>2, <1>9, TimingOutClean
  DEF TimeoutSaved, TimeoutDecided, TimeoutRead, TimeoutMissed, BareTimeout, Answered
<1> QED BY <1>3, <1>4, <1>5, <1>6, <1>7, <1>8, <1>9 DEF Chain

\* A step of someone else than the two workers: what it may do to the object and to the queues.
LEMMA OutsideClean ==
  ASSUME SessionInv, SessionInv', CleanInv, Up, UNCHANGED <<row, pc, call, registered>>,
         NEW m, mem' = m, m.status = mem.status, m.persist = mem.persist, m.snapshot = mem.snapshot,
         m.code = mem.code, m.failure = mem.failure, m.disposed = mem.disposed,
         m.dirty \/ (m.dirty = mem.dirty /\ StoreData(m) = StoreData(mem)),
         m.completion => mem.completion \/ start' = "done",
         \/ queue' = queue
         \/ \E o \in OpRec : queue' = Append(queue, o) /\ (mem.status = "running" => o.kind # "setDrop"),
         saves' = saves \/ saves' = Append(saves, "timer"),
         start' = start \/ start' = "done",
         start' \in {"saving", "saved", "saveError"} => queue' = queue,
         start' # start /\ m.status = "running" /\ m.persist # "durable" => Doomed',
         phase' = phase \/ phase' = "stopped" \/ (phase' = "closed" /\ start \in {"new", "done"}),
         phase \in {"stopped", "closed", "saving"} /\ phase' # phase => phase' = "closed" /\ phase = "stopped",
         phase = "saving" => m = mem /\ queue' = queue
  PROVE  CleanInv'
<1>1. /\ CleanSound /\ CodeSound /\ InsertSound /\ OperationSound /\ ExitSound /\ Shape
      /\ SavesSound(saves, pc["chain"], pc["saver"]) /\ QueueSound(queue, pc["chain"])
  BY Parts DEF CleanInv
<1> DEFINE grown == /\ \A i \in DOMAIN queue : i \in DOMAIN queue' /\ queue'[i] = queue[i]
                    /\ queue # <<>> => queue' # <<>> /\ Head(queue') = Head(queue)
                    /\ mem.status = "running" => \A i \in DOMAIN queue' : queue'[i].kind # "setDrop"
<1>2. grown
  <2>1. CASE queue' = queue BY <1>1, <2>1 DEF OperationSound
  <2>2. ASSUME NEW o \in OpRec, queue' = Append(queue, o), mem.status = "running" => o.kind # "setDrop"
        PROVE  grown
    <3>1. queue \in Seq(OpRec) BY <1>1 DEF Shape
    <3>2. \A i \in DOMAIN queue : i \in DOMAIN queue' /\ queue'[i] = queue[i] BY <2>2, <3>1
    <3>3. \A i \in DOMAIN queue' : queue'[i] = o \/ (i \in DOMAIN queue /\ queue'[i] = queue[i])
      BY <2>2, <3>1
    <3>4. queue # <<>> => queue' # <<>> /\ Head(queue') = Head(queue) BY <2>2, <3>1
    <3> QED BY <1>1, <2>2, <3>2, <3>3, <3>4 DEF OperationSound
  <2> QED BY <2>1, <2>2
<1>3. Doomed => Doomed' BY <1>2 DEF Doomed
<1>4. /\ \A i \in DOMAIN saves' : saves'[i] = "exit" => \E j \in DOMAIN saves : saves[j] = "exit"
      /\ saves # <<>> => saves' # <<>> /\ Head(saves') = Head(saves)
  <2>1. saves \in Seq(Savers) BY <1>1 DEF Shape
  <2>2. CASE saves' = saves BY <2>2
  <2>3. CASE saves' = Append(saves, "timer")
    <3>1. \A i \in DOMAIN saves' : saves'[i] = "timer" \/ (i \in DOMAIN saves /\ saves'[i] = saves[i])
      BY <2>1, <2>3 DEF Savers
    <3>2. saves # <<>> => saves' # <<>> /\ Head(saves') = Head(saves) BY <2>1, <2>3 DEF Savers
    <3> QED BY <3>1, <3>2
  <2> QED BY <2>2, <2>3
<1>5. CleanSound'
  <2>1. Clean(m) /\ ~Doomed' => Clean(mem) /\ ~Doomed /\ StoreData(m) = StoreData(mem)
    BY <1>3 DEF Clean
  <2>2. Clean(m) /\ ~Doomed' =>
          /\ pc["saver"] \in {"insert", "insertRead"} => m.snapshot = StoreData(m)
          /\ pc["saver"] = "update" => call["saver"].data = StoreData(m)
          /\ pc["saver"] \notin {"insert", "insertRead", "update"} /\ row.status = "running" =>
               row = StoreData(m)
    BY <1>1, <2>1 DEF CleanSound
  <2>3. /\ pc["saver"] = "insert" => call["saver"].data = m.snapshot
        /\ call["saver"].state = "done" /\ row.status = "running" => row = call["saver"].read
    BY <1>1 DEF CleanSound
  <2> QED BY <2>2, <2>3 DEF CleanSound
<1>6. CodeSound' BY <1>1 DEF CodeSound
<1>7. InsertSound'
  <2>1. m.status = "running" /\ m.persist # "durable" => start' \in {"saving", "saveError"} \/ Doomed'
    BY <1>1, <1>3 DEF InsertSound
  <2>2. m.status = "running" /\ pc["saver"] = "reconcile" => Doomed' BY <1>1, <1>3 DEF InsertSound
  <2>3. start' \in {"saving", "saved", "saveError"} => start' = start OBVIOUS
  <2>4. start' = "saving" =>
          /\ queue' = <<>> /\ saves' # <<>> /\ Head(saves') = "start"
          /\ pc["saver"] \in {"idle", "insert", "insertRead"}
          /\ pc["saver"] = "idle" => m.status = "running" /\ m.dirty /\ m.persist = "absent"
    BY <1>1, <1>4, <2>3 DEF InsertSound
  <2>5. start' \in {"saved", "saveError"} => queue' = <<>> /\ pc["saver"] = "idle"
    BY <1>1, <2>3 DEF InsertSound
  <2>6. start' # "done" => ~m.completion BY <1>1 DEF InsertSound
  <2> QED BY <2>1, <2>2, <2>4, <2>5, <2>6 DEF InsertSound
<1>8. OperationSound'
  <2>1. pc["chain"] # "idle" => Head(queue') = Head(queue) BY <1>1, <1>2 DEF QueueSound
  <2> QED BY <1>1, <1>2, <2>1 DEF OperationSound
<1>9. ExitSound'
  <2>1. phase' \in Ended => phase = "saving" /\ phase' = "saving" BY DEF Ended, Up
  <2>2. \A i \in DOMAIN saves' : saves'[i] = "exit" => phase' \in Ended
    BY <1>1, <1>4 DEF ExitSound, Ended, Up
  <2>3. phase' \in {"closed"} \union Ended => start' \in {"new", "done"}
    BY <1>1, <2>1 DEF ExitSound, Ended
  <2>4. ASSUME pc["saver"] \in Saving, Head(saves') = "exit"
        PROVE  m.disposed \/ (m.status = "running" /\ (m.dirty => pc["saver"] = "updateSync"))
    <3>1. saves # <<>> BY <1>1, <2>4 DEF SavesSound, Saving
    <3>2. Head(saves) = "exit" /\ 1 \in DOMAIN saves /\ saves[1] = "exit" BY <1>1, <1>4, <2>4, <3>1 DEF Shape
    <3>3. phase = "saving" BY <1>1, <3>2 DEF ExitSound, Ended, Up
    <3> QED BY <1>1, <2>4, <3>2, <3>3 DEF ExitSound
  <2>5. CleanExitKeepsSession' BY <2>1 DEF CleanExitKeepsSession, Ended
  <2>6. phase' = "saving" => queue' = <<>> BY <1>1, <2>1 DEF ExitSound, Ended
  <2> QED BY <1>1, <2>2, <2>3, <2>4, <2>5, <2>6 DEF ExitSound
<1> QED BY <1>5, <1>6, <1>7, <1>8, <1>9 DEF CleanInv

\* completeSession and setSessionFailed.
LEMMA TerminalClean ==
  ASSUME SessionInv, NEW kind \in {"complete", "fail"}, Terminal(mem, kind)
  PROVE  \E m : /\ mem' = m /\ m.status = mem.status /\ m.persist = mem.persist /\ m.snapshot = mem.snapshot
                /\ m.code = mem.code /\ m.failure = mem.failure /\ m.disposed = mem.disposed
                /\ m.dirty = mem.dirty /\ StoreData(m) = StoreData(mem)
                /\ \/ m = mem /\ queue' = queue
                   \/ /\ CanAcceptRewardOperations
                      /\ \E o \in OpRec : queue' = Append(queue, o) /\ o.kind = kind
<1>1. mem \in MemRec BY Parts DEF Shape
<1>2. CASE mem' = mem /\ queue' = queue BY <1>2
<1>3. CASE ~(mem' = mem /\ queue' = queue)
  <2> DEFINE m == [mem EXCEPT !.completion = TRUE, !.cancel = @ \/ mem.depth > 0]
  <2>1. mem' = m /\ queue' = Append(queue, Op(kind, 0)) /\ CanAcceptRewardOperations
    BY <1>3 DEF Terminal
  <2>2. /\ m.status = mem.status /\ m.persist = mem.persist /\ m.snapshot = mem.snapshot
        /\ m.code = mem.code /\ m.failure = mem.failure /\ m.disposed = mem.disposed
        /\ m.dirty = mem.dirty /\ m.drop = mem.drop /\ m.data = mem.data
    BY <1>1 DEF MemRec
  <2>3. StoreData(m) = StoreData(mem) BY <2>2 DEF StoreData
  <2> HIDE DEF m
  <2>4. Op(kind, 0) \in OpRec /\ Op(kind, 0).kind = kind BY RequestedOp DEF Kinds
  <2> QED BY <2>1, <2>2, <2>3, <2>4
<1> QED BY <1>2, <1>3

\* Requests to a started session.
LEMMA RequestClean ==
  ASSUME SessionInv, SessionInv', CleanInv, Up, NEW kind \in {"reward", "penalty", "complete", "fail"}, Request(kind)
  PROVE  CleanInv'
<1>1. /\ start = "done" /\ phase \in {"open", "stopped"}
      /\ UNCHANGED <<row, pc, call, registered, saves, timer, start, phase>>
  BY DEF Request, unchangedByRequest, CanAcceptRewardOperations
<1>2. CASE kind \in {"reward", "penalty"}
  <2>1. queue' = Append(queue, Op(kind, 1)) /\ mem' = mem BY <1>2 DEF Request
  <2>2. Op(kind, 1) \in OpRec /\ Op(kind, 1).kind = kind BY <1>2, RequestedOp DEF Kinds
  <2>3. \E o \in OpRec : queue' = Append(queue, o) /\ (mem.status = "running" => o.kind # "setDrop")
    BY <1>2, <2>1, <2>2
  <2> QED BY <1>1, <2>1, <2>3, OutsideClean
<1>3. CASE kind \in {"complete", "fail"}
  <2>1. Terminal(mem, kind) BY <1>3 DEF Request
  <2>2. PICK m :
           /\ mem' = m /\ m.status = mem.status /\ m.persist = mem.persist /\ m.snapshot = mem.snapshot
           /\ m.code = mem.code /\ m.failure = mem.failure /\ m.disposed = mem.disposed
           /\ m.dirty = mem.dirty /\ StoreData(m) = StoreData(mem)
           /\ \/ m = mem /\ queue' = queue
              \/ /\ CanAcceptRewardOperations
                 /\ \E o \in OpRec : queue' = Append(queue, o) /\ o.kind = kind
    BY <1>3, <2>1, TerminalClean
  <2>3. \/ queue' = queue
        \/ \E o \in OpRec : queue' = Append(queue, o) /\ (mem.status = "running" => o.kind # "setDrop")
    BY <1>3, <2>2
  <2> QED BY <1>1, <2>2, <2>3, OutsideClean
<1> QED BY <1>2, <1>3

\* A module changes the session, the timer fires, the interval lists the row.
LEMMA WorkClean ==
  ASSUME SessionInv, SessionInv', CleanInv, Up, SetSessionData \/ SaveTimer \/ ProcessSessionTimeouts
  PROVE  CleanInv'
<1>1. Shape /\ InsertSound /\ mem \in MemRec /\ row \in Row BY Parts DEF CleanInv, Shape
<1>2. CASE SetSessionData
  <2> DEFINE m == LazySaved([mem EXCEPT !.data = @ + 1])
  <2>1. /\ mem' = m /\ phase \in {"open", "stopped", "closed"}
        /\ UNCHANGED <<row, pc, call, registered, saves, start, phase, queue>>
    BY <1>2 DEF SetSessionData, unchangedByRequest
  <2>2. /\ m.status = mem.status /\ m.persist = mem.persist /\ m.snapshot = mem.snapshot
        /\ m.code = mem.code /\ m.failure = mem.failure /\ m.disposed = mem.disposed
        /\ m.dirty = TRUE /\ m.completion = mem.completion
    BY <1>1 DEF MemRec, LazySaved
  <2> HIDE DEF m
  <2> QED BY <2>1, <2>2, OutsideClean
<1>3. CASE SaveTimer
  <2>1. /\ timer /\ timer' = FALSE /\ saves' = Append(saves, "timer") /\ mem' = mem
        /\ UNCHANGED <<row, pc, call, registered, start, phase, queue>>
    BY <1>3 DEF SaveTimer
  <2> QED BY <2>1, OutsideClean
<1>4. CASE ProcessSessionTimeouts
  <2> DEFINE t == Op("timeout", 0)
             o == [t EXCEPT !.listed = row]
  <2>1. /\ phase = "open" /\ start = "done" /\ queue' = Append(queue, o) /\ mem' = mem
        /\ UNCHANGED <<row, pc, call, registered, saves, timer, start, phase>>
    BY <1>4 DEF ProcessSessionTimeouts, unchangedByRequest, CanApplyRewards
  <2>2. t \in OpRec /\ t.kind = "timeout" BY RequestedOp DEF Kinds
  <2> HIDE DEF t
  <2>3. o \in OpRec /\ o.kind = "timeout" BY <1>1, <2>2 DEF OpRec
  <2> HIDE DEF o
  <2>4. \E p \in OpRec : queue' = Append(queue, p) /\ (mem.status = "running" => p.kind # "setDrop")
    BY <2>1, <2>3
  <2> QED BY <2>1, <2>4, OutsideClean
<1> QED BY <1>2, <1>3, <1>4

\* The start, without what it stores.
LEMMA StartWorkClean ==
  ASSUME SessionInv, SessionInv', CleanInv, Up,
         RegisterStartRollback \/ (\E amount \in 0..1 : SetDropAmount(amount))
           \/ StartFails \/ Activated \/ ActivationFails
  PROVE  CleanInv'
<1>1. /\ Shape /\ InsertSound /\ ExitSound
      /\ StartSound(mem, row, queue, saves, pc["chain"], pc["saver"])
  BY Parts DEF CleanInv
<1>2. UNCHANGED <<row, pc, call, registered, saves, timer, phase>>
  BY DEF RegisterStartRollback, SetDropAmount, StartFails, Activated, ActivationFails, unchangedByStart
<1>3. CASE RegisterStartRollback
  <2>1. UNCHANGED <<mem, queue, start>> BY <1>3 DEF RegisterStartRollback
  <2> QED BY <1>2, <2>1, OutsideClean
<1>4. ASSUME NEW amount \in 0..1, SetDropAmount(amount) PROVE CleanInv'
  <2>1. start = "hooks" /\ queue' = Append(queue, Op("setDrop", amount)) /\ UNCHANGED <<mem, start>>
        /\ phase # "saving"
    BY <1>4 DEF SetDropAmount, CanAcceptRewardOperations
  <2>2. mem.status # "running" BY <1>1, <2>1 DEF StartSound
  <2>3. amount \in Nat OBVIOUS
  <2>4. Op("setDrop", amount) \in OpRec BY <2>3, RequestedOp DEF Kinds
  <2>5. \E o \in OpRec : queue' = Append(queue, o) /\ (mem.status = "running" => o.kind # "setDrop")
    BY <2>1, <2>2, <2>4
  <2> QED BY <1>2, <2>1, <2>5, OutsideClean
<1>5. ASSUME NEW kind \in {"complete", "fail"}, Terminal(mem, kind), start' = "done", start # "done",
             mem.status = "running" /\ mem.persist # "durable" => Doomed'
      PROVE  CleanInv'
  <2>1. PICK m :
           /\ mem' = m /\ m.status = mem.status /\ m.persist = mem.persist /\ m.snapshot = mem.snapshot
           /\ m.code = mem.code /\ m.failure = mem.failure /\ m.disposed = mem.disposed
           /\ m.dirty = mem.dirty /\ StoreData(m) = StoreData(mem)
           /\ \/ m = mem /\ queue' = queue
              \/ /\ CanAcceptRewardOperations
                 /\ \E o \in OpRec : queue' = Append(queue, o) /\ o.kind = kind
    BY <1>5, TerminalClean
  <2>2. \/ queue' = queue
        \/ \E o \in OpRec : queue' = Append(queue, o) /\ (mem.status = "running" => o.kind # "setDrop")
    BY <2>1
  <2>3. phase = "saving" => m = mem /\ queue' = queue BY <2>1 DEF CanAcceptRewardOperations
  <2> QED BY <1>2, <1>5, <2>1, <2>2, <2>3, OutsideClean
<1>6. ASSUME start' = "done", start # "done", mem' = mem, queue' = queue,
             mem.status = "running" /\ mem.persist # "durable" => Doomed'
      PROVE  CleanInv'
  BY <1>2, <1>6, OutsideClean
<1>7. CASE StartFails
  <2>1. start = "hooks" /\ start' = "done" /\ Terminal(mem, "fail") BY <1>7 DEF StartFails
  <2>2. mem.status # "running" BY <1>1, <2>1 DEF StartSound
  <2> QED BY <1>5, <2>1, <2>2
<1>8. CASE Activated
  <2>1. /\ start = "saved" /\ start' = "done"
        /\ (UNCHANGED <<mem, queue>>) \/ Terminal(mem, "complete")
    BY <1>8 DEF Activated
  <2>2. mem.status = "running" /\ mem.persist # "durable" => Doomed BY <1>1, <2>1 DEF InsertSound
  <2>3. queue = <<>> BY <1>1, <2>1 DEF InsertSound
  <2>4. ~(mem.status = "running" /\ mem.persist # "durable") BY <2>2, <2>3 DEF Doomed
  <2> QED BY <1>5, <1>6, <2>1, <2>4
<1>9. CASE ActivationFails
  <2>1. start = "saveError" /\ start' = "done" BY <1>9 DEF ActivationFails
  <2>2. CASE mem.status = "failed"
    <3>1. UNCHANGED <<mem, queue>> BY <1>9, <2>2 DEF ActivationFails
    <3> QED BY <1>6, <2>1, <2>2, <3>1
  <2>3. CASE mem.status # "failed"
    <3>1. Terminal(mem, "fail") BY <1>9, <2>3 DEF ActivationFails
    <3>2. ~mem.completion /\ phase \in {"open", "stopped"}
      BY <1>1, <2>1 DEF InsertSound, ExitSound, Ended, Shape
    <3>3. queue' = Append(queue, Op("fail", 0))
      BY <3>1, <3>2 DEF Terminal, CanAcceptRewardOperations
    <3>4. Op("fail", 0) \in OpRec /\ Op("fail", 0).kind = "fail" BY RequestedOp DEF Kinds
    <3>5. Len(queue) + 1 \in DOMAIN queue' /\ queue'[Len(queue) + 1] = Op("fail", 0)
      BY <1>1, <3>3, <3>4 DEF Shape
    <3>6. Doomed' BY <3>4, <3>5 DEF Doomed
    <3> QED BY <1>5, <2>1, <3>1, <3>6
  <2> QED BY <2>2, <2>3
<1> QED BY <1>3, <1>4, <1>7, <1>8, <1>9

\* The hooks of the start begin.
LEMMA StartSessionClean ==
  ASSUME SessionInv, SessionInv', CleanInv, StartSession
  PROVE  CleanInv'
<1> DEFINE x == [mem EXCEPT !.status = "starting"]
<1>1. /\ start = "new" /\ start' = "hooks" /\ phase = "open" /\ mem' = x
      /\ UNCHANGED <<row, pc, call, phase, timer, registered, queue, saves>>
  BY DEF StartSession, unchangedByStart
<1>2. /\ CleanSound /\ CodeSound /\ InsertSound /\ OperationSound /\ ExitSound /\ mem \in MemRec
      /\ StartSound(mem, row, queue, saves, pc["chain"], pc["saver"])
      /\ StartSound(mem, row, queue, saves, pc["chain"], pc["saver"])'
  BY Parts DEF CleanInv, Shape, SessionInv
<1>3. /\ mem.status = "unknown" /\ queue = <<>> /\ pc["chain"] = "idle" /\ row = Absent /\ pc["saver"] = "idle"
  BY <1>1, <1>2 DEF StartSound
<1>4. /\ x.status = "starting" /\ x.completion = mem.completion /\ x.disposed = mem.disposed
      /\ x.failure = mem.failure /\ x.code = mem.code /\ x.snapshot = mem.snapshot
  BY <1>2 DEF MemRec
<1> HIDE DEF x
<1>5. CleanSound' BY <1>1, <1>2, <1>3, <1>4 DEF CleanSound, Clean
<1>6. CodeSound' BY <1>1, <1>2, <1>3, <1>4 DEF CodeSound, Open
<1>7. InsertSound' BY <1>1, <1>2, <1>4 DEF InsertSound
<1>8. OperationSound' BY <1>1, <1>2, <1>3, <1>4 DEF OperationSound
<1>9. ExitSound'
  <2>1. CleanExitKeepsSession' BY <1>1 DEF CleanExitKeepsSession
  <2>2. ~registered BY <1>2, <1>3 DEF ExitSound
  <2>3. "idle" \notin Saving /\ "open" \notin {"closed"} \union Ended BY DEF Saving, Ended
  <2> QED BY <1>1, <1>2, <1>3, <1>4, <2>1, <2>2, <2>3 DEF ExitSound
<1> QED BY <1>5, <1>6, <1>7, <1>8, <1>9 DEF CleanInv

\* The session starts to run, and its first save is asked for.
LEMMA ActivateClean ==
  ASSUME SessionInv, SessionInv', CleanInv, Up, Settled, Activate
  PROVE  CleanInv'
<1>1. /\ start = "hooks" /\ queue = <<>> /\ UNCHANGED <<row, pc, call, phase, queue>>
  BY DEF Activate, unchangedByStart
<1>2. /\ CleanSound /\ CodeSound /\ InsertSound /\ OperationSound /\ ExitSound /\ mem \in MemRec
      /\ StartSound(mem, row, queue, saves, pc["chain"], pc["saver"])
      /\ QueueSound(queue, pc["chain"])
  BY Parts DEF CleanInv, Shape
<1>3. CASE mem.status = "failed"
  <2>1. start' = "done" /\ UNCHANGED <<mem, timer, registered, saves>> BY <1>3 DEF Activate
  <2> QED BY <1>1, <1>3, <2>1, OutsideClean
<1>4. CASE mem.status # "failed"
  <2> DEFINE x == [mem EXCEPT !.status = "running", !.dirty = TRUE]
  <2>1. /\ start' = "saving" /\ mem' = x /\ registered' = TRUE /\ saves' = Append(saves, "start")
        /\ timer' = FALSE
    BY <1>4 DEF Activate
  <2>2. /\ mem.status = "starting" /\ mem.persist = "absent" /\ row = Absent
        /\ pc["saver"] = "idle" /\ pc["chain"] = "idle"
    BY <1>1, <1>2, <1>4 DEF StartSound, QueueSound
  <2>3. saves' = <<"start">> BY <2>1, <2>2 DEF Settled
  <2>4. /\ x.status = "running" /\ x.completion = mem.completion /\ x.disposed = mem.disposed
        /\ x.failure = mem.failure /\ x.code = mem.code /\ x.snapshot = mem.snapshot /\ x.dirty = TRUE
        /\ x.persist = mem.persist
    BY <1>2 DEF MemRec
  <2> HIDE DEF x
  <2>5. CleanSound' BY <1>1, <1>2, <2>1, <2>2, <2>4 DEF CleanSound, Clean
  <2>6. CodeSound' BY <1>1, <1>2, <2>1, <2>2, <2>4 DEF CodeSound, Open
  <2>7. InsertSound' BY <1>1, <1>2, <2>1, <2>2, <2>3, <2>4 DEF InsertSound
  <2>8. OperationSound' BY <1>1, <1>2, <2>1, <2>2, <2>4 DEF OperationSound
  <2>9. ExitSound'
    <3>1. CleanExitKeepsSession' BY <1>1 DEF CleanExitKeepsSession, Up
    <3>2. "idle" \notin Saving BY DEF Saving
    <3>3. \A i \in DOMAIN saves' : saves'[i] # "exit" BY <2>3
    <3>4. phase \notin {"closed"} \union Ended BY <1>1, <1>2 DEF ExitSound
    <3> QED BY <1>1, <1>2, <2>1, <2>2, <2>4, <3>1, <3>2, <3>3, <3>4 DEF ExitSound, Ended
  <2> QED BY <2>5, <2>6, <2>7, <2>8, <2>9 DEF CleanInv
<1> QED BY <1>3, <1>4

\* The shutdown.
LEMMA ShutdownClean ==
  ASSUME SessionInv, SessionInv', CleanInv, Up, Shutdown
  PROVE  CleanInv'
<1>1. UNCHANGED <<row, mem, registered, start, queue, pc, call>>
  BY DEF Shutdown, StopRewardOperations, CloseRewardOperations, SaveAllSessions, unchangedByShutdown
<1>2. CASE StopRewardOperations
  <2>1. phase = "open" /\ phase' = "stopped" /\ (timer' => timer) /\ saves' = saves
    BY <1>2 DEF StopRewardOperations
  <2> QED BY <1>1, <2>1, OutsideClean
<1>3. CASE CloseRewardOperations
  <2>1. phase = "stopped" /\ phase' = "closed" /\ timer' = timer /\ saves' = saves /\ start \in {"new", "done"}
    BY <1>3 DEF CloseRewardOperations
  <2> QED BY <1>1, <2>1, OutsideClean
<1>4. CASE SaveAllSessions
  <2>1. /\ phase = "closed" /\ queue = <<>> /\ timer' = timer
        /\ \/ registered /\ phase' = "saving" /\ saves' = Append(saves, "exit")
           \/ ~registered /\ phase' = "exited" /\ saves' = saves
    BY <1>4 DEF SaveAllSessions
  <2>2. /\ CleanSound /\ CodeSound /\ InsertSound /\ OperationSound /\ ExitSound /\ Shape /\ RowSound(mem, row)
        /\ SavesSound(saves, pc["chain"], pc["saver"])
    BY Parts DEF CleanInv
  <2>3. Doomed' = Doomed BY <1>1 DEF Doomed
  <2>4. start \in {"new", "done"} BY <2>1, <2>2 DEF ExitSound
  <2>5. CleanSound' BY <1>1, <2>2, <2>3 DEF CleanSound
  <2>6. CodeSound' BY <1>1, <2>2 DEF CodeSound
  <2>7. InsertSound' BY <1>1, <2>2, <2>3, <2>4 DEF InsertSound
  <2>8. OperationSound' BY <1>1, <2>2 DEF OperationSound
  <2>9. ExitSound'
    <3>1. CleanExitKeepsSession'
      <4>1. phase' = "exited" => mem.disposed \/ row = Absent BY <2>1, <2>2 DEF ExitSound
      <4>2. phase' = "exited" => row.status # "running" BY <2>2, <4>1 DEF RowSound, Absent
      <4> QED BY <1>1, <4>2 DEF CleanExitKeepsSession
    <3>2. \A i \in DOMAIN saves : saves[i] # "exit" BY <2>1, <2>2 DEF ExitSound, Ended
    <3>3. ~(pc["saver"] \in Saving /\ Head(saves') = "exit")
      <4> SUFFICES ASSUME pc["saver"] \in Saving PROVE Head(saves') # "exit" OBVIOUS
      <4>1. saves # <<>> BY <2>2 DEF SavesSound, Saving
      <4>2. saves \in Seq(Savers) /\ 1 \in DOMAIN saves /\ Head(saves) = saves[1] BY <2>2, <4>1 DEF Shape
      <4>3. Head(saves') = Head(saves) BY <2>1, <4>1, <4>2 DEF Savers
      <4> QED BY <3>2, <4>2, <4>3
    <3>4. phase' \in Ended BY <2>1 DEF Ended
    <3> QED BY <1>1, <2>1, <2>2, <2>4, <3>1, <3>3, <3>4 DEF ExitSound
  <2> QED BY <2>5, <2>6, <2>7, <2>8, <2>9 DEF CleanInv
<1> QED BY <1>2, <1>3, <1>4 DEF Shutdown

\* The process starts again, and restores what is stored.
LEMMA RestartClean ==
  ASSUME SessionInv, SessionInv', CleanInv, Restart
  PROVE  CleanInv'
<1> DEFINE live == [NewSession EXCEPT !.status = "running", !.drop = row.drop, !.data = row.data,
                                      !.persist = "durable"]
           dead == [NewSession EXCEPT !.disposed = TRUE]
<1>1. /\ start' = "done" /\ mem' = IF row.status = "running" THEN live ELSE dead
      /\ registered' = (row.status = "running") /\ queue' = <<>> /\ saves' = <<>> /\ phase' = "open"
      /\ pc' = [w \in Workers |-> "idle"] /\ call' = [w \in Workers |-> NoCall] /\ row' = row
  BY DEF Restart
<1>2. /\ pc'["saver"] = "idle" /\ pc'["chain"] = "idle" /\ call'["saver"] = NoCall BY <1>1 DEF Workers
<1>3. CodeSound /\ row \in Row BY Parts DEF CleanInv, Shape
<1>4. /\ live.status = "running" /\ live.drop = row.drop /\ live.data = row.data /\ live.code = "none"
      /\ live.persist = "durable" /\ live.failure = "none"
      /\ dead.status = "unknown" /\ dead.code = "none" /\ dead.failure = "none" /\ dead.disposed = TRUE
  BY DEF NewSession
<1>5. row.status = "running" => row = StoreData(live) BY <1>3, <1>4 DEF CodeSound, StoreData, Row
<1> HIDE DEF live, dead
<1>6. NoCall.state # "done" /\ "idle" \notin Saving BY DEF NoCall, Saving
<1>7. CleanSound' BY <1>1, <1>2, <1>4, <1>5, <1>6 DEF CleanSound, Clean
<1>8. CodeSound' BY <1>1, <1>2, <1>3, <1>4 DEF CodeSound
<1>9. InsertSound' BY <1>1, <1>2, <1>4 DEF InsertSound
<1>10. OperationSound' BY <1>1, <1>2, <1>4 DEF OperationSound
<1>11. ExitSound'
  <2>1. CleanExitKeepsSession' BY <1>1 DEF CleanExitKeepsSession
  <2>2. "open" \notin {"closed"} \union Ended BY DEF Ended
  <2>3. registered' => mem'.status \notin {"unknown", "starting"} BY <1>1, <1>4
  <2>4. ~registered' => mem'.disposed BY <1>1, <1>4
  <2>5. \A i \in DOMAIN saves' : saves'[i] # "exit" BY <1>1
  <2>6. queue' = <<>> /\ start' = "done" /\ phase' = "open" BY <1>1
  <2> QED BY <1>2, <1>6, <2>1, <2>2, <2>3, <2>4, <2>5, <2>6 DEF ExitSound
<1> QED BY <1>7, <1>8, <1>9, <1>10, <1>11 DEF CleanInv

\* Every step keeps what is said of a clean object.
LEMMA CleanNext ==
  ASSUME SessionInv, SessionInv', CleanInv, [Next]_vars
  PROVE  CleanInv'
<1>1. CASE PersistSession BY <1>1, PersistSessionClean
<1>2. CASE TailReached BY <1>2, TailReachedClean
<1>3. ASSUME Up, NEW w \in Workers, Worker(w) PROVE CleanInv'
  BY <1>3, DbExecuteClean, FailingClean DEF Worker
<1>4. CASE Up /\ Saver BY <1>4, ReconcileClean, InsertedClean, InsertReadClean, UpdatedClean, UpdateSyncClean DEF Saver
<1>5. CASE Up /\ Chain BY <1>5, ChainStepClean
<1>6. CASE Up /\ Settled /\ Start BY <1>6, StartSessionClean, StartWorkClean, ActivateClean DEF Start
<1>12. CASE Up /\ StartResumes BY <1>12, StartWorkClean DEF StartResumes
<1>7. CASE Up /\ Shutdown BY <1>7, ShutdownClean
<1>8. CASE Up /\ (SetSessionData \/ SaveTimer \/ ProcessSessionTimeouts) BY <1>8, WorkClean
<1>9. ASSUME Up, NEW kind \in {"reward", "penalty", "complete", "fail"}, Request(kind) PROVE CleanInv'
  BY <1>9, RequestClean
<1>10. CASE Restart BY <1>10, RestartClean
<1>11. CASE UNCHANGED vars
  <2>1. UNCHANGED <<row, mem, timer, registered, start, queue, saves, pc, call, phase>> BY <1>11 DEF vars
  <2>2. Doomed' = Doomed BY <2>1 DEF Doomed
  <2>3. CleanSound' BY <2>1, <2>2 DEF CleanInv, CleanSound
  <2>4. CodeSound' BY <2>1 DEF CleanInv, CodeSound
  <2>5. InsertSound' BY <2>1, <2>2 DEF CleanInv, InsertSound
  <2>6. OperationSound' BY <2>1 DEF CleanInv, OperationSound
  <2>7. ExitSound' BY <2>1 DEF CleanInv, ExitSound, CleanExitKeepsSession
  <2> QED BY <2>3, <2>4, <2>5, <2>6, <2>7 DEF CleanInv
<1> QED BY <1>1, <1>2, <1>3, <1>4, <1>5, <1>6, <1>7, <1>8, <1>9, <1>10, <1>11, <1>12 DEF Next

\* In the beginning nothing runs.
LEMMA InitClean == Init => CleanInv
<1> SUFFICES ASSUME Init PROVE CleanInv OBVIOUS
<1>1. /\ row = Absent /\ mem = NewSession /\ ~timer /\ ~registered /\ start = "new" /\ queue = <<>>
      /\ saves = <<>> /\ pc["saver"] = "idle" /\ pc["chain"] = "idle" /\ call["saver"] = NoCall
      /\ phase = "open"
  BY DEF Init, Workers
<1> QED BY <1>1 DEF CleanInv, CleanSound, CodeSound, InsertSound, OperationSound, ExitSound,
  CleanExitKeepsSession, Clean, NewSession, NoCall, Absent, Saving, Ended

\* A shutdown whose save step succeeded leaves in a running row, which the next start restores,
\* everything the object held: whatever the chain, the timer, the start and the lost replies of
\* the database did before, no reward is told to the hooks and then forgotten.
THEOREM CleanExit == SessionAssumption /\ Spec => []CleanExitKeepsSession
<1>1. Init => CleanInv BY InitClean
<1>2. SessionInv /\ SessionInv' /\ CleanInv /\ [Next]_vars => CleanInv' BY CleanNext
<1>3. CleanInv => CleanExitKeepsSession BY DEF CleanInv, ExitSound
<1> QED BY <1>1, <1>2, <1>3, SessionInvariance, PTL DEF Spec
=============================================================================
