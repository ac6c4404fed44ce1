-------------------------- MODULE SessionAdmission ---------------------------
(***************************************************************************)
(* How sessions pass through the admission ledger: the SessionStart hooks  *)
(* of FaucetSession.ts with the checks of the concurrency-limit and the    *)
(* recurring-limits modules, the commit of a session, its failure, and the *)
(* change of its IP address.  Every await between two steps lets other     *)
(* sessions run, so limits are checked while others start, move and end.   *)
(***************************************************************************)
EXTENDS AdmissionLedger

CONSTANTS Ips, Addrs,          \* the two kinds of subjects
          None,                \* no address yet
          ConcurrencyLimit,    \* concurrencyLimit, per IP and per address
          LimitCount,          \* limitCount of a recurring limit by address
          MaxBindings          \* bound on the binding orders handed out

ASSUME AdmissionAssumption ==
  /\ Subjects = Ips \union Addrs /\ Ips \intersect Addrs = {}
  /\ None \notin Subjects
  /\ ConcurrencyLimit \in Nat /\ LimitCount \in Nat /\ MaxBindings \in Nat

VARIABLES stage,   \* stage[s]: where the session stands
          ip,      \* ip[s]: remoteIP
          addr,    \* addr[s]: targetAddr
          row,     \* row[s]: status of the row of s in the database
          usage,   \* usage[s]: prior usage noted by the recurring-limits check
          ended,   \* ended[s]: ended sessions its database query returned
          moving,  \* moving[s]: "no", or where the change of remoteIP stands
          oldIp    \* oldIp[s]: the remoteIP the change started from

flow == <<stage, ip, addr, row, usage, ended, moving, oldIp>>
vars == <<ledgerVars, flow>>

Init ==
  /\ LedgerInit
  /\ stage = [s \in Sessions |-> "new"]
  /\ ip = [s \in Sessions |-> None]
  /\ addr = [s \in Sessions |-> None]
  /\ row = [s \in Sessions |-> "none"]
  /\ usage = [s \in Sessions |-> {}]
  /\ ended = [s \in Sessions |-> {}]
  /\ moving = [s \in Sessions |-> "no"]
  /\ oldIp = [s \in Sessions |-> None]

Enter(s, st) == stage' = [stage EXCEPT ![s] = st]
CanBind == nextBindingOrder < MaxBindings

-----------------------------------------------------------------------------
(* startSession and its hooks.                                             *)

StartSession(s, i) ==
  /\ stage[s] = "new" /\ CanBind
  /\ Begin(s, i)
  /\ ip' = [ip EXCEPT ![s] = i]
  /\ Enter(s, "begun")
  /\ UNCHANGED <<addr, row, usage, ended, moving, oldIp>>

\* The hook of priority 5 binds the target address.
SetTargetAddr(s, a) ==
  /\ stage[s] = "begun" /\ CanBind
  /\ Bind(s, a)
  /\ addr' = [addr EXCEPT ![s] = a]
  /\ Enter(s, "addressed")
  /\ UNCHANGED <<reservations, ip, row, usage, ended, moving, oldIp>>

\* Any other hook, or the maintenance flag, may reject the session.
StartRejected(s) ==
  /\ stage[s] \in {"begun", "addressed", "limited", "cleared"}
  /\ Enter(s, "failing")
  /\ UNCHANGED <<ledgerVars, ip, addr, row, usage, ended, moving, oldIp>>

\* checkLimit of the concurrency-limit module with scope ip-or-address.
BelowLimit(s) ==
  \A k \in {ip[s], addr[s]} : Cardinality(PriorUsage(s, k)) < ConcurrencyLimit

CheckConcurrency(s) ==
  /\ stage[s] = "addressed"
  /\ Enter(s, IF BelowLimit(s) THEN "limited" ELSE "failing")
  /\ UNCHANGED <<ledgerVars, ip, addr, row, usage, ended, moving, oldIp>>

\* prepareLimitCheck of the recurring-limits module: the prior usage is noted
\* before the database is asked for ended sessions.
PrepareLimitCheck(s) ==
  /\ stage[s] = "limited"
  /\ Bind(s, addr[s])
  /\ usage' = [usage EXCEPT ![s] = PriorUsage(s, addr[s])]
  /\ Enter(s, "querying")
  /\ UNCHANGED <<reservations, ip, addr, row, ended, moving, oldIp>>

GetFinishedSessions(s) ==
  /\ stage[s] = "querying"
  /\ ended' = [ended EXCEPT ![s] = {t \in Sessions : addr[t] = addr[s] /\ row[t] = "claimable"}]
  /\ Enter(s, "queried")
  /\ UNCHANGED <<ledgerVars, ip, addr, row, usage, moving, oldIp>>

\* Mutant: prior usage is ignored, only the database counts.
EndedOnly(s) == Cardinality(ended[s])

\* excludeCommittedUsage: a session is not counted twice.
UsedCount(s) == Cardinality(ended[s] \union usage[s])

CheckRecurring(s) ==
  /\ stage[s] = "queried"
  /\ Enter(s, IF UsedCount(s) < LimitCount THEN "cleared" ELSE "failing")
  /\ usage' = [usage EXCEPT ![s] = {}]
  /\ ended' = [ended EXCEPT ![s] = {}]
  /\ UNCHANGED <<ledgerVars, ip, addr, row, moving, oldIp>>

\* The session is RUNNING in memory before its row is inserted.
Activate(s) ==
  /\ stage[s] = "cleared"
  /\ Mark(s, "running")
  /\ Enter(s, "running")
  /\ UNCHANGED <<ip, addr, row, usage, ended, moving, oldIp>>

InsertRunningSession(s) ==
  /\ stage[s] = "running" /\ row[s] = "none"
  /\ row' = [row EXCEPT ![s] = "running"]
  /\ UNCHANGED <<ledgerVars, stage, ip, addr, usage, ended, moving, oldIp>>

-----------------------------------------------------------------------------
(* The end of a session.                                                   *)

\* finishSession before the row is written.
MarkCommitting(s) ==
  /\ stage[s] = "running" /\ row[s] = "running"
  /\ Mark(s, "committing")
  /\ Enter(s, "committing")
  /\ UNCHANGED <<ip, addr, row, usage, ended, moving, oldIp>>

TransitionSession(s) ==
  /\ stage[s] = "committing" /\ row[s] = "running"
  /\ row' = [row EXCEPT ![s] = "claimable"]
  /\ UNCHANGED <<ledgerVars, stage, ip, addr, usage, ended, moving, oldIp>>

\* finishSession after the claimable row is durable.
FinishSession(s) ==
  /\ stage[s] = "committing" /\ row[s] = "claimable"
  /\ Release(s)
  /\ Enter(s, "ended")
  /\ UNCHANGED <<ip, addr, row, usage, ended, moving, oldIp>>

\* A running session fails, or its completion does before the row changed.
SetSessionFailed(s) ==
  /\ stage[s] \in {"running", "committing"} /\ row[s] # "claimable"
  /\ Enter(s, "failing")
  /\ UNCHANGED <<ledgerVars, ip, addr, row, usage, ended, moving, oldIp>>

\* finalizeFailedSession, once the failure is persisted if there is a row.
FinalizeFailedSession(s) ==
  /\ stage[s] = "failing"
  /\ row' = [row EXCEPT ![s] = IF @ = "running" THEN "failed" ELSE @]
  /\ Release(s)
  /\ Enter(s, "ended")
  /\ UNCHANGED <<ip, addr, usage, ended, moving, oldIp>>

-----------------------------------------------------------------------------
(* applyRemoteIpUpdate: one change at a time, also while the session ends. *)

\* A client connects from another address to a session that was RUNNING when
\* the change was queued.
PrepareMove(s, i) ==
  /\ reservations[s] \in {"running", "committing"}
  /\ moving[s] = "no" /\ i # ip[s] /\ CanBind
  /\ Bind(s, i)
  /\ oldIp' = [oldIp EXCEPT ![s] = ip[s]]
  /\ ip' = [ip EXCEPT ![s] = i]
  /\ moving' = [moving EXCEPT ![s] = "unchecked"]
  /\ UNCHANGED <<reservations, stage, addr, row, usage, ended>>

\* The SessionIpChange hook repeats the concurrency check; without a
\* reservation it raises an exception.
CheckMove(s) ==
  /\ moving[s] = "unchecked"
  /\ moving' = [moving EXCEPT ![s] = IF reservations[s] # "none" /\ BelowLimit(s)
                                       THEN "checked" ELSE "rejected"]
  /\ UNCHANGED <<ledgerVars, stage, ip, addr, row, usage, ended, oldIp>>

\* The row is saved and the binding of the old address removed.
CommitMove(s) ==
  /\ moving[s] = "checked"
  /\ RemoveBinding(s, oldIp[s])
  /\ moving' = [moving EXCEPT ![s] = "no"]
  /\ oldIp' = [oldIp EXCEPT ![s] = None]
  /\ UNCHANGED <<stage, ip, addr, row, usage, ended>>

\* A hook or the save failed: back to the old address.  The new one was never
\* bound before the change (newSubjectWasBound is false): an address is unbound
\* when the session leaves it.
AbortMove(s) ==
  /\ moving[s] \in {"rejected", "checked"}
  /\ RemoveBinding(s, ip[s])
  /\ ip' = [ip EXCEPT ![s] = oldIp[s]]
  /\ moving' = [moving EXCEPT ![s] = "no"]
  /\ oldIp' = [oldIp EXCEPT ![s] = None]
  /\ UNCHANGED <<stage, addr, row, usage, ended>>

\* One step of session s.
Step(s) ==
  \/ \E i \in Ips : StartSession(s, i) \/ PrepareMove(s, i)
  \/ \E a \in Addrs : SetTargetAddr(s, a)
  \/ StartRejected(s) \/ CheckConcurrency(s)
  \/ PrepareLimitCheck(s) \/ GetFinishedSessions(s) \/ CheckRecurring(s)
  \/ Activate(s) \/ InsertRunningSession(s)
  \/ MarkCommitting(s) \/ TransitionSession(s) \/ FinishSession(s)
  \/ SetSessionFailed(s) \/ FinalizeFailedSession(s)
  \/ CheckMove(s) \/ CommitMove(s) \/ AbortMove(s)

Next == \E s \in Sessions : Step(s)

Spec == Init /\ [][Next]_vars

-----------------------------------------------------------------------------
(* Properties.                                                             *)

Stages == {"new", "begun", "addressed", "limited", "querying", "queried", "cleared",
           "running", "committing", "failing", "ended"}

\* Every variable has the shape the code gives it.
TypeOK ==
  /\ reservations \in [Sessions -> {"none", "starting", "running", "committing"}]
  /\ bindings \in [Sessions -> [Subjects -> Nat]]
  /\ subjectIndex \in [Subjects -> [Sessions -> Nat]]
  /\ nextBindingOrder \in Nat
  /\ stage \in [Sessions -> Stages]
  /\ ip \in [Sessions -> Ips \union {None}]
  /\ addr \in [Sessions -> Addrs \union {None}]
  /\ row \in [Sessions -> {"none", "running", "claimable", "failed"}]
  /\ usage \in [Sessions -> SUBSET Sessions]
  /\ ended \in [Sessions -> SUBSET Sessions]
  /\ moving \in [Sessions -> {"no", "unchecked", "checked", "rejected"}]
  /\ oldIp \in [Sessions -> Ips \union {None}]

\* The index a check consults and the bindings of the reservations never
\* disagree, and only live reservations are indexed, whatever moves, failures
\* and releases overlap.
IndexMatchesBindings ==
  \A s \in Sessions : \A k \in Subjects :
    /\ subjectIndex[k][s] = bindings[s][k]
    /\ reservations[s] = "none" => ~IsBound(s, k)

\* Sessions whose concurrency check at subject k has passed.
Admitted(k) ==
  {s \in Sessions :
     /\ IsBound(s, k)
     /\ stage[s] \in {"limited", "querying", "queried", "cleared", "running", "committing"}
     /\ k = ip[s] => moving[s] \in {"no", "checked"}}

\* concurrencyLimit holds for every IP and every address although checks,
\* starts, moves and ends of different sessions interleave.
ConcurrencyBound == \A k \in Subjects : Cardinality(Admitted(k)) <= ConcurrencyLimit

\* limitCount holds for every address: sessions that ended with a reward and
\* sessions that may still earn one are never more than allowed, although the
\* database is read after the reservations and while other sessions commit.
RecurringBound ==
  \A a \in Addrs :
    Cardinality({s \in Sessions : addr[s] = a
                  /\ \/ row[s] = "claimable"
                     \/ stage[s] \in {"cleared", "running", "committing"}}) <= LimitCount
=============================================================================
