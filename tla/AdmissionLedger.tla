--------------------------- MODULE AdmissionLedger ---------------------------
(***************************************************************************)
(* The in-process reservations that limits are checked against             *)
(* (src/src/session/AdmissionLedger.ts).  The ledger is synchronous: each  *)
(* of its methods is one operator on the next state, and SessionAdmission  *)
(* composes them into the steps of sessions.  bindings is the map of a     *)
(* reservation from subjects to binding orders, subjectIndex the inverse   *)
(* map the ledger keeps beside it; order 0 stands for a missing entry.     *)
(* Start times and claim ceilings are left out.                            *)
(***************************************************************************)
EXTENDS Naturals, FiniteSets

CONSTANTS Sessions,   \* session ids
          Subjects    \* the keys of IP addresses and target addresses

ASSUME LedgerAssumption == IsFiniteSet(Sessions)

VARIABLES reservations,      \* phase of the reservation of s, or "none"
          bindings,          \* bindings[s][k]: order of s at subject k
          subjectIndex,      \* subjectIndex[k][s]: the same, by subject
          nextBindingOrder   \* the last order handed out

ledgerVars == <<reservations, bindings, subjectIndex, nextBindingOrder>>

LedgerInit ==
  /\ reservations = [s \in Sessions |-> "none"]
  /\ bindings = [s \in Sessions |-> [k \in Subjects |-> 0]]
  /\ subjectIndex = [k \in Subjects |-> [s \in Sessions |-> 0]]
  /\ nextBindingOrder = 0

IsBound(s, k) == bindings[s][k] > 0

\* bind, for one subject: a new binding gets the next order.
Bind(s, k) ==
  IF IsBound(s, k)
    THEN UNCHANGED <<bindings, subjectIndex, nextBindingOrder>>
    ELSE /\ nextBindingOrder' = nextBindingOrder + 1
         /\ bindings' = [bindings EXCEPT ![s][k] = nextBindingOrder + 1]
         /\ subjectIndex' = [subjectIndex EXCEPT ![k][s] = nextBindingOrder + 1]

\* begin: a starting reservation, bound to one subject.
Begin(s, k) ==
  /\ reservations[s] = "none"
  /\ reservations' = [reservations EXCEPT ![s] = "starting"]
  /\ Bind(s, k)

\* Mutant: sessions that are still starting are not counted.
PriorRunning(s, k) ==
  {t \in Sessions \ {s} : subjectIndex[k][t] > 0 /\ reservations[t] \in {"running", "committing"}}

\* getPriorUsage for one subject: the other sessions bound to it that run, or
\* that start and were bound earlier.
PriorUsage(s, k) ==
  {t \in Sessions \ {s} :
     /\ subjectIndex[k][t] > 0
     /\ reservations[t] # "none"
     /\ reservations[t] = "starting" => subjectIndex[k][t] < bindings[s][k]}

\* markRunning and markCommitting.
Mark(s, phase) ==
  /\ reservations[s] # "none"
  /\ reservations' = [reservations EXCEPT ![s] = phase]
  /\ UNCHANGED <<bindings, subjectIndex, nextBindingOrder>>

\* Mutant: the subject index keeps the session.
RemoveBindingOnly(s, k) ==
  /\ bindings' = [bindings EXCEPT ![s][k] = 0]
  /\ UNCHANGED <<reservations, subjectIndex, nextBindingOrder>>

\* removeBinding, which commitMove and abortMove call; a reservation that was
\* released meanwhile has nothing to remove.
RemoveBinding(s, k) ==
  /\ bindings' = [bindings EXCEPT ![s][k] = 0]
  /\ subjectIndex' = [subjectIndex EXCEPT ![k][s] = 0]
  /\ UNCHANGED <<reservations, nextBindingOrder>>

\* release drops the reservation with all its bindings.
Release(s) ==
  /\ reservations' = [reservations EXCEPT ![s] = "none"]
  /\ bindings' = [bindings EXCEPT ![s] = [k \in Subjects |-> 0]]
  /\ subjectIndex' = [k \in Subjects |-> [subjectIndex[k] EXCEPT ![s] = 0]]
  /\ UNCHANGED nextBindingOrder
=============================================================================
