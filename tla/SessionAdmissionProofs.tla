----------------------- MODULE SessionAdmissionProofs ------------------------
(***************************************************************************)
(* The concurrency limit holds for every number of sessions, IPs and       *)
(* addresses.  ConcurrencyBound alone is not inductive: a session may pass *)
(* its check while sessions bound after it are admitted already, and these *)
(* are not counted.  The inductive invariant bounds the larger set of all  *)
(* sessions bound no later than some admitted one.  A session that joins   *)
(* is in that set already, or it comes after the whole set and has counted *)
(* it.  The second part proves the recurring limit in the same way; there  *)
(* a check has two reads, and what commits between them is counted by one  *)
(* of them.                                                                *)
(***************************************************************************)
EXTENDS SessionAdmission, SequenceTheorems, FiniteSetTheorems, TLAPS

\* Sessions bound to k before s.
Before(s, k) == {t \in Sessions : 0 < bindings[t][k] /\ bindings[t][k] < bindings[s][k]}

\* Sessions bound to k no later than some session admitted at k.
UpToAdmitted(k) ==
  {t \in Sessions : IsBound(t, k) /\ \E s \in Admitted(k) : bindings[t][k] <= bindings[s][k]}

Checked == {"limited", "querying", "queried", "cleared", "running", "committing"}

\* Orders at a subject are distinct and handed out in increasing order.
OrdersDistinct ==
  \A k \in Subjects : \A s \in Sessions :
    /\ bindings[s][k] <= nextBindingOrder
    /\ \A t \in Sessions : s # t /\ IsBound(s, k) => bindings[s][k] # bindings[t][k]

\* Which subjects a session is bound to at each stage.
StageShape ==
  \A s \in Sessions :
    /\ reservations[s] = "none" <=> stage[s] \in {"new", "ended"}
    /\ reservations[s] \in {"running", "committing"} => stage[s] \in {"running", "committing", "failing"}
    /\ stage[s] \in {"addressed"} \union Checked => addr[s] \in Addrs /\ IsBound(s, addr[s])
    /\ stage[s] # "new" => ip[s] \in Ips
    /\ stage[s] \in {"new", "begun"} => addr[s] = None
    /\ moving[s] # "no" =>
         /\ stage[s] \in {"running", "committing", "failing", "ended"}
         /\ oldIp[s] \in Ips /\ oldIp[s] # ip[s]
    /\ \A k \in Subjects : IsBound(s, k) =>
         k = ip[s] \/ k = addr[s] \/ (moving[s] # "no" /\ k = oldIp[s])

\* The strengthened bound.
FewUpToAdmitted == \A k \in Subjects : Cardinality(UpToAdmitted(k)) <= ConcurrencyLimit

\* The inductive invariant.
IInv == TypeOK /\ IndexMatchesBindings /\ OrdersDistinct /\ StageShape /\ FewUpToAdmitted

-----------------------------------------------------------------------------

\* Sets of sessions are finite, and smaller sets have fewer elements.
LEMMA SubsetBound ==
  ASSUME NEW S \in SUBSET Sessions, NEW T \in SUBSET S
  PROVE  /\ IsFiniteSet(S) /\ Cardinality(S) \in Nat
         /\ Cardinality(T) \in Nat /\ Cardinality(T) <= Cardinality(S)
<1>1. IsFiniteSet(S) BY FS_Subset, LedgerAssumption
<1>2. IsFiniteSet(T) /\ Cardinality(T) <= Cardinality(S) BY <1>1, FS_Subset
<1> QED BY <1>1, <1>2, FS_CardinalityType

\* A step after which nobody new is up to an admitted session keeps the bound.
LEMMA ShrinkKeepsBound ==
  ASSUME FewUpToAdmitted, \A k \in Subjects : UpToAdmitted(k)' \subseteq UpToAdmitted(k)
  PROVE  FewUpToAdmitted'
<1> SUFFICES ASSUME NEW k \in Subjects
             PROVE  Cardinality(UpToAdmitted(k)') <= ConcurrencyLimit
  BY DEF FewUpToAdmitted
<1>1. UpToAdmitted(k) \in SUBSET Sessions BY DEF UpToAdmitted
<1>2. UpToAdmitted(k)' \in SUBSET UpToAdmitted(k) OBVIOUS
<1>3. Cardinality(UpToAdmitted(k)') <= Cardinality(UpToAdmitted(k))
      /\ Cardinality(UpToAdmitted(k)') \in Nat /\ Cardinality(UpToAdmitted(k)) \in Nat
  BY <1>1, <1>2, SubsetBound
<1> QED BY <1>3, AdmissionAssumption DEF FewUpToAdmitted

\* Everyone bound to k before s is counted by the check of s.
LEMMA BeforeIsCounted ==
  ASSUME TypeOK, IndexMatchesBindings, NEW s \in Sessions, NEW k \in Subjects
  PROVE  Before(s, k) \subseteq PriorUsage(s, k)
<1> SUFFICES ASSUME NEW t \in Before(s, k) PROVE t \in PriorUsage(s, k)
  OBVIOUS
<1>1. t \in Sessions /\ 0 < bindings[t][k] /\ bindings[t][k] < bindings[s][k]
  BY DEF Before
<1>2. bindings[t][k] \in Nat /\ bindings[s][k] \in Nat BY <1>1 DEF TypeOK
<1>3. t # s BY <1>1, <1>2
<1>4. subjectIndex[k][t] = bindings[t][k] /\ reservations[t] # "none"
  BY <1>1, <1>2 DEF IndexMatchesBindings, IsBound
<1> QED BY <1>1, <1>2, <1>3, <1>4 DEF PriorUsage

\* A session that passes its check at k joins without exceeding the limit.
LEMMA JoinKeepsBound ==
  ASSUME TypeOK, IndexMatchesBindings, OrdersDistinct, FewUpToAdmitted,
         NEW s \in Sessions, NEW k \in Subjects,
         Cardinality(PriorUsage(s, k)) < ConcurrencyLimit,
         bindings' = bindings,
         Admitted(k)' \subseteq Admitted(k) \union {s}
  PROVE  Cardinality(UpToAdmitted(k)') <= ConcurrencyLimit
<1> DEFINE U == UpToAdmitted(k)
<1>t. \A t \in Sessions : bindings[t][k] \in Nat BY DEF TypeOK
<1>u. U \in SUBSET Sessions /\ UpToAdmitted(k)' \in SUBSET Sessions BY DEF UpToAdmitted
<1>a. Admitted(k) \subseteq Sessions BY DEF Admitted
<1>1. CASE \E t \in Admitted(k) : bindings[s][k] <= bindings[t][k]
  <2>1. UpToAdmitted(k)' \in SUBSET U
    BY <1>1, <1>t, <1>a DEF UpToAdmitted, IsBound
  <2>2. Cardinality(UpToAdmitted(k)') <= Cardinality(U)
        /\ Cardinality(UpToAdmitted(k)') \in Nat /\ Cardinality(U) \in Nat
    BY <2>1, <1>u, SubsetBound
  <2> QED BY <2>2, AdmissionAssumption DEF FewUpToAdmitted
<1>2. CASE \A t \in Admitted(k) : bindings[t][k] < bindings[s][k]
  <2>1. UpToAdmitted(k)' \in SUBSET (Before(s, k) \union {s})
    <3> SUFFICES ASSUME NEW x \in UpToAdmitted(k)', x # s PROVE x \in Before(s, k)
      OBVIOUS
    <3>1. x \in Sessions /\ 0 < bindings[x][k]
      BY DEF UpToAdmitted, IsBound
    <3>2. PICK t \in Admitted(k) \union {s} : bindings[x][k] <= bindings[t][k]
      BY DEF UpToAdmitted
    <3>3. bindings[x][k] <= bindings[s][k]
      BY <3>1, <3>2, <1>2, <1>t, <1>a
    <3>4. bindings[x][k] # bindings[s][k]
      BY <3>1 DEF OrdersDistinct, IsBound
    <3> QED BY <3>1, <3>3, <3>4, <1>t DEF Before
  <2>2. Before(s, k) \in SUBSET PriorUsage(s, k) /\ PriorUsage(s, k) \in SUBSET Sessions
        /\ Before(s, k) \union {s} \in SUBSET Sessions
    BY BeforeIsCounted DEF PriorUsage, Before
  <2>3. Cardinality(Before(s, k)) < ConcurrencyLimit /\ Cardinality(Before(s, k)) \in Nat
    <3>1. Cardinality(Before(s, k)) <= Cardinality(PriorUsage(s, k))
          /\ Cardinality(Before(s, k)) \in Nat /\ Cardinality(PriorUsage(s, k)) \in Nat
      BY <2>2, SubsetBound
    <3> QED BY <3>1, AdmissionAssumption
  <2>4. Cardinality(Before(s, k) \union {s}) <= ConcurrencyLimit
    <3>f. Before(s, k) \in SUBSET Sessions BY DEF Before
    <3>g. IsFiniteSet(Before(s, k)) BY <3>f, LedgerAssumption, FS_Subset
    <3>h. s \notin Before(s, k) BY <1>t DEF Before
    <3>1. IsFiniteSet(Before(s, k)) /\ s \notin Before(s, k) BY <3>g, <3>h
    <3>2. Cardinality(Before(s, k) \union {s}) = Cardinality(Before(s, k)) + 1
      BY <3>1, FS_AddElement
    <3> QED BY <3>2, <2>3, AdmissionAssumption
  <2>5. Cardinality(UpToAdmitted(k)') <= Cardinality(Before(s, k) \union {s})
        /\ Cardinality(UpToAdmitted(k)') \in Nat /\ Cardinality(Before(s, k) \union {s}) \in Nat
    BY <2>1, <2>2, SubsetBound
  <2> QED BY <2>4, <2>5, AdmissionAssumption
<1> QED BY <1>1, <1>2, <1>t, <1>a

\* A step that admits nobody, and binds nobody but to an order above all others
\* and without admission, keeps the bound.
LEMMA QuietKeepsBound ==
  ASSUME TypeOK, TypeOK', OrdersDistinct, FewUpToAdmitted,
         \A k \in Subjects : Admitted(k)' \subseteq Admitted(k),
         \A k \in Subjects : \A t \in Sessions :
           \/ bindings'[t][k] \in {0, bindings[t][k]}
           \/ bindings'[t][k] > nextBindingOrder /\ t \notin Admitted(k)'
  PROVE  FewUpToAdmitted'
<1> SUFFICES ASSUME NEW k \in Subjects, NEW t \in UpToAdmitted(k)'
             PROVE  t \in UpToAdmitted(k)
  BY ShrinkKeepsBound
<1>t. \A u \in Sessions : bindings[u][k] \in Nat /\ bindings'[u][k] \in Nat BY DEF TypeOK
<1>n. nextBindingOrder \in Nat BY DEF TypeOK
<1>1. t \in Sessions /\ 0 < bindings'[t][k] BY DEF UpToAdmitted, IsBound
<1>2. PICK a \in Admitted(k)' : bindings'[t][k] <= bindings'[a][k] BY DEF UpToAdmitted
<1>3. a \in Admitted(k) /\ a \in Sessions BY <1>2 DEF Admitted
<1>4. bindings'[a][k] = bindings[a][k] BY <1>1, <1>2, <1>3, <1>t
<1>5. bindings[a][k] <= nextBindingOrder BY <1>3 DEF OrdersDistinct
<1>6. bindings'[t][k] = bindings[t][k] BY <1>1, <1>2, <1>3, <1>4, <1>5, <1>t, <1>n
<1> QED BY <1>1, <1>2, <1>3, <1>4, <1>6 DEF UpToAdmitted, IsBound

-----------------------------------------------------------------------------

\* Initially nobody is bound.
LEMMA InitIInv == Init => IInv
<1> SUFFICES ASSUME Init PROVE IInv OBVIOUS
<1> USE DEF Init, LedgerInit
<1>1. TypeOK BY DEF TypeOK, Stages
<1>2. IndexMatchesBindings BY DEF IndexMatchesBindings, IsBound
<1>3. OrdersDistinct BY DEF OrdersDistinct, IsBound
<1>4. StageShape BY DEF StageShape, IsBound, Checked
<1>5. FewUpToAdmitted
  <2> SUFFICES ASSUME NEW k \in Subjects PROVE Cardinality(UpToAdmitted(k)) <= ConcurrencyLimit
    BY DEF FewUpToAdmitted
  <2>1. UpToAdmitted(k) = {} BY DEF UpToAdmitted, IsBound
  <2> QED BY <2>1, FS_EmptySet, AdmissionAssumption
<1> QED BY <1>1, <1>2, <1>3, <1>4, <1>5 DEF IInv

\* What bind changes: one entry of each map, to an order above all others.
LEMMA BindEffect ==
  ASSUME TypeOK, NEW s \in Sessions, NEW k \in Subjects, Bind(s, k)
  PROVE  /\ bindings' \in [Sessions -> [Subjects -> Nat]]
         /\ subjectIndex' \in [Subjects -> [Sessions -> Nat]]
         /\ nextBindingOrder' \in Nat /\ nextBindingOrder <= nextBindingOrder'
         /\ 0 < bindings'[s][k]
         /\ \A t \in Sessions : \A j \in Subjects : t # s \/ j # k =>
              bindings'[t][j] = bindings[t][j] /\ subjectIndex'[j][t] = subjectIndex[j][t]
         /\ \/ bindings' = bindings /\ subjectIndex' = subjectIndex
               /\ nextBindingOrder' = nextBindingOrder /\ IsBound(s, k)
            \/ bindings'[s][k] = nextBindingOrder' /\ subjectIndex'[k][s] = nextBindingOrder'
               /\ nextBindingOrder < nextBindingOrder'
<1>1. CASE IsBound(s, k) BY <1>1 DEF Bind, TypeOK, IsBound
<1>2. CASE ~IsBound(s, k)
  <2> DEFINE n == nextBindingOrder + 1
  <2>1. /\ bindings' = [bindings EXCEPT ![s][k] = n]
        /\ subjectIndex' = [subjectIndex EXCEPT ![k][s] = n]
        /\ nextBindingOrder' = n
    BY <1>2 DEF Bind
  <2>2. n \in Nat /\ 0 < n /\ nextBindingOrder < n /\ nextBindingOrder <= n BY DEF TypeOK
  <2> HIDE DEF n
  <2>3. bindings' \in [Sessions -> [Subjects -> Nat]] BY <2>1, <2>2 DEF TypeOK
  <2>4. subjectIndex' \in [Subjects -> [Sessions -> Nat]] BY <2>1, <2>2 DEF TypeOK
  <2>5. \A t \in Sessions : \A j \in Subjects : t # s \/ j # k =>
          bindings'[t][j] = bindings[t][j] /\ subjectIndex'[j][t] = subjectIndex[j][t]
    BY <2>1 DEF TypeOK
  <2>6. bindings'[s][k] = n /\ subjectIndex'[k][s] = n BY <2>1 DEF TypeOK
  <2> QED BY <2>1, <2>2, <2>3, <2>4, <2>5, <2>6
<1> QED BY <1>1, <1>2

\* One step keeps the types.
LEMMA TypeStep == IInv /\ [Next]_vars => TypeOK'
<1> SUFFICES ASSUME TypeOK, StageShape, [Next]_vars PROVE TypeOK'
  BY DEF IInv
<1> USE DEF TypeOK, Stages, Enter
<1>u. CASE UNCHANGED vars BY <1>u DEF vars, ledgerVars, flow
<1>n. ASSUME NEW s \in Sessions, Step(s) PROVE TypeOK'
  <2>1. ASSUME NEW i \in Ips, StartSession(s, i) PROVE TypeOK'
    <3>1. i \in Subjects /\ Bind(s, i) BY <2>1, AdmissionAssumption DEF StartSession, Begin
    <3> QED BY <2>1, <3>1, BindEffect DEF StartSession, Begin
  <2>2. ASSUME NEW i \in Ips, PrepareMove(s, i) PROVE TypeOK'
    <3>1. i \in Subjects /\ Bind(s, i) BY <2>2, AdmissionAssumption DEF PrepareMove
    <3> QED BY <2>2, <3>1, BindEffect DEF PrepareMove
  <2>3. ASSUME NEW a \in Addrs, SetTargetAddr(s, a) PROVE TypeOK'
    <3>1. a \in Subjects /\ Bind(s, a) BY <2>3, AdmissionAssumption DEF SetTargetAddr
    <3> QED BY <2>3, <3>1, BindEffect DEF SetTargetAddr
  <2>4. CASE StartRejected(s) BY <2>4 DEF StartRejected, ledgerVars
  <2>5. CASE CheckConcurrency(s) BY <2>5 DEF CheckConcurrency, ledgerVars
  <2>6. CASE PrepareLimitCheck(s)
    <3>1. addr[s] \in Subjects /\ IsBound(s, addr[s])
      BY <2>6, AdmissionAssumption DEF PrepareLimitCheck, StageShape, Checked
    <3>2. PriorUsage(s, addr[s]) \in SUBSET Sessions BY DEF PriorUsage
    <3> QED BY <2>6, <3>1, <3>2 DEF PrepareLimitCheck, Bind
  <2>7. CASE GetFinishedSessions(s) BY <2>7 DEF GetFinishedSessions, ledgerVars
  <2>8. CASE CheckRecurring(s) BY <2>8 DEF CheckRecurring, ledgerVars
  <2>9. CASE Activate(s) BY <2>9 DEF Activate, Mark
  <2>10. CASE InsertRunningSession(s) BY <2>10 DEF InsertRunningSession, ledgerVars
  <2>11. CASE MarkCommitting(s) BY <2>11 DEF MarkCommitting, Mark
  <2>12. CASE TransitionSession(s) BY <2>12 DEF TransitionSession, ledgerVars
  <2>13. CASE FinishSession(s) BY <2>13 DEF FinishSession, Release
  <2>14. CASE SetSessionFailed(s) BY <2>14 DEF SetSessionFailed, ledgerVars
  <2>15. CASE FinalizeFailedSession(s) BY <2>15 DEF FinalizeFailedSession, Release
  <2>16. CASE CheckMove(s) BY <2>16 DEF CheckMove, ledgerVars
  <2>17. CASE CommitMove(s) BY <2>17, AdmissionAssumption DEF CommitMove, RemoveBinding, StageShape
  <2>18. CASE AbortMove(s) BY <2>18, AdmissionAssumption DEF AbortMove, RemoveBinding, StageShape
  <2> QED BY <1>n, <2>1, <2>2, <2>3, <2>4, <2>5, <2>6, <2>7, <2>8, <2>9, <2>10, <2>11, <2>12,
             <2>13, <2>14, <2>15, <2>16, <2>17, <2>18 DEF Step
<1> QED BY <1>u, <1>n DEF Next

\* One step keeps the index in line with the bindings, and the orders distinct.
LEMMA IndexStep == IInv /\ [Next]_vars => IndexMatchesBindings' /\ OrdersDistinct'
<1> DEFINE Sound == IndexMatchesBindings /\ OrdersDistinct
<1> SUFFICES ASSUME TypeOK, StageShape, IndexMatchesBindings, OrdersDistinct, [Next]_vars
             PROVE  Sound'
  BY DEF IInv
<1>same. ASSUME UNCHANGED <<bindings, subjectIndex, nextBindingOrder>>,
                \A t \in Sessions : reservations'[t] = "none" => reservations[t] = "none"
         PROVE  Sound'
  BY <1>same DEF IndexMatchesBindings, OrdersDistinct, IsBound
<1>bind. ASSUME NEW s \in Sessions, NEW k \in Subjects, Bind(s, k), reservations'[s] # "none",
                \A t \in Sessions \ {s} : reservations'[t] = reservations[t]
         PROVE  Sound'
  <2>t. \A t \in Sessions : \A j \in Subjects : bindings[t][j] \in Nat BY DEF TypeOK
  <2>n. nextBindingOrder \in Nat BY DEF TypeOK
  <2>e. /\ nextBindingOrder' \in Nat /\ nextBindingOrder <= nextBindingOrder'
        /\ \A t \in Sessions : \A j \in Subjects : t # s \/ j # k =>
              bindings'[t][j] = bindings[t][j] /\ subjectIndex'[j][t] = subjectIndex[j][t]
        /\ \/ bindings' = bindings /\ subjectIndex' = subjectIndex
              /\ nextBindingOrder' = nextBindingOrder
           \/ bindings'[s][k] = nextBindingOrder' /\ subjectIndex'[k][s] = nextBindingOrder'
              /\ nextBindingOrder < nextBindingOrder'
    BY <1>bind, BindEffect
  <2>1. IndexMatchesBindings'
    BY <1>bind, <2>e DEF IndexMatchesBindings, IsBound
  <2>2. OrdersDistinct'
    BY <2>e, <2>t, <2>n DEF OrdersDistinct, IsBound
  <2> QED BY <2>1, <2>2
<1>rem. ASSUME NEW s \in Sessions, NEW k \in Subjects, RemoveBinding(s, k)
        PROVE  Sound'
  <2>1. /\ \A t \in Sessions : \A j \in Subjects :
              /\ bindings'[t][j] = IF t = s /\ j = k THEN 0 ELSE bindings[t][j]
              /\ subjectIndex'[j][t] = IF t = s /\ j = k THEN 0 ELSE subjectIndex[j][t]
        /\ reservations' = reservations /\ nextBindingOrder' = nextBindingOrder
    BY <1>rem DEF RemoveBinding, TypeOK
  <2>2. IndexMatchesBindings' BY <2>1 DEF IndexMatchesBindings, IsBound
  <2>3. OrdersDistinct' BY <2>1 DEF OrdersDistinct, IsBound, TypeOK
  <2> QED BY <2>2, <2>3
<1>rel. ASSUME NEW s \in Sessions, Release(s) PROVE Sound'
  <2>1. /\ \A t \in Sessions : \A j \in Subjects :
              /\ bindings'[t][j] = IF t = s THEN 0 ELSE bindings[t][j]
              /\ subjectIndex'[j][t] = IF t = s THEN 0 ELSE subjectIndex[j][t]
        /\ \A t \in Sessions : t # s => reservations'[t] = reservations[t]
        /\ nextBindingOrder' = nextBindingOrder
    BY <1>rel DEF Release, TypeOK
  <2>2. IndexMatchesBindings' BY <2>1 DEF IndexMatchesBindings, IsBound
  <2>3. OrdersDistinct' BY <2>1 DEF OrdersDistinct, IsBound, TypeOK
  <2> QED BY <2>2, <2>3
<1> HIDE DEF Sound
<1>u. CASE UNCHANGED vars BY <1>u, <1>same DEF vars, ledgerVars
<1>n. ASSUME NEW s \in Sessions, Step(s) PROVE Sound'
  <2>1. ASSUME NEW i \in Ips, StartSession(s, i) PROVE Sound'
    BY <2>1, <1>bind, AdmissionAssumption DEF StartSession, Begin, TypeOK
  <2>2. ASSUME NEW i \in Ips, PrepareMove(s, i) PROVE Sound'
    BY <2>2, <1>bind, AdmissionAssumption DEF PrepareMove, TypeOK
  <2>3. ASSUME NEW a \in Addrs, SetTargetAddr(s, a) PROVE Sound'
    BY <2>3, <1>bind, AdmissionAssumption DEF SetTargetAddr, StageShape, TypeOK
  <2>4. CASE StartRejected(s) BY <2>4, <1>same DEF StartRejected, ledgerVars
  <2>5. CASE CheckConcurrency(s) BY <2>5, <1>same DEF CheckConcurrency, ledgerVars
  <2>6. CASE PrepareLimitCheck(s)
    BY <2>6, <1>same DEF PrepareLimitCheck, Bind, StageShape, Checked
  <2>7. CASE GetFinishedSessions(s) BY <2>7, <1>same DEF GetFinishedSessions, ledgerVars
  <2>8. CASE CheckRecurring(s) BY <2>8, <1>same DEF CheckRecurring, ledgerVars
  <2>9. CASE Activate(s) BY <2>9, <1>same DEF Activate, Mark, TypeOK
  <2>10. CASE InsertRunningSession(s) BY <2>10, <1>same DEF InsertRunningSession, ledgerVars
  <2>11. CASE MarkCommitting(s) BY <2>11, <1>same DEF MarkCommitting, Mark, TypeOK
  <2>12. CASE TransitionSession(s) BY <2>12, <1>same DEF TransitionSession, ledgerVars
  <2>13. CASE FinishSession(s) BY <2>13, <1>rel DEF FinishSession
  <2>14. CASE SetSessionFailed(s) BY <2>14, <1>same DEF SetSessionFailed, ledgerVars
  <2>15. CASE FinalizeFailedSession(s) BY <2>15, <1>rel DEF FinalizeFailedSession
  <2>16. CASE CheckMove(s) BY <2>16, <1>same DEF CheckMove, ledgerVars
  <2>17. CASE CommitMove(s) BY <2>17, <1>rem, AdmissionAssumption DEF CommitMove, StageShape
  <2>18. CASE AbortMove(s) BY <2>18, <1>rem, AdmissionAssumption DEF AbortMove, StageShape, TypeOK
  <2> QED BY <1>n, <2>1, <2>2, <2>3, <2>4, <2>5, <2>6, <2>7, <2>8, <2>9, <2>10, <2>11, <2>12,
             <2>13, <2>14, <2>15, <2>16, <2>17, <2>18 DEF Step
<1> QED BY <1>u, <1>n DEF Next

\* One step keeps the correspondence of stages and bindings.
LEMMA ShapeStep == IInv /\ [Next]_vars => StageShape'
<1> SUFFICES ASSUME TypeOK, TypeOK', IndexMatchesBindings, StageShape, [Next]_vars
             PROVE  StageShape'
  BY TypeStep DEF IInv
<1>i. /\ Ips \subseteq Subjects /\ Addrs \subseteq Subjects /\ None \notin Subjects
      /\ \A i \in Ips : \A a \in Addrs : i # a
  BY AdmissionAssumption
<1>u. CASE UNCHANGED vars BY <1>u DEF vars, ledgerVars, flow, StageShape, IsBound
<1>n. ASSUME NEW s \in Sessions, Step(s) PROVE StageShape'
  <2> USE DEF StageShape, IsBound, Enter, Checked
  <2>1. ASSUME NEW i \in Ips, StartSession(s, i) PROVE StageShape'
    BY <2>1, <1>i, BindEffect DEF StartSession, Begin, TypeOK, IndexMatchesBindings
  <2>2. ASSUME NEW i \in Ips, PrepareMove(s, i) PROVE StageShape'
    <3>0. i \in Subjects /\ Bind(s, i) BY <2>2, <1>i DEF PrepareMove
    <3>1. \A t \in Sessions : \A j \in Subjects : t # s \/ j # i => bindings'[t][j] = bindings[t][j]
      BY <3>0, BindEffect
    <3>2. 0 < bindings'[s][i] BY <3>0, BindEffect
    <3>3. /\ stage[s] \in {"running", "committing", "failing"} /\ ip[s] \in Ips /\ i # ip[s]
          /\ moving[s] = "no" /\ moving'[s] = "unchecked" /\ oldIp'[s] = ip[s] /\ ip'[s] = i
      BY <2>2 DEF PrepareMove, TypeOK
    <3>4. \A t \in Sessions : t # s =>
            moving'[t] = moving[t] /\ oldIp'[t] = oldIp[t] /\ ip'[t] = ip[t]
      BY <2>2 DEF PrepareMove, TypeOK
    <3>5. reservations' = reservations /\ stage' = stage /\ addr' = addr
      BY <2>2 DEF PrepareMove
    <3> QED BY <3>1, <3>2, <3>3, <3>4, <3>5, <1>i
  <2>3. ASSUME NEW a \in Addrs, SetTargetAddr(s, a) PROVE StageShape'
    <3>0. a \in Subjects /\ Bind(s, a) BY <2>3, <1>i DEF SetTargetAddr
    <3>1. \A t \in Sessions : \A j \in Subjects : t # s \/ j # a => bindings'[t][j] = bindings[t][j]
      BY <3>0, BindEffect
    <3>2. 0 < bindings'[s][a] BY <3>0, BindEffect
    <3> QED BY <2>3, <3>1, <3>2, <1>i DEF SetTargetAddr, TypeOK
  <2>4. CASE StartRejected(s) BY <2>4 DEF StartRejected, ledgerVars, TypeOK
  <2>5. CASE CheckConcurrency(s) BY <2>5 DEF CheckConcurrency, ledgerVars, TypeOK
  <2>6. CASE PrepareLimitCheck(s) BY <2>6 DEF PrepareLimitCheck, Bind, TypeOK
  <2>7. CASE GetFinishedSessions(s) BY <2>7 DEF GetFinishedSessions, ledgerVars, TypeOK
  <2>8. CASE CheckRecurring(s) BY <2>8 DEF CheckRecurring, ledgerVars, TypeOK
  <2>9. CASE Activate(s) BY <2>9 DEF Activate, Mark, TypeOK
  <2>10. CASE InsertRunningSession(s) BY <2>10 DEF InsertRunningSession, ledgerVars, TypeOK
  <2>11. CASE MarkCommitting(s) BY <2>11 DEF MarkCommitting, Mark, TypeOK
  <2>12. CASE TransitionSession(s) BY <2>12 DEF TransitionSession, ledgerVars, TypeOK
  <2>13. CASE FinishSession(s) BY <2>13 DEF FinishSession, Release, TypeOK
  <2>14. CASE SetSessionFailed(s) BY <2>14 DEF SetSessionFailed, ledgerVars, TypeOK
  <2>15. CASE FinalizeFailedSession(s) BY <2>15 DEF FinalizeFailedSession, Release, TypeOK
  <2>16. CASE CheckMove(s) BY <2>16 DEF CheckMove, ledgerVars, TypeOK
  <2>17. CASE CommitMove(s)
    <3>0. oldIp[s] \in Ips BY <2>17 DEF CommitMove
    <3>1. \A t \in Sessions : \A j \in Subjects :
            bindings'[t][j] = IF t = s /\ j = oldIp[s] THEN 0 ELSE bindings[t][j]
      BY <2>17, <3>0, <1>i DEF CommitMove, RemoveBinding, TypeOK
    <3>2. reservations' = reservations BY <2>17 DEF CommitMove, RemoveBinding
    <3> QED BY <2>17, <3>0, <3>1, <3>2, <1>i DEF CommitMove, TypeOK
  <2>18. CASE AbortMove(s)
    <3>0. ip[s] \in Ips BY <2>18 DEF AbortMove
    <3>1. \A t \in Sessions : \A j \in Subjects :
            bindings'[t][j] = IF t = s /\ j = ip[s] THEN 0 ELSE bindings[t][j]
      BY <2>18, <3>0, <1>i DEF AbortMove, RemoveBinding, TypeOK
    <3>2. reservations' = reservations BY <2>18 DEF AbortMove, RemoveBinding
    <3> QED BY <2>18, <3>0, <3>1, <3>2, <1>i DEF AbortMove, TypeOK
  <2> QED BY <1>n, <2>1, <2>2, <2>3, <2>4, <2>5, <2>6, <2>7, <2>8, <2>9, <2>10, <2>11, <2>12,
             <2>13, <2>14, <2>15, <2>16, <2>17, <2>18 DEF Step
<1> QED BY <1>u, <1>n DEF Next

\* One step keeps the strengthened bound: only the two checks admit a session,
\* and they have counted everyone bound before it.
LEMMA BoundStep == IInv /\ [Next]_vars => FewUpToAdmitted'
<1> SUFFICES ASSUME TypeOK, TypeOK', IndexMatchesBindings, OrdersDistinct, StageShape,
                    FewUpToAdmitted, [Next]_vars
             PROVE  FewUpToAdmitted'
  BY TypeStep DEF IInv
<1>i. Ips \subseteq Subjects /\ Addrs \subseteq Subjects BY AdmissionAssumption
<1>same. ASSUME bindings' = bindings, ip' = ip, moving' = moving,
                \A t \in Sessions : stage'[t] \in Checked => stage[t] \in Checked
         PROVE  FewUpToAdmitted'
  <2>1. \A k \in Subjects : Admitted(k)' \subseteq Admitted(k)
    BY <1>same DEF Admitted, IsBound, Checked
  <2> QED BY <1>same, <2>1, QuietKeepsBound
<1>u. CASE UNCHANGED vars BY <1>u, <1>same DEF vars, ledgerVars, flow
<1>n. ASSUME NEW s \in Sessions, Step(s) PROVE FewUpToAdmitted'
  <2>1. ASSUME NEW i \in Ips, StartSession(s, i) PROVE FewUpToAdmitted'
    <3>1. i \in Subjects /\ Bind(s, i) BY <2>1, <1>i DEF StartSession, Begin
    <3>2. s \notin Admitted(i)' BY <2>1 DEF StartSession, Admitted, Enter, TypeOK
    <3>3. \A k \in Subjects : Admitted(k)' \subseteq Admitted(k)
      <4> SUFFICES ASSUME NEW k \in Subjects, NEW t \in Admitted(k)' PROVE t \in Admitted(k)
        OBVIOUS
      <4>1. t # s \/ k # i BY <3>2
      <4>2. bindings'[t][k] = bindings[t][k] BY <4>1, <3>1, BindEffect DEF Admitted
      <4> QED BY <2>1, <4>1, <4>2 DEF StartSession, Admitted, IsBound, Enter, TypeOK
    <3>4. \A k \in Subjects : \A t \in Sessions :
            \/ bindings'[t][k] \in {0, bindings[t][k]}
            \/ bindings'[t][k] > nextBindingOrder /\ t \notin Admitted(k)'
      <4>1. /\ nextBindingOrder \in Nat /\ nextBindingOrder' \in Nat
            /\ \A t \in Sessions : \A k \in Subjects : t # s \/ k # i => bindings'[t][k] = bindings[t][k]
            /\ \/ bindings' = bindings
               \/ bindings'[s][i] = nextBindingOrder' /\ nextBindingOrder < nextBindingOrder'
        BY <3>1, BindEffect DEF TypeOK
      <4> QED BY <3>2, <4>1
    <3> QED BY <3>3, <3>4, QuietKeepsBound
  <2>2. ASSUME NEW i \in Ips, PrepareMove(s, i) PROVE FewUpToAdmitted'
    <3>1. i \in Subjects /\ Bind(s, i) BY <2>2, <1>i DEF PrepareMove
    <3>2. s \notin Admitted(i)' BY <2>2 DEF PrepareMove, Admitted, Enter, TypeOK
    <3>3. \A k \in Subjects : Admitted(k)' \subseteq Admitted(k)
      <4> SUFFICES ASSUME NEW k \in Subjects, NEW t \in Admitted(k)' PROVE t \in Admitted(k)
        OBVIOUS
      <4>1. t # s \/ k # i BY <3>2
      <4>2. bindings'[t][k] = bindings[t][k] BY <4>1, <3>1, BindEffect DEF Admitted
      <4> QED BY <2>2, <4>1, <4>2 DEF PrepareMove, Admitted, IsBound, Enter, TypeOK
    <3>4. \A k \in Subjects : \A t \in Sessions :
            \/ bindings'[t][k] \in {0, bindings[t][k]}
            \/ bindings'[t][k] > nextBindingOrder /\ t \notin Admitted(k)'
      <4>1. /\ nextBindingOrder \in Nat /\ nextBindingOrder' \in Nat
            /\ \A t \in Sessions : \A k \in Subjects : t # s \/ k # i => bindings'[t][k] = bindings[t][k]
            /\ \/ bindings' = bindings
               \/ bindings'[s][i] = nextBindingOrder' /\ nextBindingOrder < nextBindingOrder'
        BY <3>1, BindEffect DEF TypeOK
      <4> QED BY <3>2, <4>1
    <3> QED BY <3>3, <3>4, QuietKeepsBound
  <2>3. ASSUME NEW a \in Addrs, SetTargetAddr(s, a) PROVE FewUpToAdmitted'
    <3>1. a \in Subjects /\ Bind(s, a) BY <2>3, <1>i DEF SetTargetAddr
    <3>2. s \notin Admitted(a)' BY <2>3 DEF SetTargetAddr, Admitted, Enter, TypeOK
    <3>3. \A k \in Subjects : Admitted(k)' \subseteq Admitted(k)
      <4> SUFFICES ASSUME NEW k \in Subjects, NEW t \in Admitted(k)' PROVE t \in Admitted(k)
        OBVIOUS
      <4>1. t # s \/ k # a BY <3>2
      <4>2. bindings'[t][k] = bindings[t][k] BY <4>1, <3>1, BindEffect DEF Admitted
      <4> QED BY <2>3, <4>1, <4>2 DEF SetTargetAddr, Admitted, IsBound, Enter, TypeOK
    <3>4. \A k \in Subjects : \A t \in Sessions :
            \/ bindings'[t][k] \in {0, bindings[t][k]}
            \/ bindings'[t][k] > nextBindingOrder /\ t \notin Admitted(k)'
      <4>1. /\ nextBindingOrder \in Nat /\ nextBindingOrder' \in Nat
            /\ \A t \in Sessions : \A k \in Subjects : t # s \/ k # a => bindings'[t][k] = bindings[t][k]
            /\ \/ bindings' = bindings
               \/ bindings'[s][a] = nextBindingOrder' /\ nextBindingOrder < nextBindingOrder'
        BY <3>1, BindEffect DEF TypeOK
      <4> QED BY <3>2, <4>1
    <3> QED BY <3>3, <3>4, QuietKeepsBound
  <2>4. CASE StartRejected(s) BY <2>4, <1>same DEF StartRejected, ledgerVars, Enter, Checked, TypeOK
  <2>5. CASE CheckConcurrency(s)
    <3>1. \A k \in Subjects : Admitted(k)' \subseteq Admitted(k) \union {s}
      BY <2>5 DEF CheckConcurrency, Admitted, IsBound, ledgerVars, Enter, TypeOK
    <3>2. CASE BelowLimit(s)
      <4> SUFFICES ASSUME NEW k \in Subjects PROVE Cardinality(UpToAdmitted(k)') <= ConcurrencyLimit
        BY DEF FewUpToAdmitted
      <4>1. CASE k \in {ip[s], addr[s]}
        BY <2>5, <3>1, <3>2, <4>1, JoinKeepsBound DEF CheckConcurrency, ledgerVars, BelowLimit
      <4>2. CASE k \notin {ip[s], addr[s]}
        <5>1. ~IsBound(s, k) BY <2>5, <4>2 DEF CheckConcurrency, StageShape
        <5>2. Admitted(k)' \subseteq Admitted(k)
          BY <2>5, <3>1, <5>1 DEF CheckConcurrency, ledgerVars, Admitted, IsBound
        <5>3. UpToAdmitted(k)' \in SUBSET UpToAdmitted(k)
          BY <2>5, <5>2 DEF CheckConcurrency, ledgerVars, UpToAdmitted, IsBound
        <5>4. UpToAdmitted(k) \in SUBSET Sessions BY DEF UpToAdmitted
        <5>5. Cardinality(UpToAdmitted(k)') <= Cardinality(UpToAdmitted(k))
              /\ Cardinality(UpToAdmitted(k)') \in Nat /\ Cardinality(UpToAdmitted(k)) \in Nat
          BY <5>3, <5>4, SubsetBound
        <5> QED BY <5>5, AdmissionAssumption DEF FewUpToAdmitted
      <4> QED BY <4>1, <4>2
    <3>3. CASE ~BelowLimit(s)
      BY <2>5, <3>3, <1>same DEF CheckConcurrency, ledgerVars, Enter, Checked, TypeOK
    <3> QED BY <3>2, <3>3
  <2>6. CASE PrepareLimitCheck(s) BY <2>6, <1>same DEF PrepareLimitCheck, Bind, StageShape, Enter, Checked, TypeOK
  <2>7. CASE GetFinishedSessions(s) BY <2>7, <1>same DEF GetFinishedSessions, ledgerVars, Enter, Checked, TypeOK
  <2>8. CASE CheckRecurring(s) BY <2>8, <1>same DEF CheckRecurring, ledgerVars, Enter, Checked, TypeOK
  <2>9. CASE Activate(s) BY <2>9, <1>same DEF Activate, Mark, Enter, Checked, TypeOK
  <2>10. CASE InsertRunningSession(s) BY <2>10, <1>same DEF InsertRunningSession, ledgerVars, Enter, Checked, TypeOK
  <2>11. CASE MarkCommitting(s) BY <2>11, <1>same DEF MarkCommitting, Mark, Enter, Checked, TypeOK
  <2>12. CASE TransitionSession(s) BY <2>12, <1>same DEF TransitionSession, ledgerVars, Enter, Checked, TypeOK
  <2>13. CASE FinishSession(s)
    <3>1. \A t \in Sessions : \A j \in Subjects :
            bindings'[t][j] = IF t = s THEN 0 ELSE bindings[t][j]
      BY <2>13 DEF FinishSession, Release, TypeOK
    <3>2. \A k \in Subjects : Admitted(k)' \subseteq Admitted(k)
      BY <2>13, <3>1 DEF FinishSession, Admitted, IsBound, TypeOK, Enter
    <3> QED BY <3>1, <3>2, QuietKeepsBound
  <2>14. CASE SetSessionFailed(s) BY <2>14, <1>same DEF SetSessionFailed, ledgerVars, Enter, Checked, TypeOK
  <2>15. CASE FinalizeFailedSession(s)
    <3>1. \A t \in Sessions : \A j \in Subjects :
            bindings'[t][j] = IF t = s THEN 0 ELSE bindings[t][j]
      BY <2>15 DEF FinalizeFailedSession, Release, TypeOK
    <3>2. \A k \in Subjects : Admitted(k)' \subseteq Admitted(k)
      BY <2>15, <3>1 DEF FinalizeFailedSession, Admitted, IsBound, TypeOK, Enter
    <3> QED BY <3>1, <3>2, QuietKeepsBound
  <2>16. CASE CheckMove(s)
    <3>b. bindings' = bindings /\ ip' = ip /\ stage' = stage
      BY <2>16 DEF CheckMove, ledgerVars
    <3>1. CASE reservations[s] # "none" /\ BelowLimit(s)
      <4>1. \A k \in Subjects \ {ip[s]} : Admitted(k)' \subseteq Admitted(k)
        BY <2>16, <3>b DEF CheckMove, Admitted, IsBound, TypeOK
      <4>2. Admitted(ip[s])' \subseteq Admitted(ip[s]) \union {s}
        BY <2>16, <3>b DEF CheckMove, Admitted, IsBound, TypeOK
      <4> SUFFICES ASSUME NEW k \in Subjects PROVE Cardinality(UpToAdmitted(k)') <= ConcurrencyLimit
        BY DEF FewUpToAdmitted
      <4>3. CASE k = ip[s]
        BY <3>b, <3>1, <4>2, <4>3, JoinKeepsBound DEF BelowLimit
      <4>4. CASE k # ip[s]
        <5>1. UpToAdmitted(k)' \in SUBSET UpToAdmitted(k)
          BY <3>b, <4>1, <4>4 DEF UpToAdmitted, IsBound
        <5>2. UpToAdmitted(k) \in SUBSET Sessions BY DEF UpToAdmitted
        <5>3. Cardinality(UpToAdmitted(k)') <= Cardinality(UpToAdmitted(k))
              /\ Cardinality(UpToAdmitted(k)') \in Nat /\ Cardinality(UpToAdmitted(k)) \in Nat
          BY <5>1, <5>2, SubsetBound
        <5> QED BY <5>3, AdmissionAssumption DEF FewUpToAdmitted
      <4> QED BY <4>3, <4>4
    <3>2. CASE ~(reservations[s] # "none" /\ BelowLimit(s))
      <4>1. \A k \in Subjects : Admitted(k)' \subseteq Admitted(k)
        BY <2>16, <3>b, <3>2 DEF CheckMove, Admitted, IsBound, TypeOK
      <4> QED BY <3>b, <4>1, QuietKeepsBound
    <3> QED BY <3>1, <3>2
  <2>17. CASE CommitMove(s)
    <3>0. oldIp[s] \in Subjects BY <2>17, <1>i DEF CommitMove, StageShape
    <3>1. \A t \in Sessions : \A j \in Subjects :
            bindings'[t][j] = IF t = s /\ j = oldIp[s] THEN 0 ELSE bindings[t][j]
      BY <2>17, <3>0 DEF CommitMove, RemoveBinding, TypeOK
    <3>2. \A k \in Subjects : Admitted(k)' \subseteq Admitted(k)
      BY <2>17, <3>1 DEF CommitMove, Admitted, IsBound, TypeOK, StageShape
    <3> QED BY <3>1, <3>2, QuietKeepsBound
  <2>18. CASE AbortMove(s)
    <3>0. ip[s] \in Subjects BY <2>18, <1>i DEF AbortMove, StageShape
    <3>1. \A t \in Sessions : \A j \in Subjects :
            bindings'[t][j] = IF t = s /\ j = ip[s] THEN 0 ELSE bindings[t][j]
      BY <2>18, <3>0 DEF AbortMove, RemoveBinding, TypeOK
    <3>2. \A k \in Subjects : Admitted(k)' \subseteq Admitted(k)
      BY <2>18, <3>1 DEF AbortMove, Admitted, IsBound, TypeOK, StageShape
    <3> QED BY <3>1, <3>2, QuietKeepsBound
  <2> QED BY <1>n, <2>1, <2>2, <2>3, <2>4, <2>5, <2>6, <2>7, <2>8, <2>9, <2>10, <2>11, <2>12,
             <2>13, <2>14, <2>15, <2>16, <2>17, <2>18 DEF Step
<1> QED BY <1>u, <1>n DEF Next

\* The invariant is inductive.
LEMMA NextIInv == IInv /\ [Next]_vars => IInv'
BY TypeStep, IndexStep, ShapeStep, BoundStep DEF IInv

\* The strengthened bound implies the bound on admitted sessions.
LEMMA IInvBound == IInv => ConcurrencyBound
<1> SUFFICES ASSUME IInv, NEW k \in Subjects PROVE Cardinality(Admitted(k)) <= ConcurrencyLimit
  BY DEF ConcurrencyBound
<1>1. UpToAdmitted(k) \in SUBSET Sessions BY DEF UpToAdmitted
<1>t. \A t \in Sessions : bindings[t][k] \in Nat BY DEF IInv, TypeOK
<1>2. Admitted(k) \in SUBSET UpToAdmitted(k) BY <1>t DEF UpToAdmitted, Admitted
<1>3. Cardinality(Admitted(k)) <= Cardinality(UpToAdmitted(k))
      /\ Cardinality(Admitted(k)) \in Nat /\ Cardinality(UpToAdmitted(k)) \in Nat
  BY <1>1, <1>2, SubsetBound
<1> QED BY <1>3, AdmissionAssumption DEF IInv, FewUpToAdmitted

\* IInv holds in every reachable state.
THEOREM Invariance == Spec => []IInv
BY InitIInv, NextIInv, PTL DEF Spec

\* Every variable keeps its type.
THEOREM TypeCorrect == Spec => []TypeOK
<1>1. IInv => TypeOK BY DEF IInv
<1> QED BY <1>1, Invariance, PTL

\* AdmissionLedger's subject index and its reservations always agree.
THEOREM IndexCorrect == Spec => []IndexMatchesBindings
<1>1. IInv => IndexMatchesBindings BY DEF IInv
<1> QED BY <1>1, Invariance, PTL

\* The limit of the concurrency-limit module is never exceeded at any IP or
\* address, for every number of sessions and every limit.
THEOREM ConcurrencyCorrect == Spec => []ConcurrencyBound
BY IInvBound, Invariance, PTL

-----------------------------------------------------------------------------
(* The recurring limit by address.  RecurringBound is not inductive either: *)
(* a session notes the prior usage, awaits the database and is cleared     *)
(* later, and what happened in between is not in its count.  The inductive *)
(* invariant bounds the sessions that earn together with the undecided     *)
(* ones bound no later than a cleared session, or no later than one whose  *)
(* count will miss an earning session.                                     *)

Holding == {"cleared", "running", "committing"}
Undecided == {"addressed", "limited", "querying", "queried"}

\* The sessions of address a that ended with a reward, or may still earn one.
Earns(s) == row[s] = "claimable" \/ stage[s] \in Holding
Earning(a) == {s \in Sessions : addr[s] = a /\ Earns(s)}
Waiting(a) == {s \in Sessions : addr[s] = a /\ stage[s] \in Undecided}

Claimable == {s \in Sessions : row[s] = "claimable"}
Serving == {s \in Sessions : reservations[s] \in {"running", "committing"}}

\* What the recurring check of t is sure to count, at each of its stages.
Counted(t) ==
  IF stage[t] \in {"addressed", "limited"}
    THEN Claimable \union Serving \union Before(t, addr[t])
    ELSE usage[t] \union (IF stage[t] = "querying" THEN Claimable ELSE ended[t])

\* Sessions cleared at a, and undecided ones whose check misses an earning one.
Late(a) ==
  {t \in Sessions : /\ addr[t] = a
                    /\ \/ stage[t] \in Holding
                       \/ stage[t] \in Undecided /\ ~(Earning(a) \subseteq Counted(t))}

UpToLate(a) ==
  Earning(a) \union {t \in Waiting(a) : \E u \in Late(a) : bindings[t][a] <= bindings[u][a]}

\* The usage a session has noted includes everyone bound before it.
NotesEarlier ==
  \A t \in Sessions : stage[t] \in {"querying", "queried"} => Before(t, addr[t]) \subseteq usage[t]

FewUpToLate == \A a \in Addrs : Cardinality(UpToLate(a)) <= LimitCount

\* A row is claimable only once its session has committed.
RowShape == \A s \in Sessions : row[s] = "claimable" => stage[s] \in {"committing", "ended"}

\* The inductive invariant of the recurring limit.
RecurringInv == IInv /\ RowShape /\ NotesEarlier /\ FewUpToLate

\* A set inside one that is below the limit is below it.
LEMMA InsideKeepsLimit ==
  ASSUME FewUpToLate, NEW a \in Addrs, UpToLate(a)' \subseteq UpToLate(a)
  PROVE  Cardinality(UpToLate(a)') <= LimitCount
<1>1. UpToLate(a) \in SUBSET Sessions BY DEF UpToLate, Earning, Waiting
<1>2. UpToLate(a)' \in SUBSET UpToLate(a) OBVIOUS
<1>3. Cardinality(UpToLate(a)') <= Cardinality(UpToLate(a))
      /\ Cardinality(UpToLate(a)') \in Nat /\ Cardinality(UpToLate(a)) \in Nat
  BY <1>1, <1>2, SubsetBound
<1> QED BY <1>3, AdmissionAssumption DEF FewUpToLate

\* A step after which nobody new earns, waits or is cleared, and no check
\* counts less of what earns, keeps the limit.
LEMMA CalmKeepsLimit ==
  ASSUME TypeOK, TypeOK', FewUpToLate, addr' = addr,
         \A t \in Sessions : Earns(t)' => Earns(t),
         \A t \in Sessions : stage'[t] \in Holding => stage[t] \in Holding,
         \A t \in Sessions : stage'[t] \in Undecided => stage[t] \in Undecided,
         \A t \in Sessions : stage'[t] \in Undecided \union Holding =>
           \A a \in Addrs : bindings'[t][a] = bindings[t][a],
         \A t \in Sessions : stage'[t] \in Undecided =>
           Earning(addr[t])' \intersect Counted(t) \subseteq Counted(t)'
  PROVE  FewUpToLate'
<1> SUFFICES ASSUME NEW a \in Addrs PROVE Cardinality(UpToLate(a)') <= LimitCount
  BY DEF FewUpToLate
<1>1. Earning(a)' \subseteq Earning(a) BY DEF Earning
<1>2. Waiting(a)' \subseteq Waiting(a) BY DEF Waiting
<1>3. Late(a)' \subseteq Late(a)
  <2> SUFFICES ASSUME NEW t \in Late(a)' PROVE t \in Late(a)
    OBVIOUS
  <2>1. t \in Sessions /\ addr[t] = a BY DEF Late
  <2>2. CASE stage'[t] \in Holding BY <2>1, <2>2 DEF Late
  <2>3. CASE stage'[t] \in Undecided /\ ~(Earning(a)' \subseteq Counted(t)')
    <3>1. PICK e \in Earning(a)' : e \notin Counted(t)' BY <2>3
    <3>2. e \notin Counted(t) BY <2>1, <2>3, <3>1
    <3> QED BY <1>1, <2>1, <2>3, <3>1, <3>2 DEF Late
  <2> QED BY <2>2, <2>3 DEF Late
<1>4. \A t \in Waiting(a)' \union Late(a)' : bindings'[t][a] = bindings[t][a]
  BY DEF Waiting, Late
<1>5. UpToLate(a)' \subseteq UpToLate(a)
  BY <1>1, <1>2, <1>3, <1>4 DEF UpToLate
<1> QED BY <1>5, InsideKeepsLimit

\* The count of a session that does not move on loses nobody who earns.
LEMMA CountedKept ==
  ASSUME TypeOK, NEW t \in Sessions, addr[t] \in Addrs, addr' = addr,
         stage'[t] \in Undecided,
         stage'[t] = stage[t] \/ (stage[t] = "addressed" /\ stage'[t] = "limited"),
         usage'[t] = usage[t], ended'[t] = ended[t],
         \A u \in Sessions : row[u] = "claimable" => row'[u] = "claimable",
         \A u \in Sessions : stage'[u] \in Undecided \union Holding =>
           \A a \in Addrs : bindings'[u][a] = bindings[u][a],
         \A u \in Sessions : stage'[u] \in Holding /\ u \in Serving => u \in Serving'
  PROVE  Earning(addr[t])' \intersect Counted(t) \subseteq Counted(t)'
<1> DEFINE a == addr[t]
<1> SUFFICES ASSUME NEW e \in Earning(a)', e \in Counted(t) PROVE e \in Counted(t)'
  OBVIOUS
<1>1. e \in Sessions /\ (row'[e] = "claimable" \/ stage'[e] \in Holding)
  BY DEF Earning, Earns
<1>2. Claimable \subseteq Claimable' BY DEF Claimable
<1>3. CASE stage'[t] \in {"addressed", "limited"}
  <2>1. e \in Claimable \union Serving \union Before(t, a) BY <1>3 DEF Counted
  <2>2. CASE row'[e] = "claimable" BY <1>1, <1>3, <2>2 DEF Counted, Claimable
  <2>3. CASE stage'[e] \in Holding
    <3>1. e \in Before(t, a) => e \in Before(t, a)' BY <1>1, <2>3 DEF Before
    <3>2. e \in Serving => e \in Serving' BY <1>1, <2>3
    <3> QED BY <1>2, <1>3, <2>1, <3>1, <3>2 DEF Counted
  <2> QED BY <1>1, <2>2, <2>3
<1>4. CASE stage'[t] \in {"querying", "queried"} BY <1>2, <1>4 DEF Counted
<1> QED BY <1>3, <1>4 DEF Undecided

\* Undecided and cleared sessions are bound to their address.
LEMMA UndecidedIsBound ==
  ASSUME TypeOK, StageShape, NEW t \in Sessions, stage[t] \in Undecided \union Holding
  PROVE  addr[t] \in Addrs /\ 0 < bindings[t][addr[t]]
BY DEF StageShape, IsBound, Checked, Undecided, Holding

\* A session that passes the recurring check is cleared within the limit: it
\* is up to a late session already, or it has counted the whole set.
LEMMA ClearingKeepsLimit ==
  ASSUME RecurringInv, NEW s \in Sessions, CheckRecurring(s), UsedCount(s) < LimitCount
  PROVE  FewUpToLate'
<1>a. /\ TypeOK /\ StageShape /\ IndexMatchesBindings /\ OrdersDistinct
      /\ NotesEarlier /\ FewUpToLate
  BY DEF RecurringInv, IInv
<1>b. /\ stage[s] = "queried" /\ stage' = [stage EXCEPT ![s] = "cleared"]
      /\ bindings' = bindings /\ reservations' = reservations /\ addr' = addr /\ row' = row
      /\ \A t \in Sessions : t # s => usage'[t] = usage[t] /\ ended'[t] = ended[t]
  BY <1>a DEF CheckRecurring, ledgerVars, Enter, TypeOK
<1>c. stage'[s] = "cleared" /\ \A t \in Sessions : t # s => stage'[t] = stage[t]
  BY <1>a, <1>b DEF TypeOK
<1>x. addr[s] \in Addrs /\ 0 < bindings[s][addr[s]] BY <1>a, <1>b, UndecidedIsBound DEF Undecided
<1>y. PICK a \in Addrs : a = addr[s] BY <1>x
<1>d. a \in Addrs /\ 0 < bindings[s][a] BY <1>x, <1>y
<1>e. \A t \in Sessions : \A b \in Addrs : bindings[t][b] \in Nat
  BY <1>a, AdmissionAssumption DEF TypeOK
<1>f. \A b \in Addrs : Earning(b)' = IF b = a THEN Earning(b) \union {s} ELSE Earning(b)
  BY <1>b, <1>c, <1>y DEF Earning, Earns, Holding
<1>g. \A b \in Addrs : Waiting(b)' \subseteq Waiting(b) \ {s}
  BY <1>b, <1>c DEF Waiting, Undecided
<1>h. \A t \in Sessions : t # s => Counted(t)' = Counted(t)
  BY <1>b, <1>c DEF Counted, Claimable, Serving, Before
\* Whoever becomes late is s, or misses s and so was bound before it.
<1>l. ASSUME NEW t \in Late(a)', t \notin Late(a) PROVE t \in Sessions /\ bindings[t][a] <= bindings[s][a]
  <2>1. t \in Sessions /\ addr[t] = a BY <1>b, <1>l DEF Late
  <2>2. CASE t = s BY <2>1, <2>2, <1>d, <1>e
  <2>3. CASE t # s
    <3>1. stage[t] \in Undecided /\ Earning(a) \subseteq Counted(t) /\ s \notin Counted(t)
      BY <1>c, <1>d, <1>f, <1>h, <1>l, <2>1, <2>3 DEF Late
    <3>2. s \notin Before(t, a)
      BY <1>a, <2>1, <3>1, <1>y DEF Counted, NotesEarlier, Undecided
    <3> QED BY <1>d, <1>e, <2>1, <3>2 DEF Before
  <2> QED BY <2>2, <2>3
<1> SUFFICES ASSUME NEW b \in Addrs PROVE Cardinality(UpToLate(b)') <= LimitCount
  BY DEF FewUpToLate
<1>1. CASE b # a
  <2>1. Late(b)' \subseteq Late(b)
    BY <1>b, <1>c, <1>d, <1>f, <1>h, <1>y, <1>1 DEF Late
  <2>2. UpToLate(b)' \subseteq UpToLate(b)
    BY <1>b, <1>f, <1>g, <1>1, <2>1 DEF UpToLate
  <2> QED BY <1>a, <2>2, InsideKeepsLimit
<1>2. CASE b = a /\ \E u \in Late(a) : bindings[s][a] <= bindings[u][a]
  <2>1. PICK v \in Late(a) : bindings[s][a] <= bindings[v][a] BY <1>2
  <2>2. s \in UpToLate(a) BY <1>b, <2>1, <1>y DEF UpToLate, Waiting, Undecided
  <2>3. ASSUME NEW t \in Waiting(a)', NEW u \in Late(a)', bindings[t][a] <= bindings[u][a]
        PROVE  t \in UpToLate(a)
    <3>1. t \in Waiting(a) /\ t \in Sessions /\ v \in Sessions /\ u \in Sessions
      BY <1>d, <1>g DEF Waiting, Late
    <3>2. \E w \in Late(a) : bindings[t][a] <= bindings[w][a]
      <4>1. CASE u \in Late(a) BY <2>3, <4>1
      <4>2. CASE u \notin Late(a)
        <5>1. bindings[u][a] <= bindings[s][a] BY <1>l, <4>2
        <5> QED BY <1>d, <1>e, <2>1, <2>3, <3>1, <5>1
      <4> QED BY <4>1, <4>2
    <3> QED BY <3>1, <3>2 DEF UpToLate
  <2>4. Earning(a) \subseteq UpToLate(a) BY DEF UpToLate
  <2>5. UpToLate(a)' \subseteq UpToLate(a)
    BY <1>b, <1>d, <1>f, <2>2, <2>3, <2>4 DEF UpToLate
  <2> QED BY <1>a, <1>2, <2>5, InsideKeepsLimit
<1>3. CASE b = a /\ ~\E u \in Late(a) : bindings[s][a] <= bindings[u][a]
  <2> DEFINE C == ended[s] \union usage[s]
  <2>1. s \notin Late(a) BY <1>d, <1>e, <1>3
  <2>2. Earning(a) \subseteq C
    BY <1>b, <2>1, <1>y DEF Late, Counted, Undecided
  <2>3. ASSUME NEW t \in Waiting(a)', NEW u \in Late(a)', bindings[t][a] <= bindings[u][a]
        PROVE  t \in C
    <3>1. t \in Waiting(a) /\ t \in Sessions /\ t # s /\ u \in Sessions
      BY <1>d, <1>g DEF Waiting, Late
    <3>2. bindings[u][a] <= bindings[s][a]
      <4>1. CASE u \in Late(a) BY <1>3, <1>d, <1>e, <3>1, <4>1
      <4>2. CASE u \notin Late(a) BY <1>l, <4>2
      <4> QED BY <4>1, <4>2
    <3>3. bindings[t][a] <= bindings[s][a] BY <1>d, <1>e, <2>3, <3>1, <3>2
    <3>4. 0 < bindings[t][a]
      BY <1>a, <3>1, UndecidedIsBound, <1>y DEF Waiting
    <3>5. bindings[t][a] # bindings[s][a]
      BY <1>a, <1>d, <3>1, <3>4, AdmissionAssumption DEF OrdersDistinct, IsBound
    <3>6. t \in Before(s, a) BY <1>d, <1>e, <3>1, <3>3, <3>4, <3>5 DEF Before
    <3> QED BY <1>a, <1>b, <3>6, <1>y DEF NotesEarlier
  <2>4. UpToLate(a)' \in SUBSET (C \union {s})
    BY <1>b, <1>d, <1>f, <2>2, <2>3 DEF UpToLate
  <2>5. C \in SUBSET Sessions /\ C \union {s} \in SUBSET Sessions BY <1>a DEF TypeOK
  <2>6. IsFiniteSet(C) /\ Cardinality(C) \in Nat BY <2>5, SubsetBound
  <2>7. Cardinality(C \union {s}) <= Cardinality(C) + 1 /\ Cardinality(C \union {s}) \in Nat
    <3>1. Cardinality(C \union {s}) = IF s \in C THEN Cardinality(C) ELSE Cardinality(C) + 1
      BY <2>6, FS_AddElement
    <3> QED BY <2>6, <3>1
  <2>8. Cardinality(UpToLate(a)') <= Cardinality(C \union {s}) /\ Cardinality(UpToLate(a)') \in Nat
    BY <2>4, <2>5, SubsetBound
  <2>9. Cardinality(C) < LimitCount BY DEF UsedCount
  <2> QED BY <1>3, <2>6, <2>7, <2>8, <2>9, AdmissionAssumption
<1> QED BY <1>1, <1>2, <1>3

\* A session that gets its address is bound last there: it misses nobody.
LEMMA AddressingKeepsLimit ==
  ASSUME RecurringInv, TypeOK', NEW s \in Sessions, NEW a \in Addrs, SetTargetAddr(s, a)
  PROVE  FewUpToLate'
<1>a. TypeOK /\ StageShape /\ OrdersDistinct /\ RowShape /\ FewUpToLate BY DEF RecurringInv, IInv
<1>b. /\ stage[s] = "begun" /\ stage' = [stage EXCEPT ![s] = "addressed"]
      /\ addr' = [addr EXCEPT ![s] = a] /\ Bind(s, a)
      /\ reservations' = reservations /\ row' = row /\ usage' = usage /\ ended' = ended
  BY DEF SetTargetAddr, Enter
<1>c. /\ stage'[s] = "addressed" /\ addr'[s] = a /\ addr[s] = None
      /\ \A t \in Sessions : t # s => stage'[t] = stage[t] /\ addr'[t] = addr[t]
  BY <1>a, <1>b DEF TypeOK, StageShape
<1>d. a \in Subjects /\ a \notin Ips /\ a # None BY AdmissionAssumption
<1>e. ~IsBound(s, a) BY <1>a, <1>b, <1>c, <1>d DEF StageShape
<1>f. /\ bindings'[s][a] = nextBindingOrder' /\ nextBindingOrder < nextBindingOrder'
      /\ \A t \in Sessions : \A b \in Addrs : t # s \/ b # a => bindings'[t][b] = bindings[t][b]
  BY <1>a, <1>b, <1>d, <1>e, AdmissionAssumption, BindEffect
<1>g. nextBindingOrder \in Nat /\ nextBindingOrder' \in Nat
      /\ \A t \in Sessions : \A b \in Addrs : bindings[t][b] \in Nat /\ bindings[t][b] <= nextBindingOrder
  BY <1>a, AdmissionAssumption DEF TypeOK, OrdersDistinct
<1>h. \A b \in Addrs : Earning(b)' = Earning(b)
  BY <1>a, <1>b, <1>c DEF Earning, Earns, Holding, RowShape
<1>i. \A b \in Addrs : Waiting(b)' = IF b = a THEN Waiting(b) \union {s} ELSE Waiting(b)
  BY <1>a, <1>b, <1>c DEF Waiting, Undecided, TypeOK
<1>j. \A t \in Sessions : t # s /\ stage[t] \in Undecided => Counted(t) \subseteq Counted(t)'
  <2> SUFFICES ASSUME NEW t \in Sessions, t # s, stage[t] \in Undecided PROVE Counted(t) \subseteq Counted(t)'
    OBVIOUS
  <2>1. PICK b \in Addrs : addr[t] = b BY <1>a, UndecidedIsBound
  <2>2. Before(t, b) \subseteq Before(t, b)'
    BY <1>d, <1>e, <1>f, <2>1 DEF Before, IsBound
  <2> QED BY <1>b, <1>c, <2>1, <2>2 DEF Counted, Claimable, Serving
<1>k. Earning(a) \subseteq Counted(s)'
  <2> SUFFICES ASSUME NEW e \in Earning(a) PROVE e \in Counted(s)'
    OBVIOUS
  <2>1. e \in Sessions /\ e # s /\ addr[e] = a /\ Earns(e) BY <1>c, <1>d DEF Earning
  <2>2. CASE row[e] = "claimable" BY <1>b, <1>c, <2>1, <2>2 DEF Counted, Claimable
  <2>3. CASE stage[e] \in Holding
    <3>1. 0 < bindings[e][a] BY <1>a, <2>1, <2>3, UndecidedIsBound
    <3>2. e \in Before(s, a)' BY <1>f, <1>g, <2>1, <3>1 DEF Before
    <3> QED BY <1>c, <3>2 DEF Counted
  <2> QED BY <2>1, <2>2, <2>3 DEF Earns
<1>l. \A b \in Addrs : Late(b)' \subseteq Late(b)
  <2> SUFFICES ASSUME NEW b \in Addrs, NEW t \in Late(b)' PROVE t \in Late(b)
    OBVIOUS
  <2>1. t \in Sessions /\ addr'[t] = b BY DEF Late
  <2>2. CASE t = s BY <1>c, <1>h, <1>k, <2>1, <2>2 DEF Late, Holding
  <2>3. CASE t # s BY <1>c, <1>h, <1>j, <2>1, <2>3 DEF Late
  <2> QED BY <2>2, <2>3
<1> SUFFICES ASSUME NEW b \in Addrs PROVE Cardinality(UpToLate(b)') <= LimitCount
  BY DEF FewUpToLate
<1>m. UpToLate(b)' \subseteq UpToLate(b)
  <2> SUFFICES ASSUME NEW t \in Waiting(b)', NEW u \in Late(b)', bindings'[t][b] <= bindings'[u][b]
               PROVE  t \in UpToLate(b)
    BY <1>h DEF UpToLate
  <2>1. u \in Late(b) /\ u \in Sessions /\ addr[u] = b BY <1>l DEF Late
  <2>2. u # s BY <1>c, <2>1, AdmissionAssumption
  <2>3. bindings'[u][b] = bindings[u][b] /\ bindings[u][b] <= nextBindingOrder BY <1>f, <1>g, <2>1, <2>2
  <2>4. t \in Sessions /\ ~(t = s /\ b = a) BY <1>f, <1>g, <2>1, <2>3 DEF Waiting
  <2>5. bindings'[t][b] = bindings[t][b] BY <1>f, <2>4
  <2>6. t \in Waiting(b) BY <1>i, <2>4
  <2> QED BY <2>1, <2>3, <2>5, <2>6 DEF UpToLate
<1> QED BY <1>a, <1>m, InsideKeepsLimit

\* Bindings to addresses are made by SetTargetAddr and dropped by a release;
\* a change of IP address touches none.
LEMMA AddressBindings ==
  ASSUME TypeOK, StageShape, NEW s \in Sessions, Step(s), NEW t \in Sessions, NEW a \in Addrs
  PROVE  /\ \/ bindings'[t][a] = bindings[t][a]
            \/ t = s /\ bindings'[t][a] = 0 /\ stage'[t] = "ended"
            \/ t = s /\ bindings'[t][a] > nextBindingOrder /\ stage'[t] = "addressed" /\ SetTargetAddr(s, a)
<1> DEFINE Same == bindings'[t][a] = bindings[t][a]
           Dropped == t = s /\ bindings'[t][a] = 0 /\ stage'[t] = "ended"
           Made == t = s /\ bindings'[t][a] > nextBindingOrder /\ stage'[t] = "addressed" /\ SetTargetAddr(s, a)
           Goal == Same \/ Dropped \/ Made
<1> SUFFICES Goal OBVIOUS
<1>i. Ips \subseteq Subjects /\ Addrs \subseteq Subjects /\ a \notin Ips BY AdmissionAssumption
<1>1. ASSUME NEW i \in Ips, StartSession(s, i) PROVE Goal
  BY <1>1, <1>i, BindEffect DEF StartSession, Begin
<1>2. ASSUME NEW i \in Ips, PrepareMove(s, i) PROVE Goal
  BY <1>2, <1>i, BindEffect DEF PrepareMove
<1>3. ASSUME NEW b \in Addrs, SetTargetAddr(s, b) PROVE Goal
  <2>1. Bind(s, b) /\ b \in Subjects /\ stage'[s] = "addressed"
    BY <1>3, <1>i DEF SetTargetAddr, Enter, TypeOK
  <2>2. CASE t # s \/ a # b BY <1>i, <2>1, <2>2, BindEffect
  <2>3. CASE t = s /\ a = b
    <3>1. \/ bindings' = bindings
          \/ bindings'[s][b] = nextBindingOrder' /\ nextBindingOrder < nextBindingOrder'
      BY <2>1, BindEffect
    <3> QED BY <1>3, <2>1, <2>3, <3>1
  <2> QED BY <2>2, <2>3
<1>4. CASE StartRejected(s) BY <1>4 DEF StartRejected, ledgerVars
<1>5. CASE CheckConcurrency(s) BY <1>5 DEF CheckConcurrency, ledgerVars
<1>6. CASE PrepareLimitCheck(s)
  <2>1. addr[s] \in Subjects /\ IsBound(s, addr[s])
    BY <1>6, AdmissionAssumption DEF PrepareLimitCheck, StageShape, Checked
  <2> QED BY <1>6, <2>1 DEF PrepareLimitCheck, Bind
<1>7. CASE GetFinishedSessions(s) BY <1>7 DEF GetFinishedSessions, ledgerVars
<1>8. CASE CheckRecurring(s) BY <1>8 DEF CheckRecurring, ledgerVars
<1>9. CASE Activate(s) BY <1>9 DEF Activate, Mark
<1>10. CASE InsertRunningSession(s) BY <1>10 DEF InsertRunningSession, ledgerVars
<1>11. CASE MarkCommitting(s) BY <1>11 DEF MarkCommitting, Mark
<1>12. CASE TransitionSession(s) BY <1>12 DEF TransitionSession, ledgerVars
<1>13. CASE FinishSession(s) BY <1>13, <1>i DEF FinishSession, Release, Enter, TypeOK
<1>14. CASE SetSessionFailed(s) BY <1>14 DEF SetSessionFailed, ledgerVars
<1>15. CASE FinalizeFailedSession(s) BY <1>15, <1>i DEF FinalizeFailedSession, Release, Enter, TypeOK
<1>16. CASE CheckMove(s) BY <1>16 DEF CheckMove, ledgerVars
<1>17. CASE CommitMove(s)
  <2>1. oldIp[s] \in Ips BY <1>17 DEF CommitMove, StageShape
  <2> QED BY <1>17, <1>i, <2>1 DEF CommitMove, RemoveBinding, TypeOK
<1>18. CASE AbortMove(s)
  <2>1. ip[s] \in Ips BY <1>18 DEF AbortMove, StageShape
  <2> QED BY <1>18, <1>i, <2>1 DEF AbortMove, RemoveBinding, TypeOK
<1> QED BY <1>1, <1>2, <1>3, <1>4, <1>5, <1>6, <1>7, <1>8, <1>9, <1>10, <1>11, <1>12,
           <1>13, <1>14, <1>15, <1>16, <1>17, <1>18 DEF Step

\* A step of s leaves alone what belongs to another session.
LEMMA OthersKeep ==
  ASSUME TypeOK, NEW s \in Sessions, Step(s), NEW t \in Sessions, t # s
  PROVE  /\ stage'[t] = stage[t] /\ addr'[t] = addr[t] /\ row'[t] = row[t]
         /\ usage'[t] = usage[t] /\ ended'[t] = ended[t] /\ reservations'[t] = reservations[t]
<1> USE DEF TypeOK, Enter
<1>1. ASSUME NEW i \in Ips, StartSession(s, i) \/ PrepareMove(s, i)
      PROVE  /\ stage'[t] = stage[t] /\ addr'[t] = addr[t] /\ row'[t] = row[t]
             /\ usage'[t] = usage[t] /\ ended'[t] = ended[t] /\ reservations'[t] = reservations[t]
  BY <1>1 DEF StartSession, PrepareMove, Begin
<1>2. ASSUME NEW a \in Addrs, SetTargetAddr(s, a)
      PROVE  /\ stage'[t] = stage[t] /\ addr'[t] = addr[t] /\ row'[t] = row[t]
             /\ usage'[t] = usage[t] /\ ended'[t] = ended[t] /\ reservations'[t] = reservations[t]
  BY <1>2 DEF SetTargetAddr
<1>3. CASE StartRejected(s) \/ CheckConcurrency(s) \/ InsertRunningSession(s) \/ TransitionSession(s)
           \/ SetSessionFailed(s) \/ CheckMove(s)
  BY <1>3 DEF StartRejected, CheckConcurrency, InsertRunningSession, TransitionSession,
              SetSessionFailed, CheckMove, ledgerVars
<1>4. CASE PrepareLimitCheck(s) \/ GetFinishedSessions(s) \/ CheckRecurring(s)
  BY <1>4 DEF PrepareLimitCheck, GetFinishedSessions, CheckRecurring, ledgerVars
<1>5. CASE Activate(s) \/ MarkCommitting(s) BY <1>5 DEF Activate, MarkCommitting, Mark
<1>6. CASE FinishSession(s) \/ FinalizeFailedSession(s)
  BY <1>6 DEF FinishSession, FinalizeFailedSession, Release
<1>7. CASE CommitMove(s) \/ AbortMove(s) BY <1>7 DEF CommitMove, AbortMove, RemoveBinding
<1> QED BY <1>1, <1>2, <1>3, <1>4, <1>5, <1>6, <1>7 DEF Step

\* One step keeps the shape of rows.
LEMMA RowStep == RecurringInv /\ [Next]_vars => RowShape'
<1> SUFFICES ASSUME TypeOK, RowShape, [Next]_vars PROVE RowShape'
  BY DEF RecurringInv, IInv
<1>u. CASE UNCHANGED vars BY <1>u DEF vars, ledgerVars, flow, RowShape
<1>n. ASSUME NEW s \in Sessions, Step(s) PROVE RowShape'
  <2>1. \A t \in Sessions : t # s => stage'[t] = stage[t] /\ row'[t] = row[t]
    BY <1>n, OthersKeep
  <2>2. row'[s] = "claimable" => stage'[s] \in {"committing", "ended"}
    <3> USE DEF TypeOK, Enter, RowShape
    <3> SUFFICES ASSUME row'[s] = "claimable" PROVE stage'[s] \in {"committing", "ended"}
      OBVIOUS
    <3>1. ASSUME NEW i \in Ips, StartSession(s, i) \/ PrepareMove(s, i)
          PROVE  stage'[s] \in {"committing", "ended"}
      BY <3>1 DEF StartSession, PrepareMove
    <3>2. ASSUME NEW a \in Addrs, SetTargetAddr(s, a) PROVE stage'[s] \in {"committing", "ended"}
      BY <3>2 DEF SetTargetAddr
    <3>3. CASE StartRejected(s) \/ CheckConcurrency(s) \/ PrepareLimitCheck(s)
               \/ GetFinishedSessions(s) \/ CheckRecurring(s) \/ Activate(s)
      BY <3>3 DEF StartRejected, CheckConcurrency, PrepareLimitCheck, GetFinishedSessions,
                  CheckRecurring, Activate
    <3>4. CASE InsertRunningSession(s) \/ MarkCommitting(s) \/ TransitionSession(s)
               \/ FinishSession(s) \/ SetSessionFailed(s) \/ FinalizeFailedSession(s)
      BY <3>4 DEF InsertRunningSession, MarkCommitting, TransitionSession, FinishSession,
                  SetSessionFailed, FinalizeFailedSession
    <3>5. CASE CheckMove(s) \/ CommitMove(s) \/ AbortMove(s)
      BY <3>5 DEF CheckMove, CommitMove, AbortMove
    <3> QED BY <1>n, <3>1, <3>2, <3>3, <3>4, <3>5 DEF Step
  <2> QED BY <2>1, <2>2 DEF RowShape
<1> QED BY <1>u, <1>n DEF Next

\* One step keeps what the noted usage includes: later bindings come after.
LEMMA NotesStep == RecurringInv /\ [Next]_vars => NotesEarlier'
<1> SUFFICES ASSUME TypeOK, TypeOK', StageShape, IndexMatchesBindings, OrdersDistinct, NotesEarlier,
                    [Next]_vars
             PROVE  NotesEarlier'
  BY TypeStep DEF RecurringInv, IInv
<1>u. CASE UNCHANGED vars BY <1>u DEF vars, ledgerVars, flow, NotesEarlier, Before
<1>n. ASSUME NEW s \in Sessions, Step(s), NEW t \in Sessions, stage'[t] \in {"querying", "queried"}
      PROVE  Before(t, addr[t])' \subseteq usage'[t]
  <2>1. /\ addr'[t] = addr[t] /\ addr[t] \in Addrs
        /\ \/ stage[t] \in {"querying", "queried"} /\ usage'[t] = usage[t]
           \/ stage[t] = "limited" /\ usage'[t] = PriorUsage(t, addr[t]) /\ bindings' = bindings
    <3>1. CASE t # s
      <4>1. stage'[t] = stage[t] /\ addr'[t] = addr[t] /\ usage'[t] = usage[t]
        BY <1>n, <3>1, OthersKeep
      <4> QED BY <1>n, <4>1 DEF StageShape, Checked
    <3>2. CASE t = s
      <4> USE DEF TypeOK, Enter
      <4>1. CASE PrepareLimitCheck(s)
        BY <3>2, <4>1 DEF PrepareLimitCheck, Bind, StageShape, Checked
      <4>2. CASE GetFinishedSessions(s)
        BY <3>2, <4>2 DEF GetFinishedSessions, StageShape, Checked
      <4>3. CASE CheckMove(s) \/ CommitMove(s) \/ AbortMove(s) \/ \E i \in Ips : PrepareMove(s, i)
        BY <1>n, <3>2, <4>3 DEF CheckMove, CommitMove, AbortMove, PrepareMove, StageShape, Checked
      <4>4. CASE \/ \E i \in Ips : StartSession(s, i)
                 \/ \E a \in Addrs : SetTargetAddr(s, a)
                 \/ StartRejected(s) \/ CheckConcurrency(s) \/ CheckRecurring(s) \/ Activate(s)
        BY <1>n, <3>2, <4>4 DEF StartSession, SetTargetAddr, StartRejected, CheckConcurrency,
                                CheckRecurring, Activate
      <4>5. CASE \/ InsertRunningSession(s) \/ MarkCommitting(s) \/ TransitionSession(s)
                 \/ FinishSession(s) \/ SetSessionFailed(s) \/ FinalizeFailedSession(s)
        BY <1>n, <3>2, <4>5 DEF InsertRunningSession, MarkCommitting, TransitionSession,
                                FinishSession, SetSessionFailed, FinalizeFailedSession
      <4> QED BY <1>n, <4>1, <4>2, <4>3, <4>4, <4>5 DEF Step
    <3> QED BY <3>1, <3>2
  <2>2. PICK a \in Addrs : a = addr[t] BY <2>1
  <2>3. CASE stage[t] = "limited" /\ usage'[t] = PriorUsage(t, addr[t]) /\ bindings' = bindings
    <3>1. Before(t, a) \subseteq PriorUsage(t, a) BY BeforeIsCounted, AdmissionAssumption
    <3>2. Before(t, a)' = Before(t, a) BY <2>3 DEF Before
    <3> QED BY <2>1, <2>2, <2>3, <3>1, <3>2
  <2>4. CASE stage[t] \in {"querying", "queried"} /\ usage'[t] = usage[t]
    <3>n. nextBindingOrder \in Nat /\ \A x \in Sessions : bindings[x][a] \in Nat /\ bindings'[x][a] \in Nat
      BY AdmissionAssumption DEF TypeOK
    <3>1. bindings'[t][a] = bindings[t][a]
      <4>1. stage'[t] # "ended" /\ stage'[t] # "addressed" BY <1>n
      <4> QED BY <1>n, <4>1, AddressBindings
    <3>2. bindings[t][a] <= nextBindingOrder BY AdmissionAssumption DEF OrdersDistinct
    <3>3. Before(t, a)' \subseteq Before(t, a)
      <4> SUFFICES ASSUME NEW x \in Before(t, a)' PROVE x \in Before(t, a)
        OBVIOUS
      <4>1. x \in Sessions /\ 0 < bindings'[x][a] /\ bindings'[x][a] < bindings'[t][a]
        BY DEF Before
      <4>2. bindings'[x][a] = bindings[x][a] \/ bindings'[x][a] = 0 \/ bindings'[x][a] > nextBindingOrder
        BY <1>n, <4>1, AddressBindings
      <4>3. CASE bindings'[x][a] = bindings[x][a] BY <3>1, <4>1, <4>3 DEF Before
      <4>4. CASE bindings'[x][a] > nextBindingOrder
        <5>1. bindings'[x][a] < bindings[t][a] BY <3>1, <4>1
        <5> QED BY <3>2, <3>n, <4>4, <5>1, <4>1
      <4> QED BY <4>1, <4>2, <4>3, <4>4
    <3>4. Before(t, a) \subseteq usage[t] BY <2>2, <2>4 DEF NotesEarlier
    <3> QED BY <2>1, <2>2, <2>4, <3>3, <3>4
  <2> QED BY <2>1, <2>3, <2>4
<1> QED BY <1>u, <1>n DEF Next, NotesEarlier

\* One step keeps the strengthened limit: only SetTargetAddr makes a session
\* wait, and only a passed recurring check lets one earn.
LEMMA LimitStep == RecurringInv /\ [Next]_vars => FewUpToLate'
<1> SUFFICES ASSUME RecurringInv, [Next]_vars PROVE FewUpToLate'
  OBVIOUS
<1>a. TypeOK /\ TypeOK' /\ StageShape /\ IndexMatchesBindings /\ FewUpToLate
  BY TypeStep DEF RecurringInv, IInv
<1>u. CASE UNCHANGED vars
  BY <1>a, <1>u DEF vars, ledgerVars, flow, FewUpToLate, UpToLate, Earning, Earns, Waiting, Late,
                    Counted, Claimable, Serving, Before
<1>n. ASSUME NEW s \in Sessions, Step(s) PROVE FewUpToLate'
  <2>1. CASE \E a \in Addrs : SetTargetAddr(s, a) BY <1>a, <2>1, AddressingKeepsLimit
  <2>2. CASE CheckRecurring(s) /\ UsedCount(s) < LimitCount BY <2>2, ClearingKeepsLimit
  <2>3. CASE ~(\E a \in Addrs : SetTargetAddr(s, a)) /\ ~(CheckRecurring(s) /\ UsedCount(s) < LimitCount)
    \* What the remaining actions may do to their session.
    <3>1. /\ addr'[s] = addr[s]
          /\ Earns(s)' => Earns(s)
          /\ stage'[s] \in Holding => stage[s] \in Holding
          /\ stage'[s] \in Undecided =>
               \/ stage'[s] = stage[s] /\ usage'[s] = usage[s] /\ ended'[s] = ended[s]
               \/ CheckConcurrency(s) \/ PrepareLimitCheck(s) \/ GetFinishedSessions(s)
          /\ row[s] = "claimable" => row'[s] = "claimable"
          /\ stage'[s] \in Holding /\ s \in Serving => s \in Serving'
      <4> USE <1>a DEF TypeOK, Enter, Earns, Holding, Undecided, Serving
      <4>1. CASE \E i \in Ips : StartSession(s, i)
        BY <4>1 DEF StartSession, Begin
      <4>2. CASE \E i \in Ips : PrepareMove(s, i)
        BY <4>2 DEF PrepareMove
      <4>3. CASE StartRejected(s) \/ CheckConcurrency(s) \/ CheckMove(s)
        BY <4>3 DEF StartRejected, CheckConcurrency, CheckMove, ledgerVars
      <4>4. CASE PrepareLimitCheck(s) \/ GetFinishedSessions(s)
        BY <4>4 DEF PrepareLimitCheck, GetFinishedSessions, ledgerVars
      <4>5. CASE CheckRecurring(s) /\ ~(UsedCount(s) < LimitCount)
        BY <4>5 DEF CheckRecurring, ledgerVars
      <4>6. CASE Activate(s) \/ MarkCommitting(s)
        BY <4>6 DEF Activate, MarkCommitting, Mark
      <4>7. CASE InsertRunningSession(s) \/ TransitionSession(s) \/ SetSessionFailed(s)
        BY <4>7 DEF InsertRunningSession, TransitionSession, SetSessionFailed, ledgerVars
      <4>8. CASE FinishSession(s) \/ FinalizeFailedSession(s)
        BY <4>8 DEF FinishSession, FinalizeFailedSession, Release
      <4>9. CASE CommitMove(s) \/ AbortMove(s)
        BY <4>9 DEF CommitMove, AbortMove, RemoveBinding
      <4> QED BY <1>n, <2>3, <4>1, <4>2, <4>3, <4>4, <4>5, <4>6, <4>7, <4>8, <4>9 DEF Step
    <3>o. \A t \in Sessions : t # s =>
            /\ stage'[t] = stage[t] /\ addr'[t] = addr[t] /\ row'[t] = row[t]
            /\ usage'[t] = usage[t] /\ ended'[t] = ended[t] /\ reservations'[t] = reservations[t]
      BY <1>a, <1>n, OthersKeep
    <3>2. addr' = addr BY <1>a, <3>1, <3>o DEF TypeOK
    <3>3. \A t \in Sessions : Earns(t)' => Earns(t) BY <3>1, <3>o DEF Earns
    <3>4. \A t \in Sessions : stage'[t] \in Holding => stage[t] \in Holding BY <3>1, <3>o
    <3>5. \A t \in Sessions : stage'[t] \in Undecided => stage[t] \in Undecided
      BY <3>1, <3>o DEF CheckConcurrency, PrepareLimitCheck, GetFinishedSessions, Undecided
    <3>6. \A t \in Sessions : stage'[t] \in Undecided \union Holding =>
            \A a \in Addrs : bindings'[t][a] = bindings[t][a]
      BY <1>a, <1>n, <2>3, AddressBindings DEF Undecided, Holding
    <3>7. \A t \in Sessions : row[t] = "claimable" => row'[t] = "claimable" BY <3>1, <3>o
    <3>8. \A t \in Sessions : stage'[t] \in Holding /\ t \in Serving => t \in Serving'
      BY <3>1, <3>o DEF Serving
    <3>9. ASSUME NEW t \in Sessions, stage'[t] \in Undecided
          PROVE  Earning(addr[t])' \intersect Counted(t) \subseteq Counted(t)'
      <4>0. addr[t] \in Addrs /\ 0 < bindings[t][addr[t]] BY <1>a, <3>5, <3>9, UndecidedIsBound
      <4>1. CASE \/ stage'[t] = stage[t] /\ usage'[t] = usage[t] /\ ended'[t] = ended[t]
                 \/ t = s /\ CheckConcurrency(s)
        <5>1. stage'[t] = stage[t] \/ (stage[t] = "addressed" /\ stage'[t] = "limited")
          BY <1>a, <3>9, <4>1 DEF CheckConcurrency, Enter, TypeOK, Undecided
        <5>2. usage'[t] = usage[t] /\ ended'[t] = ended[t] BY <4>1 DEF CheckConcurrency
        <5> QED BY <1>a, <3>2, <3>6, <3>7, <3>8, <3>9, <4>0, <5>1, <5>2, CountedKept
      <4>2. CASE t = s /\ PrepareLimitCheck(s)
        <5>1. PICK a \in Addrs : a = addr[s] BY <4>0, <4>2
        <5>2. /\ stage[s] = "limited" /\ stage'[s] = "querying" /\ usage'[s] = PriorUsage(s, a)
              /\ row' = row /\ stage' = [stage EXCEPT ![s] = "querying"]
          BY <1>a, <4>2, <5>1 DEF PrepareLimitCheck, Enter, TypeOK
        <5>3. ASSUME NEW e \in Earning(a)', e \in Counted(s) PROVE e \in Counted(s)'
          <6>1. e \in Sessions /\ addr[e] = a /\ Earns(e)
            BY <3>2, <3>3, <5>3 DEF Earning
          <6>2. e \in Claimable \/ e \in Serving \/ e \in Before(s, a)
            BY <5>1, <5>2, <5>3 DEF Counted
          <6>3. CASE e \in Claimable BY <5>2, <6>3 DEF Counted, Claimable
          <6>4. CASE e \in Before(s, a)
            BY <1>a, <5>2, <6>4, BeforeIsCounted, AdmissionAssumption DEF Counted
          <6>5. CASE e \in Serving /\ e \notin Claimable
            <7>1. stage[e] \in Holding BY <6>1, <6>5 DEF Earns, Claimable
            <7>2. 0 < bindings[e][a] BY <1>a, <6>1, <7>1, UndecidedIsBound
            <7>3. subjectIndex[a][e] = bindings[e][a]
              BY <1>a, <6>1, AdmissionAssumption DEF IndexMatchesBindings
            <7>4. e # s BY <5>2, <7>1 DEF Holding
            <7>5. e \in PriorUsage(s, a)
              BY <6>1, <6>5, <7>2, <7>3, <7>4 DEF PriorUsage, Serving
            <7> QED BY <5>2, <7>5 DEF Counted
          <6> QED BY <6>2, <6>3, <6>4, <6>5
        <5> QED BY <3>2, <4>2, <5>1, <5>3
      <4>3. CASE t = s /\ GetFinishedSessions(s)
        <5>1. /\ stage[s] = "querying" /\ stage'[s] = "queried" /\ usage'[s] = usage[s]
              /\ ended'[s] = {u \in Sessions : addr[u] = addr[s] /\ row[u] = "claimable"}
          BY <1>a, <4>3 DEF GetFinishedSessions, Enter, TypeOK
        <5> QED BY <3>2, <4>3, <5>1 DEF Counted, Earning, Claimable
      <4> QED BY <3>1, <3>9, <3>o, <4>1, <4>2, <4>3
    <3> QED BY <1>a, <3>2, <3>3, <3>4, <3>5, <3>6, <3>9, CalmKeepsLimit
  <2> QED BY <2>1, <2>2, <2>3
<1> QED BY <1>u, <1>n DEF Next

\* Initially nobody earns, waits or is cleared.
LEMMA InitRecurringInv == Init => RecurringInv
<1> SUFFICES ASSUME Init PROVE RowShape /\ NotesEarlier /\ FewUpToLate
  BY InitIInv DEF RecurringInv
<1>1. RowShape /\ NotesEarlier BY DEF Init, RowShape, NotesEarlier
<1>2. \A a \in Addrs : UpToLate(a) = {}
  BY DEF Init, UpToLate, Earning, Earns, Waiting, Holding, Undecided
<1> QED BY <1>1, <1>2, FS_EmptySet, AdmissionAssumption DEF FewUpToLate

\* RecurringInv holds in every reachable state.
THEOREM RecurringInvariance == Spec => []RecurringInv
<1>1. RecurringInv /\ [Next]_vars => RecurringInv'
  BY NextIInv, RowStep, NotesStep, LimitStep DEF RecurringInv
<1> QED BY <1>1, InitRecurringInv, PTL DEF Spec

\* limitCount of the recurring-limits module is never exceeded at any address:
\* what ended with a reward and what may still earn one is bounded for every
\* number of sessions, although the usage is noted before the database is read.
THEOREM RecurringCorrect == Spec => []RecurringBound
<1>1. ASSUME RecurringInv, NEW a \in Addrs
      PROVE  Cardinality({s \in Sessions : addr[s] = a
                            /\ \/ row[s] = "claimable"
                               \/ stage[s] \in {"cleared", "running", "committing"}}) <= LimitCount
  <2> DEFINE E == {s \in Sessions : addr[s] = a
                     /\ \/ row[s] = "claimable"
                        \/ stage[s] \in {"cleared", "running", "committing"}}
  <2>1. E \in SUBSET UpToLate(a) BY DEF UpToLate, Earning, Earns, Holding
  <2>2. UpToLate(a) \in SUBSET Sessions BY DEF UpToLate, Earning, Waiting
  <2>3. Cardinality(E) <= Cardinality(UpToLate(a)) /\ Cardinality(E) \in Nat
        /\ Cardinality(UpToLate(a)) \in Nat
    BY <2>1, <2>2, SubsetBound
  <2> QED BY <1>1, <2>3, AdmissionAssumption DEF RecurringInv, FewUpToLate
<1>2. RecurringInv => RecurringBound BY <1>1 DEF RecurringBound
<1> QED BY <1>2, RecurringInvariance, PTL

-----------------------------------------------------------------------------
(***************************************************************************)
(* Sessions are admitted while the module manager is ready.  It says so    *)
(* only when exactly the configured modules run.  A load decides by its    *)
(* generation alone: what makes the decision right is that every change    *)
(* of the configuration queues a load with a later generation, and that    *)
(* the latest load leaves no module behind that is not as configured.      *)
(***************************************************************************)

CONSTANTS Module, Hook, MaxReloads, MaxFaults, EarlyReload
VARIABLES want, version, mod, queue, load, gen, admission, restoreReady, ordinary, terminal, hook, left, phase, faults

Manager == INSTANCE ModuleManager

\* The records of modules, loads, queued operations and hooks.
Kinds == {"disabled", "starting", "enabled", "stopping", "cleanup-required"}
Modules == [kind : Kinds, restored : BOOLEAN, cfg : 0 .. MaxReloads + 1, hooks : BOOLEAN, loaded : BOOLEAN]
Awaits == {"cleanup", "config", "reloading", "reverting", "enable", "starting", "unstart", "restore", "stopping"}
Loads == [gen : Nat, op : {"none", "load", "activate"}, todo : SUBSET Module, dict : SUBSET Module,
          cur : SUBSET Module, prev : 0 .. MaxReloads + 1, pc : {"idle", "next"} \cup Awaits,
          failed : BOOLEAN, base : Nat]
Queued == [gen : Nat, op : {"load", "activate"}]
Hooks == [st : {"idle", "running", "done"}, terminal : BOOLEAN, snapshot : SUBSET Module]
Phases == {"up", "rollback", "quiescing", "draining", "quiesced", "closing", "stopping", "disposed"}

\* The load awaits a callback of m.
Busy(m) == load.pc \in Awaits /\ load.cur = {m}

\* The steps at the module that is awaited, and the shutdown up to the stopping of modules.
AwaitStep ==
  \/ Manager!Cleanup \/ Manager!SetModuleConfig \/ Manager!ConfigReloaded \/ Manager!ConfigReverted
  \/ Manager!EnableModule \/ Manager!Started \/ Manager!StartRolledBack \/ Manager!Activate \/ Manager!Dropped
ClosingStep ==
  \/ Manager!InitializeFails \/ Manager!QuiesceRewardProducers \/ Manager!ProducersStopped
  \/ Manager!Quiesced \/ Manager!DisposeManager \/ Manager!HooksDrained

ManagerTypes ==
  /\ want \subseteq Module /\ version \in 1 .. MaxReloads + 1
  /\ mod \in [Module -> Modules] /\ load \in Loads /\ queue \in Seq(Queued)
  /\ gen \in Nat /\ admission \in {"closed", "loading", "ready", "failed"}
  /\ hook \in [Hook -> Hooks]
  /\ phase \in Phases /\ faults \in 0 .. MaxFaults
  /\ restoreReady \in BOOLEAN

\* The kinds a module may have while the load awaits it at pc.
KindsAt(pc) ==
  CASE pc = "cleanup" -> {"cleanup-required"}
    [] pc = "config" -> {"disabled", "enabled"}
    [] pc \in {"reloading", "reverting", "restore"} -> {"enabled"}
    [] pc = "enable" -> {"disabled"}
    [] pc \in {"starting", "unstart"} -> {"starting"}
    [] pc = "stopping" -> {"stopping"}

\* A load that failed, or is about to, saw a fault of its own.
LoadShape ==
  /\ load.pc \in Awaits => \E m \in Module : load.cur = {m}
  /\ load.op = "activate" => load.pc \in {"next", "restore"} /\ load.dict = {}
  /\ load.failed => faults > load.base
  /\ load.base <= faults
  /\ load.pc \in {"reverting", "unstart"} => faults > load.base

\* A module has hooks only while it lives, and stays in the list while it holds resources.
ModShape(m) ==
  /\ mod[m].hooks => mod[m].kind \in {"starting", "enabled", "stopping"}
  /\ mod[m].kind # "disabled" => mod[m].loaded
  /\ IF Busy(m) THEN mod[m].loaded /\ mod[m].kind \in KindsAt(load.pc)
     ELSE mod[m].kind \in {"disabled", "enabled", "cleanup-required"}
  /\ mod[m].kind \in {"enabled", "starting"} => mod[m].hooks \/ phase = "disposed"
  /\ phase = "rollback" /\ mod[m].kind = "enabled" => m \in left

\* Hooks are not admitted once the manager closes; the rollback follows the first load.
ShutdownShape ==
  /\ phase \in {"rollback", "closing", "stopping", "disposed"} => ~terminal
  /\ phase = "rollback" => queue = <<>> /\ load.pc = "idle"
  /\ Manager!StopIsExclusive

\* The inductive invariant of ManagerIsSound.
ManagerInv == ManagerTypes /\ LoadShape /\ (\A m \in Module : ModShape(m)) /\ ShutdownShape

\* The load under way is the one that decides about the admission, and it has not failed.
Latest == load.pc # "idle" /\ load.gen = gen /\ ~load.failed
\* A module runs with the configuration loaded last; nothing is left to do for it; it is off.
Up(m) == mod[m].kind = "enabled" /\ mod[m].cfg = version
Done(m) == Up(m) /\ (restoreReady => mod[m].restored)
Off(m) == mod[m].kind = "disabled"
\* Exactly the configured modules run.
Configured == \A m \in Module : IF m \in want THEN Up(m) ELSE Off(m)

\* Loads are queued and run in the order of their generations, and an activation comes first.
QueueShape ==
  /\ \A i \in 1 .. Len(queue) : queue[i].gen <= gen
  /\ \A i, j \in 1 .. Len(queue) : i < j => queue[i].gen < queue[j].gen
  /\ load.pc # "idle" => load.gen <= gen /\ \A i \in 1 .. Len(queue) : load.gen < queue[i].gen
  /\ phase # "up" => admission = "closed"
  /\ \A i \in 1 .. Len(queue) : queue[i].op = "activate" => i = 1 /\ load.pc = "idle" /\ restoreReady
  /\ load.op = "activate" => restoreReady
  /\ ~restoreReady /\ phase = "up" => gen = 1
  /\ load.pc # "idle" => load.op # "none"

\* Where the latest load has a module: still to do, at hand, or done.
Placed(m) ==
  IF m \in want
  THEN /\ m \in load.todo \/ Busy(m) \/ Done(m)
       /\ Busy(m) => /\ load.pc # "stopping"
                     /\ load.pc \in {"reloading", "enable", "starting", "restore"} => mod[m].cfg = version
       /\ m \in load.dict => m \in load.todo
  ELSE /\ m \in load.dict \/ Busy(m) \/ Off(m)
       /\ Busy(m) => load.pc = "stopping"

\* While the latest load is under way it has every module in its hands.
Progress ==
  /\ Latest /\ load.op = "load" => \A m \in Module : Placed(m)
  /\ Latest /\ load.op = "activate" =>
       Configured /\ \A m \in want : m \in load.todo \/ Busy(m) \/ mod[m].restored
  /\ queue # <<>> /\ queue[1].op = "activate" /\ queue[1].gen = gen => Configured

\* The admission is open only while no load is queued or under way.
ReadyShape ==
  admission = "ready" =>
    /\ queue = <<>> /\ load.pc = "idle" /\ phase = "up"
    /\ \A m \in Module : IF m \in want THEN Done(m) ELSE Off(m)

\* The inductive invariant of AdmissionIsReady.
ReadyInv == ManagerInv /\ QueueShape /\ Progress /\ ReadyShape

\* The record of a step at a module m: the load stays under way, m becomes r, and nothing else changes.
StepAt(m, r) ==
  /\ load.pc # "idle" /\ (load.pc \in Awaits => load.cur = {m})
  /\ mod' = [mod EXCEPT ![m] = r] /\ load' \in Loads
  /\ load'.pc \in Awaits \cup {"next"} /\ (load'.pc \in Awaits => load'.cur = {m})
  /\ load'.op = load.op /\ load'.gen = load.gen /\ load'.base = load.base
  /\ (load.failed => load'.failed)
  /\ Manager!Keep

\* What a module record r must be while the load is at pc at this module.
FitsAt(r, pc) ==
  /\ r \in Modules
  /\ r.hooks => r.kind \in {"starting", "enabled", "stopping"}
  /\ r.kind # "disabled" => r.loaded
  /\ IF pc \in Awaits THEN r.loaded /\ r.kind \in KindsAt(pc)
     ELSE r.kind \in {"disabled", "enabled", "cleanup-required"}
  /\ r.kind \in {"enabled", "starting"} => r.hooks

\* The module at hand is the only one that is awaited.
LEMMA CurIsBusy ==
  ASSUME ManagerInv, load.pc \in Awaits
  PROVE  Manager!Cur \in Module /\ load.cur = {Manager!Cur}
BY DEF ManagerInv, LoadShape, Manager!Cur

\* A step at a module keeps the invariant when it keeps what the load and this module must be.
LEMMA StepKeepsInv ==
  ASSUME ManagerInv, NEW m \in Module, NEW r, StepAt(m, r), FitsAt(r, load'.pc),
         faults' \in 0 .. MaxFaults, faults' >= faults,
         load.op = "activate" => load'.pc \in {"next", "restore"} /\ load'.dict = {},
         load'.failed \/ load'.pc \in {"reverting", "unstart"} => faults' > load.base
  PROVE  ManagerInv'
<1>1. ManagerTypes /\ LoadShape /\ ShutdownShape /\ \A x \in Module : ModShape(x) BY DEF ManagerInv
<1>2. mod'[m] = r /\ mod' \in [Module -> Modules] /\ \A x \in Module \ {m} : mod'[x] = mod[x]
  BY <1>1 DEF ManagerTypes, StepAt, FitsAt
<1>3. UNCHANGED <<want, version, queue, gen, admission, restoreReady, ordinary, terminal, hook, left, phase>>
  BY DEF StepAt, Manager!Keep
<1>4. ManagerTypes' BY <1>1, <1>2, <1>3 DEF ManagerTypes, StepAt
<1>5. LoadShape'
  <2>1. load'.base <= faults' BY <1>1 DEF LoadShape, StepAt, ManagerTypes, Loads
  <2>2. load'.pc \in Awaits => \E x \in Module : load'.cur = {x} BY DEF StepAt
  <2> QED BY <1>1, <2>1, <2>2 DEF LoadShape, StepAt
<1>6. phase \notin {"rollback", "stopping", "disposed"}
  BY <1>1 DEF ShutdownShape, Manager!StopIsExclusive, StepAt
<1>7. ShutdownShape' BY <1>1, <1>3, <1>6 DEF ShutdownShape, Manager!StopIsExclusive
<1>8. ASSUME NEW x \in Module PROVE ModShape(x)'
  <2>1. CASE x = m
    <3>1. Busy(x)' <=> load'.pc \in Awaits BY <2>1 DEF Busy, StepAt
    <3> QED BY <1>2, <1>3, <1>6, <2>1, <3>1 DEF ModShape, FitsAt
  <2>2. CASE x # m
    <3>1. ~Busy(x) /\ ~Busy(x)' BY <2>2 DEF Busy, StepAt
    <3> QED BY <1>1, <1>2, <1>3, <2>2, <3>1 DEF ModShape
  <2> QED BY <2>1, <2>2
<1> QED BY <1>4, <1>5, <1>7, <1>8 DEF ManagerInv

\* An awaited step: the module becomes r, and the load goes on at pc.
Turn(m, r, pc, failed, prev) ==
  /\ mod' = [mod EXCEPT ![m] = r] /\ load' = [load EXCEPT !.pc = pc, !.failed = failed, !.prev = prev] /\ Manager!Keep
  /\ pc \in Awaits \cup {"next"} /\ prev \in 0 .. MaxReloads + 1 /\ failed \in BOOLEAN
  /\ load.failed => failed
  /\ faults' = faults \/ Manager!Fault
  /\ failed \/ pc \in {"reverting", "unstart"} => load.failed \/ load.pc \in {"reverting", "unstart"} \/ Manager!Fault
  /\ load.pc = "restore" => pc = "next"

LEMMA TurnKeepsInv ==
  ASSUME Manager!ParamsAssumption, ManagerInv, NEW m \in Module, load.pc \in Awaits, load.cur = {m},
         NEW r, NEW pc, NEW failed, NEW prev, Turn(m, r, pc, failed, prev), FitsAt(r, pc)
  PROVE  ManagerInv' /\ StepAt(m, mod'[m])
<1>1. /\ mod \in [Module -> Modules] /\ load \in Loads /\ MaxFaults \in Nat /\ faults \in 0 .. MaxFaults /\ LoadShape
  BY DEF ManagerInv, ManagerTypes, Manager!ParamsAssumption
<1>2. /\ load' \in Loads /\ load'.pc = pc /\ load'.cur = load.cur /\ load'.op = load.op /\ load'.gen = load.gen
      /\ load'.base = load.base /\ load'.failed = failed /\ load'.dict = load.dict
  BY <1>1 DEF Loads, Turn
<1>3. mod'[m] = r BY <1>1 DEF Turn
<1>4. StepAt(m, r) BY <1>2 DEF StepAt, Turn, Awaits
<1>5. /\ load.failed \/ load.pc \in {"reverting", "unstart"} => faults > load.base
      /\ load.base <= faults /\ load.base \in Nat
  BY <1>1 DEF LoadShape, Loads
<1>6. faults' \in 0 .. MaxFaults /\ faults' >= faults /\ (failed \/ pc \in {"reverting", "unstart"} => faults' > load.base)
  BY <1>1, <1>5 DEF Turn, Manager!Fault
<1>7. load.op = "activate" => load'.pc \in {"next", "restore"} /\ load'.dict = {}
  BY <1>1, <1>2 DEF LoadShape, Turn, Awaits
<1>8. ManagerInv' BY <1>2, <1>4, <1>6, <1>7, StepKeepsInv
<1> QED BY <1>3, <1>4, <1>8

\* The awaited steps of a module: each is a step at it.
LEMMA AwaitSteps ==
  ASSUME Manager!ParamsAssumption, ManagerInv, AwaitStep
  PROVE  ManagerInv' /\ \E m \in Module : load.cur = {m} /\ load.pc \in Awaits /\ StepAt(m, mod'[m])
<1> DEFINE m == Manager!Cur
           x == mod[m]
<1>1. ManagerTypes /\ LoadShape /\ ShutdownShape /\ \A y \in Module : ModShape(y) BY DEF ManagerInv
<1>2. load.pc \in Awaits
  BY DEF AwaitStep, Manager!At, Awaits, Manager!Cleanup, Manager!SetModuleConfig, Manager!ConfigReloaded,
     Manager!ConfigReverted, Manager!EnableModule, Manager!Started,
     Manager!StartRolledBack, Manager!Activate, Manager!Dropped
<1>3. m \in Module /\ load.cur = {m} BY <1>2, CurIsBusy
<1> HIDE DEF m
<1>4. /\ x \in Modules /\ mod \in [Module -> Modules] /\ load \in Loads /\ version \in 0 .. MaxReloads + 1
      /\ MaxReloads \in Nat /\ MaxFaults \in Nat /\ faults \in 0 .. MaxFaults
  BY <1>1, <1>3 DEF ManagerTypes, Manager!ParamsAssumption
<1>5. /\ x.hooks => x.kind \in {"starting", "enabled", "stopping"}
      /\ x.loaded /\ x.kind \in KindsAt(load.pc)
      /\ x.kind \in {"enabled", "starting"} => x.hooks
  <2>1. Busy(m) BY <1>2, <1>3 DEF Busy
  <2>2. phase # "disposed" BY <1>1, <1>2 DEF ShutdownShape, Manager!StopIsExclusive, Awaits
  <2> QED BY <1>1, <1>3, <2>1, <2>2 DEF ModShape
<1> HIDE DEF x
<1>x. x = mod[m] BY DEF x
<1>8. ASSUME NEW r, NEW pc, NEW failed, NEW prev, Turn(m, r, pc, failed, prev), FitsAt(r, pc)
      PROVE  ManagerInv' /\ StepAt(m, mod'[m])
  BY <1>2, <1>3, <1>8, TurnKeepsInv
<1>9. /\ \A pc : [load EXCEPT !.pc = pc] = [load EXCEPT !.pc = pc, !.failed = load.failed, !.prev = load.prev]
      /\ [load EXCEPT !.pc = "next", !.failed = TRUE] = [load EXCEPT !.pc = "next", !.failed = TRUE, !.prev = load.prev]
      /\ \A pc, d : [load EXCEPT !.pc = pc, !.prev = d] = [load EXCEPT !.pc = pc, !.failed = load.failed, !.prev = d]
      /\ load.failed \in BOOLEAN /\ load.prev \in 0 .. MaxReloads + 1
  BY <1>4 DEF Loads
<1>10. [mod EXCEPT ![m] = x] = mod BY <1>3, <1>4, <1>x
<1>11. CASE Manager!Cleanup
  <2>0. load.pc = "cleanup" /\ Manager!Keep BY <1>11 DEF Manager!Cleanup, Manager!At
  <2>1. CASE /\ mod' = [mod EXCEPT ![m] = [x EXCEPT !.kind = "disabled", !.restored = FALSE, !.hooks = FALSE]]
             /\ load' = [load EXCEPT !.pc = "config"]
             /\ faults' = faults
    <3> DEFINE r == [x EXCEPT !.kind = "disabled", !.restored = FALSE, !.hooks = FALSE]
    <3>1. FitsAt(r, "config") BY <1>4, <1>5, <2>0, <2>1 DEF FitsAt, Modules, Kinds, KindsAt, Awaits, Manager!NewModule
    <3>2. mod' = [mod EXCEPT ![m] = r] BY <1>10, <2>1
    <3> HIDE DEF r
    <3>3. load' = [load EXCEPT !.pc = "config", !.failed = load.failed, !.prev = load.prev] BY <1>9, <2>1
    <3>4. Turn(m, r, "config", load.failed, load.prev) BY <1>4, <1>9, <2>0, <2>1, <3>2, <3>3 DEF Turn, Awaits
    <3> QED BY <1>2, <1>3, <1>8, <3>1, <3>4
  <2>2. CASE /\ mod' = [mod EXCEPT ![m] = [x EXCEPT !.hooks = FALSE]]
             /\ load' = [load EXCEPT !.pc = "next", !.failed = TRUE]
             /\ Manager!Fault
    <3> DEFINE r == [x EXCEPT !.hooks = FALSE]
    <3>1. FitsAt(r, "next") BY <1>4, <1>5, <2>0, <2>2 DEF FitsAt, Modules, Kinds, KindsAt, Awaits, Manager!NewModule
    <3>2. mod' = [mod EXCEPT ![m] = r] BY <1>10, <2>2
    <3> HIDE DEF r
    <3>3. load' = [load EXCEPT !.pc = "next", !.failed = TRUE, !.prev = load.prev] BY <1>9, <2>2
    <3>4. Turn(m, r, "next", TRUE, load.prev) BY <1>4, <1>9, <2>0, <2>2, <3>2, <3>3 DEF Turn, Awaits
    <3> QED BY <1>2, <1>3, <1>8, <3>1, <3>4
  <2> QED BY <1>5, <1>11, <1>x, <2>0, <2>1, <2>2 DEF Manager!Cleanup, m, x, Manager!Goto, Manager!Fail, Manager!Set
<1>12. CASE Manager!SetModuleConfig
  <2>0. load.pc = "config" /\ Manager!Keep BY <1>12 DEF Manager!SetModuleConfig, Manager!At
  <2>1. CASE /\ mod' = [mod EXCEPT ![m] = [x EXCEPT !.cfg = version]]
             /\ load' = [load EXCEPT !.pc = "enable"]
             /\ faults' = faults
             /\ x.kind = "disabled"
    <3> DEFINE r == [x EXCEPT !.cfg = version]
    <3>1. FitsAt(r, "enable") BY <1>4, <1>5, <2>0, <2>1 DEF FitsAt, Modules, Kinds, KindsAt, Awaits, Manager!NewModule
    <3>2. mod' = [mod EXCEPT ![m] = r] BY <1>10, <2>1
    <3> HIDE DEF r
    <3>3. load' = [load EXCEPT !.pc = "enable", !.failed = load.failed, !.prev = load.prev] BY <1>9, <2>1
    <3>4. Turn(m, r, "enable", load.failed, load.prev) BY <1>4, <1>9, <2>0, <2>1, <3>2, <3>3 DEF Turn, Awaits
    <3> QED BY <1>2, <1>3, <1>8, <3>1, <3>4
  <2>2. CASE /\ mod' = [mod EXCEPT ![m] = [x EXCEPT !.cfg = version]]
             /\ load' = [load EXCEPT !.pc = "reloading", !.prev = x.cfg]
             /\ faults' = faults
             /\ x.kind = "enabled"
    <3> DEFINE r == [x EXCEPT !.cfg = version]
    <3>1. FitsAt(r, "reloading") BY <1>4, <1>5, <2>0, <2>2 DEF FitsAt, Modules, Kinds, KindsAt, Awaits,
       Manager!NewModule
    <3>2. mod' = [mod EXCEPT ![m] = r] BY <1>10, <2>2
    <3> HIDE DEF r
    <3>3. load' = [load EXCEPT !.pc = "reloading", !.failed = load.failed, !.prev = x.cfg] BY <1>9, <2>2
    <3>4. Turn(m, r, "reloading", load.failed, x.cfg) BY <1>4, <1>9, <2>0, <2>2, <3>2, <3>3 DEF Turn, Awaits, Modules
    <3> QED BY <1>2, <1>3, <1>8, <3>1, <3>4
  <2> QED BY <1>5, <1>12, <1>x, <2>0, <2>1, <2>2 DEF Manager!SetModuleConfig, m, x, Manager!Goto, Manager!Fail,
     Manager!Set, KindsAt
<1>13. CASE Manager!ConfigReloaded
  <2>0. load.pc = "reloading" /\ Manager!Keep BY <1>13 DEF Manager!ConfigReloaded, Manager!At
  <2>1. CASE /\ mod' = mod
             /\ load' = [load EXCEPT !.pc = "restore"]
             /\ faults' = faults
    <3> DEFINE r == x
    <3>1. FitsAt(r, "restore") BY <1>4, <1>5, <2>0, <2>1 DEF FitsAt, Modules, Kinds, KindsAt, Awaits,
       Manager!NewModule
    <3>2. mod' = [mod EXCEPT ![m] = r] BY <1>10, <2>1
    <3> HIDE DEF r
    <3>3. load' = [load EXCEPT !.pc = "restore", !.failed = load.failed, !.prev = load.prev] BY <1>9, <2>1
    <3>4. Turn(m, r, "restore", load.failed, load.prev) BY <1>4, <1>9, <2>0, <2>1, <3>2, <3>3 DEF Turn, Awaits
    <3> QED BY <1>2, <1>3, <1>8, <3>1, <3>4
  <2>2. CASE /\ mod' = [mod EXCEPT ![m] = [x EXCEPT !.cfg = load.prev]]
             /\ load' = [load EXCEPT !.pc = "reverting"]
             /\ Manager!Fault
    <3> DEFINE r == [x EXCEPT !.cfg = load.prev]
    <3>1. FitsAt(r, "reverting") BY <1>4, <1>5, <2>0, <2>2, <1>9 DEF FitsAt, Modules, Kinds, KindsAt, Awaits,
       Manager!NewModule
    <3>2. mod' = [mod EXCEPT ![m] = r] BY <1>10, <2>2
    <3> HIDE DEF r
    <3>3. load' = [load EXCEPT !.pc = "reverting", !.failed = load.failed, !.prev = load.prev] BY <1>9, <2>2
    <3>4. Turn(m, r, "reverting", load.failed, load.prev) BY <1>4, <1>9, <2>0, <2>2, <3>2, <3>3 DEF Turn, Awaits
    <3> QED BY <1>2, <1>3, <1>8, <3>1, <3>4
  <2> QED BY <1>5, <1>13, <1>x, <2>0, <2>1, <2>2 DEF Manager!ConfigReloaded, m, x, Manager!Goto, Manager!Fail,
     Manager!Set
<1>14. CASE Manager!ConfigReverted
  <2>0. load.pc = "reverting" /\ Manager!Keep BY <1>14 DEF Manager!ConfigReverted, Manager!At
  <2>1. CASE /\ mod' = mod
             /\ load' = [load EXCEPT !.pc = "next", !.failed = TRUE]
             /\ faults' = faults
    <3> DEFINE r == x
    <3>1. FitsAt(r, "next") BY <1>4, <1>5, <2>0, <2>1 DEF FitsAt, Modules, Kinds, KindsAt, Awaits, Manager!NewModule
    <3>2. mod' = [mod EXCEPT ![m] = r] BY <1>10, <2>1
    <3> HIDE DEF r
    <3>3. load' = [load EXCEPT !.pc = "next", !.failed = TRUE, !.prev = load.prev] BY <1>9, <2>1
    <3>4. Turn(m, r, "next", TRUE, load.prev) BY <1>4, <1>9, <2>0, <2>1, <3>2, <3>3 DEF Turn, Awaits
    <3> QED BY <1>2, <1>3, <1>8, <3>1, <3>4
  <2>2. CASE /\ mod' = [mod EXCEPT ![m] = [x EXCEPT !.kind = "cleanup-required", !.hooks = FALSE]]
             /\ load' = [load EXCEPT !.pc = "next", !.failed = TRUE]
             /\ Manager!Fault
    <3> DEFINE r == [x EXCEPT !.kind = "cleanup-required", !.hooks = FALSE]
    <3>1. FitsAt(r, "next") BY <1>4, <1>5, <2>0, <2>2 DEF FitsAt, Modules, Kinds, KindsAt, Awaits, Manager!NewModule
    <3>2. mod' = [mod EXCEPT ![m] = r] BY <1>10, <2>2
    <3> HIDE DEF r
    <3>3. load' = [load EXCEPT !.pc = "next", !.failed = TRUE, !.prev = load.prev] BY <1>9, <2>2
    <3>4. Turn(m, r, "next", TRUE, load.prev) BY <1>4, <1>9, <2>0, <2>2, <3>2, <3>3 DEF Turn, Awaits
    <3> QED BY <1>2, <1>3, <1>8, <3>1, <3>4
  <2> QED BY <1>5, <1>14, <1>x, <2>0, <2>1, <2>2 DEF Manager!ConfigReverted, m, x, Manager!Goto, Manager!Fail,
     Manager!Set, Manager!ReloadAbandoned
<1>15. CASE Manager!EnableModule
  <2>0. load.pc = "enable" /\ Manager!Keep BY <1>15 DEF Manager!EnableModule, Manager!At
  <2>1. CASE /\ mod' = [mod EXCEPT ![m] = [x EXCEPT !.kind = "starting", !.hooks = TRUE]]
             /\ load' = [load EXCEPT !.pc = "starting"]
             /\ faults' = faults
    <3> DEFINE r == [x EXCEPT !.kind = "starting", !.hooks = TRUE]
    <3>1. FitsAt(r, "starting") BY <1>4, <1>5, <2>0, <2>1 DEF FitsAt, Modules, Kinds, KindsAt, Awaits,
       Manager!NewModule
    <3>2. mod' = [mod EXCEPT ![m] = r] BY <1>10, <2>1
    <3> HIDE DEF r
    <3>3. load' = [load EXCEPT !.pc = "starting", !.failed = load.failed, !.prev = load.prev] BY <1>9, <2>1
    <3>4. Turn(m, r, "starting", load.failed, load.prev) BY <1>4, <1>9, <2>0, <2>1, <3>2, <3>3 DEF Turn, Awaits
    <3> QED BY <1>2, <1>3, <1>8, <3>1, <3>4
  <2> QED BY <1>5, <1>15, <1>x, <2>0, <2>1 DEF Manager!EnableModule, m, x, Manager!Goto, Manager!Fail, Manager!Set
<1>16. CASE Manager!Started
  <2>0. load.pc = "starting" /\ Manager!Keep BY <1>16 DEF Manager!Started, Manager!At
  <2>1. CASE /\ mod' = [mod EXCEPT ![m] = [x EXCEPT !.kind = "enabled", !.restored = FALSE]]
             /\ load' = [load EXCEPT !.pc = "restore"]
             /\ faults' = faults
    <3> DEFINE r == [x EXCEPT !.kind = "enabled", !.restored = FALSE]
    <3>1. FitsAt(r, "restore") BY <1>4, <1>5, <2>0, <2>1 DEF FitsAt, Modules, Kinds, KindsAt, Awaits,
       Manager!NewModule
    <3>2. mod' = [mod EXCEPT ![m] = r] BY <1>10, <2>1
    <3> HIDE DEF r
    <3>3. load' = [load EXCEPT !.pc = "restore", !.failed = load.failed, !.prev = load.prev] BY <1>9, <2>1
    <3>4. Turn(m, r, "restore", load.failed, load.prev) BY <1>4, <1>9, <2>0, <2>1, <3>2, <3>3 DEF Turn, Awaits
    <3> QED BY <1>2, <1>3, <1>8, <3>1, <3>4
  <2>2. CASE /\ mod' = mod
             /\ load' = [load EXCEPT !.pc = "unstart"]
             /\ Manager!Fault
    <3> DEFINE r == x
    <3>1. FitsAt(r, "unstart") BY <1>4, <1>5, <2>0, <2>2 DEF FitsAt, Modules, Kinds, KindsAt, Awaits,
       Manager!NewModule
    <3>2. mod' = [mod EXCEPT ![m] = r] BY <1>10, <2>2
    <3> HIDE DEF r
    <3>3. load' = [load EXCEPT !.pc = "unstart", !.failed = load.failed, !.prev = load.prev] BY <1>9, <2>2
    <3>4. Turn(m, r, "unstart", load.failed, load.prev) BY <1>4, <1>9, <2>0, <2>2, <3>2, <3>3 DEF Turn, Awaits
    <3> QED BY <1>2, <1>3, <1>8, <3>1, <3>4
  <2> QED BY <1>5, <1>16, <1>x, <2>0, <2>1, <2>2 DEF Manager!Started, m, x, Manager!Goto, Manager!Fail, Manager!Set
<1>17. CASE Manager!StartRolledBack
  <2>0. load.pc = "unstart" /\ Manager!Keep BY <1>17 DEF Manager!StartRolledBack, Manager!At
  <2>1. CASE /\ mod' = [mod EXCEPT ![m] = [x EXCEPT !.kind = "disabled", !.hooks = FALSE]]
             /\ load' = [load EXCEPT !.pc = "next", !.failed = TRUE]
             /\ faults' = faults
    <3> DEFINE r == [x EXCEPT !.kind = "disabled", !.hooks = FALSE]
    <3>1. FitsAt(r, "next") BY <1>4, <1>5, <2>0, <2>1 DEF FitsAt, Modules, Kinds, KindsAt, Awaits, Manager!NewModule
    <3>2. mod' = [mod EXCEPT ![m] = r] BY <1>10, <2>1
    <3> HIDE DEF r
    <3>3. load' = [load EXCEPT !.pc = "next", !.failed = TRUE, !.prev = load.prev] BY <1>9, <2>1
    <3>4. Turn(m, r, "next", TRUE, load.prev) BY <1>4, <1>9, <2>0, <2>1, <3>2, <3>3 DEF Turn, Awaits
    <3> QED BY <1>2, <1>3, <1>8, <3>1, <3>4
  <2>2. CASE /\ mod' = [mod EXCEPT ![m] = [x EXCEPT !.kind = "cleanup-required", !.restored = FALSE, !.hooks = FALSE]]
             /\ load' = [load EXCEPT !.pc = "next", !.failed = TRUE]
             /\ Manager!Fault
    <3> DEFINE r == [x EXCEPT !.kind = "cleanup-required", !.restored = FALSE, !.hooks = FALSE]
    <3>1. FitsAt(r, "next") BY <1>4, <1>5, <2>0, <2>2 DEF FitsAt, Modules, Kinds, KindsAt, Awaits, Manager!NewModule
    <3>2. mod' = [mod EXCEPT ![m] = r] BY <1>10, <2>2
    <3> HIDE DEF r
    <3>3. load' = [load EXCEPT !.pc = "next", !.failed = TRUE, !.prev = load.prev] BY <1>9, <2>2
    <3>4. Turn(m, r, "next", TRUE, load.prev) BY <1>4, <1>9, <2>0, <2>2, <3>2, <3>3 DEF Turn, Awaits
    <3> QED BY <1>2, <1>3, <1>8, <3>1, <3>4
  <2> QED BY <1>5, <1>17, <1>x, <2>0, <2>1, <2>2 DEF Manager!StartRolledBack, m, x, Manager!Goto, Manager!Fail,
     Manager!Set
<1>18. CASE Manager!Activate
  <2>0. load.pc = "restore" /\ Manager!Keep BY <1>18 DEF Manager!Activate, Manager!At
  <2>1. CASE /\ mod' = mod
             /\ load' = [load EXCEPT !.pc = "next"]
             /\ faults' = faults
    <3> DEFINE r == x
    <3>1. FitsAt(r, "next") BY <1>4, <1>5, <2>0, <2>1 DEF FitsAt, Modules, Kinds, KindsAt, Awaits, Manager!NewModule
    <3>2. mod' = [mod EXCEPT ![m] = r] BY <1>10, <2>1
    <3> HIDE DEF r
    <3>3. load' = [load EXCEPT !.pc = "next", !.failed = load.failed, !.prev = load.prev] BY <1>9, <2>1
    <3>4. Turn(m, r, "next", load.failed, load.prev) BY <1>4, <1>9, <2>0, <2>1, <3>2, <3>3 DEF Turn, Awaits
    <3> QED BY <1>2, <1>3, <1>8, <3>1, <3>4
  <2>2. CASE /\ mod' = [mod EXCEPT ![m] = [x EXCEPT !.restored = TRUE]]
             /\ load' = [load EXCEPT !.pc = "next"]
             /\ faults' = faults
    <3> DEFINE r == [x EXCEPT !.restored = TRUE]
    <3>1. FitsAt(r, "next") BY <1>4, <1>5, <2>0, <2>2 DEF FitsAt, Modules, Kinds, KindsAt, Awaits, Manager!NewModule
    <3>2. mod' = [mod EXCEPT ![m] = r] BY <1>10, <2>2
    <3> HIDE DEF r
    <3>3. load' = [load EXCEPT !.pc = "next", !.failed = load.failed, !.prev = load.prev] BY <1>9, <2>2
    <3>4. Turn(m, r, "next", load.failed, load.prev) BY <1>4, <1>9, <2>0, <2>2, <3>2, <3>3 DEF Turn, Awaits
    <3> QED BY <1>2, <1>3, <1>8, <3>1, <3>4
  <2>3. CASE /\ mod' = [mod EXCEPT ![m] = [x EXCEPT !.kind = "cleanup-required", !.restored = FALSE, !.hooks = FALSE]]
             /\ load' = [load EXCEPT !.pc = "next", !.failed = TRUE]
             /\ Manager!Fault
    <3> DEFINE r == [x EXCEPT !.kind = "cleanup-required", !.restored = FALSE, !.hooks = FALSE]
    <3>1. FitsAt(r, "next") BY <1>4, <1>5, <2>0, <2>3 DEF FitsAt, Modules, Kinds, KindsAt, Awaits, Manager!NewModule
    <3>2. mod' = [mod EXCEPT ![m] = r] BY <1>10, <2>3
    <3> HIDE DEF r
    <3>3. load' = [load EXCEPT !.pc = "next", !.failed = TRUE, !.prev = load.prev] BY <1>9, <2>3
    <3>4. Turn(m, r, "next", TRUE, load.prev) BY <1>4, <1>9, <2>0, <2>3, <3>2, <3>3 DEF Turn, Awaits
    <3> QED BY <1>2, <1>3, <1>8, <3>1, <3>4
  <2> QED BY <1>5, <1>18, <1>x, <2>0, <2>1, <2>2, <2>3 DEF Manager!Activate, m, x, Manager!Goto, Manager!Fail,
     Manager!Set
<1>19. CASE Manager!Dropped
  <2>0. load.pc = "stopping" /\ Manager!Keep BY <1>19 DEF Manager!Dropped, Manager!At
  <2>1. CASE /\ mod' = [mod EXCEPT ![m] = Manager!NewModule]
             /\ load' = [load EXCEPT !.pc = "next"]
             /\ faults' = faults
    <3> DEFINE r == Manager!NewModule
    <3>1. FitsAt(r, "next") BY <1>4, <1>5, <2>0, <2>1 DEF FitsAt, Modules, Kinds, KindsAt, Awaits, Manager!NewModule
    <3>2. mod' = [mod EXCEPT ![m] = r] BY <1>10, <2>1
    <3> HIDE DEF r
    <3>3. load' = [load EXCEPT !.pc = "next", !.failed = load.failed, !.prev = load.prev] BY <1>9, <2>1
    <3>4. Turn(m, r, "next", load.failed, load.prev) BY <1>4, <1>9, <2>0, <2>1, <3>2, <3>3 DEF Turn, Awaits
    <3> QED BY <1>2, <1>3, <1>8, <3>1, <3>4
  <2>2. CASE /\ mod' = [mod EXCEPT ![m] = [x EXCEPT !.kind = "cleanup-required", !.hooks = FALSE]]
             /\ load' = [load EXCEPT !.pc = "next", !.failed = TRUE]
             /\ Manager!Fault
    <3> DEFINE r == [x EXCEPT !.kind = "cleanup-required", !.hooks = FALSE]
    <3>1. FitsAt(r, "next") BY <1>4, <1>5, <2>0, <2>2 DEF FitsAt, Modules, Kinds, KindsAt, Awaits, Manager!NewModule
    <3>2. mod' = [mod EXCEPT ![m] = r] BY <1>10, <2>2
    <3> HIDE DEF r
    <3>3. load' = [load EXCEPT !.pc = "next", !.failed = TRUE, !.prev = load.prev] BY <1>9, <2>2
    <3>4. Turn(m, r, "next", TRUE, load.prev) BY <1>4, <1>9, <2>0, <2>2, <3>2, <3>3 DEF Turn, Awaits
    <3> QED BY <1>2, <1>3, <1>8, <3>1, <3>4
  <2> QED BY <1>5, <1>19, <1>x, <2>0, <2>1, <2>2 DEF Manager!Dropped, m, x, Manager!Goto, Manager!Fail,
     Manager!Set, Manager!StopFailed
<1> QED BY <1>2, <1>3, <1>11, <1>12, <1>13, <1>14, <1>15, <1>16, <1>17, <1>18, <1>19 DEF AwaitStep

\* The modules and the load stay: only the shutdown's own conditions are left to show.
LEMMA StillModules ==
  ASSUME ManagerInv, UNCHANGED <<mod, load, faults>>, ManagerTypes', ShutdownShape',
         phase = "disposed" => phase' = "disposed",
         phase' = "rollback" => \A x \in Module : mod[x].kind = "enabled" => x \in left'
  PROVE  ManagerInv'
<1>1. ManagerTypes /\ LoadShape /\ ShutdownShape /\ \A x \in Module : ModShape(x) BY DEF ManagerInv
<1>2. LoadShape' BY <1>1 DEF LoadShape
<1>3. ASSUME NEW x \in Module PROVE ModShape(x)' BY <1>1 DEF ModShape, Busy
<1> QED BY <1>2, <1>3 DEF ManagerInv

\* Loads are queued only while the manager is up.
LEMMA QueueSteps ==
  ASSUME Manager!ParamsAssumption, ManagerInv, Manager!Reload \/ Manager!ActivateModulesAfterStateRestore
  PROVE  ManagerInv'
<1>1. ManagerTypes /\ ShutdownShape BY DEF ManagerInv
<1>2. /\ phase = "up" /\ UNCHANGED <<mod, load, faults, phase, hook, terminal>>
      /\ Manager!QueueLoad("load") \/ Manager!QueueLoad("activate")
      /\ want' \subseteq Module /\ version' \in 1 .. MaxReloads + 1 /\ restoreReady' \in BOOLEAN
  <2>1. /\ want \subseteq Module /\ version \in 1 .. MaxReloads + 1 /\ restoreReady \in BOOLEAN /\ MaxReloads \in Nat
    BY <1>1 DEF ManagerTypes, Manager!ParamsAssumption
  <2>2. CASE Manager!Reload BY <2>1, <2>2 DEF Manager!Reload, Manager!Initialized
  <2>3. CASE Manager!ActivateModulesAfterStateRestore
    BY <2>1, <2>3 DEF Manager!ActivateModulesAfterStateRestore, Manager!Initialized
  <2> QED BY <2>2, <2>3
<1>3. gen' \in Nat /\ admission' = "loading" /\ queue' \in Seq(Queued)
  <2>1. gen \in Nat /\ queue \in Seq(Queued) BY <1>1 DEF ManagerTypes
  <2>2. [gen |-> gen + 1, op |-> "load"] \in Queued /\ [gen |-> gen + 1, op |-> "activate"] \in Queued
    BY <2>1 DEF Queued
  <2> QED BY <1>2, <2>1, <2>2, AppendProperties DEF Manager!QueueLoad
<1>4. ManagerTypes' BY <1>1, <1>2, <1>3 DEF ManagerTypes
<1>5. ShutdownShape' BY <1>1, <1>2 DEF ShutdownShape, Manager!StopIsExclusive
<1> QED BY <1>2, <1>4, <1>5, StillModules

\* The steps of the shutdown up to the stopping of modules.
LEMMA ClosingSteps ==
  ASSUME ManagerInv, ClosingStep
  PROVE  ManagerInv'
<1>1. ManagerTypes /\ ShutdownShape BY DEF ManagerInv
<1>2. /\ UNCHANGED <<mod, load, faults, want, version, queue, hook, restoreReady>>
      /\ phase \notin {"rollback", "stopping", "disposed"} /\ phase' \in Phases
      /\ gen' \in Nat /\ admission' \in {"closed", "loading", "ready", "failed"}
  <2>1. gen \in Nat /\ admission \in {"closed", "loading", "ready", "failed"} BY <1>1 DEF ManagerTypes
  <2>2. CASE Manager!InitializeFails BY <2>1, <2>2 DEF Manager!InitializeFails, Manager!Initialized, Phases
  <2>3. CASE Manager!QuiesceRewardProducers BY <2>1, <2>3 DEF Manager!QuiesceRewardProducers, Phases
  <2>4. CASE Manager!ProducersStopped \/ Manager!Quiesced BY <2>1, <2>4 DEF Manager!ProducersStopped,
     Manager!Quiesced, Phases
  <2>5. CASE Manager!DisposeManager BY <2>1, <2>5 DEF Manager!DisposeManager, Phases
  <2>6. CASE Manager!HooksDrained BY <2>1, <2>6 DEF Manager!HooksDrained, Phases
  <2> QED BY <2>2, <2>3, <2>4, <2>5, <2>6 DEF ClosingStep
<1>3. ManagerTypes' BY <1>1, <1>2 DEF ManagerTypes
<1>4. ShutdownShape'
  <2>1. phase' \in {"rollback", "closing", "stopping", "disposed"} => ~terminal'
    BY <1>1 DEF ClosingStep, ShutdownShape, Manager!InitializeFails, Manager!QuiesceRewardProducers,
       Manager!ProducersStopped, Manager!Quiesced,
       Manager!DisposeManager, Manager!HooksDrained, Manager!Initialized
  <2>2. phase' \in {"stopping", "disposed"} =>
          Manager!DrainHookOperations(FALSE) /\ Manager!LoadingSettled /\ UNCHANGED <<hook, queue, load>>
    BY DEF ClosingStep, Manager!InitializeFails, Manager!QuiesceRewardProducers, Manager!ProducersStopped,
       Manager!Quiesced, Manager!DisposeManager, Manager!HooksDrained
  <2>3. phase' = "rollback" => queue = <<>> /\ load.pc = "idle"
    BY DEF ClosingStep, Manager!InitializeFails, Manager!QuiesceRewardProducers, Manager!ProducersStopped,
       Manager!Quiesced, Manager!DisposeManager, Manager!HooksDrained, Manager!LoadingSettled
  <2> QED BY <1>2, <2>1, <2>2, <2>3 DEF ShutdownShape, Manager!StopIsExclusive, Manager!DrainHookOperations,
     Manager!LoadingSettled, Manager!Operations
<1>5. ASSUME phase' = "rollback", NEW x \in Module, mod[x].kind = "enabled" PROVE x \in left'
  <2>1. left' = {m \in Module : mod[m].loaded}
    BY <1>5 DEF ClosingStep, Manager!InitializeFails, Manager!QuiesceRewardProducers, Manager!ProducersStopped,
       Manager!Quiesced, Manager!DisposeManager, Manager!HooksDrained
  <2> QED BY <1>5, <2>1 DEF ManagerInv, ModShape
<1> QED BY <1>2, <1>3, <1>4, <1>5, StillModules

\* Hooks run beside everything else, but not while modules are stopped.
LEMMA HookSteps ==
  ASSUME ManagerInv, NEW h \in Hook, Manager!RunActionHooks(h) \/ \E t \in BOOLEAN : Manager!ProcessActionHooks(h, t)
  PROVE  ManagerInv'
<1>1. ManagerTypes /\ ShutdownShape /\ hook \in [Hook -> Hooks] BY DEF ManagerInv, ManagerTypes
<1>2. UNCHANGED <<want, version, mod, queue, load, gen, admission, restoreReady, ordinary, terminal, left, phase, faults>>
  BY DEF Manager!RunActionHooks, Manager!ProcessActionHooks
<1>3. hook' \in [Hook -> Hooks]
  <2>1. CASE Manager!RunActionHooks(h)
    <3>1. hook[h] \in Hooks BY <1>1
    <3>2. \A m \in Module : [hook[h] EXCEPT !.snapshot = @ \ {m}] \in Hooks BY <3>1 DEF Hooks
    <3>3. [hook[h] EXCEPT !.st = "done", !.snapshot = {}] \in Hooks BY <3>1 DEF Hooks
    <3>4. hook[h].snapshot \subseteq Module BY <3>1 DEF Hooks
    <3>5. CASE \E m \in hook[h].snapshot : hook' = [hook EXCEPT ![h].snapshot = @ \ {m}]
      BY <1>1, <3>2, <3>4, <3>5
    <3>6. CASE hook' = [hook EXCEPT ![h].st = "done", ![h].snapshot = {}] BY <1>1, <3>3, <3>6
    <3> QED BY <2>1, <3>5, <3>6 DEF Manager!RunActionHooks
  <2>2. ASSUME NEW t \in BOOLEAN, Manager!ProcessActionHooks(h, t) PROVE hook' \in [Hook -> Hooks]
    <3>1. [st |-> "running", terminal |-> t, snapshot |-> {m \in Module : mod[m].hooks}] \in Hooks BY DEF Hooks
    <3> QED BY <1>1, <2>2, <3>1 DEF Manager!ProcessActionHooks
  <2> QED BY <2>1, <2>2
<1>4. phase \notin {"stopping", "disposed"}
  BY <1>1 DEF ShutdownShape, Manager!StopIsExclusive, Manager!Operations, Manager!RunActionHooks,
     Manager!ProcessActionHooks
<1>5. ManagerTypes' BY <1>1, <1>2, <1>3 DEF ManagerTypes
<1>6. ShutdownShape' BY <1>1, <1>2, <1>4 DEF ShutdownShape, Manager!StopIsExclusive
<1>7. phase' = "rollback" => \A x \in Module : mod[x].kind = "enabled" => x \in left'
  BY <1>2 DEF ManagerInv, ModShape
<1> QED BY <1>2, <1>5, <1>6, <1>7, StillModules

\* A load begins and ends with no module at hand.
LEMMA LoadBoundaries ==
  ASSUME Manager!ParamsAssumption, ManagerInv, Manager!BeginLoad \/ Manager!EndLoad
  PROVE  ManagerInv'
<1>1. ManagerTypes /\ LoadShape /\ ShutdownShape /\ \A x \in Module : ModShape(x) BY DEF ManagerInv
<1>2. /\ UNCHANGED <<want, version, mod, gen, restoreReady, terminal, hook, phase, faults>>
      /\ load.pc \notin Awaits /\ phase \notin {"rollback", "stopping", "disposed"}
  BY <1>1 DEF Manager!BeginLoad, Manager!EndLoad, Manager!At, Awaits, ShutdownShape, Manager!StopIsExclusive
<1>3. load \in Loads /\ queue \in Seq(Queued) /\ want \subseteq Module /\ faults \in Nat /\ MaxReloads \in Nat
  BY <1>1 DEF ManagerTypes, Manager!ParamsAssumption
<1>4. /\ queue' \in Seq(Queued) /\ admission' \in {"closed", "loading", "ready", "failed"}
      /\ load' \in Loads /\ load'.pc \in {"idle", "next"} /\ ~load'.failed /\ load'.base <= faults
      /\ load'.op = "activate" => load'.pc = "next" /\ load'.dict = {}
  <2>1. CASE Manager!BeginLoad
    <3>1. queue # <<>> /\ Head(queue) \in Queued /\ Tail(queue) \in Seq(Queued)
      BY <1>3, <2>1, HeadTailProperties DEF Manager!BeginLoad
    <3> DEFINE q == Head(queue)
               todo == IF q.op = "load" THEN want ELSE {m \in Module : mod[m].loaded}
               dict == IF q.op = "load" THEN {m \in Module : mod[m].loaded} ELSE {}
    <3>2. /\ load' = [Manager!Idle EXCEPT !.gen = q.gen, !.op = q.op, !.pc = "next", !.base = faults, !.todo = todo, !.dict = dict]
          /\ admission' = admission /\ queue' = Tail(queue)
      BY <2>1 DEF Manager!BeginLoad
    <3>3. todo \subseteq Module /\ dict \subseteq Module /\ (q.op = "activate" => dict = {}) BY <1>3
    <3>4. q.gen \in Nat /\ q.op \in {"load", "activate"} BY <3>1 DEF Queued
    <3> HIDE DEF q, todo, dict
    <3>5. admission' \in {"closed", "loading", "ready", "failed"} BY <1>1, <3>2 DEF ManagerTypes
    <3>6. load' = [gen |-> q.gen, op |-> q.op, todo |-> todo, dict |-> dict, cur |-> {}, prev |-> 0, pc |-> "next",
                   failed |-> FALSE, base |-> faults]
      BY <3>2 DEF Manager!Idle
    <3>7. load' \in Loads BY <1>3, <3>3, <3>4, <3>6 DEF Loads
    <3>8. load'.pc = "next" /\ load'.failed = FALSE /\ load'.base = faults /\ load'.dict = dict /\ load'.op = q.op
      BY <3>6
    <3>9. faults <= faults BY <1>3
    <3> QED BY <3>1, <3>2, <3>3, <3>5, <3>7, <3>8, <3>9
  <2>2. CASE Manager!EndLoad BY <1>1, <1>3, <2>2 DEF Manager!EndLoad, Manager!Idle, Loads, ManagerTypes
  <2> QED BY <2>1, <2>2
<1>5. ManagerTypes' BY <1>1, <1>2, <1>4 DEF ManagerTypes
<1>6. LoadShape' BY <1>2, <1>4 DEF LoadShape, Awaits
<1>7. ShutdownShape' BY <1>1, <1>2 DEF ShutdownShape, Manager!StopIsExclusive
<1>8. ASSUME NEW x \in Module PROVE ModShape(x)'
  <2>1. ~Busy(x) /\ ~Busy(x)' BY <1>2, <1>4 DEF Busy, Awaits
  <2> QED BY <1>1, <1>2, <2>1 DEF ModShape
<1> QED BY <1>5, <1>6, <1>7, <1>8 DEF ManagerInv

\* A module that is not at hand fits a load at the head of its loop.
LEMMA FitsAtNext ==
  ASSUME ManagerInv, NEW m \in Module, load.pc = "next"
  PROVE  FitsAt(mod[m], "next") /\ ~Busy(m)
<1>1. ~Busy(m) BY DEF Busy, Awaits
<1>2. phase # "disposed" BY DEF ManagerInv, ShutdownShape, Manager!StopIsExclusive
<1> QED BY <1>1, <1>2 DEF ManagerInv, ManagerTypes, ModShape, FitsAt, Awaits

\* A step at the head of a loop: the module becomes r, and the load goes on at pc.
TurnHead(m, r, pc, cur, todo, dict) ==
  /\ mod' = [mod EXCEPT ![m] = r] /\ faults' = faults
  /\ load' = [load EXCEPT !.todo = todo, !.dict = dict, !.cur = cur, !.pc = pc]
  /\ pc \in {"next"} \cup (Awaits \ {"reverting", "unstart"})
  /\ cur \in {{m}, load.cur} /\ (pc \in Awaits => cur = {m})
  /\ todo \subseteq load.todo /\ dict \subseteq load.dict
  /\ load.op = "activate" => pc \in {"next", "restore"}

\* The head of the loops of a load: each is a step at its module.
LEMMA HeadSteps ==
  ASSUME Manager!ParamsAssumption, ManagerInv, NEW m \in Module,
         Manager!NextModule(m) \/ Manager!ActivateLoadedModules(m) \/ Manager!DropModule(m)
  PROVE  ManagerInv' /\ StepAt(m, mod'[m])
<1>1. ManagerTypes /\ LoadShape /\ load \in Loads /\ mod \in [Module -> Modules] /\ mod[m] \in Modules
  BY DEF ManagerInv, ManagerTypes
<1>2. load.pc = "next" /\ Manager!Keep BY DEF Manager!NextModule, Manager!ActivateLoadedModules,
   Manager!DropModule, Manager!At
<1>3. FitsAt(mod[m], "next") /\ ~Busy(m) BY <1>2, FitsAtNext
<1>4. mod = [mod EXCEPT ![m] = mod[m]] BY <1>1
<1>5. /\ load.failed => faults > load.base
      /\ load.base <= faults /\ load.base \in Nat /\ MaxFaults \in Nat /\ faults \in 0 .. MaxFaults
      /\ load.op = "activate" => load.dict = {}
  BY <1>1 DEF LoadShape, Loads, ManagerTypes, Manager!ParamsAssumption
<1>6. ASSUME NEW r, NEW pc, NEW cur, NEW todo, NEW dict, TurnHead(m, r, pc, cur, todo, dict), FitsAt(r, pc)
      PROVE  ManagerInv' /\ StepAt(m, mod'[m])
  <2>1. /\ load' \in Loads /\ load'.pc = pc /\ load'.cur = cur /\ load'.op = load.op /\ load'.gen = load.gen
        /\ load'.base = load.base /\ load'.failed = load.failed /\ load'.dict = dict
    BY <1>1, <1>6 DEF Loads, TurnHead, Awaits
  <2>2. mod'[m] = r BY <1>1, <1>6 DEF TurnHead
  <2>3. StepAt(m, r) BY <1>2, <1>6, <2>1 DEF StepAt, Awaits, TurnHead
  <2>4. /\ faults' = faults /\ faults \in Nat
        /\ load.op = "activate" => load'.pc \in {"next", "restore"} /\ load'.dict = {}
        /\ load'.failed \/ load'.pc \in {"reverting", "unstart"} => faults' > load.base
    BY <1>5, <1>6, <2>1 DEF TurnHead, Awaits
  <2>5. ManagerInv' BY <1>5, <1>6, <2>1, <2>3, <2>4, StepKeepsInv
  <2> QED BY <2>2, <2>3, <2>5
<1>8. CASE Manager!NextModule(m)
  <2>1. CASE m \notin want
    <3>1. /\ load' = [load EXCEPT !.todo = load.todo \ {m}, !.dict = load.dict, !.cur = load.cur, !.pc = "next"]
          /\ mod' = [mod EXCEPT ![m] = mod[m]] /\ faults' = faults
      BY <1>1, <1>2, <1>4, <1>8, <2>1 DEF Manager!NextModule, Loads
    <3>2. TurnHead(m, mod[m], "next", load.cur, load.todo \ {m}, load.dict) BY <3>1 DEF TurnHead, Awaits
    <3> QED BY <1>3, <1>6, <3>2
  <2>2. CASE m \in want
    <3> DEFINE r == [mod[m] EXCEPT !.loaded = TRUE]
    <3>1. /\ load' = [load EXCEPT !.todo = load.todo \ {m}, !.dict = load.dict \ {m}, !.cur = {m}, !.pc = Manager!FirstAwait(m)]
          /\ mod' = [mod EXCEPT ![m] = r] /\ faults' = faults /\ load.op = "load"
      BY <1>1, <1>2, <1>8, <2>2 DEF Manager!NextModule, Loads
    <3>2. FitsAt(r, Manager!FirstAwait(m)) /\ Manager!FirstAwait(m) \in {"cleanup", "config"}
      BY <1>1, <1>3 DEF FitsAt, Manager!FirstAwait, Manager!RequiresCleanup, Modules, KindsAt, Awaits
    <3> HIDE DEF r
    <3>3. TurnHead(m, r, Manager!FirstAwait(m), {m}, load.todo \ {m}, load.dict \ {m}) BY <3>1, <3>2 DEF TurnHead,
       Awaits
    <3> QED BY <1>6, <3>2, <3>3
  <2> QED BY <2>1, <2>2
<1>9. CASE Manager!ActivateLoadedModules(m)
  <2>1. mod' = [mod EXCEPT ![m] = mod[m]] /\ faults' = faults BY <1>4, <1>9 DEF Manager!ActivateLoadedModules
  <2>2. CASE mod[m].kind = "enabled"
    <3>1. load' = [load EXCEPT !.todo = load.todo \ {m}, !.dict = load.dict, !.cur = {m}, !.pc = "restore"]
      BY <1>1, <1>9, <2>2 DEF Manager!ActivateLoadedModules, Loads
    <3>2. FitsAt(mod[m], "restore")
      <4>1. mod[m].loaded BY <1>3, <2>2 DEF FitsAt
      <4> QED BY <1>3, <2>2, <4>1 DEF FitsAt, KindsAt, Awaits
    <3>3. TurnHead(m, mod[m], "restore", {m}, load.todo \ {m}, load.dict) BY <2>1, <3>1 DEF TurnHead, Awaits
    <3> QED BY <1>6, <3>2, <3>3
  <2>3. CASE mod[m].kind # "enabled"
    <3>1. load' = [load EXCEPT !.todo = load.todo \ {m}, !.dict = load.dict, !.cur = load.cur, !.pc = "next"]
      BY <1>1, <1>2, <1>9, <2>3 DEF Manager!ActivateLoadedModules, Loads
    <3>2. TurnHead(m, mod[m], "next", load.cur, load.todo \ {m}, load.dict) BY <2>1, <3>1 DEF TurnHead, Awaits
    <3> QED BY <1>3, <1>6, <3>2
  <2> QED BY <2>2, <2>3
<1>10. CASE Manager!DropModule(m)
  <2>1. faults' = faults /\ m \in load.dict /\ load.op # "activate" BY <1>5, <1>10 DEF Manager!DropModule
  <2>2. CASE ~Manager!IsEnabled(m)
    <3> DEFINE r == [mod[m] EXCEPT !.loaded = FALSE]
    <3>1. /\ load' = [load EXCEPT !.todo = load.todo, !.dict = load.dict \ {m}, !.cur = load.cur, !.pc = "next"]
          /\ mod' = [mod EXCEPT ![m] = r]
      BY <1>1, <1>2, <1>10, <2>2 DEF Manager!DropModule, Manager!Set, Loads
    <3>2. FitsAt(r, "next") BY <1>1, <1>3, <2>2 DEF FitsAt, Manager!IsEnabled, Modules, Awaits
    <3> HIDE DEF r
    <3>3. TurnHead(m, r, "next", load.cur, load.todo, load.dict \ {m}) BY <2>1, <3>1 DEF TurnHead, Awaits
    <3> QED BY <1>6, <3>2, <3>3
  <2>3. CASE Manager!IsEnabled(m)
    <3> DEFINE r == [mod[m] EXCEPT !.kind = "stopping"]
    <3>1. /\ load' = [load EXCEPT !.todo = load.todo, !.dict = load.dict \ {m}, !.cur = {m}, !.pc = "stopping"]
          /\ mod' = [mod EXCEPT ![m] = r]
      BY <1>1, <1>10, <2>3 DEF Manager!DropModule, Manager!Set, Loads
    <3>2. FitsAt(r, "stopping")
      BY <1>1, <1>3, <2>3 DEF FitsAt, Manager!IsEnabled, Modules, Kinds, KindsAt, Awaits
    <3> HIDE DEF r
    <3>3. TurnHead(m, r, "stopping", {m}, load.todo, load.dict \ {m}) BY <2>1, <3>1 DEF TurnHead, Awaits
    <3> QED BY <1>6, <3>2, <3>3
  <2> QED BY <2>2, <2>3
<1> QED BY <1>8, <1>9, <1>10

\* The shutdown stops the modules when no load is left, so that none is at hand.
LEMMA StopSteps ==
  ASSUME Manager!ParamsAssumption, ManagerInv,
         Manager!RolledBack \/ Manager!Disposed \/ \E m \in Module : Manager!StopModule(m)
  PROVE  ManagerInv'
<1>1. ManagerTypes /\ LoadShape /\ ShutdownShape /\ \A x \in Module : ModShape(x) BY DEF ManagerInv
<1>2. /\ \/ phase = "rollback" /\ phase' \in {"rollback", "quiescing"}
         \/ phase = "stopping" /\ phase' \in {"stopping", "disposed"}
      /\ UNCHANGED <<want, version, queue, load, admission, terminal, hook>>
      /\ gen' \in {gen, gen + 1} /\ restoreReady' \in {restoreReady, FALSE}
  BY DEF Manager!RolledBack, Manager!Disposed, Manager!StopModule
<1>3. load.pc = "idle" /\ queue = <<>> /\ ~terminal /\ (phase = "stopping" => Manager!Operations(FALSE) = {})
  BY <1>1, <1>2 DEF ShutdownShape, Manager!StopIsExclusive
<1>4. ShutdownShape' BY <1>2, <1>3 DEF ShutdownShape, Manager!StopIsExclusive, Manager!Operations
<1>5. /\ mod \in [Module -> Modules] /\ load \in Loads /\ MaxFaults \in Nat /\ faults \in 0 .. MaxFaults
      /\ \A x \in Module : ~Busy(x) /\ ~Busy(x)'
  BY <1>1, <1>2, <1>3 DEF ManagerTypes, Manager!ParamsAssumption, Busy, Awaits
<1>6. faults' \in 0 .. MaxFaults /\ faults' >= faults
  <2>1. faults' = faults \/ Manager!Fault BY DEF Manager!RolledBack, Manager!Disposed, Manager!StopModule
  <2> QED BY <1>5, <2>1 DEF Manager!Fault
<1>7. LoadShape' BY <1>1, <1>2, <1>3, <1>5, <1>6 DEF LoadShape, Awaits, Loads
<1>8. mod' \in [Module -> Modules] /\ \A x \in Module : ModShape(x)'
  <2>1. CASE Manager!Disposed \/ Manager!RolledBack
    <3>1. /\ mod' = [m \in Module |-> [mod[m] EXCEPT !.hooks = FALSE]]
          /\ phase' = "disposed" \/ (phase' = "quiescing" /\ phase = "rollback" /\ left = {})
      BY <2>1 DEF Manager!Disposed, Manager!RolledBack, Manager!AllTried
    <3>2. ASSUME NEW x \in Module PROVE mod'[x] \in Modules /\ ModShape(x)'
      <4>1. mod[x] \in Modules /\ mod'[x] = [mod[x] EXCEPT !.hooks = FALSE] BY <1>5, <3>1
      <4> QED BY <1>1, <1>5, <3>1, <4>1 DEF ModShape, Modules
    <3> QED BY <3>1, <3>2
  <2>2. ASSUME NEW m \in Module, Manager!StopModule(m) PROVE mod' \in [Module -> Modules] /\ \A x \in Module : ModShape(x)'
    <3>1. phase' = phase /\ left' = left \ {m} /\ mod[m] \in Modules BY <1>2, <1>5, <2>2 DEF Manager!StopModule
    <3>2. PICK r \in Modules :
            /\ mod' = [mod EXCEPT ![m] = r]
            /\ r.kind \in {"disabled", "cleanup-required"} /\ (r.kind # "disabled" => r.loaded) /\ ~r.hooks
      <4>1. ModShape(m) /\ ~Busy(m) BY <1>1, <1>5
      <4>2. CASE ~Manager!IsEnabled(m)
        <5> DEFINE r == [mod[m] EXCEPT !.loaded = FALSE]
        <5>1. r \in Modules /\ r.kind = "disabled" /\ ~r.hooks
          BY <3>1, <4>1, <4>2 DEF Manager!IsEnabled, ModShape, Modules
        <5>2. mod' = [mod EXCEPT ![m] = r] BY <2>2, <4>2 DEF Manager!StopModule, Manager!Set
        <5> QED BY <5>1, <5>2
      <4>3. CASE Manager!IsEnabled(m) /\ mod' = [mod EXCEPT ![m] = Manager!NewModule]
        <5>1. Manager!NewModule \in Modules BY <1>1 DEF Manager!NewModule, Modules, Kinds, ManagerTypes,
           Manager!ParamsAssumption
        <5> QED BY <4>3, <5>1 DEF Manager!NewModule
      <4>4. CASE Manager!IsEnabled(m) /\ mod' = [mod EXCEPT ![m] = Manager!StopFailed(m)]
        <5>1. Manager!StopFailed(m) \in Modules BY <3>1 DEF Manager!StopFailed, Modules, Kinds
        <5> QED BY <3>1, <4>1, <4>4, <5>1 DEF Manager!StopFailed, Manager!IsEnabled, ModShape, Modules
      <4> QED BY <2>2, <4>2, <4>3, <4>4 DEF Manager!StopModule, Manager!Set
    <3>3. mod' \in [Module -> Modules] BY <1>5, <3>2
    <3>4. ASSUME NEW x \in Module PROVE ModShape(x)'
      <4>1. x = m => mod'[x] = r BY <1>5, <3>2
      <4>2. x # m => mod'[x] = mod[x] BY <1>5, <3>2
      <4>3. ModShape(x) BY <1>1
      <4> QED BY <1>2, <1>5, <3>1, <3>2, <4>1, <4>2, <4>3 DEF ModShape
    <3> QED BY <3>3, <3>4
  <2> QED BY <2>1, <2>2
<1>9. ManagerTypes'
  <2>1. phase' \in Phases BY <1>2 DEF Phases
  <2>2. gen \in Nat /\ restoreReady \in BOOLEAN BY <1>1 DEF ManagerTypes
  <2>3. gen' \in Nat BY <1>2, <2>2
  <2>4. restoreReady' = restoreReady \/ restoreReady' = FALSE BY <1>2
  <2>5. restoreReady' \in BOOLEAN BY <2>2, <2>4, Zenon
  <2> QED BY <1>1, <1>2, <1>6, <1>8, <2>1, <2>3, <2>5 DEF ManagerTypes
<1> QED BY <1>4, <1>7, <1>8, <1>9 DEF ManagerInv

LEMMA ManagerInit == ASSUME Manager!ParamsAssumption, Manager!Init PROVE ManagerInv
<1>1. queue \in Seq(Queued) /\ hook \in [Hook -> Hooks] /\ load \in Loads
  BY DEF Manager!Init, Queued, Hooks, Loads, Manager!Idle, Manager!ParamsAssumption
<1>2. mod \in [Module -> Modules] BY DEF Manager!Init, Modules, Kinds, Manager!NewModule, Manager!ParamsAssumption
<1>3. ManagerTypes
  <2>1. version \in 1 .. MaxReloads + 1 /\ faults \in 0 .. MaxFaults BY DEF Manager!Init, Manager!ParamsAssumption
  <2> QED BY <1>1, <1>2, <2>1 DEF Manager!Init, ManagerTypes, Phases
<1>4. LoadShape BY DEF Manager!Init, LoadShape, Manager!Idle, Awaits
<1>5. ASSUME NEW m \in Module PROVE ModShape(m) BY DEF Manager!Init, ModShape, Manager!NewModule, Busy,
   Manager!Idle, Awaits
<1>6. ShutdownShape BY DEF Manager!Init, ShutdownShape, Manager!StopIsExclusive
<1> QED BY <1>3, <1>4, <1>5, <1>6 DEF ManagerInv

LEMMA ManagerStep == ASSUME Manager!ParamsAssumption, ManagerInv, [Manager!Next]_(Manager!vars) PROVE ManagerInv'
<1>1. CASE Manager!Reload \/ Manager!ActivateModulesAfterStateRestore BY <1>1, QueueSteps
<1>2. CASE ClosingStep
  BY <1>2, ClosingSteps
<1>3. CASE Manager!RolledBack \/ Manager!Disposed \/ \E m \in Module : Manager!StopModule(m) BY <1>3, StopSteps
<1>4. CASE \E h \in Hook : Manager!RunActionHooks(h) \/ \E t \in BOOLEAN : Manager!ProcessActionHooks(h, t)
  BY <1>4, HookSteps
<1>5. CASE Manager!BeginLoad \/ Manager!EndLoad BY <1>5, LoadBoundaries
<1>6. CASE AwaitStep
  BY <1>6, AwaitSteps
<1>7. CASE \E m \in Module : Manager!NextModule(m) \/ Manager!ActivateLoadedModules(m) \/ Manager!DropModule(m)
  BY <1>7, HeadSteps
<1>8. CASE UNCHANGED Manager!vars
  <2>1. ManagerTypes' /\ ShutdownShape' /\ UNCHANGED <<mod, load, faults, phase>>
    BY <1>8 DEF ManagerInv, ManagerTypes, ShutdownShape, Manager!StopIsExclusive, Manager!Operations, Manager!vars
  <2>2. phase' = "rollback" => \A x \in Module : mod[x].kind = "enabled" => x \in left'
    BY <1>8 DEF ManagerInv, ModShape, Manager!vars
  <2> QED BY <2>1, <2>2, StillModules
<1> QED BY <1>1, <1>2, <1>3, <1>4, <1>5, <1>6, <1>7, <1>8 DEF Manager!Next, Manager!LoadStep, Manager!Shutdown,
   AwaitStep, ClosingStep

\* Hooks belong to live modules, a module that holds resources stays in the list, a load
\* fails only by a fault of its own time, modules are stopped when nothing else runs.
THEOREM ManagerIsSound ==
  ASSUME Manager!ParamsAssumption
  PROVE  Manager!Spec => [](Manager!TypeOK /\ Manager!HooksOfLiveModules /\ Manager!NoModuleLost
                       /\ Manager!FailsOnlyByFault /\ Manager!StopIsExclusive)
<1>1. Manager!Init => ManagerInv BY ManagerInit
<1>2. ManagerInv /\ [Manager!Next]_(Manager!vars) => ManagerInv' BY ManagerStep
<1>3. ManagerInv => Manager!TypeOK /\ Manager!HooksOfLiveModules /\ Manager!NoModuleLost
                       /\ Manager!FailsOnlyByFault /\ Manager!StopIsExclusive
  BY DEF ManagerInv, ManagerTypes, Manager!TypeOK, Manager!HooksOfLiveModules, Manager!NoModuleLost,
     Manager!FailsOnlyByFault, LoadShape,
     ModShape, ShutdownShape, Modules, Kinds, Hooks, Phases
<1> QED BY <1>1, <1>2, <1>3, PTL DEF Manager!Spec

\* A step that neither queues nor takes a load, and leaves the phase, keeps the order of loads.
LEMMA SameQueue ==
  ASSUME QueueShape, UNCHANGED <<queue, gen, admission, phase, restoreReady>>,
         load.pc # "idle", load'.gen = load.gen, load'.op = load.op
  PROVE  QueueShape'
BY DEF QueueShape

\* While a load is under way no activation is queued, and the admission is not open.
LEMMA LoadingIsClosed ==
  ASSUME ManagerInv, QueueShape, ReadyShape, load.pc # "idle"
  PROVE  /\ admission # "ready"
         /\ ~(queue # <<>> /\ queue[1].op = "activate")
<1>1. queue \in Seq(Queued) BY DEF ManagerInv, ManagerTypes
<1>2. queue # <<>> => 1 \in 1 .. Len(queue) BY <1>1
<1> QED BY <1>2 DEF QueueShape, ReadyShape

\* What an awaited step that does not fail brings to a wanted module.
LEMMA TurnOfWanted ==
  ASSUME Manager!ParamsAssumption, ManagerInv, NEW m \in Module, load.cur = {m}, load.pc \in Awaits \ {"stopping"},
         load.pc \in {"reloading", "enable", "starting", "restore"} => mod[m].cfg = version, AwaitStep,
         ~load'.failed, load.op = "load"
  PROVE  \/ load'.pc \in {"config", "reverting", "unstart"}
         \/ load'.pc \in {"reloading", "enable", "starting", "restore"} /\ mod'[m].cfg = version
         \/ load'.pc = "next" /\ Done(m)'
<1>1. Manager!Cur = m BY CurIsBusy
<1>2. mod \in [Module -> Modules] /\ load \in Loads /\ mod[m] \in Modules BY DEF ManagerInv, ManagerTypes
<1>3. mod[m].kind \in KindsAt(load.pc)
  <2>1. Busy(m) BY DEF Busy, Awaits
  <2> QED BY <2>1 DEF ManagerInv, ModShape
<1>4. /\ \A pc : Manager!Goto(pc) => load'.pc = pc
      /\ Manager!Fail => load'.failed
      /\ \A r : Manager!Set(m, r) => mod'[m] = r
  BY <1>2 DEF Manager!Goto, Manager!Fail, Manager!Set, Loads
<1>5. CASE Manager!Cleanup BY <1>1, <1>4, <1>5 DEF Manager!Cleanup
<1>6. CASE Manager!SetModuleConfig
  <2>1. mod'[m].cfg = version /\ load'.pc \in {"enable", "reloading"}
    <3>1. [mod[m] EXCEPT !.cfg = version].cfg = version BY <1>2 DEF Modules
    <3>2. [load EXCEPT !.pc = "reloading", !.prev = mod[m].cfg].pc = "reloading" BY <1>2 DEF Loads
    <3> QED BY <1>1, <1>4, <1>6, <3>1, <3>2 DEF Manager!SetModuleConfig
  <2> QED BY <2>1
<1>7. CASE Manager!ConfigReloaded
  <2>1. load.pc = "reloading" BY <1>7 DEF Manager!ConfigReloaded, Manager!At
  <2> QED BY <1>1, <1>4, <1>7, <2>1 DEF Manager!ConfigReloaded
<1>8. CASE Manager!ConfigReverted BY <1>4, <1>8 DEF Manager!ConfigReverted
<1>9. CASE Manager!EnableModule
  <2>1. load.pc = "enable" BY <1>9 DEF Manager!EnableModule, Manager!At
  <2>2. [mod[m] EXCEPT !.kind = "starting", !.hooks = TRUE].cfg = mod[m].cfg BY <1>2 DEF Modules
  <2> QED BY <1>1, <1>4, <1>9, <2>1, <2>2 DEF Manager!EnableModule
<1>10. CASE Manager!Started
  <2>1. load.pc = "starting" BY <1>10 DEF Manager!Started, Manager!At
  <2>2. [mod[m] EXCEPT !.kind = "enabled", !.restored = FALSE].cfg = mod[m].cfg BY <1>2 DEF Modules
  <2> QED BY <1>1, <1>4, <1>10, <2>1, <2>2 DEF Manager!Started
<1>11. CASE Manager!StartRolledBack BY <1>4, <1>11 DEF Manager!StartRolledBack
<1>12. CASE Manager!Activate
  <2>1. load.pc = "restore" /\ Manager!Keep BY <1>12 DEF Manager!Activate, Manager!At
  <2>2. mod[m].kind = "enabled" /\ mod[m].cfg = version BY <1>3, <2>1 DEF KindsAt
  <2>3. version' = version /\ restoreReady' = restoreReady BY <2>1 DEF Manager!Keep
  <2>4. LET r == [mod[m] EXCEPT !.restored = TRUE] IN r.kind = "enabled" /\ r.cfg = version /\ r.restored
    BY <1>2, <2>2 DEF Modules
  <2>5. \/ ~restoreReady \/ mod[m].restored
        \/ Manager!Set(m, [mod[m] EXCEPT !.restored = TRUE])
    BY <1>1, <1>4, <1>12 DEF Manager!Activate
  <2>6. mod' = mod \/ Manager!Set(m, [mod[m] EXCEPT !.restored = TRUE])
    BY <1>1, <1>4, <1>12 DEF Manager!Activate
  <2>7. load'.pc = "next" BY <1>4, <1>12 DEF Manager!Activate
  <2>8. CASE Manager!Set(m, [mod[m] EXCEPT !.restored = TRUE]) BY <1>4, <2>3, <2>4, <2>7, <2>8 DEF Done, Up
  <2>9. CASE ~Manager!Set(m, [mod[m] EXCEPT !.restored = TRUE]) BY <2>2, <2>3, <2>5, <2>6, <2>7, <2>9 DEF Done, Up
  <2> QED BY <2>8, <2>9
<1>13. CASE Manager!Dropped BY <1>13 DEF Manager!Dropped, Manager!At
<1> QED BY <1>5, <1>6, <1>7, <1>8, <1>9, <1>10, <1>11, <1>12, <1>13 DEF AwaitStep

LEMMA AwaitsKeepReady ==
  ASSUME Manager!ParamsAssumption, ReadyInv, AwaitStep
  PROVE  ReadyInv'
<1>1. ManagerInv /\ QueueShape /\ Progress /\ ReadyShape BY DEF ReadyInv
<1>2. PICK m \in Module : load.cur = {m} /\ load.pc \in Awaits /\ StepAt(m, mod'[m]) BY <1>1, AwaitSteps
<1>3. ManagerInv' BY <1>1, AwaitSteps
<1>4. UNCHANGED <<want, version, queue, gen, admission, restoreReady, phase>> BY <1>2 DEF StepAt, Manager!Keep
<1>5. /\ load.pc # "idle" /\ load'.gen = load.gen /\ load'.op = load.op /\ load'.pc \in Awaits \cup {"next"}
      /\ load.failed => load'.failed
      /\ load'.pc \in Awaits => load'.cur = {m}
  BY <1>2 DEF StepAt
<1>6. mod \in [Module -> Modules] /\ load \in Loads /\ want \subseteq Module BY <1>1 DEF ManagerInv, ManagerTypes
<1>7. load'.todo = load.todo /\ load'.dict = load.dict
  BY <1>6 DEF AwaitStep, Manager!Cleanup, Manager!SetModuleConfig, Manager!ConfigReloaded, Manager!ConfigReverted,
     Manager!EnableModule, Manager!Started, Manager!StartRolledBack,
     Manager!Activate, Manager!Dropped, Manager!Goto, Manager!Fail, Loads
<1>8. QueueShape' BY <1>1, <1>4, <1>5, SameQueue
<1>9. admission # "ready" /\ ~(queue # <<>> /\ queue[1].op = "activate") BY <1>1, <1>5, LoadingIsClosed
<1>10. \A y \in Module \ {m} : mod'[y] = mod[y] BY <1>2, <1>6 DEF StepAt
<1>11. \A y \in Module \ {m} : ~Busy(y) /\ ~Busy(y)' BY <1>2, <1>5 DEF Busy
<1>12. Busy(m) /\ (Busy(m)' <=> load'.pc \in Awaits) BY <1>2, <1>5 DEF Busy
<1>13. Latest' => Latest /\ ~load'.failed BY <1>4, <1>5 DEF Latest
<1>14. Manager!Cur = m BY <1>1, <1>2, CurIsBusy
<1>15. ASSUME Latest', load'.op = "load" PROVE \A y \in Module : Placed(y)'
  <2>1. \A y \in Module : Placed(y) BY <1>1, <1>5, <1>13, <1>15 DEF Progress
  <2>2. ASSUME NEW y \in Module \ {m} PROVE Placed(y)'
    BY <1>4, <1>7, <1>10, <1>11, <2>1 DEF Placed, Done, Up, Off
  <2>3. ASSUME m \in want PROVE Placed(m)'
    <3>1. /\ load.pc # "stopping"
          /\ load.pc \in {"reloading", "enable", "starting", "restore"} => mod[m].cfg = version
          /\ m \in load.dict => m \in load.todo
      BY <1>12, <2>1, <2>3 DEF Placed
    <3>2. \/ load'.pc \in {"config", "reverting", "unstart"}
          \/ load'.pc \in {"reloading", "enable", "starting", "restore"} /\ mod'[m].cfg = version
          \/ load'.pc = "next" /\ Done(m)'
      BY <1>1, <1>2, <1>5, <1>13, <1>15, <3>1, TurnOfWanted
    <3>3. m \in want' /\ (m \in load'.dict => m \in load'.todo) BY <1>4, <1>7, <2>3, <3>1
    <3>4. CASE load'.pc = "next" /\ Done(m)'
      <4>1. ~Busy(m)' BY <1>12, <3>4 DEF Awaits
      <4> QED BY <3>3, <3>4, <4>1 DEF Placed
    <3>5. CASE load'.pc # "next"
      <4>1. /\ load'.pc \in Awaits /\ load'.pc # "stopping"
            /\ load'.pc \in {"reloading", "enable", "starting", "restore"} => mod'[m].cfg = version'
        BY <1>4, <3>2, <3>5 DEF Awaits
      <4> QED BY <1>12, <3>3, <4>1 DEF Placed
    <3> QED BY <3>2, <3>4, <3>5
  <2>4. ASSUME m \notin want PROVE Placed(m)'
    <3>1. load.pc = "stopping" BY <1>12, <2>1, <2>4 DEF Placed
    <3>2. Manager!Dropped
      BY <3>1 DEF AwaitStep, Manager!Cleanup, Manager!SetModuleConfig, Manager!ConfigReloaded,
         Manager!ConfigReverted, Manager!EnableModule, Manager!Started, Manager!StartRolledBack,
         Manager!Activate, Manager!At
    <3>3. ~Manager!Fail BY <1>6, <1>13, <1>15 DEF Manager!Fail, Loads
    <3>4. mod'[m] = Manager!NewModule /\ load'.pc = "next" BY <1>6, <1>14, <3>2, <3>3 DEF Manager!Dropped,
       Manager!Set, Manager!Goto, Loads
    <3>5. Off(m)' /\ ~Busy(m)' /\ m \notin want' BY <1>4, <1>12, <2>4, <3>4 DEF Off, Manager!NewModule, Awaits
    <3> QED BY <3>5 DEF Placed
  <2> QED BY <2>2, <2>3, <2>4
<1>16. ASSUME Latest', load'.op = "activate"
       PROVE  (Configured /\ \A y \in want : y \in load.todo \/ Busy(y) \/ mod[y].restored)'
  <2>1. Configured /\ \A y \in want : y \in load.todo \/ Busy(y) \/ mod[y].restored
    BY <1>1, <1>5, <1>13, <1>16 DEF Progress
  <2>2. load.pc = "restore" BY <1>1, <1>2, <1>5, <1>16 DEF ManagerInv, LoadShape, Awaits
  <2>3. Manager!Activate
    BY <2>2 DEF AwaitStep, Manager!Cleanup, Manager!SetModuleConfig, Manager!ConfigReloaded,
       Manager!ConfigReverted, Manager!EnableModule, Manager!Started, Manager!StartRolledBack,
       Manager!Dropped, Manager!At
  <2>4. ~Manager!Fail BY <1>6, <1>13, <1>16 DEF Manager!Fail, Loads
  <2>5. \/ mod[m].restored /\ mod' = mod
        \/ mod' = [mod EXCEPT ![m] = [mod[m] EXCEPT !.restored = TRUE]]
    BY <1>5, <1>14, <1>16, <2>3, <2>4 DEF Manager!Activate, Manager!Set
  <2>6. mod[m] \in Modules BY <1>6
  <2>7. mod'[m].restored /\ mod'[m].kind = mod[m].kind /\ mod'[m].cfg = mod[m].cfg BY <1>6, <2>5, <2>6 DEF Modules
  <2>8. Configured'
    <3>1. ASSUME NEW y \in Module PROVE (IF y \in want THEN Up(y) ELSE Off(y))'
      <4>1. mod'[y].kind = mod[y].kind /\ mod'[y].cfg = mod[y].cfg BY <1>10, <2>7
      <4> QED BY <1>4, <2>1, <4>1 DEF Configured, Up, Off
    <3> QED BY <3>1 DEF Configured
  <2>9. ASSUME NEW y \in want PROVE y \in load'.todo \/ mod'[y].restored
    BY <1>6, <1>7, <1>10, <1>11, <2>1, <2>7
  <2> QED BY <1>4, <2>8, <2>9
<1>17. Progress' BY <1>4, <1>9, <1>15, <1>16 DEF Progress
<1>18. ReadyShape' BY <1>4, <1>9 DEF ReadyShape
<1> QED BY <1>3, <1>8, <1>17, <1>18 DEF ReadyInv

LEMMA HeadsKeepReady ==
  ASSUME Manager!ParamsAssumption, ReadyInv, NEW m \in Module,
         Manager!NextModule(m) \/ Manager!ActivateLoadedModules(m) \/ Manager!DropModule(m)
  PROVE  ReadyInv'
<1>1. ManagerInv /\ QueueShape /\ Progress /\ ReadyShape BY DEF ReadyInv
<1>2. StepAt(m, mod'[m]) /\ ManagerInv' BY <1>1, HeadSteps
<1>3. load.pc = "next" /\ Manager!Keep BY DEF Manager!NextModule, Manager!ActivateLoadedModules,
   Manager!DropModule, Manager!At
<1>4. UNCHANGED <<want, version, queue, gen, admission, restoreReady, phase>> BY <1>3 DEF Manager!Keep
<1>5. /\ load.pc # "idle" /\ load'.gen = load.gen /\ load'.op = load.op
      /\ load.failed => load'.failed
      /\ load'.pc \in Awaits => load'.cur = {m}
  BY <1>2 DEF StepAt
<1>6. /\ mod \in [Module -> Modules] /\ load \in Loads /\ want \subseteq Module
      /\ mod[m] \in Modules
  BY <1>1 DEF ManagerInv, ManagerTypes
<1>7. QueueShape' BY <1>1, <1>4, <1>5, SameQueue
<1>8. admission # "ready" /\ ~(queue # <<>> /\ queue[1].op = "activate") BY <1>1, <1>5, LoadingIsClosed
<1>9. /\ \A y \in Module \ {m} : mod'[y] = mod[y] /\ ~Busy(y)'
      /\ \A y \in Module : ~Busy(y)
      /\ Busy(m)' <=> load'.pc \in Awaits
  BY <1>2, <1>3, <1>5, <1>6 DEF StepAt, Busy, Awaits
<1>10. /\ load'.todo \in {load.todo, load.todo \ {m}} /\ load'.dict \in {load.dict, load.dict \ {m}}
  BY <1>6 DEF Manager!NextModule, Manager!ActivateLoadedModules, Manager!DropModule, Loads
<1>11. Latest' => Latest BY <1>4, <1>5 DEF Latest
<1>12. FitsAt(mod[m], "next") BY <1>1, <1>3, FitsAtNext
<1>13. ASSUME Latest', load'.op = "load" PROVE \A y \in Module : Placed(y)'
  <2>1. \A y \in Module : Placed(y) BY <1>1, <1>5, <1>11, <1>13 DEF Progress
  <2>2. ASSUME NEW y \in Module \ {m} PROVE Placed(y)'
    BY <1>4, <1>9, <1>10, <2>1 DEF Placed, Done, Up, Off
  <2>3. Placed(m)'
    <3>1. ~Busy(m) /\ Placed(m) BY <1>9, <2>1
    <3>2. CASE Manager!NextModule(m) /\ m \notin want
      <4>1. load'.pc = "next" /\ load'.dict = load.dict /\ mod' = mod BY <1>3, <1>6, <3>2 DEF Manager!NextModule,
         Loads
      <4> QED BY <1>4, <1>9, <3>1, <3>2, <4>1 DEF Placed, Off, Awaits
    <3>3. CASE Manager!NextModule(m) /\ m \in want
      <4>1. load'.pc \in {"cleanup", "config"} /\ load'.dict = load.dict \ {m}
        BY <1>6, <3>3 DEF Manager!NextModule, Manager!FirstAwait, Loads
      <4> QED BY <1>4, <1>9, <3>3, <4>1 DEF Placed, Awaits
    <3>4. CASE Manager!DropModule(m)
      <4>1. load.todo = {} /\ m \in load.dict BY <3>4 DEF Manager!DropModule
      <4>2. m \notin want BY <3>1, <4>1 DEF Placed
      <4>3. CASE ~Manager!IsEnabled(m)
        <5>1. mod'[m].kind = "disabled" /\ load'.pc = "next"
          BY <1>3, <1>6, <1>12, <3>4, <4>3 DEF Manager!DropModule, Manager!Set, Manager!IsEnabled, FitsAt, Awaits,
             Modules, Loads
        <5> QED BY <1>4, <1>9, <4>2, <5>1 DEF Placed, Off, Awaits
      <4>4. CASE Manager!IsEnabled(m)
        <5>1. load'.pc = "stopping" BY <1>6, <3>4, <4>4 DEF Manager!DropModule, Loads
        <5> QED BY <1>4, <1>9, <4>2, <5>1 DEF Placed, Awaits
      <4> QED BY <4>3, <4>4
    <3> QED BY <1>5, <1>13, <3>2, <3>3, <3>4 DEF Manager!ActivateLoadedModules
  <2> QED BY <2>2, <2>3
<1>14. ASSUME Latest', load'.op = "activate"
       PROVE  (Configured /\ \A y \in want : y \in load.todo \/ Busy(y) \/ mod[y].restored)'
  <2>1. Configured /\ \A y \in want : y \in load.todo \/ Busy(y) \/ mod[y].restored
    BY <1>1, <1>5, <1>11, <1>14 DEF Progress
  <2>2. Manager!ActivateLoadedModules(m)
    <3>1. load.dict = {} BY <1>1, <1>5, <1>14 DEF ManagerInv, LoadShape
    <3> QED BY <1>5, <1>14, <3>1 DEF Manager!NextModule, Manager!DropModule
  <2>3. mod' = mod BY <2>2 DEF Manager!ActivateLoadedModules
  <2>4. Configured' BY <1>4, <2>1, <2>3 DEF Configured, Up, Off
  <2>5. ASSUME NEW y \in want, y \notin load'.todo, ~Busy(y)' PROVE mod'[y].restored
    <3>1. y \in Module BY <1>6
    <3>2. CASE y # m BY <1>9, <1>10, <2>1, <2>3, <2>5, <3>1, <3>2
    <3>3. CASE y = m
      <4>1. mod[m].kind = "enabled" BY <2>1, <2>5, <3>3 DEF Configured, Up
      <4>2. load'.pc = "restore" BY <1>6, <2>2, <4>1 DEF Manager!ActivateLoadedModules, Loads
      <4> QED BY <1>9, <2>5, <3>3, <4>2 DEF Awaits
    <3> QED BY <3>2, <3>3
  <2> QED BY <1>4, <2>4, <2>5
<1>15. Progress' BY <1>4, <1>8, <1>13, <1>14 DEF Progress
<1>16. ReadyShape' BY <1>4, <1>8 DEF ReadyShape
<1> QED BY <1>2, <1>7, <1>15, <1>16 DEF ReadyInv

\* A new load makes every earlier one stale.
LEMMA QueueKeepsReady ==
  ASSUME Manager!ParamsAssumption, EarlyReload = FALSE, ReadyInv, Manager!Reload \/ Manager!ActivateModulesAfterStateRestore
  PROVE  ReadyInv'
<1>1. ManagerInv /\ QueueShape /\ Progress /\ ReadyShape BY DEF ReadyInv
<1>2. ManagerInv' BY <1>1, QueueSteps
<1>3. queue \in Seq(Queued) /\ gen \in Nat /\ Len(queue) \in Nat /\ load.gen \in Nat
  BY <1>1, LenProperties DEF ManagerInv, ManagerTypes, Loads
<1>4. phase = "up" /\ Manager!Booted /\ UNCHANGED <<mod, load, phase>> BY DEF Manager!Reload,
   Manager!ActivateModulesAfterStateRestore, Manager!Initialized
<1>5. PICK op \in {"load", "activate"} :
        /\ Manager!QueueLoad(op)
        /\ op = "load" => restoreReady /\ UNCHANGED restoreReady
        /\ op = "activate" => ~restoreReady /\ restoreReady' /\ UNCHANGED <<want, version>>
  <2>1. CASE Manager!Reload BY <1>1, <2>1 DEF Manager!Reload
  <2>2. CASE Manager!ActivateModulesAfterStateRestore BY <2>2 DEF Manager!ActivateModulesAfterStateRestore
  <2> QED BY <2>1, <2>2
<1> DEFINE q == [gen |-> gen + 1, op |-> op]
<1>6. gen' = gen + 1 /\ admission' = "loading" /\ queue' = Append(queue, q) /\ q.gen = gen + 1 /\ q.op = op /\ q \in Queued
  BY <1>3, <1>5 DEF Manager!QueueLoad, Queued
<1> HIDE DEF q
<1>7. /\ Len(queue') = Len(queue) + 1 /\ queue' # <<>>
      /\ \A i \in 1 .. Len(queue) : queue'[i] = queue[i]
      /\ queue'[Len(queue) + 1] = q
  BY <1>3, <1>6, AppendProperties
<1>8. op = "activate" => queue = <<>> /\ load.pc = "idle" /\ \A m \in Module : IF m \in want THEN Done(m) ELSE Off(m)
  BY <1>1, <1>4, <1>5 DEF Manager!Booted, QueueShape, ReadyShape
<1>9. QueueShape'
  <2>1. /\ \A i \in 1 .. Len(queue) : queue[i].gen <= gen
        /\ \A i, j \in 1 .. Len(queue) : i < j => queue[i].gen < queue[j].gen
        /\ load.pc # "idle" => load.gen <= gen /\ \A i \in 1 .. Len(queue) : load.gen < queue[i].gen
        /\ \A i \in 1 .. Len(queue) : queue[i].gen \in Nat
    <3>1. \A i \in 1 .. Len(queue) : queue[i] \in Queued BY <1>3, ElementOfSeq
    <3> QED BY <1>1, <1>3, <3>1 DEF QueueShape, Queued
  <2>2. ASSUME NEW i \in 1 .. Len(queue') PROVE i \in 1 .. Len(queue) \/ i = Len(queue) + 1 BY <1>3, <1>7
  <2>3. \A i \in 1 .. Len(queue') : queue'[i].gen <= gen'
    BY <1>3, <1>6, <1>7, <2>1, <2>2
  <2>4. ASSUME NEW i \in 1 .. Len(queue'), NEW j \in 1 .. Len(queue'), i < j PROVE queue'[i].gen < queue'[j].gen
    <3>1. i \in 1 .. Len(queue) BY <1>3, <1>7, <2>4
    <3>2. CASE j \in 1 .. Len(queue) BY <1>7, <2>1, <2>4, <3>1, <3>2
    <3>3. CASE j = Len(queue) + 1
      <4>1. queue'[j].gen = gen + 1 /\ queue'[i].gen <= gen /\ queue'[i].gen \in Nat BY <1>6, <1>7, <2>1, <3>1, <3>3
      <4> QED BY <1>3, <4>1
    <3> QED BY <2>2, <3>2, <3>3
  <2>5. load.pc # "idle" => load.gen <= gen' /\ \A i \in 1 .. Len(queue') : load.gen < queue'[i].gen
    <3>1. load.pc # "idle" => load.gen <= gen' /\ load.gen < gen + 1 BY <1>3, <1>6, <2>1
    <3> QED BY <1>6, <1>7, <2>1, <2>2, <3>1
  <2>6. ASSUME NEW i \in 1 .. Len(queue'), queue'[i].op = "activate" PROVE i = 1 /\ load.pc = "idle" /\ restoreReady'
    <3>1. CASE i \in 1 .. Len(queue)
      <4>1. queue # <<>> BY <3>1
      <4> QED BY <1>1, <1>5, <1>7, <1>8, <2>6, <3>1, <4>1 DEF QueueShape
    <3>2. CASE i = Len(queue) + 1
      <4>1. op = "activate" BY <1>6, <1>7, <2>6, <3>2
      <4> QED BY <1>5, <1>8, <3>2, <4>1
    <3> QED BY <2>2, <3>1, <3>2
  <2>7. restoreReady' /\ (load.pc # "idle" => load.op # "none") BY <1>1, <1>5 DEF QueueShape
  <2> QED BY <1>4, <2>3, <2>4, <2>5, <2>6, <2>7 DEF QueueShape
<1>10. ~Latest' BY <1>1, <1>3, <1>4, <1>6 DEF Latest, QueueShape
<1>11. queue'[1].op = "activate" /\ queue'[1].gen = gen' => Configured'
  <2>1. CASE queue = <<>>
    <3>1. queue'[1] = q BY <1>7, <2>1
    <3>2. op = "activate" => Configured' BY <1>4, <1>5, <1>8 DEF Configured, Done, Up, Off
    <3> QED BY <1>6, <3>1, <3>2
  <2>2. CASE queue # <<>>
    <3>0. 1 \in 1 .. Len(queue) BY <1>3, <2>2
    <3>9. queue[1] \in Queued BY <1>3, <3>0, ElementOfSeq
    <3>1. 1 \in 1 .. Len(queue) /\ queue[1].gen \in Nat BY <3>0, <3>9 DEF Queued
    <3>2. queue'[1].gen <= gen BY <1>1, <1>7, <3>1 DEF QueueShape
    <3> QED BY <1>3, <1>6, <1>7, <3>1, <3>2
  <2> QED BY <2>1, <2>2
<1>12. Progress' BY <1>10, <1>11 DEF Progress
<1>13. ReadyShape' BY <1>6 DEF ReadyShape
<1> QED BY <1>2, <1>9, <1>12, <1>13 DEF ReadyInv

LEMMA ClosingKeepsReady ==
  ASSUME ReadyInv, ClosingStep
  PROVE  ReadyInv'
<1>1. ManagerInv /\ QueueShape /\ Progress /\ ReadyShape BY DEF ReadyInv
<1>2. ManagerInv' BY <1>1, ClosingSteps
<1>3. queue \in Seq(Queued) /\ gen \in Nat /\ load.gen \in Nat /\ \A i \in 1 .. Len(queue) : queue[i].gen \in Nat
  <2>1. queue \in Seq(Queued) /\ gen \in Nat /\ load.gen \in Nat BY <1>1 DEF ManagerInv, ManagerTypes, Loads
  <2>2. \A i \in 1 .. Len(queue) : queue[i] \in Queued BY <2>1, ElementOfSeq
  <2> QED BY <2>1, <2>2 DEF Queued
<1>4. /\ UNCHANGED <<mod, load, want, version, queue, restoreReady>>
      /\ gen' \in {gen, gen + 1} /\ phase' # "up"
      /\ admission' = "closed" \/ (admission' = admission /\ phase # "up")
  BY DEF ClosingStep, Manager!InitializeFails, Manager!QuiesceRewardProducers, Manager!ProducersStopped,
     Manager!Quiesced, Manager!DisposeManager, Manager!HooksDrained, Manager!Initialized
<1>5. admission' = "closed" BY <1>1, <1>4 DEF QueueShape
<1>6. QueueShape'
  <2>1. \A i \in 1 .. Len(queue) : queue[i].gen <= gen' BY <1>1, <1>3, <1>4 DEF QueueShape
  <2>2. load.pc # "idle" => load.gen <= gen' BY <1>1, <1>3, <1>4 DEF QueueShape
  <2> QED BY <1>1, <1>4, <1>5, <2>1, <2>2 DEF QueueShape
<1>7. Latest' => Latest
  <2>1. load.pc # "idle" => load.gen <= gen BY <1>1 DEF QueueShape
  <2> QED BY <1>3, <1>4, <2>1 DEF Latest
<1>8. Configured' <=> Configured BY <1>4 DEF Configured, Up, Off
<1>9. Progress'
  <2>1. \A m \in Module : Placed(m)' <=> Placed(m) BY <1>4 DEF Placed, Busy, Done, Up, Off
  <2>2. \A m \in want : (m \in load.todo \/ Busy(m) \/ mod[m].restored)' <=> (m \in load.todo \/ Busy(m) \/ mod[m].restored)
    BY <1>4 DEF Busy
  <2>3. queue # <<>> /\ queue[1].gen = gen' => queue[1].gen = gen
    <3>1. queue # <<>> => 1 \in 1 .. Len(queue) BY <1>3
    <3>2. queue # <<>> => queue[1].gen <= gen BY <1>1, <3>1 DEF QueueShape
    <3> QED BY <1>3, <1>4, <3>1, <3>2
  <2> QED BY <1>1, <1>4, <1>7, <1>8, <2>1, <2>2, <2>3 DEF Progress
<1>10. ReadyShape' BY <1>5 DEF ReadyShape
<1> QED BY <1>2, <1>6, <1>9, <1>10 DEF ReadyInv

LEMMA StopKeepsReady ==
  ASSUME Manager!ParamsAssumption, ReadyInv,
         Manager!RolledBack \/ Manager!Disposed \/ \E m \in Module : Manager!StopModule(m)
  PROVE  ReadyInv'
<1>1. ManagerInv /\ QueueShape /\ Progress /\ ReadyShape BY DEF ReadyInv
<1>2. ManagerInv' BY <1>1, StopSteps
<1>3. /\ phase \in {"rollback", "stopping"} /\ phase' # "up"
      /\ UNCHANGED <<want, version, queue, load, admission>>
  BY DEF Manager!RolledBack, Manager!Disposed, Manager!StopModule
<1>4. load.pc = "idle" /\ queue = <<>> /\ load.op # "activate"
  BY <1>1, <1>3 DEF ManagerInv, ShutdownShape, LoadShape, Manager!StopIsExclusive
<1>5. QueueShape' BY <1>1, <1>3, <1>4 DEF QueueShape
<1>6. Progress' BY <1>3, <1>4 DEF Progress, Latest
<1>7. ReadyShape' BY <1>1, <1>3 DEF ReadyShape, QueueShape
<1> QED BY <1>2, <1>5, <1>6, <1>7 DEF ReadyInv

LEMMA StillReady ==
  ASSUME ReadyInv, ManagerInv',
         UNCHANGED <<want, version, mod, queue, load, gen, admission, restoreReady, phase>>
  PROVE  ReadyInv'
<1>1. QueueShape' BY DEF ReadyInv, QueueShape
<1>2. Progress'
  <2>1. \A m \in Module : Placed(m)' <=> Placed(m) BY DEF Placed, Busy, Done, Up, Off
  <2>2. \A m \in want : Busy(m)' <=> Busy(m) BY DEF Busy
  <2>3. (Configured' <=> Configured) /\ (Latest' <=> Latest) BY DEF Configured, Up, Off, Latest
  <2> QED BY <2>1, <2>2, <2>3 DEF ReadyInv, Progress
<1>3. ReadyShape' BY DEF ReadyInv, ReadyShape, Done, Up, Off
<1> QED BY <1>1, <1>2, <1>3 DEF ReadyInv

\* The next operation is taken from the queue: its modules are all still to do.
LEMMA BeginKeepsReady ==
  ASSUME Manager!ParamsAssumption, ReadyInv, Manager!BeginLoad
  PROVE  ReadyInv'
<1>1. ManagerInv /\ QueueShape /\ Progress /\ ReadyShape BY DEF ReadyInv
<1>2. ManagerInv' BY <1>1, LoadBoundaries
<1>3. /\ queue \in Seq(Queued) /\ queue # <<>> /\ load.pc = "idle" /\ queue' = Tail(queue)
      /\ UNCHANGED <<want, version, mod, gen, admission, restoreReady, phase>>
  BY <1>1 DEF Manager!BeginLoad, ManagerInv, ManagerTypes
<1> DEFINE q == Head(queue)
           loaded == {m \in Module : mod[m].loaded}
<1>4. /\ q = queue[1] /\ q \in Queued /\ Len(queue) \in Nat \ {0} /\ Len(queue') = Len(queue) - 1
      /\ \A i \in 1 .. Len(queue') : i + 1 \in 2 .. Len(queue) /\ queue'[i] = queue[i + 1]
  BY <1>3, HeadTailProperties, LenProperties
<1>5. /\ load'.gen = q.gen /\ load'.op = q.op /\ load'.pc = "next" /\ load'.cur = {}
      /\ load'.todo = IF q.op = "load" THEN want ELSE loaded
      /\ load'.dict = IF q.op = "load" THEN loaded ELSE {}
  BY DEF Manager!BeginLoad, Manager!Idle
<1> HIDE DEF q, loaded
<1>6. q.gen \in Nat /\ q.op \in {"load", "activate"} BY <1>4 DEF Queued
<1>7. admission # "ready" BY <1>1, <1>3 DEF ReadyShape
<1>8. QueueShape'
  <2>1. 1 \in 1 .. Len(queue) /\ \A i \in 1 .. Len(queue') : i + 1 \in 1 .. Len(queue) /\ 1 < i + 1 BY <1>4
  <2>2. \A i \in 1 .. Len(queue') : queue'[i].gen <= gen /\ q.gen < queue'[i].gen
    BY <1>1, <1>4, <2>1 DEF QueueShape
  <2>3. ASSUME NEW i \in 1 .. Len(queue'), NEW j \in 1 .. Len(queue'), i < j PROVE queue'[i].gen < queue'[j].gen
    <3>1. i + 1 < j + 1 BY <1>4, <2>3
    <3> QED BY <1>1, <1>4, <2>1, <3>1 DEF QueueShape
  <2>4. q.gen <= gen /\ (q.op = "activate" => restoreReady) BY <1>1, <1>4, <2>1 DEF QueueShape
  <2>5. ASSUME NEW i \in 1 .. Len(queue') PROVE queue'[i].op # "activate"
    <3>1. i + 1 # 1 BY <1>4
    <3> QED BY <1>1, <1>4, <2>1, <3>1 DEF QueueShape
  <2>6. /\ phase # "up" => admission = "closed"
        /\ ~restoreReady /\ phase = "up" => gen = 1
    BY <1>1 DEF QueueShape
  <2> QED BY <1>3, <1>5, <1>6, <2>2, <2>3, <2>4, <2>5, <2>6 DEF QueueShape
<1>9. \A m \in Module : ~Busy(m)' BY <1>5 DEF Busy, Awaits
<1>10. \A m \in Module : mod[m].kind # "disabled" => m \in loaded
  BY <1>1 DEF ManagerInv, ModShape, loaded
<1>11. q.op = "load" => \A m \in Module : Placed(m)' BY <1>3, <1>5, <1>9, <1>10 DEF Placed, Off
<1>12. Latest' /\ q.op = "activate" =>
         (Configured /\ \A m \in want : m \in load.todo \/ Busy(m) \/ mod[m].restored)'
  <2> SUFFICES ASSUME Latest', q.op = "activate"
               PROVE  (Configured /\ \A m \in want : m \in load.todo \/ Busy(m) \/ mod[m].restored)'
    OBVIOUS
  <2>1. Configured BY <1>1, <1>3, <1>4, <1>5 DEF Progress, Latest
  <2>2. Configured' BY <1>3, <2>1 DEF Configured, Up, Off
  <2>3. want \subseteq Module BY <1>1 DEF ManagerInv, ManagerTypes
  <2>4. \A m \in want : m \in loaded BY <1>10, <2>1, <2>3 DEF Configured, Up
  <2> QED BY <1>3, <1>5, <2>2, <2>4
<1>13. ~(queue' # <<>> /\ queue'[1].op = "activate")
  <2>1. queue' # <<>> => 1 \in 1 .. Len(queue')
    <3>1. queue' \in Seq(Queued) BY <1>2 DEF ManagerInv, ManagerTypes
    <3> QED BY <3>1
  <2> QED BY <1>5, <1>8, <2>1 DEF QueueShape
<1>14. Progress' BY <1>5, <1>6, <1>11, <1>12, <1>13 DEF Progress
<1>15. ReadyShape' BY <1>3, <1>7 DEF ReadyShape
<1> QED BY <1>2, <1>8, <1>14, <1>15 DEF ReadyInv

\* The latest load ends: every wanted module is done, and every other one is off.
LEMMA EndKeepsReady ==
  ASSUME Manager!ParamsAssumption, ReadyInv, Manager!EndLoad
  PROVE  ReadyInv'
<1>1. ManagerInv /\ QueueShape /\ Progress /\ ReadyShape BY DEF ReadyInv
<1>2. ManagerInv' BY <1>1, LoadBoundaries
<1>3. /\ load.pc = "next" /\ load.todo = {} /\ load.dict = {} /\ load'.pc = "idle" /\ load'.op = "none"
      /\ UNCHANGED <<want, version, mod, queue, gen, restoreReady, phase>>
  BY DEF Manager!EndLoad, Manager!At, Manager!Idle
<1>4. queue \in Seq(Queued) /\ gen \in Nat /\ load \in Loads /\ want \subseteq Module
  BY <1>1 DEF ManagerInv, ManagerTypes
<1>5. admission # "ready" /\ ~(queue # <<>> /\ queue[1].op = "activate") BY <1>1, <1>3, LoadingIsClosed
<1>6. phase # "up" => admission' = "closed" BY <1>1 DEF Manager!EndLoad, Manager!IsLatest, Manager!Initialized,
   QueueShape
<1>7. QueueShape'
  <2>1. \A i \in 1 .. Len(queue) : queue[i].op # "activate" BY <1>1, <1>3 DEF QueueShape
  <2> QED BY <1>1, <1>3, <1>6, <2>1 DEF QueueShape
<1>8. Progress' BY <1>3, <1>5 DEF Progress, Latest
<1>9. ASSUME admission' = "ready"
      PROVE  queue = <<>> /\ phase = "up" /\ \A m \in Module : IF m \in want THEN Done(m) ELSE Off(m)
  <2>1. Manager!IsLatest /\ ~load.failed BY <1>5, <1>9 DEF Manager!EndLoad
  <2>2. phase = "up" /\ load.gen = gen /\ Latest BY <1>3, <2>1 DEF Manager!IsLatest, Manager!Initialized, Latest
  <2>3. queue = <<>>
    <3>1. SUFFICES ASSUME queue # <<>> PROVE FALSE OBVIOUS
    <3>0. 1 \in 1 .. Len(queue) BY <1>4, <3>1
    <3>9. queue[1] \in Queued BY <1>4, <3>0, ElementOfSeq
    <3>2. 1 \in 1 .. Len(queue) /\ queue[1].gen \in Nat BY <3>0, <3>9 DEF Queued
    <3> QED BY <1>1, <1>3, <1>4, <2>2, <3>2 DEF QueueShape
  <2>4. \A m \in Module : ~Busy(m) BY <1>3 DEF Busy, Awaits
  <2>5. ASSUME load.op = "load" PROVE \A m \in Module : IF m \in want THEN Done(m) ELSE Off(m)
    BY <1>1, <1>3, <2>2, <2>4, <2>5 DEF Progress, Placed
  <2>6. ASSUME load.op = "activate" PROVE \A m \in Module : IF m \in want THEN Done(m) ELSE Off(m)
    <3>1. Configured /\ \A m \in want : mod[m].restored BY <1>1, <1>3, <1>4, <2>2, <2>4, <2>6 DEF Progress
    <3> QED BY <3>1 DEF Configured, Done
  <2>7. load.op \in {"load", "activate"} BY <1>1, <1>3, <1>4 DEF QueueShape, Loads
  <2> QED BY <2>2, <2>3, <2>5, <2>6, <2>7
<1>10. ReadyShape' BY <1>3, <1>9 DEF ReadyShape, Done, Up, Off
<1> QED BY <1>2, <1>7, <1>8, <1>10 DEF ReadyInv

LEMMA ReadyInit == ASSUME Manager!ParamsAssumption, Manager!Init PROVE ReadyInv
<1>1. ManagerInv BY ManagerInit
<1>2. Len(queue) = 1 /\ queue[1] = [gen |-> 1, op |-> "load"] BY DEF Manager!Init
<1>3. QueueShape
  <2>1. \A i \in 1 .. Len(queue) : i = 1 BY <1>2
  <2> QED BY <1>2, <2>1 DEF Manager!Init, QueueShape, Manager!Idle
<1>4. Progress BY <1>2 DEF Manager!Init, Progress, Latest, Manager!Idle
<1>5. ReadyShape BY DEF Manager!Init, ReadyShape
<1> QED BY <1>1, <1>3, <1>4, <1>5 DEF ReadyInv

LEMMA ReadyStep ==
  ASSUME Manager!ParamsAssumption, EarlyReload = FALSE, ReadyInv, [Manager!Next]_(Manager!vars)
  PROVE  ReadyInv'
<1>1. CASE Manager!Reload \/ Manager!ActivateModulesAfterStateRestore BY <1>1, QueueKeepsReady
<1>2. CASE ClosingStep
  BY <1>2, ClosingKeepsReady
<1>3. CASE Manager!RolledBack \/ Manager!Disposed \/ \E m \in Module : Manager!StopModule(m)
  BY <1>3, StopKeepsReady
<1>4. CASE Manager!BeginLoad BY <1>4, BeginKeepsReady
<1>5. CASE Manager!EndLoad BY <1>5, EndKeepsReady
<1>6. CASE AwaitStep
  BY <1>6, AwaitsKeepReady
<1>7. CASE \E m \in Module : Manager!NextModule(m) \/ Manager!ActivateLoadedModules(m) \/ Manager!DropModule(m)
  BY <1>7, HeadsKeepReady
<1>8. CASE \/ UNCHANGED Manager!vars
           \/ \E h \in Hook : Manager!RunActionHooks(h) \/ \E t \in BOOLEAN : Manager!ProcessActionHooks(h, t)
  <2>1. ManagerInv' BY ManagerStep DEF ReadyInv
  <2>2. UNCHANGED <<want, version, mod, queue, load, gen, admission, restoreReady, phase>>
    BY <1>8 DEF Manager!vars, Manager!RunActionHooks, Manager!ProcessActionHooks
  <2> QED BY <2>1, <2>2, StillReady
<1> QED BY <1>1, <1>2, <1>3, <1>4, <1>5, <1>6, <1>7, <1>8 DEF Manager!Next, Manager!LoadStep, Manager!Shutdown,
   AwaitStep, ClosingStep

\* Sessions are admitted only while exactly the configured modules run, each with the
\* configuration loaded last, when no reload comes before the state restore is complete.
THEOREM AdmissionIsReady ==
  ASSUME Manager!ParamsAssumption, EarlyReload = FALSE
  PROVE  Manager!Spec => []Manager!ReadyMeansLoaded
<1>1. Manager!Init => ReadyInv BY ReadyInit
<1>2. ReadyInv /\ [Manager!Next]_(Manager!vars) => ReadyInv' BY ReadyStep
<1>3. ReadyInv => Manager!ReadyMeansLoaded
  <2> SUFFICES ASSUME ReadyInv, admission = "ready", NEW m \in Module
               PROVE  IF m \in want
                      THEN mod[m].kind = "enabled" /\ mod[m].hooks /\ mod[m].cfg = version
                           /\ (restoreReady => mod[m].restored)
                      ELSE mod[m].kind = "disabled" /\ ~mod[m].hooks
    BY DEF Manager!ReadyMeansLoaded
  <2>1. phase = "up" /\ IF m \in want THEN Done(m) ELSE Off(m) BY DEF ReadyInv, ReadyShape
  <2>2. ModShape(m) BY DEF ReadyInv, ManagerInv
  <2> QED BY <2>1, <2>2 DEF ModShape, Done, Up, Off
<1> QED BY <1>1, <1>2, <1>3, PTL DEF Manager!Spec

-----------------------------------------------------------------------------
(***************************************************************************)
(* The lookups of a session's address run in a generation that owns a      *)
(* runtime.  One call at a time holds the lifecycle: what it has staged    *)
(* and what it drains account for every runtime that is neither current    *)
(* nor waiting for a retry of its cleanup, and it changes the current      *)
(* generation only when no lookup is in flight.                            *)
(***************************************************************************)

CONSTANTS Gen, Work, Call, MaxInflight, MaxFailures, NoGen, NoCall
VARIABLES generation, current, failed, lifecycle, call, work, failures

Lookups == INSTANCE BoundedAsyncWork WITH gen <- generation, faults <- failures, MaxFaults <- MaxFailures

\* The steps of a call that holds the lifecycle, and those between the draining and the end.
Held == {"retrying", "operating", "draining", "disposing", "settling", "discarding"}
Draining == {"disposing", "settling", "discarding"}

Gens == [Gen -> [created : BOOLEAN, accepting : BOOLEAN, limit : 0 .. MaxInflight, disposed : BOOLEAN]]
Calls == [kind : {"none", "start", "replace", "stop"},
          st : {"idle", "waiting", "retrying", "operating", "draining", "disposing",
                "settling", "discarding", "ended", "threw"},
          staged : Gen \cup {NoGen}, previous : Gen \cup {NoGen}, ok : BOOLEAN]
Works == [gen : Gen \cup {NoGen}, op : {"idle", "running", "applied", "awaiting", "done"},
          caller : {"idle", "waiting", "settled", "answered", "rejected"},
          aborted : BOOLEAN, applied : BOOLEAN, awaits : Call \cup {NoCall}]

\* Lookups that were admitted and have not settled.
Unsettled == {w \in Work : work[w].op \notin {"idle", "done"}}

\* A staged generation: a runtime that does not serve, and that is neither current nor disposed.
Staged(g) == g \in Gen /\ g # current /\ generation[g].created /\ ~generation[g].accepting /\ ~generation[g].disposed

\* One call at a time is past the waiting; what it has staged and what it drains.
CallShape(c) ==
  /\ call[c].st \in Held <=> c = lifecycle
  /\ call[c].st \in Held \cup {"waiting"} => call[c].kind \in {"replace", "stop"}
  /\ call[c].st \in {"draining", "discarding"} => call[c].kind = "replace"
  /\ call[c].st = "retrying" => failed # NoGen
  /\ call[c].st \in Held \ {"retrying"} => failed = NoGen
  /\ call[c].st \in {"draining"} \cup Draining => current # NoGen
  /\ call[c].st \in Draining => call[c].previous = current /\ ~generation[current].accepting
  /\ call[c].st = "settling" /\ call[c].ok => generation[current].disposed
  /\ IF call[c].st \in {"draining"} \cup Draining /\ call[c].kind = "replace"
     THEN Staged(call[c].staged)
     ELSE call[c].st \in Held \cup {"idle", "waiting"} => call[c].staged = NoGen

\* The current generation is disposed only by the call that is about to drop it.
CurrentShape ==
  current # NoGen =>
    /\ generation[current].created
    /\ generation[current].disposed =>
         lifecycle # NoCall /\ call[lifecycle].st = "settling" /\ call[lifecycle].ok

FailedShape == failed # NoGen => failed # current /\ generation[failed].created /\ ~generation[failed].accepting

\* A lookup that was not cancelled is still waited for.
WorkShape(w) ==
  /\ work[w].op = "idle" <=> work[w].gen = NoGen
  /\ w \in Unsettled /\ ~work[w].aborted => work[w].caller = "waiting"

\* The inductive invariant.
LookupInv ==
  /\ Lookups!TypeOK /\ CurrentShape /\ FailedShape
  /\ \A c \in Call : CallShape(c)
  /\ \A w \in Work : WorkShape(w)
  /\ Lookups!InflightBound /\ Lookups!NoRuntimeLost /\ Lookups!OneServes

\* The library's operators, as the lookups' module sees them.
LEMMA SameFinite == ASSUME NEW S PROVE Lookups!IsFiniteSet(S) <=> IsFiniteSet(S)
BY DEF Lookups!IsFiniteSet, IsFiniteSet

LEMMA SameCardinality == ASSUME NEW S PROVE Lookups!Cardinality(S) = Cardinality(S)
BY DEF Lookups!Cardinality, Cardinality

\* The parts of the state a step of the lifecycle or of a lookup may rely on.
LEMMA LookupParts ==
  ASSUME Lookups!BoundsAssumption, LookupInv
  PROVE  /\ generation \in Gens
         /\ call \in [Call -> Calls] /\ work \in [Work -> Works]
         /\ current \in Gen \cup {NoGen} /\ failed \in Gen \cup {NoGen} /\ lifecycle \in Call \cup {NoCall}
         /\ failures \in 0 .. MaxFailures /\ NoGen \notin Gen /\ NoCall \notin Call
         /\ MaxInflight \in Nat /\ MaxFailures \in Nat /\ \A g \in Gen : generation[g].limit \in Nat
<1>1. Lookups!TypeOK BY DEF LookupInv
<1>2. MaxInflight \in Nat /\ MaxFailures \in Nat /\ NoGen \notin Gen /\ NoCall \notin Call
  BY DEF Lookups!BoundsAssumption
<1> QED BY <1>1, <1>2 DEF Lookups!TypeOK, Calls, Works, Gens

\* A step of lookups that starts none keeps the bound on the lookups in flight.
LEMMA FewerUnsettled ==
  ASSUME Lookups!BoundsAssumption, Lookups!InflightBound, Unsettled' \subseteq Unsettled,
         \A w \in Unsettled' : work'[w].gen = work[w].gen,
         UNCHANGED current,
         current # NoGen =>
           generation'[current].limit = generation[current].limit /\ generation[current].limit \in Nat
  PROVE  Lookups!InflightBound'
<1>1. IsFiniteSet(Unsettled) BY FS_Subset, SameFinite DEF Lookups!BoundsAssumption, Unsettled
<1>2. Cardinality(Unsettled') <= Cardinality(Unsettled) /\ Cardinality(Unsettled) \in Nat
      /\ Cardinality(Unsettled') \in Nat
  BY <1>1, FS_Subset, FS_CardinalityType
<1>3. Unsettled # {} => /\ current # NoGen
                        /\ \A w \in Unsettled : work[w].gen = current
                        /\ Cardinality(Unsettled) <= generation[current].limit
  BY SameCardinality DEF Lookups!InflightBound, Unsettled
<1>4. Unsettled' # {} => /\ current' # NoGen
                         /\ \A w \in Unsettled' : work'[w].gen = current'
                         /\ Cardinality(Unsettled') <= generation'[current'].limit
  BY <1>2, <1>3
<1> QED BY <1>4, SameCardinality DEF Lookups!InflightBound, Unsettled

\* With no lookup in flight the bound holds whatever generation is current.
LEMMA NoneUnsettled == ASSUME Unsettled' = {} PROVE Lookups!InflightBound'
BY DEF Lookups!InflightBound, Unsettled

\* A step of a lookup keeps the invariant, if it keeps the types and what the lookup says of itself.
LEMMA LookupKeepsInv ==
  ASSUME Lookups!BoundsAssumption, LookupInv, UNCHANGED <<generation, current, failed, lifecycle>>,
         call' \in [Call -> Calls], \A c \in Call : CallShape(c)',
         lifecycle # NoCall => call'[lifecycle] = call[lifecycle],
         work' \in [Work -> Works], \A w \in Work : WorkShape(w)', Lookups!InflightBound', UNCHANGED failures
  PROVE  LookupInv'
<1>1. Lookups!TypeOK'
  <2>1. Lookups!TypeOK BY DEF LookupInv
  <2> QED BY <2>1 DEF Lookups!TypeOK, Calls, Works
<1>2. CurrentShape' BY DEF LookupInv, CurrentShape
<1>3. FailedShape' BY DEF LookupInv, FailedShape
<1>4. Lookups!NoRuntimeLost' BY DEF LookupInv, Lookups!NoRuntimeLost
<1>5. Lookups!OneServes' BY DEF LookupInv, Lookups!OneServes
<1> QED BY <1>1, <1>2, <1>3, <1>4, <1>5 DEF LookupInv

\* The record of a lookup becomes r.
LEMMA OneLookup ==
  ASSUME Lookups!BoundsAssumption, LookupInv, NEW w \in Work, NEW r \in Works, work' = [work EXCEPT ![w] = r],
         UNCHANGED <<generation, current, failed, lifecycle, call, failures>>,
         r.gen = work[w].gen, r.op = "idle" <=> work[w].op = "idle",
         w \notin Unsettled => r.op \in {"idle", "done"},
         r.op \notin {"idle", "done"} /\ ~r.aborted => r.caller = "waiting"
  PROVE  LookupInv'
<1>1. work \in [Work -> Works] /\ call \in [Call -> Calls] BY LookupParts
<1>2. work' \in [Work -> Works] /\ work'[w] = r /\ \A v \in Work \ {w} : work'[v] = work[v] BY <1>1
<1>3. ASSUME NEW v \in Work PROVE WorkShape(v)'
  <2>1. WorkShape(v) BY DEF LookupInv
  <2> QED BY <1>2, <2>1 DEF WorkShape, Unsettled
<1>4. \A c \in Call : CallShape(c)' BY DEF LookupInv, CallShape, Staged
<1>5. Lookups!InflightBound'
  <2>1. Unsettled' \subseteq Unsettled BY <1>2 DEF Unsettled
  <2>2. \A v \in Unsettled' : work'[v].gen = work[v].gen BY <1>2 DEF Unsettled
  <2>3. current # NoGen => generation[current].limit \in Nat BY LookupParts
  <2>4. Lookups!InflightBound BY DEF LookupInv
  <2> QED BY <2>1, <2>2, <2>3, <2>4, FewerUnsettled
<1> QED BY <1>1, <1>2, <1>3, <1>4, <1>5, LookupKeepsInv

LEMMA LookupSteps ==
  ASSUME Lookups!BoundsAssumption, LookupInv, NEW w \in Work,
         Lookups!Apply(w) \/ Lookups!Settle(w) \/ Lookups!Timeout(w) \/ Lookups!Deliver(w)
  PROVE  LookupInv'
<1> DEFINE x == work[w]
<1>1. x \in Works /\ work \in [Work -> Works] BY LookupParts
<1>2. w \in Unsettled <=> x.op \notin {"idle", "done"} BY DEF Unsettled
<1>3. WorkShape(w) BY DEF LookupInv
<1>4. UNCHANGED <<generation, current, failed, lifecycle, call, failures>>
  BY DEF Lookups!Apply, Lookups!Settle, Lookups!Timeout, Lookups!Deliver
<1>5. CASE Lookups!Apply(w)
  <2> DEFINE r == [x EXCEPT !.op = "applied", !.applied = Lookups!AssertActive(w)]
  <2>1. work' = [work EXCEPT ![w] = r] /\ x.op = "running" BY <1>1, <1>5 DEF Lookups!Apply
  <2>2. Lookups!AssertActive(w) \in BOOLEAN
    BY LookupParts DEF Lookups!AssertActive, Lookups!AssertGenerationCurrent, Lookups!Accepting, Works
  <2>3. r \in Works /\ r.op = "applied" /\ r.gen = x.gen /\ r.aborted = x.aborted /\ r.caller = x.caller
    BY <1>1, <2>2 DEF Works
  <2> QED BY <1>2, <1>3, <1>4, <2>1, <2>3, OneLookup DEF WorkShape
<1>6. CASE Lookups!Settle(w)
  <2> DEFINE r == [x EXCEPT !.op = "done", !.caller = IF @ = "waiting" THEN "settled" ELSE @]
  <2>1. work' = [work EXCEPT ![w] = r] /\ x.op \notin {"idle", "done"} BY <1>1, <1>6 DEF Lookups!Settle
  <2>2. r \in Works /\ r.op = "done" /\ r.gen = x.gen BY <1>1 DEF Works
  <2> QED BY <1>2, <1>4, <2>1, <2>2, OneLookup
<1>7. CASE Lookups!Timeout(w)
  <2> DEFINE r == [x EXCEPT !.caller = "settled", !.aborted = TRUE]
  <2>1. work' = [work EXCEPT ![w] = r] BY <1>1, <1>7 DEF Lookups!Timeout
  <2>2. r \in Works /\ r.op = x.op /\ r.gen = x.gen /\ r.aborted BY <1>1 DEF Works
  <2> QED BY <1>2, <1>4, <2>1, <2>2, OneLookup
<1>8. CASE Lookups!Deliver(w)
  <2> DEFINE r == [x EXCEPT !.caller = IF Lookups!AssertActive(w) THEN "answered" ELSE "rejected"]
  <2>1. work' = [work EXCEPT ![w] = r] /\ x.caller = "settled" BY <1>1, <1>8 DEF Lookups!Deliver
  <2>2. r \in Works /\ r.op = x.op /\ r.gen = x.gen /\ r.aborted = x.aborted BY <1>1 DEF Works
  <2>3. r.op \notin {"idle", "done"} => r.aborted BY <1>2, <1>3, <2>1, <2>2 DEF WorkShape
  <2> QED BY <1>2, <1>4, <2>1, <2>2, <2>3, OneLookup
<1> QED BY <1>5, <1>6, <1>7, <1>8

\* A lookup is admitted: the current generation still has room for it.
LEMMA RunStep ==
  ASSUME Lookups!BoundsAssumption, LookupInv, NEW w \in Work, Lookups!Run(w)
  PROVE  LookupInv'
<1> DEFINE r == [work[w] EXCEPT !.gen = current, !.op = "running", !.caller = "waiting"]
<1>1. work \in [Work -> Works] /\ work[w] \in Works /\ current \in Gen /\ generation[current].limit \in Nat
      /\ call \in [Call -> Calls]
  BY LookupParts DEF Lookups!Run, Lookups!Accepting
<1>2. work' = [work EXCEPT ![w] = r] /\ work[w].op = "idle" BY <1>1 DEF Lookups!Run
<1>3. r \in Works /\ r.op = "running" /\ r.gen = current /\ r.caller = "waiting" BY <1>1 DEF Works
<1> HIDE DEF r
<1>4. work' \in [Work -> Works] /\ work'[w] = r /\ \A v \in Work \ {w} : work'[v] = work[v] BY <1>1, <1>2, <1>3
<1>5. UNCHANGED <<generation, current, failed, lifecycle, call, failures>> BY DEF Lookups!Run
<1>6. ASSUME NEW v \in Work PROVE WorkShape(v)'
  <2>1. WorkShape(v) BY DEF LookupInv
  <2>2. current # NoGen BY <1>1 DEF Lookups!BoundsAssumption
  <2> QED BY <1>3, <1>4, <1>5, <2>1, <2>2 DEF WorkShape, Unsettled
<1>7. \A c \in Call : CallShape(c)' BY <1>5 DEF LookupInv, CallShape, Staged
<1>8. Lookups!InflightBound'
  <2>1. \A v \in Unsettled : work[v].gen = current BY DEF LookupInv, Lookups!InflightBound, Unsettled
  <2>2. Unsettled = Lookups!Active(current)
    <3>1. \A v \in Work : WorkShape(v) BY DEF LookupInv
    <3> QED BY <1>1, <2>1, <3>1 DEF Unsettled, Lookups!Active, WorkShape, Lookups!BoundsAssumption
  <2>3. Cardinality(Unsettled) < generation[current].limit BY <2>2, SameCardinality DEF Lookups!Run, Lookups!Room
  <2>4. Unsettled' = Unsettled \cup {w} BY <1>2, <1>3, <1>4 DEF Unsettled
  <2>5. IsFiniteSet(Unsettled) BY FS_Subset, SameFinite DEF Lookups!BoundsAssumption, Unsettled
  <2>6. w \notin Unsettled BY <1>2 DEF Unsettled
  <2>7. Cardinality(Unsettled') = Cardinality(Unsettled) + 1 /\ Cardinality(Unsettled) \in Nat
    BY <2>4, <2>5, <2>6, FS_AddElement, FS_CardinalityType
  <2>8. Cardinality(Unsettled') <= generation[current].limit BY <1>1, <2>3, <2>7
  <2>9. \A v \in Unsettled' : work'[v].gen = current BY <1>3, <1>4, <2>1, <2>4 DEF Unsettled
  <2>10. current # NoGen BY <1>1 DEF Lookups!BoundsAssumption
  <2> QED BY <1>5, <2>8, <2>9, <2>10, SameCardinality DEF Lookups!InflightBound, Unsettled
<1> QED BY <1>1, <1>4, <1>5, <1>6, <1>7, <1>8, LookupKeepsInv

\* A call that waits or that an owned callback makes holds nothing yet.
LEMMA RequestSteps ==
  ASSUME Lookups!BoundsAssumption, LookupInv, NEW c \in Call,
         (\E kind \in {"replace", "stop"} : Lookups!Request(c, kind)) \/ \E w \in Work : Lookups!RequestFromCallback(w, c)
  PROVE  LookupInv'
<1>1. work \in [Work -> Works] /\ call \in [Call -> Calls] /\ call[c] \in Calls BY LookupParts
<1>2. PICK kind \in {"replace", "stop"}, st \in {"waiting", "threw"} :
        call' = [call EXCEPT ![c] = [call[c] EXCEPT !.kind = kind, !.st = st]]
  BY <1>1 DEF Lookups!Request, Lookups!RequestFromCallback
<1>3. call[c].st = "idle" /\ UNCHANGED <<generation, current, failed, lifecycle, failures>>
  BY DEF Lookups!Request, Lookups!RequestFromCallback
<1> DEFINE r == [call[c] EXCEPT !.kind = kind, !.st = st]
<1>4. r \in Calls /\ r.st = st /\ r.kind = kind /\ r.staged = call[c].staged BY <1>1 DEF Calls
<1> HIDE DEF r
<1>5. call' \in [Call -> Calls] /\ call'[c] = r /\ \A d \in Call \ {c} : call'[d] = call[d]
  BY <1>1, <1>2, <1>4 DEF r
<1>6. CallShape(c) BY DEF LookupInv
<1>7. c # lifecycle BY <1>3, <1>6 DEF CallShape, Held
<1>8. ASSUME NEW d \in Call PROVE CallShape(d)'
  <2>1. CASE d = c BY <1>3, <1>4, <1>5, <1>6, <1>7, <2>1 DEF CallShape, Held, Draining
  <2>2. CASE d # c
    <3>1. CallShape(d) /\ call'[d] = call[d] BY <1>5, <2>2 DEF LookupInv
    <3> QED BY <1>3, <3>1 DEF CallShape, Staged
  <2> QED BY <2>1, <2>2
<1>9. lifecycle # NoCall => call'[lifecycle] = call[lifecycle] BY <1>5, <1>7, LookupParts
<1>10. /\ work' \in [Work -> Works] /\ Unsettled' = Unsettled
       /\ \A w \in Work : /\ work'[w].gen = work[w].gen /\ work'[w].caller = work[w].caller
                          /\ work'[w].aborted = work[w].aborted /\ (work'[w].op = "idle" <=> work[w].op = "idle")
  <2>1. CASE UNCHANGED work BY <1>1, <2>1 DEF Unsettled
  <2>2. ASSUME NEW w \in Work, work[w].op = "running", work' = [work EXCEPT ![w].op = "awaiting", ![w].awaits = c]
        PROVE  /\ work' \in [Work -> Works] /\ Unsettled' = Unsettled
               /\ \A v \in Work : /\ work'[v].gen = work[v].gen /\ work'[v].caller = work[v].caller
                                  /\ work'[v].aborted = work[v].aborted /\ (work'[v].op = "idle" <=> work[v].op = "idle")
    <3> DEFINE q == [work[w] EXCEPT !.op = "awaiting", !.awaits = c]
    <3>1. work[w] \in Works BY <1>1
    <3>2. /\ q \in Works /\ q.op = "awaiting" /\ q.gen = work[w].gen /\ q.caller = work[w].caller
          /\ q.aborted = work[w].aborted
      BY <3>1 DEF Works
    <3>3. work' = [work EXCEPT ![w] = q] BY <1>1, <2>2
    <3> HIDE DEF q
    <3>4. work' \in [Work -> Works] /\ work'[w] = q /\ \A v \in Work \ {w} : work'[v] = work[v] BY <1>1, <3>2, <3>3
    <3> QED BY <2>2, <3>2, <3>4 DEF Unsettled
  <2> QED BY <2>1, <2>2 DEF Lookups!Request, Lookups!RequestFromCallback
<1>11. ASSUME NEW w \in Work PROVE WorkShape(w)'
  <2>1. WorkShape(w) BY DEF LookupInv
  <2> QED BY <1>10, <2>1 DEF WorkShape
<1>12. Lookups!InflightBound'
  <2>1. current # NoGen => generation[current].limit \in Nat BY LookupParts
  <2>2. Lookups!InflightBound BY DEF LookupInv
  <2>3. \A w \in Unsettled' : work'[w].gen = work[w].gen BY <1>10 DEF Unsettled
  <2> QED BY <1>3, <1>10, <2>1, <2>2, <2>3, FewerUnsettled
<1> QED BY <1>3, <1>5, <1>8, <1>9, <1>10, <1>11, <1>12, LookupKeepsInv

\* A call that is not past the waiting relies on nothing of the generations.
LEMMA OtherCalls ==
  ASSUME Lookups!BoundsAssumption, LookupInv, NEW c \in Call, lifecycle \in {c, NoCall}, lifecycle' \in {c, NoCall},
         NEW d \in Call, d # c, call'[d] = call[d]
  PROVE  CallShape(d)'
<1>1. CallShape(d) BY DEF LookupInv
<1>2. d # lifecycle /\ d # lifecycle' BY DEF Lookups!BoundsAssumption
<1> QED BY <1>1, <1>2 DEF CallShape, Held, Draining

LEMMA NoneWithoutCurrent == ASSUME LookupInv, current = NoGen PROVE Unsettled = {}
BY DEF LookupInv, Lookups!InflightBound, Unsettled

\* A step of the lifecycle keeps the invariant, if it keeps its parts.
LEMMA HoldKeepsInv ==
  ASSUME Lookups!BoundsAssumption, LookupInv, NEW c \in Call, lifecycle \in {c, NoCall}, lifecycle' \in {c, NoCall},
         NEW r \in Calls, call' = [call EXCEPT ![c] = r], generation' \in Gens,
         current' \in Gen \cup {NoGen}, failed' \in Gen \cup {NoGen},
         failures' = failures \/ (failures < MaxFailures /\ failures' = failures + 1),
         work' \in [Work -> Works], \A w \in Work : WorkShape(w)',
         CallShape(c)', CurrentShape', FailedShape', Lookups!InflightBound', Lookups!NoRuntimeLost', Lookups!OneServes'
  PROVE  LookupInv'
<1>1. call \in [Call -> Calls] /\ failures \in 0 .. MaxFailures /\ MaxFailures \in Nat BY LookupParts
<1>2. call' \in [Call -> Calls] /\ \A d \in Call : d # c => call'[d] = call[d] BY <1>1
<1>3. \A d \in Call : CallShape(d)' BY <1>2, OtherCalls
<1>4. failures' \in 0 .. MaxFailures BY <1>1
<1>5. Lookups!TypeOK' BY <1>1, <1>2, <1>4 DEF Lookups!TypeOK, Calls, Works, Gens
<1> QED BY <1>3, <1>5 DEF LookupInv

LEMMA CallKeepsInv ==
  ASSUME Lookups!BoundsAssumption, LookupInv, NEW c \in Call, lifecycle \in {c, NoCall}, lifecycle' \in {c, NoCall},
         NEW r \in Calls, call' = [call EXCEPT ![c] = r], generation' \in Gens,
         current' \in Gen \cup {NoGen}, failed' \in Gen \cup {NoGen},
         failures' = failures \/ (failures < MaxFailures /\ failures' = failures + 1), UNCHANGED work,
         CallShape(c)', CurrentShape', FailedShape', Lookups!InflightBound', Lookups!NoRuntimeLost', Lookups!OneServes'
  PROVE  LookupInv'
<1>1. work \in [Work -> Works] BY LookupParts
<1>2. \A w \in Work : WorkShape(w)' BY DEF LookupInv, WorkShape, Unsettled
<1> QED BY <1>1, <1>2, HoldKeepsInv

\* The bound while no lookup and no limit changes.
LEMMA SameBound ==
  ASSUME Lookups!BoundsAssumption, LookupInv, UNCHANGED <<work, current>>,
         current # NoGen => generation'[current].limit = generation[current].limit
  PROVE  Lookups!InflightBound'
<1>1. current # NoGen => generation[current].limit \in Nat BY LookupParts
<1>2. Lookups!InflightBound /\ Unsettled' = Unsettled BY DEF LookupInv, Unsettled
<1> QED BY <1>1, <1>2, FewerUnsettled

\* Without a current generation a new one takes over at once.
LEMMA TakeOver ==
  ASSUME Lookups!BoundsAssumption, LookupInv, current = NoGen, failed = NoGen, UNCHANGED <<failed, work, failures>>,
         NEW c \in Call, lifecycle \in {c, NoCall}, lifecycle' = NoCall,
         lifecycle = c => call[c].staged = NoGen,
         NEW g \in Gen, NEW limit \in 1 .. MaxInflight,

         generation' = [generation EXCEPT ![g] =
           [created |-> TRUE, accepting |-> TRUE, limit |-> limit, disposed |-> FALSE]],
         current' = g, NEW r \in Calls, call' = [call EXCEPT ![c] = r], r.st = "ended"
  PROVE  LookupInv'
<1> DEFINE n == [created |-> TRUE, accepting |-> TRUE, limit |-> limit, disposed |-> FALSE]
<1>1. /\ generation \in Gens
      /\ call \in [Call -> Calls] /\ NoGen \notin Gen /\ NoCall \notin Call /\ MaxInflight \in Nat
  BY LookupParts
<1>2. n \in [created : BOOLEAN, accepting : BOOLEAN, limit : 0 .. MaxInflight, disposed : BOOLEAN] BY <1>1
<1>3. /\ generation' \in Gens
      /\ generation'[g] = n /\ \A h \in Gen \ {g} : generation'[h] = generation[h]
  BY <1>1, <1>2 DEF Gens
<1>4. call'[c] = r BY <1>1
<1>5. \A h \in Gen : ~generation[h].accepting /\ (generation[h].created => generation[h].disposed)
  BY <1>1 DEF LookupInv, Lookups!OneServes, Lookups!NoRuntimeLost
<1>6. CallShape(c)' BY <1>1, <1>4 DEF CallShape, Held, Draining
<1>7. CurrentShape' BY <1>3 DEF CurrentShape
<1>8. FailedShape' BY DEF FailedShape
<1>9. Lookups!InflightBound'
  <2>1. Unsettled' = {} BY NoneWithoutCurrent DEF Unsettled
  <2> QED BY <2>1, NoneUnsettled
<1>10. Lookups!NoRuntimeLost' BY <1>3, <1>5 DEF Lookups!NoRuntimeLost
<1>11. Lookups!OneServes' BY <1>3, <1>5 DEF Lookups!OneServes
<1> QED BY <1>3, <1>6, <1>7, <1>8, <1>9, <1>10, <1>11, CallKeepsInv

LEMMA StartStep ==
  ASSUME Lookups!BoundsAssumption, LookupInv, NEW c \in Call, NEW g \in Gen, NEW limit \in 1 .. MaxInflight,
         Lookups!Start(c, g, limit)
  PROVE  LookupInv'
<1> DEFINE r == [call[c] EXCEPT !.kind = "start", !.st = "ended"]
<1>1. call \in [Call -> Calls] /\ call[c] \in Calls /\ NoCall \notin Call BY LookupParts
<1>2. call' = [call EXCEPT ![c] = r] BY <1>1 DEF Lookups!Start
<1>3. r \in Calls /\ r.st = "ended" BY <1>1 DEF Calls
<1> HIDE DEF r
<1> QED BY <1>1, <1>2, <1>3, TakeOver DEF Lookups!Start, Lookups!StartAllowed

LEMMA BeginStep ==
  ASSUME Lookups!BoundsAssumption, LookupInv, NEW c \in Call, Lookups!Begin(c)
  PROVE  LookupInv'
<1> DEFINE st == IF failed = NoGen THEN "operating" ELSE "retrying"
           r == [call[c] EXCEPT !.st = st]
<1>1. call \in [Call -> Calls] /\ call[c] \in Calls /\ NoCall \notin Call BY LookupParts
<1>2. call' = [call EXCEPT ![c] = r] /\ lifecycle = NoCall /\ lifecycle' = c /\ call[c].st = "waiting"
      /\ UNCHANGED <<generation, current, failed, work, failures>>
  BY <1>1 DEF Lookups!Begin
<1>3. r \in Calls /\ r.st = st /\ r.kind = call[c].kind /\ r.staged = call[c].staged BY <1>1 DEF Calls
<1> HIDE DEF r
<1>4. call'[c] = r BY <1>1, <1>2
<1>5. CallShape(c)'
  <2>1. CallShape(c) BY DEF LookupInv
  <2> QED BY <1>2, <1>3, <1>4, <2>1 DEF CallShape, Held, Draining
<1>6. CurrentShape' /\ FailedShape' BY <1>2 DEF LookupInv, CurrentShape, FailedShape
<1>7. Lookups!NoRuntimeLost' BY <1>2 DEF LookupInv, Lookups!NoRuntimeLost
<1>8. Lookups!OneServes' BY <1>2 DEF LookupInv, Lookups!OneServes
<1>9. Lookups!InflightBound' BY <1>2, SameBound
<1>10. /\ generation' \in Gens
       /\ current' \in Gen \cup {NoGen} /\ failed' \in Gen \cup {NoGen}
  BY <1>2, LookupParts
<1> QED BY <1>2, <1>3, <1>5, <1>6, <1>7, <1>8, <1>9, <1>10, CallKeepsInv

\* What every step of a call that holds the lifecycle may rely on.
LEMMA Holder ==
  ASSUME Lookups!BoundsAssumption, LookupInv, NEW c \in Call, call[c].st \in Held
  PROVE  /\ c = lifecycle /\ CallShape(c) /\ lifecycle # NoCall
         /\ generation \in Gens
         /\ call \in [Call -> Calls] /\ call[c] \in Calls /\ NoGen \notin Gen /\ NoCall \notin Call
         /\ current \in Gen \cup {NoGen} /\ failed \in Gen \cup {NoGen}
         /\ current # NoGen => generation[current].created
         /\ current # NoGen /\ ~(call[c].st = "settling" /\ call[c].ok) => ~generation[current].disposed
         /\ \A g \in Gen : generation[g].created /\ ~generation[g].disposed => g \in {current, failed, call[c].staged}
         /\ \A g \in Gen : generation[g].accepting => g = current /\ ~generation[g].disposed
<1>1. CallShape(c) BY DEF LookupInv
<1>2. c = lifecycle BY <1>1 DEF CallShape
<1>3. lifecycle # NoCall BY <1>2, LookupParts
<1>4. /\ current # NoGen => generation[current].created
      /\ current # NoGen /\ ~(call[c].st = "settling" /\ call[c].ok) => ~generation[current].disposed
  BY <1>2 DEF LookupInv, CurrentShape
<1>5. /\ \A g \in Gen : generation[g].created /\ ~generation[g].disposed => g \in {current, failed, call[c].staged}
      /\ \A g \in Gen : generation[g].accepting => g = current /\ ~generation[g].disposed
  BY <1>2 DEF LookupInv, Lookups!NoRuntimeLost, Lookups!OneServes
<1> QED BY <1>1, <1>2, <1>3, <1>4, <1>5, LookupParts

\* A runtime is disposed.
LEMMA Disposed ==
  ASSUME NEW g \in Gen, generation \in Gens, generation' = [generation EXCEPT ![g].disposed = TRUE]
  PROVE  /\ generation' \in Gens /\ generation'[g].disposed
         /\ \A h \in Gen : /\ h # g => generation'[h] = generation[h]
                           /\ generation'[h].created = generation[h].created
                           /\ generation'[h].accepting = generation[h].accepting
                           /\ generation'[h].limit = generation[h].limit
<1> DEFINE n == [generation[g] EXCEPT !.disposed = TRUE]
<1>1. generation[g] \in [created : BOOLEAN, accepting : BOOLEAN, limit : 0 .. MaxInflight, disposed : BOOLEAN]
  BY DEF Gens
<1>2. /\ n \in [created : BOOLEAN, accepting : BOOLEAN, limit : 0 .. MaxInflight, disposed : BOOLEAN]
      /\ n.disposed /\ n.created = generation[g].created /\ n.accepting = generation[g].accepting
      /\ n.limit = generation[g].limit
  BY <1>1
<1>3. generation' = [generation EXCEPT ![g] = n] BY DEF Gens
<1> HIDE DEF n
<1> QED BY <1>2, <1>3 DEF Gens

\* A generation starts or stops to serve lookups.
LEMMA Serves ==
  ASSUME NEW g \in Gen, NEW b \in BOOLEAN, generation \in Gens, generation' = [generation EXCEPT ![g].accepting = b]
  PROVE  /\ generation' \in Gens /\ generation'[g].accepting = b
         /\ \A h \in Gen : /\ h # g => generation'[h] = generation[h]
                           /\ generation'[h].created = generation[h].created
                           /\ generation'[h].disposed = generation[h].disposed
                           /\ generation'[h].limit = generation[h].limit
<1> DEFINE n == [generation[g] EXCEPT !.accepting = b]
<1>1. generation[g] \in [created : BOOLEAN, accepting : BOOLEAN, limit : 0 .. MaxInflight, disposed : BOOLEAN]
  BY DEF Gens
<1>2. /\ n \in [created : BOOLEAN, accepting : BOOLEAN, limit : 0 .. MaxInflight, disposed : BOOLEAN]
      /\ n.accepting = b /\ n.created = generation[g].created /\ n.disposed = generation[g].disposed
      /\ n.limit = generation[g].limit
  BY <1>1
<1>3. generation' = [generation EXCEPT ![g] = n] BY DEF Gens
<1> HIDE DEF n
<1> QED BY <1>2, <1>3 DEF Gens
\* The record of a call that goes on to st.
Goes(c, st) == [call[c] EXCEPT !.st = st]

LEMMA Moved ==
  ASSUME NEW c \in Call, call \in [Call -> Calls], NEW st,
         st \in {"operating", "discarding", "ended", "threw"}, call' = [call EXCEPT ![c].st = st]
  PROVE  /\ Goes(c, st) \in Calls /\ call' = [call EXCEPT ![c] = Goes(c, st)] /\ call'[c] = Goes(c, st)
         /\ Goes(c, st).st = st /\ Goes(c, st).kind = call[c].kind /\ Goes(c, st).staged = call[c].staged
         /\ Goes(c, st).previous = call[c].previous /\ Goes(c, st).ok = call[c].ok
<1>1. call[c] \in Calls OBVIOUS
<1>2. Goes(c, st) \in Calls /\ Goes(c, st).st = st /\ Goes(c, st).kind = call[c].kind
      /\ Goes(c, st).staged = call[c].staged /\ Goes(c, st).previous = call[c].previous /\ Goes(c, st).ok = call[c].ok
  BY <1>1 DEF Calls, Goes
<1>3. call' = [call EXCEPT ![c] = Goes(c, st)] BY DEF Goes
<1> QED BY <1>2, <1>3

\* A call that has staged nothing and has not disposed the current generation may end.
LEMMA CallEnds ==
  ASSUME Lookups!BoundsAssumption, LookupInv, NEW c \in Call, call[c].st \in Held, call[c].staged = NoGen,
         ~(call[c].st = "settling" /\ call[c].ok), NEW st \in {"ended", "threw"},
         call' = [call EXCEPT ![c].st = st], lifecycle' = NoCall, UNCHANGED <<generation, current, failed, work>>,
         failures' = failures \/ (failures < MaxFailures /\ failures' = failures + 1)
  PROVE  LookupInv'
<1>1. call \in [Call -> Calls] /\ c = lifecycle /\ NoCall \notin Call /\ NoGen \notin Gen /\ generation \in Gens
      /\ current \in Gen \cup {NoGen} /\ failed \in Gen \cup {NoGen}
  BY Holder
<1> DEFINE r == Goes(c, st)
<1>2. r \in Calls /\ call' = [call EXCEPT ![c] = r] /\ call'[c] = r /\ r.st = st
  <2>1. CASE st = "ended" BY <1>1, <2>1, Moved
  <2>2. CASE st = "threw" BY <1>1, <2>2, Moved
  <2> QED BY <2>1, <2>2
<1>3. CallShape(c)' BY <1>1, <1>2 DEF CallShape, Held, Draining
<1>4. CurrentShape' BY Holder DEF CurrentShape
<1>5. FailedShape' BY DEF LookupInv, FailedShape
<1>6. Lookups!NoRuntimeLost' BY <1>1, Holder DEF Lookups!NoRuntimeLost
<1>7. Lookups!OneServes' BY Holder DEF Lookups!OneServes
<1>8. Lookups!InflightBound' BY SameBound
<1> QED BY <1>1, <1>2, <1>3, <1>4, <1>5, <1>6, <1>7, <1>8, CallKeepsInv

LEMMA StageThrowsStep ==
  ASSUME Lookups!BoundsAssumption, LookupInv, NEW c \in Call, Lookups!StageThrows(c)
  PROVE  LookupInv'
<1>1. call[c].st = "operating" BY DEF Lookups!StageThrows
<1>2. call[c].staged = NoGen BY <1>1, Holder DEF CallShape, Held, Draining
<1> QED BY <1>1, <1>2, CallEnds DEF Lookups!StageThrows, Lookups!EndCall, Held

LEMMA RetryStep ==
  ASSUME Lookups!BoundsAssumption, LookupInv, NEW c \in Call, Lookups!RetryFailedStagedCleanup(c)
  PROVE  LookupInv'
<1>1. call[c].st = "retrying" /\ UNCHANGED <<current, work>> BY DEF Lookups!RetryFailedStagedCleanup
<1>2. call[c].st \in Held BY <1>1 DEF Held
<1>3. call[c].staged = NoGen /\ failed \in Gen /\ call[c].kind \in {"replace", "stop"}
  BY <1>1, <1>2, Holder DEF CallShape, Held, Draining
<1>4. CASE UNCHANGED <<generation, failed>> /\ call' = Lookups!EndCall(c, "threw") /\ lifecycle' = NoCall
           /\ failures < MaxFailures /\ failures' = failures + 1
  BY <1>1, <1>2, <1>3, <1>4, CallEnds DEF Lookups!EndCall
<1>5. CASE generation' = [generation EXCEPT ![failed].disposed = TRUE] /\ failed' = NoGen
           /\ call' = [call EXCEPT ![c].st = "operating"] /\ UNCHANGED <<lifecycle, failures>>
  <2>1. call \in [Call -> Calls] /\ c = lifecycle /\ NoGen \notin Gen /\ generation \in Gens
        /\ current \in Gen \cup {NoGen}
    BY <1>2, Holder
  <2> DEFINE r == Goes(c, "operating")
  <2>2. r \in Calls /\ call' = [call EXCEPT ![c] = r] /\ call'[c] = r /\ r.st = "operating"
                           /\ r.kind = call[c].kind /\ r.staged = call[c].staged
    BY <1>2, <1>5, <2>1, Moved DEF Held
  <2>3. /\ generation' \in Gens /\ generation'[failed].disposed
        /\ \A h \in Gen : /\ h # failed => generation'[h] = generation[h]
                          /\ generation'[h].created = generation[h].created
                          /\ generation'[h].accepting = generation[h].accepting
                          /\ generation'[h].limit = generation[h].limit
    BY <1>3, <1>5, <2>1, Disposed
  <2>4. failed # current /\ ~generation[failed].accepting BY <1>3, <2>1 DEF LookupInv, FailedShape
  <2>5. CallShape(c)' BY <1>3, <1>5, <2>1, <2>2 DEF CallShape, Held, Draining
  <2>6. CurrentShape' BY <1>1, <1>2, <2>1, <2>3, <2>4, Holder DEF CurrentShape
  <2>7. FailedShape' BY <1>5 DEF FailedShape
  <2>8. Lookups!NoRuntimeLost' BY <1>1, <1>2, <1>3, <2>1, <2>3, Holder DEF Lookups!NoRuntimeLost
  <2>9. Lookups!OneServes' BY <1>1, <1>2, <2>3, <2>4, Holder DEF Lookups!OneServes
  <2>10. Lookups!InflightBound' BY <1>1, <2>1, <2>3, SameBound
  <2> QED BY <1>1, <1>5, <2>1, <2>2, <2>3, <2>5, <2>6, <2>7, <2>8, <2>9, <2>10, CallKeepsInv
<1> QED BY <1>4, <1>5 DEF Lookups!RetryFailedStagedCleanup

LEMMA ReplaceStep ==
  ASSUME Lookups!BoundsAssumption, LookupInv, NEW c \in Call, NEW g \in Gen, NEW limit \in 1 .. MaxInflight,
         ~generation[g].created, Lookups!ReplaceGeneration(c, g, limit)
  PROVE  LookupInv'
<1>1. call[c].st = "operating" /\ call[c].kind = "replace" /\ UNCHANGED <<failed, work, failures>>
  BY DEF Lookups!ReplaceGeneration
<1>2. call[c].st \in Held BY <1>1 DEF Held
<1>3. call[c].staged = NoGen /\ failed = NoGen BY <1>1, <1>2, Holder DEF CallShape, Held, Draining
<1>4. /\ call \in [Call -> Calls] /\ c = lifecycle /\ NoGen \notin Gen /\ NoCall \notin Call /\ generation \in Gens
      /\ current \in Gen \cup {NoGen} /\ MaxInflight \in Nat
  BY <1>2, Holder, LookupParts
<1>5. CASE current = NoGen
  <2> DEFINE r == Goes(c, "ended")
  <2>1. r \in Calls /\ call' = [call EXCEPT ![c] = r] /\ r.st = "ended"
    BY <1>4, <1>5, Moved DEF Lookups!ReplaceGeneration, Lookups!EndCall
  <2> QED BY <1>1, <1>3, <1>4, <1>5, <2>1, TakeOver DEF Lookups!ReplaceGeneration
<1>6. CASE current # NoGen
  <2> DEFINE n == [Lookups!NewGen EXCEPT !.created = TRUE, !.limit = limit]
             r == [call[c] EXCEPT !.st = "draining", !.staged = g]
  <2>1. generation' = [generation EXCEPT ![g] = n] /\ UNCHANGED <<current, lifecycle>>
    BY <1>6 DEF Lookups!ReplaceGeneration, Lookups!Stage
  <2>2. /\ n \in [created : BOOLEAN, accepting : BOOLEAN, limit : 0 .. MaxInflight, disposed : BOOLEAN]
        /\ n.created /\ ~n.accepting /\ ~n.disposed
    <3>1. Lookups!NewGen \in [created : BOOLEAN, accepting : BOOLEAN, limit : 0 .. MaxInflight, disposed : BOOLEAN]
          /\ ~Lookups!NewGen.accepting /\ ~Lookups!NewGen.disposed
      BY <1>4 DEF Lookups!NewGen
    <3>2. limit \in 0 .. MaxInflight BY <1>4
    <3> QED BY <3>1, <3>2
  <2>3. call' = [call EXCEPT ![c] = r] /\ call[c] \in Calls BY <1>4, <1>6 DEF Lookups!ReplaceGeneration
  <2>4. r \in Calls /\ r.st = "draining" /\ r.staged = g /\ r.kind = "replace" BY <1>1, <2>3 DEF Calls
  <2> HIDE DEF n, r
  <2>5. generation' \in Gens /\ generation'[g] = n /\ \A h \in Gen : h # g => generation'[h] = generation[h]
    BY <1>4, <2>1, <2>2 DEF Gens
  <2>6. call'[c] = r BY <1>4, <2>3
  <2>7. g # current /\ current \in Gen BY <1>2, <1>4, <1>6, Holder
  <2>8. CallShape(c)'
    BY <1>1, <1>3, <1>4, <1>6, <2>1, <2>2, <2>4, <2>5, <2>6, <2>7 DEF CallShape, Held, Draining, Staged
  <2>9. CurrentShape' BY <1>1, <1>2, <2>1, <2>5, <2>7, Holder DEF CurrentShape
  <2>10. FailedShape' BY <1>1, <1>3 DEF FailedShape
  <2>11. Lookups!NoRuntimeLost'
    <3>1. \A h \in Gen : h # g => (generation'[h].created /\ ~generation'[h].disposed => h = current)
      BY <1>2, <1>3, <1>4, <2>5, Holder
    <3>2. call'[lifecycle'].staged = g /\ lifecycle' # NoCall BY <1>4, <2>1, <2>4, <2>6
    <3> QED BY <2>1, <3>1, <3>2 DEF Lookups!NoRuntimeLost
  <2>12. Lookups!OneServes' BY <1>2, <2>1, <2>2, <2>5, Holder DEF Lookups!OneServes
  <2>13. Lookups!InflightBound' BY <1>1, <2>1, <2>5, <2>7, SameBound
  <2> QED BY <1>1, <1>4, <2>1, <2>3, <2>4, <2>5, <2>8, <2>9, <2>10, <2>11, <2>12, <2>13, CallKeepsInv, LookupParts
<1> QED BY <1>5, <1>6

\* What invalidation changes of the generation, its lookups and the call.
LEMMA Drains ==
  ASSUME NEW c \in Call, NEW g, Lookups!Drain(c, g)
  PROVE  /\ generation' = [generation EXCEPT ![g].accepting = FALSE]
         /\ call' = [call EXCEPT ![c].st = "disposing", ![c].previous = g]
         /\ work' = [w \in Work |-> work'[w]]
         /\ \A w \in Work : work'[w] = IF work[w].gen = g /\ work[w].caller = "waiting"
                                    THEN [work[w] EXCEPT !.caller = "settled", !.aborted = TRUE] ELSE work[w]
BY Zenon DEF Lookups!Drain

\* The current generation is invalidated: its lookups are cancelled, none is forgotten.
LEMMA DrainStep ==
  ASSUME Lookups!BoundsAssumption, LookupInv, NEW c \in Call, current # NoGen,
         call[c].st = "draining" \/ (call[c].st = "operating" /\ call[c].kind = "stop"),
         Lookups!Drain(c, current), UNCHANGED <<current, failed, lifecycle, failures>>
  PROVE  LookupInv'
<1>1. call[c].st \in Held BY DEF Held
<1>2. /\ call \in [Call -> Calls] /\ call[c] \in Calls /\ c = lifecycle /\ NoGen \notin Gen /\ generation \in Gens
      /\ current \in Gen /\ failed \in Gen \cup {NoGen} /\ CallShape(c) /\ work \in [Work -> Works] /\ lifecycle # NoCall
  BY <1>1, Holder, LookupParts
<1> DEFINE r == [call[c] EXCEPT !.st = "disposing", !.previous = current]
<1>3. call' = [call EXCEPT ![c] = r]
  <2>1. call' = [call EXCEPT ![c].st = "disposing", ![c].previous = current] BY Drains
  <2> QED BY <1>2, <2>1
<1>4. r \in Calls /\ r.st = "disposing" /\ r.kind = call[c].kind /\ r.staged = call[c].staged /\ r.previous = current
  BY <1>2 DEF Calls
<1> HIDE DEF r
<1>5. call'[c] = r BY <1>2, <1>3
<1>6. /\ generation' \in Gens /\ ~generation'[current].accepting
      /\ \A h \in Gen : /\ h # current => generation'[h] = generation[h]
                        /\ generation'[h].created = generation[h].created
                        /\ generation'[h].disposed = generation[h].disposed
                        /\ generation'[h].limit = generation[h].limit
  BY <1>2, Drains, Serves
<1>7. /\ work' \in [Work -> Works]
      /\ \A w \in Work : /\ work'[w].gen = work[w].gen /\ work'[w].op = work[w].op
                         /\ ~work'[w].aborted => ~work[w].aborted /\ work'[w].caller = work[w].caller
  <2> DEFINE q(w) == IF work[w].gen = current /\ work[w].caller = "waiting"
                     THEN [work[w] EXCEPT !.caller = "settled", !.aborted = TRUE] ELSE work[w]
  <2>1. work' = [w \in Work |-> work'[w]] /\ \A w \in Work : work'[w] = q(w) BY Drains
  <2>2. ASSUME NEW w \in Work
        PROVE  /\ q(w) \in Works /\ q(w).gen = work[w].gen /\ q(w).op = work[w].op
               /\ ~q(w).aborted => ~work[w].aborted /\ q(w).caller = work[w].caller
    <3>1. work[w] \in Works BY <1>2
    <3> QED BY <3>1 DEF Works
  <2> HIDE DEF q
  <2> QED BY <2>1, <2>2
<1>8. ASSUME NEW w \in Work PROVE WorkShape(w)'
  <2>1. WorkShape(w) BY DEF LookupInv
  <2> QED BY <1>7, <2>1 DEF WorkShape, Unsettled
<1>9. CallShape(c)'
  <2>1. call[c].kind \in {"replace", "stop"} /\ failed = NoGen BY <1>1, <1>2 DEF CallShape, Held, Draining
  <2>2. call[c].st = "draining" => call[c].kind = "replace" /\ Staged(call[c].staged) BY <1>2 DEF CallShape
  <2>3. call[c].st = "operating" => call[c].staged = NoGen BY <1>2 DEF CallShape, Held, Draining
  <2>4. Staged(call[c].staged) => Staged(call[c].staged)' BY <1>4, <1>5, <1>6 DEF Staged
  <2> QED BY <1>2, <1>4, <1>5, <1>6, <2>1, <2>2, <2>3, <2>4 DEF CallShape, Held, Draining
<1>10. CurrentShape' BY <1>1, <1>2, <1>6, Holder DEF CurrentShape
<1>11. FailedShape' BY <1>2, <1>6 DEF LookupInv, FailedShape
<1>12. Lookups!NoRuntimeLost' BY <1>1, <1>2, <1>4, <1>5, <1>6, Holder DEF Lookups!NoRuntimeLost
<1>13. Lookups!OneServes' BY <1>1, <1>2, <1>6, Holder DEF Lookups!OneServes
<1>14. Lookups!InflightBound'
  <2>1. Unsettled' = Unsettled /\ \A w \in Unsettled' : work'[w].gen = work[w].gen BY <1>7 DEF Unsettled
  <2>2. generation'[current].limit = generation[current].limit /\ generation[current].limit \in Nat
    BY <1>2, <1>6, LookupParts
  <2>3. Lookups!InflightBound BY DEF LookupInv
  <2> QED BY <2>1, <2>2, <2>3, FewerUnsettled
<1> QED BY <1>2, <1>3, <1>4, <1>6, <1>7, <1>8, <1>9, <1>10, <1>11, <1>12, <1>13, <1>14, HoldKeepsInv

LEMMA ReplaceDrainsStep ==
  ASSUME Lookups!BoundsAssumption, LookupInv, NEW c \in Call, Lookups!ReplaceDrains(c)
  PROVE  LookupInv'
<1>1. call[c].st = "draining" BY DEF Lookups!ReplaceDrains
<1>2. current # NoGen BY <1>1, Holder DEF CallShape, Held
<1> QED BY <1>1, <1>2, DrainStep DEF Lookups!ReplaceDrains

LEMMA StopCurrentStep ==
  ASSUME Lookups!BoundsAssumption, LookupInv, NEW c \in Call, Lookups!StopCurrent(c)
  PROVE  LookupInv'
<1>1. call[c].st = "operating" /\ call[c].kind = "stop" BY DEF Lookups!StopCurrent
<1>2. CASE current = NoGen
  <2>1. call[c].staged = NoGen BY <1>1, Holder DEF CallShape, Held, Draining
  <2> QED BY <1>1, <1>2, <2>1, CallEnds DEF Lookups!StopCurrent, Lookups!EndCall, Held
<1>3. CASE current # NoGen BY <1>1, <1>3, DrainStep DEF Lookups!StopCurrent
<1> QED BY <1>2, <1>3
\* The disposer of the drained generation returns or throws.
LEMMA DisposeStep == ASSUME Lookups!BoundsAssumption, LookupInv, NEW c \in Call, Lookups!Dispose(c) PROVE LookupInv'
<1>1. call[c].st = "disposing" /\ UNCHANGED <<current, failed, lifecycle, work>> BY DEF Lookups!Dispose
<1>2. call[c].st \in Held BY <1>1 DEF Held
<1>3. /\ call \in [Call -> Calls] /\ call[c] \in Calls /\ c = lifecycle /\ NoGen \notin Gen /\ generation \in Gens
      /\ current \in Gen \cup {NoGen} /\ failed \in Gen \cup {NoGen} /\ CallShape(c) /\ lifecycle # NoCall
  BY <1>2, Holder
<1>4. call[c].previous = current /\ current \in Gen /\ ~generation[current].accepting /\ failed = NoGen
      /\ call[c].kind \in {"replace", "stop"}
  BY <1>1, <1>3 DEF CallShape, Held, Draining
<1>5. PICK ok \in BOOLEAN :
        /\ call' = [call EXCEPT ![c].st = "settling", ![c].ok = ok]
        /\ IF ok THEN generation' = [generation EXCEPT ![current].disposed = TRUE] /\ UNCHANGED failures
           ELSE UNCHANGED generation /\ failures < MaxFailures /\ failures' = failures + 1
  BY <1>4 DEF Lookups!Dispose
<1> DEFINE r == [call[c] EXCEPT !.st = "settling", !.ok = ok]
<1>6. r \in Calls /\ r.st = "settling" /\ r.ok = ok /\ r.kind = call[c].kind /\ r.staged = call[c].staged
      /\ r.previous = current
  BY <1>3, <1>4 DEF Calls
<1>7. call' = [call EXCEPT ![c] = r] BY <1>3, <1>5
<1> HIDE DEF r
<1>8. call'[c] = r BY <1>3, <1>7
<1>9. /\ generation' \in Gens /\ generation'[current].disposed = (generation[current].disposed \/ ok)
      /\ \A h \in Gen : /\ h # current => generation'[h] = generation[h]
                        /\ generation'[h].created = generation[h].created
                        /\ generation'[h].accepting = generation[h].accepting
                        /\ generation'[h].limit = generation[h].limit
  <2>1. CASE ok
    <3>1. generation'[current].disposed = TRUE /\ generation[current].disposed \in BOOLEAN
      BY <1>3, <1>4, <1>5, <2>1 DEF Gens
    <3> QED BY <1>3, <1>4, <1>5, <2>1, <3>1, Disposed
  <2>2. CASE ~ok
    <3>1. generation[current].disposed \in BOOLEAN BY <1>3, <1>4 DEF Gens
    <3> QED BY <1>3, <1>5, <2>2, <3>1
  <2> QED BY <2>1, <2>2
<1>10. ~generation[current].disposed BY <1>1, <1>2, <1>4, Holder
<1>11. CallShape(c)'
  <2>1. IF call[c].kind = "replace" THEN Staged(call[c].staged) ELSE call[c].staged = NoGen
    BY <1>1, <1>3 DEF CallShape, Held, Draining
  <2>2. Staged(call[c].staged) => Staged(call[c].staged)' BY <1>1, <1>6, <1>8, <1>9 DEF Staged
  <2> QED BY <1>1, <1>3, <1>4, <1>6, <1>8, <1>9, <2>1, <2>2 DEF CallShape, Held, Draining
<1>12. CurrentShape' BY <1>1, <1>2, <1>3, <1>4, <1>6, <1>8, <1>9, <1>10, Holder DEF CurrentShape
<1>13. FailedShape' BY <1>1, <1>4 DEF FailedShape
<1>14. Lookups!NoRuntimeLost' BY <1>1, <1>2, <1>3, <1>6, <1>8, <1>9, Holder DEF Lookups!NoRuntimeLost
<1>15. Lookups!OneServes' BY <1>1, <1>2, <1>4, <1>9, Holder DEF Lookups!OneServes
<1>16. Lookups!InflightBound' BY <1>1, <1>4, <1>9, SameBound
<1> QED BY <1>1, <1>3, <1>5, <1>6, <1>7, <1>9, <1>11, <1>12, <1>13, <1>14, <1>15, <1>16, CallKeepsInv

\* All lookups of the drained generation settled: nothing is in flight any more.
LEMMA AllDrained ==
  ASSUME Lookups!BoundsAssumption, LookupInv, Lookups!Active(current) = {}
  PROVE  Unsettled = {}
<1>1. \A w \in Unsettled : work[w].gen = current BY DEF LookupInv, Lookups!InflightBound, Unsettled
<1>2. Unsettled \subseteq Lookups!Active(current) BY <1>1 DEF Unsettled, Lookups!Active
<1> QED BY <1>2

LEMMA DrainedStep == ASSUME Lookups!BoundsAssumption, LookupInv, NEW c \in Call, Lookups!Drained(c) PROVE LookupInv'
<1>1. call[c].st = "settling" /\ UNCHANGED <<failed, work, failures>> BY DEF Lookups!Drained
<1>2. call[c].st \in Held BY <1>1 DEF Held
<1>3. /\ call \in [Call -> Calls] /\ call[c] \in Calls /\ c = lifecycle /\ NoGen \notin Gen /\ generation \in Gens
      /\ current \in Gen \cup {NoGen} /\ failed \in Gen \cup {NoGen} /\ CallShape(c) /\ lifecycle # NoCall
  BY <1>2, Holder
<1>4. call[c].previous = current /\ current \in Gen /\ ~generation[current].accepting /\ failed = NoGen
      /\ (call[c].ok => generation[current].disposed)
  BY <1>1, <1>3 DEF CallShape, Held, Draining
<1>5. Unsettled' = {} BY <1>1, <1>4, AllDrained DEF Lookups!Drained, Lookups!AllSettled, Unsettled
<1>6. Lookups!InflightBound' BY <1>5, NoneUnsettled
<1>7. IF call[c].kind = "replace" THEN Staged(call[c].staged) ELSE call[c].staged = NoGen
  BY <1>1, <1>3 DEF CallShape, Held, Draining
<1>8. CASE call[c].ok /\ call[c].kind = "stop"
  <2>1. current' = NoGen /\ call' = [call EXCEPT ![c].st = "ended"] /\ lifecycle' = NoCall /\ UNCHANGED generation
    BY <1>8 DEF Lookups!Drained, Lookups!EndCall
  <2> DEFINE r == Goes(c, "ended")
  <2>2. r \in Calls /\ call' = [call EXCEPT ![c] = r] /\ call'[c] = r /\ r.st = "ended" BY <1>3, <2>1, Moved
  <2>3. CallShape(c)' BY <1>1, <1>3, <2>1, <2>2 DEF CallShape, Held, Draining
  <2>4. CurrentShape' /\ FailedShape' BY <1>1, <1>4, <2>1 DEF CurrentShape, FailedShape
  <2>5. Lookups!NoRuntimeLost' BY <1>2, <1>3, <1>4, <1>7, <1>8, <2>1, Holder DEF Lookups!NoRuntimeLost
  <2>6. Lookups!OneServes' BY <1>2, <1>4, <2>1, Holder DEF Lookups!OneServes
  <2> QED BY <1>1, <1>3, <1>6, <2>1, <2>2, <2>3, <2>4, <2>5, <2>6, CallKeepsInv
<1>9. CASE call[c].ok /\ call[c].kind = "replace"
  <2> DEFINE s == call[c].staged
  <2>1. current' = s /\ generation' = [generation EXCEPT ![s].accepting = TRUE]
        /\ call' = [call EXCEPT ![c].st = "ended"] /\ lifecycle' = NoCall
    BY <1>9 DEF Lookups!Drained, Lookups!EndCall
  <2> DEFINE r == Goes(c, "ended")
  <2>2. r \in Calls /\ call' = [call EXCEPT ![c] = r] /\ call'[c] = r /\ r.st = "ended" BY <1>3, <2>1, Moved
  <2>3. s \in Gen /\ s # current /\ generation[s].created /\ ~generation[s].disposed BY <1>7, <1>9 DEF Staged
  <2> HIDE DEF s
  <2>4. /\ generation' \in Gens
        /\ \A h \in Gen : /\ h # s => generation'[h] = generation[h]
                          /\ generation'[h].created = generation[h].created
                          /\ generation'[h].disposed = generation[h].disposed
    BY <1>3, <2>1, <2>3, Serves
  <2>5. CallShape(c)' BY <1>1, <1>3, <2>1, <2>2 DEF CallShape, Held, Draining
  <2>6. CurrentShape' /\ FailedShape' BY <1>1, <1>4, <2>1, <2>3, <2>4 DEF CurrentShape, FailedShape
  <2>7. Lookups!NoRuntimeLost' BY <1>2, <1>3, <1>4, <1>9, <2>1, <2>4, Holder DEF Lookups!NoRuntimeLost, s
  <2>8. Lookups!OneServes' BY <1>2, <1>4, <2>1, <2>3, <2>4, Holder DEF Lookups!OneServes
  <2> QED BY <1>1, <1>3, <1>6, <2>1, <2>2, <2>3, <2>4, <2>5, <2>6, <2>7, <2>8, CallKeepsInv
<1>10. CASE ~call[c].ok /\ call[c].kind = "stop"
  BY <1>1, <1>2, <1>7, <1>10, CallEnds DEF Lookups!Drained, Lookups!EndCall
<1>11. CASE ~call[c].ok /\ call[c].kind = "replace"
  <2>1. call' = [call EXCEPT ![c].st = "discarding"] /\ UNCHANGED <<generation, current, lifecycle>>
    BY <1>11 DEF Lookups!Drained
  <2> DEFINE r == Goes(c, "discarding")
  <2>2. /\ r \in Calls /\ call' = [call EXCEPT ![c] = r] /\ call'[c] = r /\ r.st = "discarding"
        /\ r.kind = call[c].kind /\ r.staged = call[c].staged /\ r.previous = call[c].previous
    BY <1>3, <2>1, Moved DEF Held
  <2>3. CallShape(c)' BY <1>1, <1>3, <1>4, <1>7, <1>11, <2>1, <2>2 DEF CallShape, Held, Draining, Staged
  <2>4. CurrentShape' /\ FailedShape'
    BY <1>1, <1>2, <1>3, <1>4, <1>11, <2>1, <2>2, Holder DEF CurrentShape, FailedShape
  <2>5. Lookups!NoRuntimeLost' BY <1>1, <1>2, <1>3, <2>1, <2>2, Holder DEF Lookups!NoRuntimeLost
  <2>6. Lookups!OneServes' BY <1>2, <2>1, Holder DEF Lookups!OneServes
  <2> QED BY <1>1, <1>3, <1>6, <2>1, <2>2, <2>3, <2>4, <2>5, <2>6, CallKeepsInv
<1> QED BY <1>8, <1>9, <1>10, <1>11 DEF Lookups!Drained

\* The staged runtime is disposed, or kept under failedStagedCleanup.
LEMMA DiscardStep == ASSUME Lookups!BoundsAssumption, LookupInv, NEW c \in Call, Lookups!DiscardStaged(c) PROVE LookupInv'
<1> DEFINE s == call[c].staged
<1>1. call[c].st = "discarding" /\ UNCHANGED <<current, work>>
      /\ call' = [call EXCEPT ![c].st = "threw"] /\ lifecycle' = NoCall
  BY DEF Lookups!DiscardStaged, Lookups!EndCall
<1>2. call[c].st \in Held BY <1>1 DEF Held
<1>3. /\ call \in [Call -> Calls] /\ call[c] \in Calls /\ c = lifecycle /\ NoGen \notin Gen /\ generation \in Gens
      /\ current \in Gen \cup {NoGen} /\ failed \in Gen \cup {NoGen} /\ CallShape(c) /\ NoCall \notin Call
  BY <1>2, Holder
<1>4. failed = NoGen /\ current # NoGen /\ s \in Gen /\ s # current
      /\ generation[s].created /\ ~generation[s].accepting /\ ~generation[s].disposed
  BY <1>1, <1>3 DEF CallShape, Held, Draining, Staged
<1> DEFINE r == Goes(c, "threw")
<1>5. r \in Calls /\ call' = [call EXCEPT ![c] = r] /\ call'[c] = r /\ r.st = "threw" BY <1>1, <1>3, Moved
<1>6. CallShape(c)' BY <1>1, <1>3, <1>5 DEF CallShape, Held, Draining
<1>7. \A h \in Gen : generation[h].created /\ ~generation[h].disposed => h \in {current, s} BY <1>2, <1>4, Holder
<1> HIDE DEF s
<1>8. CASE generation' = [generation EXCEPT ![s].disposed = TRUE] /\ UNCHANGED <<failed, failures>>
  <2>1. /\ generation' \in Gens /\ generation'[s].disposed
        /\ \A h \in Gen : /\ h # s => generation'[h] = generation[h]
                          /\ generation'[h].created = generation[h].created
                          /\ generation'[h].accepting = generation[h].accepting
                          /\ generation'[h].limit = generation[h].limit
    BY <1>3, <1>4, <1>8, Disposed
  <2>2. CurrentShape' BY <1>1, <1>2, <1>3, <1>4, <2>1, Holder DEF CurrentShape
  <2>3. FailedShape' BY <1>4, <1>8 DEF FailedShape
  <2>4. Lookups!NoRuntimeLost' BY <1>1, <1>7, <2>1 DEF Lookups!NoRuntimeLost
  <2>5. Lookups!OneServes' BY <1>1, <1>2, <1>4, <2>1, Holder DEF Lookups!OneServes
  <2>6. Lookups!InflightBound' BY <1>1, <1>3, <2>1, SameBound
  <2> QED BY <1>1, <1>3, <1>5, <1>6, <1>8, <2>1, <2>2, <2>3, <2>4, <2>5, <2>6, CallKeepsInv
<1>9. CASE failed' = s /\ UNCHANGED generation /\ failures < MaxFailures /\ failures' = failures + 1
  <2>1. CurrentShape' BY <1>1, <1>2, <1>3, <1>9, Holder DEF CurrentShape
  <2>2. FailedShape' BY <1>1, <1>4, <1>9 DEF FailedShape
  <2>3. Lookups!NoRuntimeLost' BY <1>1, <1>7, <1>9 DEF Lookups!NoRuntimeLost
  <2>4. Lookups!OneServes' BY <1>1, <1>2, <1>9, Holder DEF Lookups!OneServes
  <2>5. Lookups!InflightBound' BY <1>1, <1>9, SameBound
  <2> QED BY <1>1, <1>3, <1>4, <1>5, <1>6, <1>9, <2>1, <2>2, <2>3, <2>4, <2>5, CallKeepsInv
<1> QED BY <1>8, <1>9 DEF Lookups!DiscardStaged, Lookups!FailedStagedCleanup, s

LEMMA LookupsStep == ASSUME Lookups!BoundsAssumption, LookupInv, [Lookups!Next]_(Lookups!vars) PROVE LookupInv'
<1>1. ASSUME NEW limit \in 1 .. (MaxInflight + 1), Lookups!ValidateLimits(limit) PROVE limit \in 1 .. MaxInflight
  BY <1>1 DEF Lookups!ValidateLimits
<1>2. CASE \E c \in Call, g \in Gen, limit \in 1 .. (MaxInflight + 1) :
             ~generation[g].created /\ Lookups!ValidateLimits(limit) /\ Lookups!Start(c, g, limit)
  BY <1>1, <1>2, StartStep
<1>3. CASE \/ \E c \in Call, kind \in {"replace", "stop"} : Lookups!Request(c, kind)
           \/ \E w \in Work, c \in Call : Lookups!RequestFromCallback(w, c)
  BY <1>3, RequestSteps
<1>4. ASSUME NEW c \in Call, Lookups!Lifecycle(c) PROVE LookupInv'
  <2>1. CASE Lookups!Begin(c) BY <2>1, BeginStep
  <2>2. CASE Lookups!RetryFailedStagedCleanup(c) BY <2>2, RetryStep
  <2>3. CASE Lookups!StageThrows(c) BY <2>3, StageThrowsStep
  <2>4. CASE Lookups!ReplaceDrains(c) BY <2>4, ReplaceDrainsStep
  <2>5. CASE Lookups!StopCurrent(c) BY <2>5, StopCurrentStep
  <2>6. CASE Lookups!Dispose(c) BY <2>6, DisposeStep
  <2>7. CASE Lookups!Drained(c) BY <2>7, DrainedStep
  <2>8. CASE Lookups!DiscardStaged(c) BY <2>8, DiscardStep
  <2>9. CASE \E g \in Gen, limit \in 1 .. (MaxInflight + 1) :
               ~generation[g].created /\ Lookups!ValidateLimits(limit) /\ Lookups!ReplaceGeneration(c, g, limit)
    BY <1>1, <2>9, ReplaceStep
  <2> QED BY <1>4, <2>1, <2>2, <2>3, <2>4, <2>5, <2>6, <2>7, <2>8, <2>9 DEF Lookups!Lifecycle

      <1>5. CASE \E w \in Work :
             Lookups!Run(w) \/ Lookups!Apply(w) \/ Lookups!Settle(w) \/ Lookups!Timeout(w) \/ Lookups!Deliver(w)
  BY <1>5, RunStep, LookupSteps
<1>6. CASE UNCHANGED Lookups!vars
  BY <1>6 DEF Lookups!vars, LookupInv, Lookups!TypeOK, CurrentShape, FailedShape, CallShape, Staged, WorkShape,
     Unsettled,
              Lookups!InflightBound, Lookups!NoRuntimeLost, Lookups!OneServes
<1> QED BY <1>2, <1>3, <1>4, <1>5, <1>6 DEF Lookups!Next

LEMMA LookupsInit == ASSUME Lookups!BoundsAssumption, Lookups!Init PROVE LookupInv
<1>1. Lookups!TypeOK
  BY DEF Lookups!Init, Lookups!TypeOK, Lookups!NewGen, Lookups!NewCall, Lookups!NewWork, Lookups!BoundsAssumption
<1>2. CurrentShape /\ FailedShape BY DEF Lookups!Init, CurrentShape, FailedShape
<1>3. \A c \in Call : CallShape(c)
  BY DEF Lookups!Init, CallShape, Lookups!NewCall, Held, Draining, Lookups!BoundsAssumption
<1>4. Unsettled = {} BY DEF Lookups!Init, Lookups!NewWork, Unsettled
<1>5. \A w \in Work : WorkShape(w) BY <1>4 DEF Lookups!Init, WorkShape, Lookups!NewWork
<1>6. Lookups!InflightBound BY <1>4 DEF Lookups!InflightBound, Unsettled
<1>7. Lookups!NoRuntimeLost /\ Lookups!OneServes
  BY DEF Lookups!Init, Lookups!NewGen, Lookups!NoRuntimeLost, Lookups!OneServes
<1> QED BY <1>1, <1>2, <1>3, <1>5, <1>6, <1>7 DEF LookupInv

\* Lookups in flight never exceed the limit of the one generation that serves them, no runtime
\* is lost and none serves after its disposal, whatever factories and disposers throw
\* (BoundedAsyncWork: run, replaceGeneration, stopCurrent, disposeAndDrain, retryFailedStagedCleanup).
THEOREM LookupsAreSafe ==
  ASSUME Lookups!BoundsAssumption
  PROVE  Lookups!Spec => [](Lookups!TypeOK /\ Lookups!InflightBound /\ Lookups!NoRuntimeLost /\ Lookups!OneServes)
<1>1. Lookups!Init => LookupInv BY LookupsInit
<1>2. LookupInv /\ [Lookups!Next]_(Lookups!vars) => LookupInv' BY LookupsStep
<1>3. LookupInv => Lookups!TypeOK /\ Lookups!InflightBound /\ Lookups!NoRuntimeLost /\ Lookups!OneServes
  BY DEF LookupInv
<1> QED BY <1>1, <1>2, <1>3, PTL DEF Lookups!Spec

\* What a step does to one field of the lookups, by the action that does it.
LEMMA LookupEffects ==
  ASSUME Lookups!BoundsAssumption, LookupInv, Lookups!Next, NEW w \in Work
  PROVE  /\ work'[w].applied # work[w].applied => Lookups!Apply(w)
         /\ work'[w].caller = "answered" /\ work[w].caller # "answered" => Lookups!Deliver(w)
<1>1. work \in [Work -> Works] /\ call \in [Call -> Calls] BY LookupParts
<1>2. CASE UNCHANGED work BY <1>2
<1>3. ASSUME NEW c \in Call, NEW g \in Gen, Lookups!Drain(c, g)
      PROVE  work'[w].applied = work[w].applied /\ (work'[w].caller = "answered" => work[w].caller = "answered")
  <2>1. work[w] \in Works BY <1>1
  <2>2. work'[w] = IF work[w].gen = g /\ work[w].caller = "waiting"
                   THEN [work[w] EXCEPT !.caller = "settled", !.aborted = TRUE] ELSE work[w]
    BY <1>3, Drains
  <2> QED BY <2>1, <2>2 DEF Works

      <1>4. CASE \E v \in Work :
             Lookups!Run(v) \/ Lookups!Apply(v) \/ Lookups!Settle(v) \/ Lookups!Timeout(v) \/ Lookups!Deliver(v)

        <2>1. PICK v \in Work :
               Lookups!Run(v) \/ Lookups!Apply(v) \/ Lookups!Settle(v) \/ Lookups!Timeout(v) \/ Lookups!Deliver(v)
    BY <1>4
  <2>2. CASE v # w
    BY <1>1, <2>1, <2>2 DEF Lookups!Run, Lookups!Apply, Lookups!Settle, Lookups!Timeout, Lookups!Deliver
  <2>3. CASE v = w
    <3>1. work[w] \in Works BY <1>1
    <3>2. CASE Lookups!Apply(w)
      <4>1. work'[w] = [work[w] EXCEPT !.op = "applied", !.applied = Lookups!AssertActive(w)]
        BY <1>1, <3>2 DEF Lookups!Apply
      <4> QED BY <3>1, <3>2, <4>1 DEF Works
    <3>3. CASE Lookups!Deliver(w)
      <4>1. work'[w] = [work[w] EXCEPT !.caller = IF Lookups!AssertActive(w) THEN "answered" ELSE "rejected"]
        BY <1>1, <3>3 DEF Lookups!Deliver
      <4> QED BY <3>1, <3>3, <4>1 DEF Works
    <3>4. CASE Lookups!Run(w)
      <4>1. work'[w] = [work[w] EXCEPT !.gen = current, !.op = "running", !.caller = "waiting"]
        BY <1>1, <3>4 DEF Lookups!Run
      <4> QED BY <3>1, <4>1 DEF Works
    <3>5. CASE Lookups!Settle(w)
      <4>1. work'[w] = [work[w] EXCEPT !.op = "done", !.caller = IF @ = "waiting" THEN "settled" ELSE @]
        BY <1>1, <3>5 DEF Lookups!Settle
      <4> QED BY <3>1, <4>1 DEF Works
    <3>6. CASE Lookups!Timeout(w)
      <4>1. work'[w] = [work[w] EXCEPT !.caller = "settled", !.aborted = TRUE] BY <1>1, <3>6 DEF Lookups!Timeout
      <4> QED BY <3>1, <4>1 DEF Works
    <3> QED BY <2>1, <2>3, <3>2, <3>3, <3>4, <3>5, <3>6
  <2> QED BY <2>2, <2>3
<1>5. CASE \E v \in Work, c \in Call : Lookups!RequestFromCallback(v, c)
  <2>1. PICK v \in Work, c \in Call : work' = [work EXCEPT ![v].op = "awaiting", ![v].awaits = c]
    BY <1>5 DEF Lookups!RequestFromCallback
  <2>2. work[w] \in Works BY <1>1
  <2>3. work'[w] = IF v = w THEN [work[w] EXCEPT !.op = "awaiting", !.awaits = c] ELSE work[w] BY <1>1, <2>1
  <2>4. work'[w].applied = work[w].applied /\ work'[w].caller = work[w].caller BY <2>2, <2>3 DEF Works
  <2> QED BY <2>4
<1>6. ASSUME NEW c \in Call, Lookups!Lifecycle(c)
      PROVE  UNCHANGED work \/ \E g \in Gen : Lookups!Drain(c, g)
  <2>1. CASE Lookups!ReplaceDrains(c)
    <3>1. current # NoGen /\ current \in Gen BY <2>1, Holder DEF Lookups!ReplaceDrains, CallShape, Held
    <3> QED BY <2>1, <3>1 DEF Lookups!ReplaceDrains
  <2>2. CASE Lookups!StopCurrent(c)
    <3>1. current = NoGen \/ current \in Gen BY LookupParts
    <3> QED BY <2>2, <3>1 DEF Lookups!StopCurrent
  <2> QED BY <1>6, <2>1, <2>2 DEF Lookups!Lifecycle, Lookups!Begin, Lookups!RetryFailedStagedCleanup,
         Lookups!StageThrows, Lookups!Dispose, Lookups!Drained,
                                  Lookups!DiscardStaged, Lookups!ReplaceGeneration
<1>7. CASE \E c \in Call : Lookups!Lifecycle(c)
  <2>1. UNCHANGED work \/ \E c \in Call, g \in Gen : Lookups!Drain(c, g) BY <1>6, <1>7
  <2>2. CASE \E c \in Call, g \in Gen : Lookups!Drain(c, g) BY <1>3, <2>2
  <2> QED BY <1>2, <2>1, <2>2
<1>8. CASE \/ \E c \in Call, g \in Gen, limit \in 1 .. (MaxInflight + 1) :
                ~generation[g].created /\ Lookups!ValidateLimits(limit) /\ Lookups!Start(c, g, limit)
           \/ \E c \in Call, kind \in {"replace", "stop"} : Lookups!Request(c, kind)
  BY <1>2, <1>8 DEF Lookups!Start, Lookups!Request
<1> QED BY <1>4, <1>5, <1>7, <1>8 DEF Lookups!Next

\* No lookup changes the session after its caller gave it up, and no caller receives the result
\* of a generation that serves no more (BoundedAsyncWork.run: assertActive before the effect and
\* after the race).
THEOREM LookupsAreNeverLate ==
  ASSUME Lookups!BoundsAssumption
  PROVE  Lookups!Spec => [][Lookups!NoLateEffectStep /\ Lookups!NoStaleResultStep]_(Lookups!vars)
<1>1. Lookups!Init => LookupInv BY LookupsInit
<1>2. LookupInv /\ [Lookups!Next]_(Lookups!vars) => LookupInv' BY LookupsStep
<1>3. ASSUME LookupInv, Lookups!Next PROVE Lookups!NoLateEffectStep /\ Lookups!NoStaleResultStep
  <2>1. ASSUME NEW w \in Work, work'[w].applied, ~work[w].applied PROVE work[w].caller = "waiting"
    <3>1. Lookups!Apply(w) BY <1>3, <2>1, LookupEffects
    <3>2. work \in [Work -> Works] /\ work[w] \in Works BY <1>3, LookupParts
    <3>3. work'[w] = [work[w] EXCEPT !.op = "applied", !.applied = Lookups!AssertActive(w)]
      BY <3>1, <3>2 DEF Lookups!Apply
    <3>4. Lookups!AssertActive(w) BY <2>1, <3>2, <3>3 DEF Works
    <3>5. WorkShape(w) BY <1>3 DEF LookupInv
    <3>6. work[w].op = "running" BY <3>1 DEF Lookups!Apply
    <3> QED BY <3>4, <3>5, <3>6 DEF WorkShape, Unsettled, Lookups!AssertActive
  <2>2. ASSUME NEW w \in Work, work'[w].caller = "answered", work[w].caller # "answered"
        PROVE  work[w].gen = current /\ generation[current].accepting
    <3>1. Lookups!Deliver(w) BY <1>3, <2>2, LookupEffects
    <3>2. work \in [Work -> Works] /\ work[w] \in Works BY <1>3, LookupParts
    <3>3. work'[w] = [work[w] EXCEPT !.caller = IF Lookups!AssertActive(w) THEN "answered" ELSE "rejected"]
      BY <3>1, <3>2 DEF Lookups!Deliver
    <3>4. Lookups!AssertActive(w) BY <2>2, <3>2, <3>3 DEF Works
    <3> QED BY <3>4 DEF Lookups!AssertActive, Lookups!AssertGenerationCurrent, Lookups!Accepting
  <2> QED BY <2>1, <2>2 DEF Lookups!NoLateEffectStep, Lookups!NoStaleResultStep
<1> QED BY <1>1, <1>2, <1>3, PTL DEF Lookups!Spec

-----------------------------------------------------------------------------
(***************************************************************************)
(* The worker threads that verify passport credentials and ticket proofs.  *)
(* That there is one thread at most is not inductive: it needs to know     *)
(* where that thread is, in service, in the hands of the one job that      *)
(* terminates it, or left undrained, and which jobs exclude each other.    *)
(***************************************************************************)

CONSTANTS Request, MaxPending, MaxGens
VARIABLES worker, live, timer, undrained, job, jobGen, nextId, crashes, reloaded,
          req, accepting, stopped

Verifier == INSTANCE PassportVerifier WITH gen <- worker, faults <- crashes, reloads <- reloaded

\* Where the one worker thread may be: it serves, a job terminates it, or its termination failed.
OneThread(jobs) ==
  /\ worker # None => live = {worker.id} /\ undrained = None
  /\ \A j \in jobs : job[j] = "own" => live = {jobGen[j]} /\ undrained = None /\ worker = None
  /\ undrained # None => live = {undrained}
  /\ worker = None /\ undrained = None /\ (\A j \in jobs : job[j] # "own") => live = {}

Workers == [id : 1 .. MaxGens, ready : BOOLEAN]
Reqs == [st : {"new", "queued", "inflight", "resolved", "rejected"}, gen : 0 .. MaxGens]

VerifierTypes ==
  /\ worker \in Workers \cup {None}
  /\ live \subseteq 1 .. MaxGens /\ undrained \in live \cup {None}
  /\ req \in [Request -> Reqs]
  /\ accepting \in BOOLEAN /\ stopped \in BOOLEAN /\ timer \in BOOLEAN
  /\ job \in [Verifier!Job -> {"idle", "own", "wait", "retry", "done"}]
  /\ jobGen \in [Verifier!Job -> (1 .. MaxGens) \cup {None}]
  /\ nextId \in Nat \ {0}

\* Which jobs may run at once, and what each closes.
JobShape ==
  /\ job["recovery"] \in {"idle", "own"} /\ job["reload"] # "done"
  /\ worker # None => accepting /\ job["recovery"] = "idle"
  /\ job["reload"] # "idle" => ~accepting
  /\ job["stop"] # "idle" => stopped
  /\ stopped => ~accepting /\ ~timer
  /\ job["stop"] \in {"own", "retry", "done"} => job["reload"] = "idle"
  /\ \A j \in Verifier!Job : job[j] = "retry" => undrained # None
  /\ \A j, k \in Verifier!Job : job[j] \in {"own", "retry"} /\ job[k] \in {"own", "retry"} => j = k
  /\ job["stop"] = "done" => undrained = None /\ job["recovery"] = "idle"

\* The inductive invariant.
VerifierInv == VerifierTypes /\ OneThread(Verifier!Job) /\ JobShape /\ Verifier!PendingIsServed

LEMMA SameCount == ASSUME NEW S PROVE Verifier!Cardinality(S) = Cardinality(S)
BY DEF Verifier!Cardinality, Cardinality

LEMMA VerifierStutters == ASSUME VerifierInv, UNCHANGED Verifier!vars PROVE VerifierInv'
BY DEF Verifier!vars, VerifierInv, VerifierTypes, OneThread, JobShape, Verifier!PendingIsServed, Verifier!Pending

LEMMA RefuseStep ==
  ASSUME Verifier!CapacityAssumption, VerifierInv, NEW q \in Request, Verifier!Refuse(q)
  PROVE  VerifierInv'
<1> USE DEF VerifierInv, VerifierTypes, JobShape, Workers, Verifier!Job, Verifier!Refuse
<1>1. VerifierTypes' BY DEF OneThread, Reqs, Verifier!Pending
<1>2. OneThread(Verifier!Job)' BY DEF OneThread
<1>3. JobShape' BY DEF OneThread
<1>4. Verifier!PendingIsServed' BY DEF Reqs, Verifier!PendingIsServed, Verifier!Pending
<1> QED BY <1>1, <1>2, <1>3, <1>4

LEMMA VerifiedStep ==
  ASSUME Verifier!CapacityAssumption, VerifierInv, NEW q \in Request, Verifier!Verified(q)
  PROVE  VerifierInv'
<1> USE DEF VerifierInv, VerifierTypes, JobShape, Workers, Verifier!Job, Verifier!Verified
<1>1. VerifierTypes' BY DEF OneThread, Reqs, Verifier!Pending
<1>2. OneThread(Verifier!Job)' BY DEF OneThread
<1>3. JobShape' BY DEF OneThread
<1>4. Verifier!PendingIsServed' BY DEF Reqs, Verifier!PendingIsServed, Verifier!Pending
<1> QED BY <1>1, <1>2, <1>3, <1>4

LEMMA WorkerReadyStep ==
  ASSUME Verifier!CapacityAssumption, VerifierInv, Verifier!WorkerReady
  PROVE  VerifierInv'
<1> USE DEF VerifierInv, VerifierTypes, JobShape, Workers, Verifier!Job, Verifier!CapacityAssumption,
           Verifier!WorkerReady
<1>1. VerifierTypes' BY DEF OneThread, Reqs, Verifier!Pending
<1>2. OneThread(Verifier!Job)' BY DEF OneThread
<1>3. JobShape' BY DEF OneThread
<1>4. Verifier!PendingIsServed' BY DEF Reqs, Verifier!PendingIsServed, Verifier!Pending
<1> QED BY <1>1, <1>2, <1>3, <1>4

LEMMA RecoverStep ==
  ASSUME Verifier!CapacityAssumption, VerifierInv, Verifier!RecoverGeneration
  PROVE  VerifierInv'
<1> USE DEF VerifierInv, VerifierTypes, JobShape, Workers, Verifier!Job, Verifier!RecoverGeneration,
      Verifier!RejectGeneration, Verifier!RejectAll
<1>1. VerifierTypes' BY DEF OneThread, Reqs, Verifier!Pending
<1>2. OneThread(Verifier!Job)' BY DEF OneThread
<1>3. JobShape' BY DEF OneThread
<1>4. Verifier!PendingIsServed' BY DEF Reqs, Verifier!PendingIsServed, Verifier!Pending
<1> QED BY <1>1, <1>2, <1>3, <1>4

LEMMA RecoveryEndsStep ==
  ASSUME Verifier!CapacityAssumption, VerifierInv, Verifier!RecoveryEnds
  PROVE  VerifierInv'
<1> USE DEF VerifierInv, VerifierTypes, JobShape, Workers, Verifier!Job, Verifier!CapacityAssumption,
           Verifier!RecoveryEnds, Verifier!Terminated, Verifier!TerminateFails, Verifier!ScheduleRestart
<1>1. VerifierTypes' BY DEF OneThread, Reqs, Verifier!Pending
<1>2. OneThread(Verifier!Job)' BY DEF OneThread
<1>3. JobShape' BY DEF OneThread
<1>4. Verifier!PendingIsServed' BY DEF Reqs, Verifier!PendingIsServed, Verifier!Pending
<1> QED BY <1>1, <1>2, <1>3, <1>4

LEMMA ReloadStep ==
  ASSUME Verifier!CapacityAssumption, VerifierInv, Verifier!Reload
  PROVE  VerifierInv'
<1> USE DEF VerifierInv, VerifierTypes, JobShape, Workers, Verifier!Job, Verifier!Reload, Verifier!Begin,
      Verifier!RejectAll
<1>1. VerifierTypes' BY DEF OneThread, Reqs, Verifier!Pending
<1>2. OneThread(Verifier!Job)' BY DEF OneThread
<1>3. JobShape' BY DEF OneThread
<1>4. Verifier!PendingIsServed' BY DEF Reqs, Verifier!PendingIsServed, Verifier!Pending
<1> QED BY <1>1, <1>2, <1>3, <1>4

LEMMA StopStep ==
  ASSUME Verifier!CapacityAssumption, VerifierInv, Verifier!Stop
  PROVE  VerifierInv'
<1> USE DEF VerifierInv, VerifierTypes, JobShape, Workers, Verifier!Job, Verifier!Stop, Verifier!Begin,
      Verifier!RejectAll
<1>1. VerifierTypes' BY DEF OneThread, Reqs, Verifier!Pending
<1>2. OneThread(Verifier!Job)' BY DEF OneThread
<1>3. JobShape' BY DEF OneThread
<1>4. Verifier!PendingIsServed' BY DEF Reqs, Verifier!PendingIsServed, Verifier!Pending
<1> QED BY <1>1, <1>2, <1>3, <1>4

LEMMA OwnTerminatedStep ==
  ASSUME Verifier!CapacityAssumption, VerifierInv, NEW j \in Verifier!Job, Verifier!OwnTerminated(j)
  PROVE  VerifierInv'
<1> USE DEF VerifierInv, VerifierTypes, JobShape, Workers, Verifier!Job, Verifier!CapacityAssumption,
           Verifier!OwnTerminated, Verifier!Terminated, Verifier!TerminateFails, Verifier!Failed
<1>1. VerifierTypes' BY DEF OneThread, Reqs, Verifier!Pending
<1>2. OneThread(Verifier!Job)' BY DEF OneThread
<1>3. JobShape' BY DEF OneThread
<1>4. Verifier!PendingIsServed' BY DEF Reqs, Verifier!PendingIsServed, Verifier!Pending
<1> QED BY <1>1, <1>2, <1>3, <1>4

LEMMA WaitedStep ==
  ASSUME Verifier!CapacityAssumption, VerifierInv, NEW j \in Verifier!Job, Verifier!Waited(j)
  PROVE  VerifierInv'
<1> USE DEF VerifierInv, VerifierTypes, JobShape, Workers, Verifier!Job, Verifier!Waited,
      Verifier!WaitIsOver, Verifier!AfterWait, Verifier!Finished, Verifier!Accepts
<1>1. VerifierTypes' BY DEF OneThread, Reqs, Verifier!Pending
<1>2. OneThread(Verifier!Job)' BY DEF OneThread
<1>3. JobShape' BY DEF OneThread
<1>4. Verifier!PendingIsServed' BY DEF Reqs, Verifier!PendingIsServed, Verifier!Pending
<1> QED BY <1>1, <1>2, <1>3, <1>4

LEMMA RetriedStep ==
  ASSUME Verifier!CapacityAssumption, VerifierInv, NEW j \in Verifier!Job, Verifier!Retried(j)
  PROVE  VerifierInv'
<1> USE DEF VerifierInv, VerifierTypes, JobShape, Workers, Verifier!Job, Verifier!CapacityAssumption,
           Verifier!Retried, Verifier!Terminated, Verifier!TerminateFails, Verifier!Finished,
             Verifier!Accepts, Verifier!Failed
<1>1. VerifierTypes' BY DEF OneThread, Reqs, Verifier!Pending
<1>2. OneThread(Verifier!Job)' BY DEF OneThread
<1>3. JobShape' BY DEF OneThread
<1>4. Verifier!PendingIsServed' BY DEF Reqs, Verifier!PendingIsServed, Verifier!Pending
<1> QED BY <1>1, <1>2, <1>3, <1>4

\* A worker is started only when no thread is left: the new one is the only one.
LEMMA StartsOne ==
  ASSUME Verifier!CapacityAssumption, VerifierInv, Verifier!MayStart, Verifier!StartGeneration
  PROVE  /\ worker = None /\ undrained = None /\ \A j \in Verifier!Job : job[j] \notin {"own", "retry"}
         /\ accepting /\ ~stopped /\ nextId' \in Nat \ {0} /\ timer' \in BOOLEAN
         /\ \/ worker' = None /\ live' = {}
            \/ worker' \in Workers /\ worker' # None /\ worker'.id \in 1 .. MaxGens /\ live' = {worker'.id}
<1>1. /\ worker = None /\ undrained = None /\ accepting /\ ~stopped /\ nextId \in Nat \ {0}
      /\ \A j \in Verifier!Job : job[j] \notin {"own", "retry"}
  BY DEF Verifier!MayStart, VerifierInv, VerifierTypes, JobShape, Verifier!Job
<1>2. live = {} BY <1>1 DEF VerifierInv, OneThread
<1>3. CASE nextId <= MaxGens /\ worker' = [id |-> nextId, ready |-> FALSE] /\ live' = live \cup {nextId}
           /\ nextId' = nextId + 1 /\ timer' = FALSE
  <2>1. nextId \in 1 .. MaxGens BY <1>1, <1>3 DEF Verifier!CapacityAssumption
  <2>2. worker' \in Workers /\ worker'.id = nextId BY <1>3, <2>1 DEF Workers
  <2>3. worker' # None BY <2>2 DEF Workers, Verifier!CapacityAssumption
  <2>4. live' = {nextId} /\ nextId' \in Nat \ {0} BY <1>1, <1>2, <1>3
  <2> QED BY <1>1, <1>3, <2>1, <2>2, <2>3, <2>4
<1>4. CASE timer' = TRUE /\ UNCHANGED <<worker, live, nextId>> BY <1>1, <1>2, <1>4
<1> QED BY <1>3, <1>4 DEF Verifier!StartGeneration

\* The invariant after a step that may have started a worker.
LEMMA StartKeepsInv ==
  ASSUME Verifier!CapacityAssumption, VerifierInv, Verifier!MayStart, Verifier!StartGeneration,
         UNCHANGED <<accepting, stopped, undrained, job, jobGen>>,
         req' \in [Request -> Reqs], Verifier!PendingIsServed'
  PROVE  VerifierInv'
<1>1. VerifierTypes' BY StartsOne DEF VerifierInv, VerifierTypes
<1>2. OneThread(Verifier!Job)' BY StartsOne DEF OneThread
<1>3. JobShape' BY StartsOne DEF VerifierInv, JobShape, Verifier!Job
<1> QED BY <1>1, <1>2, <1>3 DEF VerifierInv

LEMMA RestartTimerStep ==
  ASSUME Verifier!CapacityAssumption, VerifierInv, Verifier!RestartTimer
  PROVE  VerifierInv'
<1>1. UNCHANGED <<req, accepting, stopped, undrained, job, jobGen>> BY DEF Verifier!RestartTimer
<1>2. CASE Verifier!MayStart
  <2>1. Verifier!StartGeneration BY <1>2 DEF Verifier!RestartTimer
  <2>2. \A q \in Request : ~Verifier!Pending(q)
    BY <1>2, <2>1, StartsOne DEF VerifierInv, Verifier!PendingIsServed
  <2>3. Verifier!PendingIsServed' BY <1>1, <2>2 DEF Verifier!PendingIsServed, Verifier!Pending
  <2> QED BY <1>1, <1>2, <2>1, <2>3, StartKeepsInv DEF VerifierInv, VerifierTypes
<1>3. CASE ~Verifier!MayStart
  <2>1. UNCHANGED <<worker, live, nextId>> /\ timer' = FALSE BY <1>3 DEF Verifier!RestartTimer
  <2> QED BY <1>1, <2>1 DEF VerifierInv, VerifierTypes, OneThread, JobShape, Verifier!PendingIsServed,
        Verifier!Pending
<1> QED BY <1>2, <1>3

LEMMA VerifyCredentialStep ==
  ASSUME Verifier!CapacityAssumption, VerifierInv, NEW q \in Request, Verifier!VerifyCredential(q)
  PROVE  VerifierInv'
<1> DEFINE r == IF worker' = None THEN [st |-> "rejected", gen |-> 0]
                ELSE [st |-> IF worker'.ready THEN "inflight" ELSE "queued", gen |-> worker'.id]
<1>1. /\ req' = [req EXCEPT ![q] = r] /\ ~Verifier!Unavailable
      /\ UNCHANGED <<accepting, stopped, undrained, job, jobGen>>
  BY DEF Verifier!VerifyCredential
<1>2. ASSUME worker' \in Workers \cup {None}
      PROVE  r \in Reqs /\ (r.st \in {"queued", "inflight"} => worker' # None /\ r.gen = worker'.id)
  <2>1. CASE worker' = None BY <2>1 DEF Reqs, Verifier!CapacityAssumption
  <2>2. CASE worker' # None
    <3>1. worker'.id \in 0 .. MaxGens /\ worker'.ready \in BOOLEAN BY <1>2, <2>2 DEF Workers
    <3> QED BY <2>2, <3>1 DEF Reqs
  <2> QED BY <2>1, <2>2
<1> HIDE DEF r
<1>3. ASSUME worker' \in Workers \cup {None}, worker = None \/ UNCHANGED worker
      PROVE  req' \in [Request -> Reqs] /\ Verifier!PendingIsServed'
  <2>1. req \in [Request -> Reqs] BY DEF VerifierInv, VerifierTypes
  <2>2. req' \in [Request -> Reqs] /\ req'[q] = r /\ \A p \in Request \ {q} : req'[p] = req[p]
    BY <1>1, <1>2, <1>3, <2>1
  <2>3. \A p \in Request : Verifier!Pending(p) => UNCHANGED worker /\ worker # None /\ req[p].gen = worker.id
    BY <1>3 DEF VerifierInv, Verifier!PendingIsServed
  <2> QED BY <1>2, <1>3, <2>2, <2>3 DEF Verifier!PendingIsServed, Verifier!Pending
<1>4. CASE worker = None
  <2>1. Verifier!StartGeneration BY <1>4 DEF Verifier!VerifyCredential
  <2>2. Verifier!MayStart BY <1>1, <1>4 DEF Verifier!MayStart, Verifier!Unavailable
  <2>3. worker' \in Workers \cup {None} BY <2>1, <2>2, StartsOne
  <2> QED BY <1>1, <1>3, <1>4, <2>1, <2>2, <2>3, StartKeepsInv
<1>5. CASE worker # None
  <2>1. UNCHANGED <<worker, live, nextId, timer>> BY <1>5 DEF Verifier!VerifyCredential
  <2>2. worker' \in Workers \cup {None} BY <2>1 DEF VerifierInv, VerifierTypes
  <2>3. req' \in [Request -> Reqs] /\ Verifier!PendingIsServed' BY <1>3, <2>1, <2>2
  <2> QED BY <1>1, <2>1, <2>3 DEF VerifierInv, VerifierTypes, OneThread, JobShape
<1> QED BY <1>4, <1>5

LEMMA VerifierInit == ASSUME Verifier!CapacityAssumption, Verifier!Init PROVE VerifierInv
<1> USE DEF Verifier!Init, Verifier!Job
<1>1. VerifierTypes
  <2>1. [st |-> "new", gen |-> 0] \in Reqs BY DEF Reqs, Verifier!CapacityAssumption
  <2>2. req \in [Request -> Reqs] BY <2>1
  <2>3. /\ job \in [Verifier!Job -> {"idle", "own", "wait", "retry", "done"}]
        /\ jobGen \in [Verifier!Job -> (1 .. MaxGens) \cup {None}]
    OBVIOUS
  <2>4. /\ worker \in Workers \cup {None} /\ live \subseteq 1 .. MaxGens /\ undrained \in live \cup {None}
        /\ accepting \in BOOLEAN /\ stopped \in BOOLEAN /\ timer \in BOOLEAN
    OBVIOUS
  <2>5. nextId \in Nat \ {0} OBVIOUS
  <2> HIDE DEF Verifier!Init, Verifier!Job
  <2> QED BY <2>2, <2>3, <2>4, <2>5 DEF VerifierTypes
<1>2. OneThread(Verifier!Job) /\ JobShape BY DEF OneThread, JobShape
<1>3. Verifier!PendingIsServed BY DEF Verifier!PendingIsServed, Verifier!Pending
<1> QED BY <1>1, <1>2, <1>3 DEF VerifierInv

LEMMA VerifierStep ==
  ASSUME Verifier!CapacityAssumption, VerifierInv, [Verifier!Next]_(Verifier!vars)
  PROVE  VerifierInv'
<1>1. CASE \E q \in Request : Verifier!Refuse(q) \/ Verifier!VerifyCredential(q) \/ Verifier!Verified(q)
  BY <1>1, RefuseStep, VerifyCredentialStep, VerifiedStep
<1>2. CASE Verifier!WorkerFails \/ Verifier!Timeout
  BY <1>2, RecoverStep DEF Verifier!WorkerFails, Verifier!Timeout
<1>3. CASE \E j \in Verifier!Job : Verifier!OwnTerminated(j) \/ Verifier!Waited(j) \/ Verifier!Retried(j)
  BY <1>3, OwnTerminatedStep, WaitedStep, RetriedStep
<1>4. CASE UNCHANGED Verifier!vars BY <1>4, VerifierStutters
<1> QED BY <1>1, <1>2, <1>3, <1>4, WorkerReadyStep, RecoveryEndsStep, RestartTimerStep, ReloadStep, StopStep
        DEF Verifier!Next

\* The thread that verifies passport credentials is never doubled, no pending verification is left to a
\* worker that is gone, and a stop that succeeded leaves none behind, whatever terminations fail and
\* however often they are repeated (PassportDIDKitVerifier: startGeneration, recoverGeneration,
\* reload, stop, retryUndrainedGeneration).
THEOREM OneVerifier ==
  ASSUME Verifier!CapacityAssumption
  PROVE  Verifier!Spec => [](Verifier!TypeOK /\ Verifier!OneWorker /\ Verifier!PendingIsServed
                            /\ Verifier!StoppedIsDrained)
<1>1. Verifier!Init => VerifierInv BY VerifierInit
<1>2. VerifierInv /\ [Verifier!Next]_(Verifier!vars) => VerifierInv' BY VerifierStep
<1>3. VerifierInv => Verifier!TypeOK /\ Verifier!OneWorker /\ Verifier!PendingIsServed
                         /\ Verifier!StoppedIsDrained
  <2> SUFFICES ASSUME VerifierInv
               PROVE  /\ Verifier!TypeOK /\ Verifier!OneWorker
                      /\ Verifier!PendingIsServed /\ Verifier!StoppedIsDrained
    OBVIOUS
  <2>1. Verifier!TypeOK BY DEF VerifierInv, VerifierTypes, Workers, Verifier!TypeOK
  <2>2. Verifier!OneWorker
    <3>1. live = {} \/ \E w : live = {w} BY DEF VerifierInv, OneThread
    <3>2. CASE live = {} BY <3>2, FS_EmptySet, SameCount DEF Verifier!OneWorker
    <3>3. ASSUME NEW w, live = {w} PROVE Verifier!OneWorker
      <4>1. Cardinality({w}) = 1 BY FS_Singleton
      <4> QED BY <3>3, <4>1, SameCount DEF Verifier!OneWorker
    <3> QED BY <3>1, <3>2, <3>3
  <2>3. Verifier!StoppedIsDrained
    BY DEF VerifierInv, JobShape, OneThread, Verifier!Job, Verifier!StoppedIsDrained
  <2> QED BY <2>1, <2>2, <2>3 DEF VerifierInv
<1> QED BY <1>1, <1>2, <1>3, PTL DEF Verifier!Spec

\* The worker that checks ticket proofs has the same jobs, and a queue besides.
VARIABLES place, proofs, caller, disposed

Prover == INSTANCE ZupassVerifier WITH
  gen <- worker, admission <- place, queue <- proofs, state <- caller, faults <- crashes, reloads <- reloaded

Provers == [id : 1 .. MaxGens, ready : BOOLEAN, active : Request \cup {None}]
Entries == [q : Request, gen : 1 .. MaxGens, inflight : BOOLEAN]

ProverTypes ==
  /\ worker \in Provers \cup {None}
  /\ live \subseteq 1 .. MaxGens /\ undrained \in live \cup {None}
  /\ place \in [Request -> 0 .. MaxGens] /\ proofs \in Seq(Entries)
  /\ caller \in [Request -> {"new", "admitted", "waiting", "resolved", "rejected"}]
  /\ timer \in BOOLEAN /\ disposed \in BOOLEAN
  /\ job \in [Prover!Job -> {"idle", "own", "wait", "retry", "done"}]
  /\ jobGen \in [Prover!Job -> (1 .. MaxGens) \cup {None}]
  /\ nextId \in Nat \ {0}

\* Which jobs may run at once, and what each closes.
ProverJobs ==
  /\ job["recovery"] \in {"idle", "own"} /\ job["reload"] # "done"
  /\ worker # None => ~disposed /\ job["recovery"] = "idle" /\ job["reload"] = "idle"
  /\ job["dispose"] # "idle" => disposed
  /\ disposed => ~timer
  /\ job["dispose"] \in {"own", "retry", "done"} => job["reload"] = "idle"
  /\ \A j \in Prover!Job : job[j] = "retry" => undrained # None
  /\ \A j, k \in Prover!Job : job[j] \in {"own", "retry"} /\ job[k] \in {"own", "retry"} => j = k
  /\ job["dispose"] = "done" => undrained = None /\ job["recovery"] = "idle"

\* The queue s of a worker g: each caller once, and only the active proof is in flight.
QueueOf(g, s) ==
  /\ \A i \in DOMAIN s : s[i].gen = g.id /\ (s[i].inflight <=> g.active = s[i].q)
  /\ \A i, k \in DOMAIN s : s[i].q = s[k].q => i = k
  /\ g.active # None => g.ready /\ \E i \in DOMAIN s : s[i].q = g.active
\* The callers c that wait are those in the queue s.
WaitingIn(c, s) == \A q \in Request : c[q] = "waiting" <=> \E i \in DOMAIN s : s[i].q = q

ProofQueue ==
  /\ IF worker = None THEN proofs = <<>> ELSE QueueOf(worker, proofs)
  /\ WaitingIn(caller, proofs)

\* The inductive invariant.
ProverInv ==
  ProverTypes /\ OneThread(Prover!Job) /\ ProverJobs /\ ProofQueue /\ Prover!PlacesAreBounded

LEMMA SameCardinalities ==
  ASSUME NEW S PROVE Prover!Cardinality(S) = Cardinality(S) /\ (Prover!IsFiniteSet(S) <=> IsFiniteSet(S))
<1>1. Prover!Cardinality(S) = Cardinality(S) BY DEF Prover!Cardinality, Cardinality
<1>2. Prover!IsFiniteSet(S) <=> IsFiniteSet(S) BY DEF Prover!IsFiniteSet, IsFiniteSet
<1> QED BY <1>1, <1>2

\* The places that are held, and their bound in the library's terms.
HeldPlaces(p) == {q \in Request : p[q] # 0}
LEMMA PlacesMean ==
  Prover!PlacesAreBounded <=>
    /\ Len(proofs) + Cardinality(HeldPlaces(place)) <= MaxPending
    /\ \A q \in Request : place[q] # 0 => IF worker = None THEN FALSE ELSE place[q] = worker.id
<1>1. Prover!Admitted = HeldPlaces(place) BY DEF Prover!Admitted, HeldPlaces
<1> QED BY <1>1, SameCardinalities DEF Prover!PlacesAreBounded, HeldPlaces

LEMMA PlacesMeanNext ==
  Prover!PlacesAreBounded' <=>
    /\ Len(proofs') + Cardinality(HeldPlaces(place')) <= MaxPending
    /\ \A q \in Request : place'[q] # 0 => IF worker' = None THEN FALSE ELSE place'[q] = worker'.id
<1>1. Prover!Admitted' = HeldPlaces(place') BY DEF Prover!Admitted, HeldPlaces
<1>2. Prover!Cardinality(Prover!Admitted)' = Cardinality(HeldPlaces(place')) BY <1>1, SameCardinalities
<1> QED BY <1>1, <1>2 DEF Prover!PlacesAreBounded, HeldPlaces

LEMMA HeldFinite ==
  ASSUME Prover!CapacityAssumption, NEW p
  PROVE  IsFiniteSet(HeldPlaces(p)) /\ Cardinality(HeldPlaces(p)) \in Nat
<1>1. IsFiniteSet(Request) BY SameCardinalities DEF Prover!CapacityAssumption
<1> QED BY <1>1, FS_Subset, FS_CardinalityType DEF HeldPlaces

\* The invariant, part by part.
LEMMA ProverParts ==
  ASSUME ProverTypes', OneThread(Prover!Job)', ProverJobs', ProofQueue', Prover!PlacesAreBounded'
  PROVE  ProverInv'
BY DEF ProverInv

\* A step of the thread leaves the requests as they are; a new worker finds none.
LEMMA RequestsKept ==
  ASSUME Prover!CapacityAssumption, ProverInv, UNCHANGED <<place, proofs, caller>>,
         UNCHANGED worker \/ (worker = None /\ worker' # None /\ worker'.active = None)
  PROVE  ProofQueue' /\ Prover!PlacesAreBounded'
<1>1. CASE UNCHANGED worker
  BY <1>1 DEF ProverInv, ProofQueue, Prover!PlacesAreBounded, Prover!Admitted
<1>2. CASE worker = None /\ worker' # None /\ worker'.active = None
  <2>1. proofs' = <<>> /\ WaitingIn(caller, proofs)' BY <1>2 DEF ProverInv, ProofQueue
  <2>2. ProofQueue' BY <1>2, <2>1 DEF ProofQueue, QueueOf
  <2>3. /\ Len(proofs) + Cardinality(HeldPlaces(place)) <= MaxPending
        /\ \A q \in Request : place[q] # 0 => FALSE
    BY <1>2, PlacesMean DEF ProverInv
  <2>4. Prover!PlacesAreBounded'
    <3>1. Len(proofs') + Cardinality(HeldPlaces(place')) <= MaxPending BY <2>3
    <3>2. \A q \in Request : place'[q] # 0 => IF worker' = None THEN FALSE ELSE place'[q] = worker'.id BY <2>3
    <3> QED BY <3>1, <3>2, PlacesMeanNext
  <2> QED BY <2>2, <2>4
<1> QED BY <1>1, <1>2

\* The worker is taken away with all that was asked of it.
LEMMA RequestsCleared ==
  ASSUME Prover!CapacityAssumption, ProverInv, Prover!RejectAll, place' = [q \in Request |-> 0], worker' = None
  PROVE  /\ ProofQueue' /\ Prover!PlacesAreBounded'
         /\ proofs' \in Seq(Entries) /\ place' \in [Request -> 0 .. MaxGens]
         /\ caller' \in [Request -> {"new", "admitted", "waiting", "resolved", "rejected"}]
<1>1. /\ proofs' = <<>>
      /\ \A q \in Request :
           caller'[q] = IF \E i \in DOMAIN proofs : proofs[i].q = q THEN "rejected" ELSE caller[q]
  BY DEF Prover!RejectAll
<1>2. caller \in [Request -> {"new", "admitted", "waiting", "resolved", "rejected"}] /\ WaitingIn(caller, proofs)
  BY DEF ProverInv, ProverTypes, ProofQueue
<1>3. caller' \in [Request -> {"new", "admitted", "waiting", "resolved", "rejected"}]
  BY <1>2 DEF Prover!RejectAll
<1>4. WaitingIn(caller, proofs)' BY <1>1, <1>2 DEF WaitingIn
<1>5. Prover!PlacesAreBounded'
  <2>1. HeldPlaces(place') = {} BY DEF HeldPlaces
  <2>2. Len(proofs') + Cardinality(HeldPlaces(place')) <= MaxPending
    <3>1. Len(proofs') = 0 /\ Cardinality({}) = 0 BY <1>1, FS_EmptySet
    <3>2. Cardinality(HeldPlaces(place')) = 0 BY <2>1, <3>1
    <3>3. MaxPending \in Nat BY DEF Prover!CapacityAssumption
    <3> QED BY <3>1, <3>2, <3>3
  <2>3. \A q \in Request : place'[q] # 0 => IF worker' = None THEN FALSE ELSE place'[q] = worker'.id OBVIOUS
  <2> QED BY <2>2, <2>3, PlacesMeanNext
<1>6. place' \in [Request -> 0 .. MaxGens] BY DEF Prover!CapacityAssumption
<1> QED BY <1>1, <1>3, <1>4, <1>5, <1>6 DEF ProofQueue

\* A step of the callers or of the worker's messages keeps the thread.
LEMMA ThreadKept ==
  ASSUME Prover!CapacityAssumption, ProverInv, UNCHANGED <<live, nextId, timer, undrained, disposed, job,
    jobGen>>,
         UNCHANGED worker \/ (worker # None /\ worker' \in Provers /\ worker'.id = worker.id),
         place' \in [Request -> 0 .. MaxGens], proofs' \in Seq(Entries),
         caller' \in [Request -> {"new", "admitted", "waiting", "resolved", "rejected"}],
         ProofQueue', Prover!PlacesAreBounded'
  PROVE  ProverInv'
<1>1. worker' # None \/ UNCHANGED worker BY DEF Prover!CapacityAssumption, Provers
<1>2. ProverTypes' BY DEF ProverInv, ProverTypes
<1>3. OneThread(Prover!Job)' BY <1>1 DEF ProverInv, OneThread
<1>4. ProverJobs' BY <1>1 DEF ProverInv, ProverJobs
<1> QED BY <1>2, <1>3, <1>4 DEF ProverInv

LEMMA ProverStutters == ASSUME ProverInv, UNCHANGED Prover!vars PROVE ProverInv'
BY DEF Prover!vars, Prover!requests, Prover!workers, Prover!bounds, ProverInv, ProverTypes, OneThread, ProverJobs,
       ProofQueue, Prover!PlacesAreBounded, Prover!Admitted

\* A nonempty set of natural numbers has a smallest element.
LEMMA SmallestOne ==
  ASSUME NEW S \in SUBSET Nat, S # {}
  PROVE  \E n \in S : \A m \in S : n <= m
<1> DEFINE R == OpToRel(<, Nat)
<1>1. IsWellFoundedOn(R, Nat) BY NatLessThanWellFounded
<1>2. \A m, n \in Nat : m < n => <<m, n>> \in R BY DEF OpToRel
<1> HIDE DEF R
<1>3. \E n \in S : \A m \in S : <<m, n>> \notin R BY <1>1, WFMin
<1>4. PICK n \in S : \A m \in S : <<m, n>> \notin R BY <1>3
<1>5. ASSUME NEW m \in S PROVE n <= m
  <2>1. ~(m < n) BY <1>2, <1>4
  <2> QED BY <2>1
<1> QED BY <1>5

\* DispatchNext keeps the queue: it marks at most one proof, and only if none is in flight.
LEMMA Dispatched ==
  ASSUME Prover!CapacityAssumption, NEW g, NEW s, g \in Provers, s \in Seq(Entries), QueueOf(g, s),
         Prover!DispatchNext(g, s)
  PROVE  /\ worker' \in Provers /\ worker'.id = g.id /\ worker' # None
         /\ proofs' \in Seq(Entries) /\ Len(proofs') = Len(s) /\ DOMAIN proofs' = DOMAIN s
         /\ \A i \in DOMAIN s : proofs'[i].q = s[i].q
         /\ QueueOf(worker', proofs')
<1>1. g # None BY DEF Prover!CapacityAssumption, Provers
<1>2. CASE worker' = g /\ proofs' = s BY <1>1, <1>2
<1> DEFINE free == {i \in DOMAIN s : ~s[i].inflight /\ s[i].gen = g.id}
           first == CHOOSE k \in free : \A l \in free : k <= l
<1>3. CASE /\ g.ready /\ g.active = None /\ free # {}
           /\ worker' = [g EXCEPT !.active = s[first].q] /\ proofs' = [s EXCEPT ![first].inflight = TRUE]
  <2>1. first \in free
    <3>1. free \subseteq Nat /\ free # {} BY <1>3
    <3>2. PICK m \in free : \A l \in free : m <= l BY <3>1, SmallestOne
    <3> QED BY <3>2
  <2> HIDE DEF first
  <2>2. first \in DOMAIN s /\ ~s[first].inflight BY <2>1
  <2>3. s[first] \in Entries BY <2>2, ElementOfSeq
  <2> DEFINE e == [s[first] EXCEPT !.inflight = TRUE]
  <2>4. e \in Entries /\ e.q = s[first].q /\ e.gen = s[first].gen /\ e.inflight BY <2>3 DEF Entries
  <2>5. proofs' = [s EXCEPT ![first] = e] BY <1>3
  <2> HIDE DEF e
  <2>6. /\ proofs' \in Seq(Entries) /\ Len(proofs') = Len(s) /\ DOMAIN proofs' = DOMAIN s
        /\ proofs'[first] = e /\ \A i \in DOMAIN s : i # first => proofs'[i] = s[i]
    BY <2>2, <2>4, <2>5, ExceptSeq
  <2>7. worker' \in Provers /\ worker'.id = g.id /\ worker'.active = s[first].q /\ worker'.ready = g.ready
    BY <1>3, <2>3 DEF Provers, Entries
  <2>8. worker' # None /\ s[first].q # None BY <2>3, <2>7 DEF Prover!CapacityAssumption, Provers, Entries
  <2>9. \A i \in DOMAIN s : proofs'[i].q = s[i].q /\ proofs'[i].gen = g.id BY <2>2, <2>4, <2>6 DEF QueueOf
  <2>10. ASSUME NEW i \in DOMAIN s PROVE s[i].q \in Request
    <3>1. s[i] \in Entries BY ElementOfSeq
    <3> QED BY <3>1 DEF Entries
  <2>11. \A i \in DOMAIN s : ~s[i].inflight BY <1>3, <2>10 DEF QueueOf, Prover!CapacityAssumption
  <2>12. \A i \in DOMAIN s : proofs'[i].inflight <=> worker'.active = proofs'[i].q
    BY <2>2, <2>4, <2>6, <2>7, <2>9, <2>11 DEF QueueOf
  <2>13. QueueOf(worker', proofs')
    BY <1>3, <2>2, <2>6, <2>7, <2>9, <2>12 DEF QueueOf
  <2> QED BY <2>6, <2>7, <2>8, <2>9, <2>13
<1>4. \/ worker' = g /\ proofs' = s
      \/ /\ g.ready /\ g.active = None /\ free # {}
         /\ worker' = [g EXCEPT !.active = s[first].q] /\ proofs' = [s EXCEPT ![first].inflight = TRUE]
  BY Zenon DEF Prover!DispatchNext
<1> QED BY <1>2, <1>3, <1>4

\* What taking and giving back a place do to their number.
LEMMA PlaceTaken ==
  ASSUME Prover!CapacityAssumption, NEW q \in Request, NEW n, place \in [Request -> 0 .. MaxGens],
         place' = [place EXCEPT ![q] = n]
  PROVE  Cardinality(HeldPlaces(place')) <= Cardinality(HeldPlaces(place)) + 1
<1>1. IsFiniteSet(HeldPlaces(place)) /\ IsFiniteSet(HeldPlaces(place')) /\ Cardinality(HeldPlaces(place)) \in Nat
  BY HeldFinite
<1>2. HeldPlaces(place') \subseteq HeldPlaces(place) \cup {q} BY DEF HeldPlaces
<1>3. IsFiniteSet(HeldPlaces(place) \cup {q})
        /\ Cardinality(HeldPlaces(place) \cup {q}) <= Cardinality(HeldPlaces(place)) + 1
  BY <1>1, FS_AddElement
<1>4. Cardinality(HeldPlaces(place')) <= Cardinality(HeldPlaces(place) \cup {q}) BY <1>2, <1>3, FS_Subset
<1>5. Cardinality(HeldPlaces(place')) \in Nat /\ Cardinality(HeldPlaces(place) \cup {q}) \in Nat
  BY <1>1, <1>3, FS_CardinalityType
<1> QED BY <1>1, <1>3, <1>4, <1>5

LEMMA PlaceFreed ==
  ASSUME Prover!CapacityAssumption, NEW q \in Request, place \in [Request -> 0 .. MaxGens],
         place' = [place EXCEPT ![q] = 0]
  PROVE  /\ place' \in [Request -> 0 .. MaxGens] /\ \A p \in Request : place'[p] # 0 => place'[p] = place[p]
         /\ Cardinality(HeldPlaces(place')) <= Cardinality(HeldPlaces(place))
         /\ place[q] # 0 => Cardinality(HeldPlaces(place')) = Cardinality(HeldPlaces(place)) - 1
<1>1. IsFiniteSet(HeldPlaces(place)) /\ IsFiniteSet(HeldPlaces(place')) /\ Cardinality(HeldPlaces(place)) \in Nat
  BY HeldFinite
<1>2. HeldPlaces(place') = HeldPlaces(place) \ {q} BY DEF HeldPlaces
<1>3. Cardinality(HeldPlaces(place')) =
        IF q \in HeldPlaces(place) THEN Cardinality(HeldPlaces(place)) - 1 ELSE Cardinality(HeldPlaces(place))
  BY <1>1, <1>2, FS_RemoveElement
<1>4. place' \in [Request -> 0 .. MaxGens] BY DEF Prover!CapacityAssumption
<1>5. \A p \in Request : place'[p] # 0 => place'[p] = place[p] OBVIOUS
<1>6. place[q] # 0 => q \in HeldPlaces(place) BY DEF HeldPlaces
<1> QED BY <1>1, <1>3, <1>4, <1>5, <1>6

\* The invariant, unfolded.
LEMMA ProverFacts ==
  ASSUME Prover!CapacityAssumption, ProverInv
  PROVE  /\ worker \in Provers \cup {None} /\ place \in [Request -> 0 .. MaxGens] /\ proofs \in Seq(Entries)
         /\ caller \in [Request -> {"new", "admitted", "waiting", "resolved", "rejected"}]
         /\ worker = None => proofs = <<>>
         /\ worker # None => worker \in Provers /\ worker.id \in 1 .. MaxGens /\ QueueOf(worker, proofs)
         /\ WaitingIn(caller, proofs)
         /\ Len(proofs) \in Nat /\ DOMAIN proofs = 1 .. Len(proofs)
         /\ Cardinality(HeldPlaces(place)) \in Nat /\ MaxPending \in Nat
         /\ Len(proofs) + Cardinality(HeldPlaces(place)) <= MaxPending
         /\ \A q \in Request : place[q] # 0 => worker # None /\ place[q] = worker.id
<1>1. ProverTypes /\ ProofQueue /\ Prover!PlacesAreBounded BY DEF ProverInv
<1>2. /\ worker \in Provers \cup {None} /\ place \in [Request -> 0 .. MaxGens] /\ proofs \in Seq(Entries)
      /\ caller \in [Request -> {"new", "admitted", "waiting", "resolved", "rejected"}]
  BY <1>1 DEF ProverTypes
<1>3. /\ worker = None => proofs = <<>>
      /\ worker # None => worker \in Provers /\ worker.id \in 1 .. MaxGens /\ QueueOf(worker, proofs)
      /\ WaitingIn(caller, proofs)
  BY <1>1, <1>2 DEF ProofQueue, Provers
<1>4. Len(proofs) \in Nat /\ DOMAIN proofs = 1 .. Len(proofs) BY <1>2
<1>5. Cardinality(HeldPlaces(place)) \in Nat BY HeldFinite
<1>6. MaxPending \in Nat BY DEF Prover!CapacityAssumption
<1>7. /\ Len(proofs) + Cardinality(HeldPlaces(place)) <= MaxPending
      /\ \A q \in Request : place[q] # 0 => worker # None /\ place[q] = worker.id
  BY <1>1, PlacesMean
<1> QED BY <1>2, <1>3, <1>4, <1>5, <1>6, <1>7

LEMMA ReserveStep ==
  ASSUME Prover!CapacityAssumption, ProverInv, NEW q \in Request, Prover!ReserveVerification(q)
  PROVE  ProverInv'
<1>1. UNCHANGED <<proofs, worker, live, nextId, timer, undrained, disposed, job, jobGen>> /\ caller[q] = "new"
  BY DEF Prover!ReserveVerification, Prover!workers
<1>2. PICK x \in {"rejected", "admitted"} : caller' = [caller EXCEPT ![q] = x]
  BY Zenon DEF Prover!ReserveVerification
<1>3. caller' \in [Request -> {"new", "admitted", "waiting", "resolved", "rejected"}] BY <1>2, ProverFacts
<1>4. WaitingIn(caller, proofs)' BY <1>1, <1>2, ProverFacts DEF WaitingIn
<1>5. ProofQueue' BY <1>1, <1>4 DEF ProofQueue, ProverInv
<1>6. CASE UNCHANGED place
  <2>1. Prover!PlacesAreBounded' BY <1>1, <1>6, PlacesMeanNext, ProverFacts
  <2> QED BY <1>1, <1>3, <1>5, <1>6, <2>1, ThreadKept, ProverFacts
<1>7. CASE ~Prover!Unavailable /\ ~Prover!Busy /\ place' = [place EXCEPT ![q] = worker.id]
  <2>1. worker # None /\ worker.id \in 1 .. MaxGens BY <1>7, ProverFacts DEF Prover!Unavailable
  <2>2. Len(proofs) + Cardinality(HeldPlaces(place)) < MaxPending
    <3>1. Prover!Admitted = HeldPlaces(place) BY DEF Prover!Admitted, HeldPlaces
    <3>2. ~(Len(proofs) + Cardinality(HeldPlaces(place)) >= MaxPending)
      BY <1>7, <3>1, SameCardinalities DEF Prover!Busy
    <3> QED BY <3>2, ProverFacts
  <2>3. place' \in [Request -> 0 .. MaxGens] BY <1>7, <2>1, ProverFacts
  <2>4. Cardinality(HeldPlaces(place')) <= Cardinality(HeldPlaces(place)) + 1 BY <1>7, PlaceTaken, ProverFacts
  <2>5. Cardinality(HeldPlaces(place')) \in Nat BY HeldFinite
  <2>6. Len(proofs') + Cardinality(HeldPlaces(place')) <= MaxPending BY <1>1, <2>2, <2>4, <2>5, ProverFacts
  <2>7. \A p \in Request : place'[p] # 0 => IF worker' = None THEN FALSE ELSE place'[p] = worker'.id
    BY <1>1, <1>7, <2>1, ProverFacts
  <2>8. Prover!PlacesAreBounded' BY <2>6, <2>7, PlacesMeanNext
  <2> QED BY <1>1, <1>3, <1>5, <2>3, <2>8, ThreadKept, ProverFacts
<1>8. \/ UNCHANGED place
      \/ ~Prover!Unavailable /\ ~Prover!Busy /\ place' = [place EXCEPT ![q] = worker.id]
  BY Zenon DEF Prover!ReserveVerification
<1> QED BY <1>6, <1>7, <1>8

LEMMA ReleaseStep ==
  ASSUME Prover!CapacityAssumption, ProverInv, NEW q \in Request, Prover!ReleaseVerification(q)
  PROVE  ProverInv'
<1>1. /\ UNCHANGED <<proofs, worker, live, nextId, timer, undrained, disposed, job, jobGen>>
           /\ caller[q] = "admitted"
      /\ caller' = [caller EXCEPT ![q] = "rejected"] /\ place' = [place EXCEPT ![q] = 0]
  BY DEF Prover!ReleaseVerification, Prover!workers
<1>2. caller' \in [Request -> {"new", "admitted", "waiting", "resolved", "rejected"}] BY <1>1, ProverFacts
<1>3. WaitingIn(caller, proofs)' BY <1>1, ProverFacts DEF WaitingIn
<1>4. ProofQueue' BY <1>1, <1>3 DEF ProofQueue, ProverInv
<1>5. /\ place' \in [Request -> 0 .. MaxGens] /\ \A p \in Request : place'[p] # 0 => place'[p] = place[p]
      /\ Cardinality(HeldPlaces(place')) <= Cardinality(HeldPlaces(place))
  BY <1>1, PlaceFreed, ProverFacts
<1>6. Cardinality(HeldPlaces(place')) \in Nat BY HeldFinite
<1>7. Prover!PlacesAreBounded' BY <1>1, <1>5, <1>6, PlacesMeanNext, ProverFacts
<1> QED BY <1>1, <1>2, <1>4, <1>5, <1>7, ThreadKept, ProverFacts

LEMMA VerifyTicketStep ==
  ASSUME Prover!CapacityAssumption, ProverInv, NEW q \in Request, Prover!VerifyTicket(q)
  PROVE  ProverInv'
<1>1. /\ UNCHANGED <<live, nextId, timer, undrained, disposed, job, jobGen>> /\ caller[q] = "admitted"
      /\ place' = [place EXCEPT ![q] = 0]
  BY DEF Prover!VerifyTicket
<1>2. /\ place' \in [Request -> 0 .. MaxGens] /\ \A p \in Request : place'[p] # 0 => place'[p] = place[p]
      /\ Cardinality(HeldPlaces(place')) <= Cardinality(HeldPlaces(place))
      /\ place[q] # 0 => Cardinality(HeldPlaces(place')) = Cardinality(HeldPlaces(place)) - 1
  BY <1>1, PlaceFreed, ProverFacts
<1>3. Cardinality(HeldPlaces(place')) \in Nat BY HeldFinite
<1>4. ~\E i \in DOMAIN proofs : proofs[i].q = q BY <1>1, ProverFacts DEF WaitingIn
<1>5. CASE ~Prover!AdmissionHolds(q)
  <2>1. caller' = [caller EXCEPT ![q] = "rejected"] /\ UNCHANGED <<worker, proofs>>
    BY <1>5 DEF Prover!VerifyTicket
  <2>2. caller' \in [Request -> {"new", "admitted", "waiting", "resolved", "rejected"}] BY <2>1, ProverFacts
  <2>3. WaitingIn(caller, proofs)' BY <1>1, <2>1, ProverFacts DEF WaitingIn
  <2>4. ProofQueue' BY <2>1, <2>3 DEF ProofQueue, ProverInv
  <2>5. Prover!PlacesAreBounded' BY <1>2, <1>3, <2>1, PlacesMeanNext, ProverFacts
  <2> QED BY <1>1, <1>2, <2>1, <2>2, <2>4, <2>5, ThreadKept, ProverFacts
<1>6. CASE Prover!AdmissionHolds(q)
  <2> DEFINE e == [q |-> q, gen |-> worker.id, inflight |-> FALSE]
             s == Append(proofs, e)
  <2>1. caller' = [caller EXCEPT ![q] = "waiting"] /\ Prover!DispatchNext(worker, s)
    BY <1>6 DEF Prover!VerifyTicket
  <2>2. worker # None /\ place[q] # 0 BY <1>6 DEF Prover!AdmissionHolds
  <2>3. worker \in Provers /\ worker.id \in 1 .. MaxGens /\ QueueOf(worker, proofs) BY <2>2, ProverFacts
  <2>4. e \in Entries /\ e.q = q /\ e.gen = worker.id /\ ~e.inflight BY <2>3 DEF Entries
  <2> HIDE DEF e
  <2>5. /\ s \in Seq(Entries) /\ Len(s) = Len(proofs) + 1 /\ DOMAIN s = 1 .. (Len(proofs) + 1)
        /\ \A i \in DOMAIN proofs : s[i] = proofs[i]
        /\ s[Len(proofs) + 1] = e
    BY <2>4, ProverFacts, AppendProperties
  <2> HIDE DEF s
  <2>6. DOMAIN s = DOMAIN proofs \cup {Len(proofs) + 1} /\ Len(proofs) + 1 \notin DOMAIN proofs
    BY <2>5, ProverFacts
  <2>7. QueueOf(worker, s)
    <3>1. worker.active # q BY <1>4, <2>3 DEF QueueOf, Prover!CapacityAssumption
    <3>2. \A i \in DOMAIN s : s[i].gen = worker.id /\ (s[i].inflight <=> worker.active = s[i].q)
      BY <2>3, <2>4, <2>5, <2>6, <3>1 DEF QueueOf
    <3>3. ASSUME NEW i \in DOMAIN s, NEW k \in DOMAIN s, s[i].q = s[k].q PROVE i = k
      <4>1. \A l \in DOMAIN proofs : s[l].q = proofs[l].q /\ s[l].q # q BY <1>4, <2>5
      <4>2. s[Len(proofs) + 1].q = q BY <2>4, <2>5
      <4>3. \A l, m \in DOMAIN proofs : proofs[l].q = proofs[m].q => l = m BY <2>3 DEF QueueOf
      <4> QED BY <2>6, <3>3, <4>1, <4>2, <4>3
    <3>4. worker.active # None => worker.ready /\ \E i \in DOMAIN s : s[i].q = worker.active
      BY <2>3, <2>5, <2>6 DEF QueueOf
    <3> QED BY <3>2, <3>3, <3>4 DEF QueueOf
  <2>8. /\ worker' \in Provers /\ worker'.id = worker.id /\ worker' # None
        /\ proofs' \in Seq(Entries) /\ Len(proofs') = Len(s) /\ DOMAIN proofs' = DOMAIN s
        /\ \A i \in DOMAIN s : proofs'[i].q = s[i].q
        /\ QueueOf(worker', proofs')
    BY <2>1, <2>3, <2>5, <2>7, Dispatched
  <2>9. caller' \in [Request -> {"new", "admitted", "waiting", "resolved", "rejected"}] BY <2>1, ProverFacts
  <2>10. WaitingIn(caller, proofs)'
    <3>1. \A p \in Request : (\E i \in DOMAIN s : s[i].q = p)
            <=> (p = q \/ \E i \in DOMAIN proofs : proofs[i].q = p)
      BY <2>4, <2>5, <2>6
    <3>2. \A p \in Request : (\E i \in DOMAIN proofs' : proofs'[i].q = p) <=> \E i \in DOMAIN s : s[i].q = p
      BY <2>8
    <3>3. \A p \in Request : caller'[p] = "waiting" <=> p = q \/ caller[p] = "waiting" BY <2>1, ProverFacts
    <3>4. WaitingIn(caller, proofs) BY ProverFacts
    <3> QED BY <3>1, <3>2, <3>3, <3>4 DEF WaitingIn
  <2>11. ProofQueue' BY <2>8, <2>10 DEF ProofQueue
  <2>12. Prover!PlacesAreBounded'
    <3>1. Len(proofs') + Cardinality(HeldPlaces(place')) <= MaxPending
      BY <1>2, <1>3, <2>2, <2>5, <2>8, ProverFacts
    <3>2. \A p \in Request : place'[p] # 0 => IF worker' = None THEN FALSE ELSE place'[p] = worker'.id
      BY <1>2, <2>8, ProverFacts
    <3> QED BY <3>1, <3>2, PlacesMeanNext
  <2> QED BY <1>1, <1>2, <2>2, <2>8, <2>9, <2>11, <2>12, ThreadKept
<1> QED BY <1>5, <1>6

LEMMA WorkerInitStep == ASSUME Prover!CapacityAssumption, ProverInv, Prover!WorkerInit PROVE ProverInv'
<1> DEFINE g == [worker EXCEPT !.ready = TRUE]
<1>1. /\ UNCHANGED <<place, caller, live, nextId, timer, undrained, disposed, job, jobGen>>
      /\ worker # None /\ ~worker.ready /\ Prover!DispatchNext(g, proofs)
  BY DEF Prover!WorkerInit
<1>2. worker \in Provers /\ QueueOf(worker, proofs) BY <1>1, ProverFacts
<1>3. g \in Provers /\ g.id = worker.id /\ g.active = worker.active /\ g.ready BY <1>2 DEF Provers
<1> HIDE DEF g
<1>4. QueueOf(g, proofs) BY <1>2, <1>3 DEF QueueOf
<1>5. /\ worker' \in Provers /\ worker'.id = worker.id /\ worker' # None
      /\ proofs' \in Seq(Entries) /\ Len(proofs') = Len(proofs) /\ DOMAIN proofs' = DOMAIN proofs
      /\ \A i \in DOMAIN proofs : proofs'[i].q = proofs[i].q
      /\ QueueOf(worker', proofs')
  BY <1>1, <1>3, <1>4, Dispatched, ProverFacts
<1>6. WaitingIn(caller, proofs)'
  <2>1. \A q \in Request : (\E i \in DOMAIN proofs' : proofs'[i].q = q)
          <=> \E i \in DOMAIN proofs : proofs[i].q = q
    BY <1>5
  <2>2. WaitingIn(caller, proofs) BY ProverFacts
  <2> QED BY <1>1, <2>1, <2>2 DEF WaitingIn
<1>7. ProofQueue' BY <1>5, <1>6 DEF ProofQueue
<1>8. Prover!PlacesAreBounded' BY <1>1, <1>5, PlacesMeanNext, ProverFacts
<1> QED BY <1>1, <1>5, <1>7, <1>8, ThreadKept, ProverFacts

\* The answered proof leaves the queue, and only that one.
LEMMA TakenOut ==
  ASSUME Prover!CapacityAssumption, ProverInv, worker # None, worker.active # None
  PROVE  LET s == Prover!Without(worker.active)
             g == [worker EXCEPT !.active = None]
         IN /\ s \in Seq(Entries) /\ Len(s) = Len(proofs) - 1
            /\ g \in Provers /\ g.id = worker.id /\ QueueOf(g, s)
            /\ \A q \in Request : (\E i \in DOMAIN s : s[i].q = q)
                                    <=> q # worker.active /\ \E i \in DOMAIN proofs : proofs[i].q = q
<1> DEFINE n == Len(proofs)
           a == CHOOSE k \in DOMAIN proofs : proofs[k].q = worker.active
           s == [k \in 1 .. (n - 1) |-> IF k < a THEN proofs[k] ELSE proofs[k + 1]]
           g == [worker EXCEPT !.active = None]
<1>1. worker \in Provers /\ QueueOf(worker, proofs) /\ proofs \in Seq(Entries) /\ n \in Nat
        /\ DOMAIN proofs = 1 .. n
  BY ProverFacts
<1>2. \E k \in DOMAIN proofs : proofs[k].q = worker.active BY <1>1 DEF QueueOf
<1>3. a \in DOMAIN proofs /\ proofs[a].q = worker.active BY <1>2
<1>4. Prover!Without(worker.active) = s BY Zenon DEF Prover!Without
<1> HIDE DEF a, n
<1>5. a \in 1 .. n /\ n - 1 \in Nat BY <1>1, <1>3
<1>6. \A k \in 1 .. n : proofs[k] \in Entries BY <1>1, ElementOfSeq DEF n
<1>7. DOMAIN s = 1 .. (n - 1)
        /\ \A k \in 1 .. (n - 1) : s[k] = (IF k < a THEN proofs[k] ELSE proofs[k + 1]) OBVIOUS
<1>8. \A k \in 1 .. (n - 1) : k \in 1 .. n /\ k + 1 \in 1 .. n BY <1>1, <1>5
<1>9. \A k \in 1 .. (n - 1) : s[k] \in Entries BY <1>6, <1>7, <1>8
<1>10. s \in Seq(Entries) /\ Len(s) = n - 1
  <2>1. s \in [1 .. (n - 1) -> Entries] BY <1>9
  <2> QED BY <1>5, <2>1
<1>11. g \in Provers /\ g.id = worker.id /\ g.active = None BY <1>1 DEF Provers
<1> HIDE DEF s, g
<1>12. \A i, k \in 1 .. n : proofs[i].q = proofs[k].q => i = k BY <1>1 DEF QueueOf
<1>13. \A k \in 1 .. (n - 1) : s[k].q # worker.active
  <2> SUFFICES ASSUME NEW k \in 1 .. (n - 1) PROVE s[k].q # worker.active OBVIOUS
  <2>1. CASE k < a BY <1>3, <1>5, <1>7, <1>8, <1>12, <2>1
  <2>2. CASE ~(k < a)
    <3>1. k + 1 # a BY <1>5, <2>2
    <3> QED BY <1>3, <1>5, <1>7, <1>8, <1>12, <2>2, <3>1
  <2> QED BY <2>1, <2>2
<1>14. \A k \in 1 .. (n - 1) : \E l \in 1 .. n : s[k] = proofs[l] BY <1>7, <1>8
<1>15. ASSUME NEW i \in 1 .. (n - 1), NEW k \in 1 .. (n - 1), s[i].q = s[k].q PROVE i = k
  <2> DEFINE Of(l) == IF l < a THEN l ELSE l + 1
  <2>1. s[i] = proofs[Of(i)] /\ s[k] = proofs[Of(k)] BY <1>7
  <2>2. Of(i) \in 1 .. n /\ Of(k) \in 1 .. n BY <1>8
  <2>3. Of(i) = Of(k) BY <1>12, <1>15, <2>1, <2>2
  <2> QED BY <1>5, <2>3
<1>16. QueueOf(g, s)
  <2>1. \A k \in 1 .. (n - 1) : s[k].gen = g.id BY <1>1, <1>11, <1>14 DEF QueueOf
  <2>2. \A k \in 1 .. (n - 1) : ~s[k].inflight BY <1>1, <1>13, <1>14 DEF QueueOf
  <2>3. \A k \in 1 .. (n - 1) : s[k].q # None BY <1>9 DEF Entries, Prover!CapacityAssumption
  <2>4. \A k \in 1 .. (n - 1) : s[k].inflight <=> g.active = s[k].q BY <1>11, <2>2, <2>3
  <2> QED BY <1>7, <1>11, <1>15, <2>1, <2>4 DEF QueueOf
<1>17. ASSUME NEW q \in Request
       PROVE  (\E i \in DOMAIN s : s[i].q = q) <=> q # worker.active /\ \E i \in DOMAIN proofs : proofs[i].q = q
  <2>1. (\E i \in 1 .. (n - 1) : s[i].q = q) => q # worker.active /\ \E i \in 1 .. n : proofs[i].q = q
    BY <1>13, <1>14
  <2>2. ASSUME q # worker.active, NEW i \in 1 .. n, proofs[i].q = q PROVE \E k \in 1 .. (n - 1) : s[k].q = q
    <3>1. i # a BY <1>3, <2>2
    <3>2. CASE i < a
      <4>1. i \in 1 .. (n - 1) BY <1>1, <1>5, <3>2
      <4> QED BY <1>7, <2>2, <3>2, <4>1
    <3>3. CASE ~(i < a)
      <4>1. i - 1 \in 1 .. (n - 1) /\ ~(i - 1 < a) /\ (i - 1) + 1 = i BY <1>1, <1>5, <3>1, <3>3
      <4>2. s[i - 1] = proofs[i] BY <1>7, <4>1
      <4> QED BY <2>2, <4>1, <4>2
    <3> QED BY <3>2, <3>3
  <2> QED BY <1>1, <1>7, <2>1, <2>2
<1>18. /\ s \in Seq(Entries) /\ Len(s) = Len(proofs) - 1
       /\ g \in Provers /\ g.id = worker.id /\ QueueOf(g, s)
       /\ \A q \in Request : (\E i \in DOMAIN s : s[i].q = q)
                                    <=> q # worker.active /\ \E i \in DOMAIN proofs : proofs[i].q = q
  BY <1>10, <1>11, <1>16, <1>17 DEF n
<1> QED BY <1>4, <1>18 DEF g

LEMMA VerifiedTicketStep == ASSUME Prover!CapacityAssumption, ProverInv, Prover!OnWorkerVerified PROVE ProverInv'
<1> DEFINE s == Prover!Without(worker.active)
           g == [worker EXCEPT !.active = None]
           old == worker.active
<1>1. /\ UNCHANGED <<place, live, nextId, timer, undrained, disposed, job, jobGen>>
      /\ worker # None /\ worker.active # None /\ caller' = [caller EXCEPT ![old] = "resolved"]
      /\ Prover!DispatchNext(Prover!TakeVerification(worker, worker.active), s)
  BY DEF Prover!OnWorkerVerified
<1>2. Prover!TakeVerification(worker, worker.active) = g BY Zenon DEF Prover!TakeVerification
<1>3. Prover!DispatchNext(g, s) BY <1>1, <1>2
<1>4. /\ s \in Seq(Entries) /\ Len(s) = Len(proofs) - 1
      /\ g \in Provers /\ g.id = worker.id /\ QueueOf(g, s)
      /\ \A q \in Request : (\E i \in DOMAIN s : s[i].q = q)
                              <=> q # old /\ \E i \in DOMAIN proofs : proofs[i].q = q
  BY <1>1, TakenOut
<1> HIDE DEF s, g
<1>5. /\ worker' \in Provers /\ worker'.id = worker.id /\ worker' # None
      /\ proofs' \in Seq(Entries) /\ Len(proofs') = Len(s) /\ DOMAIN proofs' = DOMAIN s
      /\ \A i \in DOMAIN s : proofs'[i].q = s[i].q
      /\ QueueOf(worker', proofs')
  BY <1>3, <1>4, Dispatched
<1>6. caller' \in [Request -> {"new", "admitted", "waiting", "resolved", "rejected"}] BY <1>1, ProverFacts
<1>7. WaitingIn(caller, proofs)'
  <2>1. \A q \in Request : (\E i \in DOMAIN proofs' : proofs'[i].q = q) <=> \E i \in DOMAIN s : s[i].q = q BY <1>5
  <2>2. \A q \in Request : caller'[q] = "waiting" <=> q # old /\ caller[q] = "waiting" BY <1>1, ProverFacts
  <2>3. WaitingIn(caller, proofs) BY ProverFacts
  <2> QED BY <1>4, <2>1, <2>2, <2>3 DEF WaitingIn
<1>8. ProofQueue' BY <1>5, <1>7 DEF ProofQueue
<1>9. Prover!PlacesAreBounded'
  <2>1. Len(proofs') + Cardinality(HeldPlaces(place')) <= MaxPending BY <1>1, <1>4, <1>5, ProverFacts
  <2>2. \A p \in Request : place'[p] # 0 => IF worker' = None THEN FALSE ELSE place'[p] = worker'.id
    BY <1>1, <1>5, ProverFacts
  <2> QED BY <2>1, <2>2, PlacesMeanNext
<1> QED BY <1>1, <1>5, <1>6, <1>8, <1>9, ThreadKept, ProverFacts

\* An action that takes the worker away: its requests go with it, and the thread is left to a job.
LEMMA ProverRecovers == ASSUME Prover!CapacityAssumption, ProverInv, Prover!RecoverGeneration PROVE ProverInv'
<1> USE DEF Prover!RecoverGeneration, Prover!Job
<1>1. /\ ProofQueue' /\ Prover!PlacesAreBounded'
      /\ proofs' \in Seq(Entries) /\ place' \in [Request -> 0 .. MaxGens]
      /\ caller' \in [Request -> {"new", "admitted", "waiting", "resolved", "rejected"}]
  BY RequestsCleared DEF Prover!RevokeAdmissions
<1>2. ProverTypes' BY <1>1 DEF ProverInv, ProverTypes, Provers
<1>3. OneThread(Prover!Job)' BY DEF ProverInv, ProverTypes, OneThread, ProverJobs
<1>4. ProverJobs' BY DEF ProverInv, ProverTypes, OneThread, ProverJobs
<1> QED BY <1>1, <1>2, <1>3, <1>4 DEF ProverInv

LEMMA ProverReloads == ASSUME Prover!CapacityAssumption, ProverInv, Prover!Reload PROVE ProverInv'
<1> USE DEF Prover!Reload, Prover!Begin, Prover!Job
<1>1. /\ ProofQueue' /\ Prover!PlacesAreBounded'
      /\ proofs' \in Seq(Entries) /\ place' \in [Request -> 0 .. MaxGens]
      /\ caller' \in [Request -> {"new", "admitted", "waiting", "resolved", "rejected"}]
  BY RequestsCleared
<1>2. ProverTypes' BY <1>1 DEF ProverInv, ProverTypes, Provers
<1>3. OneThread(Prover!Job)' BY DEF ProverInv, ProverTypes, OneThread, ProverJobs
<1>4. ProverJobs' BY DEF ProverInv, ProverTypes, OneThread, ProverJobs
<1> QED BY <1>1, <1>2, <1>3, <1>4 DEF ProverInv

LEMMA ProverDisposes == ASSUME Prover!CapacityAssumption, ProverInv, Prover!Dispose PROVE ProverInv'
<1> USE DEF Prover!Dispose, Prover!Begin, Prover!Job
<1>1. /\ ProofQueue' /\ Prover!PlacesAreBounded'
      /\ proofs' \in Seq(Entries) /\ place' \in [Request -> 0 .. MaxGens]
      /\ caller' \in [Request -> {"new", "admitted", "waiting", "resolved", "rejected"}]
  BY RequestsCleared
<1>2. ProverTypes' BY <1>1 DEF ProverInv, ProverTypes, Provers
<1>3. OneThread(Prover!Job)' BY DEF ProverInv, ProverTypes, OneThread, ProverJobs
<1>4. ProverJobs' BY DEF ProverInv, ProverTypes, OneThread, ProverJobs
<1> QED BY <1>1, <1>2, <1>3, <1>4 DEF ProverInv

\* A job that failed may be repeated.
LEMMA ProverFails ==
  ASSUME ProverInv, NEW j \in Prover!Job, job' = Prover!Failed(j)
  PROVE  /\ job' \in [Prover!Job -> {"idle", "own", "wait", "retry", "done"}] /\ job'[j] = "idle"
         /\ \A k \in Prover!Job : job'[k] = "idle" \/ job'[k] = job[k]
BY DEF ProverInv, ProverTypes, Prover!Failed, Prover!Job

\* A job's worker ends, or its termination fails: the thread is gone or left undrained.
LEMMA ProverThreadEnds ==
  ASSUME Prover!CapacityAssumption, ProverInv, NEW j \in Prover!Job, job[j] = "own", UNCHANGED worker,
         job' \in [Prover!Job -> {"idle", "own", "wait", "retry", "done"}],
         \A k \in Prover!Job : job'[k] # "own" \/ (job[k] = "own" /\ k # j),
         Prover!Terminated(jobGen[j]) \/ Prover!TerminateFails(jobGen[j])
  PROVE  OneThread(Prover!Job)' /\ live' \subseteq 1 .. MaxGens /\ undrained' \in live' \cup {None}
<1>1. live = {jobGen[j]} /\ undrained = None /\ worker = None /\ live \subseteq 1 .. MaxGens
  BY DEF ProverInv, ProverTypes, OneThread
<1>2. \A k \in Prover!Job : job'[k] # "own" BY DEF ProverInv, ProverJobs
<1>3. \/ live' = {} /\ undrained' = None
      \/ UNCHANGED live /\ undrained' = jobGen[j] /\ jobGen[j] # None
  BY <1>1 DEF Prover!CapacityAssumption, Prover!Terminated, Prover!TerminateFails
<1> QED BY <1>1, <1>2, <1>3 DEF OneThread

LEMMA ProverRecoveryEnds == ASSUME Prover!CapacityAssumption, ProverInv, Prover!RecoveryEnds PROVE ProverInv'
<1>1. /\ UNCHANGED <<place, proofs, caller, worker, nextId, disposed, jobGen>>
      /\ job["recovery"] = "own" /\ job' = [job EXCEPT !["recovery"] = "idle"] /\ "recovery" \in Prover!Job
      /\ Prover!Terminated(jobGen["recovery"]) \/ Prover!TerminateFails(jobGen["recovery"])
      /\ Prover!ScheduleRestart \/ UNCHANGED timer
  BY DEF Prover!RecoveryEnds, Prover!requests, Prover!Job
<1>2. ProofQueue' /\ Prover!PlacesAreBounded' BY <1>1, RequestsKept
<1>3. /\ job' \in [Prover!Job -> {"idle", "own", "wait", "retry", "done"}]
      /\ \A k \in Prover!Job : job'[k] # "own" \/ (job[k] = "own" /\ k # "recovery")
  <2>1. job \in [Prover!Job -> {"idle", "own", "wait", "retry", "done"}] BY DEF ProverInv, ProverTypes
  <2>2. job'["recovery"] = "idle" /\ \A k \in Prover!Job \ {"recovery"} : job'[k] = job[k] BY <1>1, <2>1
  <2> QED BY <1>1, <2>1, <2>2
<1>4. OneThread(Prover!Job)' /\ live' \subseteq 1 .. MaxGens /\ undrained' \in live' \cup {None}
  BY <1>1, <1>3, ProverThreadEnds
<1>5. timer' \in BOOLEAN /\ (disposed => ~timer')
  <2>1. timer \in BOOLEAN /\ (disposed => ~timer) BY DEF ProverInv, ProverTypes, ProverJobs
  <2>2. CASE UNCHANGED timer BY <2>1, <2>2
  <2>3. CASE Prover!ScheduleRestart BY <2>1, <2>3, Zenon DEF Prover!ScheduleRestart
  <2> QED BY <1>1, <2>2, <2>3
<1>6. ProverTypes' BY <1>1, <1>3, <1>4, <1>5 DEF ProverInv, ProverTypes
<1>7. ProverJobs' BY <1>1, <1>5 DEF ProverInv, ProverTypes, ProverJobs, Prover!Job
<1> QED BY <1>2, <1>4, <1>6, <1>7 DEF ProverInv

LEMMA ProverOwnTerminated ==
  ASSUME Prover!CapacityAssumption, ProverInv, NEW j \in Prover!Job, Prover!OwnTerminated(j)
  PROVE  ProverInv'
<1>1. /\ UNCHANGED <<place, proofs, caller, worker, nextId, timer, disposed, jobGen>> /\ j # "recovery"
           /\ job[j] = "own"
      /\ Prover!Terminated(jobGen[j]) \/ Prover!TerminateFails(jobGen[j])
      /\ job' = [job EXCEPT ![j] = "wait"] \/ job' = Prover!Failed(j)
  BY Zenon DEF Prover!OwnTerminated, Prover!requests
<1>2. ProofQueue' /\ Prover!PlacesAreBounded' BY <1>1, RequestsKept
<1>3. /\ job' \in [Prover!Job -> {"idle", "own", "wait", "retry", "done"}] /\ job'[j] \in {"idle", "wait"}
      /\ \A k \in Prover!Job \ {j} : job'[k] = "idle" \/ job'[k] = job[k]
  <2>1. CASE job' = [job EXCEPT ![j] = "wait"] BY <2>1 DEF ProverInv, ProverTypes
  <2>2. CASE job' = Prover!Failed(j) BY <2>2, ProverFails
  <2> QED BY <1>1, <2>1, <2>2
<1>4. \A k \in Prover!Job : job'[k] # "own" \/ (job[k] = "own" /\ k # j) BY <1>3
<1>5. OneThread(Prover!Job)' /\ live' \subseteq 1 .. MaxGens /\ undrained' \in live' \cup {None}
  BY <1>1, <1>3, <1>4, ProverThreadEnds
<1>6. ProverTypes' BY <1>1, <1>3, <1>5 DEF ProverInv, ProverTypes
<1>7. ProverJobs'
  BY <1>1, <1>3 DEF ProverInv, ProverTypes, ProverJobs, OneThread, Prover!Job
<1> QED BY <1>2, <1>5, <1>6, <1>7 DEF ProverInv

LEMMA ProverRetried ==
  ASSUME Prover!CapacityAssumption, ProverInv, NEW j \in Prover!Job, Prover!Retried(j)
  PROVE  ProverInv'
<1>1. /\ UNCHANGED <<place, proofs, caller, worker, nextId, timer, disposed, jobGen>> /\ job[j] = "retry"
      /\ \/ Prover!Terminated(undrained) /\ job' = [job EXCEPT ![j] = "wait"]
         \/ Prover!TerminateFails(undrained) /\ job' = Prover!Failed(j)
  BY Zenon DEF Prover!Retried, Prover!requests
<1>2. ProofQueue' /\ Prover!PlacesAreBounded' BY <1>1, RequestsKept
<1>3. /\ job' \in [Prover!Job -> {"idle", "own", "wait", "retry", "done"}] /\ job'[j] \in {"idle", "wait"}
      /\ \A k \in Prover!Job \ {j} : job'[k] = "idle" \/ job'[k] = job[k]
  <2>1. CASE job' = [job EXCEPT ![j] = "wait"] BY <2>1 DEF ProverInv, ProverTypes
  <2>2. CASE job' = Prover!Failed(j) BY <2>2, ProverFails
  <2> QED BY <1>1, <2>1, <2>2
<1>4. undrained # None /\ live = {undrained} /\ worker = None /\ \A k \in Prover!Job : job[k] # "own"
  BY <1>1 DEF ProverInv, ProverJobs, OneThread
<1>5. (live' = {} /\ undrained' = None) \/ UNCHANGED <<live, undrained>>
  BY <1>1, <1>4 DEF Prover!Terminated, Prover!TerminateFails
<1>6. \A k \in Prover!Job : job'[k] # "own" BY <1>3, <1>4
<1>7. OneThread(Prover!Job)' BY <1>1, <1>4, <1>5, <1>6 DEF OneThread
<1>8. ProverTypes' BY <1>1, <1>3, <1>5 DEF ProverInv, ProverTypes
<1>9. ProverJobs'
  <2>1. \A k \in Prover!Job : job'[k] # "retry" BY <1>1, <1>3 DEF ProverInv, ProverJobs
  <2>2. job'["recovery"] \in {"idle", "own"}
    <3>1. j # "recovery" BY <1>1 DEF ProverInv, ProverJobs
    <3> QED BY <1>3, <3>1 DEF ProverInv, ProverJobs, Prover!Job
  <2> QED BY <1>1, <1>3, <1>4, <1>6, <2>1, <2>2 DEF ProverInv, ProverTypes, ProverJobs, Prover!Job
<1> QED BY <1>2, <1>7, <1>8, <1>9 DEF ProverInv

\* A worker is started only when no thread is left: the new one is the only one.
LEMMA StartsProver ==
  ASSUME Prover!CapacityAssumption, ProverInv, NEW jobs, Prover!StartGeneration(jobs), UNCHANGED undrained,
         Prover!MayStart(jobs) => \A j \in Prover!Job : job[j] # "own"
  PROVE  /\ nextId' \in Nat \ {0} /\ timer' \in BOOLEAN /\ (disposed => ~timer')
         /\ \/ UNCHANGED <<worker, live>>
            \/ /\ worker = None /\ undrained = None /\ ~disposed /\ jobs["reload"] = "idle"
                    /\ jobs["recovery"] = "idle"
               /\ worker' \in Provers /\ worker' # None /\ worker'.active = None
               /\ worker'.id \in 1 .. MaxGens /\ live' = {worker'.id}
<1>1. nextId \in Nat \ {0} /\ OneThread(Prover!Job) BY DEF ProverInv, ProverTypes
<1>2. CASE ~Prover!MayStart(jobs)
  <2>1. UNCHANGED <<worker, live, nextId>> /\ timer' = FALSE
    BY Zenon, <1>2 DEF Prover!StartGeneration, Prover!workers
  <2> QED BY <1>1, <2>1
<1>3. CASE Prover!MayStart(jobs)
  <2>1. /\ ~disposed /\ worker = None /\ jobs["reload"] = "idle" /\ jobs["recovery"] = "idle" /\ undrained = None
    BY <1>3 DEF Prover!MayStart
  <2>2. live = {} BY <1>1, <1>3, <2>1 DEF OneThread
  <2>3. \/ /\ nextId <= MaxGens /\ worker' = [id |-> nextId, ready |-> FALSE, active |-> None]
           /\ live' = live \cup {nextId} /\ nextId' = nextId + 1 /\ timer' = FALSE
        \/ timer' = TRUE /\ UNCHANGED <<worker, live, nextId>>
    BY Zenon, <1>3 DEF Prover!StartGeneration, Prover!workers
  <2>4. CASE /\ nextId <= MaxGens /\ worker' = [id |-> nextId, ready |-> FALSE, active |-> None]
             /\ live' = live \cup {nextId} /\ nextId' = nextId + 1 /\ timer' = FALSE
    <3>1. nextId \in 1 .. MaxGens BY <1>1, <2>4 DEF Prover!CapacityAssumption
    <3>2. worker' \in Provers /\ worker'.id = nextId /\ worker'.active = None BY <2>4, <3>1 DEF Provers
    <3>3. worker' # None BY <3>2 DEF Provers, Prover!CapacityAssumption
    <3>4. live' = {nextId} /\ nextId' \in Nat \ {0} BY <1>1, <2>2, <2>4
    <3> QED BY <2>1, <2>4, <3>1, <3>2, <3>3, <3>4
  <2>5. CASE timer' = TRUE /\ UNCHANGED <<worker, live, nextId>> BY <1>1, <2>1, <2>5
  <2> QED BY <2>3, <2>4, <2>5
<1> QED BY <1>2, <1>3

LEMMA ProverRestarts == ASSUME Prover!CapacityAssumption, ProverInv, Prover!RestartTimer PROVE ProverInv'
<1>1. UNCHANGED <<place, proofs, caller, disposed, undrained, job, jobGen>> /\ Prover!StartGeneration(job)
  BY DEF Prover!RestartTimer, Prover!requests
<1>2. Prover!MayStart(job) => \A j \in Prover!Job : job[j] # "own"
  BY DEF Prover!MayStart, ProverInv, ProverJobs, Prover!Job
<1>3. /\ nextId' \in Nat \ {0} /\ timer' \in BOOLEAN /\ (disposed => ~timer')
      /\ \/ UNCHANGED <<worker, live>>
         \/ /\ worker = None /\ undrained = None /\ ~disposed /\ job["reload"] = "idle"
                 /\ job["recovery"] = "idle"
            /\ worker' \in Provers /\ worker' # None /\ worker'.active = None
            /\ worker'.id \in 1 .. MaxGens /\ live' = {worker'.id}
  BY <1>1, <1>2, StartsProver
<1>4. ProofQueue' /\ Prover!PlacesAreBounded' BY <1>1, <1>3, RequestsKept
<1>5. ProverTypes' BY <1>1, <1>3 DEF ProverInv, ProverTypes
<1>6. \A j \in Prover!Job : worker # worker' => job[j] # "own" BY <1>3 DEF ProverInv, ProverJobs, Prover!Job
<1>7. OneThread(Prover!Job)' BY <1>1, <1>3, <1>6 DEF ProverInv, OneThread
<1>8. ProverJobs' BY <1>1, <1>3 DEF ProverInv, ProverJobs
<1> QED BY <1>4, <1>5, <1>7, <1>8 DEF ProverInv

\* A reload that ends starts the next worker; a dispose that ends leaves none.
LEMMA ProverWaited ==
  ASSUME Prover!CapacityAssumption, ProverInv, NEW j \in Prover!Job, Prover!Waited(j)
  PROVE  ProverInv'
<1>1. /\ UNCHANGED <<place, proofs, caller, undrained, disposed, jobGen>> /\ j # "recovery" /\ job[j] = "wait"
      /\ job["recovery"] = "idle" /\ (j = "dispose" => job["reload"] = "idle") /\ j \in {"reload", "dispose"}
  BY DEF Prover!Waited, Prover!WaitIsOver, Prover!requests, Prover!Job
<1>2. job \in [Prover!Job -> {"idle", "own", "wait", "retry", "done"}] /\ OneThread(Prover!Job) /\ ProverJobs
  BY DEF ProverInv, ProverTypes
<1>3. /\ worker = None /\ timer \in BOOLEAN /\ (disposed => ~timer) /\ nextId \in Nat \ {0}
      /\ \A k \in Prover!Job : job[k] \notin {"own", "retry"}
  BY <1>1, <1>2 DEF ProverInv, ProverTypes, ProverJobs, Prover!Job
<1>4. CASE undrained # None
  <2>1. job' = [job EXCEPT ![j] = "retry"] /\ UNCHANGED <<worker, live, nextId, timer>>
    BY <1>4, Zenon DEF Prover!Waited, Prover!MustRetry, Prover!workers
  <2>2. ProofQueue' /\ Prover!PlacesAreBounded' BY <1>1, <2>1, RequestsKept
  <2>3. job' \in [Prover!Job -> {"idle", "own", "wait", "retry", "done"}] BY <1>2, <2>1
  <2>4. ProverTypes' BY <1>1, <2>1, <2>3 DEF ProverInv, ProverTypes
  <2>5. OneThread(Prover!Job)' BY <1>1, <1>2, <1>3, <2>1 DEF OneThread
  <2>6. ProverJobs' BY <1>1, <1>2, <1>3, <1>4, <2>1, <2>3 DEF ProverJobs, Prover!Job
  <2> QED BY <2>2, <2>4, <2>5, <2>6 DEF ProverInv
<1>5. CASE undrained = None /\ j = "dispose"
  <2>1. job' = [job EXCEPT !["dispose"] = "done"] /\ UNCHANGED <<worker, live, nextId, timer>>
    BY <1>5, Zenon DEF Prover!Waited, Prover!MustRetry, Prover!Finish
  <2>2. ProofQueue' /\ Prover!PlacesAreBounded' BY <1>1, <2>1, RequestsKept
  <2>3. job' \in [Prover!Job -> {"idle", "own", "wait", "retry", "done"}] BY <1>2, <2>1
  <2>4. ProverTypes' BY <1>1, <2>1, <2>3 DEF ProverInv, ProverTypes
  <2>5. OneThread(Prover!Job)' BY <1>1, <1>2, <1>3, <2>1 DEF OneThread
  <2>6. ProverJobs' BY <1>1, <1>2, <1>3, <1>5, <2>1, <2>3 DEF ProverJobs, Prover!Job
  <2> QED BY <2>2, <2>4, <2>5, <2>6 DEF ProverInv
<1>6. CASE undrained = None /\ j = "reload"
  <2>1. job' = [job EXCEPT !["reload"] = "idle"] /\ Prover!StartGeneration(job')
    BY <1>6, Zenon DEF Prover!Waited, Prover!MustRetry, Prover!Finish
  <2>2. job' \in [Prover!Job -> {"idle", "own", "wait", "retry", "done"}] BY <1>2, <2>1
  <2>3. \A k \in Prover!Job : job'[k] \notin {"own", "retry"} BY <1>2, <1>3, <2>1
  <2>4. /\ nextId' \in Nat \ {0} /\ timer' \in BOOLEAN /\ (disposed => ~timer')
        /\ \/ UNCHANGED <<worker, live>>
           \/ /\ worker = None /\ undrained = None /\ ~disposed /\ job'["reload"] = "idle"
                   /\ job'["recovery"] = "idle"
              /\ worker' \in Provers /\ worker' # None /\ worker'.active = None
              /\ worker'.id \in 1 .. MaxGens /\ live' = {worker'.id}
    BY <1>1, <1>3, <2>1, StartsProver
  <2>5. ProofQueue' /\ Prover!PlacesAreBounded' BY <1>1, <2>4, RequestsKept
  <2>6. ProverTypes' BY <1>1, <2>2, <2>4 DEF ProverInv, ProverTypes
  <2>7. OneThread(Prover!Job)' BY <1>1, <1>2, <1>3, <2>3, <2>4 DEF OneThread
  <2>8. ProverJobs' BY <1>1, <1>2, <1>3, <2>1, <2>2, <2>3, <2>4 DEF ProverJobs, Prover!Job
  <2> QED BY <2>5, <2>6, <2>7, <2>8 DEF ProverInv
<1> QED BY <1>1, <1>4, <1>5, <1>6

LEMMA ProverInit == ASSUME Prover!CapacityAssumption, Prover!Init PROVE ProverInv
<1> USE DEF Prover!Init, Prover!Job
<1>1. ProverTypes
  <2>1. 1 \in 1 .. MaxGens /\ 0 \in 0 .. MaxGens BY DEF Prover!CapacityAssumption
  <2>2. worker \in Provers \cup {None}
    <3>1. [id |-> 1, ready |-> FALSE, active |-> None] \in Provers BY <2>1 DEF Provers
    <3>2. worker = [id |-> 1, ready |-> FALSE, active |-> None] \/ worker = None BY Zenon
    <3> QED BY <3>1, <3>2
  <2>3. /\ place \in [Request -> 0 .. MaxGens] /\ proofs \in Seq(Entries)
        /\ caller \in [Request -> {"new", "admitted", "waiting", "resolved", "rejected"}]
    BY <2>1
  <2>4. /\ job \in [Prover!Job -> {"idle", "own", "wait", "retry", "done"}]
        /\ jobGen \in [Prover!Job -> (1 .. MaxGens) \cup {None}]
    OBVIOUS
  <2>5. live \subseteq 1 .. MaxGens /\ undrained \in live \cup {None} /\ timer \in BOOLEAN /\ disposed \in BOOLEAN
    BY <2>1
  <2>6. nextId \in Nat \ {0} OBVIOUS
  <2> HIDE DEF Prover!Init, Prover!Job
  <2> QED BY <2>2, <2>3, <2>4, <2>5, <2>6 DEF ProverTypes
<1>2. OneThread(Prover!Job) /\ ProverJobs
  <2>1. \A j \in Prover!Job : job[j] = "idle" OBVIOUS
  <2>2. \/ worker.id = 1 /\ live = {1}
        \/ worker = None /\ live = {}
    OBVIOUS
  <2>3. undrained = None /\ ~disposed OBVIOUS
  <2>4. {"recovery", "reload", "dispose"} \subseteq Prover!Job OBVIOUS
  <2> HIDE DEF Prover!Init, Prover!Job
  <2>5. OneThread(Prover!Job)
    <3>1. worker # None => live = {worker.id} BY <2>2
    <3>2. worker = None /\ undrained = None /\ (\A j \in Prover!Job : job[j] # "own") => live = {}
      <4> DEFINE first == [id |-> 1, ready |-> FALSE, active |-> None]
      <4>1. 1 \in 1 .. MaxGens BY DEF Prover!CapacityAssumption
      <4>2. first \in Provers BY <4>1 DEF Provers
      <4>3. first # None BY <4>2 DEF Provers, Prover!CapacityAssumption
      <4>4. (worker = first /\ live = {1}) \/ live = {} BY Zenon DEF Prover!Init
      <4> HIDE DEF first
      <4> QED BY <4>3, <4>4
    <3> QED BY <2>1, <2>3, <3>1, <3>2 DEF OneThread
  <2>6. ProverJobs BY <2>1, <2>3, <2>4 DEF ProverJobs
  <2> QED BY <2>5, <2>6
<1>3. ProofQueue BY DEF ProofQueue, QueueOf, WaitingIn
<1>4. Prover!PlacesAreBounded
  <2>1. HeldPlaces(place) = {} /\ Len(proofs) = 0 BY DEF HeldPlaces
  <2>2. Cardinality(HeldPlaces(place)) = 0 /\ MaxPending \in Nat
    BY <2>1, FS_EmptySet DEF Prover!CapacityAssumption
  <2>3. \A q \in Request : place[q] = 0 OBVIOUS
  <2> HIDE DEF Prover!Init
  <2> QED BY <2>1, <2>2, <2>3, PlacesMean
<1> QED BY <1>1, <1>2, <1>3, <1>4 DEF ProverInv

LEMMA ProverStep ==
  ASSUME Prover!CapacityAssumption, ProverInv, [Prover!Next]_(Prover!vars)
  PROVE  ProverInv'
<1>1. CASE \E q \in Request : Prover!ReserveVerification(q) \/ Prover!ReleaseVerification(q) \/ Prover!VerifyTicket(q)
  BY <1>1, ReserveStep, ReleaseStep, VerifyTicketStep
<1>2. CASE Prover!WorkerFails \/ Prover!Timeout BY <1>2, ProverRecovers DEF Prover!WorkerFails, Prover!Timeout
<1>3. CASE \E j \in Prover!Job : Prover!OwnTerminated(j) \/ Prover!Waited(j) \/ Prover!Retried(j)
  BY <1>3, ProverOwnTerminated, ProverWaited, ProverRetried
<1>4. CASE UNCHANGED Prover!vars BY <1>4, ProverStutters
<1> QED BY <1>1, <1>2, <1>3, <1>4, WorkerInitStep, VerifiedTicketStep, ProverRecoveryEnds, ProverRestarts,
      ProverReloads,
        ProverDisposes DEF Prover!Next

\* The thread that checks ticket proofs is never doubled and has one proof at a time, the one marked
\* active; the places held and the proofs queued stay within the capacity and belong to the current
\* worker; who waits is in its queue; and a dispose that succeeded leaves no worker and no timer,
\* whatever terminations fail and however often they are repeated (ZupassPCD: reserveVerification,
\* dispatchNext, takeVerification, recoverGeneration, reload, dispose).
THEOREM OneProver ==
  ASSUME Prover!CapacityAssumption
  PROVE  Prover!Spec => [](Prover!TypeOK /\ Prover!OneWorker /\ Prover!PlacesAreBounded /\ Prover!OneProofAtATime
                          /\ Prover!DisposedIsDrained)
<1> DEFINE Safe == Prover!TypeOK /\ Prover!OneWorker /\ Prover!PlacesAreBounded /\ Prover!OneProofAtATime
                   /\ Prover!DisposedIsDrained
<1>1. Prover!Init => ProverInv BY ProverInit
<1>2. ProverInv /\ [Prover!Next]_(Prover!vars) => ProverInv' BY ProverStep
<1>3. ProverInv => Safe
  <2> SUFFICES ASSUME ProverInv PROVE Safe OBVIOUS
  <2>1. Prover!TypeOK BY DEF ProverInv, ProverTypes, Provers, Prover!TypeOK
  <2>2. Prover!OneWorker
    <3>1. live = {} \/ \E w : live = {w} BY DEF ProverInv, OneThread
    <3>2. CASE live = {} BY <3>2, FS_EmptySet, SameCardinalities DEF Prover!OneWorker
    <3>3. ASSUME NEW w, live = {w} PROVE Prover!OneWorker
      <4>1. Cardinality({w}) = 1 BY FS_Singleton
      <4> QED BY <3>3, <4>1, SameCardinalities DEF Prover!OneWorker
    <3> QED BY <3>1, <3>2, <3>3
  <2>3. Prover!OneProofAtATime
    <3>1. CASE worker = None
      BY <3>1 DEF ProverInv, ProofQueue, WaitingIn, Prover!OneProofAtATime
    <3>2. CASE worker # None
      <4>1. QueueOf(worker, proofs) /\ WaitingIn(caller, proofs) BY <3>2 DEF ProverInv, ProofQueue
      <4>2. worker.active # None => Prover!InFlight # {} BY <4>1 DEF QueueOf, Prover!InFlight
      <4> QED BY <3>2, <4>1, <4>2 DEF QueueOf, WaitingIn, Prover!OneProofAtATime
    <3> QED BY <3>1, <3>2
  <2>4. Prover!DisposedIsDrained
    BY DEF ProverInv, ProverJobs, OneThread, Prover!Job, Prover!DisposedIsDrained
  <2> QED BY <2>1, <2>2, <2>3, <2>4 DEF ProverInv
<1> HIDE DEF Safe
<1>4. Prover!Spec => []Safe BY <1>1, <1>2, <1>3, PTL DEF Prover!Spec
<1> QED BY <1>4 DEF Safe
=============================================================================
