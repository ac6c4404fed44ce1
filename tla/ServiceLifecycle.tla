-------------------------- MODULE ServiceLifecycle --------------------------
(***************************************************************************)
(* common/ServiceManager.ts, common/FaucetProcess.ts and the startup of    *)
(* app.ts: services are created on first use, started one after the other, *)
(* and stopped one by one or as a batch.  Startup, signals, late callers   *)
(* and the disposers of the services interleave at their awaits.           *)
(***************************************************************************)
EXTENDS Integers, Sequences, FiniteSets, FiniteSetTheorems, SequenceTheorems, TLAPS

CONSTANTS
  EarlySignal,   \* a signal may arrive before the startup has ended
  MaxInstances,  \* bound on service objects
  MaxStops,      \* bound on other callers of DisposeService
  MaxFaults      \* bound on failing operations

LifecycleAssumption == EarlySignal \in BOOLEAN /\ {MaxInstances, MaxStops, MaxFaults} \subseteq Nat

Service == {"db", "module", "session", "claim", "http"}
\* The order in which app.ts starts the services.
Startup == <<"db", "module", "session", "claim", "http">>
\* Mutant: the services that no step names are not stopped.
StepsNoBatch == <<"http", "wait", "claim", "wait", "wait", "wait", "module", "wait", "close">>
\* The steps of performShutdown; "wait" stands for the drains and the saves of sessions and modules.
Steps == <<"http", "wait", "claim", "wait", "wait", "wait", "module", "wait", "all", "close">>

VARIABLES
  obj,       \* service objects: [svc, run, disp, removal, calls]
  reg,       \* indexes of the registered objects
  batch,     \* _disposeBatchInstances of the batch in progress
  up,        \* index of the next service the startup initializes
  down,      \* step of performShutdown; 0 before the shutdown
  waiting,   \* the shutdown awaits its step
  exited, stops, faults

vars == <<obj, reg, batch, up, down, waiting, exited, stops, faults>>

None == 0
Init ==
  /\ obj = <<>> /\ reg = {} /\ batch = {}
  /\ up = 1 /\ down = 0 /\ waiting = None
  /\ exited = FALSE /\ stops = 0 /\ faults = 0

Fault == faults < MaxFaults /\ faults' = faults + 1
Registered(s) == {i \in reg : obj[i].svc = s}
\* GetServiceObj.
Found(s) == Registered(s)
NewObject(s) == [svc |-> s, run |-> FALSE, disp |-> "none", removal |-> FALSE, calls |-> 0]
Settled(i) == obj[i].disp \in {"ok", "failed"}
\* A service whose disposer failed may be left running; nothing else is known of it.
Works(o) == o.run /\ o.disp # "failed"

-----------------------------------------------------------------------------
\* GetService: the registered object of the class, or a new one.
GetService(s) ==
  IF Found(s) # {} THEN obj' = obj /\ reg' = reg
  ELSE /\ Len(obj) < MaxInstances
       /\ obj' = Append(obj, NewObject(s))
       /\ reg' = reg \cup {Len(obj) + 1}

\* Some part of the started program asks for a service that was removed.
Use(s) ==
  /\ ~exited /\ up > Len(Startup) /\ Found(s) = {} /\ GetService(s)
  /\ UNCHANGED <<batch, up, down, waiting, exited, faults, stops>>

\* app.ts: the next service is created and initialized, or its initialization fails.
StartService ==
  /\ ~exited /\ up <= Len(Startup)
  /\ LET s == Startup[up] IN
     IF Found(s) = {}
     THEN /\ Len(obj) < MaxInstances
          /\ obj' = Append(obj, [NewObject(s) EXCEPT !.run = TRUE]) /\ reg' = reg \cup {Len(obj) + 1}
     ELSE obj' = [i \in DOMAIN obj |-> IF i \in Registered(s) THEN [obj[i] EXCEPT !.run = TRUE] ELSE obj[i]] /\ reg' = reg
  /\ up' = up + 1
  /\ UNCHANGED <<batch, down, waiting, exited, faults, stops>>

\* shutdown: the first call starts it, later calls share its promise.
Shutdown == down = 0 /\ down' = 1 /\ waiting' = None

StartupFails ==
  /\ ~exited /\ up <= Len(Startup) /\ Fault
  /\ up' = Len(Startup) + 1
  /\ (Shutdown \/ (down # 0 /\ UNCHANGED <<down, waiting, stops>>))
  /\ UNCHANGED <<obj, reg, batch, exited, stops>>

\* SIGTERM, SIGINT, SIGQUIT or an uncaught exception.
Signal ==
  /\ EarlySignal \/ up > Len(Startup)
  /\ Shutdown
  /\ UNCHANGED <<obj, reg, batch, up, exited, faults, stops>>

-----------------------------------------------------------------------------
\* disposeService: the disposer of an object is called once and its promise shared.
DisposeObject(os, i) ==
  IF os[i].disp = "none" THEN [os EXCEPT ![i].disp = "running", ![i].calls = @ + 1] ELSE os

\* DisposeService: the registered object is disposed and then removed.
DisposeService(s) ==
  \E i \in Registered(s) :
    obj' = [DisposeObject(obj, i) EXCEPT ![i].removal = TRUE] /\ waiting' = i

\* Another caller stops a service of the started program.
Stop(s) ==
  /\ ~exited /\ up > Len(Startup) /\ stops < MaxStops /\ stops' = stops + 1
  /\ \E i \in Registered(s) : obj' = [DisposeObject(obj, i) EXCEPT ![i].removal = TRUE]
  /\ UNCHANGED <<reg, batch, up, down, waiting, exited, faults>>

\* The disposer of an object returns, or fails before or after it stopped the service; a
\* failure is reported, never retried.
Disposed(i) ==
  /\ ~exited /\ i \in DOMAIN obj /\ obj[i].disp = "running"
  /\ \/ obj' = [obj EXCEPT ![i].disp = "ok", ![i].run = FALSE] /\ UNCHANGED faults
     \/ Fault /\ \E run \in {obj[i].run, FALSE} : obj' = [obj EXCEPT ![i].disp = "failed", ![i].run = run]
  /\ UNCHANGED <<reg, batch, up, down, waiting, exited, stops>>

InBatch(i) == i \in batch

\* The end of DisposeService: members of a batch in progress stay registered.
RemovalSettled(i) ==
  /\ ~exited /\ i \in DOMAIN obj /\ obj[i].removal /\ Settled(i)
  /\ reg' = IF InBatch(i) THEN reg ELSE reg \ {i}
  /\ obj' = [obj EXCEPT ![i].removal = FALSE]
  /\ UNCHANGED <<batch, up, down, waiting, exited, faults, stops>>

\* DisposeAllServices: every registered object at once.
DisposeAllServices ==
  /\ batch' = reg
  /\ obj' = [i \in DOMAIN obj |-> IF i \in reg THEN DisposeObject(obj, i)[i] ELSE obj[i]]

\* Promise.allSettled.
BatchSettled == \A i \in batch : Settled(i)

-----------------------------------------------------------------------------
\* performShutdown: a step is begun when the one before has ended, with or without an error.
ShutdownStep ==
  /\ ~exited /\ down \in 1..Len(Steps) /\ waiting = None
  /\ CASE Steps[down] \in Service ->
            IF Registered(Steps[down]) # {}
            THEN DisposeService(Steps[down]) /\ UNCHANGED <<reg, batch, down, exited, faults>>
            ELSE down' = down + 1 /\ UNCHANGED <<obj, reg, batch, waiting, exited, faults>>
       [] Steps[down] = "all" -> DisposeAllServices /\ waiting' = -1 /\ UNCHANGED <<reg, down, exited, faults>>
       [] OTHER -> \/ down' = down + 1 /\ UNCHANGED <<obj, reg, batch, waiting, exited, faults>>
                   \/ Fault /\ down' = down + 1 /\ UNCHANGED <<obj, reg, batch, waiting, exited>>
  /\ UNCHANGED <<up, stops>>

StepEnded(i) == Settled(i)

ServiceStopped ==
  /\ ~exited /\ waiting > 0 /\ StepEnded(waiting) /\ ~obj[waiting].removal
  /\ waiting' = None /\ down' = down + 1
  /\ UNCHANGED <<obj, reg, batch, up, exited, faults, stops>>

\* disposeServices after its await: the members are removed, whatever their outcome.
BatchStopped ==
  /\ ~exited /\ waiting = -1 /\ BatchSettled
  /\ reg' = reg \ batch /\ batch' = {}
  /\ obj' = [i \in DOMAIN obj |-> IF i \in batch THEN [obj[i] EXCEPT !.removal = FALSE] ELSE obj[i]]
  /\ waiting' = None /\ down' = down + 1
  /\ UNCHANGED <<up, exited, faults, stops>>

Exit ==
  /\ ~exited /\ down > Len(Steps)
  /\ exited' = TRUE
  /\ UNCHANGED <<obj, reg, batch, up, down, waiting, faults, stops>>

Next ==
  \/ \E s \in Service : Use(s) \/ Stop(s)
  \/ \E i \in 1..MaxInstances : Disposed(i) \/ RemovalSettled(i)
  \/ StartService \/ StartupFails \/ Signal \/ ShutdownStep \/ ServiceStopped \/ BatchStopped \/ Exit

Spec == Init /\ [][Next]_vars

\* The steps that are weakly fair. Every disposer settles and the shutdown takes its
\* next step.
Weak ==
  ({"step", "stopped", "batch", "exit"} \X {0})
  \cup ({"disposed", "removed"} \X (1..MaxInstances))
WeakStep(k) ==
  CASE k[1] = "disposed" -> Disposed(k[2])
    [] k[1] = "removed" -> RemovalSettled(k[2])
    [] k[1] = "step" -> ShutdownStep
    [] k[1] = "stopped" -> ServiceStopped
    [] k[1] = "batch" -> BatchStopped
    [] k[1] = "exit" -> Exit

-----------------------------------------------------------------------------
TypeOK ==
  /\ \A i \in DOMAIN obj : obj[i].svc \in Service /\ obj[i].disp \in {"none", "running", "ok", "failed"}
  /\ reg \subseteq DOMAIN obj /\ batch \subseteq DOMAIN obj
  /\ \A s \in Service : Cardinality(Registered(s)) <= 1
  /\ waiting \in -1..Len(obj) /\ down \in 0..(Len(Steps) + 1)

\* No disposer runs twice, although the shutdown stops services one by one and again in
\* the batch, and a failed disposer stays registered until the batch ends.
DisposedOnce == \A i \in DOMAIN obj : obj[i].calls <= 1

\* While a batch has unfinished disposers, the services they may call stay registered.
BatchStaysRegistered == (\E i \in batch : ~Settled(i)) => batch \subseteq reg

\* An object leaves the registry only after its disposer has settled.
RemovedIsSettled == \A i \in DOMAIN obj : i \notin reg => Settled(i)

\* When the database is closed no service runs but one whose disposer failed: the order of
\* the shutdown leaves no writer.
ClosedLast == down > Len(Steps) => \A i \in DOMAIN obj : ~Works(obj[i])

\* HTTP admission stays closed after the first step of the shutdown, unless its disposer failed.
AdmissionStopped == down > 1 => \A i \in DOMAIN obj : obj[i].svc = "http" => ~Works(obj[i])

\* What comes in the end: a shutdown ends with the exit of the process, whatever fails.
ShutdownExited == down > 0 => exited

-----------------------------------------------------------------------------
(* What is proved for every number of service objects, callers and faults. *)

Objects ==
  [svc : Service, run : BOOLEAN, disp : {"none", "running", "ok", "failed"}, removal : BOOLEAN, calls : {0, 1}]

\* The registry: a disposer was called or not, what left the registry has been disposed,
\* and the members of a batch stay.
RegistryInv ==
  /\ obj \in Seq(Objects) /\ reg \subseteq 1..Len(obj) /\ batch \subseteq reg
  /\ \A i \in 1..Len(obj) : obj[i].calls = 0 <=> obj[i].disp = "none"
  /\ \A i \in 1..Len(obj) : i \notin reg => Settled(i)

\* One service of a class is registered, and a disposed service does not run again.
RunningInv ==
  /\ \A i, j \in reg : obj[i].svc = obj[j].svc => i = j
  /\ \A i \in 1..Len(obj) : Settled(i) => ~Works(obj[i])

\* The shutdown begins after the startup, and each of its steps leaves less that runs.
ShutdownInv ==
  /\ up \in Nat \ {0} /\ waiting \in -1..Len(obj) /\ down \in 0..11
  /\ up <= 5 => down = 0 /\ \A i \in 1..Len(obj) : obj[i].disp = "none"
  /\ waiting > 0 => down \in {1, 3, 7}
  /\ waiting = -1 => down = 9 /\ \A i \in 1..Len(obj) : Works(obj[i]) => i \in batch
  /\ down > 9 => \A i \in 1..Len(obj) : ~Works(obj[i])
  /\ waiting > 0 /\ down = 1 => \A i \in 1..Len(obj) : obj[i].svc = "http" /\ Works(obj[i]) => i = waiting
  /\ down > 1 => \A i \in 1..Len(obj) : obj[i].svc = "http" => ~Works(obj[i])

LifecycleInv == RegistryInv /\ RunningInv /\ ShutdownInv

\* What the steps of the shutdown are.
LEMMA StepKinds ==
  /\ Len(Steps) = 10 /\ Len(Startup) = 5
  /\ \A d \in 1..10 : (Steps[d] \in Service <=> d \in {1, 3, 7}) /\ (Steps[d] = "all" <=> d = 9)
  /\ Steps[1] = "http"
  /\ \A u \in 1..5 : Startup[u] \in Service
BY DEF Steps, Startup, Service

\* A sequence of the same length, given by its elements.
LEMMA SameLength ==
  ASSUME NEW S, NEW s \in Seq(S), NEW t \in [DOMAIN s -> S]
  PROVE  t \in Seq(S) /\ Len(t) = Len(s) /\ DOMAIN s = 1..Len(s)
<1>1. Len(s) \in Nat /\ DOMAIN s = 1..Len(s) BY LenProperties
<1>2. t \in Seq(S) BY <1>1, SeqDef
<1>3. Len(t) \in Nat /\ DOMAIN t = 1..Len(t) BY <1>2, LenProperties
<1> QED BY <1>1, <1>2, <1>3

\* A new object is registered; it has not been disposed.
LEMMA Created ==
  ASSUME RegistryInv, NEW o \in Objects, o.disp = "none", o.calls = 0,
         obj' = Append(obj, o), reg' = reg \union {Len(obj) + 1}, batch' = batch
  PROVE  /\ RegistryInv' /\ Len(obj) \in Nat /\ Len(obj') = Len(obj) + 1 /\ obj'[Len(obj) + 1] = o
         /\ \A i \in 1..Len(obj) : obj'[i] = obj[i]
<1>1. /\ obj' \in Seq(Objects) /\ Len(obj) \in Nat /\ Len(obj') = Len(obj) + 1 /\ obj'[Len(obj) + 1] = o
      /\ \A i \in 1..Len(obj) : obj'[i] = obj[i]
  BY DEF RegistryInv
<1>2. \A i \in 1..Len(obj') : i \in 1..Len(obj) \/ i = Len(obj) + 1 BY <1>1
<1>3. \A i \in 1..Len(obj') : obj'[i].calls = 0 <=> obj'[i].disp = "none" BY <1>1, <1>2 DEF RegistryInv
<1>4. \A i \in 1..Len(obj') : i \notin reg' => Settled(i)' BY <1>1, <1>2 DEF RegistryInv, Settled
<1>5. batch' \subseteq reg' /\ \A i \in reg' : i \in 1..Len(obj) \/ i = Len(obj) + 1 BY DEF RegistryInv
<1>6. reg' \subseteq 1..Len(obj') BY <1>1, <1>5
<1> QED BY <1>1, <1>3, <1>4, <1>5, <1>6 DEF RegistryInv

\* How a step may change an object.
Moves(i) ==
  /\ obj'[i] \in Objects /\ obj'[i].svc = obj[i].svc /\ (Works(obj'[i]) => Works(obj[i]))
  /\ \/ obj'[i].disp = obj[i].disp /\ obj'[i].calls = obj[i].calls
     \/ obj[i].disp = "none" /\ obj'[i].disp = "running" /\ obj'[i].calls = 1
     \/ obj[i].disp = "running" /\ Settled(i)' /\ obj'[i].calls = obj[i].calls /\ ~Works(obj'[i])

\* An object that stays as it is.
LEMMA UntouchedMoves ==
  ASSUME NEW i, obj[i] \in Objects, obj'[i] = obj[i] PROVE Moves(i)
BY DEF Moves, Objects

\* A step that only moves objects keeps the registry, and what does not run does not run.
LEMMA Moved ==
  ASSUME RegistryInv, RunningInv, obj' \in [DOMAIN obj -> Objects], \A i \in DOMAIN obj : Moves(i),
         reg' \subseteq reg, batch' \subseteq reg', \A i \in reg \ reg' : Settled(i)
  PROVE  /\ RegistryInv' /\ RunningInv' /\ Len(obj') = Len(obj) /\ DOMAIN obj = 1..Len(obj) /\ Len(obj) \in Nat
         /\ \A i \in 1..Len(obj) : obj[i] \in Objects /\ Moves(i)
<1>1. /\ obj' \in Seq(Objects) /\ Len(obj') = Len(obj) /\ DOMAIN obj = 1..Len(obj) /\ Len(obj) \in Nat
      /\ \A i \in 1..Len(obj) : obj[i] \in Objects /\ Moves(i)
  BY SameLength, LenProperties DEF RegistryInv
<1>2. \A i \in 1..Len(obj) : Settled(i) => Settled(i)' BY <1>1 DEF Moves, Settled
<1>3. RegistryInv'
  <2>1. \A i \in 1..Len(obj) : obj'[i].calls = 0 <=> obj'[i].disp = "none"
    BY <1>1 DEF RegistryInv, Moves, Settled
  <2> QED BY <1>1, <1>2, <2>1 DEF RegistryInv
<1>4. RunningInv' BY <1>1 DEF RunningInv, RegistryInv, Moves, Settled
<1> QED BY <1>1, <1>3, <1>4

\* The objects move while the shutdown stays where it is.
LEMMA MovedInPlace ==
  ASSUME LifecycleInv, obj' \in [DOMAIN obj -> Objects], \A i \in DOMAIN obj : Moves(i),
         reg' \subseteq reg, batch' = batch, batch \subseteq reg', \A i \in reg \ reg' : Settled(i),
         up > 5, UNCHANGED <<up, down, waiting>>
  PROVE  LifecycleInv'
<1>1. /\ RegistryInv' /\ RunningInv' /\ Len(obj') = Len(obj)
      /\ \A i \in 1..Len(obj) : obj[i] \in Objects /\ Moves(i)
  BY Moved DEF LifecycleInv
<1>2. ShutdownInv' BY <1>1 DEF LifecycleInv, ShutdownInv, Moves
<1> QED BY <1>1, <1>2 DEF LifecycleInv

\* disposeService calls the disposer of an object at most once.
LEMMA DisposeMoves ==
  ASSUME RegistryInv, NEW i \in reg, obj' = [DisposeObject(obj, i) EXCEPT ![i].removal = TRUE]
  PROVE  /\ obj' \in [DOMAIN obj -> Objects] /\ \A j \in DOMAIN obj : Moves(j)
         /\ obj'[i].disp # "none" /\ i \in 1..Len(obj)
<1>1. obj \in [1..Len(obj) -> Objects] /\ DOMAIN obj = 1..Len(obj) /\ i \in 1..Len(obj)
  BY LenProperties DEF RegistryInv
<1>2. obj[i] \in Objects /\ (obj[i].disp = "none" => obj[i].calls = 0) BY <1>1 DEF RegistryInv
<1>3. CASE obj[i].disp = "none"
  <2> DEFINE o == [obj[i] EXCEPT !.disp = "running", !.calls = 1, !.removal = TRUE]
  <2>1. obj' = [obj EXCEPT ![i] = o] BY <1>1, <1>2, <1>3 DEF DisposeObject, Objects
  <2>2. o \in Objects /\ o.svc = obj[i].svc /\ o.run = obj[i].run /\ o.disp = "running" /\ o.calls = 1
    BY <1>2 DEF Objects
  <2> HIDE DEF o
  <2> QED BY <1>1, <1>3, <2>1, <2>2, UntouchedMoves DEF Moves, Works
<1>4. CASE obj[i].disp # "none"
  <2> DEFINE o == [obj[i] EXCEPT !.removal = TRUE]
  <2>1. obj' = [obj EXCEPT ![i] = o] BY <1>1, <1>2, <1>4 DEF DisposeObject, Objects
  <2>2. o \in Objects /\ o.svc = obj[i].svc /\ o.run = obj[i].run /\ o.disp = obj[i].disp /\ o.calls = obj[i].calls
    BY <1>2 DEF Objects
  <2> HIDE DEF o
  <2> QED BY <1>1, <1>4, <2>1, <2>2, UntouchedMoves DEF Moves, Works
<1> QED BY <1>3, <1>4

\* The steps of disposers and of other callers.
LEMMA DisposerSteps ==
  ASSUME LifecycleInv,
         \/ \E s \in Service : Stop(s)
         \/ \E i \in 1..MaxInstances : Disposed(i) \/ RemovalSettled(i)
  PROVE  LifecycleInv'
<1>a. RegistryInv /\ RunningInv /\ ShutdownInv BY DEF LifecycleInv
<1>d. obj \in [1..Len(obj) -> Objects] /\ DOMAIN obj = 1..Len(obj)
  BY <1>a, LenProperties DEF RegistryInv
<1>1. ASSUME NEW s \in Service, Stop(s) PROVE LifecycleInv'
  <2>1. PICK i \in reg : obj' = [DisposeObject(obj, i) EXCEPT ![i].removal = TRUE]
    BY <1>1 DEF Stop, Registered
  <2>2. up > 5 /\ UNCHANGED <<reg, batch, up, down, waiting>> BY <1>1, StepKinds DEF Stop
  <2> QED BY <1>a, <2>1, <2>2, DisposeMoves, MovedInPlace DEF RegistryInv
<1>2. ASSUME NEW i, Disposed(i) PROVE LifecycleInv'
  <2>1. i \in 1..Len(obj) /\ obj[i].disp = "running" /\ UNCHANGED <<reg, batch, up, down, waiting>>
    BY <1>2, <1>d DEF Disposed
  <2>2. PICK d \in {"ok", "failed"}, r \in {obj[i].run, FALSE} :
          (d = "ok" => r = FALSE) /\ obj' = [obj EXCEPT ![i].disp = d, ![i].run = r]
    BY <1>2 DEF Disposed
  <2>3. obj' = [obj EXCEPT ![i] = [obj[i] EXCEPT !.disp = d, !.run = r]]
    BY <1>d, <2>1, <2>2 DEF Objects
  <2>o. obj'[i] = [obj[i] EXCEPT !.disp = d, !.run = r] /\ obj[i] \in Objects /\ obj'[i] \in Objects
    BY <1>d, <2>1, <2>3 DEF Objects
  <2>m. ~Works(obj'[i]) BY <2>2, <2>o DEF Works, Objects
  <2>n. Moves(i) BY <2>1, <2>o, <2>m DEF Moves, Settled, Objects
  <2>4. obj' \in [DOMAIN obj -> Objects] /\ \A j \in DOMAIN obj : Moves(j)
    BY <1>d, <2>1, <2>3, <2>o, <2>n, UntouchedMoves
  <2>5. up > 5 BY <1>a, <2>1 DEF ShutdownInv
  <2> QED BY <1>a, <2>1, <2>4, <2>5, MovedInPlace DEF RegistryInv
<1>3. ASSUME NEW i, RemovalSettled(i) PROVE LifecycleInv'
  <2>1. /\ i \in 1..Len(obj) /\ Settled(i) /\ UNCHANGED <<batch, up, down, waiting>>
        /\ obj' = [obj EXCEPT ![i].removal = FALSE] /\ reg' = IF i \in batch THEN reg ELSE reg \ {i}
    BY <1>3, <1>d DEF RemovalSettled, InBatch
  <2>2. obj' \in [DOMAIN obj -> Objects] /\ \A j \in DOMAIN obj : Moves(j)
    BY <1>d, <2>1 DEF Objects, Moves, Works
  <2>3. up > 5 BY <1>a, <2>1 DEF ShutdownInv, Settled
  <2> QED BY <1>a, <2>1, <2>2, <2>3, MovedInPlace DEF RegistryInv
<1> QED BY <1>1, <1>2, <1>3

\* A service is created by the startup or by a late caller, or started.
LEMMA CreatingSteps ==
  ASSUME LifecycleInv, StartService \/ \E s \in Service : Use(s)
  PROVE  LifecycleInv'
<1>a. RegistryInv /\ RunningInv /\ ShutdownInv BY DEF LifecycleInv
<1>d. obj \in [1..Len(obj) -> Objects] /\ DOMAIN obj = 1..Len(obj) /\ Len(obj) \in Nat
  BY <1>a, LenProperties DEF RegistryInv
<1>1. ASSUME NEW o \in Objects, o.disp = "none", o.calls = 0, Found(o.svc) = {},
             obj' = Append(obj, o), reg' = reg \union {Len(obj) + 1}, batch' = batch,
             UNCHANGED <<down, waiting>>, up' \in Nat \ {0}, up' >= up, Works(o) => up <= 5 /\ down = 0
      PROVE  LifecycleInv'
  <2>2. /\ RegistryInv' /\ Len(obj') = Len(obj) + 1 /\ obj'[Len(obj) + 1] = o
        /\ \A i \in 1..Len(obj) : obj'[i] = obj[i]
    BY <1>a, <1>1, Created
  <2>3. \A i \in 1..Len(obj') : i \in 1..Len(obj) \/ i = Len(obj) + 1 BY <1>d, <2>2
  <2>4. \A j \in reg : j \in 1..Len(obj) /\ obj[j].svc # o.svc BY <1>a, <1>1 DEF Found, Registered, RegistryInv
  <2>5. RunningInv'
    <3>1. \A i \in 1..Len(obj') : Settled(i)' => ~Works(obj'[i]) BY <1>a, <1>1, <2>2, <2>3 DEF RunningInv, Settled
    <3>2. \A i, j \in reg' : obj'[i].svc = obj'[j].svc => i = j
      BY <1>a, <1>1, <2>2, <2>4 DEF RunningInv
    <3> QED BY <3>1, <3>2 DEF RunningInv
  <2>6. /\ up' \in Nat \ {0} /\ waiting' \in -1..Len(obj') /\ down' \in 0..11
        /\ up' <= 5 => down' = 0 /\ \A i \in 1..Len(obj') : obj'[i].disp = "none"
        /\ waiting' > 0 => down' \in {1, 3, 7}
    BY <1>a, <1>d, <1>1, <2>2, <2>3 DEF ShutdownInv
  <2>7. \A i \in 1..Len(obj') : Works(obj'[i]) => down = 0 \/ (i \in 1..Len(obj) /\ obj'[i] = obj[i])
    BY <1>1, <2>2, <2>3
  <2>8. ShutdownInv' BY <1>a, <1>1, <2>6, <2>7 DEF ShutdownInv
  <2> QED BY <2>2, <2>5, <2>8 DEF LifecycleInv
<1>2. ASSUME NEW s \in Service, Use(s) PROVE LifecycleInv'
  <2>1. LET o == NewObject(s)
        IN  o \in Objects /\ o.disp = "none" /\ o.calls = 0 /\ o.svc = s /\ o.run = FALSE
    BY DEF NewObject, Objects
  <2>2. /\ Found(s) = {} /\ obj' = Append(obj, NewObject(s)) /\ reg' = reg \union {Len(obj) + 1}
        /\ UNCHANGED <<batch, up, down, waiting>>
    BY <1>2 DEF Use, GetService
  <2> QED BY <1>a, <1>1, <2>1, <2>2 DEF ShutdownInv, Works
<1>3. CASE StartService
  <2>1. /\ up \in 1..5 /\ up' = up + 1 /\ down = 0 /\ waiting = 0
        /\ UNCHANGED <<batch, down, waiting>> /\ Startup[up] \in Service
        /\ \A i \in 1..Len(obj) : obj[i].disp = "none"
    BY <1>a, <1>3, StepKinds DEF StartService, ShutdownInv
  <2>2. CASE Found(Startup[up]) = {}
    <3> DEFINE o == [NewObject(Startup[up]) EXCEPT !.run = TRUE]
    <3>1. o \in Objects /\ o.disp = "none" /\ o.calls = 0 /\ o.svc = Startup[up]
      BY <2>1 DEF NewObject, Objects
    <3>2. obj' = Append(obj, o) /\ reg' = reg \union {Len(obj) + 1} BY <1>3, <2>2 DEF StartService
    <3> HIDE DEF o
    <3>3. up' \in Nat \ {0} /\ up' >= up /\ up <= 5 BY <2>1
    <3>4. Found(o.svc) = {} BY <2>2, <3>1
    <3> QED BY <1>1, <2>1, <3>1, <3>2, <3>3, <3>4
  <2>3. CASE Found(Startup[up]) # {}
    <3>1. /\ reg' = reg
          /\ obj' = [i \in DOMAIN obj |-> IF i \in Registered(Startup[up]) THEN [obj[i] EXCEPT !.run = TRUE] ELSE obj[i]]
      BY <1>3, <2>3 DEF StartService
    <3>2. ASSUME NEW i \in 1..Len(obj)
          PROVE  /\ obj'[i] \in Objects /\ obj'[i].svc = obj[i].svc /\ obj'[i].disp = "none"
                 /\ obj'[i].calls = obj[i].calls
      BY <1>d, <2>1, <3>1, <3>2 DEF Objects
    <3>3. obj' \in [DOMAIN obj -> Objects] BY <1>d, <3>1, <3>2
    <3>4. obj' \in Seq(Objects) /\ Len(obj') = Len(obj) BY <1>a, <3>3, SameLength DEF RegistryInv
    <3>5. RegistryInv' BY <1>a, <2>1, <3>1, <3>2, <3>4 DEF RegistryInv, Settled
    <3>r. \A i \in reg : i \in 1..Len(obj) BY <1>a DEF RegistryInv
    <3>s. \A i \in 1..Len(obj') : ~Settled(i)' BY <3>2, <3>4 DEF Settled
    <3>6. RunningInv' BY <1>a, <3>1, <3>2, <3>r, <3>s DEF RunningInv
    <3>7. ShutdownInv' BY <1>a, <2>1, <3>2, <3>4 DEF ShutdownInv
    <3> QED BY <3>5, <3>6, <3>7 DEF LifecycleInv
  <2> QED BY <2>2, <2>3
<1> QED BY <1>2, <1>3

\* The startup fails, a signal arrives, a step of the shutdown ends, or the process exits.
LEMMA PassiveSteps ==
  ASSUME LifecycleInv, EarlySignal = FALSE,
         StartupFails \/ Signal \/ ServiceStopped \/ Exit \/ UNCHANGED vars
  PROVE  LifecycleInv'
<1>a. RegistryInv /\ RunningInv /\ ShutdownInv BY DEF LifecycleInv
<1>d. obj \in [1..Len(obj) -> Objects] /\ DOMAIN obj = 1..Len(obj) /\ Len(obj) \in Nat
  BY <1>a, LenProperties DEF RegistryInv
<1>0. UNCHANGED <<obj, reg, batch>> BY DEF StartupFails, Signal, ServiceStopped, Exit, vars
<1>1. RegistryInv' /\ RunningInv' BY <1>a, <1>0 DEF RegistryInv, RunningInv, Settled
<1>2. CASE StartupFails
  <2>1. up' = 6 /\ ((down = 0 /\ down' = 1 /\ waiting' = 0) \/ UNCHANGED <<down, waiting>>)
    BY <1>2, StepKinds DEF StartupFails, Shutdown, None
  <2>2. ShutdownInv' BY <1>a, <1>d, <1>0, <2>1 DEF ShutdownInv
  <2> QED BY <1>1, <2>2 DEF LifecycleInv
<1>3. CASE Signal
  <2>1. up > 5 /\ down = 0 /\ down' = 1 /\ waiting' = 0 /\ up' = up
    BY <1>3, StepKinds DEF Signal, Shutdown, None
  <2>2. ShutdownInv' BY <1>a, <1>d, <1>0, <2>1 DEF ShutdownInv
  <2> QED BY <1>1, <2>2 DEF LifecycleInv
<1>4. CASE ServiceStopped
  <2>1. waiting > 0 /\ Settled(waiting) /\ waiting' = 0 /\ down' = down + 1 /\ up' = up
    BY <1>4 DEF ServiceStopped, StepEnded, None
  <2>2. waiting \in 1..Len(obj) /\ ~Works(obj[waiting]) /\ down \in {1, 3, 7} /\ up > 5
    BY <1>a, <1>d, <2>1 DEF ShutdownInv, RunningInv
  <2>3. ShutdownInv' BY <1>a, <1>d, <1>0, <2>1, <2>2 DEF ShutdownInv
  <2> QED BY <1>1, <2>3 DEF LifecycleInv
<1>5. CASE Exit \/ UNCHANGED vars
  <2>1. UNCHANGED <<up, down, waiting>> BY <1>5 DEF Exit, vars
  <2>2. ShutdownInv' BY <1>a, <1>0, <2>1 DEF ShutdownInv
  <2> QED BY <1>1, <2>2 DEF LifecycleInv
<1> QED BY <1>2, <1>3, <1>4, <1>5

\* A step of the shutdown begins.
LEMMA ShutdownBegins ==
  ASSUME LifecycleInv, ShutdownStep
  PROVE  LifecycleInv'
<1>a. RegistryInv /\ RunningInv /\ ShutdownInv BY DEF LifecycleInv
<1>d. obj \in [1..Len(obj) -> Objects] /\ DOMAIN obj = 1..Len(obj) /\ Len(obj) \in Nat
  BY <1>a, LenProperties DEF RegistryInv
<1>0. down \in 1..10 /\ waiting = 0 /\ up > 5 /\ up' = up
  BY <1>a, StepKinds DEF ShutdownStep, ShutdownInv, None
<1>1. CASE Steps[down] \in Service /\ Registered(Steps[down]) # {}
  <2>1. down \in {1, 3, 7} BY <1>0, <1>1, StepKinds
  <2>2. PICK i \in Registered(Steps[down]) :
          obj' = [DisposeObject(obj, i) EXCEPT ![i].removal = TRUE] /\ waiting' = i
    BY <1>1 DEF ShutdownStep, DisposeService, Service
  <2>3. UNCHANGED <<reg, batch, down>> BY <1>1 DEF ShutdownStep, Service
  <2>4. i \in reg /\ obj[i].svc = Steps[down] BY <2>2 DEF Registered
  <2>5. /\ obj' \in [DOMAIN obj -> Objects] /\ \A j \in DOMAIN obj : Moves(j)
        /\ i \in 1..Len(obj)
    BY <1>a, <2>2, <2>4, DisposeMoves
  <2>6. /\ RegistryInv' /\ RunningInv' /\ Len(obj') = Len(obj)
        /\ \A j \in 1..Len(obj) : obj[j] \in Objects /\ Moves(j)
    BY <1>a, <2>3, <2>5, Moved DEF RegistryInv
  <2>7. down = 1 => \A j \in 1..Len(obj) : obj[j].svc = "http" /\ Works(obj[j]) => j = i
    BY <1>a, <2>4, StepKinds DEF RunningInv, RegistryInv
  <2>8. \A j \in 1..Len(obj) : (Works(obj'[j]) => Works(obj[j])) /\ obj'[j].svc = obj[j].svc
    BY <2>6 DEF Moves
  <2>9. waiting' = i /\ i \in 1..Len(obj) /\ down' = down /\ up' = up /\ Len(obj') = Len(obj)
    BY <1>0, <2>2, <2>3, <2>5, <2>6
  <2>10. ShutdownInv' BY <1>a, <1>0, <1>d, <2>1, <2>7, <2>8, <2>9 DEF ShutdownInv
  <2> QED BY <2>6, <2>10 DEF LifecycleInv
<1>2. CASE down # 9 /\ down' = down + 1 /\ UNCHANGED <<obj, reg, batch, waiting>>
           /\ (down = 1 => Registered("http") = {})
  <2>1. RegistryInv' /\ RunningInv' BY <1>a, <1>2 DEF RegistryInv, RunningInv, Settled
  <2>2. down = 1 => \A j \in 1..Len(obj) : obj[j].svc = "http" => ~Works(obj[j])
    BY <1>a, <1>2 DEF Registered, RegistryInv, RunningInv
  <2>3. ShutdownInv' BY <1>a, <1>0, <1>2, <2>2 DEF ShutdownInv
  <2> QED BY <2>1, <2>3 DEF LifecycleInv
<1>3. CASE Steps[down] = "all"
  <2>1. down = 9 BY <1>0, <1>3, StepKinds
  <2>2. /\ batch' = reg /\ waiting' = -1 /\ UNCHANGED <<reg, down>>
        /\ obj' = [i \in DOMAIN obj |-> IF i \in reg THEN DisposeObject(obj, i)[i] ELSE obj[i]]
    BY <1>3 DEF ShutdownStep, DisposeAllServices, Service
  <2>3. ASSUME NEW i \in DOMAIN obj PROVE obj'[i] \in Objects /\ Moves(i)
    <3>1. obj[i] \in Objects /\ (obj[i].disp = "none" => obj[i].calls = 0) BY <1>a, <1>d DEF RegistryInv
    <3>2. CASE i \in reg /\ obj[i].disp = "none"
      <4> DEFINE o == [obj[i] EXCEPT !.disp = "running", !.calls = @ + 1]
      <4>0. DisposeObject(obj, i) = [obj EXCEPT ![i] = o] BY <1>d, <3>1, <3>2 DEF DisposeObject
      <4>1. obj'[i] = o BY <1>d, <2>2, <3>2, <4>0
      <4>c. obj[i].calls + 1 = 1 BY <3>1, <3>2
      <4>a. o = [obj[i] EXCEPT !.disp = "running", !.calls = 1] BY <4>c
      <4>2. o \in Objects /\ o.svc = obj[i].svc /\ o.run = obj[i].run /\ o.disp = "running" /\ o.calls = 1
        BY <3>1, <4>a DEF Objects
      <4> HIDE DEF o
      <4> QED BY <3>2, <4>1, <4>2 DEF Moves, Works
    <3>3. CASE ~(i \in reg /\ obj[i].disp = "none")
      <4>1. obj'[i] = obj[i] BY <2>2, <3>3 DEF DisposeObject
      <4> QED BY <3>1, <4>1, UntouchedMoves
    <3> QED BY <3>2, <3>3
  <2>4. obj' \in [DOMAIN obj -> Objects] BY <2>2, <2>3
  <2>5. /\ RegistryInv' /\ RunningInv' /\ Len(obj') = Len(obj)
        /\ \A j \in 1..Len(obj) : obj[j] \in Objects /\ Moves(j)
    BY <1>a, <2>2, <2>3, <2>4, Moved
  <2>6. \A j \in 1..Len(obj) : Works(obj[j]) => j \in reg BY <1>a DEF RegistryInv, RunningInv
  <2>7. ShutdownInv' BY <1>a, <1>0, <1>d, <2>1, <2>2, <2>5, <2>6 DEF ShutdownInv, Moves
  <2> QED BY <2>5, <2>7 DEF LifecycleInv
<1>4. CASE Steps[down] \in Service /\ Registered(Steps[down]) = {}
  <2>1. down # 9 /\ (down = 1 => Registered("http") = {}) BY <1>0, <1>4, StepKinds
  <2> QED BY <1>2, <1>4, <2>1 DEF ShutdownStep, Service
<1>5. CASE Steps[down] \notin Service /\ Steps[down] # "all"
  <2>1. down # 9 /\ down # 1 BY <1>0, <1>5, StepKinds
  <2> QED BY <1>2, <1>5, <2>1 DEF ShutdownStep
<1> QED BY <1>1, <1>3, <1>4, <1>5

\* All disposers of the batch have settled: nothing runs.
LEMMA BatchEnds ==
  ASSUME LifecycleInv, BatchStopped
  PROVE  LifecycleInv'
<1>a. RegistryInv /\ RunningInv /\ ShutdownInv BY DEF LifecycleInv
<1>d. obj \in [1..Len(obj) -> Objects] /\ DOMAIN obj = 1..Len(obj) /\ Len(obj) \in Nat
  BY <1>a, LenProperties DEF RegistryInv
<1>0. /\ waiting = -1 /\ (\A i \in batch : Settled(i)) /\ reg' = reg \ batch /\ batch' = {}
      /\ obj' = [i \in DOMAIN obj |-> IF i \in batch THEN [obj[i] EXCEPT !.removal = FALSE] ELSE obj[i]]
      /\ waiting' = 0 /\ down' = down + 1 /\ up' = up
  BY DEF BatchStopped, BatchSettled, None
<1>1. \A i \in DOMAIN obj : obj'[i] \in Objects /\ Moves(i) BY <1>d, <1>0 DEF Objects, Moves, Works
<1>2. obj' \in [DOMAIN obj -> Objects] BY <1>0, <1>1
<1>3. /\ RegistryInv' /\ RunningInv' /\ Len(obj') = Len(obj)
      /\ \A j \in 1..Len(obj) : obj[j] \in Objects /\ Moves(j)
  BY <1>a, <1>0, <1>1, <1>2, Moved
<1>4. down = 9 /\ up > 5 BY <1>a, <1>0 DEF ShutdownInv
<1>5. \A i \in 1..Len(obj) : ~Works(obj[i]) BY <1>a, <1>0 DEF ShutdownInv, RunningInv, RegistryInv
<1>6. ShutdownInv' BY <1>a, <1>d, <1>0, <1>3, <1>4, <1>5 DEF ShutdownInv, Moves
<1> QED BY <1>3, <1>6 DEF LifecycleInv

\* The order of the shutdown is kept by every step, when signals are handled after the startup.
THEOREM LifecycleInvariance == ASSUME EarlySignal = FALSE PROVE Spec => []LifecycleInv
<1>1. Init => LifecycleInv
  BY EmptySeq DEF Init, LifecycleInv, RegistryInv, RunningInv, ShutdownInv, None
<1>2. LifecycleInv /\ [Next]_vars => LifecycleInv'
  BY DisposerSteps, CreatingSteps, PassiveSteps, ShutdownBegins, BatchEnds DEF Next
<1> QED BY <1>1, <1>2, PTL DEF Spec

\* When the database is closed no service runs, and no HTTP service after the first step of the
\* shutdown, but one whose disposer failed; no disposer is called twice, what left the registry
\* has been disposed, and a batch stays registered while a disposer of it works.
THEOREM ShutdownIsOrdered ==
  ASSUME EarlySignal = FALSE
  PROVE  Spec => [](/\ ClosedLast /\ AdmissionStopped /\ DisposedOnce /\ RemovedIsSettled
                    /\ BatchStaysRegistered)
<1>1. LifecycleInv => /\ ClosedLast /\ AdmissionStopped /\ DisposedOnce /\ RemovedIsSettled
                      /\ BatchStaysRegistered
  <2> SUFFICES ASSUME LifecycleInv
               PROVE  /\ ClosedLast /\ AdmissionStopped /\ DisposedOnce /\ RemovedIsSettled
                      /\ BatchStaysRegistered
    OBVIOUS
  <2>1. RegistryInv /\ ShutdownInv BY DEF LifecycleInv
  <2>2. DOMAIN obj = 1..Len(obj) /\ obj \in [1..Len(obj) -> Objects] BY <2>1, LenProperties DEF RegistryInv
  <2>3. ClosedLast /\ AdmissionStopped BY <2>1, <2>2, StepKinds DEF ShutdownInv, ClosedLast, AdmissionStopped
  <2>4. DisposedOnce BY <2>2 DEF DisposedOnce, Objects
  <2>5. RemovedIsSettled /\ BatchStaysRegistered BY <2>1, <2>2 DEF RegistryInv, RemovedIsSettled, BatchStaysRegistered
  <2> QED BY <2>3, <2>4, <2>5
<1> QED BY <1>1, LifecycleInvariance, PTL

-----------------------------------------------------------------------------
(* What holds whenever a signal arrives.  A signal during the startup lets  *)
(* a stopped service run again; the registry is sound even then.            *)

\* A step keeps what an object is, and calls its disposer at most once.
Keeps(i) ==
  /\ obj'[i].svc = obj[i].svc
  /\ \/ obj'[i].disp = obj[i].disp /\ obj'[i].calls = obj[i].calls
     \/ obj[i].disp = "none" /\ obj'[i].disp = "running" /\ obj'[i].calls = 1
     \/ obj[i].disp = "running" /\ Settled(i)' /\ obj'[i].calls = obj[i].calls

\* The inductive invariant: the registry, one object of a class, and the place of the shutdown.
RegistryIsSound ==
  /\ RegistryInv
  /\ \A i, j \in reg : obj[i].svc = obj[j].svc => i = j
  /\ up \in Nat \ {0} /\ waiting \in -1..Len(obj) /\ down \in 0..11 /\ (waiting # 0 => down \in 1..10)

\* A step that keeps the objects keeps the registry.
LEMMA KeptRegistry ==
  ASSUME RegistryIsSound, obj' \in [DOMAIN obj -> Objects], \A i \in DOMAIN obj : Keeps(i),
         reg' \subseteq reg, batch' \subseteq reg', \A i \in reg \ reg' : Settled(i),
         up' \in Nat \ {0}, waiting' \in -1..Len(obj), down' \in 0..11, waiting' # 0 => down' \in 1..10
  PROVE  RegistryIsSound'
<1>1. RegistryInv BY DEF RegistryIsSound
<1>2. obj' \in Seq(Objects) /\ Len(obj') = Len(obj) /\ DOMAIN obj = 1..Len(obj)
  BY <1>1, SameLength, LenProperties DEF RegistryInv
<1>3. \A i \in 1..Len(obj) : Settled(i) => Settled(i)' BY <1>2 DEF Keeps, Settled
<1>4. \A i \in 1..Len(obj) : obj'[i].calls = 0 <=> obj'[i].disp = "none"
  BY <1>1, <1>2 DEF RegistryInv, Keeps, Settled
<1>5. RegistryInv' BY <1>1, <1>2, <1>3, <1>4 DEF RegistryInv
<1>6. \A i, j \in reg' : obj'[i].svc = obj'[j].svc => i = j
  BY <1>1, <1>2 DEF RegistryIsSound, RegistryInv, Keeps
<1> QED BY <1>2, <1>5, <1>6 DEF RegistryIsSound

\* A service is created while none of its class is registered.
LEMMA CreatedAlone ==
  ASSUME RegistryIsSound, NEW o \in Objects, o.disp = "none", o.calls = 0, Found(o.svc) = {},
         obj' = Append(obj, o), reg' = reg \union {Len(obj) + 1}, UNCHANGED <<batch, down, waiting>>,
         up' \in Nat \ {0}
  PROVE  RegistryIsSound'
<1>1. /\ RegistryInv' /\ Len(obj) \in Nat /\ Len(obj') = Len(obj) + 1 /\ obj'[Len(obj) + 1] = o
      /\ \A i \in 1..Len(obj) : obj'[i] = obj[i]
  BY Created DEF RegistryIsSound
<1>2. \A j \in reg : j \in 1..Len(obj) /\ obj[j].svc # o.svc
  BY DEF Found, Registered, RegistryIsSound, RegistryInv
<1>3. \A i, j \in reg' : obj'[i].svc = obj'[j].svc => i = j BY <1>1, <1>2 DEF RegistryIsSound
<1>4. waiting \in -1..Len(obj') BY <1>1 DEF RegistryIsSound
<1> QED BY <1>1, <1>3, <1>4 DEF RegistryIsSound

\* The steps of the startup, of late callers and of disposers.
LEMMA RegistrySteps ==
  ASSUME RegistryIsSound,
         \/ StartService \/ \E s \in Service : Use(s) \/ Stop(s)
         \/ \E i \in 1..MaxInstances : Disposed(i) \/ RemovalSettled(i)
  PROVE  RegistryIsSound'
<1>a. RegistryInv BY DEF RegistryIsSound
<1>d. obj \in [1..Len(obj) -> Objects] /\ DOMAIN obj = 1..Len(obj) /\ Len(obj) \in Nat
  BY <1>a, LenProperties DEF RegistryInv
<1>k. \A i : Moves(i) => Keeps(i) BY DEF Moves, Keeps
<1>p. /\ up \in Nat \ {0} /\ waiting \in -1..Len(obj) /\ down \in 0..11 /\ (waiting # 0 => down \in 1..10)
      /\ batch \subseteq reg
  BY DEF RegistryIsSound, RegistryInv
<1>1. ASSUME NEW s \in Service, Use(s) PROVE RegistryIsSound'
  <2>1. LET o == NewObject(s) IN o \in Objects /\ o.disp = "none" /\ o.calls = 0 /\ o.svc = s
    BY DEF NewObject, Objects
  <2>2. /\ Found(s) = {} /\ obj' = Append(obj, NewObject(s)) /\ reg' = reg \union {Len(obj) + 1}
        /\ UNCHANGED <<batch, up, down, waiting>>
    BY <1>1 DEF Use, GetService
  <2> QED BY <1>p, <2>1, <2>2, CreatedAlone
<1>2. ASSUME NEW s \in Service, Stop(s) PROVE RegistryIsSound'
  <2>1. PICK i \in reg : obj' = [DisposeObject(obj, i) EXCEPT ![i].removal = TRUE]
    BY <1>2 DEF Stop, Registered
  <2>2. UNCHANGED <<reg, batch, up, down, waiting>> BY <1>2 DEF Stop
  <2>3. obj' \in [DOMAIN obj -> Objects] /\ \A j \in DOMAIN obj : Keeps(j) BY <1>a, <1>k, <2>1, DisposeMoves
  <2> QED BY <1>p, <2>2, <2>3, KeptRegistry
<1>3. ASSUME NEW i, Disposed(i) PROVE RegistryIsSound'
  <2>1. i \in 1..Len(obj) /\ obj[i].disp = "running" /\ UNCHANGED <<reg, batch, up, down, waiting>>
    BY <1>3, <1>d DEF Disposed
  <2>2. PICK d \in {"ok", "failed"}, r \in {obj[i].run, FALSE} :
          (d = "ok" => r = FALSE) /\ obj' = [obj EXCEPT ![i].disp = d, ![i].run = r]
    BY <1>3 DEF Disposed
  <2>3. obj' = [obj EXCEPT ![i] = [obj[i] EXCEPT !.disp = d, !.run = r]]
    BY <1>d, <2>1, <2>2 DEF Objects
  <2>4. obj' \in [DOMAIN obj -> Objects] /\ \A j \in DOMAIN obj : Keeps(j)
    BY <1>d, <2>1, <2>3 DEF Objects, Keeps, Settled
  <2> QED BY <1>p, <2>1, <2>4, KeptRegistry
<1>4. ASSUME NEW i, RemovalSettled(i) PROVE RegistryIsSound'
  <2>1. /\ i \in 1..Len(obj) /\ Settled(i) /\ UNCHANGED <<batch, up, down, waiting>>
        /\ obj' = [obj EXCEPT ![i].removal = FALSE] /\ reg' = IF i \in batch THEN reg ELSE reg \ {i}
    BY <1>4, <1>d DEF RemovalSettled, InBatch
  <2>2. obj' \in [DOMAIN obj -> Objects] /\ \A j \in DOMAIN obj : Keeps(j)
    BY <1>d, <2>1 DEF Objects, Keeps
  <2> QED BY <1>p, <2>1, <2>2, KeptRegistry
<1>5. CASE StartService
  <2>1. UNCHANGED <<batch, down, waiting>> /\ up \in 1..5 /\ up' \in Nat \ {0} BY <1>5, <1>p, StepKinds DEF StartService
  <2>2. PICK s \in Service : s = Startup[up] BY <2>1, StepKinds
  <2>3. CASE Found(s) = {}
    <3> DEFINE o == [NewObject(s) EXCEPT !.run = TRUE]
    <3>1. obj' = Append(obj, o) /\ reg' = reg \union {Len(obj) + 1} BY <1>5, <2>2, <2>3 DEF StartService
    <3>2. o.disp = "none" /\ o.calls = 0 /\ o.svc = s BY DEF NewObject
    <3>3. o \in Objects BY DEF NewObject, Objects
    <3> HIDE DEF o
    <3> QED BY <2>1, <2>3, <3>1, <3>2, <3>3, CreatedAlone
  <2>4. CASE Found(s) # {}
    <3>1. /\ reg' = reg
          /\ obj' = [i \in DOMAIN obj |-> IF i \in Registered(s) THEN [obj[i] EXCEPT !.run = TRUE] ELSE obj[i]]
      BY <1>5, <2>2, <2>4 DEF StartService
    <3>2. \A i \in DOMAIN obj : obj'[i] \in Objects /\ Keeps(i) BY <1>d, <3>1 DEF Objects, Keeps
    <3>3. obj' \in [DOMAIN obj -> Objects] BY <3>1, <3>2
    <3> QED BY <1>p, <2>1, <3>1, <3>2, <3>3, KeptRegistry
  <2> QED BY <2>3, <2>4
<1> QED BY <1>1, <1>2, <1>3, <1>4, <1>5

\* The steps of the shutdown, and those that only begin or end it.
LEMMA ShutdownKeepsRegistry ==
  ASSUME RegistryIsSound, StartupFails \/ Signal \/ ShutdownStep \/ ServiceStopped \/ BatchStopped \/ Exit \/ UNCHANGED vars
  PROVE  RegistryIsSound'
<1>a. RegistryInv BY DEF RegistryIsSound
<1>d. obj \in [1..Len(obj) -> Objects] /\ DOMAIN obj = 1..Len(obj) /\ Len(obj) \in Nat
  BY <1>a, LenProperties DEF RegistryInv
<1>k. \A i : Moves(i) => Keeps(i) BY DEF Moves, Keeps
<1>p. /\ up \in Nat \ {0} /\ waiting \in -1..Len(obj) /\ down \in 0..11 /\ (waiting # 0 => down \in 1..10)
      /\ batch \subseteq reg
  BY DEF RegistryIsSound, RegistryInv
<1>s. /\ obj \in [DOMAIN obj -> Objects]
      /\ \A i \in DOMAIN obj : obj[i] \in Objects /\ (obj'[i] = obj[i] => Keeps(i))
  BY <1>d DEF Keeps
<1>1. ASSUME UNCHANGED <<obj, reg, batch>>, up' \in Nat \ {0}, waiting' \in -1..Len(obj), down' \in 0..11,
             waiting' # 0 => down' \in 1..10
      PROVE  RegistryIsSound'
  BY <1>1, <1>p, <1>s, KeptRegistry
<1>2. CASE StartupFails \/ Signal
  <2>1. /\ UNCHANGED <<obj, reg, batch>> /\ up' \in {up, 6}
        /\ (down' = 1 /\ waiting' = 0) \/ UNCHANGED <<down, waiting>>
    BY <1>2, StepKinds DEF StartupFails, Signal, Shutdown, None
  <2> QED BY <1>1, <1>p, <2>1
<1>3. CASE ServiceStopped
  <2>1. UNCHANGED <<obj, reg, batch, up>> /\ waiting > 0 /\ waiting' = 0 /\ down' = down + 1
    BY <1>3 DEF ServiceStopped, None
  <2> QED BY <1>1, <1>p, <2>1
<1>4. CASE Exit \/ UNCHANGED vars
  <2>1. UNCHANGED <<obj, reg, batch, up, down, waiting>> BY <1>4 DEF Exit, vars
  <2> QED BY <1>1, <1>p, <2>1
<1>5. CASE ShutdownStep
  <2>0. down \in 1..10 /\ waiting = 0 /\ up' = up BY <1>5, <1>p, StepKinds DEF ShutdownStep, None
  <2>1. CASE Steps[down] \in Service /\ Registered(Steps[down]) # {}
    <3>1. PICK i \in Registered(Steps[down]) :
            obj' = [DisposeObject(obj, i) EXCEPT ![i].removal = TRUE] /\ waiting' = i
      BY <1>5, <2>1 DEF ShutdownStep, DisposeService, Service
    <3>2. UNCHANGED <<reg, batch, down>> BY <1>5, <2>1 DEF ShutdownStep, Service
    <3>3. i \in reg BY <3>1 DEF Registered
    <3>4. obj' \in [DOMAIN obj -> Objects] /\ (\A j \in DOMAIN obj : Keeps(j)) /\ i \in 1..Len(obj)
      BY <1>a, <1>k, <3>1, <3>3, DisposeMoves
    <3> QED BY <1>p, <1>d, <2>0, <3>1, <3>2, <3>4, KeptRegistry
  <2>2. CASE Steps[down] = "all"
    <3>1. /\ batch' = reg /\ waiting' = -1 /\ UNCHANGED <<reg, down>>
          /\ obj' = [i \in DOMAIN obj |-> IF i \in reg THEN DisposeObject(obj, i)[i] ELSE obj[i]]
      BY <1>5, <2>2 DEF ShutdownStep, DisposeAllServices, Service
    <3>2. ASSUME NEW i \in DOMAIN obj PROVE obj'[i] \in Objects /\ Keeps(i)
      <4>1. obj[i] \in Objects /\ (obj[i].disp = "none" => obj[i].calls = 0) BY <1>a, <1>d DEF RegistryInv
      <4>2. CASE i \in reg /\ obj[i].disp = "none"
        <5> DEFINE o == [obj[i] EXCEPT !.disp = "running", !.calls = @ + 1]
        <5>1. obj'[i] = o BY <1>d, <3>1, <4>1, <4>2 DEF DisposeObject
        <5>2. obj[i].calls + 1 = 1 BY <4>1, <4>2
        <5>3. o = [obj[i] EXCEPT !.disp = "running", !.calls = 1] BY <5>2
        <5>4. o \in Objects /\ o.svc = obj[i].svc /\ o.disp = "running" /\ o.calls = 1 BY <4>1, <5>3 DEF Objects
        <5> HIDE DEF o
        <5> QED BY <4>2, <5>1, <5>4 DEF Keeps
      <4>3. CASE ~(i \in reg /\ obj[i].disp = "none")
        <5>1. obj'[i] = obj[i] BY <3>1, <4>3 DEF DisposeObject
        <5> QED BY <1>s, <4>1, <5>1
      <4> QED BY <4>2, <4>3
    <3>3. obj' \in [DOMAIN obj -> Objects] BY <3>1, <3>2
    <3> QED BY <1>p, <1>d, <2>0, <3>1, <3>2, <3>3, KeptRegistry
  <2>3. CASE down' = down + 1 /\ UNCHANGED <<obj, reg, batch, waiting>>
    BY <1>1, <1>p, <2>0, <2>3
  <2> QED BY <1>5, <2>1, <2>2, <2>3 DEF ShutdownStep
<1>6. CASE BatchStopped
  <2>1. /\ waiting = -1 /\ (\A i \in batch : Settled(i)) /\ reg' = reg \ batch /\ batch' = {}
        /\ obj' = [i \in DOMAIN obj |-> IF i \in batch THEN [obj[i] EXCEPT !.removal = FALSE] ELSE obj[i]]
        /\ waiting' = 0 /\ down' = down + 1 /\ up' = up
    BY <1>6 DEF BatchStopped, BatchSettled, None
  <2>2. \A i \in DOMAIN obj : obj'[i] \in Objects /\ Keeps(i) BY <1>d, <2>1 DEF Objects, Keeps
  <2>3. obj' \in [DOMAIN obj -> Objects] BY <2>1, <2>2
  <2>4. reg' \subseteq reg /\ batch' \subseteq reg' /\ \A i \in reg \ reg' : Settled(i) BY <1>p, <2>1
  <2>5. waiting' = 0 /\ down' \in 0..11 /\ up' \in Nat \ {0} /\ 0 \in -1..Len(obj) BY <1>p, <1>d, <2>1
  <2> QED BY <2>2, <2>3, <2>4, <2>5, KeptRegistry
<1> QED BY <1>2, <1>3, <1>4, <1>5, <1>6

\* RegistryIsSound holds whether or not signals wait for the end of the startup.
THEOREM RegistryInvariance == Spec => []RegistryIsSound
<1>1. Init => RegistryIsSound BY EmptySeq DEF Init, RegistryIsSound, RegistryInv, None
<1>2. RegistryIsSound /\ [Next]_vars => RegistryIsSound' BY RegistrySteps, ShutdownKeepsRegistry DEF Next
<1> QED BY <1>1, <1>2, PTL DEF Spec

\* Also when a signal comes before the services have started: no disposer is called twice, an object leaves
\* the registry only when its disposer has settled, a batch stays registered while a disposer of it works,
\* no class has two registered objects, and every variable keeps its type.
THEOREM RegistryIsKept == Spec => [](DisposedOnce /\ RemovedIsSettled /\ BatchStaysRegistered /\ TypeOK)
<1>1. ASSUME RegistryIsSound PROVE DisposedOnce /\ RemovedIsSettled /\ BatchStaysRegistered /\ TypeOK
  <2>1. RegistryInv BY <1>1 DEF RegistryIsSound
  <2>2. DOMAIN obj = 1..Len(obj) /\ obj \in [1..Len(obj) -> Objects] BY <2>1, LenProperties DEF RegistryInv
  <2>3. DisposedOnce BY <2>2 DEF DisposedOnce, Objects
  <2>4. RemovedIsSettled /\ BatchStaysRegistered BY <2>1, <2>2 DEF RegistryInv, RemovedIsSettled, BatchStaysRegistered
  <2>5. ASSUME NEW s \in Service PROVE Cardinality(Registered(s)) <= 1
    <3>1. CASE Registered(s) = {} BY <3>1, FS_EmptySet
    <3>2. CASE Registered(s) # {}
      <4>1. PICK i : i \in Registered(s) BY <3>2
      <4>2. Registered(s) = {i} BY <1>1, <4>1 DEF Registered, RegistryIsSound
      <4> QED BY <4>2, FS_Singleton
    <3> QED BY <3>1, <3>2
  <2>6. TypeOK BY <1>1, <2>1, <2>2, <2>5, StepKinds DEF TypeOK, RegistryIsSound, RegistryInv, Objects
  <2> QED BY <2>3, <2>4, <2>6
<1> QED BY <1>1, RegistryInvariance, PTL
=============================================================================
