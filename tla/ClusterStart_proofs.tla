------------------------ MODULE ClusterStart_proofs ------------------------
(***************************************************************************)
(* Proofs about ClusterStart, for every number of instances and resources  *)
(* and whichever of the faults may happen.                                 *)
(***************************************************************************)
EXTENDS ClusterStart, TLAPS

\* Start begins with resource 1, and there is one.
LEMMA FirstResource == 1 \in Resource
BY StartAssumption, SMT DEF Resource

\* The initial states are well typed.
LEMMA InitTypeOK == Init => TypeOK
<1> SUFFICES ASSUME Init PROVE TypeOK
  OBVIOUS
<1>1. cancelled \in BOOLEAN /\ serving \in [Worker -> BOOLEAN]
  BY Zenon DEF Init
<1>2. /\ main \in MainSteps /\ res \in Resource
      /\ mutex \in Worker \cup {NoWorker}
  BY FirstResource, SMT DEF Init, MainSteps
<1>3. /\ pc \in [Worker -> WorkerSteps]
      /\ recorded \in [Worker -> InstanceStates]
      /\ resource \in [Resource -> {"none", "creating", "exists"}]
      /\ setup \in [Worker -> SetupStates]
  BY SMT DEF Init, WorkerSteps, InstanceStates, SetupStates
<1>4. seen \in [Worker -> CloudStatuses] /\ inst \in [Worker -> CloudStatuses]
  BY SMT DEF Init, CloudStatuses
<1> QED BY <1>1, <1>2, <1>3, <1>4 DEF TypeOK

\* Every step of Start, of its workers, of the cloud and of the instances
\* keeps each variable in its set.
LEMMA TypeStep ==
  ASSUME TypeOK, [Next]_vars
  PROVE  TypeOK'
<1> USE DEF TypeOK, MainSteps, WorkerSteps, CloudStatuses,
    SetupStates, InstanceStates, Running, machine
<1>1. CASE Begin
  BY FirstResource, <1>1, Zenon DEF Begin
<1>2. CASE Kill
  BY FirstResource, <1>2, Zenon DEF Kill
<1>3. CASE MainStep
  <2>1. CASE ResourceFails
    BY <2>1, SMT DEF ResourceFails
  <2>2. CASE ResourceGet
    BY <2>2, StartAssumption, SMT DEF ResourceGet, ResourceStep, ResourceReady, Resource
  <2>3. CASE ResourceInsert
    BY <2>3, SMT DEF ResourceInsert, ResourceStep
  <2>4. CASE ResourcePatch
    BY <2>4, SMT DEF ResourcePatch, ResourceStep
  <2>5. CASE ResourceWait
    BY <2>5, StartAssumption, SMT DEF ResourceWait, ResourceStep, ResourceReady, Resource
  <2>6. CASE Join
    BY <2>6, SMT DEF Join
  <2> QED BY <1>3, <2>1, <2>2, <2>3, <2>4, <2>5, <2>6 DEF MainStep
<1>4. ASSUME NEW w \in Worker, WorkerStep(w) PROVE TypeOK'
  <2> USE DEF Goto, Fail, cloud
  <2>1. CASE Report(w)
    BY <2>1, SMT DEF Report
  <2>2. CASE CallFails(w)
    BY <2>2, SMT DEF CallFails, CallSteps, Inserted
  <2>3. CASE GetInstance(w)
    BY <2>3, SMT DEF GetInstance
  <2>4. CASE EnsureTagsAndKey(w)
    BY <2>4, SMT DEF EnsureTagsAndKey
  <2>5. CASE StartInstance(w)
    BY <2>5, SMT DEF StartInstance
  <2>6. CASE Build(w)
    BY <2>6, SMT DEF Build
  <2>7. CASE InsertInstance(w)
    BY <2>7, SMT DEF InsertInstance, Inserted
  <2>8. CASE OperationDone(w)
    BY <2>8, SMT DEF OperationDone
  <2>9. CASE OperationFailed(w)
    BY <2>9, SMT DEF OperationFailed
  <2>10. CASE EnsureKey(w)
    BY <2>10, SMT DEF EnsureKey
  <2>11. CASE Refresh(w)
    BY <2>11, SMT DEF Refresh
  <2>12. CASE Lock(w)
    BY <2>12, SMT DEF Lock
  <2>13. CASE ProbeReady(w)
    BY <2>13, SMT DEF ProbeReady
  <2>14. CASE ProbeFails(w)
    BY <2>14, SMT DEF ProbeFails
  <2>15. CASE ReportReady(w)
    BY <2>15, SMT DEF ReportReady
  <2> QED BY <1>4, <2>1, <2>2, <2>3, <2>4, <2>5, <2>6, <2>7, <2>8, <2>9,
             <2>10, <2>11, <2>12, <2>13, <2>14, <2>15 DEF WorkerStep
<1>5. CASE ResourceCreated
  BY <1>5, SMT DEF ResourceCreated, local
<1>6. ASSUME NEW w \in Worker, InstanceStep(w) PROVE TypeOK'
  <2> USE DEF local
  <2>1. CASE InstanceUp(w)
    BY <2>1, SMT DEF InstanceUp
  <2>2. CASE InstanceOperationFails(w)
    BY <2>2, SMT DEF InstanceOperationFails
  <2>3. CASE Preempt(w)
    BY <2>3, SMT DEF Preempt
  <2>4. CASE SentinelUp(w)
    BY <2>4, SMT DEF SentinelUp
  <2>5. CASE SetupBegins(w)
    BY <2>5, SMT DEF SetupBegins
  <2>6. CASE SetupEnds(w)
    BY <2>6, SMT DEF SetupEnds
  <2> QED BY <1>6, <2>1, <2>2, <2>3, <2>4, <2>5, <2>6 DEF InstanceStep
<1>7. CASE UNCHANGED vars
  BY <1>7, SMT DEF vars
<1> QED BY <1>1, <1>2, <1>3, <1>4, <1>5, <1>6, <1>7 DEF Next

\* Type correctness of ClusterStart: each variable stays in its set.
THEOREM TypeCorrect == Spec => []TypeOK
<1>1. Init => TypeOK
  BY InitTypeOK
<1>2. TypeOK /\ [Next]_vars => TypeOK'
  BY TypeStep
<1>3. QED BY <1>1, <1>2, PTL DEF Spec

-----------------------------------------------------------------------------
\* The mutex is held by the worker that probes and by no other.
LEMMA MutexStep ==
  ASSUME TypeOK, MutexInv, PhaseInv, [Next]_vars
  PROVE  MutexInv'
<1> USE StartAssumption DEF MutexInv, TypeOK
<1>1. CASE Begin
  BY <1>1, SMT DEF Begin, PhaseInv, Running
<1>2. CASE Kill
  BY <1>2, SMT DEF Kill
<1>3. CASE MainStep
  BY <1>3, SMT DEF MainStep, ResourceFails, ResourceGet, ResourceInsert,
     ResourcePatch, ResourceWait, ResourceStep, ResourceReady, Join, PhaseInv
<1>4. ASSUME NEW w \in Worker, WorkerStep(w) PROVE MutexInv'
  <2> USE DEF Goto, Fail
  <2>1. CASE Report(w) \/ GetInstance(w) \/ EnsureTagsAndKey(w) \/ StartInstance(w)
    BY <2>1, SMT DEF Report, GetInstance, EnsureTagsAndKey, StartInstance
  <2>2. CASE Build(w) \/ InsertInstance(w) \/ OperationDone(w) \/ OperationFailed(w)
    BY <2>2, SMT DEF Build, InsertInstance, Inserted, OperationDone, OperationFailed
  <2>3. CASE CallFails(w)
    BY <2>3, SMT DEF CallFails, CallSteps, Inserted
  <2>4. CASE EnsureKey(w) \/ Refresh(w) \/ ReportReady(w)
    BY <2>4, SMT DEF EnsureKey, Refresh, ReportReady
  <2>5. CASE Lock(w)
    BY <2>5, SMT DEF Lock
  <2>6. CASE ProbeReady(w) \/ ProbeFails(w)
    BY <2>6, SMT DEF ProbeReady, ProbeFails
  <2> QED BY <1>4, <2>1, <2>2, <2>3, <2>4, <2>5, <2>6 DEF WorkerStep
<1>5. CASE ResourceCreated \/ UNCHANGED vars
  BY <1>5, SMT DEF ResourceCreated, local, vars
<1>6. ASSUME NEW w \in Worker, InstanceStep(w) PROVE MutexInv'
  BY <1>6, SMT DEF InstanceStep, InstanceUp, InstanceOperationFails, Preempt,
     SentinelUp, SetupBegins, SetupEnds, local
<1> QED BY <1>1, <1>2, <1>3, <1>4, <1>5, <1>6 DEF Next

\* Workers run only while Start waits for them.
LEMMA PhaseStep ==
  ASSUME TypeOK, PhaseInv, [Next]_vars
  PROVE  PhaseInv'
<1> USE DEF PhaseInv, TypeOK, MainSteps
<1>1. CASE Begin \/ Kill
  BY <1>1, SMT DEF Begin, Kill
<1>2. CASE MainStep
  <2>1. CASE ResourceFails \/ ResourcePatch \/ ResourceInsert
    BY <2>1, SMT DEF ResourceFails, ResourcePatch, ResourceInsert, ResourceStep
  <2>2. CASE ResourceGet
    BY <2>2, SMT DEF ResourceGet, ResourceStep, ResourceReady
  <2>3. CASE ResourceWait
    BY <2>3, SMT DEF ResourceWait, ResourceStep, ResourceReady
  <2>4. CASE Join
    BY <2>4, SMT DEF Join
  <2> QED BY <1>2, <2>1, <2>2, <2>3, <2>4 DEF MainStep
<1>3. ASSUME NEW w \in Worker, WorkerStep(w) PROVE PhaseInv'
  <2>1. main = "join" /\ main' = main
    <3> USE DEF Goto
    <3>1. CASE Report(w) \/ GetInstance(w) \/ EnsureTagsAndKey(w) \/ StartInstance(w)
      BY <3>1, SMT DEF Report, GetInstance, EnsureTagsAndKey, StartInstance
    <3>2. CASE Build(w) \/ InsertInstance(w) \/ OperationDone(w) \/ OperationFailed(w)
      BY <3>2, SMT DEF Build, InsertInstance, Inserted, OperationDone, OperationFailed
    <3>3. CASE CallFails(w)
      BY <3>3, SMT DEF CallFails, CallSteps, Inserted
    <3>4. CASE EnsureKey(w) \/ Refresh(w) \/ ReportReady(w)
      BY <3>4, SMT DEF EnsureKey, Refresh, ReportReady
    <3>5. CASE Lock(w) \/ ProbeReady(w) \/ ProbeFails(w)
      BY <3>5, SMT DEF Lock, ProbeReady, ProbeFails
    <3> QED BY <1>3, <3>1, <3>2, <3>3, <3>4, <3>5 DEF WorkerStep
  <2> QED BY <2>1, SMT
<1>4. CASE ResourceCreated \/ UNCHANGED vars
  BY <1>4, SMT DEF ResourceCreated, local, vars
<1>5. ASSUME NEW w \in Worker, InstanceStep(w) PROVE PhaseInv'
  BY <1>5, SMT DEF InstanceStep, InstanceUp, InstanceOperationFails, Preempt,
     SentinelUp, SetupBegins, SetupEnds, local
<1> QED BY <1>1, <1>2, <1>3, <1>4, <1>5 DEF Next

\* No worker and no instance takes a resource away.
LEMMA OthersKeepResources ==
  ASSUME NEW w \in Worker, WorkerStep(w) \/ InstanceStep(w)
  PROVE  UNCHANGED <<main, res, resource>>
<1> USE DEF Goto, cloud
<1>1. CASE Report(w) \/ GetInstance(w) \/ EnsureTagsAndKey(w) \/ StartInstance(w)
  BY <1>1, SMT DEF Report, GetInstance, EnsureTagsAndKey, StartInstance
<1>2. CASE Build(w) \/ InsertInstance(w) \/ OperationDone(w) \/ OperationFailed(w)
  BY <1>2, SMT DEF Build, InsertInstance, Inserted, OperationDone, OperationFailed
<1>3. CASE CallFails(w) \/ EnsureKey(w) \/ Refresh(w) \/ ReportReady(w)
  BY <1>3, SMT DEF CallFails, EnsureKey, Refresh, ReportReady
<1>4. CASE Lock(w) \/ ProbeReady(w) \/ ProbeFails(w)
  BY <1>4, SMT DEF Lock, ProbeReady, ProbeFails
<1>5. CASE InstanceStep(w)
  BY <1>5, SMT DEF InstanceStep, InstanceUp, InstanceOperationFails, Preempt,
     SentinelUp, SetupBegins, SetupEnds, local
<1> QED BY <1>1, <1>2, <1>3, <1>4, <1>5 DEF WorkerStep

\* The resources before the current one are there, and stay.
LEMMA ResourcesStep ==
  ASSUME TypeOK, ResourceInv, [Next]_vars
  PROVE  ResourceInv'
<1> USE StartAssumption DEF ResourceInv, TypeOK, MainSteps, Resource
<1>1. CASE Begin \/ Kill
  BY <1>1, SMT DEF Begin, Kill
<1>2. CASE MainStep
  <2>1. CASE ResourceFails
    BY <2>1, SMT DEF ResourceFails
  <2>2. CASE ResourcePatch \/ ResourceInsert
    BY <2>2, SMT DEF ResourcePatch, ResourceInsert, ResourceStep
  <2>3. CASE ResourceGet
    BY <2>3, SMT DEF ResourceGet, ResourceStep, ResourceReady
  <2>4. CASE ResourceWait
    BY <2>4, SMT DEF ResourceWait, ResourceStep, ResourceReady
  <2>5. CASE Join
    BY <2>5, SMT DEF Join
  <2> QED BY <1>2, <2>1, <2>2, <2>3, <2>4, <2>5 DEF MainStep
<1>3. ASSUME NEW w \in Worker, WorkerStep(w) \/ InstanceStep(w) PROVE ResourceInv'
  BY <1>3, OthersKeepResources, SMT
<1>4. CASE ResourceCreated \/ UNCHANGED vars
  BY <1>4, SMT DEF ResourceCreated, local, vars
<1> QED BY <1>1, <1>2, <1>3, <1>4 DEF Next

\* Who can make an instance exist: a worker, and so only after every
\* resource does.
LEMMA NetworkStep ==
  ASSUME TypeOK, PhaseInv, ResourceInv, ResourceInv', NetworkBeforeInstance,
         [Next]_vars
  PROVE  NetworkBeforeInstance'
<1> USE DEF NetworkBeforeInstance, TypeOK
<1>1. \A r \in Resource : resource[r] = "exists" => resource'[r] = "exists"
  <2>1. CASE Begin \/ Kill \/ UNCHANGED vars
    BY <2>1, SMT DEF Begin, Kill, vars
  <2>2. CASE MainStep
    BY <2>2, SMT DEF MainStep, ResourceFails, ResourceGet, ResourceInsert,
       ResourcePatch, ResourceWait, ResourceStep, ResourceReady, Join
  <2>3. CASE ResourceCreated
    BY <2>3, SMT DEF ResourceCreated
  <2>4. ASSUME NEW w \in Worker, WorkerStep(w) \/ InstanceStep(w)
        PROVE  resource' = resource
    BY <2>4, OthersKeepResources
  <2> QED BY <2>1, <2>2, <2>3, <2>4, SMT DEF Next
<1>2. CASE inst' = inst
  BY <1>1, <1>2, SMT
<1>3. CASE Begin \/ Kill \/ MainStep \/ ResourceCreated \/ UNCHANGED vars
  <2>1. inst' = inst
    BY <1>3, SMT DEF Begin, Kill, MainStep, ResourceFails, ResourceGet,
       ResourceInsert, ResourcePatch, ResourceWait, ResourceStep,
       ResourceReady, Join, ResourceCreated, vars
  <2> QED BY <2>1, <1>2
<1>4. ASSUME NEW w \in Worker, WorkerStep(w) PROVE NetworkBeforeInstance'
  <2> USE DEF Goto, cloud
  <2>1. CASE InsertInstance(w) \/ CallFails(w) \/ StartInstance(w)
    <3>1. main' = main /\ main = "join"
      BY <2>1, SMT DEF InsertInstance, CallFails, CallSteps, StartInstance,
         PhaseInv, MainSteps
    <3> QED BY <3>1, SMT DEF ResourceInv
  <2>2. CASE Report(w) \/ GetInstance(w) \/ EnsureTagsAndKey(w) \/ Build(w)
    BY <2>2, <1>2, SMT DEF Report, GetInstance, EnsureTagsAndKey, Build
  <2>3. CASE OperationDone(w) \/ OperationFailed(w) \/ EnsureKey(w) \/ Refresh(w)
    BY <2>3, <1>2, SMT DEF OperationDone, OperationFailed, EnsureKey, Refresh
  <2>4. CASE Lock(w) \/ ProbeReady(w) \/ ProbeFails(w) \/ ReportReady(w)
    BY <2>4, <1>2, SMT DEF Lock, ProbeReady, ProbeFails, ReportReady
  <2> QED BY <1>4, <2>1, <2>2, <2>3, <2>4 DEF WorkerStep
<1>5. ASSUME NEW w \in Worker, InstanceStep(w) PROVE NetworkBeforeInstance'
  <2>1. \A v \in Worker : inst'[v] # "NONE" => inst[v] # "NONE"
    BY <1>5, SMT DEF InstanceStep, InstanceUp, InstanceOperationFails, Preempt,
       SentinelUp, SetupBegins, SetupEnds
  <2> QED BY <2>1, <1>1, SMT
<1> QED BY <1>3, <1>4, <1>5 DEF Next

\* READY follows a completed setup, and a completed setup stays completed
\* until a worker, which has reported STARTING before, makes a new instance.
LEMMA ReadyStep ==
  ASSUME TypeOK, TypeOK', ReadyInv, [Next]_vars
  PROVE  ReadyInv'
<1> USE DEF ReadyInv, TypeOK
<1>1. CASE Begin \/ Kill \/ UNCHANGED vars
  BY <1>1, SMT DEF Begin, Kill, machine, vars
<1>2. CASE MainStep
  BY <1>2, SMT DEF MainStep, ResourceFails, ResourceGet, ResourceInsert,
     ResourcePatch, ResourceWait, ResourceStep, ResourceReady, Join, machine
<1>3. CASE ResourceCreated
  BY <1>3, SMT DEF ResourceCreated, local, machine
<1>4. ASSUME NEW w \in Worker, WorkerStep(w) PROVE ReadyInv'
  <2> USE DEF Goto, cloud, machine, Fail
  <2>1. CASE Report(w)
    BY <2>1, SMT DEF Report
  <2>2. CASE CallFails(w)
    BY <2>2, SMT DEF CallFails, CallSteps, Inserted
  <2>3. CASE GetInstance(w) \/ EnsureTagsAndKey(w) \/ StartInstance(w)
    BY <2>3, SMT DEF GetInstance, EnsureTagsAndKey, StartInstance
  <2>4. CASE Build(w) \/ InsertInstance(w) \/ OperationDone(w) \/ OperationFailed(w)
    BY <2>4, SMT DEF Build, InsertInstance, Inserted, OperationDone, OperationFailed
  <2>5. CASE EnsureKey(w) \/ Refresh(w) \/ Lock(w)
    BY <2>5, SMT DEF EnsureKey, Refresh, Lock
  <2>6. CASE ProbeReady(w)
    <3>1. Answer(w) = "ready" => setup[w] = "ready"
      BY SMT DEF Answer, FileAnswer, SetupStates
    <3> QED BY <2>6, <3>1, SMT DEF ProbeReady
  <2>7. CASE ProbeFails(w) \/ ReportReady(w)
    BY <2>7, SMT DEF ProbeFails, ReportReady
  <2> QED BY <1>4, <2>1, <2>2, <2>3, <2>4, <2>5, <2>6, <2>7 DEF WorkerStep
<1>5. ASSUME NEW w \in Worker, InstanceStep(w) PROVE ReadyInv'
  <2>1. pc' = pc /\ recorded' = recorded
    BY <1>5, SMT DEF InstanceStep, InstanceUp, InstanceOperationFails, Preempt,
       SentinelUp, SetupBegins, SetupEnds, local
  <2>2. \A v \in Worker : setup[v] = "ready" => setup'[v] = "ready"
    <3> USE DEF machine
    <3>1. CASE InstanceUp(w) \/ InstanceOperationFails(w) \/ SentinelUp(w)
      BY <3>1, SMT DEF InstanceUp, InstanceOperationFails, SentinelUp
    <3>2. CASE Preempt(w) \/ SetupBegins(w) \/ SetupEnds(w)
      BY <3>2, SMT DEF Preempt, SetupBegins, SetupEnds
    <3> QED BY <1>5, <3>1, <3>2 DEF InstanceStep
  <2> QED BY <2>1, <2>2, SMT
<1> QED BY <1>1, <1>2, <1>3, <1>4, <1>5 DEF Next

-----------------------------------------------------------------------------
\* The inductive invariant of Start: all of the above together.
THEOREM Inductive == Spec => []InductiveInv
<1>1. Init => InductiveInv
  <2> SUFFICES ASSUME Init PROVE InductiveInv
    OBVIOUS
  <2>1. TypeOK
    BY InitTypeOK
  <2>2. MutexInv /\ PhaseInv /\ ResourceInv /\ NetworkBeforeInstance /\ ReadyInv
    BY StartAssumption, SMT DEF Init, MutexInv, PhaseInv, ResourceInv,
       NetworkBeforeInstance, ReadyInv
  <2> QED BY <2>1, <2>2 DEF InductiveInv
<1>2. InductiveInv /\ [Next]_vars => InductiveInv'
  <2> SUFFICES ASSUME InductiveInv, [Next]_vars PROVE InductiveInv'
    OBVIOUS
  <2>1. TypeOK'
    BY TypeStep DEF InductiveInv
  <2>2. MutexInv' /\ PhaseInv' /\ ResourceInv'
    BY MutexStep, PhaseStep, ResourcesStep DEF InductiveInv
  <2>3. NetworkBeforeInstance' /\ ReadyInv'
    BY <2>1, <2>2, NetworkStep, ReadyStep DEF InductiveInv
  <2> QED BY <2>1, <2>2, <2>3 DEF InductiveInv
<1>3. QED BY <1>1, <1>2, PTL DEF Spec

\* At most one worker talks to a sentinel at any time.
THEOREM MutualExclusion == Spec => []OneProber
<1>1. InductiveInv => OneProber
  BY StartAssumption, SMT DEF InductiveInv, MutexInv, OneProber
<1> QED BY <1>1, Inductive, PTL

\* An instance is reported READY only once its setup has completed, also when
\* it has been deleted and made anew.
THEOREM ReadyIsSafe == Spec => []ReadyIsProvisioned
<1>1. InductiveInv => ReadyIsProvisioned
  BY SMT DEF InductiveInv, ReadyInv, ReadyIsProvisioned
<1> QED BY <1>1, Inductive, PTL

\* Start returns nil only when the whole cluster is there and READY.
THEOREM NilIsComplete == Spec => []NilMeansComplete
<1>1. InductiveInv => NilMeansComplete
  BY SMT DEF InductiveInv, PhaseInv, ResourceInv, ReadyInv, NilMeansComplete
<1> QED BY <1>1, Inductive, PTL

\* Start does not return before its workers.
THEOREM WorkersJoined == Spec => []NoWorkerOutlivesStart
<1>1. InductiveInv => NoWorkerOutlivesStart
  BY SMT DEF InductiveInv, TypeOK, MainSteps, PhaseInv, Running,
     NoWorkerOutlivesStart
<1> QED BY <1>1, Inductive, PTL

\* No instance exists outside a complete network.
THEOREM NetworkFirst == Spec => []NetworkBeforeInstance
<1>1. InductiveInv => NetworkBeforeInstance
  BY DEF InductiveInv
<1> QED BY <1>1, Inductive, PTL

\* After the first failure no worker has the cloud begin anything: every
\* call that begins something checks the group's context.
THEOREM FailureStopsCalls == Spec => NothingBegunAfterFailure
<1>1. TypeOK /\ [Next]_vars => [QuietAfterFailure]_vars
  <2> SUFFICES ASSUME TypeOK, Next PROVE QuietAfterFailure
    BY DEF vars, QuietAfterFailure, TypeOK
  <2> USE DEF QuietAfterFailure, TypeOK
  <2>1. CASE inst' = inst
    BY <2>1, SMT
  <2>2. CASE Begin \/ Kill \/ MainStep \/ ResourceCreated
    <3>1. inst' = inst
      BY <2>2, SMT DEF Begin, Kill, MainStep, ResourceFails, ResourceGet,
         ResourceInsert, ResourcePatch, ResourceWait, ResourceStep,
         ResourceReady, Join, ResourceCreated
    <3> QED BY <3>1, <2>1
  <2>3. ASSUME NEW w \in Worker, WorkerStep(w) PROVE QuietAfterFailure
    <3> USE DEF Goto, cloud
    <3>1. CASE CallFails(w)
      BY <3>1, SMT DEF CallFails, Fail, Inserted
    <3>2. CASE InsertInstance(w) \/ StartInstance(w)
      BY <3>2, SMT DEF InsertInstance, Inserted, StartInstance
    <3>3. inst' = inst \/ CallFails(w) \/ InsertInstance(w) \/ StartInstance(w)
      <4>1. CASE Report(w) \/ GetInstance(w) \/ EnsureTagsAndKey(w) \/ Build(w)
        BY <4>1, SMT DEF Report, GetInstance, EnsureTagsAndKey, Build
      <4>2. CASE OperationDone(w) \/ OperationFailed(w) \/ EnsureKey(w) \/ Refresh(w)
        BY <4>2, SMT DEF OperationDone, OperationFailed, EnsureKey, Refresh
      <4>3. CASE Lock(w) \/ ProbeReady(w) \/ ProbeFails(w) \/ ReportReady(w)
        BY <4>3, SMT DEF Lock, ProbeReady, ProbeFails, ReportReady
      <4> QED BY <2>3, <4>1, <4>2, <4>3 DEF WorkerStep
    <3> QED BY <3>1, <3>2, <3>3, <2>1
  <2>4. ASSUME NEW w \in Worker, InstanceStep(w) PROVE QuietAfterFailure
    BY <2>4, SMT DEF InstanceStep, InstanceUp, InstanceOperationFails, Preempt,
       SentinelUp, SetupBegins, SetupEnds
  <2> QED BY <2>2, <2>3, <2>4 DEF Next
<1> QED BY <1>1, TypeCorrect, PTL DEF Spec, NothingBegunAfterFailure
=============================================================================
