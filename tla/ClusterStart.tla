---------------------------- MODULE ClusterStart ----------------------------
(***************************************************************************)
(* cluster.Service.Start: the network resources one after the other, then  *)
(* one goroutine per instance under an errgroup, each creating or booting  *)
(* its instance and waiting, under a mutex the goroutines share, for the   *)
(* instance's readiness sentinel.  The first error cancels the context of  *)
(* the others.  A run may be followed by another, or be killed.            *)
(*                                                                         *)
(* The other actors are Compute Engine, whose operations finish after the  *)
(* call that began them has returned, and the instances, which boot, serve *)
(* the sentinel and provision themselves once.  A report is the call of    *)
(* OnStateChange; that the record may fail to be written is in Gpunow.     *)
(***************************************************************************)
EXTENDS Lifecycle

CONSTANTS
    Worker,        \* the instances of the cluster, one goroutine each
    NumResources,  \* network, subnetwork and the firewall rules, in order
    Faults,        \* which things may go wrong
    NoWorker       \* the holder of a free readiness mutex

AllFaults == {"api", "operation", "setup", "preempt", "timeout", "kill"}

ASSUME StartAssumption ==
    /\ NumResources \in Nat \ {0}
    /\ Faults \subseteq AllFaults
    /\ NoWorker \notin Worker

VARIABLES
    main,          \* where the goroutine that called Start is
    res,           \* the resource Start is at
    pc,            \* where each worker is
    seen,          \* the instance as the worker last read it
    cancelled,     \* groupCtx
    mutex,         \* who holds readinessMu
    recorded,      \* the state of each instance as it was last reported
    resource,      \* cloud: the network resources
    inst,          \* cloud: the status of each instance
    serving,       \* instance: the sentinel answers on its port
    setup          \* instance: its readiness file, or how it was left (for
                   \* one that is gone: by the last instance of that name)

local   == <<main, res, pc, seen, cancelled, mutex>>
machine == <<serving, setup>>
vars    == <<main, res, pc, seen, cancelled, mutex, recorded, resource,
             inst, serving, setup>>

Resource == 1 .. NumResources

MainSteps == {"idle", "get", "insert", "patch", "wait", "join", "ok", "err"}

WorkerSteps == {"off", "report", "get", "tags", "start", "build", "insert",
                "operation", "sshKey", "refresh", "lock", "probe", "ready",
                "done", "failed"}

\* "PROVISIONING" is an insert under way and "STAGING" a start under way.
CloudStatuses == {"NONE", "PROVISIONING", "STAGING", "RUNNING", "TERMINATED"}

\* "interrupted": the instance stopped while it was provisioning, which is
\* not taken up again; the file still says "running".
SetupStates == {"absent", "running", "interrupted", "ready", "error"}

TypeOK ==
    /\ main \in MainSteps
    /\ res \in Resource
    /\ pc \in [Worker -> WorkerSteps]
    /\ seen \in [Worker -> CloudStatuses]
    /\ cancelled \in BOOLEAN
    /\ mutex \in Worker \cup {NoWorker}
    /\ recorded \in [Worker -> InstanceStates]
    /\ resource \in [Resource -> {"none", "creating", "exists"}]
    /\ inst \in [Worker -> CloudStatuses]
    /\ serving \in [Worker -> BOOLEAN]
    /\ setup \in [Worker -> SetupStates]

Init ==
    /\ main = "idle"
    /\ res = 1
    /\ pc = [w \in Worker |-> "off"]
    /\ seen = [w \in Worker |-> "NONE"]
    /\ cancelled = FALSE
    /\ mutex = NoWorker
    /\ recorded = [w \in Worker |-> "TERMINATED"]
    /\ resource = [r \in Resource |-> "none"]
    /\ inst = [w \in Worker |-> "NONE"]
    /\ serving = [w \in Worker |-> FALSE]
    /\ setup = [w \in Worker |-> "absent"]

-----------------------------------------------------------------------------
(***************************************************************************)
(* The goroutine that called Start                                         *)
(***************************************************************************)
Running == main \in {"get", "insert", "patch", "wait", "join"}

Begin ==
    /\ ~Running
    /\ main' = "get"
    /\ res' = 1
    /\ pc' = [w \in Worker |-> "off"]
    /\ seen' = [w \in Worker |-> "NONE"]
    /\ cancelled' = FALSE
    /\ mutex' = NoWorker
    /\ UNCHANGED <<recorded, resource, inst, machine>>

\* Any call may fail; the ones that change the cloud may have done so.
ResourceFails ==
    /\ main \in {"get", "insert", "patch", "wait"}
    /\ "api" \in Faults
    /\ main' = "err"
    /\ \/ UNCHANGED resource
       \/ /\ main = "insert" /\ resource[res] = "none"
          /\ resource' = [resource EXCEPT ![res] = "creating"]
    /\ UNCHANGED <<res, pc, seen, cancelled, mutex, recorded, inst, machine>>

\* The resource is there: the next one, or the instances.
ResourceReady ==
    /\ \/ /\ res < NumResources
          /\ main' = "get"
          /\ res' = res + 1
          /\ pc' = pc
       \/ /\ res = NumResources
          /\ main' = "join"
          /\ res' = res
          /\ pc' = [w \in Worker |-> "report"]
    /\ UNCHANGED <<seen, cancelled, mutex, recorded, resource, inst, machine>>

\* Resources 1 and 2 are the network and the subnetwork: one that exists
\* is left as it is.  The others are firewall rules, and are patched.
IsFirewall(r) == r > 2

ResourceStep(from, to) ==
    /\ main = from
    /\ main' = to
    /\ UNCHANGED <<res, pc, seen, cancelled, mutex, recorded, inst, machine>>

ResourceGet ==
    \/ /\ resource[res] # "exists"
       /\ ResourceStep("get", "insert")
       /\ UNCHANGED resource
    \/ /\ resource[res] = "exists" /\ IsFirewall(res)
       /\ ResourceStep("get", "patch")
       /\ UNCHANGED resource
    \/ /\ resource[res] = "exists" /\ ~IsFirewall(res)
       /\ main = "get"
       /\ ResourceReady

\* A resource an earlier run is still creating is an AlreadyExists error.
ResourceInsert ==
    \/ /\ resource[res] = "none"
       /\ ResourceStep("insert", "wait")
       /\ resource' = [resource EXCEPT ![res] = "creating"]
    \/ /\ resource[res] # "none"
       /\ ResourceStep("insert", "err")
       /\ UNCHANGED resource

ResourcePatch ==
    /\ ResourceStep("patch", "wait")
    /\ UNCHANGED resource

\* Mutant: a pending insert is taken for a finished one.
ResourceNotAwaited ==
    /\ main = "wait"
    /\ ResourceReady

ResourceWait ==
    \/ /\ resource[res] = "exists"
       /\ main = "wait"
       /\ ResourceReady
    \/ /\ resource[res] = "none"
       /\ ResourceStep("wait", "err")
       /\ UNCHANGED resource

\* Mutant: the group returns with its first error.
JoinReturnsEarly ==
    /\ main = "join"
    /\ \/ /\ \E w \in Worker : pc[w] = "failed"
          /\ main' = "err"
       \/ /\ \A w \in Worker : pc[w] = "done"
          /\ main' = "ok"
    /\ UNCHANGED <<res, pc, seen, cancelled, mutex, recorded, resource, inst,
                   machine>>

\* Mutant: the workers' errors are dropped.
JoinDropsErrors ==
    /\ main = "join"
    /\ \A w \in Worker : pc[w] \in {"done", "failed"}
    /\ main' = "ok"
    /\ UNCHANGED <<res, pc, seen, cancelled, mutex, recorded, resource, inst,
                   machine>>

\* group.Wait
Join ==
    /\ main = "join"
    /\ \A w \in Worker : pc[w] \in {"done", "failed"}
    /\ main' = IF \E w \in Worker : pc[w] = "failed" THEN "err" ELSE "ok"
    /\ UNCHANGED <<res, pc, seen, cancelled, mutex, recorded, resource, inst,
                   machine>>

\* The process is killed; a new one may run Start again.
Kill ==
    /\ "kill" \in Faults
    /\ Running
    /\ main' = "idle"
    /\ res' = 1
    /\ pc' = [w \in Worker |-> "off"]
    /\ seen' = [w \in Worker |-> "NONE"]
    /\ cancelled' = FALSE
    /\ mutex' = NoWorker
    /\ UNCHANGED <<recorded, resource, inst, machine>>

-----------------------------------------------------------------------------
(***************************************************************************)
(* A worker                                                                *)
(***************************************************************************)
cloud == <<resource, inst, machine>>

Goto(w, from, to) ==
    /\ pc[w] = from
    /\ pc' = [pc EXCEPT ![w] = to]

\* Steps that make a call with groupCtx: with it cancelled they only fail.
CallSteps == {"get", "tags", "start", "build", "insert", "operation",
              "sshKey", "refresh"}

\* A worker returns an error: errgroup cancels the context of the others.
Fail(w) ==
    /\ pc' = [pc EXCEPT ![w] = "failed"]
    /\ cancelled' = TRUE

\* Compute Engine makes a new instance.
Inserted(w) ==
    /\ inst[w] = "NONE"
    /\ inst' = [inst EXCEPT ![w] = "PROVISIONING"]
    /\ setup' = [setup EXCEPT ![w] = "absent"]

\* updateInstanceState runs the callback, which takes no context.
Report(w) ==
    /\ Goto(w, "report", "get")
    /\ recorded' = [recorded EXCEPT ![w] = "STARTING"]
    /\ UNCHANGED <<main, res, seen, cancelled, mutex, cloud>>

\* A call fails, of itself, because the context is cancelled or because the
\* instance is gone.  A start or an insert may have taken effect all the same.
CallFails(w) ==
    /\ pc[w] \in CallSteps
    /\ \/ cancelled
       \/ "api" \in Faults
       \/ inst[w] = "NONE" /\ pc[w] \in {"tags", "start", "sshKey"}
    /\ Fail(w)
    /\ \/ UNCHANGED <<inst, setup>>
       \/ /\ pc[w] = "start" /\ inst[w] = "TERMINATED"
          /\ inst' = [inst EXCEPT ![w] = "STAGING"]
          /\ UNCHANGED setup
       \/ pc[w] = "insert" /\ Inserted(w)
    /\ UNCHANGED <<main, res, seen, mutex, recorded, resource, serving>>

\* getInstance; NotFound is a nil instance, not an error.
GetInstance(w) ==
    /\ ~cancelled
    /\ Goto(w, "get", IF inst[w] = "NONE" THEN "build" ELSE "tags")
    /\ seen' = [seen EXCEPT ![w] = inst[w]]
    /\ UNCHANGED <<main, res, cancelled, mutex, recorded, cloud>>

\* An instance read as RUNNING goes straight to its readiness wait, with
\* the addresses of that reading.  Tags that are right and a missing SSH key
\* need no call, so this may get past a cancelled context.
EnsureTagsAndKey(w) ==
    /\ \/ /\ seen[w] = "RUNNING"
          /\ Goto(w, "tags", "lock")
          /\ recorded' = [recorded EXCEPT ![w] = "PROVISIONING"]
       \/ /\ seen[w] # "RUNNING"
          /\ Goto(w, "tags", "start")
          /\ UNCHANGED recorded
    /\ UNCHANGED <<main, res, seen, cancelled, mutex, cloud>>

\* Mutant: the start is called with Start's context instead of the group's.
StartWithParentContext(w) ==
    /\ Goto(w, "start", "operation")
    /\ inst' = [inst EXCEPT ![w] = IF @ = "TERMINATED" THEN "STAGING" ELSE @]
    /\ UNCHANGED <<main, res, seen, cancelled, mutex, recorded, resource, machine>>

\* Starting an instance that is up or coming up is an operation without
\* an effect.
StartInstance(w) ==
    /\ ~cancelled
    /\ inst[w] # "NONE"
    /\ Goto(w, "start", "operation")
    /\ inst' = [inst EXCEPT ![w] = IF @ = "TERMINATED" THEN "STAGING" ELSE @]
    /\ UNCHANGED <<main, res, seen, cancelled, mutex, recorded, resource, machine>>

\* Builder.Build reads the cloud (disk, image, machine type).
Build(w) ==
    /\ ~cancelled
    /\ Goto(w, "build", "insert")
    /\ UNCHANGED <<main, res, seen, cancelled, mutex, recorded, cloud>>

InsertInstance(w) ==
    /\ ~cancelled
    /\ Goto(w, "insert", "operation")
    /\ Inserted(w)
    /\ UNCHANGED <<main, res, seen, cancelled, mutex, recorded, resource, serving>>

\* waitWithProgress sees the operation done; the instance may be down or
\* gone again since.
OperationDone(w) ==
    /\ ~cancelled
    /\ \/ inst[w] \in {"RUNNING", "TERMINATED"}
       \/ inst[w] = "NONE" /\ "preempt" \in Faults
    /\ Goto(w, "operation", IF seen[w] = "NONE" THEN "sshKey" ELSE "refresh")
    /\ UNCHANGED <<main, res, seen, cancelled, mutex, recorded, cloud>>

\* waitWithProgress sees the operation failed: a failed insert leaves no
\* instance, a failed start leaves it TERMINATED.
OperationFailed(w) ==
    /\ pc[w] = "operation"
    /\ inst[w] \in {"NONE", "TERMINATED"}
    /\ Fail(w)
    /\ UNCHANGED <<main, res, seen, mutex, recorded, cloud>>

\* ensureInstanceSSHKey after an insert, if there is a key at all.
EnsureKey(w) ==
    /\ Goto(w, "sshKey", "refresh")
    /\ UNCHANGED <<main, res, seen, cancelled, mutex, recorded, cloud>>

Refresh(w) ==
    /\ ~cancelled
    /\ Goto(w, "refresh", "lock")
    /\ seen' = [seen EXCEPT ![w] = inst[w]]
    /\ recorded' = [recorded EXCEPT ![w] = "PROVISIONING"]
    /\ UNCHANGED <<main, res, cancelled, mutex, cloud>>

\* Mutant: the readiness wait takes no mutex.
LockMissing(w) ==
    /\ Goto(w, "lock", "probe")
    /\ mutex' = w
    /\ UNCHANGED <<main, res, seen, cancelled, recorded, cloud>>

\* readinessMu.Lock waits whatever happens to the context.
Lock(w) ==
    /\ mutex = NoWorker
    /\ Goto(w, "lock", "probe")
    /\ mutex' = w
    /\ UNCHANGED <<main, res, seen, cancelled, recorded, cloud>>

\* Only a running instance has an external address to probe.
HasAddress(w) == seen[w] = "RUNNING"

\* What the sentinel answers.  Before its file exists it answers "error".
FileAnswer == [absent |-> "error", running |-> "running",
               interrupted |-> "running", ready |-> "ready", error |-> "error"]

Answer(w) == IF inst[w] = "RUNNING" /\ serving[w] THEN FileAnswer[setup[w]]
                                                  ELSE "none"

\* Mutant: any answer but "error" counts as ready.
ProbeAcceptsRunning(w) ==
    /\ HasAddress(w) /\ ~cancelled /\ Answer(w) \in {"ready", "running"}
    /\ Goto(w, "probe", "ready")
    /\ mutex' = NoWorker
    /\ UNCHANGED <<main, res, seen, cancelled, recorded, cloud>>

\* WaitForReady.  No answer and "running" are asked again two seconds later,
\* which changes nothing here.
ProbeReady(w) ==
    /\ HasAddress(w) /\ ~cancelled /\ Answer(w) = "ready"
    /\ Goto(w, "probe", "ready")
    /\ mutex' = NoWorker
    /\ UNCHANGED <<main, res, seen, cancelled, recorded, cloud>>

\* Mutant: the mutex is released after a "ready" answer only.
ProbeFailsLocked(w) ==
    /\ pc[w] = "probe"
    /\ ~HasAddress(w) \/ cancelled \/ Answer(w) = "error" \/ "timeout" \in Faults
    /\ Fail(w)
    /\ UNCHANGED <<main, res, seen, mutex, recorded, cloud>>

ProbeFails(w) ==
    /\ pc[w] = "probe"
    /\ \/ ~HasAddress(w)
       \/ cancelled
       \/ Answer(w) = "error"
       \/ "timeout" \in Faults
    /\ Fail(w)
    /\ mutex' = NoWorker
    /\ UNCHANGED <<main, res, seen, recorded, cloud>>

ReportReady(w) ==
    /\ Goto(w, "ready", "done")
    /\ recorded' = [recorded EXCEPT ![w] = "READY"]
    /\ UNCHANGED <<main, res, seen, cancelled, mutex, cloud>>

-----------------------------------------------------------------------------
(***************************************************************************)
(* Compute Engine and the instances                                        *)
(***************************************************************************)
ResourceCreated ==
    \E r \in Resource :
        /\ resource[r] = "creating"
        /\ \/ resource' = [resource EXCEPT ![r] = "exists"]
           \/ /\ "operation" \in Faults
              /\ resource' = [resource EXCEPT ![r] = "none"]
        /\ UNCHANGED <<local, recorded, inst, machine>>

InstanceUp(w) ==
    /\ inst[w] \in {"PROVISIONING", "STAGING"}
    /\ inst' = [inst EXCEPT ![w] = "RUNNING"]
    /\ UNCHANGED <<local, recorded, resource, machine>>

InstanceOperationFails(w) ==
    /\ "operation" \in Faults
    /\ inst[w] \in {"PROVISIONING", "STAGING"}
    /\ inst' = [inst EXCEPT ![w] = IF @ = "STAGING" THEN "TERMINATED" ELSE "NONE"]
    /\ UNCHANGED <<local, recorded, resource, machine>>

\* A SPOT instance is taken away, or has run its maximal time, or is
\* stopped in the console; its termination action may be to delete it.
Preempt(w) ==
    /\ "preempt" \in Faults
    /\ inst[w] = "RUNNING"
    /\ \E left \in {"TERMINATED", "NONE"} : inst' = [inst EXCEPT ![w] = left]
    /\ serving' = [serving EXCEPT ![w] = FALSE]
    /\ setup' = [setup EXCEPT ![w] = IF @ = "running" THEN "interrupted" ELSE @]
    /\ UNCHANGED <<local, recorded, resource>>

\* "systemctl enable --now gpunow-ready.service" at first boot, systemd
\* at later ones.
SentinelUp(w) ==
    /\ inst[w] = "RUNNING"
    /\ ~serving[w]
    /\ serving' = [serving EXCEPT ![w] = TRUE]
    /\ UNCHANGED <<local, recorded, resource, inst, setup>>

\* gpunow-provision.sh, first boot only.
SetupBegins(w) ==
    /\ inst[w] = "RUNNING"
    /\ setup[w] = "absent"
    /\ setup' = [setup EXCEPT ![w] = "running"]
    /\ UNCHANGED <<local, recorded, resource, inst, serving>>

SetupEnds(w) ==
    /\ inst[w] = "RUNNING"
    /\ setup[w] = "running"
    /\ \/ setup' = [setup EXCEPT ![w] = "ready"]
       \/ /\ "setup" \in Faults
          /\ setup' = [setup EXCEPT ![w] = "error"]
    /\ UNCHANGED <<local, recorded, resource, inst, serving>>

-----------------------------------------------------------------------------
MainStep ==
    \/ ResourceFails \/ ResourceGet \/ ResourceInsert \/ ResourcePatch
    \/ ResourceWait \/ Join

WorkerStep(w) ==
    \/ Report(w) \/ CallFails(w) \/ GetInstance(w) \/ EnsureTagsAndKey(w)
    \/ StartInstance(w) \/ Build(w) \/ InsertInstance(w) \/ OperationDone(w)
    \/ OperationFailed(w) \/ EnsureKey(w) \/ Refresh(w) \/ Lock(w)
    \/ ProbeReady(w) \/ ProbeFails(w) \/ ReportReady(w)

InstanceStep(w) ==
    \/ InstanceUp(w) \/ InstanceOperationFails(w) \/ Preempt(w)
    \/ SentinelUp(w) \/ SetupBegins(w) \/ SetupEnds(w)

Next ==
    \/ Begin \/ Kill \/ MainStep
    \/ \E w \in Worker : WorkerStep(w)
    \/ ResourceCreated
    \/ \E w \in Worker : InstanceStep(w)

Spec == Init /\ [][Next]_vars

\* The scheduler runs every goroutine that can run, a probe's clock goes on,
\* and Compute Engine finishes the operations it has begun.  Nothing makes
\* the user run Start, kills it, stops an instance or completes a setup.
Fairness ==
    /\ WF_vars(MainStep)
    /\ \A w \in Worker : WF_vars(WorkerStep(w))
    /\ WF_vars(ResourceCreated)
    /\ \A w \in Worker : WF_vars(InstanceUp(w))

FairSpec == Spec /\ Fairness

-----------------------------------------------------------------------------
(***************************************************************************)
(* Properties                                                              *)
(***************************************************************************)

\* One worker at a time talks to a sentinel: readinessMu covers the whole
\* wait and is released on every way out of it.
OneProber ==
    \A v, w \in Worker : pc[v] = "probe" /\ pc[w] = "probe" => v = w

\* An instance is reported READY only if its setup has completed: across
\* restarts, kills, instances that stop in the middle of their setup and
\* ones that are deleted and made anew, no path reports READY but the one
\* through a "ready" answer of that very instance.
ReadyIsProvisioned ==
    \A w \in Worker : recorded[w] = "READY" => setup[w] = "ready"

\* Start returns nil only with every resource there and every instance
\* reported READY, so one failed worker is never covered by the others.
NilMeansComplete ==
    main = "ok" =>
        /\ \A r \in Resource : resource[r] = "exists"
        /\ \A w \in Worker : recorded[w] = "READY"

\* No worker is left running when Start has returned.
NoWorkerOutlivesStart ==
    ~Running => \A w \in Worker : pc[w] \in {"off", "done", "failed"}

\* An instance is only ever asked for in a network that is complete.
NetworkBeforeInstance ==
    (\E w \in Worker : inst[w] # "NONE") =>
        \A r \in Resource : resource[r] = "exists"

\* The invariant the proofs use: the mutex is held exactly by the worker
\* that probes, workers run only while Start joins them, the resources
\* before the current one are there, and a worker has reported READY, or is
\* about to, only for an instance whose setup has completed, and what it
\* reported in an earlier run it has taken back before it makes a new one.
MutexInv == \A w \in Worker : pc[w] = "probe" <=> mutex = w

PhaseInv ==
    \A w \in Worker :
        /\ main \notin {"join", "ok", "err"} => pc[w] = "off"
        /\ main = "err" => pc[w] \in {"off", "done", "failed"}
        /\ main = "ok" => pc[w] = "done"

ResourceInv ==
    \A r \in Resource :
        /\ main \in {"get", "insert", "patch", "wait"} /\ r < res
              => resource[r] = "exists"
        /\ main \in {"join", "ok"} => resource[r] = "exists"

ReadyInv ==
    \A w \in Worker :
        /\ recorded[w] = "READY" => setup[w] = "ready"
        /\ pc[w] = "ready" => setup[w] = "ready"
        /\ pc[w] = "done" => recorded[w] = "READY"
        /\ recorded[w] = "READY" => pc[w] \in {"off", "report", "done", "failed"}

InductiveInv ==
    /\ TypeOK
    /\ MutexInv
    /\ PhaseInv
    /\ ResourceInv
    /\ NetworkBeforeInstance
    /\ ReadyInv

\* Once a worker has failed, no worker makes the cloud begin anything more
\* on purpose: only a call that was under way may still take effect.
QuietAfterFailure ==
    \A w \in Worker :
        /\ cancelled
        /\ inst[w] \in {"NONE", "TERMINATED"}
        /\ inst'[w] \in {"PROVISIONING", "STAGING"}
        => pc'[w] = "failed"

NothingBegunAfterFailure == [][QuietAfterFailure]_vars

\* "gpunow start waits for sentinel ready before marking an instance READY"
\* (README): with nothing going wrong, the wait ends in READY and Start does
\* not return an error.
FaultFreeStartSucceeds == Faults = {} => main # "err"

\* Start returns: no worker waits forever, for the mutex, for an operation
\* or for a sentinel that never answers.
StartReturns == Running ~> ~Running
==============================================================================
