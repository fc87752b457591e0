----------------------------- MODULE ClusterStop -----------------------------
(***************************************************************************)
(* "gpunow stop": the options of the command, cluster.Service.Stop and the *)
(* recording of the outcome.  Stop lists the cluster's instances once,     *)
(* stops or deletes each in a goroutine of its own under an errgroup, and, *)
(* when deleting, takes down the firewall rules, the subnetwork and the    *)
(* network.  A run may fail anywhere, be killed, and be repeated with      *)
(* other flags.                                                            *)
(*                                                                         *)
(* Compute Engine is modelled without its refusal to delete a resource in  *)
(* use, so that the order of the deletions is the program's own.           *)
(***************************************************************************)
EXTENDS Lifecycle

CONSTANTS
    Worker,        \* the instances the cluster may have
    NumFirewalls,  \* its firewall rules
    Faults         \* which things may go wrong

AllStopFaults == {"api", "operation", "preempt", "autodelete", "kill"}

ASSUME StopAssumption ==
    /\ NumFirewalls \in Nat \ {0}
    /\ Faults \subseteq AllStopFaults

\* The order in which Stop deletes them.
Subnetwork == NumFirewalls + 1
Network    == NumFirewalls + 2
Resource   == 1 .. Network

VARIABLES
    main,          \* where the command is
    opts,          \* what it was asked to do
    res,           \* the resource it is deleting
    pc,            \* where each worker is
    seen,          \* the instances as listed
    cancelled,     \* groupCtx
    recorded,      \* each instance's state in state.json
    keepDefault,   \* the keep-disks setting the cluster was created with
    resource,      \* cloud: which network resources exist
    inst,          \* cloud: the status of each instance
    disk           \* cloud: each boot disk, and whether it goes with its instance

local == <<main, opts, res, pc, seen, cancelled>>
store == <<recorded, keepDefault>>
vars  == <<main, opts, res, pc, seen, cancelled, recorded, keepDefault,
           resource, inst, disk>>

MainSteps == {"idle", "list", "join", "delete", "wait", "record",
              "ok", "err", "refused"}

WorkerSteps == {"off", "report", "autoDelete", "call", "operation",
                "reportDone", "done", "failed"}

\* "DELETING" is an instance whose deletion is under way.
CloudStatuses == {"NONE", "RUNNING", "STOPPING", "TERMINATED", "DELETING"}

TypeOK ==
    /\ main \in MainSteps
    /\ opts \in [delete : BOOLEAN, keepDisks : BOOLEAN, deleteDisks : BOOLEAN]
    /\ res \in Resource
    /\ pc \in [Worker -> WorkerSteps]
    /\ seen \in [Worker -> CloudStatuses]
    /\ cancelled \in BOOLEAN
    /\ recorded \in [Worker -> InstanceStates \cup {"ABSENT"}]
    /\ keepDefault \in BOOLEAN
    /\ resource \in [Resource -> BOOLEAN]
    /\ inst \in [Worker -> CloudStatuses]
    /\ disk \in [Worker -> {"none", "auto", "kept"}]

\* What a Start, complete or not, may leave behind; the keep-disks setting
\* decides whether a boot disk goes with its instance.
Init ==
    /\ main = "idle"
    /\ opts = [delete |-> FALSE, keepDisks |-> FALSE, deleteDisks |-> FALSE]
    /\ res = 1
    /\ pc = [w \in Worker |-> "off"]
    /\ seen = [w \in Worker |-> "NONE"]
    /\ cancelled = FALSE
    /\ keepDefault \in BOOLEAN
    /\ resource = [r \in Resource |-> TRUE]
    /\ inst \in [Worker -> {"NONE", "RUNNING", "TERMINATED"}]
    /\ recorded = [w \in Worker |-> IF inst[w] = "RUNNING" THEN "READY"
                                                           ELSE "TERMINATED"]
    /\ disk = [w \in Worker |-> IF inst[w] = "NONE" THEN "none"
                                ELSE IF keepDefault THEN "kept" ELSE "auto"]

Running == main \in {"list", "join", "delete", "wait", "record"}

-----------------------------------------------------------------------------
(***************************************************************************)
(* The command                                                             *)
(***************************************************************************)

\* resolveStopKeepDisks; the combinations it refuses are usage errors and
\* change nothing.
Accepted(delete, keep, deleteDisks) ==
    /\ ~(keep /\ deleteDisks)
    /\ keep \/ deleteDisks => delete

ResolveStopKeepDisks(keep, deleteDisks) ==
    IF keep THEN TRUE ELSE IF deleteDisks THEN FALSE ELSE keepDefault

\* Stop itself refuses disk options that come without a delete.
Refuses(o) == ~o.delete /\ (o.keepDisks \/ o.deleteDisks)

Begin ==
    \E delete, keep, deleteDisks \in BOOLEAN :
        /\ ~Running
        /\ Accepted(delete, keep, deleteDisks)
        /\ LET o == [delete |-> delete, deleteDisks |-> deleteDisks,
                     keepDisks |-> ResolveStopKeepDisks(keep, deleteDisks)]
           IN  /\ opts' = o
               /\ main' = IF Refuses(o) THEN "refused" ELSE "list"
        /\ res' = 1
        /\ pc' = [w \in Worker |-> "off"]
        /\ seen' = [w \in Worker |-> "NONE"]
        /\ cancelled' = FALSE
        /\ UNCHANGED <<store, resource, inst, disk>>

Listed == {w \in Worker : seen[w] # "NONE"}

\* With no instance listed Stop returns nil at once, deleting or not.
List ==
    /\ main = "list"
    /\ seen' = inst
    /\ IF \A w \in Worker : inst[w] = "NONE"
       THEN /\ main' = "record"
            /\ UNCHANGED pc
       ELSE /\ main' = "join"
            /\ pc' = [w \in Worker |-> IF inst[w] = "NONE" THEN "off" ELSE "report"]
    /\ UNCHANGED <<opts, res, cancelled, store, resource, inst, disk>>

\* Mutant: the workers' errors are dropped.
JoinDropsErrors ==
    /\ main = "join"
    /\ \A w \in Worker : pc[w] \in {"off", "done", "failed"}
    /\ main' = IF opts.delete THEN "delete" ELSE "record"
    /\ UNCHANGED <<opts, res, pc, seen, cancelled, store, resource, inst, disk>>

\* group.Wait
Join ==
    /\ main = "join"
    /\ \A w \in Worker : pc[w] \in {"off", "done", "failed"}
    /\ main' = IF \E w \in Worker : pc[w] = "failed" THEN "err"
               ELSE IF opts.delete THEN "delete" ELSE "record"
    /\ UNCHANGED <<opts, res, pc, seen, cancelled, store, resource, inst, disk>>

\* The next resource, or the end of Stop.
ResourceGone ==
    /\ IF res = Network THEN main' = "record" /\ UNCHANGED res
                        ELSE main' = "delete" /\ res' = res + 1
    /\ UNCHANGED <<opts, pc, seen, cancelled, store, inst, disk>>

\* A resource that is NotFound counts as deleted.
DeleteResource ==
    /\ main = "delete"
    /\ \/ /\ resource[res]
          /\ main' = "wait"
          /\ UNCHANGED <<opts, res, pc, seen, cancelled, store, inst, disk>>
       \/ /\ ~resource[res]
          /\ ResourceGone
    /\ UNCHANGED resource

\* Mutant: the end of the deletion is not awaited.
ResourceNotAwaited ==
    /\ main = "wait"
    /\ \/ ResourceGone /\ UNCHANGED resource
       \/ ResourceGone /\ resource' = [resource EXCEPT ![res] = FALSE]

\* The operation ends, the resource deleted or not.
ResourceDeleted ==
    /\ main = "wait"
    /\ \/ /\ resource' = [resource EXCEPT ![res] = FALSE]
          /\ ResourceGone
       \/ /\ "operation" \in Faults
          /\ main' = "err"
          /\ UNCHANGED <<opts, res, pc, seen, cancelled, store, resource, inst, disk>>

\* Mutant: a failed listing is taken for an empty one.
FailedListIsEmpty ==
    /\ main \in {"list", "delete", "wait"}
    /\ "api" \in Faults
    /\ main' = IF main = "list" THEN "record" ELSE "err"
    /\ UNCHANGED <<opts, res, pc, seen, cancelled, store, resource, inst, disk>>

\* A list, delete or poll call fails; a delete may have taken effect.
MainCallFails ==
    /\ main \in {"list", "delete", "wait"}
    /\ "api" \in Faults
    /\ main' = "err"
    /\ \/ UNCHANGED resource
       \/ main # "list" /\ resource' = [resource EXCEPT ![res] = FALSE]
    /\ UNCHANGED <<opts, res, pc, seen, cancelled, store, inst, disk>>

\* DeleteCluster forgets the cluster, RecordClusterStop calls every recorded
\* instance TERMINATED.
RecordOutcome ==
    /\ main = "record"
    /\ main' = "ok"
    /\ recorded' = [w \in Worker |-> IF opts.delete \/ recorded[w] = "ABSENT"
                                     THEN "ABSENT" ELSE "TERMINATED"]
    /\ keepDefault' = (keepDefault /\ ~opts.delete)
    /\ UNCHANGED <<opts, res, pc, seen, cancelled, resource, inst, disk>>

\* The process is killed.
Kill ==
    /\ "kill" \in Faults
    /\ Running
    /\ main' = "idle"
    /\ pc' = [w \in Worker |-> "off"]
    /\ UNCHANGED <<opts, res, seen, cancelled, store, resource, inst, disk>>

-----------------------------------------------------------------------------
(***************************************************************************)
(* A worker                                                                *)
(***************************************************************************)
cloud == <<resource, inst, disk>>

Goto(w, from, to) ==
    /\ pc[w] = from
    /\ pc' = [pc EXCEPT ![w] = to]

Record(w, state) == recorded' = [recorded EXCEPT ![w] = state]

\* The status of the listing decides, not the present one.
Report(w) ==
    /\ \/ /\ opts.delete
          /\ Goto(w, "report", "autoDelete")
          /\ Record(w, "TERMINATING")
       \/ /\ ~opts.delete /\ seen[w] = "TERMINATED"
          /\ Goto(w, "report", "done")
          /\ Record(w, "TERMINATED")
       \/ /\ ~opts.delete /\ seen[w] # "TERMINATED"
          /\ Goto(w, "report", "call")
          /\ Record(w, "TERMINATING")
    /\ UNCHANGED <<main, opts, res, seen, cancelled, keepDefault, cloud>>

\* A call fails, of itself or because the context is cancelled, without
\* effect; a NotFound instance is an error, too.
CallFails(w) ==
    /\ pc[w] \in {"autoDelete", "call", "operation"}
    /\ \/ cancelled
       \/ "api" \in Faults
       \/ pc[w] # "operation" /\ inst[w] = "NONE"
    /\ pc' = [pc EXCEPT ![w] = "failed"]
    /\ cancelled' = TRUE
    /\ UNCHANGED <<main, opts, res, seen, store, cloud>>

\* Mutant: the disk always goes with the instance.
AutoDeleteAlways == TRUE

\* setAutoDelete: the disk goes with the instance unless disks are kept.
AutoDelete == ~opts.keepDisks \/ opts.deleteDisks

\* The answer may be lost.
SetAutoDelete(w) ==
    /\ ~cancelled
    /\ inst[w] # "NONE"
    /\ disk' = [disk EXCEPT ![w] = IF AutoDelete THEN "auto" ELSE "kept"]
    /\ \/ /\ Goto(w, "autoDelete", "call")
          /\ UNCHANGED cancelled
       \/ /\ "api" \in Faults
          /\ Goto(w, "autoDelete", "failed")
          /\ cancelled' = TRUE
    /\ UNCHANGED <<main, opts, res, seen, store, resource, inst>>

\* DeleteInstance or StopInstance.  The answer may be lost.
Call(w) ==
    /\ ~cancelled
    /\ inst[w] # "NONE"
    /\ inst' = [inst EXCEPT ![w] =
                  IF opts.delete THEN "DELETING"
                  ELSE IF @ = "RUNNING" THEN "STOPPING" ELSE @]
    /\ \/ /\ Goto(w, "call", "operation")
          /\ UNCHANGED cancelled
       \/ /\ "api" \in Faults
          /\ Goto(w, "call", "failed")
          /\ cancelled' = TRUE
    /\ UNCHANGED <<main, opts, res, seen, store, resource, disk>>

Stopped(w) == inst[w] \in {"TERMINATED", "NONE"}

\* What the operation was to achieve.
Achieved(w) == IF opts.delete THEN inst[w] = "NONE" ELSE Stopped(w)

\* Mutant: the operation is not awaited.
OperationNotAwaited(w) ==
    /\ ~cancelled
    /\ Goto(w, "operation", "reportDone")
    /\ UNCHANGED <<main, opts, res, seen, cancelled, store, cloud>>

\* waitWithProgress sees the operation done, or failed.
OperationDone(w) ==
    /\ ~cancelled
    /\ Achieved(w)
    /\ Goto(w, "operation", "reportDone")
    /\ UNCHANGED <<main, opts, res, seen, cancelled, store, cloud>>

\* Mutant: a failed operation is begun again.
OperationRetried(w) ==
    /\ ~Achieved(w) /\ inst[w] \in {"RUNNING", "TERMINATED"}
    /\ Goto(w, "operation", "call")
    /\ UNCHANGED <<main, opts, res, seen, cancelled, store, cloud>>

OperationFailed(w) ==
    /\ pc[w] = "operation"
    /\ ~Achieved(w) /\ inst[w] \in {"RUNNING", "TERMINATED"}
    /\ pc' = [pc EXCEPT ![w] = "failed"]
    /\ cancelled' = TRUE
    /\ UNCHANGED <<main, opts, res, seen, store, cloud>>

ReportDone(w) ==
    /\ Goto(w, "reportDone", "done")
    /\ Record(w, "TERMINATED")
    /\ UNCHANGED <<main, opts, res, seen, cancelled, keepDefault, cloud>>

-----------------------------------------------------------------------------
(***************************************************************************)
(* Compute Engine                                                          *)
(***************************************************************************)
InstanceStopped(w) ==
    /\ inst[w] = "STOPPING"
    /\ \/ inst' = [inst EXCEPT ![w] = "TERMINATED"]
       \/ /\ "operation" \in Faults
          /\ inst' = [inst EXCEPT ![w] = "RUNNING"]
    /\ UNCHANGED <<local, store, resource, disk>>

\* An instance that is deleted takes its disk along or not.
Remove(w) ==
    /\ inst' = [inst EXCEPT ![w] = "NONE"]
    /\ disk' = [disk EXCEPT ![w] = IF @ = "auto" THEN "none" ELSE @]
    /\ UNCHANGED <<local, store, resource>>

InstanceDeleted(w) ==
    /\ inst[w] = "DELETING"
    /\ \/ Remove(w)
       \/ /\ "operation" \in Faults
          /\ inst' = [inst EXCEPT ![w] = "TERMINATED"]
          /\ UNCHANGED <<local, store, resource, disk>>

\* A SPOT instance is taken away or its maximal run time is over: it is
\* stopped or deleted, as its termination action says.
Preempt(w) ==
    /\ inst[w] = "RUNNING"
    /\ \/ /\ "preempt" \in Faults
          /\ inst' = [inst EXCEPT ![w] = "TERMINATED"]
          /\ UNCHANGED <<local, store, resource, disk>>
       \/ /\ "autodelete" \in Faults
          /\ Remove(w)

-----------------------------------------------------------------------------
MainStep ==
    \/ List \/ Join \/ DeleteResource \/ ResourceDeleted \/ MainCallFails
    \/ RecordOutcome

WorkerStep(w) ==
    \/ Report(w) \/ CallFails(w) \/ SetAutoDelete(w) \/ Call(w)
    \/ OperationDone(w) \/ OperationFailed(w) \/ ReportDone(w)

CloudStep(w) == InstanceStopped(w) \/ InstanceDeleted(w)

Next ==
    \/ Begin \/ Kill \/ MainStep
    \/ \E w \in Worker : WorkerStep(w) \/ CloudStep(w) \/ Preempt(w)

Spec == Init /\ [][Next]_vars

\* Every goroutine that can run does, and Compute Engine ends what it began.
Fairness ==
    /\ WF_vars(MainStep)
    /\ \A w \in Worker : WF_vars(WorkerStep(w)) /\ WF_vars(CloudStep(w))

FairSpec == Spec /\ Fairness

-----------------------------------------------------------------------------
(***************************************************************************)
(* Properties                                                              *)
(***************************************************************************)

\* An instance on record as TERMINATED does not run: neither the report of
\* an instance that was listed TERMINATED, nor that of a finished operation,
\* nor the final sweep over all recorded instances says so of a running one.
TerminatedIsStopped ==
    \A w \in Worker : recorded[w] = "TERMINATED" => Stopped(w)

\* A cluster that was forgotten has no instance left.
ForgottenHasNoInstance ==
    (\A w \in Worker : recorded[w] = "ABSENT") =>
        \A w \in Worker : inst[w] = "NONE"

\* Nothing of the network is taken away under an instance, and the network
\* goes last.
TeardownOrder ==
    /\ (\E r \in Resource : ~resource[r]) => \A w \in Worker : inst[w] = "NONE"
    /\ ~resource[Subnetwork] => \A r \in 1 .. NumFirewalls : ~resource[r]
    /\ ~resource[Network] => \A r \in Resource : ~resource[r]

\* When the command ends well every instance is stopped, and a delete that
\* found instances has left nothing.
NilMeansStopped ==
    main = "ok" =>
        /\ \A w \in Worker : Stopped(w)
        /\ opts.delete /\ Listed # {} =>
              /\ \A w \in Worker : inst[w] = "NONE"
              /\ \A r \in Resource : ~resource[r]

\* A delete that keeps disks never destroys one of an instance it deletes,
\* whatever flags an earlier, failed run used.
KeptDiskSurvives ==
    [][\A w \in Worker :
         /\ opts.delete /\ opts.keepDisks
         /\ pc[w] \in {"call", "operation"}
         /\ disk[w] # "none"
         => disk'[w] # "none"]_vars

\* The command ends: no worker waits forever, and none is waited for forever.
StopReturns == Running ~> ~Running

==============================================================================
