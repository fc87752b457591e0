------------------------------- MODULE Gpunow -------------------------------
(***************************************************************************)
(* The commands of gpunow on one cluster, one after the other in one       *)
(* terminal, with "gpunow ssh" in a second one: how the record in          *)
(* state.json (module ClusterEntry) and the instances in Compute Engine    *)
(* follow each other while commands fail or are killed half-way and        *)
(* instances come and go by themselves.                                    *)
(*                                                                         *)
(* Calls to Compute Engine and updates of state.json are atomic here; what *)
(* happens inside them, and the network resources, are the subject of      *)
(* ClusterStart, ClusterStop and StateFile.  Any update may fail: then the *)
(* entry stays as it is, a message is logged, and the command goes on as   *)
(* if it had not failed.  Kept disks are ClusterStop's, too: clusters are  *)
(* created without them.                                                   *)
(***************************************************************************)
EXTENDS ClusterEntry

CONSTANT SshTargets            \* bound: the instances ssh connects to

ASSUME SshTargetsAssumption == SshTargets \subseteq Index

VARIABLES
    entry,         \* the cluster's entry in state.json
    cmd,           \* the command in the first terminal, and its -n
    pc,            \* where it is with each instance
    seen,          \* the instances as the command has listed them
    loaded,        \* the entry as status sync has loaded it
    ssh,           \* the command in the second terminal, and its target
    inst,          \* cloud: each instance
    setup,         \* instance: how far its first-boot setup is
    unrecorded     \* history: instances that a start took on when they were
                   \* not on record, and whose report could not be written

vars == <<entry, cmd, pc, seen, loaded, ssh, inst, setup, unrecorded>>

CloudStates == {"NONE", "RUNNING", "TERMINATED"}

TypeOK ==
    /\ entry \in Entry /\ loaded \in Entry
    /\ cmd \in [op : {"idle", "start", "stop", "delete", "sync"},
                n : 0 .. MaxInstances]
    /\ pc \in [Index -> {"off", "report", "act", "acted", "probe", "ready",
                         "done", "failed"}]
    /\ seen \in [Index -> CloudStates]
    /\ ssh \in [at : {"idle", "gate", "record", "wait", "ready", "connected"},
                i : Index]
    /\ inst \in [Index -> CloudStates]
    /\ setup \in [Index -> {"none", "running", "interrupted", "ready"}]
    /\ unrecorded \in SUBSET Index

NoCommand == [op |-> "idle", n |-> 0]
NoSession == [at |-> "idle", i |-> 0]
Off       == [i \in Index |-> "off"]
Nothing   == [i \in Index |-> "NONE"]

Init ==
    /\ entry = NoEntry /\ loaded = NoEntry
    /\ cmd = NoCommand
    /\ pc = Off
    /\ seen = Nothing
    /\ ssh = NoSession
    /\ inst = Nothing
    /\ setup = [i \in Index |-> "none"]
    /\ unrecorded = {}

-----------------------------------------------------------------------------
cloud  == <<inst, setup>>
record == <<entry, unrecorded>>

Idle == cmd.op = "idle"

Goto(i, from, to) ==
    /\ pc[i] = from
    /\ pc' = [pc EXCEPT ![i] = to]

OnRecord(i) ==
    /\ entry.known /\ i \in Recorded(entry.inst)
    /\ entry.status # "deleted"

\* An update of the entry that puts the instances of a set on record.
Write(new, puts) ==
    /\ entry' = new
    /\ unrecorded' = unrecorded \ puts

\* clusterStateUpdateFn: a report that cannot be written is only logged.
Report(i, state, ip) ==
    \/ Write(RecordClusterInstanceState(entry, i, state, ip), {i})
    \/ /\ UNCHANGED entry
       /\ unrecorded' = IF state = "STARTING" /\ ~OnRecord(i)
                        THEN unrecorded \cup {i} ELSE unrecorded

Failed == \E i \in Index : pc[i] = "failed"
Joined == \A i \in Index : pc[i] \in {"off", "done", "failed"}

\* The command returns.
Return ==
    /\ cmd' = NoCommand
    /\ pc' = Off
    /\ seen' = Nothing
    /\ loaded' = NoEntry
    /\ UNCHANGED <<ssh, cloud>>

(***************************************************************************)
(* create, update                                                          *)
(***************************************************************************)
Created(n) == Write(RecordClusterCreate(entry, n, FALSE), 0 .. n - 1)

Create ==
    /\ Idle
    /\ \E n \in 1 .. MaxInstances : Created(n)
    /\ UNCHANGED <<cmd, pc, seen, loaded, ssh, cloud>>

\* The maximal run time it sets in the cloud is not part of the model.
Update ==
    /\ Idle
    /\ Write(RecordClusterUpdate(entry), {})
    /\ UNCHANGED <<cmd, pc, seen, loaded, ssh, cloud>>

(***************************************************************************)
(* start, create --start                                                   *)
(***************************************************************************)
Launch(n) ==
    /\ cmd' = [op |-> "start", n |-> n]
    /\ pc' = [i \in Index |-> IF i < n THEN "report" ELSE "off"]

\* The cluster must be on record; its number of instances is the default.
BeginStart ==
    /\ Idle
    /\ entry.known
    /\ \E n \in 1 .. MaxInstances \cup {entry.num} : n > 0 /\ Launch(n)
    /\ UNCHANGED <<record, seen, loaded, ssh, cloud>>

\* The cluster is started whether or not its creation could be recorded.
BeginCreateStart ==
    /\ Idle
    /\ \E n \in 1 .. MaxInstances : /\ Created(n) \/ UNCHANGED record
                                   /\ Launch(n)
    /\ UNCHANGED <<seen, loaded, ssh, cloud>>

StartReports(i) ==
    /\ cmd.op = "start"
    /\ Goto(i, "report", "act")
    /\ Report(i, "STARTING", FALSE)
    /\ UNCHANGED <<cmd, seen, loaded, ssh, cloud>>

\* The instance is inserted, with a first-boot setup before it, or booted.
Boot(i) ==
    /\ cmd.op = "start" /\ ~Failed
    /\ Goto(i, "act", "acted")
    /\ inst' = [inst EXCEPT ![i] = "RUNNING"]
    /\ setup' = [setup EXCEPT ![i] = IF inst[i] = "NONE" THEN "running" ELSE @]
    /\ UNCHANGED <<record, cmd, seen, loaded, ssh>>

\* Only a running instance has an address.
ReportProvisioning(i) ==
    /\ cmd.op = "start"
    /\ Goto(i, "acted", "probe")
    /\ Report(i, "PROVISIONING", inst[i] = "RUNNING")
    /\ UNCHANGED <<cmd, seen, loaded, ssh, cloud>>

SentinelReady(i) == inst[i] = "RUNNING" /\ setup[i] = "ready"

ProbeReady(i) ==
    /\ SentinelReady(i) /\ ~Failed
    /\ Goto(i, "probe", "ready")
    /\ UNCHANGED <<record, cmd, seen, loaded, ssh, cloud>>

ReportReady(i) ==
    /\ Goto(i, "ready", "done")
    /\ Report(i, "READY", TRUE)
    /\ UNCHANGED <<cmd, seen, loaded, ssh, cloud>>

JoinStart ==
    /\ cmd.op = "start"
    /\ Joined
    /\ \/ ~Failed /\ Write(RecordClusterStart(entry, cmd.n, FALSE), 0 .. cmd.n - 1)
       \/ UNCHANGED record
    /\ Return

(***************************************************************************)
(* stop, stop --delete                                                     *)
(***************************************************************************)

\* The instances are found in the cloud, on record or not.
BeginStop ==
    /\ Idle
    /\ \E op \in {"stop", "delete"} : cmd' = [op |-> op, n |-> 0]
    /\ seen' = inst
    /\ pc' = [i \in Index |-> IF inst[i] = "NONE" THEN "off" ELSE "report"]
    /\ UNCHANGED <<record, loaded, ssh, cloud>>

StopReports(i) ==
    /\ \/ /\ cmd.op = "stop" /\ seen[i] = "TERMINATED"
          /\ Goto(i, "report", "done")
          /\ Report(i, "TERMINATED", FALSE)
       \/ /\ cmd.op = "delete" \/ (cmd.op = "stop" /\ seen[i] # "TERMINATED")
          /\ Goto(i, "report", "act")
          /\ Report(i, "TERMINATING", FALSE)
    /\ UNCHANGED <<cmd, seen, loaded, ssh, cloud>>

\* The instance ceases to run, or to exist.
Remove(i) ==
    /\ inst' = [inst EXCEPT ![i] = "NONE"]
    /\ setup' = [setup EXCEPT ![i] = "none"]

Halt(i) ==
    /\ inst' = [inst EXCEPT ![i] = "TERMINATED"]
    /\ setup' = [setup EXCEPT ![i] = IF @ = "running" THEN "interrupted" ELSE @]

StopInstance(i) ==
    /\ inst[i] # "NONE" /\ ~Failed
    /\ Goto(i, "act", "acted")
    /\ \/ cmd.op = "delete" /\ Remove(i)
       \/ cmd.op = "stop" /\ Halt(i)
    /\ UNCHANGED <<record, cmd, seen, loaded, ssh>>

ReportTerminated(i) ==
    /\ cmd.op \in {"stop", "delete"}
    /\ Goto(i, "acted", "done")
    /\ Report(i, "TERMINATED", FALSE)
    /\ UNCHANGED <<cmd, seen, loaded, ssh, cloud>>

\* Mutant: the cluster is forgotten whatever became of its instances.
JoinStopDropsErrors ==
    /\ cmd.op \in {"stop", "delete"}
    /\ Joined
    /\ \/ cmd.op = "delete" /\ Write(NoEntry, {})
       \/ cmd.op = "stop" /\ Write(RecordClusterStop(entry, FALSE), {})
       \/ UNCHANGED record
    /\ Return

JoinStop ==
    /\ cmd.op \in {"stop", "delete"}
    /\ Joined
    /\ \/ cmd.op = "delete" /\ ~Failed /\ Write(NoEntry, {})
       \/ cmd.op = "stop" /\ ~Failed /\ Write(RecordClusterStop(entry, FALSE), {})
       \/ UNCHANGED record
    /\ Return

\* A call of start or stop fails, having taken effect or not.
InstanceFails(i) ==
    /\ cmd.op \in {"start", "stop", "delete"}
    /\ pc[i] \in {"act", "acted", "probe"}
    /\ pc' = [pc EXCEPT ![i] = "failed"]
    /\ UNCHANGED <<record, cmd, seen, loaded, ssh, cloud>>

\* The process is killed, or fails outside the instances' goroutines.
Kill ==
    /\ ~Idle
    /\ UNCHANGED record
    /\ Return

(***************************************************************************)
(* status sync: load, list, save                                           *)
(***************************************************************************)
SyncLoad ==
    /\ Idle
    /\ cmd' = [op |-> "sync", n |-> 0]
    /\ loaded' = LoadEntry(entry)
    /\ seen' = inst
    /\ UNCHANGED <<record, pc, ssh, cloud>>

Live == [i \in Index |-> [status |-> seen[i], ip |-> seen[i] = "RUNNING"]]

\* Mutant: the listing is taken for an empty one.
SyncSaveEmpty ==
    /\ cmd.op = "sync"
    /\ Write(IF loaded.known THEN MarkDeletedCluster(loaded) ELSE loaded, Index)
    /\ Return

SyncSave ==
    /\ cmd.op = "sync"
    /\ Write(SyncEntry(loaded, Live), Index)
    /\ Return

(***************************************************************************)
(* ssh                                                                     *)
(***************************************************************************)
first == <<cmd, pc, seen, loaded>>

SshGoto(from, to) ==
    /\ ssh.at = from
    /\ ssh' = [ssh EXCEPT !.at = to]

\* The target is looked up in the cloud: it must have an address.
SshResolve ==
    /\ ssh.at = "idle"
    /\ \E i \in SshTargets :
          /\ inst[i] = "RUNNING"
          /\ ssh' = [at |-> "gate", i |-> i]
    /\ UNCHANGED <<record, first, cloud>>

Gate(i) == LoadEntry(entry).inst[i].state

\* ensureTargetReadyForSSH: an instance on record as stopped is refused,
\* one that is not READY is waited for.
SshGate ==
    /\ \/ /\ ~entry.known \/ Gate(ssh.i) = "READY"
          /\ SshGoto("gate", "connected")
       \/ /\ entry.known /\ Gate(ssh.i) \in {"TERMINATED", "TERMINATING"}
          /\ ssh.at = "gate" /\ ssh' = NoSession
       \/ /\ entry.known
          /\ Gate(ssh.i) \notin {"READY", "TERMINATED", "TERMINATING"}
          /\ SshGoto("gate", "record")
    /\ UNCHANGED <<record, first, cloud>>

SshRecord ==
    /\ SshGoto("record", "wait")
    /\ Report(ssh.i, "PROVISIONING", TRUE)
    /\ UNCHANGED <<first, cloud>>

SshProbe ==
    /\ SentinelReady(ssh.i)
    /\ SshGoto("wait", "ready")
    /\ UNCHANGED <<record, first, cloud>>

SshRecordReady ==
    /\ SshGoto("ready", "connected")
    /\ Report(ssh.i, "READY", TRUE)
    /\ UNCHANGED <<first, cloud>>

\* The session ends, or the command fails or is killed.
SshEnds ==
    /\ ssh.at # "idle"
    /\ ssh' = NoSession
    /\ UNCHANGED <<record, first, cloud>>

(***************************************************************************)
(* The instances: a SPOT instance is taken away, or its time is over, and  *)
(* it is stopped or deleted; a setup completes.                            *)
(***************************************************************************)
Preempt(i) ==
    /\ inst[i] = "RUNNING"
    /\ Halt(i) \/ Remove(i)
    /\ UNCHANGED <<record, first, ssh>>

SetupDone(i) ==
    /\ inst[i] = "RUNNING" /\ setup[i] = "running"
    /\ setup' = [setup EXCEPT ![i] = "ready"]
    /\ UNCHANGED <<record, first, ssh, inst>>

-----------------------------------------------------------------------------
InstanceStep(i) ==
    \/ StartReports(i) \/ Boot(i) \/ ReportProvisioning(i) \/ ProbeReady(i)
    \/ ReportReady(i) \/ StopReports(i) \/ StopInstance(i)
    \/ ReportTerminated(i) \/ InstanceFails(i)

Next ==
    \/ Create \/ Update \/ BeginStart \/ BeginCreateStart \/ JoinStart
    \/ BeginStop \/ JoinStop
    \/ SyncLoad \/ SyncSave \/ Kill
    \/ \E i \in Index : InstanceStep(i) \/ Preempt(i) \/ SetupDone(i)
    \/ SshResolve \/ SshGate \/ SshRecord \/ SshProbe \/ SshRecordReady \/ SshEnds

Spec == Init /\ [][Next]_vars

-----------------------------------------------------------------------------
(***************************************************************************)
(* Properties                                                              *)
(***************************************************************************)

\* No instance costs money unseen: an instance that exists is on record,
\* whichever command was interrupted where and whatever a later create,
\* update, sync or delete made of the entry.  The one exception is the
\* instance that was not on record when a start began with it and whose
\* report failed, until a report of it, a create or a start of that size or
\* a status sync is written.
NoOrphans ==
    \A i \in Index : inst[i] # "NONE" =>
        (entry.known /\ i \in Recorded(entry.inst)) \/ i \in unrecorded

\* A cluster that is marked deleted has no instance, and one that was
\* marked so is not marked any more before a start gives it one, unless the
\* report of that start failed.
DeletedIsGone ==
    entry.status = "deleted" =>
        \A i \in Index : inst[i] = "NONE" \/ i \in unrecorded

==============================================================================
