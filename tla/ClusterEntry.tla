---------------------------- MODULE ClusterEntry ----------------------------
(***************************************************************************)
(* One cluster's entry in state.json, and what each operation of           *)
(* internal/state (and "status sync" of internal/cli) does to it.  An      *)
(* entry that is not in the file is the zero entry with known = FALSE, so  *)
(* that "entry == nil, start from &Cluster{}" is one EXCEPT.               *)
(*                                                                         *)
(* Instances are named by their index.  Timestamps are dropped, except     *)
(* that DeletedAt is kept as "set or not"; of an instance's addresses the  *)
(* external one is kept, as "recorded or not"; of ClusterConfig the        *)
(* keep-disks flag is kept, the one setting a later command reads back.    *)
(***************************************************************************)
EXTENDS Lifecycle, FiniteSets

CONSTANT MaxInstances          \* bound on the instances of a cluster

ASSUME MaxInstancesAssumption == MaxInstances \in Nat \ {0}

Index == 0 .. MaxInstances - 1

Instance == [state : RecordedStates \cup {"ABSENT"}, ip : BOOLEAN]

NoInstance         == [state |-> "ABSENT", ip |-> FALSE]
TerminatedInstance == [state |-> "TERMINATED", ip |-> FALSE]

Statuses == InstanceStates \cup {"", "deleted"}
Actions  == {"", "create", "start", "stop", "delete", "update"}

Entry == [known : BOOLEAN, num : 0 .. MaxInstances, inst : [Index -> Instance],
          status : Statuses, action : Actions, deletedAt : BOOLEAN,
          keepDisks : BOOLEAN]

NoEntry == [known |-> FALSE, num |-> 0, inst |-> [i \in Index |-> NoInstance],
            status |-> "", action |-> "", deletedAt |-> FALSE,
            keepDisks |-> FALSE]

Recorded(inst)  == {i \in Index : inst[i].state # "ABSENT"}
States(inst)    == {inst[i].state : i \in Recorded(inst)}

\* ensureClusterInstances: indices below n exist; none is ever removed.
EnsureClusterInstances(inst, n) ==
    [i \in Index |-> IF i < n /\ inst[i].state = "ABSENT"
                     THEN TerminatedInstance ELSE inst[i]]

\* What load makes of an entry it finds in the file.
LoadEntry(e) ==
    IF ~e.known THEN e
    ELSE LET inst == EnsureClusterInstances(e.inst, e.num)
         IN  [e EXCEPT !.inst = inst,
                       !.status = IF @ = "" THEN DeriveClusterState(States(inst))
                                            ELSE @]

\* RecordClusterCreate and RecordClusterStart differ in the action they note.
LaunchEntry(e, n, keepDisks, action) ==
    LET inst == EnsureClusterInstances(e.inst, n)
    IN  [e EXCEPT !.known = TRUE, !.num = n, !.inst = inst,
                  !.keepDisks = keepDisks,
                  !.status = DeriveClusterState(States(inst)),
                  !.action = action, !.deletedAt = FALSE]

RecordClusterCreate(e, n, keepDisks) == LaunchEntry(LoadEntry(e), n, keepDisks, "create")
RecordClusterStart(e, n, keepDisks)  == LaunchEntry(LoadEntry(e), n, keepDisks, "start")

RecordClusterStop(file, deleted) ==
    LET e == LoadEntry(file)
        stopped == [i \in Index |-> IF e.inst[i].state = "ABSENT"
                                    THEN NoInstance ELSE TerminatedInstance]
    IN  IF deleted
        THEN [e EXCEPT !.known = TRUE, !.status = "deleted",
                       !.deletedAt = TRUE, !.action = "delete"]
        ELSE [e EXCEPT !.known = TRUE, !.inst = stopped,
                       !.status = DeriveClusterState(States(stopped)),
                       !.action = "stop"]

RecordClusterUpdate(e) == [LoadEntry(e) EXCEPT !.known = TRUE, !.action = "update"]

\* Mutant: an empty address never replaces the recorded one.
InstanceStateKeepsAddress(file, i, state, ip) ==
    LET e    == LoadEntry(file)
        inst == [e.inst EXCEPT ![i] = [state |-> state, ip |-> ip \/ @.ip]]
        size == Cardinality(Recorded(inst))
    IN  [e EXCEPT !.known = TRUE, !.inst = inst,
                  !.num = IF @ < size THEN size ELSE @,
                  !.status = DeriveClusterState(States(inst)),
                  !.deletedAt = FALSE]

\* RecordClusterInstanceState: an empty address replaces the recorded one
\* only when the instance is TERMINATED; the instance count is raised to
\* the number of recorded instances, never lowered.
RecordClusterInstanceState(file, i, state, ip) ==
    LET e    == LoadEntry(file)
        inst == [e.inst EXCEPT ![i] =
                   [state |-> state,
                    ip    |-> IF ip \/ state = "TERMINATED" THEN ip ELSE @.ip]]
        size == Cardinality(Recorded(inst))
    IN  [e EXCEPT !.known = TRUE, !.inst = inst,
                  !.num = IF @ < size THEN size ELSE @,
                  !.status = DeriveClusterState(States(inst)),
                  !.deletedAt = FALSE]

(***************************************************************************)
(* "gpunow status sync".  live[i] is what the project lists for instance i *)
(* of the cluster: [status, ip], status "NONE" for an instance that does   *)
(* not exist.  Compute Engine gives a TERMINATED instance no external      *)
(* address.                                                                *)
(***************************************************************************)
LiveInstance == {l \in [status : ComputeStatuses \cup {"NONE"}, ip : BOOLEAN] :
                   l.status \in {"NONE", "TERMINATED"} => ~l.ip}

Listed(live) == {i \in Index : live[i].status # "NONE"}

\* The cluster was found among the live instances: they replace the record.
SyncFound(e, live) ==
    [e EXCEPT !.known = TRUE,
              !.num = Cardinality(Listed(live)),
              !.status = AggregateStatus({live[i].status : i \in Listed(live)}),
              !.inst = [i \in Index |->
                          IF i \in Listed(live)
                          THEN [state |-> FromComputeStatus(live[i].status),
                                ip    |-> live[i].ip]
                          ELSE NoInstance]]

\* Mutant: the time of deletion is not noted.
MarkDeletedWithoutTime(e) == [e EXCEPT !.status = "deleted"]

\* markDeletedCluster
MarkDeletedCluster(e) ==
    IF e.status = "deleted" THEN e
    ELSE [e EXCEPT !.status = "deleted", !.deletedAt = TRUE]

\* No live instance: a cluster that was only created is kept, TERMINATED.
SyncMissing(e) ==
    IF e.action = "create" /\ e.status # "deleted"
    THEN [e EXCEPT !.status = "TERMINATED"]
    ELSE MarkDeletedCluster(e)

\* e is a loaded entry.
SyncEntry(e, live) ==
    IF Listed(live) # {} THEN SyncFound(e, live)
    ELSE IF e.known THEN SyncMissing(e) ELSE e
==============================================================================
