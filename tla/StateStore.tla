----------------------------- MODULE StateStore -----------------------------
(***************************************************************************)
(* The state store of gpunow (internal/state): the content of state.json   *)
(* under the store's operations, each one a load followed by a save.  One  *)
(* command at a time; what happens between the load and the save when      *)
(* several goroutines or processes use the file is module StateFile.       *)
(***************************************************************************)
EXTENDS ClusterEntry

CONSTANT Cluster               \* cluster names

VARIABLE data                  \* state.json: the entry of every cluster

StoreTypeOK == data \in [Cluster -> Entry]

StoreInit == data = [c \in Cluster |-> NoEntry]

-----------------------------------------------------------------------------
\* A save writes every entry as it was loaded, the named one as recorded.
Save(c, entry) ==
    data' = [d \in Cluster |-> IF d = c THEN entry ELSE LoadEntry(data[d])]

CreateCluster(c) ==
    \E n \in 1 .. MaxInstances, keep \in BOOLEAN :
        Save(c, RecordClusterCreate(data[c], n, keep))

StartCluster(c) ==
    \E n \in 1 .. MaxInstances, keep \in BOOLEAN :
        Save(c, RecordClusterStart(data[c], n, keep))

StopCluster(c) ==
    \E deleted \in BOOLEAN : Save(c, RecordClusterStop(data[c], deleted))

UpdateCluster(c) == Save(c, RecordClusterUpdate(data[c]))

DeleteCluster(c) == Save(c, NoEntry)

\* Only a PROVISIONING or READY report carries the address.
InstanceState(c) ==
    \E i \in Index, s \in InstanceStates, ip \in BOOLEAN :
        /\ ip => s \in {"PROVISIONING", "READY"}
        /\ Save(c, RecordClusterInstanceState(data[c], i, s, ip))

Sync ==
    \E live \in [Cluster -> [Index -> LiveInstance]] :
        data' = [c \in Cluster |-> SyncEntry(LoadEntry(data[c]), live[c])]

StoreNext ==
    \/ \E c \in Cluster :
         \/ CreateCluster(c) \/ StartCluster(c) \/ StopCluster(c)
         \/ UpdateCluster(c) \/ DeleteCluster(c) \/ InstanceState(c)
    \/ Sync

StoreSpec == StoreInit /\ [][StoreNext]_data

-----------------------------------------------------------------------------
(***************************************************************************)
(* Properties                                                              *)
(***************************************************************************)

\* An entry whose status is "deleted" has its DeletedAt time: every path
\* that clears DeletedAt also derives a new status, and both ways of
\* marking a cluster deleted set it.
DeletedIsMarked ==
    \A c \in Cluster : data[c].status = "deleted" => data[c].deletedAt

\* A cluster the file calls READY has a READY instance and none on its way
\* to another state, whichever of the two folds (the local one or the one of
\* status sync) wrote the status and whatever was recorded since.
ReadyIsSettled ==
    \A c \in Cluster :
        data[c].status = "READY" =>
            /\ "READY" \in States(data[c].inst)
            /\ States(data[c].inst) \cap TransitionalStates = {}

\* A TERMINATED instance has no external address on record: an address
\* survives STARTING and TERMINATING reports, never the TERMINATED one.
TerminatedHasNoAddress ==
    \A c \in Cluster : \A i \in Index :
        data[c].inst[i].state = "TERMINATED" => ~data[c].inst[i].ip
==============================================================================
