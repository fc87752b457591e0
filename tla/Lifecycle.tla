------------------------------ MODULE Lifecycle ------------------------------
(***************************************************************************)
(* The lifecycle vocabulary of gpunow (internal/lifecycle) and the two     *)
(* ways the program folds the states of a cluster's instances into one     *)
(* cluster state: deriveClusterState over the local records (internal/     *)
(* state) and clusterStatusAgg over the live instances (internal/cli).     *)
(* Strings are upper case and trimmed, which is what NormalizeInstanceState*)
(* leaves; spelling variants are not part of the model.                    *)
(***************************************************************************)
EXTENDS Naturals

\* The five states gpunow itself writes.
InstanceStates ==
    {"TERMINATED", "STARTING", "PROVISIONING", "READY", "TERMINATING"}

\* What Compute Engine reports for an instance.
ComputeStatuses ==
    {"PROVISIONING", "STAGING", "RUNNING", "STOPPING", "SUSPENDING",
     "SUSPENDED", "REPAIRING", "TERMINATED"}

\* Compute statuses that FromComputeStatus hands through unchanged.
UnmappedStatuses == {"SUSPENDED", "REPAIRING"}

\* What an instance record may hold.
RecordedStates == InstanceStates \cup UnmappedStatuses

\* The states of an instance on its way to another state.
TransitionalStates == {"STARTING", "PROVISIONING", "TERMINATING"}

FromComputeStatus(status) ==
    CASE status = "TERMINATED"                   -> "TERMINATED"
      [] status \in {"STOPPING", "SUSPENDING"}   -> "TERMINATING"
      [] status \in {"PROVISIONING", "STAGING"}  -> "STARTING"
      [] status = "RUNNING"                      -> "READY"
      [] OTHER                                   -> status

(***************************************************************************)
(* Both folds look only at which states occur, so a cluster is given as    *)
(* the SET of its instances' states.                                       *)
(***************************************************************************)

\* Mutant: a provisioning instance is overlooked.
DeriveClusterStateNoProvisioning(states) ==
    CASE "TERMINATING" \in states -> "TERMINATING"
      [] "TERMINATING" \notin states /\ "STARTING" \in states -> "STARTING"
      [] /\ states \cap {"TERMINATING", "STARTING"} = {}
         /\ "READY" \in states -> IF "TERMINATED" \in states THEN "STARTING" ELSE "READY"
      [] OTHER -> "TERMINATED"

\* deriveClusterState: a state it does not list (SUSPENDED, REPAIRING)
\* counts for nothing.  The early return for an empty cluster gives the
\* same answer as the last line.
DeriveClusterState(states) ==
    CASE "TERMINATING" \in states  -> "TERMINATING"
      [] /\ "TERMINATING" \notin states
         /\ "STARTING" \in states  -> "STARTING"
      [] /\ states \cap {"TERMINATING", "STARTING"} = {}
         /\ "PROVISIONING" \in states -> "PROVISIONING"
      [] /\ states \cap TransitionalStates = {}
         /\ "READY" \in states
         /\ "TERMINATED" \notin states -> "READY"
      [] /\ states \cap TransitionalStates = {}
         /\ {"READY", "TERMINATED"} \subseteq states -> "STARTING"
      [] OTHER -> "TERMINATED"

\* clusterStatusAgg: observe puts every state it does not list, and so
\* SUSPENDED and REPAIRING, in the "starting" class.
ObservedStates(statuses) ==
    {LET s == FromComputeStatus(status) IN
     IF s \in {"READY", "TERMINATED", "TERMINATING"} THEN s ELSE "STARTING"
        : status \in statuses}

AggregateStatus(statuses) ==
    LET seen == ObservedStates(statuses) IN
    CASE "TERMINATING" \in seen -> "TERMINATING"
      [] /\ "TERMINATING" \notin seen
         /\ \/ "STARTING" \in seen
            \/ {"READY", "TERMINATED"} \subseteq seen -> "STARTING"
      [] seen = {"READY"} -> "READY"
      [] OTHER -> "TERMINATED"
==============================================================================
