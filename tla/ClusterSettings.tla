--------------------------- MODULE ClusterSettings ---------------------------
(***************************************************************************)
(* Where the settings of a cluster come from, and how they reach Compute   *)
(* Engine: the profile (edited by "gpunow config" or by hand while other   *)
(* commands run), the overrides that "create" records, the instances that  *)
(* "start" builds from both, "update", which changes the scheduling of     *)
(* instances that exist, and the address range of the cluster, derived     *)
(* from the profile by internal/cluster/subnet.go.                         *)
(*                                                                         *)
(* One cluster command at a time, killed or failing anywhere.  Of the      *)
(* settings the maximal run time and the termination action are modelled;  *)
(* machine type and disk size take the same way.  The workers of Start are *)
(* in ClusterStart and those of Stop in ClusterStop; here an instance is   *)
(* launched, stopped or deleted in one step.                               *)
(*                                                                         *)
(* A range "ip/len" is given by the size of its block, 2^(32 - len)        *)
(* addresses, instead of the length of its network part: a longer prefix   *)
(* is a smaller block.                                                     *)
(***************************************************************************)
EXTENDS Naturals

CONSTANTS
    Worker,        \* the instances of the cluster
    MaxHours,      \* bound on the maximal run time
    Space,         \* the number of addresses (2^32 in the code)
    MinBlock,      \* the smallest block of a subnetwork (4, a prefix of 30)
    Bases,         \* values of subnet_cidr_base and subnet_prefix
    Hashes,        \* hashes of cluster names
    MaxEdits       \* bound on edits of the profile and on creates

Hours  == 1 .. MaxHours
Action == {"DELETE", "STOP"}
Unset  == "unset"              \* the empty string of the code

\* A base is an address, the size of its block, and the size of a
\* subnetwork.  Sizes are powers of two, of which the smaller divides the
\* larger.  The host bits of the address are zero, as in every base that the
\* documents and the default profile show.
ASSUME SettingsAssumption ==
    /\ MaxHours \in Nat \ {0}
    /\ Space \in Nat \ {0} /\ MinBlock \in Nat \ {0}
    /\ Hashes \subseteq Nat
    /\ MaxEdits \in Nat
    /\ Bases \subseteq [ip : 0 .. Space - 1, size : 1 .. Space, sub : 1 .. Space]
    /\ \A b \in Bases :
         /\ b.sub <= b.size => b.size % b.sub = 0
         /\ Space % b.size = 0
         /\ b.ip % b.size = 0

\* A range of addresses.
NoRange == [ip |-> 0, size |-> 0]
Ranges  == [ip : 0 .. Space - 1, size : 0 .. Space]

VARIABLES
    hash,          \* FNV-1a of the cluster's name
    pAction,       \* profile: termination_action
    pHours,        \*          max_run_hours
    base,          \*          subnet_cidr_base, subnet_prefix
    edits,         \* edits and creates so far
    known,         \* whether state.json names the cluster
    oAction,       \* its override of the termination action, or Unset
    oHours,        \* its override of the maximal run time, or 0
    main,          \* where the command is
    wAction,       \* the settings it puts on instances
    wHours,
    wRange,        \* start: the range it derived
    pc,            \* update: where each worker is
    listed,        \* update: the instances listed as TERMINATED
    inst,          \* cloud: the status of each instance
    action,        \*        its termination action, Unset without one
    hours,         \*        its maximal run time, 0 without one
    subnet,        \*        the range of the subnetwork
    rule,          \*        the source range of the internal firewall rule
    madeFrom,      \* history: the base the subnetwork was derived from
    edited         \* history: the base was edited since then

prof    == <<pAction, pHours, base>>
record  == <<known, oAction, oHours>>
want    == <<wAction, wHours, wRange>>
workers == <<pc, listed>>
scheds  == <<inst, action, hours>>
net     == <<subnet, rule, madeFrom, edited>>
vars    == <<hash, pAction, pHours, base, edits, known, oAction, oHours, main,
             wAction, wHours, wRange, pc, listed, inst, action, hours, subnet,
             rule, madeFrom, edited>>

TypeOK ==
    /\ hash \in Hashes
    /\ pAction \in Action /\ pHours \in Hours /\ base \in Bases
    /\ edits \in 0 .. MaxEdits
    /\ known \in BOOLEAN
    /\ oAction \in Action \cup {Unset} /\ oHours \in 0 .. MaxHours
    /\ main \in {"idle", "subnet", "rule", "launch", "list", "update",
                 "deleteRule", "deleteSubnet", "updated", "error"}
    /\ wAction \in Action \cup {Unset} /\ wHours \in 0 .. MaxHours
    /\ wRange \in Ranges
    /\ pc \in [Worker -> {"off", "call", "operation", "done", "failed"}]
    /\ listed \subseteq Worker
    /\ inst \in [Worker -> {"NONE", "RUNNING", "TERMINATED"}]
    /\ action \in [Worker -> Action \cup {Unset}]
    /\ hours \in [Worker -> 0 .. MaxHours]
    /\ subnet \in Ranges /\ rule \in Ranges /\ madeFrom \in Bases
    /\ edited \in BOOLEAN

\* A profile, and no cluster.
Init ==
    /\ hash \in Hashes
    /\ pAction = "DELETE" /\ pHours = 1 /\ base \in Bases
    /\ edits = 0
    /\ known = FALSE /\ oAction = Unset /\ oHours = 0
    /\ main = "idle"
    /\ wAction = Unset /\ wHours = 0 /\ wRange = NoRange
    /\ pc = [w \in Worker |-> "off"]
    /\ listed = {}
    /\ inst = [w \in Worker |-> "NONE"]
    /\ action = [w \in Worker |-> Unset]
    /\ hours = [w \in Worker |-> 0]
    /\ subnet = NoRange /\ rule = NoRange
    /\ madeFrom = base
    /\ edited = FALSE

Ended == main \in {"idle", "updated", "error"}

\* A command takes its variables with it.
Quits(how) ==
    /\ main' = how
    /\ wAction' = Unset /\ wHours' = 0 /\ wRange' = NoRange
    /\ pc' = [w \in Worker |-> "off"]
    /\ listed' = {}

\* Instances go, and their settings with them.
Remove(gone) ==
    /\ inst' = [w \in Worker |-> IF w \in gone THEN "NONE" ELSE inst[w]]
    /\ action' = [w \in Worker |-> IF w \in gone THEN Unset ELSE action[w]]
    /\ hours' = [w \in Worker |-> IF w \in gone THEN 0 ELSE hours[w]]

-----------------------------------------------------------------------------
(***************************************************************************)
(* The range of a cluster                                                  *)
(***************************************************************************)

\* DeriveSubnetCIDR refuses these: a prefix shorter than that of the base,
\* or longer than 30.
BadPrefix(b) == b.sub > b.size \/ b.sub < MinBlock

\* Mutant: the number of subnetworks does not depend on the base.
DeriveFromWholeSpace(b, h) ==
    LET index == h % (Space \div b.sub)
    IN  [ip |-> (b.ip + index * b.sub) % Space, size |-> b.sub]

\* h is the hash of the name; the arithmetic is that of uint32.
DeriveSubnetCIDR(b, h) ==
    LET index == h % (b.size \div b.sub)
    IN  [ip |-> (b.ip + index * b.sub) % Space, size |-> b.sub]

-----------------------------------------------------------------------------
(***************************************************************************)
(* Profile and record                                                      *)
(***************************************************************************)

\* "gpunow config" sets one of the first two, the user's editor any; no
\* command keeps them from doing so while it runs.
EditProfile ==
    /\ edits < MaxEdits
    /\ edits' = edits + 1
    /\ \/ pAction' \in Action \ {pAction} /\ UNCHANGED <<pHours, base, edited>>
       \/ pHours' \in Hours \ {pHours} /\ UNCHANGED <<pAction, base, edited>>
       \/ base' \in Bases \ {base} /\ edited' = TRUE /\ UNCHANGED <<pAction, pHours>>
    /\ UNCHANGED <<hash, record, main, want, workers, scheds,
                   subnet, rule, madeFrom>>

\* parseCreateClusterConfig, RecordClusterCreate: what is not given is not
\* overridden.
Create ==
    \E a \in Action \cup {Unset}, h \in 0 .. MaxHours :
        /\ Ended
        /\ edits < MaxEdits
        /\ edits' = edits + 1
        /\ known' = TRUE /\ oAction' = a /\ oHours' = h
        /\ Quits("idle")
        /\ UNCHANGED <<hash, prof, scheds, net>>

-----------------------------------------------------------------------------
(***************************************************************************)
(* start                                                                   *)
(***************************************************************************)

\* applyClusterConfig and Build: an override, or else the profile.
EffectiveAction == IF oAction # Unset THEN oAction ELSE pAction
EffectiveHours  == IF oHours > 0 THEN oHours ELSE pHours

\* startCluster reads the profile and the record once; Start refuses a bad
\* prefix before it calls anything.
BeginStart ==
    /\ Ended /\ known
    /\ \/ /\ BadPrefix(base)
          /\ Quits("error")
          /\ UNCHANGED <<madeFrom, edited>>
       \/ /\ ~BadPrefix(base)
          /\ main' = "subnet"
          /\ wAction' = EffectiveAction /\ wHours' = EffectiveHours
          /\ wRange' = DeriveSubnetCIDR(base, hash)
          /\ IF subnet = NoRange
             THEN madeFrom' = base /\ edited' = FALSE
             ELSE UNCHANGED <<madeFrom, edited>>
          /\ pc' = [w \in Worker |-> "off"]
          /\ listed' = {}
    /\ UNCHANGED <<hash, prof, edits, record, scheds, subnet, rule>>

\* ensureSubnetwork: one that exists is taken as it is.
EnsureSubnetwork ==
    /\ main = "subnet" /\ main' = "rule"
    /\ subnet' = IF subnet = NoRange THEN wRange ELSE subnet
    /\ UNCHANGED <<hash, prof, edits, record, want, workers, scheds, rule,
                   madeFrom, edited>>

\* ensureFirewall: one that exists is patched.
EnsureFirewall ==
    /\ main = "rule" /\ main' = "launch"
    /\ rule' = wRange
    /\ UNCHANGED <<hash, prof, edits, record, want, workers, scheds, subnet,
                   madeFrom, edited>>

\* An instance that exists is booted, its scheduling untouched.
Launch(w) ==
    /\ main = "launch"
    /\ inst[w] # "RUNNING"
    /\ inst' = [inst EXCEPT ![w] = "RUNNING"]
    /\ action' = [action EXCEPT ![w] = IF inst[w] = "NONE" THEN wAction ELSE @]
    /\ hours' = [hours EXCEPT ![w] = IF inst[w] = "NONE" THEN wHours ELSE @]
    /\ UNCHANGED <<hash, prof, edits, record, main, want, workers, net>>

-----------------------------------------------------------------------------
(***************************************************************************)
(* update                                                                  *)
(***************************************************************************)

\* Builder.Scheduling: the hours asked for, and the PROFILE's termination
\* action.
BeginUpdate ==
    \E h \in Hours :
        /\ Ended
        /\ main' = "list"
        /\ wAction' = pAction /\ wHours' = h /\ wRange' = NoRange
        /\ pc' = [w \in Worker |-> "off"]
        /\ listed' = {}
        /\ UNCHANGED <<hash, prof, edits, record, scheds, net>>

\* Only what is listed as TERMINATED is updated; of the rest the command
\* warns.  With no instance listed Update returns nil.
ListInstances ==
    /\ main = "list" /\ main' = "update"
    /\ listed' = {w \in Worker : inst[w] = "TERMINATED"}
    /\ pc' = [w \in Worker |-> IF inst[w] = "TERMINATED" THEN "call" ELSE "off"]
    /\ UNCHANGED <<hash, prof, edits, record, want, scheds, net>>

\* groupCtx
Cancelled == \E w \in Worker : pc[w] = "failed"

\* SetInstanceScheduling; Compute Engine wants a TERMINATED instance.
SetScheduling(w) ==
    /\ main = "update" /\ pc[w] = "call" /\ ~Cancelled
    /\ inst[w] = "TERMINATED"
    /\ pc' = [pc EXCEPT ![w] = "operation"]
    /\ UNCHANGED <<hash, prof, edits, record, main, want, listed, scheds, net>>

\* The operation has taken effect, and waitWithProgress sees it.
SchedulingSet(w) ==
    /\ main = "update" /\ pc[w] = "operation"
    /\ inst[w] # "NONE"
    /\ hours' = [hours EXCEPT ![w] = wHours]
    /\ action' = [action EXCEPT ![w] = wAction]
    /\ \/ ~Cancelled /\ pc' = [pc EXCEPT ![w] = "done"]
       \/ pc' = [pc EXCEPT ![w] = "failed"]
    /\ UNCHANGED <<hash, prof, edits, record, main, want, listed, inst, net>>

\* The call or the wait fails, of itself, because the instance has gone or
\* runs again, or because another worker's failure has cancelled the context.
SchedulingFails(w) ==
    /\ main = "update" /\ pc[w] \in {"call", "operation"}
    /\ pc' = [pc EXCEPT ![w] = "failed"]
    /\ UNCHANGED <<hash, prof, edits, record, main, want, listed, scheds, net>>

\* Mutant: the workers' errors are dropped.
UpdateDropsErrors ==
    /\ main = "update"
    /\ \A w \in Worker : pc[w] \in {"off", "done", "failed"}
    /\ main' = "updated"
    /\ UNCHANGED <<hash, prof, edits, record, want, workers, scheds, net>>

\* group.Wait; RecordClusterUpdate notes the action and no settings.
UpdateReturns ==
    /\ main = "update"
    /\ \A w \in Worker : pc[w] \in {"off", "done", "failed"}
    /\ \/ Cancelled /\ Quits("error") /\ UNCHANGED known
       \/ /\ ~Cancelled
          /\ main' = "updated" /\ known' = TRUE
          /\ UNCHANGED <<want, workers>>
    /\ UNCHANGED <<hash, prof, edits, oAction, oHours, scheds, net>>

-----------------------------------------------------------------------------
(***************************************************************************)
(* stop, and the end of a command                                          *)
(***************************************************************************)
StopInstances ==
    /\ Ended
    /\ \E w \in Worker : inst[w] # "NONE"
    /\ inst' = [w \in Worker |-> IF inst[w] = "NONE" THEN "NONE" ELSE "TERMINATED"]
    /\ Quits("idle")
    /\ UNCHANGED <<hash, prof, edits, record, action, hours, net>>

\* With no instance listed the network stays and the cluster is forgotten.
DeleteInstances ==
    /\ Ended
    /\ Remove(Worker)
    /\ IF \E w \in Worker : inst[w] # "NONE"
       THEN Quits("deleteRule") /\ UNCHANGED record
       ELSE Quits("idle") /\ known' = FALSE /\ oAction' = Unset /\ oHours' = 0
    /\ UNCHANGED <<hash, prof, edits, net>>

\* Mutant: a firewall rule that cannot be deleted is left behind.
RuleLeft ==
    /\ main = "deleteRule" /\ main' = "deleteSubnet"
    /\ UNCHANGED <<hash, prof, edits, record, want, workers, scheds, net>>

DeleteRule ==
    /\ main = "deleteRule" /\ main' = "deleteSubnet"
    /\ rule' = NoRange
    /\ UNCHANGED <<hash, prof, edits, record, want, workers, scheds, subnet,
                   madeFrom, edited>>

DeleteSubnetwork ==
    /\ main = "deleteSubnet" /\ main' = "idle"
    /\ subnet' = NoRange
    /\ known' = FALSE /\ oAction' = Unset /\ oHours' = 0
    /\ UNCHANGED <<hash, prof, edits, want, workers, scheds, rule, madeFrom, edited>>

\* The command is killed, fails, or (a start) is done with its instances.
CommandEnds ==
    /\ ~Ended
    /\ Quits("error")
    /\ UNCHANGED <<hash, prof, edits, record, scheds, net>>

-----------------------------------------------------------------------------
\* The maximal run time is over.
Expire(w) ==
    /\ inst[w] = "RUNNING"
    /\ \/ /\ action[w] = "STOP"
          /\ inst' = [inst EXCEPT ![w] = "TERMINATED"]
          /\ UNCHANGED <<action, hours>>
       \/ action[w] = "DELETE" /\ Remove({w})
    /\ UNCHANGED <<hash, prof, edits, record, main, want, workers, net>>

\* The owner boots or deletes an instance in the console.
OwnerActs(w) ==
    /\ inst[w] = "TERMINATED"
    /\ \/ inst' = [inst EXCEPT ![w] = "RUNNING"] /\ UNCHANGED <<action, hours>>
       \/ Remove({w})
    /\ UNCHANGED <<hash, prof, edits, record, main, want, workers, net>>

StartStep ==
    \/ BeginStart \/ EnsureSubnetwork \/ EnsureFirewall
    \/ \E w \in Worker : Launch(w)
UpdateStep ==
    \/ BeginUpdate \/ ListInstances \/ UpdateReturns
    \/ \E w \in Worker : SetScheduling(w) \/ SchedulingSet(w) \/ SchedulingFails(w)
StopStep == StopInstances \/ DeleteInstances \/ DeleteRule \/ DeleteSubnetwork

Next ==
    \/ EditProfile \/ Create \/ StartStep \/ UpdateStep \/ StopStep \/ CommandEnds
    \/ \E w \in Worker : Expire(w) \/ OwnerActs(w)

Spec == Init /\ [][Next]_vars

-----------------------------------------------------------------------------
(***************************************************************************)
(* Properties                                                              *)
(***************************************************************************)

\* An update that ends well has reached every instance it listed as
\* TERMINATED, as far as there still is one; what fails half-way, an
\* instance that goes or is booted in between, is an error.
UpdateReachesAll ==
    main = "updated" =>
        \A w \in listed : inst[w] # "NONE" => hours[w] = wHours

\* The addresses whose network part is that of a range.
Block(r) == {a \in 0 .. Space - 1 : a \div r.size = r.ip \div r.size}

\* The subnetwork of a cluster lies in the base block, and is given by its
\* first address, as Compute Engine requires, for every hash of the name and
\* at both ends of the prefixes allowed.
SubnetWithinBase ==
    subnet # NoRange =>
        /\ Block(subnet) \subseteq Block(madeFrom)
        /\ \A a \in Block(subnet) : subnet.ip <= a

\* The instances of a cluster may talk to each other: unless the base was
\* edited after the start that made the subnetwork began, the internal rule
\* lets in the range of the subnetwork, whichever start, complete or not,
\* wrote it.
InternalTrafficAllowed ==
    subnet # NoRange /\ rule # NoRange /\ ~edited => rule = subnet

\* "Override termination action (DELETE|STOP) for this cluster" (create):
\* an instance that has the cluster's own termination action keeps it.
OverrideStays ==
    [][\A w \in Worker :
         /\ inst[w] # "NONE" /\ inst'[w] # "NONE"
         /\ oAction # Unset /\ action[w] = oAction
         => action'[w] = oAction]_vars
==============================================================================
