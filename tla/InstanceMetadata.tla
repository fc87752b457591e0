--------------------------- MODULE InstanceMetadata ---------------------------
(***************************************************************************)
(* Commands that edit one instance at the same time: start puts it into    *)
(* the cluster's firewall rules (tags), start and ssh let the user's key   *)
(* in (metadata).  Both edits read, change and write back, and Compute     *)
(* Engine refuses a write whose fingerprint is not that of what it would   *)
(* replace.  A fingerprint is taken to be the contents it stands for.      *)
(*                                                                         *)
(* The owner of the project adds keys and tags in the console.  Nobody     *)
(* deletes the instance meanwhile: what becomes of the commands then is    *)
(* the subject of ClusterStart.                                            *)
(***************************************************************************)
EXTENDS FiniteSets

CONSTANTS
    Command,       \* commands running at the same time
    Key,           \* lines "user:key" of ssh-keys
    Tag,           \* network tags
    ClusterTags    \* those of a member of the cluster

ASSUME ClusterTagsAssumption == ClusterTags \subseteq Tag

VARIABLES
    exists, tags, keys, oslogin,   \* the instance
    step, kind, key,               \* each command, and the key it brings
    seen, read                     \* the tags and the metadata it has read

metadataVars == <<exists, tags, keys, oslogin, step, kind, key, seen, read>>

OsLogin  == {"unset", "TRUE", "FALSE"}
Metadata == [keys : SUBSET Key, oslogin : OsLogin]

MetadataTypeOK ==
    /\ exists \in BOOLEAN
    /\ tags \subseteq Tag /\ keys \subseteq Key
    /\ oslogin \in OsLogin
    /\ step \in [Command -> {"idle", "get", "tags", "insert", "key", "set",
                             "done", "failed"}]
    /\ kind \in [Command -> {"start", "ssh"}]
    /\ key \in [Command -> Key]
    /\ seen \in [Command -> SUBSET Tag]
    /\ read \in [Command -> Metadata]

NothingRead == [keys |-> {}, oslogin |-> "unset"]

\* An instance that exists may have been made with other tags, or before
\* the profile turned OS login on.
MetadataInit ==
    /\ exists \in BOOLEAN
    /\ tags \in SUBSET Tag /\ oslogin \in OsLogin
    /\ ~exists => tags = {} /\ oslogin = "unset"
    /\ keys = {}
    /\ step = [c \in Command |-> "idle"]
    /\ kind = [c \in Command |-> "ssh"]
    /\ key \in [Command -> Key]
    /\ seen = [c \in Command |-> {}]
    /\ read = [c \in Command |-> NothingRead]

-----------------------------------------------------------------------------
instance == <<exists, tags, keys, oslogin>>
command  == <<kind, key>>

Goto(c, from, to) ==
    /\ step[c] = from
    /\ step' = [step EXCEPT ![c] = to]

Current == [keys |-> keys, oslogin |-> oslogin]

Begin(c) ==
    /\ \/ Goto(c, "idle", "get") /\ kind' = [kind EXCEPT ![c] = "start"]
       \/ /\ exists
          /\ Goto(c, "idle", "key") /\ kind' = [kind EXCEPT ![c] = "ssh"]
    /\ \E k \in Key : key' = [key EXCEPT ![c] = k]
    /\ UNCHANGED <<instance, seen, read>>

\* getInstance
Get(c) ==
    /\ Goto(c, "get", IF exists THEN "tags" ELSE "insert")
    /\ seen' = [seen EXCEPT ![c] = tags]
    /\ UNCHANGED <<instance, command, read>>

\* Builder.Build and InsertInstance: the key comes with the metadata, beside
\* those of the profile; OS login is the profile's.
Insert(c) ==
    /\ Goto(c, "insert", "key")
    /\ ~exists /\ exists' = TRUE
    /\ tags' = ClusterTags
    /\ keys' = {key[c]}
    /\ oslogin' \in OsLogin
    /\ UNCHANGED <<command, seen, read>>

\* Mutant: one tag of the cluster is enough.
TagsPresentPartly(c) ==
    /\ Goto(c, "tags", "key")
    /\ ClusterTags \cap seen[c] # {}
    /\ UNCHANGED <<instance, command, seen, read>>

\* ensureInstanceTags: nothing is written when none is missing; what is
\* written replaces the tags there are.
TagsPresent(c) ==
    /\ Goto(c, "tags", "key")
    /\ ClusterTags \subseteq seen[c]
    /\ UNCHANGED <<instance, command, seen, read>>

\* An operation, or the wait for it, may fail although it took effect.
SetTags(c) ==
    /\ ~(ClusterTags \subseteq seen[c])
    /\ exists /\ tags = seen[c]
    /\ Goto(c, "tags", "key") \/ Goto(c, "tags", "failed")
    /\ tags' = ClusterTags
    /\ UNCHANGED <<exists, keys, oslogin, command, seen, read>>

\* EnsureInstanceSSHKey reads the instance once more.
ReadKeys(c) ==
    /\ exists
    /\ Goto(c, "key", "set")
    /\ read' = [read EXCEPT ![c] = Current]
    /\ UNCHANGED <<instance, command, seen>>

\* Mutant: appendSSHKey forgets the lines that are there.
WantedKeyOnly(c) == [keys |-> {key[c]}, oslogin |-> "FALSE"]

\* The line is appended unless it is there; OS login is turned off, for it
\* makes the instance ignore ssh-keys.
Wanted(c) == [keys |-> read[c].keys \cup {key[c]}, oslogin |-> "FALSE"]

KeyPresent(c) ==
    /\ Wanted(c) = read[c]
    /\ Goto(c, "set", "done")
    /\ UNCHANGED <<instance, command, seen, read>>

\* The same of the metadata.
SetKeys(c) ==
    /\ Wanted(c) # read[c]
    /\ exists /\ Current = read[c]
    /\ keys' = Wanted(c).keys /\ oslogin' = Wanted(c).oslogin
    /\ Goto(c, "set", "done") \/ Goto(c, "set", "failed")
    /\ UNCHANGED <<exists, tags, command, seen, read>>

\* Mutant: a write that is refused is taken for one that was not needed.
RefusedIsDone(c) ==
    /\ Goto(c, "set", "done")
    /\ UNCHANGED <<instance, command, seen, read>>

\* A call fails: the instance is not there (or is, for an insert), the
\* fingerprint is stale, or anything else.  Nothing is retried.
Refused(c) ==
    /\ \E at \in {"get", "tags", "insert", "key", "set"} : Goto(c, at, "failed")
    /\ UNCHANGED <<instance, command, seen, read>>

Return(c) ==
    /\ Goto(c, "done", "idle") \/ Goto(c, "failed", "idle")
    /\ seen' = [seen EXCEPT ![c] = {}]
    /\ read' = [read EXCEPT ![c] = NothingRead]
    /\ UNCHANGED <<instance, command>>

(***************************************************************************)
(* Others                                                                  *)
(***************************************************************************)
OwnerEdits ==
    /\ exists
    /\ \/ \E t \in Tag : tags' = tags \cup {t} /\ UNCHANGED keys
       \/ \E k \in Key : keys' = keys \cup {k} /\ UNCHANGED tags
    /\ UNCHANGED <<exists, oslogin, step, command, seen, read>>

-----------------------------------------------------------------------------
MetadataNext ==
    \/ OwnerEdits
    \/ \E c \in Command :
         \/ Begin(c) \/ Get(c) \/ Insert(c) \/ TagsPresent(c) \/ SetTags(c)
         \/ ReadKeys(c) \/ KeyPresent(c) \/ SetKeys(c) \/ Refused(c) \/ Return(c)

MetadataSpec == MetadataInit /\ [][MetadataNext]_metadataVars

-----------------------------------------------------------------------------
(***************************************************************************)
(* Properties                                                              *)
(***************************************************************************)

\* No command takes away a key that another one, or the owner, has put on
\* the instance since it was read.
KeysStay == [][keys \subseteq keys']_metadataVars

\* A command that got through the key has it on the instance, with OS login
\* off, whatever the others did meanwhile.
DoneLetsIn ==
    \A c \in Command :
        step[c] = "done" => key[c] \in keys /\ oslogin = "FALSE"

\* start probes and reports an instance only when the firewall rules of the
\* cluster apply to it.
StartedIsInFirewall ==
    \A c \in Command :
        kind[c] = "start" /\ step[c] \in {"key", "set", "done"}
            => ClusterTags \subseteq tags
==============================================================================
