------------------------------- MODULE Profile -------------------------------
(***************************************************************************)
(* The profile a command works from (~/.config/gpunow/profiles/default):   *)
(* how "gpunow install" lays it out, how "gpunow config" edits it, and     *)
(* what a command that loads it makes of the files it finds.  One process  *)
(* at a time, which may be killed, or meet an I/O error, at any step.  No  *)
(* file is synchronised and no error of Close is looked at: a loss of      *)
(* power, and a file system that reports a failed write only when the file *)
(* is closed, are not part of the model.                                   *)
(*                                                                         *)
(* A profile is its files; a file is its version.  Only the profile        *)
(* "default" and the default root are modelled (GPUNOW_HOME is unset).     *)
(***************************************************************************)
EXTENDS Naturals

CONSTANTS
    Live,          \* the directory "profiles"
    Repo,          \* the profile in the repository, the default source
    Second,        \* the seconds that may name a backup, "profiles.old.<second>"
    MaxSaves       \* bound on the edits of the user and of "gpunow config"

Place == {Live, Repo} \cup Second

ASSUME ProfileAssumption ==
    /\ Live # Repo
    /\ Live \notin Second
    /\ Repo \notin Second
    /\ MaxSaves \in Nat

\* The files, numbered in the order in which ReadDir lists them.
CloudInit   == 1
ConfigFile  == 2
ConfigTmp   == 3
SetupScript == 4
Zshrc       == 5
File        == 1 .. 5

Required == File \ {ConfigTmp}

\* Versions of a file.  A torn file is cut short, perhaps to nothing; what
\* the user has saved is numbered from 3.
None    == 0
Torn    == 1
Shipped == 2

NothingUsed == [f \in Required |-> None]
Empty       == [f \in File |-> None]
RepoProfile == [f \in File |-> IF f = ConfigTmp THEN None ELSE Shipped]

VARIABLES
    dirs,          \* the files of the profile at each place
    present,       \* the places where the profiles directory exists
    profile,       \* the places where it holds a profile "default"
    bin,           \* ~/.local/bin/gpunow
    pc,            \* the next step of the process
    exe,           \* install: the binary it runs from, which it copies
    overwrite,     \* install: --overwrite
    source,        \* install: the profile it copies
    left,          \* install: the files not yet copied
    setting,       \* config: the version of config.toml being written
    outcome,       \* how the last install or config ended
    used,          \* the files the cluster command works with
    saves,         \* the number of versions the user has made
    kept           \* history: the versions the user has saved and not replaced

files   == <<dirs, present, profile, bin>>
install == <<exe, overwrite, source, left>>
vars    == <<dirs, present, profile, bin, pc, exe, overwrite, source, left, setting,
             outcome, used, saves, kept>>

InstallSteps == {"binary", "writeBinary", "move", "makeDirs", "openSource",
                 "copy", "writeCopy"}
ConfigSteps  == {"openTmp", "writeTmp", "replace"}

TypeOK ==
    /\ dirs \in [Place -> [File -> Nat]]
    /\ present \subseteq Place
    /\ profile \subseteq Place
    /\ bin \in {None, Torn, Shipped}
    /\ pc \in InstallSteps \cup ConfigSteps \cup {"idle", "command"}
    /\ exe \in {"elsewhere", "installed"}
    /\ overwrite \in BOOLEAN
    /\ source \in Place
    /\ left \subseteq File
    /\ setting \in Nat
    /\ outcome \in {"none", "installed", "set", "error"}
    /\ used \in [Required -> Nat]
    /\ saves \in Nat
    /\ kept \subseteq (File \X Nat)

\* A machine without gpunow, and the repository.
Init ==
    /\ dirs = [p \in Place |-> IF p = Repo THEN RepoProfile ELSE Empty]
    /\ present = {}
    /\ profile = {Repo}
    /\ bin = None
    /\ pc = "idle"
    /\ exe = "elsewhere"
    /\ overwrite = FALSE
    /\ source = Repo
    /\ left = {}
    /\ setting = None
    /\ outcome = "none"
    /\ used = NothingUsed
    /\ saves = 0
    /\ kept = {}

Goto(from, to) == pc = from /\ pc' = to

\* Write version v into file f of the live profile.
Put(f, v) == dirs' = [dirs EXCEPT ![Live] = [@ EXCEPT ![f] = v]]

\* The user's newest version of f takes the place of the one in the profile.
Supersede(f, v) == kept' = (kept \ {<<f, dirs[Live][f]>>}) \cup {<<f, v>>}

-----------------------------------------------------------------------------
(***************************************************************************)
(* gpunow install                                                          *)
(***************************************************************************)

\* dirExists(root): the root came with the first profiles directory.
RootExists == present # {}

\* --source may name any profile, a backup and the live one among them, and
\* the command may be the installed binary itself, if that is one.
BeginInstall ==
    \E ow \in BOOLEAN, src \in Place :
        /\ pc = "idle"
        /\ exe' = "elsewhere" \/ (exe' = "installed" /\ bin = Shipped)
        /\ overwrite' = ow
        /\ source' = src
        /\ left' = {}
        /\ IF RootExists /\ ~ow
           THEN pc' = "idle"   /\ outcome' = "error"
           ELSE pc' = "binary" /\ outcome' = "none"
        /\ UNCHANGED <<files, setting, used, saves, kept>>

\* copyFileWithMode opens the target with O_TRUNC before it copies.  Where
\* the binary that runs must not be truncated that is an error, see Interrupt.
OpenBinary ==
    /\ Goto("binary", "writeBinary")
    /\ bin' = Torn
    /\ UNCHANGED <<dirs, present, profile, install, setting, outcome, used, saves, kept>>

\* A binary that copies itself has nothing left to copy.  The source is
\* looked for only now; one that is not found is an error return, see Interrupt.
WriteBinary ==
    /\ Goto("writeBinary", IF overwrite /\ Live \in present THEN "move" ELSE "makeDirs")
    /\ bin' = IF exe = "installed" THEN bin ELSE Shipped
    /\ UNCHANGED <<dirs, present, profile, install, setting, outcome, used, saves, kept>>

\* Mutant: the backup of the same second is replaced.
MoveReplaces ==
    \E s \in Second :
        /\ Goto("move", "makeDirs")
        /\ dirs' = [p \in Place |-> IF p = s THEN dirs[Live]
                                    ELSE IF p = Live THEN Empty ELSE dirs[p]]
        /\ present' = (present \ {Live}) \cup {s}
        /\ profile' = (profile \ {Live, s}) \cup (IF Live \in profile THEN {s} ELSE {})
        /\ UNCHANGED <<bin, install, setting, outcome, used, saves, kept>>

\* Rename to the backup of this second; os.Rename refuses a directory that
\* exists.  The clock may be set back, so any second may come.
MoveProfiles ==
    \E s \in Second :
        \/ /\ s \notin present
           /\ Goto("move", "makeDirs")
           /\ dirs' = [p \in Place |-> IF p = s THEN dirs[Live]
                                       ELSE IF p = Live THEN Empty ELSE dirs[p]]
           /\ present' = (present \ {Live}) \cup {s}
           /\ profile' = (profile \ {Live}) \cup (IF Live \in profile THEN {s} ELSE {})
           /\ UNCHANGED <<bin, install, setting, outcome, used, saves, kept>>
        \/ /\ s \in present
           /\ Goto("move", "idle")
           /\ outcome' = "error"
           /\ UNCHANGED <<files, install, setting, used, saves, kept>>

\* MkdirAll(profilesDir) and MkdirAll(stateDir)
MakeDirs ==
    /\ Goto("makeDirs", "openSource")
    /\ present' = present \cup {Live}
    /\ UNCHANGED <<dirs, profile, bin, install, setting, outcome, used, saves, kept>>

\* copyDir: the source must be there (the live profile has just been moved
\* away); then the target is made and the source listed.
OpenSource ==
    /\ \/ /\ source \in profile
          /\ Goto("openSource", "copy")
          /\ profile' = profile \cup {Live}
          /\ left' = {f \in File : dirs[source][f] # None}
          /\ UNCHANGED outcome
       \/ /\ source \notin profile
          /\ Goto("openSource", "idle")
          /\ outcome' = "error"
          /\ UNCHANGED <<profile, left>>
    /\ UNCHANGED <<dirs, present, bin, exe, overwrite, source, setting, used, saves, kept>>

IsNext(f) == f \in left /\ \A g \in left : f <= g

OpenCopy ==
    \E f \in File :
        /\ IsNext(f)
        /\ Goto("copy", "writeCopy")
        /\ Put(f, Torn)
        /\ UNCHANGED <<present, profile, bin, install, setting, outcome, used, saves, kept>>

\* Mutant: an error of the copy is dropped.
WriteCopyDropsError ==
    \E f \in File :
        /\ IsNext(f)
        /\ Goto("writeCopy", "copy")
        /\ \/ Put(f, dirs[source][f])
           \/ UNCHANGED dirs
        /\ left' = left \ {f}
        /\ UNCHANGED <<present, profile, bin, exe, overwrite, source, setting, outcome,
                       used, saves, kept>>

WriteCopy ==
    \E f \in File :
        /\ IsNext(f)
        /\ Goto("writeCopy", "copy")
        /\ Put(f, dirs[source][f])
        /\ left' = left \ {f}
        /\ UNCHANGED <<present, profile, bin, exe, overwrite, source, setting, outcome,
                       used, saves, kept>>

InstallReturns ==
    /\ left = {}
    /\ Goto("copy", "idle")
    /\ outcome' = "installed"
    /\ UNCHANGED <<files, install, setting, used, saves, kept>>

-----------------------------------------------------------------------------
(***************************************************************************)
(* Loading the profile, and gpunow config                                  *)
(***************************************************************************)

\* Mutant: only the configuration itself is looked for.
LoadableConfigOnly == dirs[Live][ConfigFile] # None

\* home.Resolve and config.Load.  A torn config.toml may well load: all
\* that comes after [disk] is optional.  The other files must only exist.
Loadable ==
    /\ Live \in present
    /\ \A f \in Required : dirs[Live][f] # None

\* GetState, then what a command reads of the profile (cloudinit.Render).
ClusterCommand ==
    /\ Loadable
    /\ Goto("idle", "command")
    /\ used' = [f \in Required |-> dirs[Live][f]]
    /\ outcome' = "none"
    /\ UNCHANGED <<files, install, setting, saves, kept>>

NextVersion == Shipped + saves + 1

\* configAction: load, read, edit in memory.
BeginConfig ==
    /\ saves < MaxSaves
    /\ Loadable
    /\ Goto("idle", "openTmp")
    /\ setting' = NextVersion
    /\ saves' = saves + 1
    /\ outcome' = "none"
    /\ UNCHANGED <<files, install, used, kept>>

OpenTmp ==
    /\ Goto("openTmp", "writeTmp")
    /\ Put(ConfigTmp, Torn)
    /\ UNCHANGED <<present, profile, bin, install, setting, outcome, used, saves, kept>>

WriteTmp ==
    /\ Goto("writeTmp", "replace")
    /\ Put(ConfigTmp, setting)
    /\ UNCHANGED <<present, profile, bin, install, setting, outcome, used, saves, kept>>

\* os.Rename
ReplaceConfig ==
    /\ Goto("replace", "idle")
    /\ dirs' = [dirs EXCEPT ![Live] = [@ EXCEPT ![ConfigFile] = dirs[Live][ConfigTmp],
                                                ![ConfigTmp] = None]]
    /\ Supersede(ConfigFile, setting)
    /\ outcome' = "set"
    /\ UNCHANGED <<present, profile, bin, install, setting, used, saves>>

-----------------------------------------------------------------------------
\* The process is killed, a call fails and it returns the error, or the
\* cluster command ends; what it held in memory is gone.
Interrupt ==
    /\ pc # "idle"
    /\ pc' = "idle"
    /\ outcome' = "error"
    /\ exe' = "elsewhere"
    /\ overwrite' = FALSE
    /\ source' = Repo
    /\ left' = {}
    /\ setting' = None
    /\ used' = NothingUsed
    /\ UNCHANGED <<files, saves, kept>>

\* The user edits a file of the live profile.
UserSaves ==
    \E f \in Required :
        /\ pc = "idle"
        /\ saves < MaxSaves
        /\ dirs[Live][f] # None
        /\ Put(f, NextVersion)
        /\ Supersede(f, NextVersion)
        /\ saves' = saves + 1
        /\ outcome' = "none"
        /\ UNCHANGED <<present, profile, bin, pc, install, setting, used>>

InstallStep ==
    \/ BeginInstall \/ OpenBinary \/ WriteBinary \/ MoveProfiles \/ MakeDirs
    \/ OpenSource \/ OpenCopy \/ WriteCopy \/ InstallReturns

ConfigStep == BeginConfig \/ OpenTmp \/ WriteTmp \/ ReplaceConfig

Next == InstallStep \/ ConfigStep \/ ClusterCommand \/ Interrupt \/ UserSaves

Spec == Init /\ [][Next]_vars

-----------------------------------------------------------------------------
(***************************************************************************)
(* Properties                                                              *)
(***************************************************************************)

\* Nothing of the user's is lost: a version of a file that the user has
\* saved, by hand or with "gpunow config", and has not replaced by a newer
\* one is whole in the live profile or in a backup, whatever was installed
\* since, from whichever source, and wherever it was interrupted.
NothingLost ==
    \A k \in kept : \E p \in {Live} \cup Second : dirs[p][k[1]] = k[2]

\* No command works with a configuration, a cloud-init template or a setup
\* script that an interrupted install or config has torn: the copy goes in
\* the order of the names into a new directory, so that a torn file is the
\* last one, and a command wants them all.  Only zshrc, the last, may be torn.
CommandUsesWholeFiles == \A f \in Required \ {Zshrc} : used[f] # Torn

\* When install ends well the live profile is the source, file by file, and
\* nothing of an older profile is mixed in; and the binary is whole, unless it
\* was the installed one that ran, which truncates itself where it may.
InstalledIsWhole ==
    outcome = "installed" =>
        /\ dirs[Live] = dirs[source]
        /\ exe = "elsewhere" => bin = Shipped
==============================================================================
