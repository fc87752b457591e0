--------------------------- MODULE Profile_proofs ---------------------------
(***************************************************************************)
(* Proofs about Profile, for any seconds that may name a backup and any    *)
(* number of edits.                                                        *)
(***************************************************************************)
EXTENDS Profile, TLAPS

(***************************************************************************)
(* The inductive invariant                                                 *)
(***************************************************************************)

\* In every profile a torn file is the last of the required ones.
OnlyLastTorn ==
    \A p \in Place : \A f, g \in Required :
        dirs[p][f] = Torn /\ f < g => dirs[p][g] = None

\* Where there is no profile there are no files.
NoProfileNoFiles == \A p \in Place \ profile : \A f \in File : dirs[p][f] = None

PlacesOK ==
    /\ Repo \in profile /\ Repo \notin present
    /\ profile \subseteq present \cup {Repo}

\* An install makes its profile in a new directory.
NewDirectory ==
    /\ pc \in {"binary", "writeBinary"} /\ ~overwrite => present = {}
    /\ pc \in {"makeDirs", "openSource"} => Live \notin profile
    /\ pc = "openSource" => Live \in present

\* A binary that was copied from elsewhere is whole from then on.
BinaryWhole ==
    pc \in {"move", "makeDirs", "openSource", "copy", "writeCopy"} /\ exe = "elsewhere"
        => bin = Shipped

\* Half-way through a copy: the files gone over are those of the source, and
\* what is left comes after them.
CopyOK ==
    pc \in {"copy", "writeCopy"} =>
        /\ source \in profile /\ Live \in profile /\ source # Live
        /\ \A f \in File \ left : dirs[Live][f] = dirs[source][f]
        /\ \A f \in left :
             /\ dirs[source][f] # None
             /\ dirs[Live][f] = IF pc = "writeCopy" /\ IsNext(f) THEN Torn ELSE None
             /\ \A g \in File \ left : f < g => dirs[source][g] = None

\* An edit is of a complete profile, and takes a new version to it.
ConfigOK ==
    pc \in ConfigSteps =>
        /\ setting > Shipped
        /\ \A f \in Required : dirs[Live][f] # None
        /\ pc = "replace" => dirs[Live][ConfigTmp] = setting

KeptOK == \A k \in kept : k[1] \in Required /\ k[2] > Shipped

Installed == outcome = "installed" => pc = "idle"

ProfileInv ==
    /\ TypeOK
    /\ OnlyLastTorn
    /\ NoProfileNoFiles
    /\ PlacesOK
    /\ NewDirectory
    /\ BinaryWhole
    /\ CopyOK
    /\ ConfigOK
    /\ KeptOK
    /\ Installed
    /\ NothingLost
    /\ CommandUsesWholeFiles
    /\ InstalledIsWhole

-----------------------------------------------------------------------------
(***************************************************************************)
(* What the helpers do                                                     *)
(***************************************************************************)

\* A write to the live profile changes one file of it.
LEMMA PutWrites ==
  ASSUME TypeOK, NEW f \in File, NEW v \in Nat, Put(f, v)
  PROVE  /\ dirs' \in [Place -> [File -> Nat]]
         /\ dirs'[Live][f] = v
         /\ \A g \in File : g # f => dirs'[Live][g] = dirs[Live][g]
         /\ \A p \in Place : p # Live => dirs'[p] = dirs[p]
BY DEF TypeOK, Put, Place

\* A move of the profiles empties the live place.
LEMMA MoveMoves ==
  ASSUME TypeOK, NEW s \in Second, s # Live,
         dirs' = [p \in Place |-> IF p = s THEN dirs[Live]
                                  ELSE IF p = Live THEN Empty ELSE dirs[p]]
  PROVE  /\ dirs' \in [Place -> [File -> Nat]]
         /\ dirs'[s] = dirs[Live]
         /\ \A g \in File : dirs'[Live][g] = None
         /\ \A p \in Place : p # Live /\ p # s => dirs'[p] = dirs[p]
<1>1. Empty \in [File -> Nat] /\ \A g \in File : Empty[g] = None
  BY DEF Empty, None
<1>2. s \in Place /\ Live \in Place
  BY DEF Place
<1> QED BY <1>1, <1>2 DEF TypeOK

\* The edit of the configuration is one rename.
LEMMA ReplaceReplaces ==
  ASSUME TypeOK, ReplaceConfig
  PROVE  /\ dirs' \in [Place -> [File -> Nat]]
         /\ dirs'[Live][ConfigFile] = dirs[Live][ConfigTmp]
         /\ dirs'[Live][ConfigTmp] = None
         /\ \A g \in File : g \notin {ConfigFile, ConfigTmp}
                => dirs'[Live][g] = dirs[Live][g]
         /\ \A p \in Place : p # Live => dirs'[p] = dirs[p]
BY DEF TypeOK, ReplaceConfig, Place, ConfigFile, ConfigTmp, File, None

-----------------------------------------------------------------------------
\* Every step keeps each variable in its set.
LEMMA TypeStep ==
  ASSUME TypeOK, [Next]_vars
  PROVE  TypeOK'
<1> DEFINE Rest == /\ present \subseteq Place /\ profile \subseteq Place
                   /\ bin \in {None, Torn, Shipped}
                   /\ pc \in InstallSteps \cup ConfigSteps \cup {"idle", "command"}
                   /\ exe \in {"elsewhere", "installed"}
                   /\ source \in Place /\ left \subseteq File
                   /\ setting \in Nat
                   /\ outcome \in {"none", "installed", "set", "error"}
                   /\ saves \in Nat /\ kept \subseteq File \X Nat
<1>0. Rest
  BY DEF TypeOK
<1>1. overwrite' \in BOOLEAN
  BY Zenon DEF TypeOK, Next, InstallStep, ConfigStep, vars, files, install,
     BeginInstall, OpenBinary, WriteBinary, MoveProfiles, MakeDirs, OpenSource,
     OpenCopy, WriteCopy, InstallReturns, BeginConfig, OpenTmp, WriteTmp,
     ReplaceConfig, ClusterCommand, Interrupt, UserSaves
<1>2. dirs' \in [Place -> [File -> Nat]]
  <2>1. CASE OpenCopy \/ WriteCopy
    <3>1. PICK f \in File : Put(f, Torn) \/ Put(f, dirs[source][f])
      BY <2>1 DEF OpenCopy, WriteCopy
    <3>2. Torn \in Nat /\ dirs[source][f] \in Nat
      BY DEF TypeOK, Torn
    <3> QED BY <3>1, <3>2, PutWrites
  <2>2. CASE OpenTmp \/ WriteTmp
    <3>1. ConfigTmp \in File /\ Torn \in Nat /\ setting \in Nat
      BY DEF TypeOK, Torn, ConfigTmp, File
    <3>2. Put(ConfigTmp, Torn) \/ Put(ConfigTmp, setting)
      BY <2>2 DEF OpenTmp, WriteTmp
    <3> QED BY <3>1, <3>2, PutWrites
  <2>3. CASE UserSaves
    <3>1. PICK f \in File : Put(f, NextVersion)
      BY <2>3 DEF UserSaves, Required
    <3>2. NextVersion \in Nat
      BY DEF TypeOK, NextVersion, Shipped
    <3> QED BY <3>1, <3>2, PutWrites
  <2>4. CASE ReplaceConfig
    BY <2>4, ReplaceReplaces
  <2>5. CASE MoveProfiles
    <3>1. CASE UNCHANGED dirs
      BY <3>1 DEF TypeOK
    <3>2. CASE ~UNCHANGED dirs
      <4>1. PICK s \in Second :
              dirs' = [p \in Place |-> IF p = s THEN dirs[Live]
                                       ELSE IF p = Live THEN Empty ELSE dirs[p]]
        BY <2>5, <3>2 DEF MoveProfiles, files
      <4> QED BY <4>1, MoveMoves, ProfileAssumption
    <3> QED BY <3>1, <3>2
  <2>6. CASE \/ BeginInstall \/ OpenBinary \/ WriteBinary \/ MakeDirs \/ OpenSource
             \/ InstallReturns \/ BeginConfig \/ ClusterCommand \/ Interrupt
             \/ UNCHANGED vars
    <3>1. UNCHANGED dirs
      BY <2>6, Zenon DEF BeginInstall, OpenBinary, WriteBinary, MakeDirs, OpenSource,
         InstallReturns, BeginConfig, ClusterCommand, Interrupt, vars, files
    <3> QED BY <3>1 DEF TypeOK
  <2> QED BY <2>1, <2>2, <2>3, <2>4, <2>5, <2>6 DEF Next, InstallStep, ConfigStep
<1>3. used' \in [Required -> Nat]
  <2>1. CASE ClusterCommand
    <3>1. used' = [f \in Required |-> dirs[Live][f]]
      BY <2>1 DEF ClusterCommand
    <3>2. \A f \in Required : dirs[Live][f] \in Nat
      BY DEF TypeOK, Place, Required
    <3> QED BY <3>1, <3>2
  <2>2. CASE Interrupt
    BY <2>2 DEF Interrupt, NothingUsed, None
  <2>3. CASE ~ClusterCommand /\ ~Interrupt
    <3>1. UNCHANGED used
      BY <2>3, Zenon DEF Next, InstallStep, ConfigStep, vars, files, install,
         BeginInstall, OpenBinary, WriteBinary, MoveProfiles, MakeDirs, OpenSource,
         OpenCopy, WriteCopy, InstallReturns, BeginConfig, OpenTmp, WriteTmp,
         ReplaceConfig, UserSaves
    <3> QED BY <3>1 DEF TypeOK
  <2> QED BY <2>1, <2>2, <2>3
<1>4. Rest'
  <2> USE <1>0 DEF InstallSteps, ConfigSteps, None, Torn, Shipped, Place
  <2>1. CASE BeginInstall \/ OpenBinary \/ WriteBinary \/ MakeDirs
    BY <2>1 DEF BeginInstall, OpenBinary, WriteBinary, MakeDirs, Goto, files, install
  <2>2. CASE MoveProfiles
    BY <2>2 DEF MoveProfiles, Goto, files, install
  <2>3. CASE OpenSource \/ OpenCopy \/ WriteCopy \/ InstallReturns
    BY <2>3 DEF OpenSource, OpenCopy, WriteCopy, InstallReturns, Goto, files, install
  <2>4. CASE BeginConfig \/ OpenTmp \/ WriteTmp \/ ClusterCommand \/ Interrupt
    BY <2>4 DEF BeginConfig, OpenTmp, WriteTmp, ClusterCommand, Interrupt, Goto,
       NextVersion, files, install
  <2>5. CASE ReplaceConfig \/ UserSaves
    BY <2>5 DEF ReplaceConfig, UserSaves, Supersede, Goto, NextVersion, Required,
       ConfigFile, ConfigTmp, File, files, install
  <2>6. CASE UNCHANGED vars
    BY <2>6 DEF vars
  <2> QED BY <2>1, <2>2, <2>3, <2>4, <2>5, <2>6 DEF Next, InstallStep, ConfigStep
<1> QED BY <1>1, <1>2, <1>3, <1>4 DEF TypeOK
-----------------------------------------------------------------------------
(***************************************************************************)
(* The steps that write no file of a profile                               *)
(***************************************************************************)
LEMMA QuietSteps ==
  ASSUME ProfileInv, UNCHANGED <<dirs, kept>>,
         \/ BeginInstall \/ OpenBinary \/ WriteBinary \/ MakeDirs \/ OpenSource
         \/ InstallReturns \/ BeginConfig \/ ClusterCommand \/ Interrupt
         \/ UNCHANGED vars
  PROVE  ProfileInv'
<1>0. TypeOK'
  BY TypeStep DEF ProfileInv, Next, InstallStep, ConfigStep
<1>1. OnlyLastTorn' /\ KeptOK' /\ NothingLost'
  BY DEF ProfileInv, OnlyLastTorn, KeptOK, NothingLost
<1> USE <1>0, <1>1 DEF ProfileInv
<1>2. CASE BeginInstall
  <2>0. PICK ow \in BOOLEAN :
          /\ pc = "idle" /\ overwrite' = ow
          /\ IF RootExists /\ ~ow
             THEN pc' = "idle" /\ outcome' = "error"
             ELSE pc' = "binary" /\ outcome' = "none"
          /\ UNCHANGED <<files, used>>
    BY <1>2, Zenon DEF BeginInstall
  <2>1. /\ pc = "idle" /\ pc' \in {"idle", "binary"} /\ outcome' \in {"none", "error"}
        /\ UNCHANGED <<present, profile, bin, used>>
    <3>1. UNCHANGED <<present, profile, bin, used>>
      BY <2>0 DEF files
    <3>2. CASE RootExists /\ ~ow
      BY <2>0, <3>1, <3>2, Zenon
    <3>3. CASE ~(RootExists /\ ~ow)
      BY <2>0, <3>1, <3>3, Zenon
    <3> QED BY <3>2, <3>3
  <2>2. pc' = "binary" /\ ~overwrite' => present = {}
    BY <2>0, Zenon DEF RootExists
  <2>3. NewDirectory'
    BY <2>1, <2>2 DEF NewDirectory
  <2> QED
    BY <2>1, <2>3 DEF NoProfileNoFiles, PlacesOK, BinaryWhole, CopyOK, ConfigOK,
       ConfigSteps, Installed, CommandUsesWholeFiles, InstalledIsWhole
<1>3. CASE OpenBinary
  BY <1>3 DEF OpenBinary, NoProfileNoFiles, PlacesOK, NewDirectory, BinaryWhole, CopyOK, ConfigOK, Installed,
     CommandUsesWholeFiles, InstalledIsWhole, Goto, files, install, ConfigSteps
<1>4. CASE WriteBinary
  BY <1>4, ProfileAssumption DEF WriteBinary, NoProfileNoFiles, PlacesOK, NewDirectory, BinaryWhole, CopyOK, ConfigOK, Installed,
     CommandUsesWholeFiles, InstalledIsWhole, Goto, files, install, ConfigSteps
<1>5. CASE MakeDirs
  BY <1>5, ProfileAssumption DEF MakeDirs, NoProfileNoFiles, PlacesOK, NewDirectory, BinaryWhole, CopyOK, ConfigOK, Installed,
     CommandUsesWholeFiles, InstalledIsWhole, Goto, files, install, ConfigSteps
<1>6. CASE OpenSource
  <2>1. /\ pc = "openSource" /\ Live \notin profile
        /\ UNCHANGED <<present, bin, exe, source, used>>
    BY <1>6 DEF OpenSource, Goto, NewDirectory
  <2>2. \A f \in File : dirs[Live][f] = None
    BY <2>1 DEF NoProfileNoFiles, Place
  <2>3. CASE source \in profile
    <3>1. /\ pc' = "copy" /\ profile' = profile \cup {Live} /\ UNCHANGED outcome
          /\ left' = {f \in File : dirs[source][f] # None}
      BY <1>6, <2>3 DEF OpenSource, Goto
    <3>2. source # Live
      BY <2>1, <2>3
    <3>3. CopyOK'
      BY <2>1, <2>2, <2>3, <3>1, <3>2 DEF CopyOK
    <3>4. PlacesOK'
      BY <2>1, <3>1, ProfileAssumption DEF PlacesOK, NewDirectory
    <3> QED
      BY <2>1, <3>1, <3>3, <3>4 DEF NoProfileNoFiles, NewDirectory, BinaryWhole, ConfigOK,
         ConfigSteps, Installed, CommandUsesWholeFiles, InstalledIsWhole
  <2>4. CASE source \notin profile
    <3>1. pc' = "idle" /\ outcome' = "error" /\ UNCHANGED profile
      BY <1>6, <2>4 DEF OpenSource, Goto
    <3> QED
      BY <2>1, <3>1 DEF NoProfileNoFiles, PlacesOK, NewDirectory, BinaryWhole, CopyOK,
         ConfigOK, ConfigSteps, Installed, CommandUsesWholeFiles, InstalledIsWhole
  <2> QED BY <2>3, <2>4
<1>7. CASE InstallReturns
  <2>1. dirs[Live] = dirs[source]
    <3>1. \A f \in File : dirs[Live][f] = dirs[source][f]
      BY <1>7 DEF InstallReturns, CopyOK, Goto
    <3>2. dirs[Live] \in [File -> Nat] /\ dirs[source] \in [File -> Nat]
      BY DEF TypeOK, Place
    <3> QED BY <3>1, <3>2
  <2> QED
    BY <1>7, <2>1 DEF InstallReturns, NoProfileNoFiles, PlacesOK, NewDirectory, BinaryWhole, CopyOK, ConfigOK, Installed,
     CommandUsesWholeFiles, InstalledIsWhole, Goto, files, install, ConfigSteps
<1>8. CASE BeginConfig
  BY <1>8 DEF BeginConfig, NoProfileNoFiles, PlacesOK, NewDirectory, BinaryWhole, CopyOK, ConfigOK, Installed,
     CommandUsesWholeFiles, InstalledIsWhole, Goto, files, install, ConfigSteps, Loadable, NextVersion, TypeOK, Shipped
<1>9. CASE ClusterCommand
  <2>1. \A f \in Required \ {Zshrc} : dirs[Live][f] # Torn
    BY <1>9 DEF ClusterCommand, Loadable, OnlyLastTorn, Place, Required, File, Zshrc, ConfigTmp
  <2>2. CommandUsesWholeFiles'
    BY <1>9, <2>1 DEF ClusterCommand, CommandUsesWholeFiles
  <2> QED
    BY <1>9, <2>2 DEF ClusterCommand, NoProfileNoFiles, PlacesOK, NewDirectory, BinaryWhole, CopyOK, ConfigOK, Installed,
     InstalledIsWhole, Goto, files, install, ConfigSteps
<1>10. CASE Interrupt
  <2>1. CommandUsesWholeFiles'
    BY <1>10 DEF Interrupt, CommandUsesWholeFiles, NothingUsed, None, Torn
  <2> QED
    BY <1>10, <2>1 DEF Interrupt, NoProfileNoFiles, PlacesOK, NewDirectory, BinaryWhole, CopyOK, ConfigOK, Installed,
     InstalledIsWhole, files, install, ConfigSteps
<1>11. CASE UNCHANGED vars
  BY <1>11 DEF vars, NoProfileNoFiles, PlacesOK, NewDirectory, BinaryWhole, CopyOK, ConfigOK, Installed,
     CommandUsesWholeFiles, InstalledIsWhole, IsNext
<1> QED BY <1>2, <1>3, <1>4, <1>5, <1>6, <1>7, <1>8, <1>9, <1>10, <1>11

(***************************************************************************)
(* install                                                                 *)
(***************************************************************************)

\* The move to a backup: what the live profile held is there.
LEMMA MoveStep ==
  ASSUME ProfileInv, MoveProfiles
  PROVE  ProfileInv'
<1>0. TypeOK'
  BY TypeStep DEF ProfileInv, Next, InstallStep
<1> USE DEF ProfileInv
<1>1. PICK s \in Second :
        \/ /\ s \notin present
           /\ Goto("move", "makeDirs")
           /\ dirs' = [p \in Place |-> IF p = s THEN dirs[Live]
                                       ELSE IF p = Live THEN Empty ELSE dirs[p]]
           /\ present' = (present \ {Live}) \cup {s}
           /\ profile' = (profile \ {Live}) \cup (IF Live \in profile THEN {s} ELSE {})
           /\ UNCHANGED <<bin, install, setting, outcome, used, saves, kept>>
        \/ /\ s \in present
           /\ Goto("move", "idle")
           /\ outcome' = "error"
           /\ UNCHANGED <<files, install, setting, used, saves, kept>>
  BY Zenon DEF MoveProfiles
<1>2. CASE s \in present
  <2>1. /\ pc = "move" /\ pc' = "idle" /\ outcome' = "error"
        /\ UNCHANGED <<files, install, setting, used, saves, kept>>
    BY <1>1, <1>2 DEF Goto
  <2> QED
    BY <1>0, <2>1 DEF OnlyLastTorn, NoProfileNoFiles, PlacesOK, NewDirectory,
       BinaryWhole, CopyOK, ConfigOK, ConfigSteps, KeptOK, Installed, NothingLost,
       CommandUsesWholeFiles, InstalledIsWhole, files, install
<1>3. CASE s \notin present
  <2>1. /\ pc = "move" /\ pc' = "makeDirs"
        /\ present' = (present \ {Live}) \cup {s}
        /\ profile' = (profile \ {Live}) \cup (IF Live \in profile THEN {s} ELSE {})
        /\ UNCHANGED <<bin, install, setting, outcome, used, saves, kept>>
    BY <1>1, <1>3 DEF Goto
  <2>2. s \in Place /\ Live \in Place /\ s # Live /\ s # Repo /\ Live # Repo
    BY ProfileAssumption DEF Place
  <2>3. /\ dirs'[s] = dirs[Live]
        /\ \A g \in File : dirs'[Live][g] = None
        /\ \A p \in Place : p # Live /\ p # s => dirs'[p] = dirs[p]
    BY <1>1, <1>3, <2>2, MoveMoves
  <2>4. \A f \in File : dirs[s][f] = None
    BY <1>3, <2>2 DEF PlacesOK, NoProfileNoFiles
  <2>5. OnlyLastTorn'
    BY <2>2, <2>3 DEF OnlyLastTorn, Required, None, Torn
  <2>6. NoProfileNoFiles'
    BY <2>1, <2>2, <2>3 DEF NoProfileNoFiles
  <2>7. PlacesOK'
    BY <2>1, <2>2 DEF PlacesOK
  <2>8. NewDirectory' /\ BinaryWhole' /\ CopyOK' /\ ConfigOK'
    BY <2>1, <2>2 DEF NewDirectory, BinaryWhole, CopyOK, ConfigOK, ConfigSteps, install
  <2>9. KeptOK' /\ Installed' /\ CommandUsesWholeFiles' /\ InstalledIsWhole'
    BY <2>1 DEF KeptOK, Installed, CommandUsesWholeFiles, InstalledIsWhole
  <2>10. NothingLost'
    <3> SUFFICES ASSUME NEW k \in kept
                 PROVE  \E p \in {Live} \cup Second : dirs'[p][k[1]] = k[2]
      BY <2>1 DEF NothingLost
    <3>1. PICK p \in {Live} \cup Second : dirs[p][k[1]] = k[2]
      BY DEF NothingLost
    <3>2. k[1] \in File /\ k[2] # None
      BY DEF KeptOK, Required, Shipped, None, TypeOK
    <3>3. p # s
      BY <2>4, <3>1, <3>2
    <3>4. CASE p = Live
      BY <2>3, <3>1, <3>4
    <3>5. CASE p # Live
      BY <2>3, <3>1, <3>3, <3>5 DEF Place
    <3> QED BY <3>4, <3>5
  <2> QED BY <1>0, <2>5, <2>6, <2>7, <2>8, <2>9, <2>10
<1> QED BY <1>2, <1>3

\* A file of the live profile that holds no kept version may be written.
LEMMA WriteKeepsAll ==
  ASSUME ProfileInv, NEW f \in File, NEW v \in Nat, Put(f, v), UNCHANGED kept,
         dirs[Live][f] \in {None, Torn} \/ f = ConfigTmp
  PROVE  NothingLost'
<1> SUFFICES ASSUME NEW k \in kept
             PROVE  \E p \in {Live} \cup Second : dirs'[p][k[1]] = k[2]
  BY DEF NothingLost
<1>1. PICK p \in {Live} \cup Second : dirs[p][k[1]] = k[2]
  BY DEF ProfileInv, NothingLost
<1>2. k[1] \in Required /\ k[2] \notin {None, Torn}
  BY DEF ProfileInv, KeptOK, Shipped, None, Torn, TypeOK
<1>3. /\ \A g \in File : g # f => dirs'[Live][g] = dirs[Live][g]
      /\ \A q \in Place : q # Live => dirs'[q] = dirs[q]
  BY PutWrites DEF ProfileInv
<1>4. CASE p # Live
  BY <1>1, <1>3, <1>4 DEF Place
<1>5. CASE p = Live
  <2>1. k[1] # f
    BY <1>1, <1>2, <1>5 DEF Required
  <2> QED BY <1>1, <1>2, <1>3, <1>5, <2>1 DEF Required
<1> QED BY <1>4, <1>5

\* The next file is opened: it is torn, and those after it are not there yet.
LEMMA OpenCopyStep ==
  ASSUME ProfileInv, OpenCopy
  PROVE  ProfileInv'
<1>0. TypeOK'
  BY TypeStep DEF ProfileInv, Next, InstallStep
<1>1. PICK f \in File : IsNext(f) /\ Put(f, Torn)
  BY DEF OpenCopy
<1>2. /\ pc = "copy" /\ pc' = "writeCopy"
      /\ UNCHANGED <<present, profile, bin, install, setting, outcome, used, saves, kept>>
  BY DEF OpenCopy, Goto
<1>3. /\ dirs'[Live][f] = Torn
      /\ \A g \in File : g # f => dirs'[Live][g] = dirs[Live][g]
      /\ \A p \in Place : p # Live => dirs'[p] = dirs[p]
  BY <1>1, PutWrites DEF ProfileInv, Torn
<1> USE DEF ProfileInv
<1>4. /\ source \in profile /\ Live \in profile /\ source # Live /\ source \in Place
      /\ f \in left /\ \A g \in left : f <= g
      /\ left \subseteq File
      /\ \A g \in File \ left : dirs[Live][g] = dirs[source][g]
      /\ \A g \in left : dirs[source][g] # None /\ dirs[Live][g] = None
      /\ \A h \in left : \A g \in File \ left : h < g => dirs[source][g] = None
  BY <1>1, <1>2 DEF CopyOK, IsNext, TypeOK
<1>5. NothingLost'
  BY <1>1, <1>2, <1>4, WriteKeepsAll DEF Torn
<1>6. CopyOK'
  <2>0. left' = left /\ source' = source
    BY <1>2 DEF install
  <2>1. \A g \in left : IsNext(g)' <=> g = f
    BY <1>4, <2>0 DEF IsNext, File
  <2>2. \A g \in File \ left : dirs'[Live][g] = dirs'[source][g]
    BY <1>3, <1>4
  <2>3. \A h \in left : dirs'[Live][h] = IF h = f THEN Torn ELSE None
    BY <1>3, <1>4
  <2>4. \A g \in left : dirs'[source][g] # None
    BY <1>3, <1>4
  <2>5. \A h \in left : \A g \in File \ left : h < g => dirs'[source][g] = None
    BY <1>3, <1>4
  <2> QED BY <1>2, <1>4, <2>0, <2>1, <2>2, <2>3, <2>4, <2>5 DEF CopyOK
<1>7. OnlyLastTorn'
  <2> SUFFICES ASSUME NEW p \in Place, NEW g \in Required, NEW h \in Required,
                      dirs'[p][g] = Torn, g < h
               PROVE  dirs'[p][h] = None
    BY DEF OnlyLastTorn
  <2>1. CASE p # Live
    BY <1>3, <2>1 DEF OnlyLastTorn
  <2>2. CASE p = Live
    <3>0. g \in File /\ h \in File /\ None # Torn
      BY DEF Required, None, Torn
    <3>1. CASE g = f
      BY <1>3, <1>4, <2>2, <3>0, <3>1 DEF File
    <3>2. CASE g # f
      <4>1. dirs[Live][g] = Torn
        BY <1>3, <2>2, <3>0, <3>2
      <4>2. g \notin left /\ dirs[source][g] = Torn
        BY <1>4, <3>0, <4>1
      <4>3. dirs[source][h] = None
        BY <1>4, <4>2 DEF OnlyLastTorn
      <4>4. h \notin left
        BY <1>4, <4>3
      <4> QED BY <1>3, <1>4, <2>2, <3>0, <4>3, <4>4
    <3> QED BY <3>1, <3>2
  <2> QED BY <2>1, <2>2
<1>8. NoProfileNoFiles' /\ PlacesOK' /\ NewDirectory' /\ BinaryWhole' /\ ConfigOK'
  BY <1>2, <1>3, <1>4 DEF NoProfileNoFiles, PlacesOK, NewDirectory, BinaryWhole,
     ConfigOK, ConfigSteps, install
<1>9. KeptOK' /\ Installed' /\ CommandUsesWholeFiles' /\ InstalledIsWhole'
  BY <1>2 DEF KeptOK, Installed, CommandUsesWholeFiles, InstalledIsWhole
<1> QED BY <1>0, <1>5, <1>6, <1>7, <1>8, <1>9

\* The file is copied: if it is torn it is the last one of the source, too.
LEMMA WriteCopyStep ==
  ASSUME ProfileInv, WriteCopy
  PROVE  ProfileInv'
<1>0. TypeOK'
  BY TypeStep DEF ProfileInv, Next, InstallStep
<1>1. PICK f \in File : IsNext(f) /\ Put(f, dirs[source][f]) /\ left' = left \ {f}
  BY DEF WriteCopy
<1>2. /\ pc = "writeCopy" /\ pc' = "copy"
      /\ UNCHANGED <<present, profile, bin, exe, overwrite, source, setting, outcome,
                     used, saves, kept>>
  BY DEF WriteCopy, Goto
<1>3. /\ dirs'[Live][f] = dirs[source][f]
      /\ \A g \in File : g # f => dirs'[Live][g] = dirs[Live][g]
      /\ \A p \in Place : p # Live => dirs'[p] = dirs[p]
  <2>1. dirs[source][f] \in Nat
    BY DEF ProfileInv, TypeOK
  <2> QED BY <1>1, <2>1, PutWrites DEF ProfileInv
<1> USE DEF ProfileInv
<1>4. /\ source \in profile /\ Live \in profile /\ source # Live /\ source \in Place
      /\ f \in left /\ \A g \in left : f <= g
      /\ left \subseteq File
      /\ \A g \in File \ left : dirs[Live][g] = dirs[source][g]
      /\ \A g \in left : dirs[source][g] # None
      /\ \A g \in left : dirs[Live][g] = IF g = f THEN Torn ELSE None
      /\ \A h \in left : \A g \in File \ left : h < g => dirs[source][g] = None
  <2>1. \A g \in left : IsNext(g) <=> g = f
    BY <1>1 DEF IsNext, TypeOK, File
  <2> QED BY <1>1, <1>2, <2>1 DEF CopyOK, IsNext, TypeOK
<1>5. NothingLost'
  <2>1. dirs[source][f] \in Nat /\ dirs[Live][f] \in {None, Torn}
    BY <1>4 DEF TypeOK
  <2> QED BY <1>1, <1>2, <2>1, WriteKeepsAll
<1>6. CopyOK'
  <2>1. \A g \in File \ left' : dirs'[Live][g] = dirs'[source][g]
    BY <1>1, <1>3, <1>4
  <2>2. \A g \in left' : dirs'[Live][g] = None /\ dirs'[source][g] # None
    BY <1>1, <1>3, <1>4
  <2>3. \A h \in left' : \A g \in File \ left' : h < g => dirs'[source][g] = None
    BY <1>1, <1>3, <1>4 DEF File
  <2> QED BY <1>2, <1>4, <2>1, <2>2, <2>3 DEF CopyOK
<1>7. OnlyLastTorn'
  <2> SUFFICES ASSUME NEW p \in Place, NEW g \in Required, NEW h \in Required,
                      dirs'[p][g] = Torn, g < h
               PROVE  dirs'[p][h] = None
    BY DEF OnlyLastTorn
  <2>1. CASE p # Live
    BY <1>3, <2>1 DEF OnlyLastTorn
  <2>2. CASE p = Live
    <3>0. g \in File /\ h \in File /\ None # Torn
      BY DEF Required, None, Torn
    <3>1. dirs[source][g] = Torn
      BY <1>3, <1>4, <2>2, <3>0
    <3>2. dirs[source][h] = None
      BY <1>4, <3>1 DEF OnlyLastTorn
    <3>3. h \notin left
      BY <1>4, <3>2
    <3> QED BY <1>3, <1>4, <2>2, <3>0, <3>2, <3>3
  <2> QED BY <2>1, <2>2
<1>8. NoProfileNoFiles' /\ PlacesOK' /\ NewDirectory' /\ BinaryWhole' /\ ConfigOK'
  BY <1>2, <1>3, <1>4 DEF NoProfileNoFiles, PlacesOK, NewDirectory, BinaryWhole,
     ConfigOK, ConfigSteps
<1>9. KeptOK' /\ Installed' /\ CommandUsesWholeFiles' /\ InstalledIsWhole'
  BY <1>2 DEF KeptOK, Installed, CommandUsesWholeFiles, InstalledIsWhole
<1> QED BY <1>0, <1>5, <1>6, <1>7, <1>8, <1>9

-----------------------------------------------------------------------------
(***************************************************************************)
(* config, and the user's edits                                            *)
(***************************************************************************)

\* The temporary file is no required one: writing it endangers nothing.
LEMMA TmpSteps ==
  ASSUME ProfileInv, OpenTmp \/ WriteTmp
  PROVE  ProfileInv'
<1>0. TypeOK'
  BY TypeStep DEF ProfileInv, Next, ConfigStep
<1> USE DEF ProfileInv
<1>1. PICK v \in Nat : Put(ConfigTmp, v) /\ (OpenTmp \/ v = setting)
  BY DEF OpenTmp, WriteTmp, TypeOK, Torn
<1>2. /\ pc \in {"openTmp", "writeTmp"}
      /\ pc' = IF pc = "openTmp" THEN "writeTmp" ELSE "replace"
      /\ pc = "writeTmp" => v = setting
      /\ UNCHANGED <<present, profile, bin, install, setting, outcome, used, saves, kept>>
  BY <1>1 DEF OpenTmp, WriteTmp, Goto
<1>3. /\ ConfigTmp \in File
      /\ dirs'[Live][ConfigTmp] = v
      /\ \A g \in Required : dirs'[Live][g] = dirs[Live][g]
      /\ \A p \in Place : p # Live => dirs'[p] = dirs[p]
  <2>1. ConfigTmp \in File
    BY DEF ConfigTmp, File
  <2> QED BY <1>1, <2>1, PutWrites DEF Required
<1>4. \A f \in Required : dirs[Live][f] # None
  BY <1>2 DEF ConfigOK, ConfigSteps
<1>5. Live \in profile
  <2>1. CloudInit \in Required /\ Required \subseteq File /\ Live \in Place
    BY DEF CloudInit, Required, File, ConfigTmp, Place
  <2> QED BY <1>4, <2>1 DEF NoProfileNoFiles
<1>6. NothingLost'
  BY <1>1, <1>2, <1>3, WriteKeepsAll
<1>7. OnlyLastTorn'
  BY <1>3 DEF OnlyLastTorn
<1>8. NoProfileNoFiles' /\ PlacesOK'
  BY <1>2, <1>3, <1>5 DEF NoProfileNoFiles, PlacesOK
<1>9. NewDirectory' /\ BinaryWhole' /\ CopyOK'
  BY <1>2 DEF NewDirectory, BinaryWhole, CopyOK
<1>10. ConfigOK'
  BY <1>2, <1>3 DEF ConfigOK, ConfigSteps
<1>11. KeptOK' /\ Installed' /\ CommandUsesWholeFiles' /\ InstalledIsWhole'
  BY <1>2 DEF KeptOK, Installed, CommandUsesWholeFiles, InstalledIsWhole
<1> QED BY <1>0, <1>6, <1>7, <1>8, <1>9, <1>10, <1>11

\* A required file that is there gives way to a newer version, whole.
LEMMA SupersedeKeepsAll ==
  ASSUME ProfileInv, NEW f \in Required, NEW v \in Nat, v > Shipped,
         Supersede(f, v), dirs'[Live][f] = v,
         \A g \in Required : g # f => dirs'[Live][g] = dirs[Live][g],
         \A p \in Place : p # Live => dirs'[p] = dirs[p]
  PROVE  NothingLost' /\ KeptOK'
<1> USE DEF ProfileInv
<1>1. ASSUME NEW k \in kept'
      PROVE  /\ k[1] \in Required /\ k[2] > Shipped
             /\ \E p \in {Live} \cup Second : dirs'[p][k[1]] = k[2]
  <2>1. CASE k = <<f, v>>
    BY <2>1
  <2>2. CASE k \in kept /\ k # <<f, dirs[Live][f]>>
    <3>1. k[1] \in Required /\ k[2] > Shipped /\ k = <<k[1], k[2]>>
      BY <2>2 DEF KeptOK, TypeOK
    <3>2. PICK p \in {Live} \cup Second : dirs[p][k[1]] = k[2]
      BY <2>2 DEF NothingLost
    <3>3. CASE p # Live
      BY <3>1, <3>2, <3>3 DEF Place
    <3>4. CASE p = Live
      <4>1. k[1] # f
        BY <2>2, <3>1, <3>2, <3>4
      <4> QED BY <3>1, <3>2, <3>4, <4>1
    <3> QED BY <3>3, <3>4
  <2> QED BY <2>1, <2>2 DEF Supersede
<1> QED BY <1>1 DEF NothingLost, KeptOK

LEMMA ReplaceStep ==
  ASSUME ProfileInv, ReplaceConfig
  PROVE  ProfileInv'
<1>0. TypeOK'
  BY TypeStep DEF ProfileInv, Next, ConfigStep
<1> USE DEF ProfileInv
<1>1. /\ pc = "replace" /\ pc' = "idle" /\ outcome' = "set"
      /\ Supersede(ConfigFile, setting)
      /\ UNCHANGED <<present, profile, bin, install, setting, used, saves>>
  BY DEF ReplaceConfig, Goto
<1>2. /\ setting > Shipped /\ setting \in Nat /\ dirs[Live][ConfigTmp] = setting
      /\ \A f \in Required : dirs[Live][f] # None
  BY <1>1 DEF ConfigOK, ConfigSteps, TypeOK
<1>3. /\ ConfigFile \in Required /\ Required \subseteq File
      /\ CloudInit \in Required /\ Live \in Place
  BY DEF ConfigFile, ConfigTmp, CloudInit, Required, File, Place
<1>4. /\ dirs'[Live][ConfigFile] = setting
      /\ \A g \in Required : g # ConfigFile => dirs'[Live][g] = dirs[Live][g]
      /\ \A p \in Place : p # Live => dirs'[p] = dirs[p]
  BY <1>2, <1>3, ReplaceReplaces DEF Required
<1>5. NothingLost' /\ KeptOK'
  BY <1>1, <1>2, <1>3, <1>4, SupersedeKeepsAll
<1>6. Live \in profile
  BY <1>2, <1>3 DEF NoProfileNoFiles
<1>7. OnlyLastTorn'
  <2> SUFFICES ASSUME NEW p \in Place, NEW g \in Required, NEW h \in Required,
                      dirs'[p][g] = Torn, g < h
               PROVE  dirs'[p][h] = None
    BY DEF OnlyLastTorn
  <2>1. CASE p # Live
    BY <1>4, <2>1 DEF OnlyLastTorn
  <2>2. CASE p = Live
    <3>1. dirs[Live][g] = Torn
      BY <1>2, <1>4, <2>2 DEF Shipped, Torn
    <3> QED BY <1>2, <1>3, <3>1 DEF OnlyLastTorn
  <2> QED BY <2>1, <2>2
<1>8. NoProfileNoFiles' /\ PlacesOK'
  BY <1>1, <1>4, <1>6 DEF NoProfileNoFiles, PlacesOK
<1>9. NewDirectory' /\ BinaryWhole' /\ CopyOK' /\ ConfigOK'
  BY <1>1 DEF NewDirectory, BinaryWhole, CopyOK, ConfigOK, ConfigSteps
<1>10. Installed' /\ CommandUsesWholeFiles' /\ InstalledIsWhole'
  BY <1>1 DEF Installed, CommandUsesWholeFiles, InstalledIsWhole
<1> QED BY <1>0, <1>5, <1>7, <1>8, <1>9, <1>10

LEMMA UserStep ==
  ASSUME ProfileInv, UserSaves
  PROVE  ProfileInv'
<1>0. TypeOK'
  BY TypeStep DEF ProfileInv, Next
<1> USE DEF ProfileInv
<1>1. PICK f \in Required : /\ dirs[Live][f] # None
                            /\ Put(f, NextVersion) /\ Supersede(f, NextVersion)
  BY DEF UserSaves
<1>2. /\ pc = "idle" /\ pc' = "idle" /\ outcome' = "none"
      /\ UNCHANGED <<present, profile, bin, install, setting, used>>
  BY DEF UserSaves
<1>3. NextVersion \in Nat /\ NextVersion > Shipped /\ NextVersion # Torn
  BY DEF NextVersion, Shipped, Torn, TypeOK
<1>4. f \in File /\ Required \subseteq File /\ Live \in Place
  BY DEF Required, Place
<1>5. /\ dirs'[Live][f] = NextVersion
      /\ \A g \in Required : g # f => dirs'[Live][g] = dirs[Live][g]
      /\ \A p \in Place : p # Live => dirs'[p] = dirs[p]
  BY <1>1, <1>3, <1>4, PutWrites
<1>6. NothingLost' /\ KeptOK'
  BY <1>1, <1>3, <1>5, SupersedeKeepsAll
<1>7. Live \in profile
  BY <1>1, <1>4 DEF NoProfileNoFiles
<1>8. OnlyLastTorn'
  <2> SUFFICES ASSUME NEW p \in Place, NEW g \in Required, NEW h \in Required,
                      dirs'[p][g] = Torn, g < h
               PROVE  dirs'[p][h] = None
    BY DEF OnlyLastTorn
  <2>1. CASE p # Live
    BY <1>5, <2>1 DEF OnlyLastTorn
  <2>2. CASE p = Live
    <3>1. g # f /\ dirs[Live][g] = Torn
      BY <1>3, <1>5, <2>2
    <3>2. dirs[Live][h] = None
      BY <1>4, <3>1 DEF OnlyLastTorn
    <3> QED BY <1>1, <1>5, <2>2, <3>2
  <2> QED BY <2>1, <2>2
<1>9. NoProfileNoFiles' /\ PlacesOK'
  BY <1>2, <1>5, <1>7 DEF NoProfileNoFiles, PlacesOK
<1>10. NewDirectory' /\ BinaryWhole' /\ CopyOK' /\ ConfigOK'
  BY <1>2 DEF NewDirectory, BinaryWhole, CopyOK, ConfigOK, ConfigSteps
<1>11. Installed' /\ CommandUsesWholeFiles' /\ InstalledIsWhole'
  BY <1>2 DEF Installed, CommandUsesWholeFiles, InstalledIsWhole
<1> QED BY <1>0, <1>6, <1>8, <1>9, <1>10, <1>11

-----------------------------------------------------------------------------
(***************************************************************************)
(* The theorems                                                            *)
(***************************************************************************)
LEMMA InitHolds ==
  ASSUME Init
  PROVE  ProfileInv
<1>1. TypeOK
  <2>1. RepoProfile \in [File -> Nat] /\ Empty \in [File -> Nat]
    BY DEF RepoProfile, Empty, None, Shipped
  <2>2. NothingUsed \in [Required -> Nat]
    BY DEF NothingUsed, None
  <2> QED BY <2>1, <2>2 DEF Init, TypeOK, Place, None
<1>2. \A p \in Place, f \in File : dirs[p][f] # Torn /\ (p # Repo => dirs[p][f] = None)
  BY DEF Init, RepoProfile, Empty, None, Shipped, Torn
<1>3. OnlyLastTorn /\ NoProfileNoFiles /\ PlacesOK
  BY <1>2 DEF Init, OnlyLastTorn, NoProfileNoFiles, PlacesOK, Required
<1>4. NewDirectory /\ BinaryWhole /\ CopyOK /\ ConfigOK /\ KeptOK /\ Installed
  BY DEF Init, NewDirectory, BinaryWhole, CopyOK, ConfigOK, ConfigSteps, KeptOK, Installed
<1>5. NothingLost /\ CommandUsesWholeFiles /\ InstalledIsWhole
  BY DEF Init, NothingLost, CommandUsesWholeFiles, InstalledIsWhole, NothingUsed,
     None, Torn, Required
<1> QED BY <1>1, <1>3, <1>4, <1>5 DEF ProfileInv

\* ProfileInv holds at every moment: what install, config, the commands and
\* the user do to the profile keeps its parts true together.
THEOREM ProfileConsistent == Spec => []ProfileInv
<1>1. ProfileInv /\ [Next]_vars => ProfileInv'
  <2> SUFFICES ASSUME ProfileInv, [Next]_vars PROVE ProfileInv'
    OBVIOUS
  <2>1. CASE \/ BeginInstall \/ OpenBinary \/ WriteBinary \/ MakeDirs \/ OpenSource
             \/ InstallReturns \/ BeginConfig \/ ClusterCommand \/ Interrupt
             \/ UNCHANGED vars
    <3>1. UNCHANGED <<dirs, kept>>
      BY <2>1, Zenon DEF BeginInstall, OpenBinary, WriteBinary, MakeDirs, OpenSource,
         InstallReturns, BeginConfig, ClusterCommand, Interrupt, vars, files
    <3> QED BY <2>1, <3>1, QuietSteps
  <2> QED BY <2>1, MoveStep, OpenCopyStep, WriteCopyStep, TmpSteps, ReplaceStep,
             UserStep DEF Next, InstallStep, ConfigStep
<1> QED BY <1>1, InitHolds, PTL DEF Spec

\* Every variable of Profile keeps to its set.
THEOREM TypeCorrect == Spec => []TypeOK
<1>1. ProfileInv => TypeOK
  BY DEF ProfileInv
<1> QED BY <1>1, ProfileConsistent, PTL

\* What the user has saved and not replaced is whole in the profile or in a
\* backup, for any backups, edits and interruptions of install and config.
THEOREM NothingEverLost == Spec => []NothingLost
<1>1. ProfileInv => NothingLost
  BY DEF ProfileInv
<1> QED BY <1>1, ProfileConsistent, PTL

\* No command works with a torn configuration, template or setup script.
THEOREM OnlyWholeFilesUsed == Spec => []CommandUsesWholeFiles
<1>1. ProfileInv => CommandUsesWholeFiles
  BY DEF ProfileInv
<1> QED BY <1>1, ProfileConsistent, PTL

\* An install that ends well has put the whole source there, and the binary,
\* unless it is the installed one that ran and was allowed to truncate itself.
THEOREM InstalledWhole == Spec => []InstalledIsWhole
<1>1. ProfileInv => InstalledIsWhole
  BY DEF ProfileInv
<1> QED BY <1>1, ProfileConsistent, PTL
==============================================================================
