-------------------------- MODULE StateFile_proofs --------------------------
(***************************************************************************)
(* Proofs about StateFile: the file is always whole, written reports       *)
(* stand, and the file implements the register of ReportedStates, for any  *)
(* number of goroutines and reports, with errors and kills at any step.    *)
(***************************************************************************)
EXTENDS StateFile, TLAPS

\* Goroutines.
LEMMA Reporters ==
  /\ Main \in Reporter
  /\ \A w \in Worker : w \in Reporter /\ w # Main /\ w # Free
BY FileAssumption DEF Reporter

\* The first state is consistent.
LEMMA InitInductive == Init => FileInductive
<1> SUFFICES ASSUME Init PROVE FileInductive
  OBVIOUS
<1> USE Reporters, FileAssumption, TornAssumption
<1>1. NoReports \in Content
  BY SMT DEF NoReports, Content
<1>2. TypeOK
  BY <1>1, SMT DEF Init, TypeOK, Phases, Content
<1>3. Exclusion
  BY SMT DEF Init, Exclusion, Writing
<1>4. FileInv /\ ReportsStand
  BY <1>1, SMT DEF Init, FileInv, ReportsStand, NoReports
<1> QED BY <1>2, <1>3, <1>4 DEF FileInductive

\* Two goroutines never are between load and rename at once.
LEMMA OneWriter ==
  ASSUME FileInductive, NEW q \in Reporter, NEW r \in Reporter,
         pc[q] \in Writing, pc[r] \in Writing
  PROVE  q = r
BY FileAssumption, Reporters, SMT
   DEF FileInductive, TypeOK, Exclusion, Writing, Reporter, Phases

\* What a goroutine writes is data.
LEMMA UpdatedContent ==
  ASSUME FileInductive, NEW r \in Reporter
  PROVE  Updated(r) \in Content
BY SMT DEF FileInductive, TypeOK, Updated, Content

\* Every step keeps each variable in its set.
LEMMA TypeStep ==
  ASSUME FileInductive, [Next]_vars
  PROVE  TypeOK'
<1> USE Reporters, FileAssumption
    DEF FileInductive, TypeOK, Phases, Writing, Content, disk, Goto
<1>1. CASE Begin \/ CreateRecorded \/ Join \/ End
  BY <1>1, SMT DEF Begin, CreateRecorded, Join, End, MainRecords, WorkersBegin
<1>2. CASE Kill
  BY <1>2, SMT DEF Kill
<1>3. ASSUME NEW w \in Worker, WorkerStep(w) PROVE TypeOK'
  BY <1>3, SMT DEF WorkerStep, Ask, Finish, Lock
<1>4. ASSUME NEW r \in Reporter, ReportStep(r) PROVE TypeOK'
  <2>1. CASE Load(r) \/ Open(r)
    BY <2>1, SMT DEF Load, Open
  <2>2. CASE Write(r)
    BY <2>2, SMT DEF Write, Updated
  <2>3. CASE Rename(r)
    <3>1. file' \in Content
      BY <2>3, UpdatedContent, Zenon DEF Rename, FileInv
    <3>2. pc' \in [Reporter -> {"off", "think", "lock"} \cup Writing]
      BY <2>3, SMT DEF Rename
    <3>3. /\ UNCHANGED <<phase, serial, mutex, buf>>
          /\ tmp' = Absent /\ unwritten' \subseteq Reporter
      BY <2>3, Zenon DEF Rename
    <3> HIDE DEF Content, Writing, Phases
    <3> QED BY <3>1, <3>2, <3>3, Zenon
  <2>4. CASE GiveUp(r) \/ Return(r)
    BY <2>4, SMT DEF GiveUp, Return
  <2> QED BY <1>4, <2>1, <2>2, <2>3, <2>4 DEF ReportStep
<1>5. CASE UNCHANGED vars
  BY <1>5, SMT DEF vars
<1> QED BY <1>1, <1>2, <1>3, <1>4, <1>5 DEF Next, CommandStep

\* Every step respects the mutex and the phases of the command.
LEMMA ExclusionStep ==
  ASSUME FileInductive, [Next]_vars
  PROVE  Exclusion'
<1> USE Reporters, FileAssumption
    DEF FileInductive, TypeOK, Exclusion, Phases, Writing, disk, Goto
<1>1. CASE Begin \/ CreateRecorded \/ Join \/ End
  BY <1>1, SMT DEF Begin, CreateRecorded, Join, End, MainRecords, WorkersBegin
<1>2. CASE Kill
  BY <1>2, SMT DEF Kill
<1>3. ASSUME NEW w \in Worker, WorkerStep(w) PROVE Exclusion'
  BY <1>3, SMT DEF WorkerStep, Ask, Finish, Lock
<1>4. ASSUME NEW r \in Reporter, ReportStep(r) PROVE Exclusion'
  <2> USE DEF Reporter
  <2>1. CASE Load(r) \/ Open(r)
    BY <2>1, SMT DEF Load, Open
  <2>2. CASE Write(r) \/ Rename(r)
    BY <2>2, SMT DEF Write, Rename
  <2>3. CASE GiveUp(r) \/ Return(r)
    BY <2>3, SMT DEF GiveUp, Return
  <2> QED BY <1>4, <2>1, <2>2, <2>3 DEF ReportStep
<1>5. CASE UNCHANGED vars
  BY <1>5, SMT DEF vars
<1> QED BY <1>1, <1>2, <1>3, <1>4, <1>5 DEF Next, CommandStep

\* Every step leaves a goroutine's loaded data, its temporary file and the
\* file in step, and written reports where they are.
LEMMA FileStep ==
  ASSUME FileInductive, [Next]_vars
  PROVE  FileInv' /\ ReportsStand'
<1> USE Reporters, FileAssumption, OneWriter
    DEF FileInductive, TypeOK, FileInv, ReportsStand, Writing, Content, disk,
        Goto, Updated
<1>1. CASE Begin \/ CreateRecorded \/ Join \/ End
  <2> USE DEF Exclusion
  <2>1. ASSUME NEW p, MainRecords(p), pc[Main] = "off",
               UNCHANGED <<mutex, buf, disk, unwritten>>
        PROVE  FileInv' /\ ReportsStand'
    <3>1. \A r \in Reporter \ {Main} : serial'[r] = serial[r] /\ pc'[r] = pc[r]
      BY <2>1, SMT DEF MainRecords
    <3>2. /\ pc'[Main] = "load" /\ serial'[Main] = serial[Main] + 1
          /\ file[Main] \in Nat /\ serial[Main] \in Nat
      BY <2>1, SMT DEF MainRecords
    <3>3. FileInv'
      BY <2>1, <3>1, <3>2, SMT
    <3>4. ReportsStand'
      BY <2>1, <3>1, <3>2, SMT
    <3> QED BY <3>3, <3>4
  <2>2. ASSUME WorkersBegin, \A r \in Reporter : pc[r] = "off",
               UNCHANGED <<mutex, buf, disk, unwritten>>
        PROVE  FileInv' /\ ReportsStand'
    <3>1. UNCHANGED <<serial, buf, file, tmp, unwritten>>
      BY <2>2, Zenon DEF WorkersBegin
    <3>2. \A r \in Reporter : pc'[r] \in {"off", "think"}
      BY <2>2, SMT DEF WorkersBegin
    <3> QED BY <2>2, <3>1, <3>2, SMT
  <2>3. ASSUME UNCHANGED <<pc, serial, buf, disk, unwritten>>
        PROVE  FileInv' /\ ReportsStand'
    BY <2>3, SMT
  <2>4. CASE Begin
    BY <2>1, <2>2, <2>4, SMT DEF Begin, Reporter
  <2>5. CASE CreateRecorded
    BY <2>2, <2>5, SMT DEF CreateRecorded, Reporter
  <2>6. CASE Join
    BY <2>1, <2>3, <2>6, SMT DEF Join
  <2>7. CASE End
    BY <2>3, <2>7, SMT DEF End
  <2> QED BY <1>1, <2>4, <2>5, <2>6, <2>7
<1>2. CASE Kill
  BY <1>2, SMT DEF Kill
<1>3. ASSUME NEW w \in Worker, WorkerStep(w) PROVE FileInv' /\ ReportsStand'
  BY <1>3, SMT DEF WorkerStep, Ask, Finish, Lock
<1>4. ASSUME NEW r \in Reporter, ReportStep(r) PROVE FileInv' /\ ReportsStand'
  <2>1. CASE Load(r) \/ Open(r)
    BY <2>1, SMT DEF Load, Open
  <2>2. CASE Write(r)
    <3>1. tmp' = Updated(r) /\ UNCHANGED <<serial, buf, file, unwritten>>
      BY <2>2, Zenon DEF Write
    <3>2. pc[r] \in Writing /\ pc[r] = "write" /\ pc' = [pc EXCEPT ![r] = "rename"]
      BY <2>2, Zenon DEF Write
    <3>3. \A q \in Reporter \ {r} : pc[q] \notin Writing /\ pc'[q] = pc[q]
      BY <3>2, Zenon
    <3>4. \A q \in Reporter : Updated(q)' = Updated(q)
      BY <3>1, Zenon
    <3>5. pc'[r] = "rename"
      BY <3>2, Zenon
    <3> HIDE DEF Updated, Writing
    <3>6. FileInv'
      BY <3>1, <3>2, <3>3, <3>4, <3>5, SMT DEF Writing
    <3>7. ReportsStand'
      BY <3>1, <3>2, <3>3, <3>5, SMT
    <3> QED BY <3>6, <3>7
  <2>3. CASE Rename(r)
    BY <2>3, SMT DEF Rename
  <2>4. CASE GiveUp(r) \/ Return(r)
    BY <2>4, SMT DEF GiveUp, Return
  <2> QED BY <1>4, <2>1, <2>2, <2>3, <2>4 DEF ReportStep
<1>5. CASE UNCHANGED vars
  BY <1>5, SMT DEF vars
<1> QED BY <1>1, <1>2, <1>3, <1>4, <1>5 DEF Next, CommandStep

\* The inductive invariant: the writer's data is the file's, and the file
\* lags behind only in reports that are under way or were given up.
THEOREM FileConsistent == Spec => []FileInductive
<1>1. FileInductive /\ [Next]_vars => FileInductive'
  BY TypeStep, ExclusionStep, FileStep DEF FileInductive
<1> QED BY InitInductive, <1>1, PTL DEF Spec

\* Every variable keeps to its set.
THEOREM TypeCorrect == Spec => []TypeOK
<1>1. FileInductive => TypeOK
  BY DEF FileInductive
<1> QED BY FileConsistent, <1>1, PTL

\* state.json is whole at every moment, kills included.
THEOREM AlwaysComplete == Spec => []FileComplete
<1>1. FileInductive => FileComplete
  BY TornAssumption DEF FileInductive, FileInv, FileComplete
<1> QED BY FileConsistent, <1>1, PTL

\* No written report is lost, to another goroutine or to a later run.
THEOREM WrittenReportsStand == Spec => []ReportsStand
<1>1. FileInductive => ReportsStand
  BY DEF FileInductive
<1> QED BY FileConsistent, <1>1, PTL

\* A step either leaves the file or replaces one reporter's field in it.
LEMMA StepIsReport ==
  ASSUME FileInductive, FileInductive', [Next]_vars
  PROVE  [Register!Next]_file
<1>1. ASSUME NEW r \in Reporter, Rename(r) PROVE Register!Next
  <2>1. /\ file' = [file EXCEPT ![r] = serial[r]]
        /\ file[r] < serial[r]
    BY <1>1, SMT DEF Rename, Goto, Updated, FileInductive, FileInv
  <2>2. serial[r] \in 0 .. MaxReports /\ file[r] \in 0 .. MaxReports
    BY SMT DEF FileInductive, TypeOK, FileInv, Content
  <2>3. serial[r] \in file[r] + 1 .. MaxReports
    BY <2>1, <2>2, FileAssumption, SMT
  <2>4. Register!Report(r)
    BY <2>1, <2>3 DEF Register!Report
  <2> QED BY <2>4 DEF Register!Next
<1>2. CASE Begin \/ Kill \/ CommandStep
  BY <1>2 DEF Begin, Kill, CommandStep, CreateRecorded, Join, End, disk
<1>3. ASSUME NEW w \in Worker, WorkerStep(w) PROVE UNCHANGED file
  BY <1>3 DEF WorkerStep, Ask, Finish, Lock, disk
<1>4. ASSUME NEW r \in Reporter, ReportStep(r) PROVE [Register!Next]_file
  BY <1>1, <1>4 DEF ReportStep, Load, Open, Write, GiveUp, Return, disk
<1>5. CASE UNCHANGED vars
  BY <1>5 DEF vars
<1> QED BY <1>2, <1>3, <1>4, <1>5 DEF Next

\* StateFile implements ReportedStates: to its users, the load, the
\* temporary file and the rename are one atomic report.
THEOREM ImplementsRegister == Spec => Refinement
<1>1. Init => Register!Init
  BY DEF Init, NoReports, Register!Init
<1>2. FileInductive /\ FileInductive' /\ [Next]_vars => [Register!Next]_file
  BY StepIsReport
<1> QED BY FileConsistent, <1>1, <1>2, PTL DEF Spec, Refinement, Register!Spec
==============================================================================
