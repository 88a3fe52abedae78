--------------------------- MODULE JobStoreProofs ---------------------------
(***************************************************************************)
(* The job list of JobStore implements JobTable, for every set of jobs and *)
(* configurations, whether or not reads and renames fail.                  *)
(***************************************************************************)
EXTENDS JobStore, TLAPS

OneChange(old, new) == \E j \in Jobs : new = [old EXCEPT ![j] = new[j]]

(* A list about to be renamed in place differs in one job at most from the *)
(* one in place, or from the empty list when that was not to be seen.      *)
PendingIsOneChange ==
  ~Idle => OneChange(table, pending[1]) \/ (refused /\ OneChange(Empty, pending[1]))

JInv == TypeOK /\ PendingIsOneChange

-----------------------------------------------------------------------------
(* Loading returns what the path holds afterwards, or nothing because the  *)
(* operation was refused; to the abstract list it is a look at it.         *)
LEMMA LoadSees ==
  ASSUME TypeOK, NEW seen \in {table, Empty}, Load(seen)
  PROVE  /\ shape' \in Shapes /\ table' \in Tables /\ aside' \subseteq Tables
         /\ refused' \in BOOLEAN /\ seen \in Tables
         /\ seen = table' \/ (refused' /\ seen = Empty)
         /\ JobList!Next
<1> Empty \in Tables
  BY DEF Empty, Tables
<1>1. /\ shape' \in Shapes /\ table' \in Tables /\ aside' \subseteq Tables
      /\ refused' \in BOOLEAN /\ seen \in Tables
      /\ seen = table' \/ (refused' /\ seen = Empty)
  BY DEF Load, Quarantine, TypeOK, Shapes
<1>2. UNCHANGED <<table, aside>> \/ (aside' = aside \cup {table} /\ table' = Empty /\ ~refused')
  BY DEF Load, Quarantine
<1>3. JobList!Next
  BY <1>1, <1>2 DEF JobList!Next, JobList!Look, JobList!SetAside, JobList!Empty, Empty
<1> QED
  BY <1>1, <1>3

(* Saving one change of the list seen.                                     *)
LEMMA SaveIsOneChange ==
  ASSUME NEW t \in Tables, NEW j \in Jobs, NEW rec \in Records \cup {NoJob},
         Save([t EXCEPT ![j] = rec]), t = table' \/ (refused' /\ t = Empty)
  PROVE  PendingIsOneChange' /\ pending' \in Seq(Tables) /\ Len(pending') <= 1
<1> DEFINE new == [t EXCEPT ![j] = rec]
<1>1. new \in Tables /\ new = [t EXCEPT ![j] = new[j]]
  BY DEF Tables
<1>2. pending' = <<new>>
  BY DEF Save
<1> HIDE DEF new
<1>3. pending'[1] = new /\ pending' \in Seq(Tables) /\ Len(pending') = 1
  BY <1>1, <1>2
<1>4. OneChange(t, new) /\ Empty' = Empty
  BY <1>1 DEF OneChange, Empty
<1> QED
  BY <1>3, <1>4 DEF PendingIsOneChange

(* Every operation on a job either saves one change of the list it saw, or *)
(* saves nothing.                                                          *)
LEMMA OperationKeepsJInv ==
  ASSUME JInv, NEW j \in Jobs, Operation(j)
  PROVE  JInv' /\ (JobList!Next \/ UNCHANGED <<table, aside, refused>>)
<1> USE DEF JInv
<1>1. ASSUME NEW c \in Configs, CreateJob(j, c)
      PROVE  JInv' /\ (JobList!Next \/ UNCHANGED <<table, aside, refused>>)
  <2>1. PICK seen \in {table, Empty} :
          Load(seen) /\ Save([seen EXCEPT ![j] = [config |-> c, count |-> 0]])
    BY <1>1 DEF CreateJob
  <2>2. [config |-> c, count |-> 0] \in Records
    BY DEF Records
  <2>3. used' \subseteq Jobs /\ held' \in Tables
    BY <1>1 DEF CreateJob, TypeOK
  <2> QED
    BY <2>1, <2>2, <2>3, LoadSees, SaveIsOneChange
       DEF TypeOK
<1>2. ASSUME NEW c \in Configs, PatchJob(j, c)
      PROVE  JInv' /\ (JobList!Next \/ UNCHANGED <<table, aside, refused>>)
  <2> DEFINE new == [table[j] EXCEPT !.config = c]
  <2>1. PICK seen \in {table, Empty} : Load(seen) /\ Save([seen EXCEPT ![j] = new])
    BY <1>2 DEF PatchJob
  <2>2. new \in Records
    BY <1>2 DEF PatchJob, TypeOK, Tables, Records
  <2>3. used' \subseteq Jobs /\ held' \in Tables
    BY <1>2 DEF PatchJob, TypeOK
  <2> HIDE DEF new
  <2> QED
    BY <2>1, <2>2, <2>3, LoadSees, SaveIsOneChange
       DEF TypeOK
<1>3. CASE DeleteJob(j)
  <2>1. PICK seen \in {table, Empty} :
          /\ Load(seen)
          /\ IF seen[j] = NoJob THEN UNCHANGED pending ELSE Save([seen EXCEPT ![j] = NoJob])
    BY <1>3 DEF DeleteJob
  <2>2. used' \subseteq Jobs /\ held' \in Tables /\ Idle
    BY <1>3 DEF DeleteJob, TypeOK
  <2>3. /\ PendingIsOneChange' /\ pending' \in Seq(Tables) /\ Len(pending') <= 1
    <3>1. CASE UNCHANGED pending
      BY <2>2, <3>1 DEF PendingIsOneChange, Idle, TypeOK
    <3>2. CASE Save([seen EXCEPT ![j] = NoJob])
      BY <2>1, <3>2, LoadSees, SaveIsOneChange
    <3> QED
      BY <2>1, <3>1, <3>2
  <2> QED
    BY <2>1, <2>2, <2>3, LoadSees
       DEF TypeOK
<1>4. CASE LaunchRun(j)
  BY <1>4 DEF LaunchRun, TypeOK, PendingIsOneChange, Idle, Tables
<1>5. CASE RecordResult(j)
  <2>1. Idle /\ held[j] # NoJob /\ used' \subseteq Jobs /\ held' \in Tables
    BY <1>5 DEF RecordResult, TypeOK, Tables
  <2>2. CASE LoadRaises
    BY <2>1, <2>2 DEF LoadRaises, TypeOK, PendingIsOneChange, Idle
  <2>3. ASSUME NEW seen \in {table, Empty}, Load(seen),
               Save([seen EXCEPT ![j] = Counted(IF seen[j] = NoJob THEN held[j] ELSE seen[j])])
        PROVE  JInv' /\ JobList!Next
    <3> DEFINE old == IF seen[j] = NoJob THEN held[j] ELSE seen[j]
    <3>1. old \in Records
      BY <2>1, <2>3, LoadSees DEF TypeOK, Tables
    <3>2. Save([seen EXCEPT ![j] = Counted(old)])
      BY <2>3
    <3> HIDE DEF old
    <3>3. Counted(old) \in Records
      BY <3>1 DEF Counted, Records
    <3> QED
      BY <2>1, <2>3, <3>2, <3>3, LoadSees, SaveIsOneChange DEF TypeOK
  <2> QED
    BY <1>5, <2>2, <2>3 DEF RecordResult
<1> QED
  BY <1>1, <1>2, <1>3, <1>4, <1>5 DEF Operation

LEMMA StepKeepsJInv ==
  ASSUME JInv, [Next]_vars
  PROVE  JInv' /\ (JobList!Next \/ UNCHANGED <<table, aside, refused>>)
<1> USE DEF JInv
<1>1. CASE ListJobs
  <2>1. PICK seen \in {table, Empty} : Load(seen)
    BY <1>1 DEF ListJobs
  <2>2. Idle /\ UNCHANGED <<pending, held, used>>
    BY <1>1 DEF ListJobs
  <2> QED
    BY <2>1, <2>2, LoadSees DEF TypeOK, PendingIsOneChange, Idle
<1>2. CASE Rename
  <2>1. /\ table' = pending[1] /\ pending' = <<>> /\ shape' \in Shapes
        /\ UNCHANGED <<aside, held, used, refused>>
    BY <1>2 DEF Rename, Shapes
  <2>2. pending[1] \in Tables
    BY <1>2 DEF Rename, Idle, TypeOK
  <2>3. <<>> \in Seq(Tables) /\ Len(<<>>) = 0
    OBVIOUS
  <2>4. JInv'
    BY <2>1, <2>2, <2>3 DEF TypeOK, PendingIsOneChange, Idle
  <2>5. OneChange(table, pending[1]) \/ (refused /\ OneChange(Empty, pending[1]))
    BY <1>2 DEF Rename, PendingIsOneChange
  <2>6. JobList!Change \/ JobList!WriteOver
    BY <2>1, <2>5 DEF OneChange, JobList!Change, JobList!WriteOver, JobList!Empty, Empty
  <2> QED
    BY <2>4, <2>6 DEF JobList!Next
<1>3. CASE SaveFails \/ Damage \/ Crash
  <2>1. /\ table' = table /\ aside' = aside /\ used' = used /\ pending' = <<>>
        /\ refused' = refused /\ held' \in {held, Empty} /\ shape' \in Shapes
    BY <1>3 DEF SaveFails, Damage, Crash, Idle, TypeOK, Shapes
  <2>2. Empty \in Tables /\ <<>> \in Seq(Tables) /\ Len(<<>>) = 0
    BY DEF Empty, Tables
  <2> QED
    BY <2>1, <2>2 DEF TypeOK, PendingIsOneChange, Idle
<1>4. CASE \E j \in Jobs : Operation(j)
  BY <1>4, OperationKeepsJInv
<1>5. CASE UNCHANGED vars
  BY <1>5 DEF vars, TypeOK, PendingIsOneChange, Idle
<1> QED
  BY <1>1, <1>2, <1>3, <1>4, <1>5 DEF Next

LEMMA InitJInv == Init => JInv /\ JobList!Init
<1> SUFFICES ASSUME Init PROVE JInv /\ JobList!Init
  OBVIOUS
<1>1. Empty \in Tables /\ <<>> \in Seq(Tables) /\ Len(<<>>) = 0
  BY DEF Empty, Tables
<1>2. PendingIsOneChange
  BY DEF Init, PendingIsOneChange, Idle
<1>3. TypeOK
  <2>1. shape \in Shapes /\ refused \in BOOLEAN /\ aside \subseteq Tables /\ used \subseteq Jobs
    BY DEF Init, Shapes
  <2> QED
    BY <1>1, <2>1 DEF Init, TypeOK
<1> QED
  BY <1>2, <1>3 DEF Init, JInv, JobList!Init, JobList!Empty, Empty

(* Whatever is refused, damaged or cut short by a crash, a step changes    *)
(* one job or sets a whole list aside, and jobs are written over only by   *)
(* an operation that was itself refused the list or its setting aside.     *)
THEOREM JobsAreKept == Spec => KeepsJobs
<1>1. JInv /\ [Next]_vars => JInv'
  BY StepKeepsJInv
<1>2. JInv /\ [Next]_vars => [JobList!Next]_(JobList!vars)
  BY StepKeepsJInv DEF JobList!vars
<1> QED
  BY <1>1, <1>2, InitJInv, PTL DEF Spec, KeepsJobs, JobList!Spec

(* Every variable of the store keeps its type, and one write at most is    *)
(* under way.                                                              *)
THEOREM StoreTypeCorrect == Spec => []TypeOK
<1>1. JInv /\ [Next]_vars => JInv'
  BY StepKeepsJInv
<1>2. JInv => TypeOK
  BY DEF JInv
<1> QED
  BY <1>1, <1>2, InitJInv, PTL DEF Spec
=============================================================================
