-------------------------- MODULE DaemonRunsProofs --------------------------
(***************************************************************************)
(* Proofs about DaemonRuns for every set of jobs, cap, limit and bound:    *)
(* type correctness, the five state invariants of the reservation set, the *)
(* permits, the executors, the records and the attempt counts, the two     *)
(* action properties, and that the run files implement RunLedger.          *)
(***************************************************************************)
EXTENDS DaemonRuns, FiniteSetTheorems, TLAPS

(* A process that is gone has no tasks, no reservations, no parked graphs. *)
DownIsIdle ==
  stage = "down" =>
    /\ runningJobs = {} /\ pausedRuns = {}
    /\ \A r \in Runs : task[r] = "none" /\ resume[r] = "none"

(* A run not created yet is nowhere.                                       *)
UnbornIsAbsent ==
  /\ bootMark <= lastRun
  /\ \A r \in Runs : r > lastRun =>
       task[r] = "none" /\ resume[r] = "none" /\ r \notin pausedRuns /\ disk[r] = "absent"

(* A run with a task, a resume or a parked graph has a job and holds its   *)
(* copy of the job's record.                                               *)
LiveHasJob ==
  \A r \in Runs : task[r] # "none" \/ resume[r] # "none" \/ r \in pausedRuns =>
    jobOf[r] \in Jobs /\ snap[r] \in JobRecord

(* What the file of a live run shows.                                      *)
FileOfPhase ==
  \A r \in Runs :
    /\ task[r] = "queued" => disk[r] \in {"absent", "running"}
    /\ task[r] = "agent" \/ resume[r] = "agent" => disk[r] = "running"
    /\ r \in pausedRuns => disk[r] = "paused"

IInv ==
  /\ TypeOK /\ DownIsIdle /\ UnbornIsAbsent /\ LiveHasJob /\ FileOfPhase
  /\ ReservationExact /\ PermitsExact /\ OneExecutor /\ RecordsTellTruth

-----------------------------------------------------------------------------
(* Helpers *)

(* Counting an attempt keeps a job's record a job's record.                *)
LEMMA CountedType == \A rec \in JobRecord : Counted(rec) \in JobRecord
BY DEF Counted, JobRecord

(* Merging a run's result leaves jobs.json a table of job records.         *)
LEMMA MergedType ==
  ASSUME TypeOK, NEW r \in Runs, jobOf[r] \in Jobs, snap[r] \in JobRecord
  PROVE  Merged(r) \in [Jobs -> JobRecord \cup {NoJob}]
<1> DEFINE j == jobOf[r]
           rec == Counted(store[j])
           new == IF store[j] = NoJob THEN Counted(snap[r])
                  ELSE [rec EXCEPT !.enabled = @ /\ ~CapReached(j, rec)]
<1>1. Merged(r) = [store EXCEPT ![j] = new]
  BY DEF Merged
<1>2. new \in JobRecord
  <2>1. CASE store[j] = NoJob
    BY <2>1, CountedType
  <2>2. CASE store[j] # NoJob
    <3>1. store[j] \in JobRecord
      BY <2>2 DEF TypeOK
    <3>2. rec \in JobRecord
      BY <3>1, CountedType
    <3> HIDE DEF rec
    <3>3. [rec EXCEPT !.enabled = @ /\ ~CapReached(j, rec)] \in JobRecord
      BY <3>2 DEF JobRecord
    <3> QED
      BY <2>2, <3>3
  <2> QED
    BY <2>1, <2>2
<1> HIDE DEF new
<1> QED
  BY <1>1, <1>2 DEF TypeOK

(* What recording a run's result does to the two copies of the job.        *)
LEMMA RecordType ==
  ASSUME TypeOK, LiveHasJob, NEW r \in Runs, RecordResult(r),
         task[r] # "none" \/ resume[r] # "none"
  PROVE  /\ store' \in [Jobs -> JobRecord \cup {NoJob}]
         /\ snap' \in [Runs -> JobRecord \cup {NoJob}]
         /\ \A q \in Runs : snap[q] \in JobRecord => snap'[q] \in JobRecord
<1>1. jobOf[r] \in Jobs /\ snap[r] \in JobRecord
  BY DEF LiveHasJob
<1>2. store' \in [Jobs -> JobRecord \cup {NoJob}]
  BY <1>1, MergedType DEF RecordResult
<1>3. Counted(snap[r]) \in JobRecord
  BY <1>1, CountedType
<1>4. snap' = [snap EXCEPT ![r] = Counted(snap[r])]
  BY DEF RecordResult
<1> QED
  BY <1>2, <1>3, <1>4 DEF TypeOK

LEMMA HoldingFinite == IsFiniteSet(Holding)
<1>1. IsFiniteSet(Runs)
  BY FS_Interval, LimitAssumption DEF Runs
<1> QED
  BY <1>1, FS_Subset DEF Holding

(* Taking the permit and moving past the semaphore go together.            *)
LEMMA AcquireKeepsPermits ==
  ASSUME TypeOK, PermitsExact, NEW r \in Runs, NEW phase \in {"agent", "deliver"},
         Acquire(r, phase)
  PROVE  PermitsExact' /\ semaphore' \in 0..MaxConcurrent
<1>1. Holding' = Holding \cup {r} /\ r \notin Holding
  BY DEF Holding, Acquire, TypeOK
<1>2. Cardinality(Holding') = Cardinality(Holding) + 1
  BY <1>1, HoldingFinite, FS_AddElement
<1>3. Cardinality(Holding) \in Nat
  BY HoldingFinite, FS_CardinalityType
<1> QED
  BY <1>2, <1>3, LimitAssumption DEF PermitsExact, Acquire, TypeOK

(* Leaving the run gives back the permit it holds.                         *)
LEMMA ReleaseKeepsPermits ==
  ASSUME TypeOK, PermitsExact, NEW r \in Runs, task[r] \in {"agent", "deliver"}, Release(r)
  PROVE  PermitsExact' /\ semaphore' \in 0..MaxConcurrent
<1>1. Holding' = Holding \ {r} /\ r \in Holding
  BY DEF Holding, Release, TypeOK
<1>2. Cardinality(Holding') = Cardinality(Holding) - 1
  BY <1>1, HoldingFinite, FS_RemoveElement
<1>3. Cardinality(Holding) \in Nat /\ Cardinality(Holding') \in Nat
  BY <1>1, HoldingFinite, FS_CardinalityType, FS_RemoveElement
<1> QED
  BY <1>2, <1>3, LimitAssumption DEF PermitsExact, Release, TypeOK

(* A step that moves nobody past the semaphore keeps the account.          *)
LEMMA SamePermits ==
  ASSUME PermitsExact, semaphore' = semaphore, Holding' = Holding
  PROVE  PermitsExact'
BY DEF PermitsExact

-----------------------------------------------------------------------------
(* One lemma per group of actions: the invariant is kept *)

(* A launch of the admitted jobs of q, with or without a placeholder.      *)
LEMMA LaunchKeepsIInv ==
  ASSUME IInv, Alive, NEW n \in Nat \ {0}, NEW q \in [1..n -> Jobs], Launch(q),
         \A a, b \in 1..n : q[a] = q[b] => a = b,
         \A i \in 1..n : q[i] \notin runningJobs /\ store[q[i]] # NoJob,
         UNCHANGED <<process, semaphore, resuming, store, deleted>>,
         disk' = disk \/ disk' = [disk EXCEPT ![lastRun + 1] = "running"]
  PROVE  IInv'
<1> DEFINE new == lastRun + 1 .. lastRun + n
<1>1. Len(q) = n
  OBVIOUS
<1>2. /\ lastRun' = lastRun + n /\ lastRun' \in 0..RunLimit /\ new \subseteq Runs
      /\ runningJobs' = runningJobs \cup {q[i] : i \in 1..n}
      /\ task'  = [r \in Runs |-> IF r \in new THEN "queued" ELSE task[r]]
      /\ jobOf' = [r \in Runs |-> IF r \in new THEN q[r - lastRun] ELSE jobOf[r]]
      /\ snap'  = [r \in Runs |-> IF r \in new THEN store[q[r - lastRun]] ELSE snap[r]]
  BY <1>1, LimitAssumption DEF Launch, IInv, TypeOK, Runs
<1>3. /\ \A r \in new : r \in Runs /\ r > lastRun /\ r - lastRun \in 1..n
      /\ \A r \in Runs : r \notin new => task'[r] = task[r] /\ jobOf'[r] = jobOf[r] /\ snap'[r] = snap[r]
      /\ \A r \in new : task'[r] = "queued" /\ jobOf'[r] = q[r - lastRun] /\ snap'[r] = store[q[r - lastRun]]
  BY <1>2 DEF IInv, TypeOK, Runs
<1>4. \A r \in new : task[r] = "none" /\ resume[r] = "none" /\ r \notin pausedRuns /\ disk[r] = "absent"
  BY <1>3 DEF IInv, UnbornIsAbsent
<1>5. \A r \in new : jobOf'[r] \in Jobs /\ snap'[r] \in JobRecord
  BY <1>3 DEF IInv, TypeOK
<1>6. /\ disk' \in [Runs -> Status]
      /\ \A r \in Runs : disk'[r] = disk[r] \/ (r \in new /\ disk'[r] = "running")
  <2>1. lastRun + 1 \in new
    BY DEF IInv, TypeOK
  <2>2. disk \in [Runs -> Status]
    BY DEF IInv, TypeOK
  <2>3. CASE disk' = [disk EXCEPT ![lastRun + 1] = "running"]
    BY <2>1, <2>2, <2>3 DEF Status
  <2> QED
    BY <2>2, <2>3
<1> HIDE DEF new
<1>7. TypeOK'
  <2>1. task' \in [Runs -> Phase] /\ jobOf' \in [Runs -> Jobs \cup {NoJob}]
    BY <1>2, <1>3, <1>5 DEF IInv, TypeOK, Phase
  <2>2. snap' \in [Runs -> JobRecord \cup {NoJob}]
    BY <1>2, <1>3, <1>5 DEF IInv, TypeOK
  <2>3. runningJobs' \subseteq Jobs
    BY <1>2 DEF IInv, TypeOK
  <2> QED
    BY <1>2, <1>6, <2>1, <2>2, <2>3 DEF IInv, TypeOK, process, resuming
<1>8. DownIsIdle'
  BY DEF Alive, DownIsIdle, process
<1>9. UnbornIsAbsent'
  <2>1. \A r \in Runs : r > lastRun' => r \notin new /\ r > lastRun
    BY <1>2 DEF new, IInv, TypeOK, Runs
  <2> QED
    BY <1>2, <1>3, <1>6, <2>1 DEF IInv, TypeOK, UnbornIsAbsent, process, resuming
<1>10. LiveHasJob'
  BY <1>3, <1>4, <1>5 DEF IInv, LiveHasJob, resuming
<1>11. FileOfPhase'
  BY <1>3, <1>4, <1>6 DEF IInv, FileOfPhase, resuming
<1>12. ReservationExact'
  <2>1. InFlight' = InFlight \cup new
    BY <1>2, <1>3 DEF InFlight
  <2>2. \A r \in InFlight : r \notin new /\ jobOf'[r] = jobOf[r] /\ jobOf[r] \in runningJobs
    BY <1>3, <1>4 DEF InFlight, IInv, ReservationExact
  <2>3. {jobOf'[r] : r \in new} = {q[i] : i \in 1..n}
    <3>1. \A i \in 1..n : lastRun + i \in new /\ jobOf'[lastRun + i] = q[i]
      BY <1>2, <1>3 DEF new, IInv, TypeOK
    <3> QED
      BY <1>3, <3>1
  <2>4. runningJobs' = {jobOf'[r] : r \in InFlight'}
    <3>1. runningJobs = {jobOf'[r] : r \in InFlight}
      BY <2>2 DEF IInv, ReservationExact
    <3>2. runningJobs' = runningJobs \cup {jobOf'[r] : r \in new}
      BY <1>2, <2>3
    <3> QED
      BY <2>1, <3>1, <3>2
  <2>5. ASSUME NEW r \in InFlight', NEW s \in InFlight', jobOf'[r] = jobOf'[s] PROVE r = s
    <3>1. CASE r \in new /\ s \in new
      BY <1>3, <2>5, <3>1 DEF IInv, TypeOK, Runs
    <3>2. CASE r \in InFlight /\ s \in InFlight
      BY <2>2, <2>5, <3>2 DEF IInv, ReservationExact
    <3>3. CASE (r \in new /\ s \in InFlight) \/ (s \in new /\ r \in InFlight)
      BY <1>3, <2>2, <2>5, <3>3
    <3> QED
      BY <2>1, <3>1, <3>2, <3>3
  <2> QED
    BY <2>4, <2>5 DEF ReservationExact
<1>13. PermitsExact'
  <2>1. Holding' = Holding
    BY <1>3, <1>4 DEF Holding
  <2> QED
    BY <2>1, SamePermits DEF IInv
<1>14. OneExecutor'
  BY <1>3, <1>4 DEF IInv, OneExecutor, resuming
<1>15. RecordsTellTruth'
  BY <1>3, <1>4, <1>6 DEF IInv, RecordsTellTruth, Alive, process, resuming
<1> QED
  BY <1>7, <1>8, <1>9, <1>10, <1>11, <1>12, <1>13, <1>14, <1>15 DEF IInv

(* A refused manual trigger only opens a settled record.                   *)
LEMMA TriggerSkippedKeepsIInv ==
  ASSUME IInv, NEW j \in Jobs, TriggerSkipped(j)
  PROVE  IInv'
<1> DEFINE r == lastRun + 1
<1> USE DEF IInv, TriggerSkipped, process, guards, resuming
<1>0. /\ r \in Runs /\ r = lastRun' /\ task[r] = "none" /\ resume[r] = "none" /\ r \notin pausedRuns
      /\ \A q \in Runs : q # r => disk'[q] = disk[q] /\ jobOf'[q] = jobOf[q]
      /\ disk'[r] = "skipped"
  BY LimitAssumption DEF TypeOK, Runs, UnbornIsAbsent
<1>1. TypeOK'
  BY <1>0 DEF TypeOK, Status, Runs
<1>2. DownIsIdle'
  BY DEF DownIsIdle
<1>3. UnbornIsAbsent'
  BY <1>0 DEF UnbornIsAbsent, TypeOK, Runs
<1>4. LiveHasJob'
  BY <1>0 DEF LiveHasJob
<1>5. FileOfPhase'
  BY <1>0 DEF FileOfPhase
<1>6. ReservationExact'
  <2>1. InFlight' = InFlight /\ \A q \in InFlight : jobOf'[q] = jobOf[q]
    BY <1>0 DEF InFlight
  <2> QED
    BY <2>1 DEF ReservationExact
<1>7. PermitsExact'
  <2>1. Holding' = Holding
    BY DEF Holding
  <2> QED
    BY <2>1, SamePermits
<1>8. OneExecutor'
  BY DEF OneExecutor
<1>9. RecordsTellTruth'
  BY <1>0 DEF RecordsTellTruth, Alive
<1> QED
  BY <1>1, <1>2, <1>3, <1>4, <1>5, <1>6, <1>7, <1>8, <1>9 DEF IInv

(* A task past the semaphore, with the agent invoked or refused.           *)
LEMMA StartRunKeepsIInv ==
  ASSUME IInv, NEW r \in Runs, StartRun(r)
  PROVE  IInv'
<1> USE DEF IInv, StartRun, process, resuming, created
<1>0. /\ Acquire(r, "agent") /\ task[r] = "queued" /\ task'[r] = "agent"
      /\ \A q \in Runs : q # r => task'[q] = task[q] /\ disk'[q] = disk[q]
      /\ disk'[r] = "running"
  BY DEF Acquire, TypeOK
<1>1. TypeOK'
  <2>1. semaphore' \in 0..MaxConcurrent
    BY <1>0, AcquireKeepsPermits
  <2>2. task' \in [Runs -> Phase] /\ disk' \in [Runs -> Status]
    BY DEF Acquire, TypeOK, Phase, Status
  <2> QED
    BY <2>1, <2>2 DEF TypeOK
<1>2. DownIsIdle'
  BY <1>0 DEF DownIsIdle, Acquire, Alive
<1>3. UnbornIsAbsent'
  BY <1>0 DEF UnbornIsAbsent
<1>4. LiveHasJob'
  BY <1>0 DEF LiveHasJob
<1>5. FileOfPhase'
  BY <1>0 DEF FileOfPhase, OneExecutor
<1>6. ReservationExact'
  <2>1. InFlight' = InFlight
    BY <1>0 DEF InFlight
  <2> QED
    BY <2>1 DEF ReservationExact
<1>7. PermitsExact'
  BY <1>0, AcquireKeepsPermits
<1>8. OneExecutor'
  BY <1>0 DEF OneExecutor
<1>9. RecordsTellTruth'
  BY <1>0 DEF RecordsTellTruth, Alive
<1> QED
  BY <1>1, <1>2, <1>3, <1>4, <1>5, <1>6, <1>7, <1>8, <1>9 DEF IInv

LEMMA RefuseRunKeepsIInv ==
  ASSUME IInv, NEW r \in Runs, RefuseRun(r)
  PROVE  IInv'
<1> USE DEF IInv, RefuseRun, process, resuming
<1>0. /\ Acquire(r, "deliver") /\ task[r] = "queued" /\ task'[r] = "deliver"
      /\ \A q \in Runs : q # r => task'[q] = task[q] /\ disk'[q] = disk[q]
      /\ disk'[r] \in {"failed", "skipped"}
  BY DEF Acquire, TypeOK
<1>1. TypeOK'
  <2>1. semaphore' \in 0..MaxConcurrent
    BY <1>0, AcquireKeepsPermits
  <2>2. task' \in [Runs -> Phase] /\ disk' \in [Runs -> Status]
    BY DEF Acquire, TypeOK, Phase, Status
  <2> QED
    BY <1>0, <2>1, <2>2, RecordType DEF TypeOK
<1>2. DownIsIdle'
  BY <1>0 DEF DownIsIdle, Acquire, Alive
<1>3. UnbornIsAbsent'
  BY <1>0 DEF UnbornIsAbsent
<1>4. LiveHasJob'
  BY <1>0, RecordType DEF LiveHasJob
<1>5. FileOfPhase'
  BY <1>0 DEF FileOfPhase, OneExecutor
<1>6. ReservationExact'
  <2>1. InFlight' = InFlight
    BY <1>0 DEF InFlight
  <2> QED
    BY <2>1 DEF ReservationExact
<1>7. PermitsExact'
  BY <1>0, AcquireKeepsPermits
<1>8. OneExecutor'
  BY <1>0 DEF OneExecutor
<1>9. RecordsTellTruth'
  BY <1>0 DEF RecordsTellTruth, Alive
<1> QED
  BY <1>1, <1>2, <1>3, <1>4, <1>5, <1>6, <1>7, <1>8, <1>9 DEF IInv

(* A task that holds the permit: its agent ends, pauses, delivers.          *)
LEMMA EndAgentKeepsIInv ==
  ASSUME IInv, NEW r \in Runs, EndAgent(r)
  PROVE  IInv'
<1> USE DEF IInv, EndAgent, Outcomes, process, resuming
<1>0. /\ task[r] = "agent" /\ task'[r] = "deliver" /\ disk'[r] \in {"completed", "failed"}
      /\ \A q \in Runs : q # r => task'[q] = task[q] /\ disk'[q] = disk[q]
  BY DEF TypeOK
<1>1. TypeOK'
  <2>1. task' \in [Runs -> Phase] /\ disk' \in [Runs -> Status]
    BY DEF TypeOK, Phase, Status
  <2> QED
    BY <1>0, <2>1, RecordType DEF TypeOK
<1>2. DownIsIdle'
  BY <1>0 DEF DownIsIdle
<1>3. UnbornIsAbsent'
  BY <1>0 DEF UnbornIsAbsent
<1>4. LiveHasJob'
  BY <1>0, RecordType DEF LiveHasJob
<1>5. FileOfPhase'
  BY <1>0 DEF FileOfPhase, OneExecutor
<1>6. ReservationExact'
  <2>1. InFlight' = InFlight
    BY <1>0 DEF InFlight
  <2> QED
    BY <2>1 DEF ReservationExact
<1>7. PermitsExact'
  <2>1. Holding' = Holding
    BY <1>0 DEF Holding
  <2> QED
    BY <2>1, SamePermits
<1>8. OneExecutor'
  BY <1>0 DEF OneExecutor
<1>9. RecordsTellTruth'
  BY <1>0 DEF RecordsTellTruth, Alive, OneExecutor
<1> QED
  BY <1>1, <1>2, <1>3, <1>4, <1>5, <1>6, <1>7, <1>8, <1>9 DEF IInv

LEMMA PauseRunKeepsIInv ==
  ASSUME IInv, NEW r \in Runs, PauseRun(r)
  PROVE  IInv'
<1> USE DEF IInv, PauseRun, process, guards
<1>0. /\ task[r] = "agent" /\ task'[r] = "none" /\ disk'[r] = "paused" /\ Release(r)
      /\ \A q \in Runs : q # r => task'[q] = task[q] /\ disk'[q] = disk[q]
      /\ pausedRuns' = pausedRuns \cup {r} /\ resume[r] = "none"
  BY DEF TypeOK, Release, OneExecutor
<1>1. TypeOK'
  <2>1. task' \in [Runs -> Phase] /\ disk' \in [Runs -> Status] /\ runningJobs' \subseteq Jobs
    BY DEF TypeOK, Phase, Status, Release
  <2>2. semaphore' \in 0..MaxConcurrent
    BY <1>0, ReleaseKeepsPermits
  <2> QED
    BY <1>0, <2>1, <2>2, RecordType DEF TypeOK
<1>2. DownIsIdle'
  BY <1>0 DEF DownIsIdle
<1>3. UnbornIsAbsent'
  BY <1>0 DEF UnbornIsAbsent
<1>4. LiveHasJob'
  BY <1>0, RecordType DEF LiveHasJob
<1>5. FileOfPhase'
  BY <1>0 DEF FileOfPhase, OneExecutor
<1>6. ReservationExact'
  <2>1. InFlight' = InFlight \ {r} /\ r \in InFlight
    BY <1>0 DEF InFlight
  <2> QED
    BY <1>0, <2>1 DEF ReservationExact, Release
<1>7. PermitsExact'
  BY <1>0, ReleaseKeepsPermits
<1>8. OneExecutor'
  BY <1>0 DEF OneExecutor
<1>9. RecordsTellTruth'
  BY <1>0 DEF RecordsTellTruth, Alive, OneExecutor
<1> QED
  BY <1>1, <1>2, <1>3, <1>4, <1>5, <1>6, <1>7, <1>8, <1>9 DEF IInv

LEMMA EndDeliveryKeepsIInv ==
  ASSUME IInv, NEW r \in Runs, EndDelivery(r)
  PROVE  IInv'
<1> USE DEF IInv, EndDelivery, process, resuming, files
<1>0. /\ task[r] = "deliver" /\ task'[r] = "none" /\ Release(r)
      /\ \A q \in Runs : q # r => task'[q] = task[q] /\ snap'[q] = snap[q]
      /\ r \notin pausedRuns /\ resume[r] = "none"
  BY DEF TypeOK, Release, OneExecutor
<1>1. TypeOK'
  <2>1. task' \in [Runs -> Phase] /\ runningJobs' \subseteq Jobs
        /\ snap' \in [Runs -> JobRecord \cup {NoJob}]
    BY DEF TypeOK, Phase, Release
  <2>2. semaphore' \in 0..MaxConcurrent
    BY <1>0, ReleaseKeepsPermits
  <2> QED
    BY <2>1, <2>2 DEF TypeOK
<1>2. DownIsIdle'
  BY <1>0 DEF DownIsIdle
<1>3. UnbornIsAbsent'
  BY <1>0 DEF UnbornIsAbsent
<1>4. LiveHasJob'
  BY <1>0 DEF LiveHasJob
<1>5. FileOfPhase'
  BY <1>0 DEF FileOfPhase, OneExecutor
<1>6. ReservationExact'
  <2>1. InFlight' = InFlight \ {r} /\ r \in InFlight
    BY <1>0 DEF InFlight
  <2> QED
    BY <1>0, <2>1 DEF ReservationExact, Release
<1>7. PermitsExact'
  BY <1>0, ReleaseKeepsPermits
<1>8. OneExecutor'
  BY <1>0 DEF OneExecutor
<1>9. RecordsTellTruth'
  BY <1>0 DEF RecordsTellTruth, Alive, OneExecutor
<1> QED
  BY <1>1, <1>2, <1>3, <1>4, <1>5, <1>6, <1>7, <1>8, <1>9 DEF IInv

(* A resume takes the parked graph, and ends, parks again or delivers.      *)
LEMMA StartResumeKeepsIInv ==
  ASSUME IInv, NEW r \in Runs, StartResume(r)
  PROVE  IInv'
<1> USE DEF IInv, StartResume, process, guards, created
<1>0. /\ r \in pausedRuns /\ pausedRuns' = pausedRuns \ {r} /\ task[r] = "none"
      /\ resume'[r] = "agent" /\ disk'[r] = "running"
      /\ \A q \in Runs : q # r => resume'[q] = resume[q] /\ disk'[q] = disk[q]
  BY DEF TypeOK, OneExecutor
<1>1. TypeOK'
  <2>1. resume' \in [Runs -> Phase \ {"queued"}] /\ disk' \in [Runs -> Status]
    BY DEF TypeOK, Phase, Status
  <2>2. posts' \in [Runs -> Nat] /\ resumes' \in [Runs -> Nat]
    BY DEF TypeOK
  <2> QED
    BY <1>0, <2>1, <2>2 DEF TypeOK
<1>2. DownIsIdle'
  BY <1>0 DEF DownIsIdle
<1>3. UnbornIsAbsent'
  BY <1>0 DEF UnbornIsAbsent
<1>4. LiveHasJob'
  BY <1>0 DEF LiveHasJob
<1>5. FileOfPhase'
  BY <1>0 DEF FileOfPhase, OneExecutor
<1>6. ReservationExact'
  <2>1. InFlight' = InFlight
    BY <1>0 DEF InFlight
  <2> QED
    BY <2>1 DEF ReservationExact
<1>7. PermitsExact'
  <2>1. Holding' = Holding
    BY <1>0 DEF Holding
  <2> QED
    BY <2>1, SamePermits
<1>8. OneExecutor'
  BY <1>0 DEF OneExecutor
<1>9. RecordsTellTruth'
  BY <1>0 DEF RecordsTellTruth, Alive, OneExecutor
<1> QED
  BY <1>1, <1>2, <1>3, <1>4, <1>5, <1>6, <1>7, <1>8, <1>9 DEF IInv

LEMMA EndResumeKeepsIInv ==
  ASSUME IInv, NEW r \in Runs, EndResume(r)
  PROVE  IInv'
<1> USE DEF IInv, EndResume, Outcomes, process, guards
<1>0. /\ resume[r] = "agent" /\ resume'[r] = "deliver" /\ disk'[r] \in {"completed", "failed"}
      /\ \A q \in Runs : q # r => resume'[q] = resume[q] /\ disk'[q] = disk[q]
      /\ r \notin pausedRuns /\ task[r] = "none"
  BY DEF TypeOK, OneExecutor
<1>1. TypeOK'
  <2>1. resume' \in [Runs -> Phase \ {"queued"}] /\ disk' \in [Runs -> Status]
    BY DEF TypeOK, Phase, Status
  <2> QED
    BY <1>0, <2>1, RecordType DEF TypeOK
<1>2. DownIsIdle'
  BY <1>0 DEF DownIsIdle
<1>3. UnbornIsAbsent'
  BY <1>0 DEF UnbornIsAbsent
<1>4. LiveHasJob'
  BY <1>0, RecordType DEF LiveHasJob
<1>5. FileOfPhase'
  BY <1>0 DEF FileOfPhase, OneExecutor
<1>6. ReservationExact'
  <2>1. InFlight' = InFlight
    BY <1>0 DEF InFlight
  <2> QED
    BY <2>1 DEF ReservationExact
<1>7. PermitsExact'
  <2>1. Holding' = Holding
    BY <1>0 DEF Holding
  <2> QED
    BY <2>1, SamePermits
<1>8. OneExecutor'
  BY <1>0 DEF OneExecutor
<1>9. RecordsTellTruth'
  BY <1>0 DEF RecordsTellTruth, Alive, OneExecutor
<1> QED
  BY <1>1, <1>2, <1>3, <1>4, <1>5, <1>6, <1>7, <1>8, <1>9 DEF IInv

LEMMA PauseAgainKeepsIInv ==
  ASSUME IInv, NEW r \in Runs, PauseAgain(r)
  PROVE  IInv'
<1> USE DEF IInv, PauseAgain, process, guards
<1>0. /\ resume[r] = "agent" /\ resume'[r] = "none" /\ disk'[r] = "paused"
      /\ \A q \in Runs : q # r => resume'[q] = resume[q] /\ disk'[q] = disk[q]
      /\ pausedRuns' = pausedRuns \cup {r} /\ task[r] = "none"
  BY DEF TypeOK, OneExecutor
<1>1. TypeOK'
  <2>1. resume' \in [Runs -> Phase \ {"queued"}] /\ disk' \in [Runs -> Status]
    BY DEF TypeOK, Phase, Status
  <2> QED
    BY <1>0, <2>1, RecordType DEF TypeOK
<1>2. DownIsIdle'
  BY <1>0 DEF DownIsIdle
<1>3. UnbornIsAbsent'
  BY <1>0 DEF UnbornIsAbsent
<1>4. LiveHasJob'
  BY <1>0, RecordType DEF LiveHasJob
<1>5. FileOfPhase'
  BY <1>0 DEF FileOfPhase, OneExecutor
<1>6. ReservationExact'
  <2>1. InFlight' = InFlight
    BY <1>0 DEF InFlight
  <2> QED
    BY <2>1 DEF ReservationExact
<1>7. PermitsExact'
  <2>1. Holding' = Holding
    BY <1>0 DEF Holding
  <2> QED
    BY <2>1, SamePermits
<1>8. OneExecutor'
  BY <1>0 DEF OneExecutor
<1>9. RecordsTellTruth'
  BY <1>0 DEF RecordsTellTruth, Alive, OneExecutor
<1> QED
  BY <1>1, <1>2, <1>3, <1>4, <1>5, <1>6, <1>7, <1>8, <1>9 DEF IInv

LEMMA EndResumeDeliveryKeepsIInv ==
  ASSUME IInv, NEW r \in Runs, EndResumeDelivery(r)
  PROVE  IInv'
<1> USE DEF IInv, EndResumeDelivery, process, guards, files
<1>0. /\ resume[r] = "deliver" /\ resume'[r] = "none"
      /\ \A q \in Runs : q # r => resume'[q] = resume[q] /\ snap'[q] = snap[q]
      /\ r \notin pausedRuns /\ task[r] = "none"
  BY DEF TypeOK, OneExecutor
<1>1. TypeOK'
  <2>1. resume' \in [Runs -> Phase \ {"queued"}] /\ snap' \in [Runs -> JobRecord \cup {NoJob}]
    BY DEF TypeOK, Phase
  <2> QED
    BY <2>1 DEF TypeOK
<1>2. DownIsIdle'
  BY <1>0 DEF DownIsIdle
<1>3. UnbornIsAbsent'
  BY <1>0 DEF UnbornIsAbsent
<1>4. LiveHasJob'
  BY <1>0 DEF LiveHasJob
<1>5. FileOfPhase'
  BY <1>0 DEF FileOfPhase, OneExecutor
<1>6. ReservationExact'
  <2>1. InFlight' = InFlight
    BY <1>0 DEF InFlight
  <2> QED
    BY <2>1 DEF ReservationExact
<1>7. PermitsExact'
  <2>1. Holding' = Holding
    BY <1>0 DEF Holding
  <2> QED
    BY <2>1, SamePermits
<1>8. OneExecutor'
  BY <1>0 DEF OneExecutor
<1>9. RecordsTellTruth'
  BY <1>0 DEF RecordsTellTruth, Alive, OneExecutor
<1> QED
  BY <1>1, <1>2, <1>3, <1>4, <1>5, <1>6, <1>7, <1>8, <1>9 DEF IInv

(* Steps that leave every run where it is: resume requests, job edits, and *)
(* a living process moving towards its stop.                               *)
LEMMA FrameKeepsIInv ==
  ASSUME IInv, TypeOK', (stage' = "down") <=> (stage = "down"),
         UNCHANGED <<bootMark, guards, pausedRuns, resume, created, disk>>
  PROVE  IInv'
<1> USE DEF IInv, guards, created
<1>1. DownIsIdle' /\ UnbornIsAbsent' /\ LiveHasJob' /\ FileOfPhase'
  BY DEF DownIsIdle, UnbornIsAbsent, LiveHasJob, FileOfPhase
<1>2. ReservationExact' /\ OneExecutor' /\ RecordsTellTruth'
  BY DEF ReservationExact, InFlight, OneExecutor, RecordsTellTruth, Alive
<1>3. PermitsExact'
  BY SamePermits DEF Holding
<1> QED
  BY <1>1, <1>2, <1>3

LEMMA EditKeepsIInv ==
  ASSUME IInv, NEW j \in Jobs, CreateJob(j) \/ SetEnabled(j) \/ DeleteJob(j)
  PROVE  IInv'
<1> DEFINE Same == UNCHANGED <<process, guards, resuming, created, disk>>
<1>1. Same /\ store' \in [Jobs -> JobRecord \cup {NoJob}] /\ deleted' \subseteq Jobs
  <2>1. CASE CreateJob(j)
    BY <2>1 DEF CreateJob, IInv, TypeOK, JobRecord
  <2>2. CASE SetEnabled(j)
    <3>1. store[j] \in JobRecord
      BY <2>2 DEF SetEnabled, IInv, TypeOK
    <3>2. [store[j] EXCEPT !.enabled = ~@] \in JobRecord
      BY <3>1 DEF JobRecord
    <3>3. store' = [store EXCEPT ![j] = [store[j] EXCEPT !.enabled = ~@]]
      BY <2>2 DEF SetEnabled
    <3> QED
      BY <2>2, <3>2, <3>3 DEF SetEnabled, IInv, TypeOK
  <2>3. CASE DeleteJob(j)
    BY <2>3 DEF DeleteJob, IInv, TypeOK
  <2> QED
    BY <2>1, <2>2, <2>3
<1>2. TypeOK'
  BY <1>1 DEF IInv, TypeOK, process, guards, resuming, created
<1> QED
  BY <1>1, <1>2, FrameKeepsIInv DEF process, resuming

LEMMA RequestKeepsIInv ==
  ASSUME IInv, NEW r \in Runs, PostResume(r) \/ LoseResume(r)
  PROVE  IInv'
<1>1. posts' \in [Runs -> Nat]
  BY DEF PostResume, LoseResume, IInv, TypeOK
<1>2. UNCHANGED <<process, guards, pausedRuns, resume, resumes, created, files>>
  BY DEF PostResume, LoseResume
<1>3. TypeOK'
  BY <1>1, <1>2 DEF IInv, TypeOK, process, guards, created, files
<1> QED
  BY <1>2, <1>3, FrameKeepsIInv DEF process, files

LEMMA StoppingKeepsIInv ==
  ASSUME IInv, Drain \/ RequestShutdown \/ Signal \/ ServerExits
  PROVE  IInv'
<1>1. /\ UNCHANGED <<boots, bootMark, guards, resuming, created, files>>
      /\ stage' \in {"up", "closing", "waiting", "headless"} /\ stage # "down"
      /\ looping' \in BOOLEAN /\ draining' \in BOOLEAN
  BY DEF Drain, RequestShutdown, Signal, ServerExits, Serving, IInv, TypeOK
<1>2. TypeOK'
  BY <1>1 DEF IInv, TypeOK, guards, resuming, created, files
<1>3. UNCHANGED <<bootMark, guards, pausedRuns, resume, created, disk>>
  BY <1>1 DEF resuming, files
<1>4. (stage' = "down") <=> (stage = "down")
  BY <1>1
<1> QED
  BY <1>2, <1>3, <1>4, FrameKeepsIInv

(* Whatever the last writes to the files were, a process's end leaves      *)
(* nothing in memory.                                                      *)
LEMMA LoseMemoryKeepsIInv ==
  ASSUME IInv, LoseMemory,
         store' \in [Jobs -> JobRecord \cup {NoJob}], disk' \in [Runs -> Status],
         \A r \in Runs : disk[r] = "absent" => disk'[r] = "absent"
  PROVE  IInv'
<1> USE DEF IInv, LoseMemory
<1>1. TypeOK'
  <2>1. stage' = "down" /\ looping' \in BOOLEAN /\ draining' \in BOOLEAN
    BY Zenon
  <2>2. /\ semaphore' \in 0..MaxConcurrent
        /\ task' \in [Runs -> Phase] /\ resume' \in [Runs -> Phase \ {"queued"}]
        /\ posts' \in [Runs -> Nat] /\ snap' \in [Runs -> JobRecord \cup {NoJob}]
    BY LimitAssumption DEF Phase
  <2> QED
    BY <2>1, <2>2 DEF TypeOK
<1>2. DownIsIdle'
  BY DEF DownIsIdle
<1>3. UnbornIsAbsent'
  BY DEF UnbornIsAbsent
<1>4. LiveHasJob'
  BY DEF LiveHasJob
<1>5. FileOfPhase'
  BY DEF FileOfPhase
<1>6. ReservationExact'
  BY DEF ReservationExact, InFlight
<1>7. PermitsExact'
  <2>1. Holding' = {}
    BY DEF Holding
  <2> QED
    BY <2>1, FS_EmptySet, LimitAssumption DEF PermitsExact
<1>8. OneExecutor'
  BY DEF OneExecutor
<1>9. RecordsTellTruth'
  BY DEF RecordsTellTruth, Alive
<1> QED
  BY <1>1, <1>2, <1>3, <1>4, <1>5, <1>6, <1>7, <1>8, <1>9 DEF IInv

LEMMA EndingKeepsIInv ==
  ASSUME IInv, FinishShutdown \/ Crash \/ \E r \in Runs : CrashMidFinish(r)
  PROVE  IInv'
<1>1. CASE FinishShutdown
  <2>1. disk' \in [Runs -> Status] /\ UNCHANGED store
    BY <1>1 DEF FinishShutdown, IInv, TypeOK, Status
  <2>2. \A r \in Runs : disk[r] = "absent" => disk'[r] = "absent"
    BY <1>1 DEF FinishShutdown, IInv, FileOfPhase
  <2> QED
    BY <1>1, <2>1, <2>2, LoseMemoryKeepsIInv DEF FinishShutdown, IInv, TypeOK
<1>2. CASE Crash
  BY <1>2, LoseMemoryKeepsIInv DEF Crash, IInv, TypeOK
<1>3. CASE \E r \in Runs : CrashMidFinish(r)
  <2>1. PICK r \in Runs : CrashMidFinish(r)
    BY <1>3
  <2>2. jobOf[r] \in Jobs /\ snap[r] \in JobRecord
    BY <2>1 DEF CrashMidFinish, IInv, LiveHasJob
  <2>3. store' \in [Jobs -> JobRecord \cup {NoJob}]
    BY <2>1, <2>2, MergedType DEF CrashMidFinish, IInv
  <2> QED
    BY <2>1, <2>3, LoseMemoryKeepsIInv DEF CrashMidFinish, IInv, TypeOK
<1> QED
  BY <1>1, <1>2, <1>3

(* A start fails the orphans before anything else, so the new process      *)
(* begins with files that tell the truth.                                  *)
LEMMA StartingKeepsIInv ==
  ASSUME IInv, Boot \/ CrashMidBoot
  PROVE  IInv'
<1> USE DEF IInv, guards, resuming, created
<1>1. PICK F \in SUBSET Orphans : Reconcile(F)
  BY DEF Boot, CrashMidBoot
<1>2. /\ stage = "down" /\ bootMark' \in {bootMark, lastRun}
      /\ UNCHANGED <<draining, guards, resuming, created, store, deleted>>
  BY DEF Boot, CrashMidBoot
<1>3. \A r \in Runs : disk'[r] = disk[r] \/ (disk[r] = "running" /\ disk'[r] = "failed")
  BY <1>1 DEF Reconcile, Orphans
<1>4. TypeOK'
  <2>1. disk' \in [Runs -> Status]
    BY <1>1 DEF Reconcile, TypeOK, Status
  <2>2. stage' \in {"up", "down"} /\ looping' \in BOOLEAN
    BY <1>2, Zenon DEF Boot, CrashMidBoot, TypeOK
  <2>3. boots' \in Nat /\ bootMark' \in 0..RunLimit
    <3>1. boots' = boots + 1 /\ boots \in Nat /\ bootMark \in 0..RunLimit /\ lastRun \in 0..RunLimit
      BY DEF Boot, CrashMidBoot, TypeOK
    <3> QED
      BY <1>2, <3>1
  <2> QED
    BY <1>2, <2>1, <2>2, <2>3 DEF TypeOK
<1>5. /\ runningJobs' = {} /\ pausedRuns' = {}
      /\ \A r \in Runs : task'[r] = "none" /\ resume'[r] = "none"
  BY <1>2 DEF DownIsIdle
<1>6. DownIsIdle' /\ LiveHasJob' /\ FileOfPhase' /\ OneExecutor'
  BY <1>5 DEF DownIsIdle, LiveHasJob, FileOfPhase, OneExecutor
<1>7. UnbornIsAbsent'
  BY <1>2, <1>3, <1>5 DEF UnbornIsAbsent, TypeOK
<1>8. ReservationExact' /\ PermitsExact'
  <2>1. InFlight' = {} /\ Holding' = Holding
    BY <1>2, <1>5 DEF InFlight, Holding
  <2> QED
    BY <1>2, <1>5, <2>1, SamePermits DEF ReservationExact
<1>9. RecordsTellTruth'
  <2>1. CASE Boot
    <3>1. \A r \in Runs : disk'[r] # "running" /\ (r > bootMark' => disk'[r] # "paused")
      <4>1. \A r \in Runs : disk'[r] = IF disk[r] = "running" THEN "failed" ELSE disk[r]
        BY <2>1 DEF Boot, Reconcile, Orphans
      <4>2. bootMark' = lastRun /\ \A r \in Runs : r > lastRun => disk[r] = "absent"
        BY <2>1 DEF Boot, UnbornIsAbsent
      <4> QED
        BY <4>1, <4>2
    <3> QED
      BY <3>1 DEF RecordsTellTruth
  <2>2. CASE CrashMidBoot
    BY <1>2, <2>2 DEF CrashMidBoot, RecordsTellTruth, Alive
  <2> QED
    BY <2>1, <2>2
<1> QED
  BY <1>4, <1>6, <1>7, <1>8, <1>9

(* A pass over the jobs launches a non-empty list of distinct jobs of S.   *)
LEMMA OrderIsList ==
  ASSUME NEW S, NEW q \in Orders(S)
  PROVE  \E n \in Nat \ {0} : q \in [1..n -> S] /\ \A a, b \in 1..n : q[a] = q[b] => a = b
<1>1. PICK n \in 1..Cardinality(S) : q \in [1..n -> S]
  BY DEF Orders
<1>2. n \in Nat \ {0} /\ DOMAIN q = 1..n
  BY <1>1
<1> QED
  BY <1>1, <1>2 DEF Orders

LEMMA LaunchingKeepsIInv ==
  ASSUME IInv, Tick \/ ReceiveEvent \/ \E j \in Jobs : TriggerManual(j)
  PROVE  IInv'
<1>1. CASE Tick \/ ReceiveEvent
  <2>1. PICK q \in Orders(Accepted) : Launch(q)
    BY <1>1 DEF Tick, ReceiveEvent
  <2>2. /\ Alive /\ UNCHANGED <<process, semaphore, resuming, files>>
    BY <1>1 DEF Tick, ReceiveEvent, Serving, Alive
  <2>3. PICK n \in Nat \ {0} :
          q \in [1..n -> Accepted] /\ \A a, b \in 1..n : q[a] = q[b] => a = b
    BY <2>1, OrderIsList
  <2>4. \A i \in 1..n : q[i] \in Jobs /\ q[i] \notin runningJobs /\ store[q[i]] # NoJob
    BY <2>3 DEF Accepted, Admits, Enabled
  <2>5. q \in [1..n -> Jobs]
    BY <2>3 DEF Accepted
  <2>6. UNCHANGED <<process, semaphore, resuming, store, deleted>> /\ disk' = disk
    BY <2>2 DEF files
  <2> QED
    BY <2>1, <2>2, <2>3, <2>4, <2>5, <2>6, LaunchKeepsIInv
<1>2. ASSUME NEW j \in Jobs, TriggerManual(j) PROVE IInv'
  <2> DEFINE q == <<j>>
  <2>1. /\ Launch(q) /\ Alive /\ j \notin runningJobs /\ store[j] # NoJob
        /\ UNCHANGED <<process, semaphore, resuming, store, deleted>>
        /\ disk' = [disk EXCEPT ![lastRun + 1] = "running"]
    BY <1>2 DEF TriggerManual, Admits, Serving, Alive
  <2>2. /\ q \in [1..1 -> Jobs]
        /\ \A a, b \in 1..1 : q[a] = q[b] => a = b
        /\ \A i \in 1..1 : q[i] \notin runningJobs /\ store[q[i]] # NoJob
    BY <2>1
  <2>3. 1 \in Nat \ {0}
    OBVIOUS
  <2> HIDE DEF q
  <2> QED
    BY <2>1, <2>2, <2>3, LaunchKeepsIInv
<1> QED
  BY <1>1, <1>2

-----------------------------------------------------------------------------
(* The invariant *)

LEMMA InitIInv == Init => IInv
<1> SUFFICES ASSUME Init PROVE IInv
  OBVIOUS
<1> USE DEF Init
<1>1. TypeOK
  <2>1. looping \in BOOLEAN /\ draining \in BOOLEAN
    BY Zenon
  <2> QED
    BY <2>1, LimitAssumption DEF TypeOK, Phase, Status
<1>2. DownIsIdle /\ UnbornIsAbsent /\ LiveHasJob /\ FileOfPhase
  BY DEF DownIsIdle, UnbornIsAbsent, LiveHasJob, FileOfPhase
<1>3. ReservationExact /\ OneExecutor /\ RecordsTellTruth
  BY DEF ReservationExact, InFlight, OneExecutor, RecordsTellTruth, Alive
<1>4. PermitsExact
  <2>1. Holding = {}
    BY DEF Holding
  <2> QED
    BY <2>1, FS_EmptySet, LimitAssumption DEF PermitsExact
<1> QED
  BY <1>1, <1>2, <1>3, <1>4 DEF IInv

LEMMA NextIInv == IInv /\ [Next]_vars => IInv'
<1> SUFFICES ASSUME IInv, [Next]_vars PROVE IInv'
  OBVIOUS
<1>1. CASE Tick \/ ReceiveEvent
  BY <1>1, LaunchingKeepsIInv
<1>2. ASSUME NEW j \in Jobs, JobStep(j) PROVE IInv'
  BY <1>2, LaunchingKeepsIInv, TriggerSkippedKeepsIInv, EditKeepsIInv DEF JobStep
<1>3. ASSUME NEW r \in Runs, RunStep(r) PROVE IInv'
  <2>1. CASE TaskStep(r)
    BY <2>1, StartRunKeepsIInv, RefuseRunKeepsIInv, EndAgentKeepsIInv, PauseRunKeepsIInv,
       EndDeliveryKeepsIInv DEF TaskStep
  <2>2. CASE PostResume(r) \/ OpenResume(r)
    BY <2>2, RequestKeepsIInv, StartResumeKeepsIInv DEF OpenResume
  <2>3. CASE ResumeStep(r)
    BY <2>3, EndResumeKeepsIInv, PauseAgainKeepsIInv, EndResumeDeliveryKeepsIInv DEF ResumeStep
  <2>4. CASE CrashMidFinish(r)
    BY <2>4, EndingKeepsIInv
  <2> QED
    BY <1>3, <2>1, <2>2, <2>3, <2>4 DEF RunStep
<1>4. CASE ProcessStep
  BY <1>4, StoppingKeepsIInv, EndingKeepsIInv, StartingKeepsIInv DEF ProcessStep
<1>5. CASE UNCHANGED vars
  <2>1. TypeOK'
    BY <1>5 DEF IInv, TypeOK, vars, process, guards, resuming, created, files
  <2> QED
    BY <1>5, <2>1, FrameKeepsIInv DEF vars, process, resuming, files
<1> QED
  BY <1>1, <1>2, <1>3, <1>4, <1>5 DEF Next

(* The inductive invariant holds of every behaviour of the daemon.         *)
THEOREM Invariance == Spec => []IInv
BY InitIInv, NextIInv, PTL DEF Spec

-----------------------------------------------------------------------------
(* The theorems *)

(* Every variable keeps its type: in particular a permit is never returned *)
(* twice, and a job's record stays one through merges and insertions.      *)
THEOREM TypeCorrect == Spec => []TypeOK
BY Invariance, PTL DEF IInv

(* The scheduler's reservation set is exactly the jobs of its live tasks,  *)
(* one task for each.                                                      *)
THEOREM ReservationsAreExact == Spec => []ReservationExact
BY Invariance, PTL DEF IInv

(* Semaphore permits are neither lost nor made up.                         *)
THEOREM PermitsAreExact == Spec => []PermitsExact
BY Invariance, PTL DEF IInv

(* A run's agent never has two executors, scheduler task or resume.        *)
THEOREM ExecutorsAreUnique == Spec => []OneExecutor
BY Invariance, PTL DEF IInv

(* A serving daemon's run files tell the truth about its runs.             *)
THEOREM RecordsAreTrue == Spec => []RecordsTellTruth
BY Invariance, PTL DEF IInv

(* Merging a result adds one to the count and never enables a job.         *)
LEMMA MergedCounts ==
  ASSUME TypeOK, NEW r \in Runs, jobOf[r] \in Jobs, store' = Merged(r),
         NEW j \in Jobs, store[j] # NoJob
  PROVE  /\ store'[j].count >= store[j].count
         /\ store'[j].enabled => store[j].enabled
<1>1. store[j] \in JobRecord
  BY DEF TypeOK
<1>2. CASE j # jobOf[r]
  <2>1. store'[j] = store[j]
    BY <1>2 DEF Merged, TypeOK
  <2> QED
    BY <1>1, <2>1 DEF JobRecord
<1>3. CASE j = jobOf[r]
  <2> DEFINE rec == Counted(store[j])
             e   == rec.enabled /\ ~CapReached(j, rec)
  <2>1. store'[j] = [rec EXCEPT !.enabled = e]
    BY <1>3 DEF Merged, TypeOK
  <2>2. rec.count = store[j].count + 1 /\ rec.enabled = store[j].enabled /\ rec \in JobRecord
    BY <1>1, CountedType DEF Counted, JobRecord
  <2>3. e => store[j].enabled
    BY <2>2, Zenon
  <2> HIDE DEF rec, e
  <2>4. store'[j].count = rec.count /\ store'[j].enabled = e
    BY <2>1, <2>2 DEF JobRecord
  <2>5. store'[j].count >= store[j].count
    BY <1>1, <2>2, <2>4 DEF JobRecord
  <2> QED
    BY <2>3, <2>4, <2>5, Zenon
<1> QED
  BY <1>2, <1>3

(* No step enables a job while it counts an attempt of it, and no step     *)
(* takes an attempt back.                                                  *)
LEMMA StepLosesNoUpdate ==
  ASSUME IInv, [Next]_vars, NEW j \in Jobs, store[j] # NoJob, store'[j] # NoJob
  PROVE  /\ store'[j].count >= store[j].count
         /\ store'[j].count > store[j].count /\ store'[j].enabled => store[j].enabled
<1>1. store[j] \in JobRecord
  BY DEF IInv, TypeOK
<1>2. CASE \E r \in Runs : RecordResult(r) /\ jobOf[r] \in Jobs
  BY <1>2, MergedCounts DEF RecordResult, IInv
<1>3. CASE \E r \in Runs : CrashMidFinish(r)
  <2>1. PICK r \in Runs : CrashMidFinish(r)
    BY <1>3
  <2>2. jobOf[r] \in Jobs /\ store' = Merged(r)
    BY <2>1 DEF CrashMidFinish, IInv, LiveHasJob
  <2> QED
    BY <2>2, MergedCounts DEF IInv
<1>4. CASE store' = store
  BY <1>1, <1>4 DEF JobRecord
<1>5. CASE \E k \in Jobs : CreateJob(k) \/ SetEnabled(k) \/ DeleteJob(k)
  <2>1. PICK k \in Jobs : CreateJob(k) \/ SetEnabled(k) \/ DeleteJob(k)
    BY <1>5
  <2>2. CASE k # j
    <3>1. store'[j] = store[j]
      BY <2>1, <2>2 DEF CreateJob, SetEnabled, DeleteJob, IInv, TypeOK
    <3> QED
      BY <1>1, <3>1 DEF JobRecord
  <2>3. CASE k = j
    <3>1. SetEnabled(j)
      BY <2>1, <2>3 DEF CreateJob, DeleteJob, IInv, TypeOK
    <3>2. store'[j] = [store[j] EXCEPT !.enabled = ~@]
      BY <3>1 DEF SetEnabled, IInv, TypeOK
    <3>3. store'[j].count = store[j].count
      BY <1>1, <3>2 DEF JobRecord
    <3> QED
      BY <1>1, <3>3 DEF JobRecord
  <2> QED
    BY <2>2, <2>3
<1>6. ASSUME NEW r \in Runs, RunStep(r) PROVE store' = store \/ CrashMidFinish(r) \/ RecordResult(r)
  BY <1>6 DEF RunStep, TaskStep, OpenResume, ResumeStep, StartRun, RefuseRun, EndAgent, PauseRun,
     EndDelivery, PostResume, StartResume, LoseResume, EndResume, PauseAgain, EndResumeDelivery, files
<1>7. ASSUME NEW r \in Runs, RunStep(r), RecordResult(r)
      PROVE  store' = store \/ CrashMidFinish(r) \/ jobOf[r] \in Jobs
  <2>1. CASE task[r] # "none" \/ resume[r] # "none" \/ r \in pausedRuns
    BY <2>1 DEF IInv, LiveHasJob
  <2>2. CASE ~(task[r] # "none" \/ resume[r] # "none" \/ r \in pausedRuns)
    BY <1>7, <2>2 DEF RunStep, TaskStep, OpenResume, ResumeStep, StartRun, RefuseRun, EndAgent,
       PauseRun, EndDelivery, PostResume, StartResume, LoseResume, EndResume, PauseAgain,
       EndResumeDelivery, Acquire, files
  <2> QED
    BY <2>1, <2>2
<1>8. CASE \E r \in Runs : RunStep(r)
  BY <1>2, <1>3, <1>4, <1>6, <1>7, <1>8
<1>9. CASE \E k \in Jobs : JobStep(k)
  BY <1>4, <1>5, <1>9 DEF JobStep, TriggerManual, TriggerSkipped
<1>10. CASE Tick \/ ReceiveEvent \/ ProcessStep \/ UNCHANGED vars
  BY <1>4, <1>10 DEF Tick, ReceiveEvent, ProcessStep, Drain, RequestShutdown, Signal, ServerExits,
     FinishShutdown, Crash, Boot, CrashMidBoot, vars, files
<1> QED
  BY <1>8, <1>9, <1>10 DEF Next

(* A run's result never overwrites an edit or another run's count.         *)
THEOREM UpdatesSurvive == Spec => NoLostUpdate
<1>1. IInv /\ [Next]_vars => [\A j \in Jobs : store[j] # NoJob /\ store'[j] # NoJob =>
       /\ store'[j].count >= store[j].count
       /\ store'[j].count > store[j].count /\ store'[j].enabled => store[j].enabled]_vars
  BY StepLosesNoUpdate
<1> QED
  BY <1>1, Invariance, PTL DEF Spec, NoLostUpdate

(* A draining daemon launches nothing, so its tasks only become fewer.     *)
LEMMA StepLaunchesNothing ==
  ASSUME IInv, [Next]_vars, draining
  PROVE  InFlight' \subseteq InFlight
<1>1. CASE Tick \/ ReceiveEvent
  <2>1. PICK q \in Orders(Accepted) : TRUE
    BY <1>1 DEF Tick, ReceiveEvent
  <2>2. PICK n \in Nat \ {0} : q \in [1..n -> Accepted]
    BY <2>1, OrderIsList
  <2>3. Admits(q[1])
    BY <2>2 DEF Accepted
  <2> QED
    BY <2>3 DEF Admits
<1>2. ASSUME NEW j \in Jobs, JobStep(j) PROVE task' = task
  BY <1>2 DEF JobStep, TriggerManual, TriggerSkipped, CreateJob, SetEnabled, DeleteJob, Admits, guards
<1>3. ASSUME NEW r \in Runs, RunStep(r)
      PROVE  \/ task' = task
             \/ task[r] # "none" /\ \E p \in Phase : task' = [task EXCEPT ![r] = p]
             \/ task' = [q \in Runs |-> "none"]
  BY <1>3 DEF RunStep, TaskStep, OpenResume, ResumeStep, StartRun, RefuseRun, EndAgent, PauseRun,
     EndDelivery, PostResume, StartResume, LoseResume, EndResume, PauseAgain, EndResumeDelivery,
     CrashMidFinish, LoseMemory, Acquire, Release, Phase, guards
<1>4. CASE \E r \in Runs : RunStep(r)
  BY <1>3, <1>4 DEF InFlight, IInv, TypeOK
<1>5. CASE ProcessStep \/ UNCHANGED vars
  <2>1. task' = task \/ task' = [r \in Runs |-> "none"]
    BY <1>5 DEF ProcessStep, Drain, RequestShutdown, Signal, ServerExits, FinishShutdown, Crash,
       LoseMemory, Boot, CrashMidBoot, vars, guards
  <2> QED
    BY <2>1 DEF InFlight
<1> QED
  BY <1>1, <1>2, <1>4, <1>5 DEF Next, InFlight

(* The number the drain command polls never rises again.                   *)
THEOREM DrainsShrink == Spec => DrainShrinks
<1>1. IInv /\ [Next]_vars => [draining /\ draining' => InFlight' \subseteq InFlight]_vars
  BY StepLaunchesNothing
<1> QED
  BY <1>1, Invariance, PTL DEF Spec, DrainShrinks

-----------------------------------------------------------------------------
(* The run files implement RunLedger *)

(* One handler moves one record of a serving daemon.                       *)
LEMMA MoveServes ==
  ASSUME Alive, stage' = stage, NEW r \in Runs, NEW s,
         disk' = [disk EXCEPT ![r] = s],
         \/ disk[r] = "absent" /\ s \in {"running", "failed", "skipped"}
         \/ disk[r] = "running" /\ s \in {"completed", "failed", "skipped", "paused"}
         \/ disk[r] = "paused" /\ s = "running"
  PROVE  Ledger!Next
BY DEF Ledger!Next, Ledger!Serve, Ledger!Moves, Alive

(* A process that dies leaves its files as they are.                       *)
LEMMA DeathStops ==
  ASSUME TypeOK, Alive, ~Alive', UNCHANGED disk
  PROVE  Ledger!Next
<1> DEFINE C == {}
<1>1. C \in SUBSET {r \in Runs : disk[r] = "running"}
  OBVIOUS
<1>2. disk' = [r \in Runs |-> IF r \in C THEN "cancelled" ELSE disk[r]]
  BY DEF TypeOK
<1> HIDE DEF C
<1> QED
  BY <1>1, <1>2 DEF Ledger!Next, Ledger!Stop

(* A handler of a run writes what the ledger lets it write, or nothing.    *)
LEMMA RunStepKeepsLedger ==
  ASSUME IInv, NEW r \in Runs, RunStep(r)
  PROVE  Ledger!Next \/ UNCHANGED Ledger!vars
<1> USE DEF IInv
<1>1. ASSUME task[r] # "none" \/ resume[r] # "none" \/ r \in pausedRuns PROVE Alive
  BY <1>1 DEF DownIsIdle, Alive
<1>2. CASE StartRun(r)
  <2>1. disk[r] \in {"absent", "running"} /\ Alive /\ stage' = stage
    BY <1>2 DEF StartRun, Acquire, FileOfPhase, process
  <2>2. CASE disk[r] = "running"
    BY <1>2, <2>1, <2>2 DEF StartRun, TypeOK, Ledger!vars, Alive
  <2>3. CASE disk[r] = "absent"
    BY <1>2, <2>1, <2>3, MoveServes DEF StartRun
  <2> QED
    BY <2>1, <2>2, <2>3
<1>3. CASE RefuseRun(r)
  <2>1. disk[r] \in {"absent", "running"} /\ Alive /\ stage' = stage
    BY <1>3 DEF RefuseRun, Acquire, FileOfPhase, process
  <2>2. PICK s \in {"failed", "skipped"} : disk' = [disk EXCEPT ![r] = s]
    BY <1>3 DEF RefuseRun
  <2> QED
    BY <2>1, <2>2, MoveServes
<1>4. CASE EndAgent(r) \/ EndResume(r)
  <2>1. disk[r] = "running" /\ Alive /\ stage' = stage
    BY <1>1, <1>4 DEF EndAgent, EndResume, Outcomes, FileOfPhase, process
  <2>2. PICK s \in {"completed", "failed"} : disk' = [disk EXCEPT ![r] = s]
    BY <1>4 DEF EndAgent, EndResume, Outcomes
  <2> QED
    BY <2>1, <2>2, MoveServes
<1>5. CASE PauseRun(r) \/ PauseAgain(r)
  <2>1. disk[r] = "running" /\ Alive /\ stage' = stage
    BY <1>1, <1>5 DEF PauseRun, PauseAgain, FileOfPhase, process
  <2>2. disk' = [disk EXCEPT ![r] = "paused"]
    BY <1>5 DEF PauseRun, PauseAgain
  <2> QED
    BY <2>1, <2>2, MoveServes
<1>6. CASE StartResume(r)
  <2>1. disk[r] = "paused" /\ Alive /\ stage' = stage
    BY <1>1, <1>6 DEF StartResume, FileOfPhase, process
  <2> QED
    BY <1>6, <2>1, MoveServes DEF StartResume
<1>7. CASE EndDelivery(r) \/ PostResume(r) \/ LoseResume(r) \/ EndResumeDelivery(r)
  BY <1>7 DEF EndDelivery, PostResume, LoseResume, EndResumeDelivery, Ledger!vars, Alive, files, process
<1>8. CASE CrashMidFinish(r)
  <2>1. Alive /\ ~Alive' /\ UNCHANGED disk
    BY <1>1, <1>8 DEF CrashMidFinish, LoseMemory, Alive
  <2> QED
    BY <2>1, DeathStops DEF IInv
<1> QED
  BY <1>2, <1>3, <1>4, <1>5, <1>6, <1>7, <1>8 DEF RunStep, TaskStep, OpenResume, ResumeStep

LEMMA JobStepKeepsLedger ==
  ASSUME IInv, NEW j \in Jobs, JobStep(j)
  PROVE  Ledger!Next \/ UNCHANGED Ledger!vars
<1>1. CASE TriggerManual(j) \/ TriggerSkipped(j)
  <2>1. Alive /\ stage' = stage /\ lastRun + 1 \in Runs /\ disk[lastRun + 1] = "absent"
    <3>1. lastRun + 1 <= RunLimit
      <4>1. Len(<<j>>) = 1
        OBVIOUS
      <4>2. lastRun + Len(<<j>>) <= RunLimit \/ lastRun < RunLimit
        BY <1>1 DEF TriggerManual, TriggerSkipped, Launch
      <4>3. lastRun \in Int /\ RunLimit \in Int
        BY LimitAssumption DEF IInv, TypeOK
      <4> QED
        BY <4>1, <4>2, <4>3
    <3>2. lastRun + 1 \in Runs /\ lastRun + 1 > lastRun
      BY <3>1, LimitAssumption DEF IInv, TypeOK, Runs
    <3> QED
      BY <1>1, <3>2 DEF TriggerManual, TriggerSkipped, Serving, Alive, process, IInv, UnbornIsAbsent
  <2>2. PICK s \in {"running", "skipped"} : disk' = [disk EXCEPT ![lastRun + 1] = s]
    BY <1>1 DEF TriggerManual, TriggerSkipped
  <2> QED
    BY <2>1, <2>2, MoveServes
<1>2. CASE CreateJob(j) \/ SetEnabled(j) \/ DeleteJob(j)
  BY <1>2 DEF CreateJob, SetEnabled, DeleteJob, process, Ledger!vars, Alive
<1> QED
  BY <1>1, <1>2 DEF JobStep

LEMMA ProcessStepKeepsLedger ==
  ASSUME IInv, ProcessStep
  PROVE  Ledger!Next \/ UNCHANGED Ledger!vars
<1>1. CASE Drain \/ RequestShutdown \/ Signal \/ ServerExits
  BY <1>1 DEF Drain, RequestShutdown, Signal, ServerExits, Serving, files, Ledger!vars, Alive
<1>2. CASE FinishShutdown
  <2> DEFINE C == {r \in Runs : task[r] = "agent"}
  <2>1. Alive /\ ~Alive' /\ disk' = [r \in Runs |-> IF r \in C THEN "cancelled" ELSE disk[r]]
    BY <1>2 DEF FinishShutdown, LoseMemory, Alive
  <2>2. C \in SUBSET {r \in Runs : disk[r] = "running"}
    BY DEF IInv, FileOfPhase
  <2> HIDE DEF C
  <2> QED
    BY <2>1, <2>2 DEF Ledger!Next, Ledger!Stop
<1>3. CASE Crash
  <2>1. Alive /\ ~Alive' /\ UNCHANGED disk
    BY <1>3 DEF Crash, LoseMemory, Alive
  <2> QED
    BY <2>1, DeathStops DEF IInv
<1>4. CASE Boot \/ CrashMidBoot
  <2>1. PICK F \in SUBSET Orphans : Reconcile(F) /\ (Alive' => F = Orphans)
    BY <1>4 DEF Boot, CrashMidBoot, Alive
  <2>2. ~Alive /\ Alive' \in BOOLEAN
    BY <1>4 DEF Boot, CrashMidBoot, Alive
  <2> QED
    BY <2>1, <2>2 DEF Ledger!Next, Ledger!Recover, Reconcile, Orphans
<1> QED
  BY <1>1, <1>2, <1>3, <1>4 DEF ProcessStep

(* The daemon's run files implement the ledger: a record is opened once,   *)
(* settles once, leaves "paused" only for "running", and what a dead       *)
(* process left running is failed by the next before it serves.            *)
THEOREM LedgerIsKept == Spec => KeepsLedger
<1>1. Init => Ledger!Init
  BY DEF Init, Ledger!Init, Alive
<1>2. IInv /\ [Next]_vars => [Ledger!Next]_(Ledger!vars)
  <2> SUFFICES ASSUME IInv, [Next]_vars PROVE Ledger!Next \/ UNCHANGED Ledger!vars
    OBVIOUS
  <2>1. CASE Tick \/ ReceiveEvent \/ UNCHANGED vars
    BY <2>1 DEF Tick, ReceiveEvent, vars, process, files, Ledger!vars, Alive
  <2>2. CASE \E j \in Jobs : JobStep(j)
    BY <2>2, JobStepKeepsLedger
  <2>3. CASE \E r \in Runs : RunStep(r)
    BY <2>3, RunStepKeepsLedger
  <2>4. CASE ProcessStep
    BY <2>4, ProcessStepKeepsLedger
  <2> QED
    BY <2>1, <2>2, <2>3, <2>4 DEF Next
<1> QED
  BY <1>1, <1>2, Invariance, PTL DEF Spec, KeepsLedger, Ledger!Spec

-----------------------------------------------------------------------------
(* The attempt cap *)

(* The resumes of j's runs that are over: all but the one being executed.  *)
Settled(j) ==
  {p \in Runs \X (1..MaxResumes) :
     /\ jobOf[p[1]] = j /\ p[2] <= resumes[p[1]]
     /\ ~(resume[p[1]] = "agent" /\ p[2] = resumes[p[1]])}
Allowed(j) == Cap[j] + Cardinality(Settled(j))

(* The attempt that a launched run of j has yet to count.                  *)
Own(r)  == IF task[r] \in {"queued", "agent"} THEN 1 ELSE 0
Owed(j) == IF \E r \in Runs : jobOf[r] = j /\ Own(r) = 1 THEN 1 ELSE 0

(* A run that will, or may if it is resumed, be merged into its job.       *)
WillCount(r) == task[r] \in {"queued", "agent"} \/ resume[r] = "agent" \/ r \in pausedRuns

(* The stored counter and, should the job be deleted, the counter of each  *)
(* copy that may be put back leave room for the attempts still owed.  A    *)
(* copy ahead of the store is one the store has lost and found.            *)
StoreWithin(j) == store[j] # NoJob => store[j].count + Owed(j) <= Allowed(j)
CopyWithin(r, j) ==
  IF store[j] = NoJob THEN snap[r].count + Owed(j) <= Allowed(j)
  ELSE snap[r].count > store[j].count => snap[r].count + Own(r) + 1 <= Allowed(j)
Within(j) ==
  StoreWithin(j) /\ \A r \in Runs : WillCount(r) /\ jobOf[r] = j => CopyWithin(r, j)

CountsWithin == \A j \in Jobs : Cap[j] > 0 => Within(j)

ResumesAreKept == \A r \in Runs :
  /\ posts[r] + resumes[r] <= MaxResumes
  /\ resume[r] = "agent" => resumes[r] > 0
  /\ r > lastRun => resumes[r] = 0

JobsAreKnown ==
  \A r \in Runs : jobOf[r] \in Jobs => store[jobOf[r]] # NoJob \/ jobOf[r] \in deleted

CInv == ResumesAreKept /\ JobsAreKnown /\ CountsWithin

LEMMA SettledFinite ==
  ASSUME NEW j
  PROVE  /\ IsFiniteSet(Settled(j)) /\ Cardinality(Settled(j)) \in Nat
         /\ IsFiniteSet(Settled(j)') /\ Cardinality(Settled(j)') \in Nat
<1>1. IsFiniteSet(Runs) /\ IsFiniteSet(1..MaxResumes)
  BY FS_Interval, LimitAssumption, BoundAssumption DEF Runs
<1>2. IsFiniteSet(Runs \X (1..MaxResumes))
  BY <1>1, FS_Product
<1>3. Settled(j) \in SUBSET (Runs \X (1..MaxResumes))
  BY DEF Settled
<1>4. Settled(j)' \in SUBSET (Runs \X (1..MaxResumes))
  BY DEF Settled
<1>5. IsFiniteSet(Settled(j)) /\ IsFiniteSet(Settled(j)')
  BY <1>2, <1>3, <1>4, FS_Subset
<1> QED
  BY <1>5, FS_CardinalityType

LEMMA CountTypes ==
  ASSUME TypeOK, NEW j \in Jobs
  PROVE  /\ Owed(j) \in {0, 1} /\ Allowed(j) \in Nat
         /\ \A r \in Runs : Own(r) \in {0, 1}
         /\ \A r \in Runs : snap[r] # NoJob => snap[r] \in JobRecord /\ snap[r].count \in Nat
         /\ store[j] # NoJob => store[j] \in JobRecord /\ store[j].count \in Nat
<1>1. Owed(j) \in {0, 1} /\ \A r \in Runs : Own(r) \in {0, 1}
  BY DEF Owed, Own
<1>2. Allowed(j) \in Nat
  <2>1. Cap[j] \in Nat
    BY CapAssumption
  <2> QED
    BY <2>1, SettledFinite DEF Allowed
<1>3. \A r \in Runs : snap[r] # NoJob => snap[r] \in JobRecord
  BY DEF TypeOK
<1>4. store[j] # NoJob => store[j] \in JobRecord
  BY DEF TypeOK
<1>5. \A rec \in JobRecord : rec.count \in Nat
  BY DEF JobRecord
<1> QED
  BY <1>1, <1>2, <1>3, <1>4, <1>5

(* A run that will count has a job, holds a copy of it, and is a run.      *)
LEMMA CounterHasJob ==
  ASSUME IInv, NEW r \in Runs, WillCount(r)
  PROVE  jobOf[r] \in Jobs /\ snap[r] \in JobRecord /\ snap[r].count \in Nat /\ r <= lastRun
<1>1. task[r] # "none" \/ resume[r] # "none" \/ r \in pausedRuns
  BY DEF WillCount
<1>2. jobOf[r] \in Jobs /\ snap[r] \in JobRecord
  BY <1>1 DEF IInv, LiveHasJob
<1>3. ~(r > lastRun) /\ r \in Nat /\ lastRun \in Nat
  BY <1>1, LimitAssumption DEF IInv, UnbornIsAbsent, TypeOK, Runs
<1> QED
  BY <1>2, <1>3 DEF JobRecord

(* The allowance grows with what is settled.                               *)
LEMMA AllowanceGrows ==
  ASSUME NEW j \in Jobs, Settled(j) \subseteq Settled(j)'
  PROVE  Allowed(j) <= Allowed(j)' /\ Allowed(j) \in Nat /\ Allowed(j)' \in Nat
<1>1. IsFiniteSet(Settled(j)') /\ Cardinality(Settled(j)') \in Nat
  BY SettledFinite
<1>2. Cardinality(Settled(j)) <= Cardinality(Settled(j)')
  BY <1>1, FS_Subset
<1>3. Cap[j] \in Nat
  BY CapAssumption
<1> QED
  BY <1>1, <1>2, <1>3, SettledFinite DEF Allowed

(* A resume that is over is one more that is settled.                      *)
LEMMA AllowanceAdds ==
  ASSUME NEW j \in Jobs, NEW p, p \notin Settled(j), p \in Settled(j)', Settled(j) \subseteq Settled(j)'
  PROVE  Allowed(j) + 1 <= Allowed(j)'
<1>1. IsFiniteSet(Settled(j)') /\ Cardinality(Settled(j)') \in Nat
  BY SettledFinite
<1>2. Settled(j) \cup {p} \subseteq Settled(j)'
  OBVIOUS
<1>3. Cardinality(Settled(j) \cup {p}) = Cardinality(Settled(j)) + 1
  BY SettledFinite, FS_AddElement
<1>4. Cardinality(Settled(j) \cup {p}) <= Cardinality(Settled(j)')
  BY <1>1, <1>2, FS_Subset
<1>5. Cap[j] \in Nat
  BY CapAssumption
<1> QED
  BY <1>1, <1>3, <1>4, <1>5, SettledFinite DEF Allowed

(* A step that merges nothing into j and launches no run of it.            *)
LEMMA QuietKeeps ==
  ASSUME IInv, IInv', NEW j \in Jobs, Within(j),
         store'[j] = NoJob <=> store[j] = NoJob,
         store[j] # NoJob => store'[j].count = store[j].count,
         Settled(j) \subseteq Settled(j)',
         \A r \in Runs : WillCount(r)' /\ jobOf'[r] = j =>
           WillCount(r) /\ jobOf[r] = j /\ snap'[r] = snap[r] /\ Own(r)' <= Own(r)
  PROVE  Within(j)'
<1>1. Allowed(j) <= Allowed(j)' /\ Allowed(j) \in Nat /\ Allowed(j)' \in Nat
  BY AllowanceGrows
<1>2. Owed(j)' <= Owed(j) /\ Owed(j) \in {0, 1} /\ Owed(j)' \in {0, 1}
  BY DEF Owed, Own, WillCount
<1>3. StoreWithin(j)'
  <2>1. store[j] # NoJob => store[j].count \in Nat
    BY CountTypes DEF IInv
  <2> QED
    BY <1>1, <1>2, <2>1 DEF Within, StoreWithin
<1>4. ASSUME NEW r \in Runs, WillCount(r)', jobOf'[r] = j PROVE CopyWithin(r, j)'
  <2>1. /\ WillCount(r) /\ jobOf[r] = j /\ snap'[r] = snap[r] /\ Own(r)' <= Own(r)
        /\ CopyWithin(r, j)
    BY <1>4 DEF Within
  <2>2. snap[r].count \in Nat /\ Own(r) \in {0, 1} /\ Own(r)' \in {0, 1}
    BY <2>1, CounterHasJob DEF Own
  <2>3. CASE store[j] = NoJob
    BY <1>1, <1>2, <2>1, <2>2, <2>3 DEF CopyWithin
  <2>4. CASE store[j] # NoJob
    BY <1>1, <2>1, <2>2, <2>4 DEF CopyWithin
  <2> QED
    BY <2>3, <2>4
<1> QED
  BY <1>3, <1>4 DEF Within

(* What the merge of r does to the record of its job.                      *)
LEMMA MergeCounts ==
  ASSUME TypeOK, NEW r \in Runs, jobOf[r] \in Jobs, snap[r] \in JobRecord, store' = Merged(r)
  PROVE  LET j == jobOf[r]
         IN /\ store'[j] # NoJob
            /\ store'[j].count = (IF store[j] = NoJob THEN snap[r].count ELSE store[j].count) + 1
            /\ \A i \in Jobs \ {j} : store'[i] = store[i]
<1> DEFINE j == jobOf[r]
           rec == Counted(store[j])
           e   == rec.enabled /\ ~CapReached(j, rec)
<1>1. \A x \in JobRecord : Counted(x) \in JobRecord /\ Counted(x).count = x.count + 1
  BY DEF Counted, JobRecord
<1>2. NoJob \notin JobRecord
  BY NoJobAssumption DEF JobRecord
<1>3. CASE store[j] = NoJob
  <2>1. store'[j] = Counted(snap[r])
    BY <1>3 DEF Merged, TypeOK
  <2> QED
    BY <1>1, <1>2, <1>3, <2>1 DEF Merged, TypeOK
<1>4. CASE store[j] # NoJob
  <2>1. store'[j] = [rec EXCEPT !.enabled = e]
    BY <1>4 DEF Merged, TypeOK
  <2>2. store[j] \in JobRecord
    BY <1>4 DEF TypeOK
  <2>3. rec \in JobRecord /\ rec.count = store[j].count + 1
    BY <1>1, <2>2
  <2>4. e \in BOOLEAN
    BY Zenon
  <2> HIDE DEF rec, e
  <2>5. store'[j] \in JobRecord /\ store'[j].count = rec.count
    BY <2>1, <2>3, <2>4 DEF JobRecord
  <2> QED
    BY <1>2, <1>4, <2>3, <2>5 DEF Merged, TypeOK
<1> QED
  BY <1>3, <1>4

(* A step that merges r into its job: its own attempt is no longer owed,   *)
(* or its resume is one more that is settled.                              *)
LEMMA MergeKeeps ==
  ASSUME IInv, IInv', NEW r \in Runs, WillCount(r), store' = Merged(r), NEW j \in Jobs, Within(j),
         Settled(j) \subseteq Settled(j)',
         jobOf[r] = j /\ Own(r) = 0 => Allowed(j) + 1 <= Allowed(j)',
         Own(r)' = 0,
         \A s \in Runs : WillCount(s)' =>
           /\ WillCount(s) /\ jobOf'[s] = jobOf[s] /\ Own(s)' <= Own(s)
           /\ snap'[s] = IF s = r THEN Counted(snap[s]) ELSE snap[s]
  PROVE  Within(j)'
<1>1. jobOf[r] \in Jobs /\ snap[r] \in JobRecord /\ snap[r].count \in Nat
  BY CounterHasJob
<1>2. CASE jobOf[r] # j
  <2>1. store'[j] = store[j]
    BY <1>1, <1>2, MergeCounts DEF IInv
  <2> QED
    BY <1>2, <2>1, QuietKeeps
<1>3. CASE jobOf[r] = j
  <2>1. /\ store'[j] # NoJob
        /\ store'[j].count = (IF store[j] = NoJob THEN snap[r].count ELSE store[j].count) + 1
    BY <1>1, <1>3, MergeCounts DEF IInv
  <2>2. Allowed(j) <= Allowed(j)' /\ Allowed(j) \in Nat /\ Allowed(j)' \in Nat
    BY AllowanceGrows
  <2>3. \A s \in Runs : Own(s) \in {0, 1} /\ Own(s)' \in {0, 1}
    BY DEF Own
  <2>4. store[j] # NoJob => store[j].count \in Nat
    BY CountTypes DEF IInv
  <2>5. ASSUME NEW s \in Runs, s # r, Own(s) = 1, jobOf[s] = j PROVE Own(r) = 0
    BY <1>3, <2>5 DEF Own, IInv, ReservationExact, InFlight
  <2>6. Owed(j) \in {0, 1} /\ Owed(j)' \in {0, 1} /\ Owed(j)' + Own(r) <= Owed(j)
    <3>1. Own(r) = 1 => Owed(j) = 1
      BY <1>3 DEF Owed
    <3>2. Owed(j)' = 1 => \E s \in Runs : s # r /\ jobOf[s] = j /\ Own(s) = 1
      <4>1. ASSUME NEW s \in Runs, jobOf'[s] = j, Own(s)' = 1
            PROVE  s # r /\ jobOf[s] = j /\ Own(s) = 1
        <5>1. WillCount(s)'
          BY <4>1 DEF Own, WillCount
        <5> QED
          BY <2>3, <4>1, <5>1
      <4> QED
        BY <4>1 DEF Owed
    <3>3. Owed(j)' = 1 => Own(r) = 0 /\ Owed(j) = 1
      BY <2>5, <3>2 DEF Owed
    <3>4. Owed(j) \in {0, 1} /\ Owed(j)' \in {0, 1}
      BY DEF Owed
    <3> QED
      BY <2>3, <3>1, <3>3, <3>4
  <2>7. Allowed(j) + 1 <= Allowed(j)' + Own(r)
    BY <1>3, <2>2, <2>3
  <2>8. CopyWithin(r, j)
    BY <1>3 DEF Within
  <2>9. StoreWithin(j)'
    <3>1. CASE store[j] = NoJob
      BY <1>1, <2>1, <2>2, <2>3, <2>6, <2>7, <2>8, <3>1 DEF StoreWithin, CopyWithin
    <3>2. CASE store[j] # NoJob
      BY <2>1, <2>2, <2>3, <2>4, <2>6, <2>7, <3>2 DEF StoreWithin, Within
    <3> QED
      BY <3>1, <3>2
  <2>10. ASSUME NEW s \in Runs, WillCount(s)', jobOf'[s] = j PROVE CopyWithin(s, j)'
    <3>1. WillCount(s) /\ jobOf[s] = j /\ Own(s)' <= Own(s) /\ CopyWithin(s, j)
      BY <2>10 DEF Within
    <3>2. snap[s].count \in Nat
      BY <3>1, CounterHasJob
    <3>3. SUFFICES ASSUME snap'[s].count > store'[j].count
                   PROVE  snap'[s].count + Own(s)' + 1 <= Allowed(j)'
      BY <2>1 DEF CopyWithin
    <3>4. CASE s = r
      <4>1. snap'[r].count = snap[r].count + 1
        <5>1. snap'[r] = Counted(snap[r])
          BY <2>10, <3>4
        <5> QED
          BY <1>1, <5>1 DEF Counted, JobRecord
      <4>2. store[j] # NoJob
        BY <1>1, <2>1, <3>3, <3>4, <4>1
      <4>3. snap[r].count + Own(r) + 1 <= Allowed(j)
        BY <1>1, <2>1, <2>4, <2>8, <3>3, <3>4, <4>1, <4>2 DEF CopyWithin
      <4> QED
        BY <1>1, <2>2, <2>3, <2>7, <3>4, <4>1, <4>3
    <3>5. CASE s # r
      <4>1. snap'[s] = snap[s]
        BY <2>10, <3>5
      <4>2. CASE store[j] = NoJob
        <5>1. snap[s].count + Owed(j) <= Allowed(j)
          BY <3>1, <4>2 DEF CopyWithin
        <5>2. Own(s) = 1 => Own(r) = 0 /\ Owed(j) = 1
          BY <2>5, <3>1, <3>5 DEF Owed
        <5>3. Own(s) + Own(r) <= Owed(j)
          <6>1. Own(r) = 1 => Owed(j) = 1
            BY <1>3 DEF Owed
          <6> QED
            BY <2>3, <2>6, <5>2, <6>1
        <5> QED
          BY <2>2, <2>3, <2>6, <2>7, <3>1, <3>2, <4>1, <5>1, <5>3
      <4>3. CASE store[j] # NoJob
        BY <2>1, <2>2, <2>3, <2>4, <3>1, <3>2, <3>3, <4>1, <4>3 DEF CopyWithin
      <4> QED
        BY <4>2, <4>3
    <3> QED
      BY <3>4, <3>5
  <2> QED
    BY <2>9, <2>10 DEF Within
<1> QED
  BY <1>2, <1>3

(* Steps that leave the runs and the jobs' counts alone.                   *)
LEMMA StandStill ==
  ASSUME IInv, IInv', CInv,
         UNCHANGED <<task, pausedRuns, resume, resumes, created, deleted>>,
         \A r \in Runs : posts'[r] = posts[r] \/ posts'[r] + resumes[r] <= MaxResumes,
         \A j \in Jobs : /\ store'[j] = NoJob <=> store[j] = NoJob
                         /\ store[j] # NoJob => store'[j].count = store[j].count
  PROVE  CInv'
<1>1. ResumesAreKept'
  BY DEF CInv, ResumesAreKept, created
<1>2. JobsAreKnown'
  BY DEF CInv, JobsAreKnown, created
<1>3. CountsWithin'
  <2> SUFFICES ASSUME NEW j \in Jobs, Cap[j] > 0 PROVE Within(j)'
    BY DEF CountsWithin
  <2>1. Within(j)
    BY DEF CInv, CountsWithin
  <2>2. Settled(j) \subseteq Settled(j)'
    BY DEF Settled, created
  <2>3. \A r \in Runs : WillCount(r)' /\ jobOf'[r] = j =>
          WillCount(r) /\ jobOf[r] = j /\ snap'[r] = snap[r] /\ Own(r)' <= Own(r)
    BY DEF WillCount, Own, created
  <2> QED
    BY <2>1, <2>2, <2>3, QuietKeeps
<1> QED
  BY <1>1, <1>2, <1>3 DEF CInv

LEMMA StillKeepsCInv ==
  ASSUME IInv, IInv', CInv,
         \/ \E j \in Jobs : SetEnabled(j)
         \/ \E r \in Runs : PostResume(r) \/ LoseResume(r)
         \/ Drain \/ RequestShutdown \/ Signal \/ ServerExits \/ Boot \/ CrashMidBoot
         \/ UNCHANGED vars
  PROVE  CInv'
<1>1. CASE \E j \in Jobs : SetEnabled(j)
  <2>1. PICK j \in Jobs : SetEnabled(j)
    BY <1>1
  <2>2. UNCHANGED <<guards, resuming, created, deleted>> /\ store' = [store EXCEPT ![j].enabled = ~@]
        /\ store[j] # NoJob
    BY <2>1 DEF SetEnabled
  <2>3. store[j] \in JobRecord /\ NoJob \notin JobRecord
    BY <2>2, NoJobAssumption DEF IInv, TypeOK, JobRecord
  <2> DEFINE rec == [store[j] EXCEPT !.enabled = ~@]
  <2>4. rec \in JobRecord /\ rec.count = store[j].count
    BY <2>3 DEF JobRecord
  <2>5. store' = [store EXCEPT ![j] = rec]
    BY <2>2
  <2> HIDE DEF rec
  <2>6. \A i \in Jobs : /\ store'[i] = NoJob <=> store[i] = NoJob
                        /\ store[i] # NoJob => store'[i].count = store[i].count
    BY <2>2, <2>3, <2>4, <2>5 DEF IInv, TypeOK
  <2> QED
    BY <2>2, <2>6, StandStill DEF guards, resuming
<1>2. ASSUME NEW r \in Runs, PostResume(r) \/ LoseResume(r) PROVE CInv'
  <2>1. UNCHANGED <<process, guards, pausedRuns, resume, resumes, created, files>>
    BY <1>2 DEF PostResume, LoseResume
  <2>2. \/ posts' = [posts EXCEPT ![r] = @ + 1] /\ posts[r] + resumes[r] < MaxResumes
        \/ posts' = [posts EXCEPT ![r] = @ - 1] /\ posts[r] + resumes[r] <= MaxResumes
    BY <1>2 DEF PostResume, LoseResume, CInv, ResumesAreKept
  <2>3. posts \in [Runs -> Nat] /\ resumes \in [Runs -> Nat]
    BY DEF IInv, TypeOK
  <2>4. \A s \in Runs : posts'[s] = posts[s] \/ posts'[s] + resumes[s] <= MaxResumes
    BY <2>2, <2>3, BoundAssumption
  <2> QED
    BY <2>1, <2>4, StandStill DEF guards, files
<1>3. CASE Drain \/ RequestShutdown \/ Signal \/ ServerExits \/ Boot \/ CrashMidBoot \/ UNCHANGED vars
  <2>1. UNCHANGED <<guards, resuming, created, store, deleted>>
    BY <1>3 DEF Drain, RequestShutdown, Signal, ServerExits, Boot, CrashMidBoot, vars, files
  <2> QED
    BY <2>1, StandStill DEF guards, resuming
<1> QED
  BY <1>1, <1>2, <1>3

(* Steps after which less is to be counted, and nothing has been counted.  *)
LEMMA LessToCount ==
  ASSUME IInv, IInv', CInv, UNCHANGED <<lastRun, jobOf, store, deleted>>, ResumesAreKept',
         \A j \in Jobs : Settled(j) \subseteq Settled(j)',
         \A r \in Runs : WillCount(r)' => WillCount(r) /\ snap'[r] = snap[r] /\ Own(r)' <= Own(r)
  PROVE  CInv'
<1>1. JobsAreKnown'
  BY DEF CInv, JobsAreKnown
<1>2. ASSUME NEW j \in Jobs, Cap[j] > 0 PROVE Within(j)'
  <2>1. Within(j)
    BY <1>2 DEF CInv, CountsWithin
  <2> QED
    BY <2>1, QuietKeeps
<1> QED
  BY <1>1, <1>2 DEF CInv, CountsWithin

LEMMA DoneKeepsCInv ==
  ASSUME IInv, IInv', CInv, NEW r \in Runs, StartRun(r) \/ EndDelivery(r) \/ EndResumeDelivery(r)
  PROVE  CInv'
<1>1. /\ UNCHANGED <<pausedRuns, posts, resumes, lastRun, jobOf, store, deleted>>
      /\ \A s \in Runs \ {r} : task'[s] = task[s] /\ resume'[s] = resume[s] /\ snap'[s] = snap[s]
  BY DEF StartRun, Acquire, EndDelivery, Release, EndResumeDelivery, resuming, created, guards, files,
         IInv, TypeOK
<1>2. resume' = resume \/ (resume' = [resume EXCEPT ![r] = "none"] /\ resume[r] = "deliver")
  BY DEF StartRun, EndDelivery, EndResumeDelivery, resuming
<1>3. ResumesAreKept'
  BY <1>1, <1>2 DEF CInv, ResumesAreKept, IInv, TypeOK
<1>4. \A j \in Jobs : Settled(j) \subseteq Settled(j)'
  <2>1. \A s \in Runs : resume'[s] = "agent" => resume[s] = "agent"
    BY <1>2 DEF IInv, TypeOK
  <2> QED
    BY <1>1, <2>1 DEF Settled
<1>5. ASSUME NEW s \in Runs, WillCount(s)'
      PROVE  WillCount(s) /\ snap'[s] = snap[s] /\ Own(s)' <= Own(s)
  <2>1. CASE s # r
    BY <1>1, <1>5, <2>1 DEF WillCount, Own
  <2>2. CASE s = r /\ StartRun(r)
    BY <2>2, <1>5 DEF StartRun, Acquire, WillCount, Own, IInv, TypeOK, resuming, created
  <2>3. CASE s = r /\ (EndDelivery(r) \/ EndResumeDelivery(r))
    <3>1. ~WillCount(r)'
      BY <2>3 DEF EndDelivery, Release, EndResumeDelivery, WillCount, IInv, TypeOK, OneExecutor,
                  guards, resuming
    <3> QED
      BY <1>5, <2>3, <3>1
  <2> QED
    BY <2>1, <2>2, <2>3
<1> QED
  BY <1>1, <1>3, <1>4, <1>5, LessToCount

(* Taking up a parked run: its resume is not settled before it is over.    *)
LEMMA StartResumeKeepsCInv ==
  ASSUME IInv, IInv', CInv, NEW r \in Runs, StartResume(r)
  PROVE  CInv'
<1>1. /\ posts[r] > 0 /\ r \in pausedRuns
      /\ posts' = [posts EXCEPT ![r] = @ - 1] /\ resumes' = [resumes EXCEPT ![r] = @ + 1]
      /\ pausedRuns' = pausedRuns \ {r} /\ resume' = [resume EXCEPT ![r] = "agent"]
      /\ UNCHANGED <<task, lastRun, jobOf, snap, store, deleted>>
  BY DEF StartResume, guards, created
<1>2. /\ posts \in [Runs -> Nat] /\ resumes \in [Runs -> Nat] /\ resume \in [Runs -> Phase \ {"queued"}]
      /\ resume[r] = "none"
  BY <1>1 DEF IInv, TypeOK, OneExecutor
<1>3. ResumesAreKept'
  <2>1. r <= lastRun /\ r \in Nat /\ lastRun \in Nat
    BY <1>1, LimitAssumption DEF IInv, UnbornIsAbsent, TypeOK, Runs
  <2>2. ASSUME NEW s \in Runs
        PROVE  /\ posts'[s] + resumes'[s] = posts[s] + resumes[s]
               /\ resume'[s] = "agent" => resumes'[s] > 0
               /\ s > lastRun' => resumes'[s] = 0
    BY <1>1, <1>2, <2>1 DEF CInv, ResumesAreKept
  <2> QED
    BY <2>2 DEF CInv, ResumesAreKept
<1>4. ASSUME NEW j \in Jobs PROVE Settled(j) \subseteq Settled(j)'
  <2> SUFFICES ASSUME NEW p \in Settled(j) PROVE p \in Settled(j)'
    OBVIOUS
  <2>1. /\ p \in Runs \X (1..MaxResumes) /\ jobOf[p[1]] = j /\ p[2] <= resumes[p[1]]
        /\ ~(resume[p[1]] = "agent" /\ p[2] = resumes[p[1]])
    BY DEF Settled
  <2>2. p[1] \in Runs /\ p[2] \in Nat
    BY <2>1, BoundAssumption
  <2>3. CASE p[1] = r
    <3>1. resumes'[r] = resumes[r] + 1 /\ resumes[r] \in Nat
      BY <1>1, <1>2
    <3> QED
      BY <1>1, <2>1, <2>2, <2>3, <3>1 DEF Settled
  <2>4. CASE p[1] # r
    BY <1>1, <1>2, <2>1, <2>2, <2>4 DEF Settled
  <2> QED
    BY <2>3, <2>4
<1>5. ASSUME NEW s \in Runs, WillCount(s)'
      PROVE  WillCount(s) /\ snap'[s] = snap[s] /\ Own(s)' <= Own(s)
  BY <1>1, <1>2, <1>5 DEF WillCount, Own
<1> QED
  BY <1>1, <1>3, <1>4, <1>5, LessToCount

LEMMA TriggerSkippedKeepsCInv ==
  ASSUME IInv, IInv', CInv, NEW j \in Jobs, TriggerSkipped(j)
  PROVE  CInv'
<1>1. /\ store[j] # NoJob /\ lastRun' = lastRun + 1
      /\ jobOf' = [jobOf EXCEPT ![lastRun + 1] = j]
      /\ UNCHANGED <<guards, resuming, snap, store, deleted>>
  BY DEF TriggerSkipped
<1>2. /\ lastRun \in Nat /\ jobOf \in [Runs -> Jobs \cup {NoJob}]
      /\ \A r \in Runs : r \in Nat /\ (r # lastRun + 1 => jobOf'[r] = jobOf[r])
  <2>1. lastRun \in Nat /\ jobOf \in [Runs -> Jobs \cup {NoJob}]
    BY LimitAssumption DEF IInv, TypeOK
  <2>2. \A r \in Runs : r # lastRun + 1 => jobOf'[r] = jobOf[r]
    BY <1>1, <2>1
  <2>3. \A r \in Runs : r \in Nat
    BY DEF Runs
  <2> QED
    BY <2>1, <2>2, <2>3
<1>3. ResumesAreKept'
  BY <1>1, <1>2, LimitAssumption DEF CInv, ResumesAreKept, resuming, Runs
<1>4. JobsAreKnown'
  BY <1>1, <1>2 DEF CInv, JobsAreKnown
<1>5. ASSUME NEW i \in Jobs, Cap[i] > 0 PROVE Within(i)'
  <2>1. Within(i)
    BY <1>5 DEF CInv, CountsWithin
  <2>2. Settled(i) \subseteq Settled(i)'
    <3> SUFFICES ASSUME NEW p \in Settled(i) PROVE p \in Settled(i)'
      OBVIOUS
    <3>1. /\ p \in Runs \X (1..MaxResumes) /\ jobOf[p[1]] = i /\ p[2] <= resumes[p[1]]
          /\ ~(resume[p[1]] = "agent" /\ p[2] = resumes[p[1]])
      BY DEF Settled
    <3>2. p[1] \in Runs /\ p[2] \in Nat \ {0}
      BY <3>1, BoundAssumption
    <3>3. p[1] # lastRun + 1
      BY <1>2, <3>1, <3>2 DEF CInv, ResumesAreKept, IInv, TypeOK
    <3> QED
      BY <1>1, <1>2, <3>1, <3>2, <3>3 DEF Settled, resuming
  <2>3. ASSUME NEW r \in Runs, WillCount(r)'
        PROVE  WillCount(r) /\ jobOf'[r] = jobOf[r] /\ snap'[r] = snap[r] /\ Own(r)' <= Own(r)
    <3>1. WillCount(r) /\ Own(r)' = Own(r) /\ snap'[r] = snap[r] /\ Own(r) \in {0, 1}
      BY <1>1, <2>3 DEF WillCount, Own, guards, resuming
    <3>2. r # lastRun + 1
      BY <1>2, <3>1, CounterHasJob
    <3>3. jobOf'[r] = jobOf[r]
      BY <1>2, <3>2
    <3>4. Own(r)' <= Own(r)
      <4> HIDE DEF Own
      <4> QED
        BY <3>1
    <3> QED
      BY <3>1, <3>3, <3>4
  <2> QED
    BY <1>1, <2>1, <2>2, <2>3, QuietKeeps
<1> QED
  BY <1>3, <1>4, <1>5 DEF CInv, CountsWithin

(* The end of an attempt counts it.                                        *)
LEMMA CountKeepsCInv ==
  ASSUME IInv, IInv', CInv, NEW r \in Runs,
         RefuseRun(r) \/ EndAgent(r) \/ PauseRun(r) \/ EndResume(r) \/ PauseAgain(r)
  PROVE  CInv'
<1>1. /\ store' = Merged(r) /\ snap' = [snap EXCEPT ![r] = Counted(@)]
      /\ UNCHANGED <<lastRun, jobOf, deleted, resumes, posts>>
  BY DEF RefuseRun, Acquire, EndAgent, PauseRun, EndResume, PauseAgain, RecordResult, resuming
<1>2. /\ WillCount(r) /\ Own(r)' = 0
      /\ \A s \in Runs \ {r} : /\ task'[s] = task[s] /\ resume'[s] = resume[s]
                               /\ s \in pausedRuns' <=> s \in pausedRuns
  BY DEF RefuseRun, Acquire, EndAgent, PauseRun, EndResume, PauseAgain, Release, resuming, guards,
         WillCount, Own, IInv, TypeOK, OneExecutor
<1>3. \/ Own(r) = 1 /\ UNCHANGED resume
      \/ Own(r) = 0 /\ resume[r] = "agent" /\ resume'[r] # "agent"
  BY DEF RefuseRun, Acquire, EndAgent, PauseRun, EndResume, PauseAgain, Own, resuming, IInv, TypeOK,
         OneExecutor
<1>4. /\ jobOf[r] \in Jobs /\ snap[r] \in JobRecord
      /\ resumes \in [Runs -> Nat] /\ \A s \in Runs : resume'[s] = "agent" => resume[s] = "agent"
  BY <1>2, <1>3, CounterHasJob DEF IInv, TypeOK
<1>5. ResumesAreKept'
  BY <1>1, <1>4 DEF CInv, ResumesAreKept
<1>6. JobsAreKnown'
  <2>1. store'[jobOf[r]] # NoJob /\ \A i \in Jobs \ {jobOf[r]} : store'[i] = store[i]
    BY <1>1, <1>4, MergeCounts DEF IInv
  <2> QED
    BY <1>1, <2>1 DEF CInv, JobsAreKnown
<1>7. \A j \in Jobs : Settled(j) \subseteq Settled(j)'
  BY <1>1, <1>4 DEF Settled
<1>8. ASSUME Own(r) = 0 PROVE Allowed(jobOf[r]) + 1 <= Allowed(jobOf[r])'
  <2> DEFINE p == <<r, resumes[r]>>
  <2>1. resume[r] = "agent" /\ resume'[r] # "agent"
    BY <1>3, <1>8
  <2>2. resumes[r] \in 1..MaxResumes
    <3>1. resumes[r] \in Nat /\ posts[r] \in Nat /\ resumes[r] > 0 /\ posts[r] + resumes[r] <= MaxResumes
      BY <2>1 DEF CInv, ResumesAreKept, IInv, TypeOK
    <3> QED
      BY <3>1, BoundAssumption
  <2>3. p \notin Settled(jobOf[r]) /\ p \in Settled(jobOf[r])'
    BY <1>1, <2>1, <2>2 DEF Settled
  <2> QED
    BY <1>1, <1>4, <1>7, <2>3, AllowanceAdds
<1>9. ASSUME NEW s \in Runs, WillCount(s)'
      PROVE  /\ WillCount(s) /\ jobOf'[s] = jobOf[s] /\ Own(s)' <= Own(s)
             /\ snap'[s] = IF s = r THEN Counted(snap[s]) ELSE snap[s]
  <2>1. snap'[s] = IF s = r THEN Counted(snap[s]) ELSE snap[s]
    BY <1>1 DEF IInv, TypeOK
  <2>2. CASE s = r
    BY <1>1, <1>2, <2>1, <2>2 DEF Own
  <2>3. CASE s # r
    BY <1>1, <1>2, <1>9, <2>1, <2>3 DEF Own, WillCount
  <2> QED
    BY <2>2, <2>3
<1>10. ASSUME NEW j \in Jobs, Cap[j] > 0 PROVE Within(j)'
  <2>1. Within(j)
    BY <1>10 DEF CInv, CountsWithin
  <2> QED
    BY <1>1, <1>2, <1>7, <1>8, <1>9, <2>1, MergeKeeps
<1> QED
  BY <1>5, <1>6, <1>10 DEF CInv, CountsWithin

(* With its memory the process loses whatever was still to be counted.     *)
LEMMA DeathKeepsCInv ==
  ASSUME IInv, IInv', CInv,
         \/ FinishShutdown \/ Crash
         \/ \E r \in Runs : CrashMidFinish(r)
  PROVE  CInv'
<1>1. /\ LoseMemory /\ resume' = [r \in Runs |-> "none"] /\ posts' = [r \in Runs |-> 0]
      /\ UNCHANGED <<resumes, lastRun, jobOf, deleted>>
      /\ \A r \in Runs : ~WillCount(r)'
  BY DEF FinishShutdown, Crash, CrashMidFinish, LoseMemory, WillCount
<1>2. ResumesAreKept'
  <2>1. \A r \in Runs : posts[r] \in Nat /\ resumes[r] \in Nat
    BY DEF IInv, TypeOK
  <2> QED
    BY <1>1, <2>1, BoundAssumption DEF CInv, ResumesAreKept
<1>3. \A j \in Jobs : Settled(j) \subseteq Settled(j)'
  BY <1>1 DEF Settled
<1>4. CASE FinishShutdown \/ Crash
  BY <1>1, <1>2, <1>3, <1>4, LessToCount DEF FinishShutdown, Crash
<1>5. ASSUME NEW r \in Runs, CrashMidFinish(r) PROVE CInv'
  <2>1. WillCount(r) /\ store' = Merged(r) /\ (task[r] = "agent" \/ resume[r] = "agent")
    BY <1>5 DEF CrashMidFinish, WillCount
  <2>2. jobOf[r] \in Jobs /\ snap[r] \in JobRecord
    BY <2>1, CounterHasJob
  <2>3. JobsAreKnown'
    <3>1. store'[jobOf[r]] # NoJob /\ \A i \in Jobs \ {jobOf[r]} : store'[i] = store[i]
      BY <2>1, <2>2, MergeCounts DEF IInv
    <3> QED
      BY <1>1, <3>1 DEF CInv, JobsAreKnown
  <2>4. ASSUME Own(r) = 0 PROVE Allowed(jobOf[r]) + 1 <= Allowed(jobOf[r])'
    <3> DEFINE p == <<r, resumes[r]>>
    <3>1. resume[r] = "agent"
      BY <2>1, <2>4 DEF Own
    <3>2. resumes[r] \in 1..MaxResumes
      <4>1. resumes[r] \in Nat /\ posts[r] \in Nat /\ resumes[r] > 0 /\ posts[r] + resumes[r] <= MaxResumes
        BY <3>1 DEF CInv, ResumesAreKept, IInv, TypeOK
      <4> QED
        BY <4>1, BoundAssumption
    <3>3. p \notin Settled(jobOf[r]) /\ p \in Settled(jobOf[r])'
      BY <1>1, <3>1, <3>2 DEF Settled
    <3> QED
      BY <1>1, <1>3, <2>2, <3>3, AllowanceAdds
  <2>5. Own(r)' = 0
    BY <1>1 DEF WillCount, Own
  <2>6. ASSUME NEW j \in Jobs, Cap[j] > 0 PROVE Within(j)'
    <3>1. Within(j)
      BY <2>6 DEF CInv, CountsWithin
    <3> QED
      BY <1>1, <1>3, <2>1, <2>4, <2>5, <3>1, MergeKeeps
  <2> QED
    BY <1>2, <2>3, <2>6 DEF CInv, CountsWithin
<1> QED
  BY <1>4, <1>5

(* A new job has no runs; a deleted one leaves the copies its runs hold.   *)
LEMMA JobKeepsCInv ==
  ASSUME IInv, IInv', CInv, NEW j \in Jobs, CreateJob(j) \/ DeleteJob(j)
  PROVE  CInv'
<1>1. /\ UNCHANGED <<guards, resuming, created>> /\ deleted \subseteq deleted'
      /\ \A i \in Jobs \ {j} : store'[i] = store[i]
  BY DEF CreateJob, DeleteJob, IInv, TypeOK
<1>2. ResumesAreKept'
  BY <1>1 DEF CInv, ResumesAreKept, resuming, created
<1>3. JobsAreKnown'
  <2>1. store'[j] # NoJob \/ j \in deleted'
    <3>1. NoJob \notin JobRecord
      BY NoJobAssumption DEF JobRecord
    <3>2. CASE CreateJob(j)
      <4>1. PICK e \in BOOLEAN : store' = [store EXCEPT ![j] = [enabled |-> e, count |-> 0]]
        BY <3>2 DEF CreateJob
      <4>2. [enabled |-> e, count |-> 0] \in JobRecord
        BY DEF JobRecord
      <4> QED
        BY <3>1, <4>1, <4>2 DEF IInv, TypeOK
    <3>3. CASE DeleteJob(j)
      BY <3>3 DEF DeleteJob
    <3> QED
      BY <3>2, <3>3
  <2> QED
    BY <1>1, <2>1 DEF CInv, JobsAreKnown, created
<1>4. \A i \in Jobs : Settled(i)' = Settled(i)
  BY <1>1 DEF Settled, resuming, created
<1>5. \A r \in Runs : WillCount(r)' = WillCount(r) /\ Own(r)' = Own(r) /\ snap'[r] = snap[r] /\ jobOf'[r] = jobOf[r]
  BY <1>1 DEF WillCount, Own, guards, resuming, created
<1>6. \A i \in Jobs : Allowed(i)' = Allowed(i) /\ Owed(i)' = Owed(i)
  BY <1>4, <1>5 DEF Allowed, Owed
<1>7. ASSUME NEW i \in Jobs, Cap[i] > 0 PROVE Within(i)'
  <2>1. Within(i)
    BY <1>7 DEF CInv, CountsWithin
  <2>2. CASE i # j
    <3>1. store'[i] = store[i]
      BY <1>1, <2>2
    <3> QED
      BY <1>5, <1>6, <2>1, <3>1 DEF Within, StoreWithin, CopyWithin
  <2>3. CASE i = j /\ CreateJob(j)
    <3>1. PICK e \in BOOLEAN : store' = [store EXCEPT ![j] = [enabled |-> e, count |-> 0]]
      BY <2>3 DEF CreateJob
    <3>2. store'[j].count = 0
      BY <3>1 DEF IInv, TypeOK
    <3>3. \A r \in Runs : jobOf[r] # j
      BY <2>3 DEF CreateJob, CInv, JobsAreKnown
    <3>4. Owed(j) = 0
      BY <3>3 DEF Owed
    <3>5. Allowed(j) \in Nat
      BY CountTypes DEF IInv
    <3> QED
      BY <1>5, <1>6, <2>3, <3>2, <3>3, <3>4, <3>5 DEF Within, StoreWithin
  <2>4. CASE i = j /\ DeleteJob(j)
    <3>1. store[j] # NoJob /\ store'[j] = NoJob
      BY <2>4 DEF DeleteJob, IInv, TypeOK
    <3>2. ASSUME NEW r \in Runs, WillCount(r)', jobOf'[r] = j PROVE CopyWithin(r, j)'
      <4>1. WillCount(r) /\ jobOf[r] = j /\ CopyWithin(r, j) /\ snap[r].count \in Nat
        BY <1>5, <2>1, <2>4, <3>2, CounterHasJob DEF Within
      <4>2. store[j].count \in Nat /\ Allowed(j) \in Nat /\ Owed(j) \in {0, 1} /\ Own(r) \in {0, 1}
        BY <3>1, CountTypes DEF IInv
      <4>3. snap[r].count + Owed(j) <= Allowed(j)
        <5>1. CASE snap[r].count > store[j].count
          BY <3>1, <4>1, <4>2, <5>1 DEF CopyWithin
        <5>2. CASE ~(snap[r].count > store[j].count)
          BY <2>1, <2>4, <3>1, <4>1, <4>2, <5>2 DEF Within, StoreWithin
        <5> QED
          BY <5>1, <5>2
      <4> QED
        BY <1>5, <1>6, <3>1, <4>3 DEF CopyWithin
    <3> QED
      BY <2>4, <3>1, <3>2 DEF Within, StoreWithin
  <2> QED
    BY <2>2, <2>3, <2>4
<1> QED
  BY <1>2, <1>3, <1>7 DEF CInv, CountsWithin

(* A launched job is below its cap: what it may count fits.                *)
LEMMA LaunchKeepsCInv ==
  ASSUME IInv, IInv', CInv, NEW n \in Nat \ {0}, NEW q \in [1..n -> Jobs], Launch(q),
         \A a, b \in 1..n : q[a] = q[b] => a = b,
         \A i \in 1..n : store[q[i]] # NoJob /\ ~CapReached(q[i], store[q[i]]),
         UNCHANGED <<resuming, store, deleted>>
  PROVE  CInv'
<1> DEFINE new == lastRun + 1 .. lastRun + n
<1>1. Len(q) = n
  OBVIOUS
<1>2. /\ lastRun' = lastRun + n /\ new \subseteq Runs /\ lastRun \in Nat
      /\ task'  = [r \in Runs |-> IF r \in new THEN "queued" ELSE task[r]]
      /\ jobOf' = [r \in Runs |-> IF r \in new THEN q[r - lastRun] ELSE jobOf[r]]
      /\ snap'  = [r \in Runs |-> IF r \in new THEN store[q[r - lastRun]] ELSE snap[r]]
  BY <1>1, LimitAssumption DEF Launch, IInv, TypeOK, Runs
<1>3. /\ \A r \in new : r \in Runs /\ r > lastRun /\ r - lastRun \in 1..n
      /\ \A r \in Runs : r \notin new => task'[r] = task[r] /\ jobOf'[r] = jobOf[r] /\ snap'[r] = snap[r]
      /\ \A r \in new : task'[r] = "queued" /\ jobOf'[r] = q[r - lastRun] /\ snap'[r] = store[q[r - lastRun]]
  <2>1. \A r \in new : r \in Runs /\ r > lastRun /\ r - lastRun \in 1..n
    BY <1>2
  <2> HIDE DEF new
  <2> QED
    BY <1>2, <2>1
<1>4. \A r \in Runs : r > lastRun' => r > lastRun
  BY <1>2, LimitAssumption DEF Runs
<1> HIDE DEF new
<1>5. ResumesAreKept'
  BY <1>4 DEF CInv, ResumesAreKept, resuming
<1>6. JobsAreKnown'
  BY <1>3 DEF CInv, JobsAreKnown
<1>7. \A i \in Jobs : Settled(i) \subseteq Settled(i)'
  <2> SUFFICES ASSUME NEW i \in Jobs, NEW p \in Settled(i) PROVE p \in Settled(i)'
    OBVIOUS
  <2>1. /\ p \in Runs \X (1..MaxResumes) /\ jobOf[p[1]] = i /\ p[2] <= resumes[p[1]]
        /\ ~(resume[p[1]] = "agent" /\ p[2] = resumes[p[1]])
    BY DEF Settled
  <2>2. p[1] \in Runs /\ p[2] \in Nat \ {0}
    BY <2>1, BoundAssumption
  <2>3. p[1] \notin new
    BY <1>3, <2>1, <2>2 DEF CInv, ResumesAreKept
  <2> QED
    BY <1>3, <2>1, <2>2, <2>3 DEF Settled, resuming
<1>8. \A r \in Runs : r \notin new => Own(r)' = Own(r) /\ (WillCount(r)' => WillCount(r))
  BY <1>3 DEF Own, WillCount, resuming
<1>9. \A r \in Runs : Own(r) \in {0, 1} /\ Own(r)' \in {0, 1}
  BY DEF Own
<1>10. ASSUME NEW j \in Jobs, Cap[j] > 0 PROVE Within(j)'
  <2>1. Within(j)
    BY <1>10 DEF CInv, CountsWithin
  <2>2. CASE \A i \in 1..n : q[i] # j
    <3>1. \A r \in new : jobOf'[r] # j
      BY <1>3, <2>2
    <3>2. ASSUME NEW r \in Runs, WillCount(r)', jobOf'[r] = j
          PROVE  WillCount(r) /\ jobOf[r] = j /\ snap'[r] = snap[r] /\ Own(r)' <= Own(r)
      <4>1. r \notin new
        BY <3>1, <3>2
      <4>2. Own(r)' <= Own(r)
        BY <1>8, <1>9, <4>1
      <4> QED
        BY <1>3, <1>8, <3>2, <4>1, <4>2
    <3> QED
      BY <1>7, <2>1, <3>2, QuietKeeps
  <2>3. ASSUME NEW i \in 1..n, q[i] = j PROVE Within(j)'
    <3>1. store[j] # NoJob /\ store[j].count \in Nat /\ Cap[j] \in Nat /\ store[j].count < Cap[j]
      <4>1. store[j] # NoJob /\ store[j].count \in Nat /\ Cap[j] \in Nat
        BY <2>3, CountTypes, CapAssumption DEF IInv
      <4> QED
        BY <1>10, <2>3, <4>1 DEF CapReached
    <3>2. Allowed(j) <= Allowed(j)' /\ Allowed(j) \in Nat /\ Allowed(j)' \in Nat
      BY <1>7, AllowanceGrows
    <3>3. Owed(j)' \in {0, 1} /\ Cap[j] <= Allowed(j)'
      BY <3>1, SettledFinite DEF Owed, Allowed
    <3>4. StoreWithin(j)'
      BY <3>1, <3>2, <3>3 DEF StoreWithin
    <3>5. ASSUME NEW r \in Runs, WillCount(r)', jobOf'[r] = j PROVE CopyWithin(r, j)'
      <4>1. CASE r \in new
        <5>1. snap'[r] = store'[j] /\ store'[j] # NoJob /\ store'[j].count \in Nat
          BY <1>3, <3>1, <3>5, <4>1
        <5> QED
          BY <5>1 DEF CopyWithin
      <4>2. CASE r \notin new
        <5>1. WillCount(r) /\ jobOf[r] = j /\ snap'[r] = snap[r] /\ Own(r)' = Own(r)
          BY <1>3, <1>8, <3>5, <4>2
        <5>2. CopyWithin(r, j) /\ snap[r].count \in Nat
          BY <2>1, <5>1, CounterHasJob DEF Within
        <5> QED
          BY <1>9, <3>1, <3>2, <5>1, <5>2 DEF CopyWithin
      <4> QED
        BY <4>1, <4>2
    <3> QED
      BY <3>4, <3>5 DEF Within
  <2> QED
    BY <2>2, <2>3
<1> QED
  BY <1>5, <1>6, <1>10 DEF CInv, CountsWithin

LEMMA LaunchingKeepsCInv ==
  ASSUME IInv, IInv', CInv, Tick \/ ReceiveEvent \/ \E j \in Jobs : TriggerManual(j)
  PROVE  CInv'
<1>1. CASE Tick \/ ReceiveEvent
  <2>1. PICK q \in Orders(Accepted) : Launch(q)
    BY <1>1 DEF Tick, ReceiveEvent
  <2>2. PICK n \in Nat \ {0} :
          q \in [1..n -> Accepted] /\ \A a, b \in 1..n : q[a] = q[b] => a = b
    BY OrderIsList
  <2>3. \A i \in 1..n : store[q[i]] # NoJob /\ ~CapReached(q[i], store[q[i]])
    BY <2>2 DEF Accepted, Admits, Enabled
  <2>4. q \in [1..n -> Jobs]
    BY <2>2 DEF Accepted
  <2>5. UNCHANGED <<resuming, store, deleted>>
    BY <1>1 DEF Tick, ReceiveEvent, files
  <2> QED
    BY <2>1, <2>2, <2>3, <2>4, <2>5, LaunchKeepsCInv
<1>2. ASSUME NEW j \in Jobs, TriggerManual(j) PROVE CInv'
  <2> DEFINE q == <<j>>
  <2>1. Launch(q) /\ ~CapReached(j, store[j]) /\ store[j] # NoJob /\ UNCHANGED <<resuming, store, deleted>>
    BY <1>2 DEF TriggerManual, Admits
  <2>2. /\ q \in [1..1 -> Jobs]
        /\ \A a, b \in 1..1 : q[a] = q[b] => a = b
        /\ \A i \in 1..1 : store[q[i]] # NoJob /\ ~CapReached(q[i], store[q[i]])
    BY <2>1
  <2>3. 1 \in Nat \ {0}
    OBVIOUS
  <2> HIDE DEF q
  <2> QED
    BY <2>1, <2>2, <2>3, LaunchKeepsCInv
<1> QED
  BY <1>1, <1>2

LEMMA NextCInv == IInv /\ CInv /\ [Next]_vars => CInv'
<1> SUFFICES ASSUME IInv, CInv, [Next]_vars PROVE CInv'
  OBVIOUS
<1>0. IInv'
  BY NextIInv
<1>1. CASE Tick \/ ReceiveEvent
  BY <1>0, <1>1, LaunchingKeepsCInv
<1>2. ASSUME NEW j \in Jobs, JobStep(j) PROVE CInv'
  BY <1>0, <1>2, LaunchingKeepsCInv, TriggerSkippedKeepsCInv, StillKeepsCInv, JobKeepsCInv DEF JobStep
<1>3. ASSUME NEW r \in Runs, RunStep(r) PROVE CInv'
  <2>1. CASE TaskStep(r)
    BY <1>0, <2>1, DoneKeepsCInv, CountKeepsCInv DEF TaskStep
  <2>2. CASE PostResume(r) \/ OpenResume(r)
    BY <1>0, <2>2, StillKeepsCInv, StartResumeKeepsCInv DEF OpenResume
  <2>3. CASE ResumeStep(r)
    BY <1>0, <2>3, DoneKeepsCInv, CountKeepsCInv DEF ResumeStep
  <2>4. CASE CrashMidFinish(r)
    BY <1>0, <2>4, DeathKeepsCInv
  <2> QED
    BY <1>3, <2>1, <2>2, <2>3, <2>4 DEF RunStep
<1>4. CASE ProcessStep
  BY <1>0, <1>4, StillKeepsCInv, DeathKeepsCInv DEF ProcessStep
<1>5. CASE UNCHANGED vars
  BY <1>0, <1>5, StillKeepsCInv
<1> QED
  BY <1>1, <1>2, <1>3, <1>4, <1>5 DEF Next

(* The attempt cap: through every crash, deletion, reinsertion and         *)
(* overlapping resume a job's counter exceeds max_runs by no more than the *)
(* number of times its runs were resumed.                                  *)
THEOREM AttemptsAreCapped == Spec => []AttemptsWithinCap
<1>1. Init => IInv /\ CInv
  <2> SUFFICES ASSUME Init PROVE CInv
    BY InitIInv
  <2> USE DEF Init
  <2>1. \A r \in Runs : ~WillCount(r) /\ posts[r] = 0 /\ resumes[r] = 0 /\ jobOf[r] = NoJob
    BY DEF WillCount
  <2>2. ResumesAreKept /\ JobsAreKnown
    BY <2>1, NoJobAssumption, BoundAssumption DEF ResumesAreKept, JobsAreKnown
  <2>3. CountsWithin
    BY <2>1 DEF CountsWithin, Within, StoreWithin
  <2> QED
    BY <2>2, <2>3 DEF CInv
<1>2. IInv /\ CInv => AttemptsWithinCap
  <2> SUFFICES ASSUME IInv, CInv, NEW j \in Jobs, store[j] # NoJob, Cap[j] > 0
               PROVE  LET R == {p \in Runs \X (1..MaxResumes) :
                                  jobOf[p[1]] = j /\ p[2] <= resumes[p[1]]}
                      IN store[j].count <= Cap[j] + Cardinality(R)
    BY DEF AttemptsWithinCap
  <2> DEFINE R == {p \in Runs \X (1..MaxResumes) : jobOf[p[1]] = j /\ p[2] <= resumes[p[1]]}
  <2>1. IsFiniteSet(R)
    <3>1. IsFiniteSet(Runs) /\ IsFiniteSet(1..MaxResumes)
      BY FS_Interval, LimitAssumption, BoundAssumption DEF Runs
    <3>2. IsFiniteSet(Runs \X (1..MaxResumes))
      BY <3>1, FS_Product
    <3> QED
      BY <3>2, FS_Subset
  <2>2. Settled(j) \in SUBSET R
    BY DEF Settled
  <2>3. Cardinality(Settled(j)) <= Cardinality(R) /\ Cardinality(R) \in Nat
    <3> HIDE DEF R
    <3> QED
      BY <2>1, <2>2, FS_Subset, FS_CardinalityType
  <2>4. store[j].count + Owed(j) <= Cap[j] + Cardinality(Settled(j))
    BY DEF CInv, CountsWithin, Within, StoreWithin, Allowed
  <2>5. store[j].count \in Nat /\ Owed(j) \in {0, 1} /\ Cap[j] \in Nat
    BY CountTypes, CapAssumption DEF IInv
  <2> HIDE DEF R
  <2>6. store[j].count <= Cap[j] + Cardinality(R)
    BY <2>3, <2>4, <2>5, SettledFinite
  <2> QED
    BY <2>6 DEF R
<1> QED
  BY <1>1, <1>2, NextIInv, NextCInv, PTL DEF Spec
=============================================================================
