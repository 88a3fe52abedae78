----------------------------- MODULE DaemonRuns -----------------------------
(***************************************************************************)
(* The life of the daemon's runs: the scheduler's reservation set and      *)
(* semaphore (scheduler.py), the run handler with its budget pause and     *)
(* resume (runner.py), the HTTP handlers that launch, resume, edit and     *)
(* drain (api.py), and the process's start, stop and crash (main.py), over *)
(* the two stores that survive it: jobs.json and runs/*.json (store.py).   *)
(*                                                                         *)
(* All of it runs on one asyncio loop, so a handler is atomic up to its    *)
(* next await: an action here is the code between two awaits.  A crash may *)
(* come between any two actions, and between the two files that            *)
(* _finish_run writes.                                                     *)
(***************************************************************************)
EXTENDS Integers, FiniteSets, Sequences

CONSTANTS
  Jobs,           \* job ids
  NoJob,          \* no job: the value of a missing record
  Cap,            \* Cap[j]: the job's max_runs, 0 for unlimited
  MaxConcurrent,  \* BOG_DAEMON_MAX_CONCURRENT_JOBS
  RunLimit,       \* bound: runs ever created
  MaxResumes,     \* bound: resumes of one run, requested or started
  MaxBoots        \* bound: daemon processes ever started

ASSUME NoJobAssumption == NoJob \notin Jobs /\ NoJob \notin [enabled : BOOLEAN, count : Nat]
ASSUME CapAssumption == Cap \in [Jobs -> Nat]
ASSUME LimitAssumption == MaxConcurrent \in Nat \ {0} /\ RunLimit \in Nat
ASSUME BoundAssumption == MaxResumes \in Nat /\ MaxBoots \in Nat

VARIABLES
  stage,          \* "down", "up", "closing", "waiting" or "headless"
  looping,        \* the scheduler's run_forever task is alive
  draining,       \* DaemonScheduler.draining
  boots,          \* daemon processes started so far
  bootMark,       \* runs numbered above it were created by this process
  runningJobs,    \* DaemonScheduler._running_jobs
  semaphore,      \* free permits of DaemonScheduler._semaphore
  task,           \* task[r]: where r's _run_job_safely task is
  pausedRuns,     \* _PAUSED_RUNS
  posts,          \* posts[r]: resume tasks created and not started yet
  resume,         \* resume[r]: where r's resume_paused_run is
  resumes,        \* resumes[r]: how often r was resumed
  lastRun,        \* runs are numbered in the order they are created
  jobOf,          \* jobOf[r]: r's job, NoJob before r is created
  snap,           \* snap[r]: the AmbientJob object a live r's handler holds
  store,          \* jobs.json
  disk,           \* runs/*.json: the status in r's file, or "absent"
  deleted         \* history: jobs a DELETE answered 204 for

process == <<stage, looping, draining, boots, bootMark>>
guards  == <<runningJobs, semaphore, task>>
resuming == <<pausedRuns, posts, resume, resumes>>
created == <<lastRun, jobOf, snap>>
files   == <<store, disk, deleted>>
vars    == <<process, guards, resuming, created, files>>

Runs      == 1..RunLimit
JobRecord == [enabled : BOOLEAN, count : Nat]
Status    == {"absent", "running", "paused", "completed", "failed", "cancelled", "skipped"}
Phase     == {"none", "queued", "agent", "deliver"}

TypeOK ==
  /\ stage \in {"down", "up", "closing", "waiting", "headless"}
  /\ looping \in BOOLEAN /\ draining \in BOOLEAN
  /\ boots \in Nat /\ bootMark \in 0..RunLimit /\ lastRun \in 0..RunLimit
  /\ runningJobs \subseteq Jobs /\ semaphore \in 0..MaxConcurrent
  /\ task \in [Runs -> Phase] /\ resume \in [Runs -> Phase \ {"queued"}]
  /\ pausedRuns \subseteq Runs /\ posts \in [Runs -> Nat] /\ resumes \in [Runs -> Nat]
  /\ jobOf \in [Runs -> Jobs \cup {NoJob}]
  /\ snap \in [Runs -> JobRecord \cup {NoJob}]
  /\ store \in [Jobs -> JobRecord \cup {NoJob}]
  /\ disk \in [Runs -> Status] /\ deleted \subseteq Jobs

Init ==
  /\ stage = "down" /\ looping = FALSE /\ draining = FALSE
  /\ boots = 0 /\ bootMark = 0 /\ lastRun = 0
  /\ runningJobs = {} /\ semaphore = MaxConcurrent
  /\ task = [r \in Runs |-> "none"] /\ resume = [r \in Runs |-> "none"]
  /\ pausedRuns = {} /\ posts = [r \in Runs |-> 0] /\ resumes = [r \in Runs |-> 0]
  /\ jobOf = [r \in Runs |-> NoJob] /\ snap = [r \in Runs |-> NoJob]
  /\ store = [j \in Jobs |-> NoJob]
  /\ disk = [r \in Runs |-> "absent"] /\ deleted = {}

(* Handlers run while a process exists; HTTP is answered until uvicorn     *)
(* has left its main loop.                                                 *)
Alive   == stage # "down"
Serving == stage \in {"up", "closing"}

-----------------------------------------------------------------------------
(* Launching runs *)

CapReachedStrict(j, rec) == Cap[j] > 0 /\ rec.count > Cap[j]
CapReached(j, rec) == Cap[j] > 0 /\ rec.count >= Cap[j]

IgnoresOverlap(j) == ~draining /\ ~CapReached(j, store[j])
IgnoresDrain(j) == ~CapReached(j, store[j]) /\ j \notin runningJobs
(* The three refusals of DaemonScheduler.dispatch, in one test.            *)
Admits(j) == ~draining /\ ~CapReached(j, store[j]) /\ j \notin runningJobs

Enabled(j) == store[j] # NoJob /\ store[j].enabled

(* The jobs that a pass over the store for a tick or an event may launch.  *)
Accepted == {j \in Jobs : Enabled(j) /\ Admits(j)}

(* Every order in which one pass over the jobs can launch some of S.       *)
Orders(S) ==
  {q \in UNION {[1..n -> S] : n \in 1..Cardinality(S)} :
     \A a, b \in DOMAIN q : q[a] = q[b] => a = b}

(* Reserve each job of q and create its task, in that order.  The tasks    *)
(* wait for the semaphore in the order of their creation.                  *)
Launch(q) ==
  LET new == lastRun + 1 .. lastRun + Len(q)
  IN /\ lastRun + Len(q) <= RunLimit
     /\ lastRun' = lastRun + Len(q)
     /\ runningJobs' = runningJobs \cup {q[i] : i \in DOMAIN q}
     /\ task'  = [r \in Runs |-> IF r \in new THEN "queued" ELSE task[r]]
     /\ jobOf' = [r \in Runs |-> IF r \in new THEN q[r - lastRun] ELSE jobOf[r]]
     /\ snap'  = [r \in Runs |-> IF r \in new THEN store[q[r - lastRun]] ELSE snap[r]]

(* One scheduler tick: cron, interval and file triggers are due or not as  *)
(* time and files have it.                                                 *)
Tick ==
  /\ stage = "up" /\ ~draining
  /\ \E q \in Orders(Accepted) : Launch(q)
  /\ UNCHANGED <<process, semaphore, resuming, files>>

(* A git push, GitHub event or webhook matches some enabled jobs; those    *)
(* dispatch refuses are dropped without a record.                          *)
ReceiveEvent ==
  /\ Serving
  /\ \E q \in Orders(Accepted) : Launch(q)
  /\ UNCHANGED <<process, semaphore, resuming, files>>

(* POST /jobs/{id}/run, accepted: the placeholder record is on disk before *)
(* the task runs.  A disabled job may be run by hand.                      *)
TriggerManual(j) ==
  /\ Serving /\ store[j] # NoJob /\ Admits(j)
  /\ Launch(<<j>>)
  /\ disk' = [disk EXCEPT ![lastRun + 1] = "running"]
  /\ UNCHANGED <<process, semaphore, resuming, store, deleted>>

TriggerSkippedUnsaved(j) ==
  /\ Serving /\ store[j] # NoJob /\ ~Admits(j)
  /\ lastRun < RunLimit /\ lastRun' = lastRun + 1
  /\ jobOf' = [jobOf EXCEPT ![lastRun + 1] = j]
  /\ disk'  = [disk EXCEPT ![lastRun + 1] = "running"]
  /\ UNCHANGED <<process, guards, resuming, snap, store, deleted>>

(* POST /jobs/{id}/run, refused: the placeholder is saved again, skipped.  *)
TriggerSkipped(j) ==
  /\ Serving /\ store[j] # NoJob /\ ~Admits(j)
  /\ lastRun < RunLimit /\ lastRun' = lastRun + 1
  /\ jobOf' = [jobOf EXCEPT ![lastRun + 1] = j]
  /\ disk'  = [disk EXCEPT ![lastRun + 1] = "skipped"]
  /\ UNCHANGED <<process, guards, resuming, snap, store, deleted>>

-----------------------------------------------------------------------------
(* The run handler *)

Counted(rec) == [rec EXCEPT !.count = @ + 1]

MergeClobbers(r) == [store EXCEPT ![jobOf[r]] = Counted(snap[r])]

(* record_run_result: merge the run into the stored record, counting it    *)
(* and disabling the job at its cap; if there is no record any more, the   *)
(* handler's own job object is inserted.                                   *)
Merged(r) ==
  LET j   == jobOf[r]
      rec == Counted(store[j])
  IN [store EXCEPT ![j] = IF store[j] = NoJob THEN Counted(snap[r])
                          ELSE [rec EXCEPT !.enabled = @ /\ ~CapReached(j, rec)]]

(* The part of _finish_run before save_run.                                *)
RecordResult(r) ==
  /\ store' = Merged(r)
  /\ snap' = [snap EXCEPT ![r] = Counted(@)]

ReleaseNoPermit(r) ==
  /\ task' = [task EXCEPT ![r] = "none"]
  /\ runningJobs' = runningJobs \ {jobOf[r]}
  /\ UNCHANGED semaphore

(* Leaving _run_job_safely: the permit first, then the reservation.        *)
Release(r) ==
  /\ task' = [task EXCEPT ![r] = "none"]
  /\ semaphore' = semaphore + 1
  /\ runningJobs' = runningJobs \ {jobOf[r]}

(* r's task gets the permit it is first in line for.                       *)
Acquire(r, phase) ==
  /\ Alive /\ task[r] = "queued" /\ semaphore > 0
  /\ \A q \in Runs : task[q] = "queued" => r <= q
  /\ semaphore' = semaphore - 1
  /\ task' = [task EXCEPT ![r] = phase]

(* run_job up to the agent: the record is written unless there is a        *)
(* placeholder, and the agent is invoked.                                  *)
StartRun(r) ==
  /\ Acquire(r, "agent")
  /\ disk' = [disk EXCEPT ![r] = "running"]
  /\ UNCHANGED <<process, runningJobs, resuming, created, store, deleted>>

(* The agent is not invoked: the prompt cannot be built (failed), or the   *)
(* job's daily ceiling is spent (skipped).  Both are finished like a run.  *)
RefuseRun(r) ==
  /\ Acquire(r, "deliver")
  /\ \E s \in {"failed", "skipped"} : disk' = [disk EXCEPT ![r] = s]
  /\ RecordResult(r)
  /\ UNCHANGED <<process, runningJobs, resuming, lastRun, jobOf, deleted>>

(* What _invoke_agent_with_retry comes to: an output, or the error of the  *)
(* last attempt or of its timeout.                                         *)
Outcomes == {"completed", "failed"}

(* The agent has ended, after any retries; the outputs are being delivered.*)
EndAgent(r) ==
  /\ task[r] = "agent"
  /\ task' = [task EXCEPT ![r] = "deliver"]
  /\ \E s \in Outcomes : disk' = [disk EXCEPT ![r] = s]
  /\ RecordResult(r)
  /\ UNCHANGED <<process, runningJobs, semaphore, resuming, lastRun, jobOf, deleted>>

(* The agent hit the job's budget: the graph is parked and the task ends.  *)
PauseRun(r) ==
  /\ task[r] = "agent"
  /\ Release(r)
  /\ pausedRuns' = pausedRuns \cup {r}
  /\ disk' = [disk EXCEPT ![r] = "paused"]
  /\ RecordResult(r)
  /\ UNCHANGED <<process, posts, resume, resumes, lastRun, jobOf, deleted>>

(* Every output was delivered or given up.                                 *)
EndDelivery(r) ==
  /\ task[r] = "deliver"
  /\ Release(r)
  /\ snap' = [snap EXCEPT ![r] = NoJob]
  /\ UNCHANGED <<process, resuming, lastRun, jobOf, files>>

-----------------------------------------------------------------------------
(* Resuming a paused run *)

(* POST /runs/{id}/resume: the run is parked, a task is created.           *)
PostResume(r) ==
  /\ Serving /\ r \in pausedRuns
  /\ posts[r] + resumes[r] < MaxResumes
  /\ posts' = [posts EXCEPT ![r] = @ + 1]
  /\ UNCHANGED <<process, guards, pausedRuns, resume, resumes, created, files>>

ResumeKeepsParked(r) ==
  /\ posts[r] > 0 /\ r \in pausedRuns
  /\ posts' = [posts EXCEPT ![r] = @ - 1]
  /\ resumes' = [resumes EXCEPT ![r] = @ + 1]
  /\ resume' = [resume EXCEPT ![r] = "agent"]
  /\ disk' = [disk EXCEPT ![r] = "running"]
  /\ UNCHANGED <<process, guards, pausedRuns, created, store, deleted>>

(* The resume task takes the parked graph and continues it, under neither  *)
(* the reservation nor the semaphore.                                      *)
StartResume(r) ==
  /\ posts[r] > 0 /\ r \in pausedRuns
  /\ posts' = [posts EXCEPT ![r] = @ - 1]
  /\ resumes' = [resumes EXCEPT ![r] = @ + 1]
  /\ pausedRuns' = pausedRuns \ {r}
  /\ resume' = [resume EXCEPT ![r] = "agent"]
  /\ disk' = [disk EXCEPT ![r] = "running"]
  /\ UNCHANGED <<process, guards, created, store, deleted>>

(* A second request's task finds the graph gone: KeyError ends it.         *)
LoseResume(r) ==
  /\ posts[r] > 0 /\ r \notin pausedRuns
  /\ posts' = [posts EXCEPT ![r] = @ - 1]
  /\ UNCHANGED <<process, guards, pausedRuns, resume, resumes, created, files>>

EndResume(r) ==
  /\ resume[r] = "agent"
  /\ resume' = [resume EXCEPT ![r] = "deliver"]
  /\ \E s \in Outcomes : disk' = [disk EXCEPT ![r] = s]
  /\ RecordResult(r)
  /\ UNCHANGED <<process, guards, pausedRuns, posts, resumes, lastRun, jobOf, deleted>>

PauseAgainUnparked(r) ==
  /\ resume[r] = "agent"
  /\ resume' = [resume EXCEPT ![r] = "none"]
  /\ disk' = [disk EXCEPT ![r] = "paused"]
  /\ RecordResult(r)
  /\ UNCHANGED <<process, guards, pausedRuns, posts, resumes, lastRun, jobOf, deleted>>

(* The raised budget was spent too: parked again.                          *)
PauseAgain(r) ==
  /\ resume[r] = "agent"
  /\ resume' = [resume EXCEPT ![r] = "none"]
  /\ pausedRuns' = pausedRuns \cup {r}
  /\ disk' = [disk EXCEPT ![r] = "paused"]
  /\ RecordResult(r)
  /\ UNCHANGED <<process, guards, posts, resumes, lastRun, jobOf, deleted>>

ResumeReturnsPermit(r) ==
  /\ resume[r] = "deliver"
  /\ resume' = [resume EXCEPT ![r] = "none"]
  /\ semaphore' = semaphore + 1
  /\ snap' = [snap EXCEPT ![r] = NoJob]
  /\ UNCHANGED <<process, runningJobs, task, pausedRuns, posts, resumes, lastRun, jobOf, files>>

EndResumeDelivery(r) ==
  /\ resume[r] = "deliver"
  /\ resume' = [resume EXCEPT ![r] = "none"]
  /\ snap' = [snap EXCEPT ![r] = NoJob]
  /\ UNCHANGED <<process, guards, pausedRuns, posts, resumes, lastRun, jobOf, files>>

-----------------------------------------------------------------------------
(* Editing jobs *)

(* POST /jobs: a new job gets a fresh id, so a deleted one never returns.  *)
CreateJob(j) ==
  /\ Serving /\ store[j] = NoJob /\ j \notin deleted
  /\ \E e \in BOOLEAN : store' = [store EXCEPT ![j] = [enabled |-> e, count |-> 0]]
  /\ UNCHANGED <<process, guards, resuming, created, disk, deleted>>

(* POST /jobs/{id}/enable and /disable, or PATCH of "enabled".             *)
SetEnabled(j) ==
  /\ Serving /\ store[j] # NoJob
  /\ store' = [store EXCEPT ![j].enabled = ~@]
  /\ UNCHANGED <<process, guards, resuming, created, disk, deleted>>

(* DELETE /jobs/{id}: the record goes, whatever runs the job has.          *)
DeleteJob(j) ==
  /\ Serving /\ store[j] # NoJob
  /\ store' = [store EXCEPT ![j] = NoJob]
  /\ deleted' = deleted \cup {j}
  /\ UNCHANGED <<process, guards, resuming, created, disk>>

-----------------------------------------------------------------------------
(* Drain, stop, crash and start *)

(* POST /drain *)
Drain ==
  /\ Serving /\ draining' = TRUE
  /\ UNCHANGED <<stage, looping, boots, bootMark, guards, resuming, created, files>>

(* POST /shutdown: drain, leave the server's loop, cancel the scheduler.   *)
RequestShutdown ==
  /\ Serving
  /\ stage' = "closing" /\ draining' = TRUE /\ looping' = FALSE
  /\ UNCHANGED <<boots, bootMark, guards, resuming, created, files>>

(* SIGTERM or SIGINT: drain and leave the server's loop, no more.          *)
Signal ==
  /\ stage = "up"
  /\ stage' = "closing" /\ draining' = TRUE
  /\ UNCHANGED <<looping, boots, bootMark, guards, resuming, created, files>>

(* serve() returns.  The task group still waits for the scheduler's task:  *)
(* a child that ends normally does not cancel its siblings.                *)
ServerExits ==
  /\ stage = "closing"
  /\ stage' = IF looping THEN "headless" ELSE "waiting"
  /\ UNCHANGED <<looping, draining, boots, bootMark, guards, resuming, created, files>>

(* The process is gone and its memory with it.                             *)
LoseMemory ==
  /\ stage' = "down" /\ looping' = FALSE /\ draining' = FALSE
  /\ runningJobs' = {} /\ semaphore' = MaxConcurrent
  /\ task' = [r \in Runs |-> "none"] /\ resume' = [r \in Runs |-> "none"]
  /\ pausedRuns' = {} /\ posts' = [r \in Runs |-> 0]
  /\ snap' = [r \in Runs |-> NoJob]
  /\ UNCHANGED <<boots, bootMark, resumes, lastRun, jobOf, deleted>>

(* The scheduler's tasks are done or thirty seconds are over: those left   *)
(* are cancelled, and the closing event loop cancels the resumed runs.     *)
(* Only run_job, inside the agent, records its cancellation.               *)
FinishShutdown ==
  /\ stage = "waiting" /\ LoseMemory
  /\ disk' = [r \in Runs |-> IF task[r] = "agent" THEN "cancelled" ELSE disk[r]]
  /\ UNCHANGED store

Crash == Alive /\ LoseMemory /\ UNCHANGED <<store, disk>>

(* _finish_run writes jobs.json, then the run's file: a crash between.     *)
CrashMidFinish(r) ==
  /\ task[r] = "agent" \/ resume[r] = "agent"
  /\ LoseMemory /\ store' = Merged(r) /\ UNCHANGED disk

Orphans == {r \in Runs : disk[r] = "running"}
ReconcileNothing(F) == disk' = disk
(* reconcile_orphaned_runs on the records F.                               *)
Reconcile(F) == disk' = [r \in Runs |-> IF r \in F THEN "failed" ELSE disk[r]]

(* Start: every orphan is failed before the server and scheduler start.    *)
Boot ==
  /\ stage = "down" /\ boots < MaxBoots
  /\ Reconcile(Orphans)
  /\ stage' = "up" /\ looping' = TRUE
  /\ boots' = boots + 1 /\ bootMark' = lastRun
  /\ UNCHANGED <<draining, guards, resuming, created, store, deleted>>

(* The start dies while it reconciles: some orphans stay.                  *)
CrashMidBoot ==
  /\ stage = "down" /\ boots < MaxBoots
  /\ \E F \in (SUBSET Orphans) \ {Orphans} : Reconcile(F)
  /\ boots' = boots + 1
  /\ UNCHANGED <<stage, looping, draining, bootMark, guards, resuming, created, store, deleted>>

-----------------------------------------------------------------------------
TaskStep(r) ==
  \/ StartRun(r) \/ RefuseRun(r) \/ EndAgent(r) \/ PauseRun(r) \/ EndDelivery(r)

OpenResume(r)  == StartResume(r) \/ LoseResume(r)
ResumeStep(r) == EndResume(r) \/ PauseAgain(r) \/ EndResumeDelivery(r)

RunStep(r) ==
  \/ TaskStep(r) \/ PostResume(r) \/ OpenResume(r) \/ ResumeStep(r)
  \/ CrashMidFinish(r)

JobStep(j) ==
  \/ TriggerManual(j) \/ TriggerSkipped(j)
  \/ CreateJob(j) \/ SetEnabled(j) \/ DeleteJob(j)

ProcessStep ==
  \/ Drain \/ RequestShutdown \/ Signal \/ ServerExits \/ FinishShutdown
  \/ Crash \/ Boot \/ CrashMidBoot

Next ==
  \/ Tick \/ ReceiveEvent
  \/ \E j \in Jobs : JobStep(j)
  \/ \E r \in Runs : RunStep(r)
  \/ ProcessStep

Spec == Init /\ [][Next]_vars

(* Of a run's task one step at most is enabled at a time: the semaphore    *)
(* wakes its waiters in order, agents and deliveries end or time out.      *)
(* Created resume tasks start, uvicorn leaves its loop, and the stop waits *)
(* thirty seconds at most.  Nobody has to start, resume or stop anything.  *)
Fairness ==
  /\ \A r \in Runs : WF_vars(TaskStep(r)) /\ WF_vars(OpenResume(r)) /\ WF_vars(ResumeStep(r))
  /\ WF_vars(ServerExits) /\ WF_vars(FinishShutdown)

FairSpec == Spec /\ Fairness

-----------------------------------------------------------------------------
(* Safety *)

Holding   == {r \in Runs : task[r] \in {"agent", "deliver"}}
Executing == {r \in Runs : task[r] = "agent" \/ resume[r] = "agent"}
InFlight  == {r \in Runs : task[r] # "none"}   \* _bg_tasks, /health's "running"

(* The reservation set of the scheduler is exactly the jobs of its live    *)
(* tasks, and a job never has two of them: reserving at launch and         *)
(* releasing in the task's finally neither overlaps runs of a job nor      *)
(* leaves it barred for good.                                              *)
ReservationExact ==
  /\ runningJobs = {jobOf[r] : r \in InFlight}
  /\ \A r, s \in InFlight : jobOf[r] = jobOf[s] => r = s

(* Permits are neither lost nor made up on any path out of a run (pause,   *)
(* refusal, failure, delivery), so at most MaxConcurrent runs of the       *)
(* scheduler are past the semaphore.                                       *)
PermitsExact == semaphore + Cardinality(Holding) = MaxConcurrent

(* A run's agent is executed by at most one task, however often it is      *)
(* paused and its resume requested: the parked graph is taken, not shared. *)
OneExecutor ==
  \A r \in Runs : /\ task[r] # "none" => resume[r] = "none" /\ r \notin pausedRuns
                  /\ r \in pausedRuns => resume[r] = "none"

(* While a daemon serves, the run files say what is going on: a run shown  *)
(* running is queued or executing in this process, and a run of this       *)
(* process shown paused can be resumed.                                    *)
RecordsTellTruth ==
  Alive => \A r \in Runs :
    /\ disk[r] = "running" => task[r] \in {"queued", "agent"} \/ resume[r] = "agent"
    /\ disk[r] = "paused" /\ r > bootMark => r \in pausedRuns

(* The attempt cap: executions are counted at most once per start or       *)
(* resume, and no run is launched at the cap, so a job's counter exceeds   *)
(* max_runs by no more than the number of resumes of its runs, through     *)
(* crashes, deletions and overlapping resumed runs.                        *)
AttemptsWithinCap ==
  \A j \in Jobs : store[j] # NoJob /\ Cap[j] > 0 =>
    store[j].count <= Cap[j] + Cardinality({p \in Runs \X (1..MaxResumes) :
                                  jobOf[p[1]] = j /\ p[2] <= resumes[p[1]]})

(* A run's result is merged into the job's record, which may have been     *)
(* edited since the run was launched: the step that counts it never        *)
(* enables a job that was disabled meanwhile, and no step takes back a     *)
(* count another run of the job has left.                                  *)
NoLostUpdate ==
  [][\A j \in Jobs : store[j] # NoJob /\ store'[j] # NoJob =>
       /\ store'[j].count >= store[j].count
       /\ store'[j].count > store[j].count /\ store'[j].enabled => store[j].enabled]_vars

(* POST /drain "stops starting new runs": the count that the drain command *)
(* polls for zero never rises again, whichever of ticks, events, manual    *)
(* triggers and resumes come in.                                           *)
DrainShrinks == [][draining /\ draining' => InFlight' \subseteq InFlight]_vars

(* The run records behave as RunLedger promises.                           *)
Ledger == INSTANCE RunLedger WITH record <- disk, up <- Alive
KeepsLedger == Ledger!Spec

-----------------------------------------------------------------------------
(* Liveness *)

(* A reserved job is free again in the end: its task gets its permit       *)
(* behind those queued before it, ends, and leaves the reservation set.    *)
ReservationEnds == \A j \in Jobs : j \in runningJobs ~> j \notin runningJobs

(* No run is shown running for ever by a daemon that lives on.             *)
RunsSettle == \A r \in Runs : disk[r] = "running" ~> disk[r] # "running" \/ ~Alive

-----------------------------------------------------------------------------
(* Claims of the code's documentation that the code does not keep *)

(* scheduler.py: _running_jobs holds the jobs "currently being executed to *)
(* prevent overlap"; README.md: clients poll the number of runs in flight  *)
(* "so a restart never kills a live run".  Whatever is executed is counted *)
(* and reserved.  A resumed run is neither.                                *)
ExecutionIsScheduled ==
  \A r \in Executing : r \in InFlight /\ jobOf[r] \in runningJobs

(* main.py: the daemon "drains in-flight tasks before exiting" on SIGTERM  *)
(* and SIGINT: a stopping daemon goes down.                                *)
StopEnds == stage = "closing" ~> stage = "down"
=============================================================================
