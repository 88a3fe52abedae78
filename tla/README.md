# Verification of the Bog Agents daemon, coordination code and turn loop

TLA+ models of the parts of this repository whose correctness depends on the
order in which things happen, TLC runs that check them on small instances, and
theorems about them that the TLA+ proof system (TLAPS) checks for every value of
the constants. Sources are cited relative to `src/`; the daemon's are in
`libs/daemon/bog_agents_daemon/`.

## 1. Inventory

The repository holds an agent SDK (`libs/bog-agents`), a terminal application
(`libs/cli`), a background daemon (`libs/daemon`), an ACP server, an editor
extension, an evaluation harness and partner packages. The code with state of
its own that must survive concurrency, failures and restarts is this:

| Component | State | Operations | Hard behaviours | What makes it correct |
|---|---|---|---|---|
| Scheduler (`scheduler.py`, `models.py`) | `_running_jobs`, `_semaphore`, `_bg_tasks`, `draining`, debounce times | tick, dispatch, run a job under the guards, drain | ticks, webhooks and manual triggers race; every exit path must give back what it took | one task per job, permits balance, drain shrinks, a reservation ends |
| Run handler (`runner.py`) | `_PAUSED_RUNS`, `_RESUME_TASKS`, the job object of each run | run, pause on budget, resume, finish, deliver, cancel | results merged minutes later; double resumes; retries, timeouts | one executor per run, no lost update, truthful records |
| Stores (`store.py`) | `jobs.json`, `runs/*.json` | load, save, upsert, merge a result, delete, prune, reconcile | crash between write and rename, corrupt file, failed read, crash between two files | a write changes one job, and only who was refused the list writes over others; settled records stay; orphans are failed |
| HTTP API (`api.py`) | the token | create, edit, delete, trigger, resume, drain, shutdown, webhooks | handlers interleave with runs | no handler breaks the above |
| Process (`main.py`) | PID and token files, signal flags, task group | start, reconcile, signals, shutdown, final wait | stop races runs; crash anywhere; two instances | a stop ends; start leaves no orphan |
| File watcher (`file_watch.py`, with the debounce of `scheduler.py`) | observer thread, event buffers, watches, debounce times | sync, record, query, detect | late events against ticks and runs; shared directories; restarts; full buffers, capped walks | a change that can be seen is answered by a later run, once |
| Turn loop (CLI `app.py`, `turn_manager.py`) | busy flags, worker handles, `_pending_messages`, the drain flag | submit, queue, edit the queue, start a turn, drain, compact, interrupt | handlers, ends of turns and background prompts race; interrupts at any await and before a first step | no message lost to a race or run twice, flags have owners, the queue drains |
| Agent teams (SDK `teams.py`, `cost_ledger.py`) | task board, mailbox, cap counters | claim, complete, fail, rounds under caps | rounds, caps, blocked dependencies | a task has one owner, caps hold, the board drains or says why not |
| Workflows (CLI `workflow.py`, `workflow_controller.py`) | run record with phases and meters, its file | run, pause on budget, gate, retry, resume | death, failed saves and resume between any two steps; budgets, ceilings and failures coincide; edited workflows | phases close in order, no task saved as finished is run again, the file's spend and ending are true |
| Peat scheduler (CLI `peat/scheduler.py`, `peat/jobs.py`) | job files, table of fires in flight, run lock | tick, fire, edit, stop | edits during a fire, quits and restarts, fires that never get the agent | one fire of a job at a time, one fire per instant, a quit kills none, due jobs are fired |
| Background shell (SDK `backends/background_shell.py`) | registry of processes | start, adopt, wait, kill, close | start races close | close leaves no process |
| Session registry (SDK `session_registry.py`) | record files | register, heartbeat, prune, unregister | heartbeat races removal, several processes | a removed session stays removed |
| Action log (SDK `action_log.py`) | chained file, head | append, verify, export | failed append, restart | what is appended verifies |

Everything else (graph assembly, middleware that transforms messages or decides
on tool calls, sandbox and file adapters, the terminal UI, batch analyses, the
ACP server, installers) is listed in `PROJECT.json` with the reason it is not
modelled: it keeps no state of its own, or is I/O, presentation or text work.

How the daemon's parts interact: one asyncio loop runs the scheduler's tick, the
HTTP handlers and one task per run. Handlers and ticks call
`DaemonScheduler.dispatch`, which reserves the job and creates a task; the task
waits for the semaphore and calls `run_job`, which writes the run's record,
invokes the agent, merges the outcome into `jobs.json`, rewrites the record and
delivers the outputs. A run that spends its budget is parked in memory; a resume
request creates a task that takes it from there, outside the scheduler. Stores
are files, shared with the next process.

An agent team lives on the event loop of the terminal application: `/team run`
or a workflow phase builds a board and calls `run_team`, which starts a round's
teammates as coroutines and waits for all of them; the `/tasks` command reaches
the team through the handle the application keeps, its pause gate and its worker.
A workflow is a sequence of such teams over one saved record.

The application itself is one event loop: a message pump handles what the user
types, one message at a time; turns, shell commands and drains of the queue are
tasks beside it. The Peat scheduler's fires end up there too:
`_run_peat_unattended` waits for the run lock and an idle turn, and sends its
prompt as a background prompt. In the daemon, only the observer of watched
directories is a thread of its own; it meets the tick in the event buffers.

The hazards of this code, each at its line with the properties that cover it or
the reason none does yet, are in `PROJECT.json`.

## 2. Modules

| Module | Kind | Contents |
|---|---|---|
| `RunLedger` | abstract | what the daemon promises about run records |
| `DaemonRuns` | detailed | scheduler, run handler, API and process over both stores; implements `RunLedger` |
| `MCDaemonRuns` | TLC | instances of `DaemonRuns` |
| `DaemonRunsProofs` | proofs | inductive invariant, safety, attempt cap, action properties, refinement |
| `JobTable` | abstract | what the daemon promises about the job list |
| `JobStore` | detailed | `jobs.json` down to the temporary file; implements `JobTable` |
| `MCJobStore` | TLC | instances of `JobStore` |
| `JobStoreProofs` | proofs | type correctness, refinement of `JobTable` |
| `TaskBoard` | abstract | what a team promises about its task board |
| `Team` | detailed | `run_team` with its caps, and the user's side of `/team run`; implements `TaskBoard` |
| `MCTeam` | TLC | instances of `Team` |
| `TeamProofs` | proofs | inductive invariant, type correctness, safety, refinement |
| `PhaseLedger` | abstract | what a workflow run promises of its saved state |
| `Workflow` | detailed | one workflow's run through sessions, deaths and resumes; implements `PhaseLedger` |
| `MCWorkflow` | TLC | the workflows that are run |
| `WorkflowProofs` | proofs | inductive invariant, type correctness, true endings, spend and budget, refinement |
| `FileTrigger` | detailed | `file_watch.py` with the scheduler's detection and debounce |
| `MCFileTrigger` | TLC | two jobs and their triggers |
| `FileTriggerProofs` | proofs | no change owed to a job escapes its checks; type correctness |
| `TurnLoop` | detailed | the turns and the message queue of the application |
| `MCTurnLoop` | TLC | an instance of `TurnLoop` |
| `TurnLoopProofs` | proofs | types and owners of the flags, one place and one order for messages |
| `PeatScheduler` | detailed | scheduled Peat jobs, their fires and the user's commands |
| `MCPeatScheduler` | TLC | a one-shot and a recurring job |
| `PeatSchedulerProofs` | proofs | types, single fire, fires per instant, orderly stop |
| `InductionFacts` | lemmas | recursion on a counter, running totals, small cardinalities |

A definition of a module that no other uses (`UserTurnOldHandle`,
`EndRunByClock`, ...) states a plausible bug in the definition that follows it;
the property named with it in `PROJECT.json` fails when it takes that place.

### DaemonRuns

| Variable | Code |
|---|---|
| `stage` | `main.py`: no process (`down`); serving (`up`); `server.should_exit` set (`closing`); in the final wait (`waiting`); server gone, task group still waiting for the scheduler (`headless`) |
| `looping` | the `run_forever` task |
| `draining`, `runningJobs`, `semaphore` | the scheduler's fields of these names |
| `task[r]` | where run r's `_run_job_safely` task is: waiting for the semaphore, in the agent, delivering; together the `_bg_tasks` set |
| `pausedRuns`, `posts`, `resume[r]` | `_PAUSED_RUNS`, the resume tasks created and not yet started, and where a started one is |
| `snap[r]` | the `AmbientJob` object the handler of r holds |
| `store`, `disk` | `jobs.json` (enabled flag and run count of each job) and the status in each run's file |
| `boots`, `bootMark`, `resumes`, `deleted`, `lastRun`, `jobOf` | bounds and history |

Actions are the code between two awaits, since nothing else can run there:
`Tick` and `ReceiveEvent` launch any admissible jobs, in any order (no `await` in
a tick or webhook handler suspends between the test and the reservation);
`TriggerManual` and `TriggerSkipped` are the two outcomes of a manual trigger;
`StartRun`, `RefuseRun`, `EndAgent`, `PauseRun`, `EndDelivery` are a run;
`PostResume`, `StartResume`, `LoseResume`, `EndResume`, `PauseAgain`,
`EndResumeDelivery` a resume; `CreateJob`, `SetEnabled`, `DeleteJob` the edits;
`Drain`, `RequestShutdown`, `Signal`, `ServerExits`, `FinishShutdown`, `Crash`,
`CrashMidFinish`, `Boot`, `CrashMidBoot` the process.

Abstractions. Whether a trigger is due, the agent's work, retries, timeouts and
spend, and the outcome of deliveries are nondeterministic choices. A crash
between the two files of `_finish_run` is `CrashMidFinish`; the same crash in a
refused run has the same effect as `StartRun` followed by it, and a crash between
a placeholder and its second save is `TriggerManual` followed by `Crash`.
`FinishShutdown` may come before thirty seconds have passed, which only adds
behaviours. Not modelled here: failing disk writes in a process that lives on,
editing `max_runs` (it is the constant `Cap`), pruning of run files, a second
daemon on the same files. uvicorn is external: it leaves its loop once
`should_exit` is set and answers requests until then.

### JobStore

`shape`, `table` are the file at the path (missing, a list, one that does not
parse, one that is not UTF-8) and the jobs in it; `pending` is the temporary file
written and not yet renamed; `aside` the quarantined files; `held` the job objects
of runs. Every operation is `Load` followed by `Save`, as in the code; `Rename`,
`SaveFails` and `Crash` end it.

What the operating system may refuse is a parameter: `ReadsMayFail` for
`read_text`, `MovesMayFail` for the rename of `_quarantine_corrupt_jobs`. Either is
logged and swallowed, the operation goes on with an empty list, and the file stays
where it is, to be replaced if the operation saves; the history `refused` marks
such an operation. `JobTable` therefore has two kinds of writers: one that saw the
list changes one job, one that was refused (`blind`) leaves its one job and nothing
else (`WriteOver`). Bytes that are not UTF-8 raise `UnicodeDecodeError`, which
nothing in the store catches: the operation ends with nothing changed, and the file
is neither read nor set aside (`LoadRaises`; it is a step only for `RecordResult`,
whose run is over all the same). The lock and the single event loop keep operations
from overlapping; two processes over the same file are outside this module.

### Team

| Variable | Code |
|---|---|
| `deps`, `status` | `LedgerTask.depends_on` and `.status`; a task is its place in `_order` |
| `limit` | `RunawayCaps.max_subagents` (`None` is a number never reached) and `max_activations` |
| `phase`, `taken`, `reason`, `activations` | where `run_team` is in its loop, `len(assignments)`, its locals |
| `holds[m]`, `stage[m]` | the task assigned to member m, and how far m's coroutine is: not started, waiting at the pause gate, in the agent, done, failed |
| `spawns`, `overspent` | `CostLedger._subagent_spawns`; whether `check_cost` would deny |
| `paused`, `cancelling`, `handle` | the pause gate closed, the worker cancelled, `TeamRunHandle.status` |

`BeginRound`, `Offer`, `EndOffers` and `EndRound` are a round of `run_team`: the
test of the board and the cost cap, one member paying for a spawn and claiming,
the end of the offers (cap, empty-handed member, or all members served), and the
write-back with the ceilings. `Start` and `Return` are a teammate's coroutine;
`Pause`, `Resume`, `Kill` and `Interrupt` the user; `Abort` the cancelled worker
reaching `finish_team_run`. The coordinator awaits only the gather, so the user
and the teammates act only while `phase` is `work`.

`Wired` is `build_ledger`: dependencies go through titles, and of two tasks of
one title only the last can be depended on or has dependencies. `Requests` holds
what `parse_team_run_args` makes of a command (`Chained`, `Independent`) and,
through `MCTeam`, arbitrary dependency graphs as a workflow phase may have them.

Abstractions. The cost cap may be reached by any charge, so `overspent` can be
set when a teammate returns and is never unset. A teammate that is in its agent
returns or raises at any time. The text of results, the mailbox (which only adds
notes to prompts), attachments and owners as shown on the board are left out.

### Workflow

| Variable | Code |
|---|---|
| `plan` | the workflow file: phase and prerequisites of each task, gates, workers |
| `disk` | what `latest_run` finds: the run's file, or none |
| `behind` | the session's last save failed, and it goes on |
| `run`, `index`, `stage` | the `WorkflowRun` of the session, the phase it is at, and where in `run_workflow` it is |
| `board`, `round`, `count` | the phase's `TaskLedger`, the round of `run_team` in progress, spawns of the session and activations of the phase |
| `limits`, `budget_hit` | `budget_usd` and `max_agents` of the session, the flag of this name |
| `paid`, `lost` | history: what all attempts of the run have cost, and what of that no record shows |

`RunWorkflow` and `Resume` are the two commands; `BeginPhase`, `Round`,
`TaskReturns`, `RoundOver`, `BoardDone` a phase, each with the save of the run
the code makes in it; `PhasePausesOnBudget`, `PhaseUnfinished`, `GateFails`,
`PhaseDone`, `PauseAfterPhase` and `WorkflowDone` the ways on; `SessionDies` is
Esc or the end of the application at any of these steps, and `EditWorkflow` adds
phases to the workflow file or removes some between sessions.

Every save may fail (`WriteFails`): `_persist` passes over the `OSError`, the
session goes on, and the file is as it was or, since it is written in place, no
longer loads. The next save makes up for it; a session that ends first leaves what
there is. A resume of a workflow that has another number of phases makes every
record anew (`Loaded`) before it looks at the budget, so that finished tasks and
their spend are forgotten. What an attempt costs is chosen before it is known what
of it is recorded: a runner that raises records nothing (`told`), and attempts cut
off with their session record nothing either. `lost` keeps account of all of
these, and `paid` is not read off the meters.

A round is `Team`'s with the coordinator's single steps taken together (nothing
else in a session acts between them), without the user's pause and without the cost
cap, since a phase's team has a `CostLedger` that nothing charges. A file cut
short by a death counts as no run, for `latest_run` skips it. The module follows
one run: a second `/workflow run` is a run with a file of its own. Left out are
which of several files `latest_run` picks (an older run of the workflow when the
newest does not load, and a run of another workflow when that one's name begins
with this one's and a hyphen, `workflow.py:503`), edits of a workflow that keep the
number of its phases (records are then matched by position, and a new task gets a
meter of its own), a budget of exactly 0, which no session passes, authoring and
validation of workflow files, prompts and outputs; a task's attempt has a cost, an
outcome and a verdict.

### FileTrigger

| Variable | Code |
|---|---|
| `present`, `files` | the directories that exist, and those with a matching file among the first `_FILE_TRIGGER_MAX_FILES` |
| `_watches` | the directories with a live watch (the collector's field) |
| `transit` | changes the observer thread has not recorded yet |
| `newer[j]`, `recorded[j]` | the directories in which such a file has a modification time, or a recorded event a time, newer than j's `last_run_at` |
| `mark[j]` | the same for the start of j's run in flight |
| `ran[j]` | `last_run_at > 0` |
| `_file_change_pending[j]` | the debounce entry: none, first seen, window over |
| `run[j]`, `enabled[j]`, `up` | the job's run, its flag, the scheduler loop |
| `owed[j]` | history: directories with a change, after j's last start, that j's checks were and still are in a position to find |

Time is kept as what is newer than what, since the code only compares times:
`StartRun` empties the mark (nothing is newer than now), a change adds to it,
and `EndRun` makes it the job's, because `last_run_at` is the start of the run
that ended. `Tick` is one pass of the loop: `sync` of the watches, then
`_check_job_triggers` of every job, its triggers in order. `Record`
is the observer thread's, at any time after the change. A directory outside
`Watchable` is one the observer cannot watch and the walk of the tree serves; the
walk also serves a job that has never run.

Not every change can be found, and the model says which. The walk goes by
modification times and gives up at its cap: a file written there is found
(`Change`), one moved or unpacked with an old time only by the jobs whose last run
is older still (`MoveIn`), one beyond the cap by nobody (`ChangeBeyond`), and a file
that goes, or falls behind the cap when others appear before it, takes its change
along (`Vanish`). A watch sees all of these, but its buffer holds 4096 events, those
of files no job asks for included, and a burst drives the others out (`Overflow`).
`owed` has what is left: `NoBlindSpot` and `ChangeFires` speak of those changes only.

Left out: cron, interval and webhook triggers (see `DaemonRuns`), pruned
directories, removal of a directory (a watch outlives it, `file_watch.py:150`),
files that cannot be examined, the granularity of the clock and of modification
times, failures of the observer, a change of what it can watch, drains, run caps,
and runs paused on their budget, whose end sets `last_run_at` back to an older
start.

### TurnLoop

| Variable | Code |
|---|---|
| `agent_running`, `agent_worker`, `shell_running`, `shell_worker` | `TurnManager`'s flags and handles, `_shell_worker` |
| `pending`, `processing` | `_pending_messages`, `_processing_pending` |
| `handler[h]` | the message the pump, a drain or the initial prompt's task is in the middle of, and at which await |
| `on_pump` | the drain in progress is awaited by the pump itself, which takes no event meanwhile |
| `tasks` | turns, tracked sessions, shell commands and spawned drains, in the order they were created |
| `server`, `initial` | connecting, ready or failed; the initial prompt |

`Submit`, `BackgroundPrompt` and `PollSessionQueue` bring messages in, `Handle(h)`
is one step of handling a message by its mode (a turn, a shell command, a prompt
that may be deferred again, a session, `/clear`, the five steps of `/compact`, the
three ways in which `/tasks` changes the queue without a look at the flags, or
nothing), `Proceed(t)` one step of a task, with the cleanup's two passes over the
flags on either side of its await and the drain at its end; `Interrupt`,
`ServerReady` and `ServerFails` are what their names say. Between two awaits the
loop runs nothing else, so each of these is one step.

A task is `created` before it is `running`: flag and handle are set when the worker
is made, and the coroutine, whose `finally` lowers the flag, is entered with its
first step (`Begin`). An interrupt in between leaves it `lost`, as one during the
awaits that settle a turn does (`Cancelled`). `/tasks` counts as the command it is:
`SteerCommand` appends a prompt and drains nothing, `EditCommand` replaces one in its
place (a raw prompt is then handled as if typed), `DropCommand` removes one.

Left out: widgets, streaming, approvals, changing the thread (which empties the
queue, as `/clear` does, while the pump is held, `app.py:17498`), a rewritten prompt
that is sent while idle from the worker of its menu (`app.py:6738`: `UserTurn` of a
handler of its own), closing the application, and the bodies of the other slash
commands, of which only a turn, a session, a deferred prompt or nothing remains.

### PeatScheduler

| Variable | Code |
|---|---|
| `file[j]` | the job's YAML file: `next_fire_at`, `enabled`, consecutive failures |
| `now[j]` | how many instants of j's schedule have come; `next_fire_at` is the number of one |
| `_inflight` | the scheduler's table, which keeps the last fire of a job |
| `fires` | the `_fire` tasks with the copy of the job each was given |
| `app`, `ready`, `awaited` | the application, its agent, and what `stop()` waits for |
| `command` | an `enable` or `disable` between its read and its write |

`Tick` is `_tick_once` for one job, `NotReady`, `Runs`, `GivesUp` and `RunEnds`
are a fire with the waits of `_run_peat_unattended`, and `Ends` its end, which
writes the copy back over the file; `CommandReads`, `CommandWrites` and `Delete`
are the user's commands, `Stop`, `Stopped`, `Crash` and `Restart` the
application. What a cron or interval expression means is left out: instants
come, one after another. So are the inbox and the artefacts of a run.

## 3. Runs

| Run | Instance | Shows |
|---|---|---|
| `daemon_safety` | 2 jobs capped at 1, 2 runs, 1 permit, 2 resumes each, 2 processes; 1 540 000 states | the type invariant, `ReservationExact`, `PermitsExact`, `RecordsTellTruth`, `OneExecutor`, `AttemptsWithinCap`; steps obey `NoLostUpdate` and `DrainShrinks`; the records implement `RunLedger` (`KeepsLedger`) |
| `daemon_liveness` | 2 jobs (one capped at 1), 2 runs, 1 resume each, 1 process; 252 000 states | `ReservationEnds`, `RunsSettle` |
| `resume_unscheduled` | violation of `ExecutionIsScheduled` | a resumed run executes without a reservation or a place in the in-flight count |
| `signal_never_ends` | violation of `StopEnds`, under fairness | after SIGTERM nothing cancels the scheduler loop |
| `job_store` | 3 jobs, 2 configurations, counts up to 1, failing reads and renames; 1 370 000 states | the type invariant; `jobs.json` implements `JobTable` (`KeepsJobs`) |
| `read_blip` | the same with failing reads; violation of `ChangesOneJob` | one failed read and a save lose the other jobs |
| `team` | 3 tasks, 2 members, every naming and dependency graph, caps 0, 3, 4, 9 on spawns and 2, 9 on activations; 99 000 states | the type invariant, `OneHolder`, `DepsFirst`, `CapsHold`, `ReasonIsTrue`; the board implements `TaskBoard` (`KeepsBoard`); `TeamEnds` |
| `workflow` | 3 tasks in 2 or 3 phases, one gated, chained or not, 1 or 2 workers; no budget or 2, ceilings 2, 9, attempts that cost 0 or 1; 3 sessions, 1 death, 1 failed save, edits between sessions; 580 000 states | the type invariant, `SpendIsSaved`, `EndIsTrue`; `PhaseWithinBudget`; session and file implement `PhaseLedger` (`KeepsLedger`); `SessionEnds` |
| `file_trigger` | 2 jobs that share a watched directory, one with a polled one too; 2 changes or losses of any kind, 1 command, 1 stop; 172 000 states | the type invariant, `NoBlindSpot`; `ChangeFires`, `Quiesces` |
| `debounce_starves` | 1 job with two debounced triggers; violation of `DebounceFires`, under fairness | a trigger that sees nothing takes away the time another is waiting on |
| `turn_loop` | 3 messages of any mode and origin, 1 interrupt; 383 000 states | the type invariant, `MessageOnce`, `DrainedInOrder`, `FlagsOwned`; `QueueDrains` |
| `peat` | a one-shot that may overlap itself and a recurring job, 2 instants, 3 fires, 2 commands, 2 starts; 295 000 states | the type invariant, `OneFireAtATime`, `FiresPerInstant`; `StopDrains`; `DueFires` |

Why the bounds are enough for what they are meant to show. Two runs for one
permit make a run queue, and two jobs let both a second run of the same job and
a run of another job compete with it. Two resumes let one request lose to another
for the same pause, and a resumed run pause again. Two processes allow
a crash, a start, a second crash and the statuses each leaves. Every invariant
and action property of the passing runs is also proved for all bounds; what
rests on the bounds alone is liveness. Three jobs let a save change one job while two others could be lost. Three tasks and
two members make rounds with a full and a part-filled roster, chains, joins,
forks, cycles and dependencies on oneself; the caps stop a team before its first
task, within a round, between rounds, or never.
A workflow's first phase has a round of two or two rounds of one, a gate comes
first, in the middle or last and can hold or fail; three sessions make a failure, a
resume that fails again and a resume of that, under budgets met before, in and
after a phase; one death reaches every step between two saves, one failed save
every save, with the death, the end of the session or another save after it; the
plans of two and three phases take each other's place between any two sessions.
Two changes let the second come while the run of the first waits or executes,
and be recorded before, during or after it, or make the second undo the first
(the file vanishes, the buffer overflows); the shared directory lets one
job's command or run take the watch from the other. Three messages put one in a
turn, one in the queue and one in the hands of a drain, and let `/tasks` edit or
drop one behind another; one interrupt reaches every stage of each. Two instants let one come while the fire of the other runs;
two commands make an enable race a disable or a removal; two starts leave a fire
cut off by a death to be seen by the next session.
`CHECK_DEADLOCK FALSE` is set because the bounds stop the system: when all runs
and processes are used up there is nothing left to do.

Fairness (`FairSpec`) is weak fairness of each run's task, of created resume
tasks, of resumed runs, of uvicorn's exit and of the final wait. It is justified
by the event loop (a ready task runs), the semaphore's first-in first-out queue,
the agent's `wait_for` timeout with a bounded number of retries, and the time
limits of deliveries. In `Team` it is weak fairness of the coordinator and of
each teammate: the event loop runs what is ready, and a teammate's agent is
taken to return or raise in the end, for `run_team` sets no time limit of its own.
`TeamEnds` assumes further that the user does not leave the team paused. In
`Workflow` it is weak fairness of the session's progress, with the same
assumption on teammates. In `TurnLoop` it is weak fairness of each handler and
of each task (the loop runs what is ready; a turn is capped at an hour, a shell
command at a minute) and of the server's start, which succeeds or fails. In
`PeatScheduler` the loop ticks while the application is up and each fire goes
on, for every wait in it has a timeout; a quit that has seen its fires end goes
down. In `FileTrigger` it is weak fairness of what goes on by itself taken
together: ticks, the observer's deliveries, windows, starts and ends of runs.
Nobody is obliged to trigger, resume, stop, start, type, interrupt, change a
file or crash anything. The counterexample of `signal_never_ends` is found under this
fairness: the system has nothing left it could be forced to do; in that of
`debounce_starves` ticks and windows go by for ever.

## 4. Findings

The four violation runs are disagreements between the code and its own
documentation, quoted in `PROJECT.json`: resumed runs execute outside the
reservation and the drain count (`api.py:865`), SIGTERM does not stop the daemon
(`main.py:199`), a transient read error followed by a save empties the job list
(`store.py:278`), and the debounce time kept per job and not per trigger lets a
quiet trigger starve a busy one (`scheduler.py:448`).

Known divergences that have no run of their own. The models contain these
behaviours, and their properties are stated so as to allow for them:

- a run that ends after its job was deleted inserts the job again (`store.py:414`);
- the rename that sets a damaged list aside may be refused, and then the next save
  replaces the damaged file, though the docstring has it moved aside "so the next
  save can't overwrite it" (`store.py:225`, `249`); `Quarantine`, `WriteOver`;
- a list that is not UTF-8 makes every operation raise instead of being set aside
  (`store.py:275`); `LoadRaises`;
- members that get no task use up the spawn cap, which `workflow.py:284` takes
  for a cap on agents (`teams.py:326`);
- a chain in which a title is repeated is wired into a cycle and reported as
  blocked by a failure (`team_executor.py:127`);
- a turn is started without a second look at the busy flag, so two may run at
  once although `turn_manager.py:1` promises one (`app.py:14779`); `UserTurn`;
- an interrupt while a turn settles leaves the busy flag up with nothing to
  lower it, and the input only queues from then on (`app.py:15008`); so does one
  that meets a worker before its first step (`app.py:14779`, `15120`, `2170`);
  `Cancelled`, `Wedged`;
- a prompt queued by `/tasks` while nothing is under way stays in the queue until
  something else is drained, though the reply says "it runs when the current turn
  ends" (`tasks_controller.py:642`); `OnlySteeredLeft`;
- an initial prompt that comes to nothing leaves what was typed meanwhile in the
  queue (`app.py:1523`); `PromptDropped`;
- a fire writes its old copy of the job over edits and removals made while it ran
  (`peat/scheduler.py:388`), and a one-shot that found no agent is rescheduled to
  never, though the comment says the next tick retries (`app.py:7417`); `Ends`;
- a workflow looks at its budget only when the phase's team has stopped
  (`workflow.py:690`, `731`), not after each task as its docstring has it
  (`workflow.py:592`); hence `PhaseWithinBudget` speaks of phases;
- a save of a workflow run that fails is passed over (`workflow_controller.py:214`),
  so a resume may repeat tasks that were finished, which the docstring rules out
  (`workflow.py:591`); so may a resume after phases were added or removed, which
  also forgets what was spent (`workflow.py:603`); `FallBack` and `Restart` of
  `PhaseLedger` are these ways back, and `lost` has the spend;
- the cost of an attempt that raises or is cancelled is in no meter, so the budget
  does not see it (`workflow.py:662`); `lost`;
- a walked change beyond the cap of the walk, or of a file moved in with an old
  time, fires nothing (`scheduler.py:517`, `532`), and a recorded one may be driven
  out of its buffer by others before a tick has seen it (`file_watch.py:57`): none of
  these is `owed`;
- a change made while the daemon was down, or in a directory that has just
  appeared, is missed: the tick attaches the observer and then asks its empty
  buffer (`scheduler.py:472`), though `file_watch.py` has it that the scheduler
  will poll; nothing is `owed` for such a change;
- a run that writes into the directory its job watches fires the job again, for
  `last_run_at` is the run's start (`runner.py:357`); `Quiesces` bounds the changes.

## 5. Proofs

`DaemonRunsProofs` proves `Spec => []IInv` for arbitrary sets of jobs, caps,
number of permits, runs, resumes and processes, from the assumptions of
`DaemonRuns` only (no `NoJob` value is a job or a record, caps and bounds are
naturals, there is at least one permit). `IInv` is the conjunction of `TypeOK`,
`ReservationExact`, `PermitsExact`, `OneExecutor`, `RecordsTellTruth` and

- `DownIsIdle`: without a process there is nothing in memory (needed for a start
  to establish the other parts);
- `UnbornIsAbsent`: a run number not given out has no record, task or job (needed
  for a launch: the runs it creates collide with none);
- `LiveHasJob`: a run that is live or parked has a job and a handler's copy of it
  (needed for the type of a merge);
- `FileOfPhase`: the record of a run in the agent is running, of a parked run
  paused, of a delivering run settled (needed for `RecordsTellTruth` when a run
  moves on, and for the refinement: without it a settled record might be rewritten).

None of the listed safety invariants is inductive without these. Each action
has a lemma that it preserves `IInv`. `PermitsAreExact` rests on the library's
facts about cardinalities of finite sets. `UpdatesSurvive`, `DrainsShrink` and
`LedgerIsKept` follow from the invariant step by step; the last is the
refinement of `RunLedger`, by which settled records never change and every
orphan is failed before a new daemon serves.

`AttemptsAreCapped` (the counter of a job exceeds `max_runs` by no more than the
resumes of its runs that are over) has an invariant of its own, `CInv`, on top of
`IInv`. The counter in `jobs.json` is not the only one: every handler has a copy
of the job, which is put back if the job was deleted meanwhile. So
`CountsWithin` bounds, for a job in the store, its counter plus the attempt a
launched run has yet to count, and for each run that may still count, the copy
it would put back when the job is gone or when the copy is ahead of the store (a
job put back by an older run and counted by a newer one). `ResumesAreKept` bounds
the resumes, and `JobsAreKnown` says that a job of some run is in the store or
was deleted by the user, which rules out a copy of a job created anew.

`JobStoreProofs` proves that `JobStore` implements `JobTable` for every set of jobs
and configurations, whether or not reads and renames may be refused. The
strengthening (`PendingIsOneChange`) says that a list waiting to be renamed differs in one job
at most from the one in place, or, when the operation was refused, from the empty
list: only then may it come to lie over the jobs of others.

`TeamProofs` proves `Spec => []TInv` for every number of tasks and members, every
set of requests and every pair of caps, from the three assumptions of `Team`.
`TInv` is the conjunction of `TypeOK`, `OneHolder`, `DepsFirst`, `CapsHold`,
`ReasonIsTrue` and `RoundState`, which says what the phase lets one conclude: in
particular that `reason` is still "completed" while a round may follow, so that
a team stopped later does not repeat an earlier round's reason. `OneHolder` is
what makes the write-back a function, and hence what `DepsFirst` and `BoardIsKept`
need of it. Cancelled teams are exempt only from the part of `OneHolder` about
claimed tasks: their board stays as the cancellation left it.

`WorkflowProofs` proves `Spec => []WInv` for every number of phases and tasks,
every set of plans, budgets and ceilings, and any number of deaths, failed saves and
edits. `WInv` is the conjunction of `TypeOK`, `EndIsTrue` and six facts that tie the
places in which a task's state is kept together: `FileSound` (the phases closed in
the file are those before some phase and, when the workflow has as many phases as
the file, a failing verdict belongs to a finished task of a gated phase),
`RunSound` (the same of the session's run, at the phase it is at), `BoardFollows`
(a task off the board is done or in another phase, an open one is not done),
`HandsFollow` (a task in hand was claimable), `SpawnsLeft` and `NoneYet` (nothing is
there before the first session). The session's run no longer need be close to the
file, for saves fail; what a resume needs of the file it gets from `FileSound`.
Without these neither a finished task given out again nor a gate closed over a
failing verdict could be ruled out after a resume. `EndsAreTrue` follows, and
`LedgerIsKept` is the refinement of `PhaseLedger`, with one lemma for each step: the
abstract ledger goes back only with `FallBack`, when a session ends, and then to
what was saved, and with `Restart`, when the number of phases has changed.

`SpendSaved` and `PhasesStayWithinBudget` rest on `SpendInv`, which is inductive
beside `WInv`. `Metered` is the account: what is lost is never negative,
the file never tells of more than was paid, between sessions what the
file tells and what is lost are what was paid, in a session the same holds of its
run, and after a save that succeeded the costs in file and run agree.
`BudgetNoticed` says that a session whose flag is not up is within its budget as far
as its meters tell, which is what `Resume` must establish for a run that spent its
budget before. The costs are those of attempts (`paid` grows by what an attempt cost,
the meter by what it told), so a meter that forgot a cost, or a resume that forgot
one without its being accounted for, would break the invariant.

`FileTriggerProofs` proves `NoBlindSpot` for every set of jobs, directories and
triggers, from the types of the sets it speaks of and from the fact that what is
newer than a run is a file the walk gets to (`FInv`), and `TypeOK`, which is
inductive once what the triggers of a job come to is known to be an outcome,
however many there are (`ChecksTyped`).

`TurnLoopProofs` proves `TypeOK` and `FlagsOwned` for any number of messages and
interrupts, together with `InitialWaits` (an initial prompt that waits has no
handler yet, without which the start of the server might overwrite one).
`FlagsOwned` carries its own strengthening: that the drain's flag is up exactly
while a drain handles a message, and that the handle names a turn not yet cleaned
up. It has exactly the exceptions `Cancelled` makes: a flag without an owner needs a
task of its kind that an interrupt has lost.
`MessagesRunOnce` and `DrainKeepsOrder` follow from `AllPlaced`. It takes the queue,
what each handler holds (`Held`, in which the initial prompt is its handler's
from the start) and the tasks as three places: `Known` bounds every message by
the number of messages so far, `Once` says that no two places share one, and
`InOrder` that the tasks the drain started, the message it holds and the queue
come in the order they were typed, prompts that may have been deferred a second
time excepted. Each of the ways a message moves or changes (`Queued`, `Handed`,
`Sent`, `Taken`, `Begun`, `Deferred`, `Reworded`, `Dropped`, `Filled`, `LetGo`,
`Emptied`) has a lemma about any three places; an action is
one or two of them.

`PeatSchedulerProofs` proves `TypeOK`, `OneFireAtATime`, `FiresPerInstant` and
`StopDrains` for every set of jobs and all bounds. `PInv` adds `TableTellsAll` (the
live fire of a job that is not concurrent is the one in the table, which is what
tick and stop go by), `OneRuns` and `AwaitsTheTable` (what a quit awaits is what is
in the table, less what ended). For `FiresPerInstant` the invariant is
`FiresAreOwed`: the fires so far, plus the one owed if the job is due now, plus
the one a command half way through may make due again, are within the instants,
restarts and commands so far.

`InductionFacts` has what these proofs need of numbers. The library's induction
theorems take an operator, which the provers cannot instantiate; `Induct` states
induction over a set of naturals, proved from the library's well-founded minimum,
and from it follow that a function defined by recursion on a counter exists and
is unique (`RecursionExists`, `RecursionAgrees`) and how running totals grow
(`TotalsAdd`, `TotalsGrow`). `Spent` of `Workflow` and `_check_job_triggers` of
`FileTrigger` are written as such functions.

Every invariant and action property of the passing runs, and every refinement, is
proved. Only model-checked: liveness (`TeamEnds`,
`ReservationEnds`, `RunsSettle`, `SessionEnds`, `ChangeFires`, `Quiesces`,
`QueueDrains`, `DueFires`), which rests on fairness and `ENABLED` and is out of the
prover's reach, and the four counterexamples.

## 6. Not modelled

- A second daemon on the same files: the PID file, the port and two processes
  over one store (`main.py:314`).
- Pruning of run files and failing writes of run records in a daemon that lives on
  (those of `jobs.json` are in `JobStore`, those of workflow runs in `Workflow`);
  retries and formats of deliveries; retries, timeouts and spend of the agent
  within a run, which are its outcomes here.
- When a cron or interval trigger is due; the daemon takes a due trigger to be
  possible at any tick, Peat counts instants.
- The background shell, the session registry and the action log, which have
  hazards in the list and no module yet.
- Removal of a watched directory; several run files of a workflow, and edits of a
  workflow that keep the number of its phases (section 2).
- Approvals, changing of threads and streaming in the application; the other
  fan-out engines of the CLI, whose prompts reach `TurnLoop` as background
  prompts and sessions.
- The SDK's graph assembly, middleware, backends and sandboxes; the ACP server,
  editor extension, evaluation harness, analyses and partner packages: text and
  message transformation, decision tables, I/O and presentation without state
  that concurrency, failures or restarts could corrupt. They are by far the
  largest part of the repository's lines.

## 7. Plan

In order of importance; each with its abstract promise and theorems.

1. `DaemonInstances`: two processes over the PID file, the port and the stores.
2. `Delivery` and `RunFiles`: retries and duplicate deliveries; pruning and
   failing writes.
3. `CronDue`: the due tests of cron and interval triggers as functions against a
   reference definition.
4. `BackgroundShell`, `SessionRegistry`, `ActionLog`.
5. Proofs, with these modules: the chain invariant of `ActionLog`, removal in
   `SessionRegistry`, and type correctness and refinement for each.
