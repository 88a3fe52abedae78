--------------------------- MODULE PeatScheduler ---------------------------
(***************************************************************************)
(* The scheduler of Peat jobs inside the CLI (peat/scheduler.py,           *)
(* peat/jobs.py, and _run_peat_unattended and /peat jobs of app.py).  Jobs *)
(* are files; a tick lists them and fires those that are due; a fire keeps *)
(* the copy of the job it was started with and writes it back when it      *)
(* ends.  The user enables, disables and deletes jobs meanwhile, quits,    *)
(* or the application dies.                                                *)
(*                                                                         *)
(* Time is counted per job in the instants of its schedule: next_fire_at   *)
(* is the number of an instant (0 for none), and a job is due when that    *)
(* instant has come.                                                       *)
(***************************************************************************)
EXTENDS Naturals, Sequences, FiniteSets

CONSTANTS
  Jobs,
  Once,            \* the jobs with an @once schedule; the others recur
  Concurrent,      \* the jobs with concurrent: true
  AutoDisable,     \* the jobs with on_failure: disable
  MaxInstants,     \* bound: instants of a recurring job
  MaxFires,        \* bound: fires
  MaxCommands,     \* bound: /peat jobs commands
  MaxStarts        \* bound: starts of the application

ASSUME JobsAssumption ==
  Once \subseteq Jobs /\ Concurrent \subseteq Jobs /\ AutoDisable \subseteq Jobs
ASSUME BoundsAssumption ==
  /\ MaxInstants \in Nat \ {0} /\ MaxFires \in Nat
  /\ MaxCommands \in Nat /\ MaxStarts \in Nat \ {0}

VARIABLES
  file,        \* file[j]: the job's YAML file
  now,         \* now[j]: the instants of j's schedule that have come
  app,         \* "up", "stopping" (on_unmount waits) or "down"
  ready,       \* the agent is there
  _inflight,   \* _inflight[j]: the fire in the scheduler's table, or 0
  fires,       \* the _fire tasks, in the order they were created
  awaited,     \* the fires stop() waits for
  command,     \* the /peat jobs command between its read and its write
  commands, starts

vars == <<file, now, app, ready, _inflight, fires, awaited, command, commands,
          starts>>

Absent  == [next |-> 0, enabled |-> FALSE, fails |-> 0, here |-> FALSE]
Records == [next : 0..MaxInstants + 1, enabled : BOOLEAN, fails : Nat,
            here : BOOLEAN]
Fire    == [job : Jobs, copy : Records,
            stage : {"created", "running", "ended", "killed"}]
Verbs   == {"enable", "disable"}
NoCommand == [verb |-> "none"]
FireIds == 1..Len(fires)

Live(f) == fires[f].stage \in {"created", "running"}
LiveFires(j) == {f \in FireIds : fires[f].job = j /\ Live(f)}

TypeOK ==
  /\ file \in [Jobs -> Records]
  /\ now \in [Jobs -> 0..MaxInstants]
  /\ app \in {"up", "stopping", "down"}
  /\ ready \in BOOLEAN
  /\ _inflight \in [Jobs -> 0..Len(fires)]
  /\ \A j \in Jobs : _inflight[j] # 0 => _inflight[j] \in LiveFires(j)
  /\ fires \in Seq(Fire)
  /\ awaited \subseteq FireIds
  /\ command \in [verb : Verbs, job : Jobs, copy : Records] \cup {NoCommand}
  /\ commands \in 0..MaxCommands /\ starts \in 1..MaxStarts

Due(j, r) == r.next # 0 /\ r.next <= now[j]

\* next_fire_time: 0 for a one-shot whose instant has come.
next_fire_time(j) ==
  IF j \in Once THEN IF now[j] = 0 THEN 1 ELSE 0 ELSE now[j] + 1

\* A job was scheduled, perhaps in an earlier session: its instant may have come
\* while the application was down.
Init ==
  /\ now \in [Jobs -> {0, 1}]
  /\ file = [j \in Jobs |-> [next |-> 1, enabled |-> TRUE, fails |-> 0, here |-> TRUE]]
  /\ app = "up" /\ ready = FALSE
  /\ _inflight = [j \in Jobs |-> 0]
  /\ fires = << >> /\ awaited = {}
  /\ command = NoCommand
  /\ commands = 0 /\ starts = 1

-----------------------------------------------------------------------------
(* The scheduler *)

TimePasses(j) ==
  /\ now[j] < (IF j \in Once THEN 1 ELSE MaxInstants)
  /\ now' = [now EXCEPT ![j] = @ + 1]
  /\ UNCHANGED <<file, app, ready, _inflight, fires, awaited, command, commands,
                 starts>>

AgentReady ==
  /\ app = "up" /\ ~ready
  /\ ready' = TRUE
  /\ UNCHANGED <<file, now, app, _inflight, fires, awaited, command, commands,
                 starts>>

Listed(j)  == file[j].here /\ file[j].enabled
FiresAnyway(j) == Listed(j) /\ Due(j, file[j])
Fires(j)   == Listed(j) /\ Due(j, file[j]) /\ (j \in Concurrent \/ _inflight[j] = 0)
Unset(j)   == Listed(j) /\ file[j].next = 0 /\ next_fire_time(j) # 0

\* _tick_once for job j: set the first instant, or fire.  (A tick does so for
\* every listed job and awaits nothing between them; jobs share no state.)
Tick(j) ==
  /\ app = "up"
  /\ \/ /\ Unset(j)
        /\ file' = [file EXCEPT ![j].next = next_fire_time(j)]
        /\ UNCHANGED <<fires, _inflight>>
     \/ /\ Fires(j)
        /\ Len(fires) < MaxFires
        /\ fires' = Append(fires, [job |-> j, copy |-> file[j], stage |-> "created"])
        /\ _inflight' = [_inflight EXCEPT ![j] = Len(fires) + 1]
        /\ UNCHANGED file
  /\ UNCHANGED <<now, app, ready, awaited, command, commands, starts>>

AfterSameInstant(j, r, status) ==
  LET fails == IF status = "ok" THEN 0 ELSE r.fails + 1
  IN [here |-> TRUE, next |-> r.next, fails |-> fails,
      enabled |-> r.enabled /\ ~(j \in AutoDisable /\ fails >= 3)]

\* The job as the end of a fire leaves it, from the copy the fire was given.
After(j, r, status) ==
  LET fails == IF status = "ok" THEN 0 ELSE r.fails + 1
  IN [here |-> TRUE,
      next |-> next_fire_time(j),
      fails |-> fails,
      enabled |-> r.enabled /\ ~(j \in AutoDisable /\ fails >= 3)]

EndsOnTheTable(f, status) ==
  LET j == fires[f].job
  IN /\ fires' = [fires EXCEPT ![f].stage = "ended"]
     /\ file' = [file EXCEPT ![j] = After(j, fires[f].copy, status)]
     /\ UNCHANGED <<_inflight, now, app, ready, awaited, command, commands, starts>>

\* The end of _fire: off the table, and the copy is saved over the file.
Ends(f, status) ==
  LET j == fires[f].job
  IN /\ _inflight' = [_inflight EXCEPT ![j] = 0]
     /\ fires' = [fires EXCEPT ![f].stage = "ended"]
     /\ file' = [file EXCEPT ![j] = After(j, fires[f].copy, status)]
     /\ UNCHANGED <<now, app, ready, awaited, command, commands, starts>>

\* _run_peat_unattended: without an agent the fire fails at once ...
NotReady(f) ==
  /\ fires[f].stage = "created" /\ ~ready
  /\ Ends(f, "fail")

\* ... else it waits for _peat_run_lock and an idle turn, and runs ...
Runs(f) ==
  /\ fires[f].stage = "created" /\ ready
  /\ \A g \in FireIds : fires[g].stage # "running"
  /\ fires' = [fires EXCEPT ![f].stage = "running"]
  /\ UNCHANGED <<file, now, app, ready, _inflight, awaited, command, commands,
                 starts>>

\* ... or gives up on either.
GivesUp(f) ==
  /\ fires[f].stage = "created" /\ ready
  /\ Ends(f, "fail")

RunEnds(f) ==
  /\ fires[f].stage = "running"
  /\ \E status \in {"ok", "fail"} : Ends(f, status)

-----------------------------------------------------------------------------
(* The user *)

\* /peat jobs enable|disable reads the file in one thread call ...
CommandReads(verb, j) ==
  /\ app = "up" /\ command = NoCommand /\ commands < MaxCommands
  /\ file[j].here
  /\ command' = [verb |-> verb, job |-> j, copy |-> file[j]]
  /\ commands' = commands + 1
  /\ UNCHANGED <<file, now, app, ready, _inflight, fires, awaited, starts>>

\* ... and writes it in another.
CommandWrites ==
  /\ app = "up" /\ command # NoCommand
  /\ LET j == command.job
         nxt == next_fire_time(j)
     IN file' = [file EXCEPT ![j] =
          [command.copy EXCEPT
             !.enabled = command.verb = "enable",
             !.next = IF command.verb = "enable" /\ nxt # 0 THEN nxt ELSE @]]
  /\ command' = NoCommand
  /\ UNCHANGED <<now, app, ready, _inflight, fires, awaited, commands, starts>>

Delete(j) ==
  /\ app = "up" /\ command = NoCommand /\ commands < MaxCommands
  /\ file[j].here
  /\ file' = [file EXCEPT ![j] = Absent]
  /\ commands' = commands + 1
  /\ UNCHANGED <<now, app, ready, _inflight, fires, awaited, command, starts>>

-----------------------------------------------------------------------------
(* The application *)

StopAtOnce ==
  /\ app = "up"
  /\ app' = "stopping"
  /\ awaited' = {}
  /\ command' = NoCommand
  /\ UNCHANGED <<file, now, ready, _inflight, fires, commands, starts>>

\* on_unmount: stop() cancels the loop and waits for the fires in its table.
Stop ==
  /\ app = "up"
  /\ app' = "stopping"
  /\ awaited' = {_inflight[j] : j \in Jobs} \ {0}
  /\ command' = NoCommand
  /\ UNCHANGED <<file, now, ready, _inflight, fires, commands, starts>>

Killed == [f \in FireIds |-> IF Live(f) THEN [fires[f] EXCEPT !.stage = "killed"]
                             ELSE fires[f]]

GoDown ==
  /\ app' = "down" /\ ready' = FALSE
  /\ _inflight' = [j \in Jobs |-> 0]
  /\ fires' = Killed
  /\ awaited' = {} /\ command' = NoCommand
  /\ UNCHANGED <<file, now, commands, starts>>

Stopped ==
  /\ app = "stopping"
  /\ \A f \in awaited : ~Live(f)
  /\ GoDown

Crash ==
  /\ app # "down"
  /\ GoDown

Restart ==
  /\ app = "down" /\ starts < MaxStarts
  /\ starts' = starts + 1
  /\ app' = "up"
  /\ UNCHANGED <<file, now, ready, _inflight, fires, awaited, command, commands>>

Proceeds(f) == NotReady(f) \/ Runs(f) \/ GivesUp(f) \/ RunEnds(f)

Next ==
  \/ \E j \in Jobs : TimePasses(j) \/ Tick(j) \/ Delete(j)
  \/ \E j \in Jobs, verb \in Verbs : CommandReads(verb, j)
  \/ CommandWrites
  \/ \E f \in FireIds : Proceeds(f)
  \/ AgentReady \/ Stop \/ Stopped \/ Crash \/ Restart

\* The loop ticks while it is up, and a fire ends: every wait in it is bounded
\* by a timeout.
Fairness ==
  /\ \A j \in Jobs : WF_vars(Tick(j))
  /\ \A f \in 1..MaxFires : WF_vars(f \in FireIds /\ Proceeds(f))
  /\ WF_vars(Stopped)

Spec     == Init /\ [][Next]_vars
FairSpec == Spec /\ Fairness

-----------------------------------------------------------------------------
(* Properties *)

\* "single-fire-at-a-time per job by default" (scheduler.py:213): a job that is
\* not concurrent has one fire under way at most, through any sequence of ends,
\* commands, stops and restarts; and one job at a time has the agent.
OneFireAtATime ==
  /\ \A j \in Jobs \ Concurrent : Cardinality(LiveFires(j)) <= 1
  /\ Cardinality({f \in FireIds : fires[f].stage = "running"}) <= 1

\* stop() "Waits for in-flight runs" (scheduler.py:250): a quit kills no fire,
\* except overlapping ones of a concurrent job, of which the table has the last.
StopDrains ==
  [][Stopped => \A f \in FireIds : Live(f) => fires[f].job \in Concurrent]_vars

\* A due job is fired, unless it is disabled or deleted, or the application goes
\* down; MaxFires is the bound of the model.
DueFires ==
  \A j \in Jobs :
    Listed(j) /\ Due(j, file[j]) /\ app = "up" ~>
      \/ LiveFires(j) # {} \/ ~Listed(j) \/ ~Due(j, file[j])
      \/ app # "up" \/ Len(fires) = MaxFires

\* Fires do not pile up behind a due instant of a job that is not concurrent:
\* it is fired as often as instants have come, and again only after a death of
\* the application or a command of the user.
FiresPerInstant ==
  \A j \in Jobs \ Concurrent :
    Cardinality({f \in FireIds : fires[f].job = j}) <= now[j] + starts - 1 + commands
=============================================================================
