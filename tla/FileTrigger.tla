---------------------------- MODULE FileTrigger ----------------------------
(***************************************************************************)
(* FILE_CHANGE triggers of the daemon (file_watch.py, and _tick,           *)
(* _check_job_triggers and _detect_file_change of scheduler.py).  An       *)
(* observer thread records changes in a buffer for each watched directory; *)
(* a tick reconciles the watched directories with those the enabled jobs   *)
(* ask for, and fires the jobs whose buffer (or, unwatched, whose tree)    *)
(* holds a change newer than their last run, after a debounce.             *)
(*                                                                         *)
(* Time is kept as what is newer than what: of the files and of the        *)
(* recorded events of a directory only the newest counts, and of it only   *)
(* whether it is newer than a job's last_run_at and than the start of the  *)
(* job's run in flight, which becomes last_run_at when that run ends.      *)
(*                                                                         *)
(* The walk of an unwatched tree finds a file by its modification time,    *)
(* and gives up at _FILE_TRIGGER_MAX_FILES; the buffer of a watched one    *)
(* holds the last _MAX_EVENTS_PER_DIR events, those of other files too.    *)
(* So a change may go unseen (MoveIn, ChangeBeyond), or be lost sight of   *)
(* before any check (Vanish, Overflow).                                    *)
(***************************************************************************)
EXTENDS Naturals, Sequences

CONSTANTS
  Jobs, Dirs,
  Triggers,      \* Triggers[j]: the file triggers of j, in order: [dir, debounce]
  Watchable,     \* the directories the observer can watch; others are polled
  MaxChanges,    \* bound: changes of files
  MaxCommands,   \* bound: edits of a job, and runs started by hand
  MaxStops       \* bound: how often the daemon goes down

ASSUME TriggersAssumption ==
  Triggers \in [Jobs -> Seq([dir : Dirs, debounce : BOOLEAN])]
ASSUME WatchableAssumption == Watchable \subseteq Dirs
ASSUME BoundsAssumption ==
  MaxChanges \in Nat /\ MaxCommands \in Nat /\ MaxStops \in Nat

VARIABLES
  up,         \* the daemon's scheduler loop runs
  present,    \* the directories that exist
  files,      \* those with a matching file that the walk gets to
  transit,    \* changes the observer thread has yet to record
  _watches,   \* the directories with a live watch
  enabled,    \* enabled[j]
  ran,        \* ran[j]: last_run_at > 0
  newer,      \* newer[j]: those with such a file newer than last_run_at ...
  recorded,   \* ... and those with a recorded event newer than it
  mark,       \* mark[j]: the same two, for the start of j's run in flight
  _file_change_pending,  \* [j]: "none", "seen", or "elapsed" after the window
  run,        \* run[j]: "idle", "launched", "placed" (its record exists), "running"
  owed,       \* history: directories changed since j's last start where j's
              \* checks were, and still are, in a position to find the change
  changes, commands, stops

job  == <<enabled, ran, newer, recorded, mark, _file_change_pending, run, owed>>
vars == <<up, present, files, transit, _watches, job, changes, commands, stops>>

DirsOf(j) == {Triggers[j][i].dir : i \in DOMAIN Triggers[j]}
NoMark    == [newer |-> {}, recorded |-> {}]
Started(j) == run[j] \in {"placed", "running"}

\* j's later checks walk d, because nobody can watch it or j has not run yet.
ByWalk(j, d) == d \notin Watchable \/ (~ran[j] /\ ~Started(j))

TypeOK ==
  /\ up \in BOOLEAN
  /\ present \subseteq Dirs /\ files \subseteq present
  /\ transit \subseteq _watches /\ _watches \subseteq Watchable \cap present
  /\ ~up => _watches = {} /\ \A j \in Jobs : run[j] = "idle"
  /\ enabled \in [Jobs -> BOOLEAN] /\ ran \in [Jobs -> BOOLEAN]
  /\ newer \in [Jobs -> SUBSET Dirs] /\ recorded \in [Jobs -> SUBSET Dirs]
  /\ mark \in [Jobs -> [newer : SUBSET Dirs, recorded : SUBSET Dirs]]
  /\ _file_change_pending \in [Jobs -> {"none", "seen", "elapsed"}]
  /\ run \in [Jobs -> {"idle", "launched", "placed", "running"}]
  /\ owed \in [Jobs -> SUBSET Dirs]
  /\ changes \in 0..MaxChanges /\ commands \in 0..MaxCommands
  /\ stops \in 0..MaxStops

Init ==
  /\ up = TRUE
  /\ present \in SUBSET Dirs /\ files \in SUBSET present
  /\ transit = {} /\ _watches = {}
  /\ enabled \in [Jobs -> BOOLEAN]
  /\ ran \in [Jobs -> BOOLEAN]
  /\ newer = [j \in Jobs |-> IF ran[j] THEN {} ELSE files]
  /\ recorded = [j \in Jobs |-> {}]
  /\ mark = [j \in Jobs |-> NoMark]
  /\ _file_change_pending = [j \in Jobs |-> "none"]
  /\ run = [j \in Jobs |-> "idle"]
  /\ owed = [j \in Jobs |-> {}]
  /\ changes = 0 /\ commands = 0 /\ stops = 0

-----------------------------------------------------------------------------
(* The file system and the observer thread *)

MakeDir(d) ==
  /\ d \notin present
  /\ present' = present \cup {d}
  /\ UNCHANGED <<up, files, transit, _watches, job, changes, commands, stops>>

\* A matching file changes at d: by a user, a program or a job's own run.  A
\* live watch has it on its way to the buffer; `found` are the jobs for which the
\* next walk would stop at it.
Touch(d, found) ==
  /\ d \in present /\ changes < MaxChanges
  /\ changes' = changes + 1
  /\ transit' = IF d \in _watches THEN transit \cup {d} ELSE transit
  /\ owed' = [j \in Jobs |-> IF IF ByWalk(j, d) THEN j \in found ELSE d \in _watches
                             THEN owed[j] \cup {d} ELSE owed[j]]
  /\ UNCHANGED <<up, present, _watches, enabled, ran, recorded,
                 _file_change_pending, run, commands, stops>>

\* What the jobs are owed once the buffers of D, and the watches, are lost.
Forgotten(D) == [j \in Jobs |-> {d \in owed[j] : d \in D => ByWalk(j, d)}]

\* It is created or modified, and so has the time of the change.
Change(d) ==
  /\ Touch(d, Jobs)
  /\ files' = files \cup {d}
  /\ newer' = [j \in Jobs |-> newer[j] \cup {d}]
  /\ mark' = [j \in Jobs |-> IF Started(j) THEN [mark[j] EXCEPT !.newer = @ \cup {d}]
                                           ELSE mark[j]]

\* It is moved or unpacked there with the time it had: before any run in flight,
\* and after last_run_at for the jobs of `late` only.
MoveIn(d, late) ==
  /\ Touch(d, {j \in Jobs : ~Started(j) /\ (ran[j] => j \in late)})
  /\ files' = files \cup {d}
  /\ newer' = [j \in Jobs |-> IF j \in late THEN newer[j] \cup {d} ELSE newer[j]]
  /\ UNCHANGED mark

\* It comes after the first _FILE_TRIGGER_MAX_FILES in the walk.
ChangeBeyond(d) == Touch(d, {}) /\ UNCHANGED <<files, newer, mark>>

\* The changed files of d are deleted, or come to lie beyond the cap: the walk
\* finds older ones, or none.
Vanish(d) ==
  /\ d \in files /\ changes < MaxChanges
  /\ changes' = changes + 1
  /\ files' \in {files, files \ {d}}
  /\ newer' = [j \in Jobs |-> newer[j] \ {d}]
  /\ mark' = [j \in Jobs |-> [mark[j] EXCEPT !.newer = @ \ {d}]]
  /\ owed' = [j \in Jobs |-> IF ByWalk(j, d) THEN owed[j] \ {d} ELSE owed[j]]
  /\ UNCHANGED <<up, present, transit, _watches, enabled, ran, recorded,
                 _file_change_pending, run, commands, stops>>

\* _WatchState.record: a burst of _MAX_EVENTS_PER_DIR events of files that match
\* no pattern drives the others from the buffer of d, but not those still on
\* their way to it.
Overflow(d) ==
  /\ d \in _watches /\ changes < MaxChanges
  /\ changes' = changes + 1
  /\ recorded' = [j \in Jobs |-> recorded[j] \ {d}]
  /\ mark' = [j \in Jobs |-> [mark[j] EXCEPT !.recorded = @ \ {d}]]
  /\ owed' = Forgotten({d} \ transit)
  /\ UNCHANGED <<up, present, files, transit, _watches, enabled, ran, newer,
                 _file_change_pending, run, commands, stops>>

RecordIfIdle(d) ==
  /\ d \in transit
  /\ transit' = transit \ {d}
  /\ recorded' = [j \in Jobs |-> IF run[j] = "idle" THEN recorded[j] \cup {d}
                                                    ELSE recorded[j]]
  /\ UNCHANGED <<up, present, files, _watches, enabled, ran, newer, mark,
                 _file_change_pending, run, owed, changes, commands, stops>>

\* _ChangeCollector.on_any_event: the event is recorded, with the time it gets
\* here.
Record(d) ==
  /\ d \in transit
  /\ transit' = transit \ {d}
  /\ recorded' = [j \in Jobs |-> recorded[j] \cup {d}]
  /\ mark' = [j \in Jobs |-> IF Started(j) THEN [mark[j] EXCEPT !.recorded = @ \cup {d}]
                                           ELSE mark[j]]
  /\ UNCHANGED <<up, present, files, _watches, enabled, ran, newer,
                 _file_change_pending, run, owed, changes, commands, stops>>

-----------------------------------------------------------------------------
(* A tick *)

Wanted  == UNION {DirsOf(j) : j \in {i \in Jobs : enabled[i]}}

\* The watches that sync leaves in place, and those it takes away.
syncMissing == (_watches \cap Wanted) \cup (Wanted \cap Watchable)
sync    == (_watches \cap Wanted) \cup (Wanted \cap Watchable \cap present)
Dropped == _watches \ Wanted

\* The walk of the tree as far as its cap, and the question to the buffer, for a
\* file or an event newer than last_run_at; any file is, when the job never ran.
_check_file_trigger(j, d) == IF ran[j] THEN d \in newer[j] ELSE d \in files
changed_since(j, d)       == d \in recorded[j]

_detect_file_change(j, d) ==
  IF ~ran[j] \/ d \notin sync THEN _check_file_trigger(j, d) ELSE changed_since(j, d)

\* One trigger of _check_job_triggers, `due` being the outcome so far.
CheckTrigger(j, due, trigger) ==
  IF due.fires THEN due
  ELSE IF ~_detect_file_change(j, trigger.dir) THEN [due EXCEPT !.pending = "none"]
  ELSE IF ~trigger.debounce \/ due.pending = "elapsed"
       THEN [fires |-> TRUE, pending |-> "none"]
  ELSE IF due.pending = "none" THEN [due EXCEPT !.pending = "seen"]
  ELSE due

\* _check_job_triggers, of the enabled jobs that are not running; check[i] is the
\* outcome after i triggers.
_check_job_triggers ==
  [j \in Jobs |->
     LET start == [fires |-> FALSE, pending |-> _file_change_pending[j]]
         check[i \in 0..Len(Triggers[j])] ==
           IF i = 0 THEN start ELSE CheckTrigger(j, check[i - 1], Triggers[j][i])
     IN IF enabled[j] /\ run[j] = "idle" THEN check[Len(Triggers[j])] ELSE start]

\* A tick: sync, then every job in turn.  (Jobs share no state here, and nothing
\* is awaited between them.)
Tick ==
  /\ up /\ UNCHANGED <<up, present, files, enabled, ran, newer, changes, commands, stops>>
  /\ _watches' = sync
  /\ transit' = transit \ Dropped
  /\ recorded' = [j \in Jobs |-> recorded[j] \ Dropped]
  /\ mark' = [j \in Jobs |-> [mark[j] EXCEPT !.recorded = @ \ Dropped]]
  /\ owed' = Forgotten(Dropped)
  /\ \E due \in {_check_job_triggers} :
        /\ run' = [j \in Jobs |-> IF due[j].fires THEN "launched" ELSE run[j]]
        /\ _file_change_pending' = [j \in Jobs |-> due[j].pending]

\* The debounce window of j's pending change goes by.
WindowPasses(j) ==
  /\ up /\ _file_change_pending[j] = "seen"
  /\ _file_change_pending' = [_file_change_pending EXCEPT ![j] = "elapsed"]
  /\ UNCHANGED <<up, present, files, transit, _watches, enabled, ran, newer,
                 recorded, mark, run, owed, changes, commands, stops>>

-----------------------------------------------------------------------------
(* Runs *)

\* A run started by hand: its record, and so its start, is made at once.
TriggerManual(j) ==
  /\ up /\ run[j] = "idle" /\ commands < MaxCommands
  /\ commands' = commands + 1
  /\ run' = [run EXCEPT ![j] = "placed"]
  /\ mark' = [mark EXCEPT ![j] = NoMark]
  /\ owed' = [owed EXCEPT ![j] = {}]
  /\ UNCHANGED <<up, present, files, transit, _watches, enabled, ran, newer,
                 recorded, _file_change_pending, changes, stops>>

\* run_job: the record of a fired run is made when it gets a permit.
StartRun(j) ==
  /\ run[j] \in {"launched", "placed"}
  /\ run' = [run EXCEPT ![j] = "running"]
  /\ IF run[j] = "launched"
     THEN mark' = [mark EXCEPT ![j] = NoMark] /\ owed' = [owed EXCEPT ![j] = {}]
     ELSE UNCHANGED <<mark, owed>>
  /\ UNCHANGED <<up, present, files, transit, _watches, enabled, ran, newer,
                 recorded, _file_change_pending, changes, commands, stops>>

EndRunByClock(j) ==
  /\ run[j] = "running"
  /\ run' = [run EXCEPT ![j] = "idle"]
  /\ ran' = [ran EXCEPT ![j] = TRUE]
  /\ newer' = [newer EXCEPT ![j] = {}]
  /\ recorded' = [recorded EXCEPT ![j] = {}]
  /\ mark' = [mark EXCEPT ![j] = NoMark]
  /\ UNCHANGED <<up, present, files, transit, _watches, enabled,
                 _file_change_pending, owed, changes, commands, stops>>

EndRunUnstamped(j) ==
  /\ run[j] = "running"
  /\ run' = [run EXCEPT ![j] = "idle"]
  /\ ran' = [ran EXCEPT ![j] = TRUE]
  /\ mark' = [mark EXCEPT ![j] = NoMark]
  /\ UNCHANGED <<up, present, files, transit, _watches, enabled, newer, recorded,
                 _file_change_pending, owed, changes, commands, stops>>

\* _finish_run: last_run_at is the start of the run that ends.
EndRun(j) ==
  /\ run[j] = "running"
  /\ run' = [run EXCEPT ![j] = "idle"]
  /\ ran' = [ran EXCEPT ![j] = TRUE]
  /\ newer' = [newer EXCEPT ![j] = mark[j].newer]
  /\ recorded' = [recorded EXCEPT ![j] = mark[j].recorded]
  /\ mark' = [mark EXCEPT ![j] = NoMark]
  /\ UNCHANGED <<up, present, files, transit, _watches, enabled,
                 _file_change_pending, owed, changes, commands, stops>>

-----------------------------------------------------------------------------
(* The user and the process *)

SetEnabled(j) ==
  /\ up /\ commands < MaxCommands
  /\ commands' = commands + 1
  /\ enabled' = [enabled EXCEPT ![j] = ~@]
  /\ UNCHANGED <<up, present, files, transit, _watches, ran, newer, recorded, mark,
                 _file_change_pending, run, owed, changes, stops>>

\* The daemon ends or dies: buffers, watches and debounce go, and runs are lost;
\* of what the jobs are owed the polled directories keep their part.
GoDown ==
  /\ up /\ stops < MaxStops
  /\ stops' = stops + 1
  /\ up' = FALSE
  /\ transit' = {} /\ _watches' = {}
  /\ recorded' = [j \in Jobs |-> {}]
  /\ mark' = [j \in Jobs |-> NoMark]
  /\ _file_change_pending' = [j \in Jobs |-> "none"]
  /\ run' = [j \in Jobs |-> "idle"]
  /\ owed' = Forgotten(Watchable)
  /\ UNCHANGED <<present, files, enabled, ran, newer, changes, commands>>

Boot ==
  /\ ~up
  /\ up' = TRUE
  /\ UNCHANGED <<present, files, transit, _watches, job, changes, commands, stops>>

\* What goes on by itself: the loop ticks, the observer thread delivers, windows
\* pass, runs start and end.
Advance ==
  \/ \E j \in Jobs : EndRun(j) \/ StartRun(j) \/ WindowPasses(j)
  \/ \E d \in Dirs : Record(d)
  \/ Tick

Next ==
  \/ Advance
  \/ \E d \in Dirs : \/ MakeDir(d) \/ Change(d) \/ ChangeBeyond(d) \/ Vanish(d)
                    \/ Overflow(d) \/ \E late \in SUBSET Jobs : MoveIn(d, late)
  \/ \E j \in Jobs : TriggerManual(j) \/ SetEnabled(j)
  \/ GoDown \/ Boot

Spec     == Init /\ [][Next]_vars
FairSpec == Spec /\ WF_vars(Advance)

-----------------------------------------------------------------------------
(* Properties *)

\* Whatever is owed to an enabled or disabled job is held somewhere a later
\* check will find it, also while a run of the job is under way: for a watched
\* directory in the buffer or on its way there, for a polled one in the files.
\* What a check of a polled directory cannot find is not owed: a change beyond
\* the cap, an old file moved in, a changed file that went again; nor is what a
\* full buffer has dropped.
NoBlindSpot ==
  \A j \in Jobs : \A d \in owed[j] :
    IF ~ran[j] /\ ~Started(j) THEN d \in files
    ELSE IF d \in Watchable
    THEN /\ d \in _watches
         /\ d \in recorded[j] \cup transit
         /\ Started(j) => d \in mark[j].recorded \cup transit
    ELSE /\ d \in newer[j]
         /\ Started(j) => d \in mark[j].newer

\* The jobs a single trigger can fire by itself.
Simple == {j \in Jobs : Len(Triggers[j]) = 1
                        \/ \A i \in DOMAIN Triggers[j] : ~Triggers[j][i].debounce}

FiresFor(j) ==
  \A d \in DirsOf(j) :
    d \in owed[j] /\ enabled[j] /\ up ~> d \notin owed[j] \/ ~enabled[j] \/ ~up

\* A change that is owed is followed by a run that starts after it, also when it
\* came while a run was waiting or under way (scheduler.py:469-474,
\* runner.py:357), unless the job is disabled, the daemon goes down or all trace
\* of the change is gone (Vanish, Overflow).
ChangeFires == \A j \in Simple : FiresFor(j)

\* When changes and commands cease, so do runs: none is fired over and over for
\* a change already served.
Quiesces == <>[](\A j \in Jobs : run[j] = "idle")

\* "when a file-change was first detected, used to implement per-trigger
\* debounce_seconds" (scheduler.py:135-136): so for a job of several triggers, too.
DebounceFires == \A j \in Jobs : FiresFor(j)
=============================================================================
