------------------------------ MODULE JobStore ------------------------------
(***************************************************************************)
(* jobs.json (store.py): every operation loads the whole list, changes it  *)
(* and saves it whole, by writing a sibling file and renaming it over the  *)
(* old one.  The operations run under one lock on one event loop, so what  *)
(* can come between the two halves of a save is a failed write or a crash. *)
(* A list that does not parse is renamed aside.  When the operating system *)
(* refuses that rename, or the read itself, the operation goes on with an  *)
(* empty list and leaves the file where it is; bytes that are not UTF-8    *)
(* make the operation raise.                                               *)
(***************************************************************************)
EXTENDS Naturals, Sequences

CONSTANTS
  Jobs,          \* job ids
  NoJob,         \* no job under this id
  Configs,       \* configurations a job can be given
  CountLimit,    \* bound: run_count
  ReadsMayFail,  \* BOOLEAN: reading jobs.json can raise a transient OSError
  MovesMayFail   \* BOOLEAN: renaming a damaged jobs.json can raise an OSError

Records == [config : Configs, count : Nat]

ASSUME NoRecordAssumption == NoJob \notin Records
ASSUME FaultsAssumption == ReadsMayFail \in BOOLEAN /\ MovesMayFail \in BOOLEAN

VARIABLES
  shape,    \* what is at the path: one of Shapes
  table,    \* the jobs in it, the damaged ones included
  pending,  \* <<t>> while t is written to jobs.json.tmp and not renamed, or <<>>
  aside,    \* the lists in jobs.json.corrupt-* files
  held,     \* held[j]: the job object a run of j carries, or NoJob
  used,     \* history: job ids ever given out
  refused   \* history: the operating system refused the last operation its
            \* read of the list, or the rename that sets a damaged one aside

vars == <<shape, table, pending, aside, held, used, refused>>

Shapes == {"missing", "list", "corrupt", "undecodable"}

Empty  == [j \in Jobs |-> NoJob]
Tables == [Jobs -> Records \cup {NoJob}]

TypeOK ==
  /\ shape \in Shapes /\ refused \in BOOLEAN
  /\ table \in Tables /\ held \in Tables
  /\ pending \in Seq(Tables) /\ Len(pending) <= 1
  /\ aside \subseteq Tables /\ used \subseteq Jobs

Init ==
  /\ shape = "missing" /\ table = Empty /\ pending = <<>>
  /\ aside = {} /\ held = Empty /\ used = {} /\ refused = FALSE

-----------------------------------------------------------------------------
(* Loading and saving *)

(* No operation is between its two halves: the lock is free.               *)
Idle == pending = <<>>

SetsNothingAside ==
  \/ /\ shape' = "missing" /\ table' = Empty /\ refused' = FALSE
     /\ UNCHANGED aside
  \/ /\ MovesMayFail /\ refused' = TRUE
     /\ UNCHANGED <<shape, table, aside>>

(* _quarantine_corrupt_jobs: the bad file is renamed, or stays where it is *)
(* because the rename raised.                                              *)
Quarantine ==
  \/ /\ shape' = "missing" /\ table' = Empty /\ refused' = FALSE
     /\ aside' = aside \cup {table}
  \/ /\ MovesMayFail /\ refused' = TRUE
     /\ UNCHANGED <<shape, table, aside>>

(* _load_jobs_unlocked returns the list seen.                              *)
Load(seen) ==
  \/ /\ shape \in {"missing", "list"} /\ seen = table /\ refused' = FALSE
     /\ UNCHANGED <<shape, table, aside>>
  \/ /\ shape = "corrupt" /\ seen = Empty
     /\ Quarantine
  \/ /\ ReadsMayFail /\ shape # "missing" /\ seen = Empty /\ refused' = TRUE
     /\ UNCHANGED <<shape, table, aside>>

(* It raises a UnicodeDecodeError instead, which nothing in store.py       *)
(* catches: the operation is over, and for all but RecordResult that is    *)
(* no step of this module.                                                 *)
LoadRaises ==
  /\ shape = "undecodable"
  /\ UNCHANGED <<shape, table, pending, aside, refused>>

(* The first half of _save_jobs_unlocked: the sibling is written.          *)
Save(t) == pending' = <<t>>

(* The second half: the sibling is renamed over jobs.json.                 *)
Rename ==
  /\ ~Idle
  /\ shape' = "list" /\ table' = pending[1] /\ pending' = <<>>
  /\ UNCHANGED <<aside, held, used, refused>>

(* The write or the rename raises: the old file is still there.            *)
SaveFails ==
  /\ ~Idle /\ pending' = <<>>
  /\ UNCHANGED <<shape, table, aside, held, used, refused>>

-----------------------------------------------------------------------------
(* The operations *)

Counted(rec) == [rec EXCEPT !.count = @ + 1]

(* load_jobs, for a tick or a GET.                                         *)
ListJobs ==
  /\ Idle /\ \E seen \in {table, Empty} : Load(seen)
  /\ UNCHANGED <<pending, held, used>>

CreateJobUncounted(j, c) ==
  /\ Idle /\ j \notin used
  /\ \E seen \in {table, Empty} :
       Load(seen) /\ Save([seen EXCEPT ![j] = [config |-> c]])
  /\ used' = used \cup {j}
  /\ UNCHANGED held

(* POST /jobs: upsert_job of a fresh id appends.                           *)
CreateJob(j, c) ==
  /\ Idle /\ j \notin used
  /\ \E seen \in {table, Empty} :
       Load(seen) /\ Save([seen EXCEPT ![j] = [config |-> c, count |-> 0]])
  /\ used' = used \cup {j}
  /\ UNCHANGED held

(* PATCH, enable, disable: get_job reads the record, upsert_job reads the  *)
(* list again and replaces or appends it.                                  *)
PatchJob(j, c) ==
  /\ Idle /\ shape = "list" /\ table[j] # NoJob
  /\ \E seen \in {table, Empty} :
       Load(seen) /\ Save([seen EXCEPT ![j] = [table[j] EXCEPT !.config = c]])
  /\ UNCHANGED <<held, used>>

(* DELETE: a job that is not in the list seen is not saved away.           *)
DeleteJob(j) ==
  /\ Idle
  /\ \E seen \in {table, Empty} :
       /\ Load(seen)
       /\ IF seen[j] = NoJob THEN UNCHANGED pending
                             ELSE Save([seen EXCEPT ![j] = NoJob])
  /\ UNCHANGED <<held, used>>

(* A run is launched: its handler carries the job object read from here.   *)
LaunchRun(j) ==
  /\ Idle /\ shape = "list" /\ table[j] # NoJob /\ held[j] = NoJob
  /\ table[j].count < CountLimit
  /\ held' = [held EXCEPT ![j] = table[j]]
  /\ UNCHANGED <<shape, table, pending, aside, used, refused>>

(* record_run_result: merge into the record seen, or insert the job held.  *)
RecordResult(j) ==
  /\ Idle /\ held[j] # NoJob
  /\ \/ LoadRaises
     \/ \E seen \in {table, Empty} :
          /\ Load(seen)
          /\ Save([seen EXCEPT ![j] = Counted(IF seen[j] = NoJob THEN held[j] ELSE seen[j])])
  /\ held' = [held EXCEPT ![j] = NoJob]
  /\ UNCHANGED used

-----------------------------------------------------------------------------
(* The world *)

(* A hand edit or the disk damages the file; its bytes still tell the jobs.*)
Damage ==
  /\ Idle /\ shape = "list" /\ shape' \in {"corrupt", "undecodable"}
  /\ UNCHANGED <<table, pending, aside, held, used, refused>>

(* The daemon dies; jobs.json.tmp, if any, is written afresh by the next.  *)
Crash ==
  /\ pending' = <<>> /\ held' = Empty
  /\ UNCHANGED <<shape, table, aside, used, refused>>

Operation(j) ==
  \/ \E c \in Configs : CreateJob(j, c) \/ PatchJob(j, c)
  \/ DeleteJob(j) \/ LaunchRun(j) \/ RecordResult(j)

Next ==
  \/ ListJobs \/ Rename \/ SaveFails \/ Damage \/ Crash
  \/ \E j \in Jobs : Operation(j)

Spec == Init /\ [][Next]_vars

-----------------------------------------------------------------------------
(* Properties *)

(* The user's jobs are kept as JobTable promises, whatever is refused: a   *)
(* save, torn or refused or cut short by a crash, changes one job or none, *)
(* and a damaged list is set aside before anything is written.  Jobs go    *)
(* missing in one way only: the operating system refused the very          *)
(* operation that saves its read of them, or the rename that sets them     *)
(* aside; a refusal met by one operation does no harm to the next.         *)
JobList == INSTANCE JobTable WITH jobs <- table, blind <- refused
KeepsJobs == JobList!Spec

(* store.py: a transient OSError leaves a file that "may be perfectly      *)
(* good" and "just yields an empty list for this read".  A save that       *)
(* follows the read takes the other jobs with it.                          *)
ChangesOneJob ==
  [][\A i, j \in Jobs :
       table'[i] # table[i] /\ table'[j] # table[j] => i = j \/ table \in aside']_vars
=============================================================================
