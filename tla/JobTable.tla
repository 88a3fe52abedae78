------------------------------ MODULE JobTable ------------------------------
(***************************************************************************)
(* What the daemon promises about the user's jobs, whatever happens to the *)
(* file they are kept in: a write changes the one job it is about, and a   *)
(* list that cannot be read any more is set aside whole.  A list is        *)
(* written over only by a writer who was refused both.                     *)
(***************************************************************************)

CONSTANTS Jobs, NoJob

VARIABLES
  jobs,    \* the job list: jobs[j] is j's record or NoJob
  aside,   \* the lists that were set aside
  blind    \* whoever looked at the list last was refused it

vars == <<jobs, aside, blind>>

Empty == [j \in Jobs |-> NoJob]

Look == blind' \in BOOLEAN /\ UNCHANGED <<jobs, aside>>

(* One job is added, edited, counted or removed.                           *)
Change ==
  /\ \E j \in Jobs : jobs' = [jobs EXCEPT ![j] = jobs'[j]]
  /\ UNCHANGED <<aside, blind>>

SetAside == aside' = aside \cup {jobs} /\ jobs' = Empty /\ ~blind'

(* The one job of a blind write is all that is left.                       *)
WriteOver ==
  /\ blind /\ \E j \in Jobs : jobs' = [Empty EXCEPT ![j] = jobs'[j]]
  /\ UNCHANGED <<aside, blind>>

Init == jobs = Empty /\ aside = {} /\ blind = FALSE
Next == Look \/ Change \/ SetAside \/ WriteOver
Spec == Init /\ [][Next]_vars
=============================================================================
