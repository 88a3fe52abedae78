----------------------------- MODULE RunLedger -----------------------------
(***************************************************************************)
(* What the daemon promises about its run records (runs/*.json), whatever  *)
(* it does inside: a record is opened once, a settled record never changes *)
(* again, only a paused one goes back to running, and a record left        *)
(* running by a dead daemon is failed by the next one before it serves.    *)
(* The statuses are those of JobStatus; "absent" means there is no file.   *)
(***************************************************************************)

CONSTANT Runs

VARIABLES
  record,   \* record[r]: the status in r's file, or "absent"
  up        \* a daemon process owns the records

vars == <<record, up>>

Settled == {"completed", "failed", "cancelled", "skipped"}
Status  == {"absent", "running", "paused"} \cup Settled

(* The moves one handler may make on one record while a daemon is up.      *)
Moves ==
  \/ \E r \in Runs, s \in {"running", "failed", "skipped"} :
        record[r] = "absent" /\ record' = [record EXCEPT ![r] = s]
  \/ \E r \in Runs, s \in {"completed", "failed", "skipped", "paused"} :
        record[r] = "running" /\ record' = [record EXCEPT ![r] = s]
  \/ \E r \in Runs :
        record[r] = "paused" /\ record' = [record EXCEPT ![r] = "running"]

Serve == up /\ Moves /\ UNCHANGED up

(* The daemon goes away; a graceful stop cancels some of the running runs. *)
Stop ==
  /\ up /\ up' = FALSE
  /\ \E C \in SUBSET {r \in Runs : record[r] = "running"} :
        record' = [r \in Runs |-> IF r \in C THEN "cancelled" ELSE record[r]]

(* A new daemon fails every record the last one left running.  It may die  *)
(* before it has rewritten them all; then the next one goes on.            *)
Recover ==
  /\ ~up
  /\ \E F \in SUBSET {r \in Runs : record[r] = "running"} :
        /\ record' = [r \in Runs |-> IF r \in F THEN "failed" ELSE record[r]]
        /\ up' \in BOOLEAN
        /\ up' => \A r \in Runs : record[r] = "running" => r \in F

Init == record = [r \in Runs |-> "absent"] /\ up = FALSE
Next == Serve \/ Stop \/ Recover
Spec == Init /\ [][Next]_vars
=============================================================================
