---------------------------- MODULE MCDaemonRuns ----------------------------
(* Instances of DaemonRuns for TLC. *)
EXTENDS DaemonRuns, TLC

CONSTANT capped   \* the jobs with an attempt cap of one

OneAttempt == [j \in Jobs |-> IF j \in capped THEN 1 ELSE 0]
=============================================================================
