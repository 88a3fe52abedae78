----------------------------- MODULE TaskBoard -----------------------------
(***************************************************************************)
(* What a team promises about its task board, however its rounds, caps and *)
(* cancellations go: a task is taken up only when all it depends on is     *)
(* done, leaves a teammate's hands done or failed, and is never taken up a *)
(* second time.                                                            *)
(***************************************************************************)

CONSTANT Tasks

VARIABLES
  deps,     \* deps[t]: the tasks t depends on
  status    \* status[t]: open, claimed, done or failed

vars == <<deps, status>>

Claim(t) ==
  /\ status[t] = "open" /\ \A d \in deps[t] : status[d] = "done"
  /\ status' = [status EXCEPT ![t] = "claimed"]
  /\ UNCHANGED deps

(* Some of the tasks in hand come back together.                           *)
Settle ==
  /\ status' \in [Tasks -> {"open", "claimed", "done", "failed"}]
  /\ \A t \in Tasks : status'[t] # status[t] =>
       status[t] = "claimed" /\ status'[t] \in {"done", "failed"}
  /\ UNCHANGED deps

Init ==
  /\ deps \in [Tasks -> SUBSET Tasks]
  /\ status = [t \in Tasks |-> "open"]

Next == Settle \/ \E t \in Tasks : Claim(t)
Spec == Init /\ [][Next]_vars
=============================================================================
