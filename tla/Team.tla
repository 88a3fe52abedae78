-------------------------------- MODULE Team --------------------------------
(***************************************************************************)
(* An agent team (teams.py, team_executor.py, cost_ledger.py): run_team    *)
(* hands the claimable tasks of a board to its members round by round,     *)
(* under a spawn cap, a cost cap and a ceiling on activations, while the   *)
(* user of `/team run` may pause, resume, kill or interrupt it.            *)
(*                                                                         *)
(* A task is named by its place on the board and a member by its place in  *)
(* the roster; 0 is no task.  The coordinator gives up the event loop only *)
(* while a round's teammates work, so only then do the user and the        *)
(* teammates act.                                                          *)
(***************************************************************************)
EXTENDS Naturals, FiniteSets

CONSTANTS
  NTasks, NMembers,
  Titles,          \* task titles, by which `/team run` names dependencies
  Requests,        \* what teams are asked to do: titles and what each comes after
  Limits           \* caps a team can be given: [spawns, activations]

Tasks   == 1..NTasks
Members == 1..NMembers

ASSUME SizesAssumption == NTasks \in Nat \ {0} /\ NMembers \in Nat \ {0}
ASSUME LimitsAssumption == Limits \subseteq [spawns : Nat, activations : Nat \ {0}]
ASSUME RequestsAssumption ==
  Requests \subseteq [title : [Tasks -> Titles], after : [Tasks -> SUBSET Titles]]

Final  == {"done", "failed"}
Status == {"open", "claimed"} \cup Final
Stage  == {"idle", "offered", "waiting", "working"} \cup Final

VARIABLES
  limit,        \* RunawayCaps.max_subagents (None: a number that is never
                \* reached) and run_team's max_activations
  deps,         \* LedgerTask.depends_on
  status,       \* LedgerTask.status
  phase,        \* run_team: "check", "offer", "work", "stopped" or "aborted"
  taken,        \* len(assignments): members 1..taken hold a task
  holds,        \* holds[m]: the task assigned to m this round, or 0
  stage,        \* stage[m]: how far m's teammate_runner is with it
  spawns,       \* CostLedger.subagent_spawns
  overspent,    \* the cost cap is reached
  activations,
  reason,       \* run_team's reason, which starts as "completed"
  paused,       \* ~pause_gate.is_set()
  cancelling,   \* the worker was cancelled and has not been resumed
  handle        \* TeamRunHandle.status

vars == <<limit, deps, status, phase, taken, holds, stage, spawns, overspent,
          activations, reason, paused, cancelling, handle>>

-----------------------------------------------------------------------------
(* The board *)

(* parse_team_run with --chain: each task comes after the one before it.   *)
Chained(f) ==
  [title |-> f, after |-> [t \in Tasks |-> IF t = 1 THEN {} ELSE {f[t - 1]}]]

(* parse_team_run without it.                                              *)
Independent(f) == [title |-> f, after |-> [t \in Tasks |-> {}]]

(* build_ledger: a title stands for the last task that bears it, and only  *)
(* that task's dependencies are filled in.                                 *)
Bears(r, t, title) ==
  r.title[t] = title /\ \A u \in Tasks : r.title[u] = title => u <= t

Wired(r) ==
  [t \in Tasks |-> {d \in Tasks : \E title \in r.after[t] :
                      Bears(r, d, title) /\ Bears(r, t, r.title[t])}]

Terminal(t) == status[t] \in Final

ClaimableUnlessFailed ==
  {t \in Tasks : status[t] = "open" /\ \A d \in deps[t] : status[d] # "failed"}

(* TaskLedger._deps_done, claim_next: the tasks that can be claimed.       *)
Claimable == {t \in Tasks : status[t] = "open" /\ \A d \in deps[t] : status[d] = "done"}

ClaimsUnmarked(m, t) ==
  /\ t \in Claimable /\ \A u \in Claimable : t <= u
  /\ holds' = [holds EXCEPT ![m] = t]
  /\ UNCHANGED status

(* claim_next: the first of them.                                          *)
Claims(m, t) ==
  /\ t \in Claimable /\ \A u \in Claimable : t <= u
  /\ status' = [status EXCEPT ![t] = "claimed"]
  /\ holds' = [holds EXCEPT ![m] = t]

-----------------------------------------------------------------------------
(* The coordinator *)

Init ==
  /\ limit \in Limits /\ \E r \in Requests : deps = Wired(r)
  /\ status = [t \in Tasks |-> "open"] /\ phase = "check" /\ taken = 0
  /\ holds = [m \in Members |-> 0] /\ stage = [m \in Members |-> "idle"]
  /\ spawns = 0 /\ overspent = FALSE /\ activations = 0 /\ reason = "completed"
  /\ paused = FALSE /\ cancelling = FALSE /\ handle = "running"

(* run_team returns and finish_team_run records its report.                *)
Stop(why) ==
  /\ phase' = "stopped" /\ reason' = why
  /\ handle' = "done" /\ paused' = FALSE

(* The head of a round: the board, then the cost cap.                      *)
BeginRound ==
  /\ phase = "check"
  /\ \/ (\A t \in Tasks : Terminal(t)) /\ Stop(reason)
     \/ (\E t \in Tasks : ~Terminal(t)) /\ overspent /\ Stop("cost_cap")
     \/ /\ (\E t \in Tasks : ~Terminal(t)) /\ ~overspent
        /\ phase' = "offer" /\ UNCHANGED <<reason, paused, handle>>
  /\ UNCHANGED <<limit, deps, status, taken, holds, stage, spawns, overspent,
                 activations, cancelling>>

DeniedLate == spawns > limit.spawns

(* register_subagent_spawn, which counts what it allows.                   *)
Denied == spawns >= limit.spawns

(* The next member pays for a spawn and then claims a task.                *)
Offer ==
  /\ phase = "offer" /\ taken < NMembers /\ ~Denied
  /\ \E t \in Tasks : Claims(taken + 1, t)
  /\ spawns' = spawns + 1 /\ taken' = taken + 1
  /\ stage' = [stage EXCEPT ![taken + 1] = "offered"]
  /\ UNCHANGED <<limit, deps, phase, overspent, activations, reason, paused,
                 cancelling, handle>>

GatherSilently(why) ==
  \/ /\ taken > 0 /\ phase' = "work" /\ reason' = why
     /\ UNCHANGED <<handle, paused>>
  \/ taken = 0 /\ Stop(why)

(* The offers of the round end: the gather starts, or nobody holds a task. *)
Gather(why) ==
  \/ /\ taken > 0 /\ phase' = "work" /\ reason' = why
     /\ UNCHANGED <<handle, paused>>
  \/ taken = 0 /\ Stop(IF why = "completed"
                       THEN "deadlocked" ELSE why)

(* ... because the cap denies the next member, because it found no task    *)
(* after it has paid for it, or because every member holds one.            *)
EndOffers ==
  /\ phase = "offer"
  /\ \/ taken < NMembers /\ Denied /\ Gather("spawn_cap") /\ UNCHANGED spawns
     \/ /\ taken < NMembers /\ ~Denied /\ Claimable = {}
        /\ Gather("completed") /\ spawns' = spawns + 1
     \/ taken = NMembers /\ Gather("completed") /\ UNCHANGED spawns
  /\ UNCHANGED <<limit, deps, status, taken, holds, stage, overspent, activations, cancelling>>

WrittenReopens ==
  [t \in Tasks |-> IF \E m \in 1..taken : holds[m] = t /\ stage[m] = "failed"
                   THEN "open"
                   ELSE IF \E m \in 1..taken : holds[m] = t THEN "done" ELSE status[t]]

(* What the round leaves on the board: complete and fail for each result.  *)
Written ==
  [t \in Tasks |-> IF \E m \in 1..taken : holds[m] = t
                   THEN stage[CHOOSE m \in 1..taken : holds[m] = t] ELSE status[t]]

RoundOverIfDone == phase = "work" /\ ~cancelling /\ \A m \in 1..taken : stage[m] = "done"

HandsKept == taken' = 0 /\ UNCHANGED <<holds, stage>>

(* The next round begins with empty assignments.                           *)
HandsEmptied ==
  /\ taken' = 0
  /\ holds' = [m \in Members |-> 0] /\ stage' = [m \in Members |-> "idle"]

RoundOver == phase = "work" /\ ~cancelling /\ \A m \in 1..taken : stage[m] \in Final

(* Every result is in: they are written back and the ceilings consulted.   *)
EndRound ==
  /\ RoundOver
  /\ status' = Written
  /\ activations' = activations + taken
  /\ HandsEmptied
  /\ \/ reason = "spawn_cap" /\ Stop(reason)
     \/ /\ reason # "spawn_cap" /\ activations' >= limit.activations
        /\ Stop("max_activations")
     \/ /\ reason # "spawn_cap" /\ activations' < limit.activations
        /\ phase' = "check" /\ UNCHANGED <<reason, paused, handle>>
  /\ UNCHANGED <<limit, deps, spawns, overspent, cancelling>>

(* The cancelled worker: CancelledError leaves run_team at the gather, so  *)
(* nothing is written back; the caller's `except BaseException` (app.py,   *)
(* _run_team_run_task) finishes the run as failed.                         *)
Abort ==
  /\ phase = "work" /\ cancelling
  /\ phase' = "aborted" /\ cancelling' = FALSE
  /\ handle' = "failed" /\ paused' = FALSE
  /\ HandsEmptied
  /\ UNCHANGED <<limit, deps, status, spawns, overspent, activations, reason>>

-----------------------------------------------------------------------------
(* The teammates *)

Working == phase = "work" /\ ~cancelling

(* A teammate's coroutine starts: it waits at a closed gate (_gated).      *)
Start(m) ==
  /\ Working /\ stage[m] = "offered"
  /\ stage' = [stage EXCEPT ![m] = IF paused THEN "waiting" ELSE "working"]
  /\ UNCHANGED <<limit, deps, status, phase, taken, holds, spawns, overspent,
                 activations, reason, paused, cancelling, handle>>

(* Its agent returns or raises (_run_teammate), and may have been charged  *)
(* to the cost ledger.                                                     *)
Return(m) ==
  /\ Working /\ stage[m] = "working"
  /\ \E out \in Final : stage' = [stage EXCEPT ![m] = out]
  /\ overspent' \in {overspent, TRUE}
  /\ UNCHANGED <<limit, deps, status, phase, taken, holds, spawns, activations,
                 reason, paused, cancelling, handle>>

-----------------------------------------------------------------------------
(* The user *)

(* /tasks pause.                                                           *)
Pause ==
  /\ phase = "work" /\ handle = "running" /\ paused' = TRUE
  /\ UNCHANGED <<limit, deps, status, phase, taken, holds, stage, spawns, overspent,
                 activations, reason, cancelling, handle>>

(* /tasks resume: the event wakes whoever waits for it, for good.          *)
Resume ==
  /\ phase = "work" /\ handle = "running" /\ paused' = FALSE
  /\ stage' = [m \in Members |-> IF stage[m] = "waiting" THEN "working" ELSE stage[m]]
  /\ UNCHANGED <<limit, deps, status, phase, taken, holds, spawns, overspent,
                 activations, reason, cancelling, handle>>

(* /tasks kill.                                                            *)
Kill ==
  /\ phase = "work" /\ handle = "running"
  /\ cancelling' = TRUE /\ handle' = "cancelled" /\ paused' = FALSE
  /\ UNCHANGED <<limit, deps, status, phase, taken, holds, stage, spawns, overspent,
                 activations, reason>>

(* Esc or Ctrl+C.                                                          *)
Interrupt ==
  /\ phase = "work" /\ ~cancelling /\ cancelling' = TRUE
  /\ UNCHANGED <<limit, deps, status, phase, taken, holds, stage, spawns, overspent,
                 activations, reason, paused, handle>>

Coordinate == BeginRound \/ Offer \/ EndOffers \/ EndRound \/ Abort
TeammateStep(m) == Start(m) \/ Return(m)
UserStep == Pause \/ Resume \/ Kill \/ Interrupt

Next == Coordinate \/ UserStep \/ \E m \in Members : TeammateStep(m)

Spec == Init /\ [][Next]_vars
FairSpec == Spec /\ WF_vars(Coordinate) /\ \A m \in Members : WF_vars(TeammateStep(m))

-----------------------------------------------------------------------------
(* Properties *)

(* Every variable has its type, and outside a round nobody holds a task.   *)
TypeOK ==
  /\ limit \in [spawns : Nat, activations : Nat \ {0}]
  /\ deps \in [Tasks -> SUBSET Tasks] /\ status \in [Tasks -> Status]
  /\ phase \in {"check", "offer", "work", "stopped", "aborted"}
  /\ taken \in 0..NMembers
  /\ holds \in [Members -> Tasks \cup {0}] /\ stage \in [Members -> Stage]
  /\ spawns \in Nat /\ activations \in Nat
  /\ overspent \in BOOLEAN /\ paused \in BOOLEAN /\ cancelling \in BOOLEAN
  /\ reason \in {"completed", "cost_cap", "spawn_cap",
                 "max_activations",
                 "deadlocked"}
  /\ handle \in {"running", "done", "failed", "cancelled"}
  /\ phase \notin {"offer", "work"} => taken = 0
  /\ \A m \in Members :
       (m <= taken <=> holds[m] # 0) /\ (m <= taken <=> stage[m] # "idle")

(* No two teammates hold the same task, and the claimed tasks of the board *)
(* are those in somebody's hands (claim_next against the write-back).      *)
OneHolder ==
  /\ \A m, n \in 1..taken : holds[m] = holds[n] => m = n
  /\ phase # "aborted" =>
       \A t \in Tasks : status[t] = "claimed" <=> \E m \in 1..taken : holds[m] = t

(* No task is taken up before everything it depends on is done, and no     *)
(* failure is worked around (TaskLedger: a failed dependency blocks it).   *)
DepsFirst ==
  \A t \in Tasks : status[t] # "open" => \A d \in deps[t] : status[d] = "done"

(* The runaway caps: spawns stay under their cap, no teammate works that   *)
(* was not paid for, and max_activations is passed by less than one round. *)
CapsHold ==
  /\ spawns <= limit.spawns
  /\ activations + taken <= spawns
  /\ activations < limit.activations + NMembers

(* A team that stops of itself, and no other, is shown as done to the user *)
(* (finish_team_run), says truly why, and leaves no task claimed.          *)
ReasonIsTrue ==
  /\ handle = "done" <=> phase = "stopped"
  /\ phase = "stopped" =>
    /\ \A t \in Tasks : status[t] # "claimed"
    /\ reason = "completed" => \A t \in Tasks : Terminal(t)
    /\ reason = "cost_cap" => overspent
    /\ reason = "spawn_cap" => spawns >= limit.spawns
    /\ reason = "max_activations" => activations >= limit.activations
    /\ reason = "deadlocked" =>
         Claimable = {} /\ \E t \in Tasks : ~Terminal(t)

Board == INSTANCE TaskBoard

(* The board of a team implements the abstract task board, through rounds, *)
(* caps, pauses and cancellations.                                         *)
KeepsBoard == Board!Spec

(* A team that is not left paused comes to an end, whichever of its        *)
(* teammates fail (run_team's loop always makes progress).                 *)
TeamEnds == []<>~paused => <>(phase \in {"stopped", "aborted"})
=============================================================================
