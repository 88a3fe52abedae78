------------------------------ MODULE Workflow ------------------------------
(***************************************************************************)
(* One run of a workflow of the CLI (bog_agents_cli/workflow.py and        *)
(* workflow_controller.py): the phases run one after another, each as a    *)
(* team that works on its task board in rounds (run_team); the run is      *)
(* written to its own file after every task and every phase, and           *)
(* /workflow resume goes on from the file.  A session may die at any step  *)
(* (Esc, a crash of the application), also while the file is written; a    *)
(* save that fails is passed over; between sessions phases may be added to *)
(* the workflow or taken away.                                             *)
(***************************************************************************)
EXTENDS Integers, FiniteSetsExt

CONSTANTS
  NPhases, NTasks,    \* the size of the largest workflow
  Plans,              \* its versions: [size, phase, after, gates, workers]
  Budgets,            \* budgets of a session, NoBudget for none
  Ceilings,           \* max_agents of a session
  MaxCost,            \* bound: what one attempt may cost
  MaxSessions,        \* bound: /workflow run and resume commands
  MaxCrashes,         \* bound: sessions that die
  MaxFaults           \* bound: saves that fail

NoBudget == 0
Tasks    == 1..NTasks

PlansOf(n) ==
  [size : {n}, phase : [Tasks -> 1..n], after : [Tasks -> SUBSET Tasks],
   gates : SUBSET (1..n), workers : [1..n -> Nat \ {0}]]

ASSUME SizesAssumption == NPhases \in Nat \ {0} /\ NTasks \in Nat
ASSUME PlansAssumption == \A q \in Plans : \E n \in 1..NPhases : q \in PlansOf(n)
ASSUME BoundsAssumption ==
  Budgets \subseteq Nat /\ Ceilings \subseteq Nat \ {0}
  /\ MaxCost \in Nat /\ MaxSessions \in Nat /\ MaxCrashes \in Nat
  /\ MaxFaults \in Nat

VARIABLES
  plan,        \* the workflow file
  disk,        \* the run's file
  behind,      \* the session's last save failed
  run,         \* the WorkflowRun of the session
  stage,       \* where the session is
  index,       \* the phase it is at
  board,       \* the phase's TaskLedger
  round,       \* [taken, capped]: this round's tasks, its last for want of spawns
  count,       \* [spawns, activations]: of the session, of the phase
  limits,      \* [budget, agents]: of the session
  budget_hit,
  paid,        \* history: what all attempts of the run have cost
  lost,        \* history: what of that no record shows
  sessions, crashes, faults

session == <<run, stage, index, board, round, count, limits, budget_hit>>
vars    == <<plan, disk, behind, session, paid, lost, sessions, crashes, faults>>

Phases == 1..plan.size

NoRun == [status |-> "none"]
Fresh == [status  |-> "running",
          phases  |-> [p \in Phases |-> "pending"],
          tasks   |-> [t \in Tasks |-> "pending"],
          cost    |-> [t \in Tasks |-> 0],
          verdict |-> [t \in Tasks |-> "none"]]

InPhase(p) == {t \in Tasks : plan.phase[t] = p}

\* spent_usd and resume_index of a run
Spent(r) ==
  LET spent[n \in 0..NTasks] == IF n = 0 THEN 0 ELSE spent[n - 1] + r.cost[n]
  IN spent[NTasks]
Saved(r) == IF r = NoRun THEN 0 ELSE Spent(r)
ResumeIndex(r) ==
  CHOOSE i \in 1..NPhases + 1 :
    /\ i \in DOMAIN r.phases => r.phases[i] # "done"
    /\ \A p \in 1..i - 1 : p \in DOMAIN r.phases /\ r.phases[p] = "done"

OverBudget(r, budget) == budget # NoBudget /\ Spent(r) >= budget

NoBoard  == [t \in Tasks |-> "out"]
NoRound  == [taken |-> {}, capped |-> FALSE]
NoCount  == [spawns |-> 0, activations |-> 0]
NoLimits == [budget |-> NoBudget, agents |-> 0]
Open     == {t \in Tasks : board[t] = "open"}

\* TaskLedger.claim_next: open, and nothing it waits for on this board is left.
Claimable == {t \in Open : \A d \in plan.after[t] : board[d] \in {"out", "done"}}

PhaseStates == {"pending", "running", "paused", "failed", "done"}
RunRecords ==
  [status : {"running", "paused", "failed", "done"},
   phases : UNION {[1..n -> PhaseStates] : n \in 1..NPhases},
   tasks : [Tasks -> {"pending", "running", "done", "failed"}],
   cost : [Tasks -> Nat],
   verdict : [Tasks -> {"none", "pass", "fail"}]]

TypeOK ==
  /\ plan \in Plans
  /\ disk \in RunRecords \cup {NoRun}
  /\ behind \in BOOLEAN /\ (stage = "idle" => ~behind)
  /\ run \in RunRecords \cup {NoRun}
  /\ stage \in {"idle", "between", "rounds", "working", "over"}
  /\ stage = "idle" <=> run = NoRun
  /\ index \in 1..NPhases + 1
  /\ board \in [Tasks -> {"out", "open", "claimed", "done", "failed"}]
  /\ round \in [taken : SUBSET Tasks, capped : BOOLEAN]
  /\ count \in [spawns : Nat, activations : Nat]
  /\ limits \in [budget : Budgets \cup {NoBudget}, agents : Nat]
  /\ budget_hit \in BOOLEAN
  /\ paid \in Nat /\ lost \in Int
  /\ sessions \in 0..MaxSessions /\ crashes \in 0..MaxCrashes /\ faults \in 0..MaxFaults

Init ==
  /\ plan \in Plans
  /\ disk = NoRun /\ run = NoRun /\ behind = FALSE
  /\ stage = "idle" /\ index = 1
  /\ board = NoBoard /\ round = NoRound /\ count = NoCount
  /\ limits = NoLimits
  /\ budget_hit = FALSE
  /\ paid = 0 /\ lost = 0
  /\ sessions = 0 /\ crashes = 0 /\ faults = 0

-----------------------------------------------------------------------------
(* /workflow run and /workflow resume *)

\* _persist: the file holds r, or the write raises OSError and nobody is told;
\* the file is as it was, or was cut off and no longer loads.
Written(r)  == disk' = r /\ UNCHANGED faults
WriteFails  == /\ faults < MaxFaults /\ faults' = faults + 1
               /\ disk' \in {disk, NoRun}

\* The session is over, and what it kept in memory is gone.
SessionOver ==
  /\ run' = NoRun /\ stage' = "idle" /\ behind' = FALSE
  /\ index' = 1 /\ board' = NoBoard /\ round' = NoRound /\ count' = NoCount
  /\ limits' = NoLimits /\ budget_hit' = FALSE

\* The session goes on with run r, saved or not.
Save(r) ==
  /\ run' = r
  /\ \/ Written(r) /\ behind' = FALSE
     \/ WriteFails /\ behind' = TRUE

ConcludeKeepsRun(r) ==
  /\ run' = r /\ stage' = "idle" /\ behind' = FALSE
  /\ index' = 1 /\ board' = NoBoard /\ round' = NoRound /\ count' = NoCount
  /\ limits' = NoLimits /\ budget_hit' = FALSE
  /\ Written(r) /\ UNCHANGED lost

\* The session ends with run r; if r is not saved, what the file does not show
\* is lost.
Conclude(r) ==
  /\ SessionOver
  /\ \/ Written(r) /\ UNCHANGED lost
     \/ WriteFails /\ lost' = paid - Saved(disk')

Limits == [budget : Budgets, agents : Ceilings]

Command ==
  /\ stage = "idle" /\ sessions < MaxSessions
  /\ sessions' = sessions + 1
  /\ UNCHANGED <<plan, paid, crashes>>

\* A session begins with run r under limits l, at the first phase not closed.
SessionBegins(r, l) ==
  /\ Save([r EXCEPT !.status = "running"])
  /\ stage' = "between" /\ index' = ResumeIndex(r)
  /\ limits' = l /\ budget_hit' = FALSE /\ count' = NoCount
  /\ UNCHANGED <<board, round>>

\* The run begins.  (Another /workflow run is another run with its own file.)
RunWorkflow ==
  /\ sessions = 0
  /\ Command
  /\ \E l \in Limits : SessionBegins(Fresh, l)
  /\ UNCHANGED lost

ResumeUnchecked ==
  /\ disk # NoRun /\ disk.status # "done"
  /\ Command
  /\ \E l \in Limits : SessionBegins(disk, l)
  /\ UNCHANGED lost

\* The run of the file; when the workflow now has more or fewer phases, every
\* phase's record is made anew, and what the old ones held is gone.
Loaded == IF DOMAIN disk.phases = Phases THEN disk ELSE Fresh

\* latest_run finds the run unfinished; its spend counts against the budget.
Resume ==
  /\ disk # NoRun /\ disk.status # "done"
  /\ Command
  /\ \E l \in Limits :
       \/ /\ OverBudget(Loaded, l.budget)
          /\ Conclude([Loaded EXCEPT !.status = "paused"])
       \/ /\ ~OverBudget(Loaded, l.budget)
          /\ SessionBegins(Loaded, l)
          /\ lost' = lost + (Spent(disk) - Spent(Loaded))

\* Between sessions phases are added to the workflow file or removed.
EditWorkflow ==
  /\ stage = "idle" /\ disk # NoRun
  /\ plan' \in Plans /\ DOMAIN disk.phases # 1..plan'.size
  /\ UNCHANGED <<disk, behind, session, paid, lost, sessions, crashes, faults>>

-----------------------------------------------------------------------------
(* A phase *)

BeginPhaseAfresh ==
  /\ stage = "between" /\ ~budget_hit /\ index \in Phases
  /\ Save([run EXCEPT !.phases[index] = "running"])
  /\ board' = [t \in Tasks |-> IF t \in InPhase(index) THEN "open" ELSE "out"]
  /\ count' = [count EXCEPT !.activations = 0]
  /\ round' = NoRound
  /\ stage' = "rounds"
  /\ UNCHANGED <<plan, index, limits, budget_hit, paid, lost, sessions, crashes>>

\* The phase's record is opened and its unfinished tasks go on a new board.
BeginPhase ==
  /\ stage = "between" /\ ~budget_hit /\ index \in Phases
  /\ Save([run EXCEPT !.phases[index] = "running"])
  /\ board' = [t \in Tasks |-> IF t \in InPhase(index) /\ run.tasks[t] # "done"
                               THEN "open" ELSE "out"]
  /\ count' = [count EXCEPT !.activations = 0]
  /\ round' = NoRound
  /\ stage' = "rounds"
  /\ UNCHANGED <<plan, index, limits, budget_hit, paid, lost, sessions, crashes>>

\* How many tasks a round takes: a member each, while spawns are left.
Room  == limits.agents - count.spawns
Taken == Min({plan.workers[index], Room, Cardinality(Claimable)})

RoundSpins ==
  /\ stage = "rounds"
  /\ Open # {}
  /\ \E chosen \in SUBSET Claimable :
       /\ Cardinality(chosen) = Taken
       /\ round' = [taken |-> chosen, capped |-> FALSE]
       /\ board' = [t \in Tasks |-> IF t \in chosen THEN "claimed" ELSE board[t]]
       /\ run' = [run EXCEPT !.tasks =
                    [t \in Tasks |-> IF t \in chosen THEN "running" ELSE @[t]]]
       /\ stage' = IF chosen = {} THEN "rounds" ELSE "working"
  /\ UNCHANGED <<plan, disk, behind, index, count, limits, budget_hit, paid, lost,
                 sessions, crashes, faults>>

\* One round of run_team: members claim tasks in order; each asks for a spawn
\* before it looks at the board.  With nothing to claim, what is left waits for
\* a failed task, and the team stops.
Round ==
  /\ stage = "rounds"
  /\ Open # {}
  /\ \E chosen \in SUBSET Claimable :
       /\ Cardinality(chosen) = Taken
       /\ \A t \in chosen, u \in Claimable \ chosen : t < u
       /\ LET capped == Room < plan.workers[index] /\ Room <= Cardinality(Claimable)
          IN /\ round' = [taken |-> chosen, capped |-> capped]
             /\ count' = [count EXCEPT !.spawns =
                  @ + Min({plan.workers[index], Room, Cardinality(Claimable) + 1})]
       /\ board' = [t \in Tasks |-> IF t \in chosen THEN "claimed" ELSE board[t]]
       /\ run' = [run EXCEPT !.tasks =
                    [t \in Tasks |-> IF t \in chosen THEN "running" ELSE @[t]]]
       /\ stage' = IF chosen = {} THEN "over" ELSE "working"
  /\ UNCHANGED <<plan, disk, behind, index, limits, budget_hit, paid, lost, sessions,
                 crashes, faults>>

TaskReturnsOverwrites(t) ==
  /\ stage = "working"
  /\ t \in round.taken /\ run.tasks[t] = "running"
  /\ \E ok \in BOOLEAN, cost \in 0..MaxCost :
       LET r == [run EXCEPT !.tasks[t] = IF ok THEN "done" ELSE "failed",
                            !.cost[t] = cost]
       IN /\ Save(r)
          /\ budget_hit' = (budget_hit \/ OverBudget(r, limits.budget))
          /\ paid' = paid + cost
  /\ UNCHANGED <<plan, stage, index, board, round, count, limits, lost, sessions,
                 crashes>>

\* A teammate comes back: outcome, cost and, in a gated phase, the verdict go
\* into the task's meter, and the run is saved.  A runner that raised is a
\* failure of which nothing is known, its cost included.
TaskReturns(t) ==
  /\ stage = "working"
  /\ t \in round.taken /\ run.tasks[t] = "running"
  /\ \E ending \in {"done", "failed", "raised"}, cost \in 0..MaxCost,
        passed \in {"pass", "fail"} :
       LET told == IF ending = "raised" THEN 0 ELSE cost
           r == [run EXCEPT !.tasks[t] = IF ending = "done" THEN "done" ELSE "failed",
                            !.cost[t] = @ + told,
                            !.verdict[t] = IF ending = "done" /\ index \in plan.gates
                                           THEN passed ELSE "none"]
       IN /\ Save(r)
          /\ budget_hit' = (budget_hit \/ OverBudget(r, limits.budget))
          /\ paid' = paid + cost
          /\ lost' = lost + (cost - told)
  /\ UNCHANGED <<plan, stage, index, board, round, count, limits, sessions, crashes>>

\* The round's results are put on the board; the team goes on unless capped or
\* at its ceiling of activations.
RoundOver ==
  /\ stage = "working"
  /\ \A t \in round.taken : run.tasks[t] # "running"
  /\ board' = [t \in Tasks |-> IF t \in round.taken THEN run.tasks[t] ELSE board[t]]
  /\ count' = [count EXCEPT !.activations = @ + Cardinality(round.taken)]
  /\ stage' = IF round.capped \/ count'.activations >= limits.agents
              THEN "over" ELSE "rounds"
  /\ UNCHANGED <<plan, disk, behind, run, index, round, limits, budget_hit, paid,
                 lost, sessions, crashes, faults>>

\* run_team finds its board done: every task on it has ended.
BoardDone ==
  /\ stage = "rounds" /\ Open = {}
  /\ stage' = "over"
  /\ UNCHANGED <<plan, disk, behind, run, index, board, round, count, limits,
                 budget_hit, paid, lost, sessions, crashes, faults>>

-----------------------------------------------------------------------------
(* The phase's team has stopped *)

Unfinished == {t \in InPhase(index) : run.tasks[t] # "done"}
Failing    == {t \in InPhase(index) : run.verdict[t] = "fail"}

\* The session ends with the phase and the run in the same state.
StopWith(outcome) ==
  /\ Conclude([run EXCEPT !.phases[index] = outcome, !.status = outcome])
  /\ UNCHANGED <<plan, paid, sessions, crashes>>

PhasePausesOnBudget ==
  /\ stage = "over" /\ Unfinished # {} /\ budget_hit
  /\ StopWith("paused")

PhaseUnfinishedFails ==
  /\ stage = "over" /\ Unfinished # {} /\ ~budget_hit
  /\ StopWith("failed")

\* Failed when a task failed, else (capped, or blocked) paused.
PhaseUnfinished ==
  /\ stage = "over" /\ Unfinished # {} /\ ~budget_hit
  /\ StopWith(IF \E t \in Unfinished : run.tasks[t] = "failed"
              THEN "failed" ELSE "paused")

GateFails ==
  /\ stage = "over" /\ Unfinished = {}
  /\ index \in plan.gates /\ Failing # {}
  /\ StopWith("failed")

PhaseDone ==
  /\ stage = "over" /\ Unfinished = {}
  /\ ~(index \in plan.gates /\ Failing # {})
  /\ Save([run EXCEPT !.phases[index] = "done"])
  /\ stage' = "between" /\ index' = index + 1
  /\ UNCHANGED <<plan, board, round, count, limits, budget_hit, paid, lost, sessions,
                 crashes>>

\* The budget was reached in the phase that just closed.
PauseAfterPhase ==
  /\ stage = "between" /\ budget_hit /\ index \in Phases
  /\ Conclude([run EXCEPT !.status = "paused"])
  /\ UNCHANGED <<plan, paid, sessions, crashes>>

WorkflowDone ==
  /\ stage = "between" /\ index \notin Phases
  /\ Conclude([run EXCEPT !.status = "done"])
  /\ UNCHANGED <<plan, paid, sessions, crashes>>

-----------------------------------------------------------------------------
(* The session dies: Esc cancels it, or the application goes down, and only *)
(* the file is left; or what was being written is cut short, and the file   *)
(* no longer loads.  The attempts under way are cut off: they have cost     *)
(* something, and nothing records it.                                       *)
InHand == {t \in round.taken : stage = "working" /\ run.tasks[t] = "running"}

SessionDies ==
  /\ stage # "idle" /\ crashes < MaxCrashes
  /\ crashes' = crashes + 1
  /\ SessionOver
  /\ disk' \in {disk, NoRun}
  /\ \E cost \in 0..MaxCost * Cardinality(InHand) :
       /\ paid' = paid + cost
       /\ lost' = IF behind THEN paid' - Saved(disk') ELSE lost + cost
  /\ UNCHANGED <<plan, sessions, faults>>

Advance ==
  \/ BeginPhase \/ Round \/ RoundOver \/ BoardDone
  \/ \E t \in Tasks : TaskReturns(t)
  \/ PhasePausesOnBudget \/ PhaseUnfinished \/ GateFails \/ PhaseDone
  \/ PauseAfterPhase \/ WorkflowDone

Next == RunWorkflow \/ Resume \/ Advance \/ SessionDies \/ EditWorkflow

Spec     == Init /\ [][Next]_vars
FairSpec == Spec /\ WF_vars(Advance)

-----------------------------------------------------------------------------
(* Properties *)

\* What there is of the run, in the session or else in the file, behaves as the
\* abstract ledger of phases: closed phases stay closed and in order, a task that
\* is done is never run again, a verdict stands, a gate holds (the docstring of
\* run_workflow, workflow.py:589-595); the ways back are a session that ends
\* after a save that failed, and phases added to the workflow or removed.
Live    == IF run # NoRun THEN run ELSE disk
View(r) ==
  IF r = NoRun THEN [phases |-> {}, closed |-> 0, done |-> {}, failing |-> {}]
  ELSE [phases  |-> DOMAIN r.phases,
        closed  |-> ResumeIndex(r) - 1,
        done    |-> {t \in Tasks : r.tasks[t] = "done"},
        failing |-> {t \in Tasks : r.verdict[t] = "fail"}]
Ledger == INSTANCE PhaseLedger WITH now <- View(Live), kept <- View(disk)
KeepsLedger == Ledger!Spec

\* No phase begins once what is known to have been paid, in this session and the
\* ones before it, has reached the budget of the session.
PhaseWithinBudget ==
  [][stage = "between" /\ stage' = "rounds" /\ limits.budget # NoBudget
       => paid - lost < limits.budget]_vars

\* What the file says the run has spent is what its attempts have cost, those of
\* failed and repeated attempts included, but for what is lost: with attempts that
\* raised or were cut off, with records made anew for a workflow of another size,
\* and with a session that could not save.  It is never more, and while a session
\* goes on after a failed save the next one makes up for it.
SpendIsSaved ==
  disk # NoRun => /\ Spent(disk) <= paid
                  /\ ~behind => Spent(disk) + lost = paid

\* What a session that ended by itself tells: done when every phase is, failed
\* for a task or a verdict that failed, paused with work left or a budget spent.
EndIsTrue ==
  disk # NoRun =>
    /\ disk.status = "done" => \A p \in DOMAIN disk.phases : disk.phases[p] = "done"
    /\ disk.status = "failed" => \E t \in Tasks : \/ disk.tasks[t] = "failed"
                                                  \/ disk.verdict[t] = "fail"
    /\ disk.status = "paused" => \/ \E p \in DOMAIN disk.phases : disk.phases[p] # "done"
                                 \/ \E budget \in Budgets : OverBudget(disk, budget)

\* A session comes to an end of its own.
SessionEnds == stage # "idle" ~> stage = "idle"
=============================================================================
