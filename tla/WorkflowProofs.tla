--------------------------- MODULE WorkflowProofs ---------------------------
(***************************************************************************)
(* A run of a workflow implements PhaseLedger, what an ended session tells *)
(* is true, what was paid is saved but for what is lost, and no phase      *)
(* begins over the budget, for every size, plan, budget, ceiling, death,   *)
(* failed save and change of the number of phases.                         *)
(***************************************************************************)
EXTENDS Workflow, InductionFacts

(* Phases are closed in order: those before i, and no other.               *)
ClosedBefore(r, i) ==
  /\ \A p \in 1..i - 1 : p \in DOMAIN r.phases
  /\ \A p \in DOMAIN r.phases : r.phases[p] = "done" <=> p < i

(* A failing verdict is that of a task that is done, in a gated phase.     *)
VerdictsStand(r) ==
  \A t \in Tasks : r.verdict[t] = "fail" => r.tasks[t] = "done" /\ plan.phase[t] \in plan.gates

(* The record of a run of the plan as it is, which stands at phase i.      *)
Sound(r, i) ==
  r \in RunRecords /\ DOMAIN r.phases = Phases /\ VerdictsStand(r) /\ ClosedBefore(r, i)

(* The file may be of a plan of another size.                              *)
FileSound == disk # NoRun =>
  /\ \E i \in 1..NPhases + 1 : ClosedBefore(disk, i)
  /\ DOMAIN disk.phases = Phases => VerdictsStand(disk)

NoneYet == sessions = 0 => stage = "idle" /\ disk = NoRun /\ paid = 0 /\ lost = 0

RunSound == stage # "idle" =>
  /\ run.status = "running" /\ Sound(run, index)
  /\ stage # "between" => index \in Phases

(* The board against the run: what is off the board, open or done there.   *)
BoardFollows == stage \in {"rounds", "working"} =>
  \A t \in Tasks :
    /\ board[t] = "out" => t \notin InPhase(index) \/ run.tasks[t] = "done"
    /\ board[t] # "out" => t \in InPhase(index)
    /\ board[t] = "open" => run.tasks[t] # "done"
    /\ board[t] = "done" => run.tasks[t] = "done"

(* A task in hand may have ended; what it waited for is not on the board.  *)
HandsFollow == stage = "working" =>
  \A t \in round.taken :
    /\ board[t] = "claimed"
    /\ run.tasks[t] \in {"running", "done", "failed"}
    /\ \A d \in plan.after[t] : board[d] \in {"out", "done"}

SpawnsLeft == count.spawns <= limits.agents

WInv == /\ TypeOK /\ FileSound /\ NoneYet /\ RunSound /\ BoardFollows /\ HandsFollow
        /\ SpawnsLeft /\ EndIsTrue

(* EndIsTrue of a record.                                                  *)
Truthful(r) ==
  /\ r.status = "done" => \A p \in DOMAIN r.phases : r.phases[p] = "done"
  /\ r.status = "failed" => \E t \in Tasks : r.tasks[t] = "failed" \/ r.verdict[t] = "fail"
  /\ r.status = "paused" => \/ \E p \in DOMAIN r.phases : r.phases[p] # "done"
                            \/ \E budget \in Budgets : OverBudget(r, budget)

USE SizesAssumption, BoundsAssumption DEF Tasks

-----------------------------------------------------------------------------
(* Operators *)

LEMMA ResumesAt ==
  ASSUME NEW r, NEW i \in 1..NPhases + 1, ClosedBefore(r, i)
  PROVE  ResumeIndex(r) = i
<1> DEFINE P(k) == /\ k \in DOMAIN r.phases => r.phases[k] # "done"
                   /\ \A p \in 1..k - 1 : p \in DOMAIN r.phases /\ r.phases[p] = "done"
<1>1. P(i)
  BY DEF ClosedBefore
<1>2. ASSUME NEW k \in 1..NPhases + 1, P(k) PROVE k = i
  <2>1. ~(k < i)
    BY <1>2 DEF ClosedBefore
  <2>2. ~(i < k)
    BY <1>2 DEF ClosedBefore
  <2> QED
    BY <2>1, <2>2
<1>3. ResumeIndex(r) = CHOOSE k \in 1..NPhases + 1 : P(k)
  BY DEF ResumeIndex
<1> HIDE DEF P
<1> QED
  BY <1>1, <1>2, <1>3

LEMMA LeastOfThree ==
  ASSUME NEW a \in Int, NEW b \in Int, NEW c \in Int
  PROVE  LET m == Min({a, b, c})
         IN m \in {a, b, c} /\ m <= a /\ m <= b /\ m <= c
<1> DEFINE S == {a, b, c}
<1>1. \E x \in S : \A y \in S : x <= y
  OBVIOUS
<1>2. Min(S) = CHOOSE x \in S : \A y \in S : x <= y
  BY DEF Min
<1> HIDE DEF S
<1>3. Min(S) \in S /\ \A y \in S : Min(S) <= y
  BY <1>1, <1>2
<1> QED
  BY <1>3 DEF S

LEMMA TasksCounted == ASSUME NEW S \in SUBSET Tasks PROVE Cardinality(S) \in Nat
<1>1. IsFiniteSet(Tasks)
  BY FS_Interval
<1> QED
  BY <1>1, FS_Subset, FS_CardinalityType

LEMMA PlanTyped ==
  ASSUME TypeOK
  PROVE  /\ plan.size \in 1..NPhases
         /\ plan.phase \in [Tasks -> Phases] /\ plan.after \in [Tasks -> SUBSET Tasks]
         /\ plan.gates \in SUBSET Phases /\ plan.workers \in [Phases -> Nat \ {0}]
         /\ \A i \in Phases : i \in 1..NPhases + 1 /\ i + 1 \in 1..NPhases + 1
<1>1. PICK n \in 1..NPhases : plan \in PlansOf(n)
  BY PlansAssumption DEF TypeOK
<1>2. /\ plan.size = n /\ plan.phase \in [Tasks -> 1..n] /\ plan.gates \in SUBSET (1..n)
      /\ plan.after \in [Tasks -> SUBSET Tasks] /\ plan.workers \in [1..n -> Nat \ {0}]
  BY <1>1 DEF PlansOf
<1> QED
  BY <1>2 DEF Phases

LEMMA NoRunApart == NoRun \notin RunRecords
BY DEF NoRun, RunRecords

(* Writing into a record.                                                  *)
LEMMA StatusSet ==
  ASSUME NEW r \in RunRecords, NEW s \in {"running", "paused", "failed", "done"},
         NEW q, q = [r EXCEPT !.status = s]
  PROVE  /\ q \in RunRecords /\ q.status = s /\ q.phases = r.phases
         /\ q.tasks = r.tasks /\ q.verdict = r.verdict /\ q.cost = r.cost
BY DEF RunRecords

LEMMA PhaseMarked ==
  ASSUME NEW r \in RunRecords, NEW i \in DOMAIN r.phases, NEW s \in PhaseStates
  PROVE  LET q == [r EXCEPT !.phases[i] = s]
         IN /\ q \in RunRecords /\ q.phases = [r.phases EXCEPT ![i] = s]
            /\ DOMAIN q.phases = DOMAIN r.phases
            /\ q.status = r.status /\ q.tasks = r.tasks /\ q.verdict = r.verdict
            /\ q.cost = r.cost
<1> DEFINE q == [r EXCEPT !.phases[i] = s]
<1>1. PICK n \in 1..NPhases : r.phases \in [1..n -> PhaseStates]
  BY DEF RunRecords
<1>2. [r.phases EXCEPT ![i] = s] \in [1..n -> PhaseStates]
  BY <1>1
<1>3. q = [r EXCEPT !.phases[i] = s]
  OBVIOUS
<1> HIDE DEF q
<1>4. q = [status |-> r.status, phases |-> [r.phases EXCEPT ![i] = s], tasks |-> r.tasks,
           cost |-> r.cost, verdict |-> r.verdict]
  BY <1>3 DEF RunRecords
<1>5. /\ q \in RunRecords /\ q.phases = [r.phases EXCEPT ![i] = s]
      /\ DOMAIN q.phases = DOMAIN r.phases
      /\ q.status = r.status /\ q.tasks = r.tasks /\ q.verdict = r.verdict /\ q.cost = r.cost
  BY <1>1, <1>2, <1>4 DEF RunRecords
<1> QED
  BY <1>5, Zenon DEF q

(* A phase that stops takes its run with it.                               *)
Stops == {"paused", "failed"}
Stopped(r, i, s) == [r EXCEPT !.phases[i] = s, !.status = s]

LEMMA StoppedCosts ==
  ASSUME NEW r \in RunRecords, NEW i, NEW s
  PROVE  Stopped(r, i, s).cost = r.cost
BY DEF Stopped, RunRecords

LEMMA PhaseAndStatusSet ==
  ASSUME NEW r \in RunRecords, NEW i \in DOMAIN r.phases, NEW s \in Stops
  PROVE  /\ Stopped(r, i, s) \in RunRecords
         /\ Stopped(r, i, s).phases = [r.phases EXCEPT ![i] = s]
         /\ DOMAIN Stopped(r, i, s).phases = DOMAIN r.phases
         /\ Stopped(r, i, s).status = s /\ Stopped(r, i, s).tasks = r.tasks
         /\ Stopped(r, i, s).verdict = r.verdict
<1>1. PICK n \in 1..NPhases : r.phases \in [1..n -> PhaseStates]
  BY DEF RunRecords
<1>2. [r.phases EXCEPT ![i] = s] \in [1..n -> PhaseStates]
  BY <1>1 DEF PhaseStates, Stops
<1> DEFINE q == Stopped(r, i, s)
<1>3. q = [r EXCEPT !.phases[i] = s, !.status = s]
  BY DEF Stopped
<1> HIDE DEF q
<1>4. q = [status |-> s, phases |-> [r.phases EXCEPT ![i] = s], tasks |-> r.tasks,
           cost |-> r.cost, verdict |-> r.verdict]
  BY <1>3 DEF RunRecords
<1>5. /\ q \in RunRecords /\ q.phases = [r.phases EXCEPT ![i] = s]
      /\ DOMAIN q.phases = DOMAIN r.phases
      /\ q.status = s /\ q.tasks = r.tasks /\ q.verdict = r.verdict /\ q.cost = r.cost
  BY <1>1, <1>2, <1>4 DEF RunRecords, Stops
<1> QED
  BY <1>5 DEF q

LEMMA Closes ==
  ASSUME NEW r \in RunRecords, NEW i \in DOMAIN r.phases, i \in Nat \ {0},
         ClosedBefore(r, i), NEW s,
         NEW q, q.phases = [r.phases EXCEPT ![i] = s]
  PROVE  /\ s # "done" => ClosedBefore(q, i)
         /\ s = "done" => ClosedBefore(q, i + 1)
<1>1. PICK n \in 1..NPhases : r.phases \in [1..n -> PhaseStates]
  BY DEF RunRecords
<1>2. DOMAIN q.phases = 1..n /\ \A p \in 1..n : q.phases[p] = IF p = i THEN s ELSE r.phases[p]
  BY <1>1
<1> QED
  BY <1>1, <1>2 DEF ClosedBefore

LEMMA FreshSound ==
  ASSUME TypeOK
  PROVE  /\ Fresh \in RunRecords /\ DOMAIN Fresh.phases = Phases /\ ClosedBefore(Fresh, 1)
         /\ Fresh.status = "running" /\ VerdictsStand(Fresh) /\ Fresh # NoRun
         /\ \A t \in Tasks : Fresh.tasks[t] = "pending" /\ Fresh.verdict[t] = "none"
<1>1. [p \in Phases |-> "pending"] \in [1..plan.size -> PhaseStates] /\ plan.size \in 1..NPhases
  BY PlanTyped DEF Phases, PhaseStates
<1>2. Fresh \in RunRecords
  BY <1>1 DEF Fresh, RunRecords
<1>3. DOMAIN Fresh.phases = Phases /\ \A p \in Phases : Fresh.phases[p] = "pending"
  BY DEF Fresh
<1>4. ClosedBefore(Fresh, 1)
  BY <1>3 DEF ClosedBefore, Phases
<1> QED
  BY <1>2, <1>3, <1>4, NoRunApart DEF Fresh, VerdictsStand

-----------------------------------------------------------------------------
(* How the ledger reads the run, and what a save and an end do to it.      *)

LEMMA ViewOf ==
  ASSUME NEW r, r # NoRun, NEW i \in 1..NPhases + 1, ClosedBefore(r, i)
  PROVE  View(r) = [phases  |-> DOMAIN r.phases,
                    closed  |-> i - 1,
                    done    |-> {t \in Tasks : r.tasks[t] = "done"},
                    failing |-> {t \in Tasks : r.verdict[t] = "fail"}]
BY ResumesAt DEF View

(* Records that differ in nothing the ledger reads.                        *)
LEMMA SameView ==
  ASSUME NEW r, NEW q, r # NoRun, q # NoRun, NEW i \in 1..NPhases + 1,
         ClosedBefore(r, i), ClosedBefore(q, i), DOMAIN r.phases = DOMAIN q.phases,
         \A t \in Tasks : /\ r.tasks[t] = "done" <=> q.tasks[t] = "done"
                          /\ r.verdict[t] = "fail" <=> q.verdict[t] = "fail"
  PROVE  View(r) = View(q)
<1>1. {t \in Tasks : r.tasks[t] = "done"} = {t \in Tasks : q.tasks[t] = "done"}
  OBVIOUS
<1>2. {t \in Tasks : r.verdict[t] = "fail"} = {t \in Tasks : q.verdict[t] = "fail"}
  OBVIOUS
<1>3. View(r) = [phases  |-> DOMAIN r.phases,
                 closed  |-> i - 1,
                 done    |-> {t \in Tasks : r.tasks[t] = "done"},
                 failing |-> {t \in Tasks : r.verdict[t] = "fail"}]
  BY ViewOf
<1>4. View(q) = [phases  |-> DOMAIN q.phases,
                 closed  |-> i - 1,
                 done    |-> {t \in Tasks : q.tasks[t] = "done"},
                 failing |-> {t \in Tasks : q.verdict[t] = "fail"}]
  BY ViewOf
<1> QED
  BY <1>1, <1>2, <1>3, <1>4

LEMMA NothingViewed == View(NoRun) = Ledger!Nothing
BY DEF View, Ledger!Nothing

LEMMA SaveShown ==
  ASSUME NEW r, r # NoRun, Save(r), UNCHANGED plan
  PROVE  Ledger!Keep /\ View(Live)' = View(r)
<1>1. View(Live)' = View(r)
  BY DEF Save, Live, View
<1>2. CASE Written(r) /\ behind' = FALSE
  <2>1. View(disk)' = View(r)
    BY <1>2 DEF Written, View
  <2> QED
    BY <1>1, <1>2, <2>1 DEF Ledger!Keep
<1>3. CASE WriteFails /\ behind' = TRUE
  <2>1. View(disk)' \in {View(disk), Ledger!Nothing}
    BY <1>3, NothingViewed DEF WriteFails, View
  <2> QED
    BY <1>1, <1>3, <2>1 DEF Ledger!Keep
<1> QED
  BY <1>2, <1>3 DEF Save

LEMMA Rewritten ==
  ASSUME NEW r, r # NoRun, Save(r), UNCHANGED plan, View(r) = View(Live)
  PROVE  Ledger!Rewrite
BY SaveShown DEF Ledger!Rewrite

LEMMA Concluded ==
  ASSUME NEW r, r # NoRun, Conclude(r), UNCHANGED plan, View(r) = View(Live)
  PROVE  Ledger!Rewrite \/ Ledger!FallBack
<1>1. run' = NoRun /\ behind' = FALSE /\ View(Live)' = View(disk)'
  BY DEF Conclude, SessionOver, Live, View
<1>2. CASE Written(r)
  <2>1. View(disk)' = View(r)
    BY <1>2 DEF Written, View
  <2> QED
    BY <1>1, <2>1 DEF Ledger!Rewrite, Ledger!Keep
<1>3. CASE WriteFails
  <2>1. View(disk)' \in {View(disk), Ledger!Nothing}
    BY <1>3, NothingViewed DEF WriteFails, View
  <2> QED
    BY <1>1, <2>1 DEF Ledger!FallBack
<1> QED
  BY <1>2, <1>3 DEF Conclude

(* A sound record that is written, or not.                                 *)
LEMMA FileKeeps ==
  ASSUME TypeOK, FileSound, EndIsTrue, UNCHANGED plan,
         NEW r, NEW i \in 1..NPhases + 1, Sound(r, i), Truthful(r),
         Written(r) \/ WriteFails
  PROVE  /\ disk' \in RunRecords \cup {NoRun} /\ faults' \in 0..MaxFaults
         /\ FileSound' /\ EndIsTrue'
<1>1. CASE Written(r)
  <2>1. disk' = r /\ faults' = faults /\ r \in RunRecords /\ plan' = plan
    BY <1>1 DEF Written, Sound
  <2>2. FileSound'
    BY <2>1 DEF FileSound, Sound, VerdictsStand
  <2>3. EndIsTrue'
    BY <2>1 DEF EndIsTrue, Truthful
  <2> QED
    BY <2>1, <2>2, <2>3 DEF TypeOK
<1>2. CASE WriteFails
  <2>1. disk' \in {disk, NoRun} /\ faults' \in 0..MaxFaults /\ plan' = plan
    BY <1>2 DEF WriteFails, TypeOK
  <2>2. FileSound' /\ EndIsTrue'
    BY <2>1 DEF FileSound, Phases, VerdictsStand, EndIsTrue
  <2> QED
    BY <2>1, <2>2 DEF TypeOK
<1> QED
  BY <1>1, <1>2

(* What a run has spent is the running total of what its tasks cost.       *)
LEMMA SpentIsTotal == ASSUME NEW r PROVE Spent(r) = Totals(NTasks, r.cost)[NTasks]
BY DEF Spent, Totals

LEMMA SpentIsNat == ASSUME NEW r, r.cost \in [Tasks -> Nat] PROVE Spent(r) \in Nat
<1>1. NTasks \in Nat /\ r.cost \in [1..NTasks -> Nat] /\ NTasks \in 0..NTasks
  OBVIOUS
<1>2. Totals(NTasks, r.cost) \in [0..NTasks -> Nat]
  BY <1>1, TotalsAdd
<1> QED
  BY <1>1, <1>2, SpentIsTotal

(* What one attempt costs is added to what its run has spent.              *)
LEMMA SpentGrows ==
  ASSUME NEW r, NEW s, r.cost \in [Tasks -> Nat], NEW t \in Tasks, NEW k \in Nat,
         s.cost = [r.cost EXCEPT ![t] = @ + k]
  PROVE  Spent(s) = Spent(r) + k
<1>1. NTasks \in Nat /\ r.cost \in [1..NTasks -> Nat] /\ t \in 1..NTasks
  OBVIOUS
<1>2. Totals(NTasks, s.cost)[NTasks] = Totals(NTasks, r.cost)[NTasks] + k
  BY <1>1, TotalsGrow
<1> QED
  BY <1>2, SpentIsTotal

LEMMA FreshIsFree == Spent(Fresh) = 0
<1>1. Fresh.cost \in [1..NTasks -> Nat] /\ \A n \in 1..NTasks : Fresh.cost[n] = 0
  BY DEF Fresh
<1> QED
  BY <1>1, SpentIsTotal, TotalsOfNone

LEMMA SavedIsNat == ASSUME NEW r \in RunRecords \cup {NoRun} PROVE Saved(r) \in Nat
<1>1. CASE r \in RunRecords
  <2>1. r.cost \in [Tasks -> Nat]
    BY <1>1 DEF RunRecords
  <2> QED
    BY <2>1, SpentIsNat DEF Saved
<1>2. CASE r = NoRun
  BY <1>2 DEF Saved
<1> QED
  BY <1>1, <1>2

-----------------------------------------------------------------------------
(* The actions *)

LEMMA InitWInv == Init => WInv /\ Ledger!Init
<1> SUFFICES ASSUME Init PROVE WInv /\ Ledger!Init
  OBVIOUS
<1>1. TypeOK
  <2>1. round \in [taken : SUBSET Tasks, capped : BOOLEAN]
    BY DEF Init, NoRound
  <2>2. limits \in [budget : Budgets \cup {NoBudget}, agents : Nat]
        /\ count \in [spawns : Nat, activations : Nat]
    BY DEF Init, NoLimits, NoCount
  <2>3. board \in [Tasks -> {"out", "open", "claimed", "done", "failed"}]
    BY DEF Init, NoBoard
  <2>4. /\ plan \in Plans /\ disk \in RunRecords \cup {NoRun} /\ run \in RunRecords \cup {NoRun}
        /\ stage = "idle" /\ run = NoRun /\ index \in 1..NPhases + 1 /\ behind = FALSE
    BY DEF Init
  <2>5. budget_hit \in BOOLEAN
    BY DEF Init
  <2>6. /\ paid \in Nat /\ lost \in Int
        /\ sessions \in 0..MaxSessions /\ crashes \in 0..MaxCrashes /\ faults \in 0..MaxFaults
    BY DEF Init
  <2> QED
    BY <2>1, <2>2, <2>3, <2>4, <2>5, <2>6 DEF TypeOK
<1>2. SpawnsLeft
  BY DEF Init, SpawnsLeft, NoCount, NoLimits
<1>3. FileSound /\ NoneYet /\ RunSound /\ BoardFollows /\ HandsFollow /\ EndIsTrue
  BY DEF Init, FileSound, NoneYet, RunSound, BoardFollows, HandsFollow, EndIsTrue
<1>4. Ledger!Init
  BY NothingViewed DEF Init, Ledger!Init, Live
<1> QED
  BY <1>1, <1>2, <1>3, <1>4 DEF WInv

(* What holds of the run in a session.                                     *)
LEMMA SessionFacts ==
  ASSUME WInv, stage # "idle"
  PROVE  /\ run \in RunRecords /\ run # NoRun /\ Live = run
         /\ run.status = "running" /\ Sound(run, index)
         /\ DOMAIN run.phases = Phases /\ VerdictsStand(run) /\ ClosedBefore(run, index)
         /\ index \in 1..NPhases + 1 /\ index \in Nat \ {0}
         /\ sessions # 0 /\ sessions \in 0..MaxSessions
BY DEF WInv, TypeOK, RunSound, Sound, NoneYet, Live

(* A session goes on with a sound run, saved or not.                       *)
LEMMA SessionSaves ==
  ASSUME WInv, NEW r, NEW i \in 1..NPhases + 1, Sound(r, i), r.status = "running",
         Save(r), UNCHANGED plan, index' = i
  PROVE  /\ disk' \in RunRecords \cup {NoRun} /\ behind' \in BOOLEAN /\ faults' \in 0..MaxFaults
         /\ run' = r /\ run' \in RunRecords /\ run' # NoRun /\ run'.status = "running"
         /\ FileSound' /\ EndIsTrue' /\ Sound(run, index)'
<1>1. run' = r /\ behind' \in BOOLEAN /\ (Written(r) \/ WriteFails)
  BY DEF Save
<1>2. r \in RunRecords /\ r # NoRun
  BY NoRunApart DEF Sound
<1>3. Truthful(r)
  BY DEF Truthful
<1>4. disk' \in RunRecords \cup {NoRun} /\ faults' \in 0..MaxFaults /\ FileSound' /\ EndIsTrue'
  BY <1>1, <1>3, FileKeeps DEF WInv
<1>5. Sound(run, index)'
  BY <1>1 DEF Sound, VerdictsStand, ClosedBefore, Phases
<1> QED
  BY <1>1, <1>2, <1>4, <1>5

(* A session ends with a sound and truthful run, saved or not.             *)
LEMMA SessionConcludes ==
  ASSUME WInv, NEW r, NEW i \in 1..NPhases + 1, Sound(r, i), Truthful(r),
         Conclude(r), UNCHANGED <<plan, paid, crashes>>,
         sessions' \in 0..MaxSessions, sessions' # 0, View(r) = View(Live)
  PROVE  WInv' /\ (Ledger!Rewrite \/ Ledger!FallBack)
<1>1. /\ run' = NoRun /\ stage' = "idle" /\ behind' = FALSE /\ index' = 1
      /\ board' = NoBoard /\ round' = NoRound /\ count' = NoCount
      /\ limits' = NoLimits /\ budget_hit' = FALSE
      /\ \/ Written(r) /\ lost' = lost
         \/ WriteFails /\ lost' = paid - Saved(disk')
  BY Zenon DEF Conclude, SessionOver
<1>2. disk' \in RunRecords \cup {NoRun} /\ faults' \in 0..MaxFaults /\ FileSound' /\ EndIsTrue'
  BY <1>1, FileKeeps DEF WInv
<1>3. TypeOK'
  <2>1. board' \in [Tasks -> {"out", "open", "claimed", "done", "failed"}]
    BY <1>1 DEF NoBoard
  <2>2. /\ round' \in [taken : SUBSET Tasks, capped : BOOLEAN]
        /\ count' \in [spawns : Nat, activations : Nat]
        /\ limits' \in [budget : Budgets \cup {NoBudget}, agents : Nat]
    BY <1>1 DEF NoRound, NoCount, NoLimits
  <2>3. lost' \in Int
    BY <1>1, <1>2, SavedIsNat DEF WInv, TypeOK
  <2>4. plan' \in Plans /\ paid' \in Nat /\ crashes' \in 0..MaxCrashes
    BY DEF WInv, TypeOK
  <2>5. index' \in 1..NPhases + 1
    BY <1>1
  <2>6. budget_hit' \in BOOLEAN
    BY <1>1
  <2> QED
    BY <1>1, <1>2, <2>1, <2>2, <2>3, <2>4, <2>5, <2>6 DEF TypeOK
<1>4. NoneYet' /\ RunSound' /\ BoardFollows' /\ HandsFollow' /\ SpawnsLeft'
  BY <1>1 DEF NoneYet, RunSound, BoardFollows, HandsFollow, SpawnsLeft, NoCount, NoLimits
<1>5. r # NoRun
  BY NoRunApart DEF Sound
<1> QED
  BY <1>2, <1>3, <1>4, <1>5, Concluded DEF WInv

(* A session begins with a sound run.                                      *)
LEMMA BeginningKeeps ==
  ASSUME WInv, Command, NEW r, NEW i \in 1..NPhases + 1, Sound(r, i),
         NEW l \in Limits, SessionBegins(r, l), lost' \in Int
  PROVE  /\ WInv' /\ View(Live)' = View(r) /\ Ledger!Keep
<1> DEFINE q == [r EXCEPT !.status = "running"]
<1>1. /\ Save(q) /\ stage' = "between" /\ index' = i
      /\ limits' = l /\ budget_hit' = FALSE /\ count' = NoCount
      /\ UNCHANGED <<board, round>>
  BY ResumesAt DEF SessionBegins, Sound
<1>2. stage = "idle" /\ sessions < MaxSessions /\ sessions' = sessions + 1 /\ UNCHANGED <<plan, paid, crashes>>
  BY DEF Command
<1>3. /\ q \in RunRecords /\ q.status = "running" /\ q.phases = r.phases
      /\ q.tasks = r.tasks /\ q.verdict = r.verdict
  BY StatusSet DEF Sound
<1>4. q # NoRun /\ r # NoRun /\ Sound(q, i)
  BY <1>3, NoRunApart DEF Sound, VerdictsStand, ClosedBefore
<1>5. View(q) = View(r)
  BY <1>3, <1>4, SameView DEF Sound
<1> HIDE DEF q
<1>6. /\ disk' \in RunRecords \cup {NoRun} /\ behind' \in BOOLEAN /\ faults' \in 0..MaxFaults
      /\ run' \in RunRecords /\ run' # NoRun /\ run'.status = "running"
      /\ FileSound' /\ EndIsTrue' /\ Sound(run, index)'
  BY <1>1, <1>2, <1>3, <1>4, SessionSaves
<1>7. sessions' \in 0..MaxSessions /\ sessions' # 0
  BY <1>2 DEF WInv, TypeOK
<1>8. l.agents \in Nat /\ l.budget \in Budgets
  BY DEF Limits
<1>9. TypeOK'
  <2>1. count' \in [spawns : Nat, activations : Nat]
    BY <1>1 DEF NoCount
  <2>2. limits' \in [budget : Budgets \cup {NoBudget}, agents : Nat]
    BY <1>1, <1>8 DEF Limits
  <2> QED
    BY <1>1, <1>2, <1>6, <1>7, <2>1, <2>2 DEF WInv, TypeOK
<1>10. NoneYet' /\ RunSound' /\ BoardFollows' /\ HandsFollow' /\ SpawnsLeft'
  BY <1>1, <1>6, <1>7, <1>8 DEF NoneYet, RunSound, BoardFollows, HandsFollow, SpawnsLeft, NoCount
<1>11. View(Live)' = View(r) /\ Ledger!Keep
  BY <1>1, <1>2, <1>4, <1>5, SaveShown
<1> QED
  BY <1>6, <1>9, <1>10, <1>11 DEF WInv

LEMMA FreshIsBlank == ASSUME TypeOK PROVE View(Fresh) = Ledger!Blank
<1>1. /\ Fresh # NoRun /\ ClosedBefore(Fresh, 1) /\ 1 \in 1..NPhases + 1
      /\ DOMAIN Fresh.phases = 1..plan.size
      /\ {t \in Tasks : Fresh.tasks[t] = "done"} = {}
      /\ {t \in Tasks : Fresh.verdict[t] = "fail"} = {}
  BY FreshSound DEF Phases
<1>2. View(Fresh) = [phases |-> 1..plan.size, closed |-> 0, done |-> {}, failing |-> {}]
  BY <1>1, ViewOf
<1> QED
  BY <1>2 DEF Ledger!Blank

LEMMA RunKeeps == ASSUME WInv, RunWorkflow PROVE WInv' /\ Ledger!Begin
<1>1. PICK l \in Limits : SessionBegins(Fresh, l)
  BY DEF RunWorkflow
<1>2. Command /\ sessions = 0 /\ lost' = lost /\ stage = "idle"
  BY DEF RunWorkflow, Command
<1>3. TypeOK /\ Sound(Fresh, 1) /\ 1 \in 1..NPhases + 1 /\ lost' \in Int
  BY <1>2, FreshSound DEF WInv, Sound, TypeOK
<1>4. WInv' /\ View(Live)' = View(Fresh) /\ Ledger!Keep
  BY <1>1, <1>2, <1>3, BeginningKeeps
<1>5. View(Live) = Ledger!Nothing
  BY <1>2, NothingViewed DEF WInv, TypeOK, NoneYet, Live
<1> QED
  BY <1>3, <1>4, <1>5, FreshIsBlank DEF Ledger!Begin

LEMMA ResumeKeeps ==
  ASSUME WInv, Resume
  PROVE  WInv' /\ (Ledger!Rewrite \/ Ledger!FallBack \/ Ledger!Restart)
<1>1. /\ disk # NoRun /\ Command /\ stage = "idle" /\ run = NoRun /\ Live = disk
      /\ disk \in RunRecords /\ TypeOK
  BY DEF Resume, Command, WInv, TypeOK, Live
<1>2. PICK l \in Limits :
        \/ /\ OverBudget(Loaded, l.budget)
           /\ Conclude([Loaded EXCEPT !.status = "paused"])
        \/ /\ ~OverBudget(Loaded, l.budget)
           /\ SessionBegins(Loaded, l)
           /\ lost' = lost + (Spent(disk) - Spent(Loaded))
  BY DEF Resume
<1>3. l.budget \in Budgets /\ l.budget \in Nat
  BY DEF Limits
<1>4. Spent(disk) \in Nat /\ lost \in Int
  BY <1>1, SpentIsNat DEF RunRecords, TypeOK
<1>5. CASE DOMAIN disk.phases = Phases
  <2>1. Loaded = disk
    BY <1>5 DEF Loaded
  <2>2. PICK i \in 1..NPhases + 1 : Sound(disk, i)
    BY <1>1, <1>5 DEF WInv, FileSound, Sound
  <2>3. CASE /\ OverBudget(disk, l.budget)
             /\ Conclude([disk EXCEPT !.status = "paused"])
    <3> DEFINE q == [disk EXCEPT !.status = "paused"]
    <3>1. /\ q \in RunRecords /\ q.status = "paused" /\ q.phases = disk.phases
          /\ q.tasks = disk.tasks /\ q.verdict = disk.verdict /\ q.cost = disk.cost
      BY <1>1, StatusSet
    <3>2. Conclude(q)
      BY <2>3
    <3> HIDE DEF q
    <3>3. Sound(q, i) /\ q # NoRun
      BY <2>2, <3>1, NoRunApart DEF Sound, VerdictsStand, ClosedBefore
    <3>4. Truthful(q)
      <4>1. Spent(q) = Spent(disk)
        BY <3>1 DEF Spent
      <4>2. OverBudget(q, l.budget)
        BY <2>3, <4>1 DEF OverBudget
      <4> QED
        BY <1>3, <3>1, <4>2 DEF Truthful
    <3>5. View(q) = View(Live)
      BY <1>1, <2>2, <3>1, <3>3, SameView DEF Sound
    <3>6. UNCHANGED <<plan, paid, crashes>> /\ sessions' \in 0..MaxSessions /\ sessions' # 0
      BY <1>1 DEF Command, TypeOK
    <3> QED
      BY <3>2, <3>3, <3>4, <3>5, <3>6, SessionConcludes
  <2>4. CASE SessionBegins(disk, l) /\ lost' = lost + (Spent(disk) - Spent(Loaded))
    <3>1. lost' \in Int
      BY <1>4, <2>1, <2>4
    <3>2. WInv' /\ View(Live)' = View(disk) /\ Ledger!Keep
      BY <1>1, <2>2, <2>4, <3>1, BeginningKeeps
    <3> QED
      BY <1>1, <3>2 DEF Ledger!Rewrite
  <2> QED
    BY <1>2, <2>1, <2>3, <2>4
<1>6. CASE DOMAIN disk.phases # Phases
  <2>1. Loaded = Fresh /\ Spent(Fresh) = 0
    BY <1>6, FreshIsFree DEF Loaded
  <2>2. ~OverBudget(Fresh, l.budget)
    BY <1>3, <2>1 DEF OverBudget, NoBudget
  <2>3. SessionBegins(Fresh, l) /\ lost' \in Int
    BY <1>2, <1>4, <2>1, <2>2
  <2>4. Sound(Fresh, 1) /\ 1 \in 1..NPhases + 1
    BY <1>1, FreshSound DEF Sound
  <2>5. WInv' /\ View(Live)' = View(Fresh) /\ Ledger!Keep
    BY <1>1, <2>3, <2>4, BeginningKeeps
  <2>6. PICK i \in 1..NPhases + 1 : ClosedBefore(disk, i)
    BY <1>1 DEF WInv, FileSound
  <2>7. View(disk).phases = DOMAIN disk.phases
    BY <1>1, <2>6, ViewOf
  <2>8. View(Live).phases # 1..plan.size
    BY <1>1, <1>6, <2>7 DEF Phases
  <2>9. View(Live) # Ledger!Nothing
    <3>1. DOMAIN disk.phases # {}
      <4>1. PICK n \in 1..NPhases : disk.phases \in [1..n -> PhaseStates]
        BY <1>1 DEF RunRecords
      <4>2. 1 \in DOMAIN disk.phases
        BY <4>1
      <4> QED
        BY <4>2
    <3> QED
      BY <1>1, <2>7, <3>1 DEF Ledger!Nothing
  <2>10. Ledger!Restart
    BY <1>1, <2>5, <2>8, <2>9, FreshIsBlank DEF Ledger!Restart
  <2> QED
    BY <2>5, <2>10
<1> QED
  BY <1>5, <1>6

LEMMA EditKeeps == ASSUME WInv, EditWorkflow PROVE WInv' /\ Ledger!Edit
<1>1. /\ stage = "idle" /\ disk # NoRun /\ run = NoRun /\ Live = disk /\ disk \in RunRecords
      /\ plan' \in Plans /\ DOMAIN disk.phases # 1..plan'.size
      /\ UNCHANGED <<disk, behind, run, stage, index, board, round, count, limits, budget_hit,
                     paid, lost, sessions, crashes, faults>>
  BY DEF EditWorkflow, session, WInv, TypeOK, Live
<1>2. PICK i \in 1..NPhases + 1 : ClosedBefore(disk, i)
  BY <1>1 DEF WInv, FileSound
<1>3. FileSound'
  BY <1>1, <1>2 DEF FileSound, Phases, ClosedBefore
<1>4. TypeOK' /\ NoneYet' /\ RunSound' /\ BoardFollows' /\ HandsFollow' /\ SpawnsLeft' /\ EndIsTrue'
  BY <1>1 DEF WInv, TypeOK, NoneYet, RunSound, BoardFollows, HandsFollow, SpawnsLeft, EndIsTrue,
              OverBudget, Spent
<1>5. View(disk).phases = DOMAIN disk.phases
  BY <1>1, <1>2, ViewOf
<1>6. View(Live)' = View(Live) /\ View(disk)' = View(disk)
  BY <1>1 DEF Live, View
<1> QED
  BY <1>1, <1>3, <1>4, <1>5, <1>6 DEF WInv, Ledger!Edit

LEMMA BeginPhaseKeeps == ASSUME WInv, BeginPhase PROVE WInv' /\ Ledger!Rewrite
<1> DEFINE q == [run EXCEPT !.phases[index] = "running"]
<1>1. /\ stage = "between" /\ index \in Phases /\ stage' = "rounds" /\ Save(q)
      /\ board' = [t \in Tasks |-> IF t \in InPhase(index) /\ run.tasks[t] # "done"
                                   THEN "open" ELSE "out"]
      /\ count' = [count EXCEPT !.activations = 0] /\ round' = NoRound
      /\ UNCHANGED <<plan, index, limits, budget_hit, paid, lost, sessions, crashes>>
  BY DEF BeginPhase
<1>2. /\ run \in RunRecords /\ run # NoRun /\ Live = run
      /\ run.status = "running" /\ Sound(run, index)
      /\ DOMAIN run.phases = Phases /\ VerdictsStand(run) /\ ClosedBefore(run, index)
      /\ index \in 1..NPhases + 1 /\ index \in Nat \ {0}
      /\ sessions # 0
  BY <1>1, SessionFacts
<1>3. /\ q \in RunRecords /\ q.phases = [run.phases EXCEPT ![index] = "running"]
      /\ DOMAIN q.phases = DOMAIN run.phases
      /\ q.status = run.status /\ q.tasks = run.tasks /\ q.verdict = run.verdict
  <2>1. run \in RunRecords /\ index \in DOMAIN run.phases /\ "running" \in PhaseStates
    BY <1>1, <1>2 DEF PhaseStates
  <2> QED
    BY <2>1, PhaseMarked
<1> HIDE DEF q
<1>4. q # NoRun /\ ClosedBefore(q, index) /\ Sound(q, index)
  <2>1. ClosedBefore(q, index)
    BY <1>1, <1>2, <1>3, Closes
  <2> QED
    BY <1>2, <1>3, <2>1, NoRunApart DEF Sound, VerdictsStand
<1>5. /\ disk' \in RunRecords \cup {NoRun} /\ behind' \in BOOLEAN /\ faults' \in 0..MaxFaults
      /\ run' = q /\ run' \in RunRecords /\ run' # NoRun /\ run'.status = "running"
      /\ FileSound' /\ EndIsTrue' /\ Sound(run, index)'
  BY <1>1, <1>2, <1>3, <1>4, SessionSaves
<1>6. TypeOK'
  <2>1. board' \in [Tasks -> {"out", "open", "claimed", "done", "failed"}]
    BY <1>1
  <2>2. round' \in [taken : SUBSET Tasks, capped : BOOLEAN]
    BY <1>1 DEF NoRound
  <2>3. count' \in [spawns : Nat, activations : Nat]
    BY <1>1 DEF WInv, TypeOK
  <2> QED
    BY <1>1, <1>5, <2>1, <2>2, <2>3 DEF WInv, TypeOK
<1>7. BoardFollows' /\ HandsFollow'
  BY <1>1, <1>3, <1>5 DEF BoardFollows, HandsFollow, InPhase
<1>8. SpawnsLeft'
  BY <1>1 DEF SpawnsLeft, WInv, TypeOK
<1>9. RunSound' /\ NoneYet'
  BY <1>1, <1>2, <1>5 DEF RunSound, NoneYet, Phases
<1>10. View(q) = View(Live)
  BY <1>2, <1>3, <1>4, SameView
<1> QED
  BY <1>1, <1>4, <1>5, <1>6, <1>7, <1>8, <1>9, <1>10, Rewritten DEF WInv

(* The file and the plan are left alone.                                   *)
LEMMA FileStays ==
  ASSUME FileSound, EndIsTrue, UNCHANGED <<plan, disk>>
  PROVE  FileSound' /\ EndIsTrue' /\ View(disk)' = View(disk)
BY DEF FileSound, VerdictsStand, ClosedBefore, Phases, EndIsTrue, OverBudget, Spent, View

LEMMA RoundKeeps == ASSUME WInv, Round PROVE WInv' /\ UNCHANGED Ledger!vars
<1> USE DEF WInv
<1>1. PICK chosen \in SUBSET Claimable :
        /\ round' = [taken |-> chosen, capped |-> Room < plan.workers[index]
                                                  /\ Room <= Cardinality(Claimable)]
        /\ count' = [count EXCEPT !.spawns =
                        @ + Min({plan.workers[index], Room, Cardinality(Claimable) + 1})]
        /\ board' = [t \in Tasks |-> IF t \in chosen THEN "claimed" ELSE board[t]]
        /\ run' = [run EXCEPT !.tasks =
                     [t \in Tasks |-> IF t \in chosen THEN "running" ELSE @[t]]]
        /\ stage' = IF chosen = {} THEN "over" ELSE "working"
  BY DEF Round
<1>2. /\ stage = "rounds"
      /\ UNCHANGED <<plan, disk, behind, index, limits, budget_hit, paid, lost, sessions,
                     crashes, faults>>
  BY DEF Round
<1>3. /\ run \in RunRecords /\ run # NoRun /\ Live = run
      /\ run.status = "running" /\ Sound(run, index)
      /\ DOMAIN run.phases = Phases /\ VerdictsStand(run) /\ ClosedBefore(run, index)
      /\ index \in 1..NPhases + 1 /\ sessions # 0 /\ index \in Phases
  BY <1>2, SessionFacts DEF RunSound
<1>4. /\ chosen \in SUBSET Tasks /\ Claimable \in SUBSET Tasks
      /\ \A t \in chosen : /\ board[t] = "open" /\ run.tasks[t] # "done" /\ t \in InPhase(index)
                           /\ \A d \in plan.after[t] : board[d] \in {"out", "done"}
  BY <1>2 DEF Claimable, Open, BoardFollows
<1>5. /\ run' \in RunRecords /\ run'.status = "running" /\ run'.phases = run.phases
      /\ run'.verdict = run.verdict
      /\ run'.tasks = [t \in Tasks |-> IF t \in chosen THEN "running" ELSE run.tasks[t]]
  BY <1>1, <1>3 DEF RunRecords
<1>6. /\ run' # NoRun /\ ClosedBefore(run', index)
      /\ \A t \in Tasks : run'.tasks[t] = "done" <=> run.tasks[t] = "done"
  BY <1>3, <1>4, <1>5, NoRunApart DEF ClosedBefore
<1>7. Sound(run, index)'
  BY <1>2, <1>3, <1>5, <1>6 DEF Sound, VerdictsStand, ClosedBefore, Phases
<1>8. count' \in [spawns : Nat, activations : Nat] /\ count'.spawns <= limits.agents
  <2> DEFINE m == Min({plan.workers[index], Room, Cardinality(Claimable) + 1})
  <2>1. plan.workers[index] \in Nat \ {0}
    BY <1>3, PlanTyped
  <2>2. limits.agents \in Nat /\ count.spawns \in Nat /\ count.activations \in Nat
    BY DEF TypeOK
  <2>3. Room \in Nat
    BY <2>2 DEF Room, SpawnsLeft
  <2>4. Cardinality(Claimable) \in Nat
    BY <1>4, TasksCounted
  <2>5. m \in Nat /\ m <= Room
    <3>1. /\ plan.workers[index] \in Int /\ Room \in Int /\ Cardinality(Claimable) + 1 \in Int
      BY <2>1, <2>3, <2>4
    <3>2. m \in {plan.workers[index], Room, Cardinality(Claimable) + 1} /\ m <= Room
      BY <3>1, LeastOfThree
    <3> HIDE DEF m
    <3> QED
      BY <2>1, <2>3, <2>4, <3>2
  <2> HIDE DEF m
  <2>6. count' = [count EXCEPT !.spawns = @ + m] /\ count \in [spawns : Nat, activations : Nat]
    BY <1>1 DEF m, TypeOK
  <2>7. count' \in [spawns : Nat, activations : Nat] /\ count'.spawns = count.spawns + m
    BY <2>2, <2>5, <2>6
  <2> QED
    BY <2>2, <2>5, <2>7 DEF Room
<1>9. TypeOK'
  <2>1. board' \in [Tasks -> {"out", "open", "claimed", "done", "failed"}]
    BY <1>1 DEF TypeOK
  <2>2. round' \in [taken : SUBSET Tasks, capped : BOOLEAN]
    BY <1>1, <1>4
  <2>3. stage' \in {"over", "working"}
    BY <1>1
  <2> QED
    BY <1>2, <1>5, <1>6, <1>8, <2>1, <2>2, <2>3 DEF TypeOK
<1>10. RunSound' /\ NoneYet'
  <2>1. stage' \in {"over", "working"}
    BY <1>1
  <2> QED
    BY <1>2, <1>3, <1>5, <1>7, <2>1 DEF RunSound, NoneYet, Phases
<1>11. BoardFollows' /\ HandsFollow'
  <2>1. /\ InPhase(index)' = InPhase(index)
        /\ \A t \in Tasks \ chosen : board'[t] = board[t] /\ run'.tasks[t] = run.tasks[t]
        /\ \A t \in chosen : board'[t] = "claimed" /\ run'.tasks[t] = "running"
    BY <1>1, <1>2, <1>4, <1>5 DEF InPhase
  <2>2. BoardFollows'
    BY <1>2, <1>4, <2>1 DEF BoardFollows
  <2>3. ASSUME NEW t \in chosen, NEW d \in plan.after[t] PROVE board'[d] \in {"out", "done"}
    <3>1. d \in Tasks
      BY <1>4, PlanTyped
    <3> QED
      BY <1>4, <2>1, <3>1
  <2> QED
    BY <1>1, <1>2, <2>1, <2>2, <2>3 DEF HandsFollow
<1>12. SpawnsLeft' /\ FileSound' /\ EndIsTrue' /\ View(disk)' = View(disk)
  BY <1>2, <1>8, FileStays DEF SpawnsLeft
<1>13. View(Live)' = View(Live)
  <2>1. View(run') = View(run)
    BY <1>3, <1>5, <1>6, SameView
  <2> QED
    BY <1>3, <1>6, <2>1 DEF Live, View
<1> QED
  BY <1>2, <1>9, <1>10, <1>11, <1>12, <1>13 DEF Ledger!vars

LEMMA TaskReturnsKeeps ==
  ASSUME WInv, NEW t \in Tasks, TaskReturns(t)
  PROVE  WInv' /\ (Ledger!Finish(t) \/ Ledger!Rewrite)
<1> USE DEF WInv
<1>1. PICK ending \in {"done", "failed", "raised"}, cost \in 0..MaxCost, passed \in {"pass", "fail"} :
        LET told == IF ending = "raised" THEN 0 ELSE cost
            r == [run EXCEPT !.tasks[t] = IF ending = "done" THEN "done" ELSE "failed",
                             !.cost[t] = @ + told,
                             !.verdict[t] = IF ending = "done" /\ index \in plan.gates
                                            THEN passed ELSE "none"]
        IN /\ Save(r)
           /\ budget_hit' = (budget_hit \/ OverBudget(r, limits.budget))
           /\ paid' = paid + cost
           /\ lost' = lost + (cost - told)
  BY Zenon DEF TaskReturns
<1>2. /\ stage = "working" /\ t \in round.taken /\ run.tasks[t] = "running"
      /\ UNCHANGED <<plan, stage, index, board, round, count, limits, sessions, crashes>>
  BY DEF TaskReturns
<1>3. /\ run \in RunRecords /\ run # NoRun /\ Live = run
      /\ run.status = "running" /\ Sound(run, index)
      /\ DOMAIN run.phases = Phases /\ VerdictsStand(run) /\ ClosedBefore(run, index)
      /\ index \in 1..NPhases + 1 /\ sessions # 0 /\ index \in Phases
  BY <1>2, SessionFacts DEF RunSound
<1>4. /\ board[t] = "claimed" /\ t \in InPhase(index)
      /\ \A d \in plan.after[t] : board[d] \in {"out", "done"}
      /\ plan.after[t] \in SUBSET Tasks /\ plan.phase[t] = index
  BY <1>2, PlanTyped DEF HandsFollow, BoardFollows, InPhase
<1> DEFINE told == IF ending = "raised" THEN 0 ELSE cost
           outcome == IF ending = "done" THEN "done" ELSE "failed"
           verdict == IF ending = "done" /\ index \in plan.gates THEN passed ELSE "none"
           r == [run EXCEPT !.tasks[t] = outcome, !.cost[t] = @ + told, !.verdict[t] = verdict]
<1>5. /\ Save(r) /\ budget_hit' = (budget_hit \/ OverBudget(r, limits.budget))
      /\ paid' = paid + cost /\ lost' = lost + (cost - told)
  BY <1>1
<1>6. /\ outcome \in {"done", "failed"} /\ verdict \in {"none", "pass", "fail"} /\ told \in Nat
      /\ verdict = "fail" => outcome = "done" /\ index \in plan.gates
  OBVIOUS
<1> HIDE DEF told, outcome, verdict
<1>7. /\ r \in RunRecords /\ r.status = "running" /\ r.phases = run.phases
      /\ r.tasks[t] = outcome /\ r.verdict[t] = verdict
      /\ \A u \in Tasks \ {t} : r.tasks[u] = run.tasks[u] /\ r.verdict[u] = run.verdict[u]
  <2> DEFINE spent == run.cost[t] + told
  <2>1. spent \in Nat
    BY <1>3, <1>6 DEF RunRecords
  <2>2. r = [run EXCEPT !.tasks[t] = outcome, !.cost[t] = spent, !.verdict[t] = verdict]
    OBVIOUS
  <2> HIDE DEF spent, r
  <2>3. r = [status |-> run.status, phases |-> run.phases,
             tasks |-> [run.tasks EXCEPT ![t] = outcome],
             cost |-> [run.cost EXCEPT ![t] = spent],
             verdict |-> [run.verdict EXCEPT ![t] = verdict]]
    BY <1>3, <2>2 DEF RunRecords
  <2>4. /\ [run.tasks EXCEPT ![t] = outcome] \in [Tasks -> {"pending", "running", "done", "failed"}]
        /\ [run.cost EXCEPT ![t] = spent] \in [Tasks -> Nat]
        /\ [run.verdict EXCEPT ![t] = verdict] \in [Tasks -> {"none", "pass", "fail"}]
    BY <1>3, <1>6, <2>1 DEF RunRecords
  <2>5. r \in RunRecords
    BY <1>3, <2>3, <2>4 DEF RunRecords
  <2> QED
    BY <1>3, <2>3, <2>5 DEF RunRecords
<1> HIDE DEF r
<1>8. r # NoRun /\ ClosedBefore(r, index) /\ VerdictsStand(r) /\ Sound(r, index)
  <2>1. r # NoRun /\ ClosedBefore(r, index)
    BY <1>3, <1>7, NoRunApart DEF ClosedBefore
  <2>2. ASSUME NEW u \in Tasks, r.verdict[u] = "fail"
        PROVE  r.tasks[u] = "done" /\ plan.phase[u] \in plan.gates
    <3>1. CASE u = t
      BY <1>4, <1>6, <1>7, <2>2, <3>1
    <3>2. CASE u # t
      BY <1>3, <1>7, <2>2, <3>2 DEF VerdictsStand
    <3> QED
      BY <3>1, <3>2
  <2>3. VerdictsStand(r)
    BY <2>2 DEF VerdictsStand
  <2> QED
    BY <1>3, <1>7, <2>1, <2>3 DEF Sound
<1>9. /\ disk' \in RunRecords \cup {NoRun} /\ behind' \in BOOLEAN /\ faults' \in 0..MaxFaults
      /\ run' = r /\ run' \in RunRecords /\ run' # NoRun /\ run'.status = "running"
      /\ FileSound' /\ EndIsTrue' /\ Sound(run, index)'
  BY <1>2, <1>3, <1>5, <1>7, <1>8, SessionSaves
<1>10. TypeOK'
  <2>1. budget_hit' \in BOOLEAN
    BY <1>5 DEF TypeOK, OverBudget
  <2>2. paid' \in Nat /\ lost' \in Int
    <3>1. cost \in Nat /\ paid \in Nat /\ lost \in Int
      BY DEF TypeOK
    <3> QED
      BY <1>5, <1>6, <3>1
  <2> QED
    BY <1>2, <1>9, <2>1, <2>2 DEF TypeOK
<1>11. RunSound' /\ NoneYet' /\ SpawnsLeft'
  BY <1>2, <1>3, <1>9 DEF RunSound, NoneYet, Phases, SpawnsLeft
<1>12. BoardFollows'
  <2>1. InPhase(index)' = InPhase(index)
    BY <1>2 DEF InPhase
  <2> QED
    BY <1>2, <1>4, <1>7, <1>9, <2>1 DEF BoardFollows
<1>13. HandsFollow'
  <2>1. round.taken \subseteq Tasks
    BY DEF TypeOK
  <2> QED
    BY <1>2, <1>6, <1>7, <1>9, <2>1 DEF HandsFollow
<1>14. Ledger!Keep /\ View(Live)' = View(r)
  BY <1>2, <1>5, <1>8, SaveShown
<1> DEFINE now == View(Live)
           DoneBy(q) == {u \in Tasks : q.tasks[u] = "done"}
           FailingBy(q) == {u \in Tasks : q.verdict[u] = "fail"}
<1>15. /\ now = [phases |-> DOMAIN run.phases, closed |-> index - 1,
                 done |-> DoneBy(run), failing |-> FailingBy(run)]
       /\ View(r) = [phases |-> DOMAIN run.phases, closed |-> index - 1,
                     done |-> DoneBy(r), failing |-> FailingBy(r)]
  BY <1>3, <1>7, <1>8, ViewOf
<1>16. t \notin DoneBy(run) /\ t \notin FailingBy(run)
  BY <1>2, <1>3 DEF VerdictsStand
<1>17. CASE outcome = "done"
  <2>1. DoneBy(r) = DoneBy(run) \cup {t}
    BY <1>7, <1>17
  <2>2. \/ FailingBy(r) = FailingBy(run)
        \/ index \in plan.gates /\ FailingBy(r) = FailingBy(run) \cup {t}
    <3>1. CASE verdict = "fail"
      BY <1>6, <1>7, <3>1
    <3>2. CASE verdict # "fail"
      BY <1>7, <1>16, <3>2
    <3> QED
      BY <3>1, <3>2
  <2>3. plan.after[t] \cap InPhase(index) \subseteq DoneBy(run)
    <3>1. ASSUME NEW d \in plan.after[t], d \in InPhase(index) PROVE run.tasks[d] = "done"
      BY <1>2, <1>4, <3>1 DEF BoardFollows
    <3> QED
      BY <1>4, <3>1
  <2>4. now.closed + 1 = index /\ now.done = DoneBy(run) /\ now.failing = FailingBy(run)
    BY <1>3, <1>15
  <2>5. Ledger!InPhase(index) = InPhase(index)
    BY DEF Ledger!InPhase, InPhase
  <2>6. \/ Ledger!Reaches(now.closed, now.done \cup {t}, now.failing)
        \/ /\ index \in plan.gates
           /\ Ledger!Reaches(now.closed, now.done \cup {t}, now.failing \cup {t})
    <3>1. now.phases = DOMAIN run.phases /\ now.closed = index - 1
      BY <1>15
    <3>2. \/ View(r) = [phases |-> now.phases, closed |-> now.closed,
                       done |-> now.done \cup {t}, failing |-> now.failing]
          \/ /\ index \in plan.gates
             /\ View(r) = [phases |-> now.phases, closed |-> now.closed,
                           done |-> now.done \cup {t}, failing |-> now.failing \cup {t}]
      BY <1>15, <2>1, <2>2, <2>4, <3>1
    <3> QED
      BY <1>14, <3>2 DEF Ledger!Reaches
  <2>7. Ledger!Finish(t)
    <3>1. t \in Ledger!InPhase(index) \ now.done
      BY <1>4, <1>16, <2>4, <2>5
    <3>2. plan.after[t] \cap Ledger!InPhase(index) \subseteq now.done
      BY <2>3, <2>4, <2>5
    <3> HIDE DEF DoneBy, FailingBy
    <3> QED
      BY <1>14, <2>4, <2>6, <3>1, <3>2 DEF Ledger!Finish
  <2> QED
    BY <1>9, <1>10, <1>11, <1>12, <1>13, <2>7
<1>18. CASE outcome # "done"
  <2>1. \A u \in Tasks : /\ run.tasks[u] = "done" <=> r.tasks[u] = "done"
                         /\ run.verdict[u] = "fail" <=> r.verdict[u] = "fail"
    BY <1>6, <1>7, <1>16, <1>18
  <2>2. View(r) = View(Live)
    BY <1>3, <1>7, <1>8, <2>1, SameView
  <2> QED
    BY <1>9, <1>10, <1>11, <1>12, <1>13, <1>14, <2>2 DEF Ledger!Rewrite
<1> QED
  BY <1>17, <1>18

LEMMA RoundOverKeeps == ASSUME WInv, RoundOver PROVE WInv' /\ UNCHANGED Ledger!vars
<1> USE DEF WInv
<1>1. /\ stage = "working" /\ \A t \in round.taken : run.tasks[t] # "running"
      /\ board' = [t \in Tasks |-> IF t \in round.taken THEN run.tasks[t] ELSE board[t]]
      /\ count' = [count EXCEPT !.activations = @ + Cardinality(round.taken)]
      /\ stage' \in {"over", "rounds"}
      /\ UNCHANGED <<plan, disk, behind, run, index, round, limits, budget_hit, paid,
                     lost, sessions, crashes, faults>>
  BY DEF RoundOver
<1>2. /\ run \in RunRecords /\ run # NoRun /\ run.status = "running" /\ Sound(run, index)
      /\ sessions # 0 /\ index \in Phases
  BY <1>1, SessionFacts DEF RunSound
<1>3. /\ round.taken \in SUBSET Tasks
      /\ \A t \in round.taken : run.tasks[t] \in {"done", "failed"} /\ board[t] = "claimed"
  BY <1>1 DEF HandsFollow, TypeOK
<1>4. board' \in [Tasks -> {"out", "open", "claimed", "done", "failed"}]
  BY <1>1, <1>3 DEF TypeOK
<1>5. count' \in [spawns : Nat, activations : Nat] /\ count'.spawns = count.spawns
  <2> DEFINE k == Cardinality(round.taken)
  <2>1. k \in Nat
    BY <1>3, TasksCounted
  <2>2. /\ count' = [count EXCEPT !.activations = @ + k]
        /\ count \in [spawns : Nat, activations : Nat]
    BY <1>1 DEF TypeOK
  <2> HIDE DEF k
  <2>3. count.activations + k \in Nat
    BY <2>1, <2>2
  <2> QED
    BY <2>2, <2>3
<1>6. TypeOK'
  BY <1>1, <1>4, <1>5 DEF TypeOK
<1>7. FileSound' /\ EndIsTrue' /\ View(disk)' = View(disk)
  BY <1>1, FileStays
<1>8. RunSound' /\ NoneYet' /\ SpawnsLeft'
  BY <1>1, <1>2, <1>5
  DEF RunSound, NoneYet, Sound, VerdictsStand, ClosedBefore, Phases, SpawnsLeft
<1>9. InPhase(index)' = InPhase(index)
  BY <1>1 DEF InPhase
<1>10. BoardFollows' /\ HandsFollow'
  BY <1>1, <1>3, <1>9 DEF BoardFollows, HandsFollow
<1>11. View(Live)' = View(Live)
  BY <1>1 DEF Live, View
<1> QED
  BY <1>1, <1>6, <1>7, <1>8, <1>10, <1>11 DEF Ledger!vars

LEMMA BoardDoneKeeps == ASSUME WInv, BoardDone PROVE WInv' /\ UNCHANGED Ledger!vars
<1> USE DEF WInv
<1>1. /\ stage = "rounds" /\ stage' = "over"
      /\ UNCHANGED <<plan, disk, behind, run, index, board, round, count, limits,
                     budget_hit, paid, lost, sessions, crashes, faults>>
  BY DEF BoardDone
<1>2. /\ run # NoRun /\ run.status = "running" /\ Sound(run, index)
      /\ sessions # 0 /\ index \in Phases
  BY <1>1, SessionFacts DEF RunSound
<1>3. FileSound' /\ EndIsTrue' /\ View(disk)' = View(disk)
  BY <1>1, FileStays
<1>4. TypeOK' /\ BoardFollows' /\ HandsFollow'
  BY <1>1 DEF TypeOK, BoardFollows, HandsFollow
<1>5. RunSound' /\ NoneYet' /\ SpawnsLeft'
  BY <1>1, <1>2 DEF RunSound, NoneYet, Sound, VerdictsStand, ClosedBefore, Phases, SpawnsLeft
<1>6. View(Live)' = View(Live)
  BY <1>1 DEF Live, View
<1> QED
  BY <1>1, <1>3, <1>4, <1>5, <1>6 DEF Ledger!vars

(* A phase that stops takes the run with it.                               *)
LEMMA StopKeeps ==
  ASSUME WInv, stage # "idle", index \in Phases, NEW outcome \in Stops,
         StopWith(outcome),
         outcome = "failed" => \E t \in Tasks : run.tasks[t] = "failed" \/ run.verdict[t] = "fail"
  PROVE  WInv' /\ (Ledger!Rewrite \/ Ledger!FallBack)
<1> DEFINE q == Stopped(run, index, outcome)
<1>1. Conclude(q) /\ UNCHANGED <<plan, paid, sessions, crashes>>
  BY DEF StopWith, Stopped
<1>2. /\ run \in RunRecords /\ run # NoRun /\ Live = run
      /\ DOMAIN run.phases = Phases /\ VerdictsStand(run) /\ ClosedBefore(run, index)
      /\ index \in 1..NPhases + 1 /\ index \in Nat \ {0}
      /\ sessions # 0 /\ sessions' \in 0..MaxSessions
  BY <1>1, SessionFacts DEF WInv, TypeOK
<1>3. /\ q \in RunRecords /\ q.phases = [run.phases EXCEPT ![index] = outcome]
      /\ DOMAIN q.phases = DOMAIN run.phases
      /\ q.status = outcome /\ q.tasks = run.tasks /\ q.verdict = run.verdict
  <2>1. index \in DOMAIN run.phases
    BY <1>2
  <2> QED
    BY <1>2, <2>1, PhaseAndStatusSet
<1> HIDE DEF q
<1>4. q # NoRun /\ ClosedBefore(q, index) /\ Sound(q, index)
  <2>1. ClosedBefore(q, index)
    BY <1>2, <1>3, Closes DEF Stops
  <2> QED
    BY <1>2, <1>3, <2>1, NoRunApart DEF Sound, VerdictsStand
<1>5. Truthful(q)
  <2>1. index \in DOMAIN q.phases /\ q.phases[index] # "done"
    BY <1>2, <1>3, <1>4 DEF ClosedBefore, Stops
  <2> QED
    BY <1>3, <2>1 DEF Truthful, Stops
<1>6. View(q) = View(Live)
  BY <1>2, <1>3, <1>4, SameView
<1> QED
  BY <1>1, <1>2, <1>4, <1>5, <1>6, SessionConcludes

LEMMA PhaseStopsKeep ==
  ASSUME WInv, PhasePausesOnBudget \/ PhaseUnfinished \/ GateFails
  PROVE  WInv' /\ (Ledger!Rewrite \/ Ledger!FallBack)
<1>1. stage = "over" /\ index \in Phases
  BY DEF PhasePausesOnBudget, PhaseUnfinished, GateFails, WInv, RunSound
<1>2. CASE PhasePausesOnBudget
  BY <1>1, <1>2, StopKeeps DEF PhasePausesOnBudget, Stops
<1>3. CASE PhaseUnfinished
  <2> DEFINE outcome == IF \E t \in Unfinished : run.tasks[t] = "failed"
                        THEN "failed" ELSE "paused"
  <2>1. outcome = "failed" => \E t \in Tasks : run.tasks[t] = "failed"
    BY DEF Unfinished, InPhase
  <2>2. outcome \in Stops /\ StopWith(outcome)
    BY <1>3 DEF PhaseUnfinished, Stops
  <2> HIDE DEF outcome
  <2> QED
    BY <1>1, <2>1, <2>2, StopKeeps
<1>4. CASE GateFails
  <2>1. \E t \in Tasks : run.verdict[t] = "fail"
    BY <1>4 DEF GateFails, Failing, InPhase
  <2> QED
    BY <1>1, <1>4, <2>1, StopKeeps DEF GateFails, Stops
<1> QED
  BY <1>2, <1>3, <1>4

LEMMA PhaseDoneKeeps == ASSUME WInv, PhaseDone PROVE WInv' /\ Ledger!Close
<1> DEFINE q == [run EXCEPT !.phases[index] = "done"]
<1>1. /\ stage = "over" /\ Unfinished = {} /\ ~(index \in plan.gates /\ Failing # {})
      /\ Save(q) /\ stage' = "between" /\ index' = index + 1
      /\ UNCHANGED <<plan, board, round, count, limits, budget_hit, paid, lost, sessions,
                     crashes>>
  BY DEF PhaseDone
<1>2. /\ run \in RunRecords /\ run # NoRun /\ Live = run
      /\ run.status = "running" /\ Sound(run, index)
      /\ DOMAIN run.phases = Phases /\ VerdictsStand(run) /\ ClosedBefore(run, index)
      /\ index \in 1..NPhases + 1 /\ index \in Nat \ {0}
      /\ sessions # 0 /\ index \in Phases /\ index + 1 \in 1..NPhases + 1
  BY <1>1, SessionFacts, PlanTyped DEF RunSound, WInv
<1>3. /\ q \in RunRecords /\ q.phases = [run.phases EXCEPT ![index] = "done"]
      /\ DOMAIN q.phases = DOMAIN run.phases
      /\ q.status = run.status /\ q.tasks = run.tasks /\ q.verdict = run.verdict
  <2>1. run \in RunRecords /\ index \in DOMAIN run.phases /\ "done" \in PhaseStates
    BY <1>2 DEF PhaseStates
  <2> QED
    BY <2>1, PhaseMarked
<1> HIDE DEF q
<1>4. q # NoRun /\ ClosedBefore(q, index + 1) /\ Sound(q, index + 1)
  <2>1. ClosedBefore(q, index + 1)
    BY <1>2, <1>3, Closes
  <2> QED
    BY <1>2, <1>3, <2>1, NoRunApart DEF Sound, VerdictsStand
<1>5. /\ disk' \in RunRecords \cup {NoRun} /\ behind' \in BOOLEAN /\ faults' \in 0..MaxFaults
      /\ run' = q /\ run' \in RunRecords /\ run' # NoRun /\ run'.status = "running"
      /\ FileSound' /\ EndIsTrue' /\ Sound(run, index)'
  BY <1>1, <1>2, <1>3, <1>4, SessionSaves
<1>6. TypeOK'
  BY <1>1, <1>2, <1>5 DEF WInv, TypeOK
<1>7. RunSound' /\ NoneYet' /\ BoardFollows' /\ HandsFollow' /\ SpawnsLeft'
  BY <1>1, <1>2, <1>5 DEF RunSound, NoneYet, BoardFollows, HandsFollow, SpawnsLeft, WInv
<1>8. Ledger!Keep /\ View(Live)' = View(q)
  BY <1>1, <1>4, SaveShown
<1> DEFINE now == View(Live)
<1>9. /\ now = [phases |-> DOMAIN run.phases, closed |-> index - 1,
                done |-> {t \in Tasks : run.tasks[t] = "done"},
                failing |-> {t \in Tasks : run.verdict[t] = "fail"}]
      /\ View(q) = [phases |-> DOMAIN run.phases, closed |-> index,
                    done |-> {t \in Tasks : run.tasks[t] = "done"},
                    failing |-> {t \in Tasks : run.verdict[t] = "fail"}]
  <2>1. index + 1 - 1 = index
    BY <1>2
  <2> QED
    BY <1>2, <1>3, <1>4, <2>1, ViewOf
<1>10. now.closed + 1 = index /\ now.phases = Phases
  BY <1>2, <1>9
<1>11. Ledger!InPhase(index) = InPhase(index)
  BY DEF Ledger!InPhase, InPhase
<1>12. InPhase(index) \subseteq now.done
  BY <1>1, <1>9 DEF Unfinished, InPhase
<1>13. InPhase(index) \cap now.failing = {}
  <2>1. ASSUME NEW t \in InPhase(index), t \in now.failing PROVE FALSE
    <3>1. t \in Failing /\ plan.phase[t] = index
      BY <1>9, <2>1 DEF Failing, InPhase
    <3>2. index \in plan.gates
      BY <1>2, <3>1 DEF VerdictsStand, Failing, InPhase
    <3> QED
      BY <1>1, <3>1, <3>2
  <2> QED
    BY <2>1
<1>14. Ledger!Reaches(now.closed + 1, now.done, now.failing)
  <2>1. /\ now.phases = DOMAIN run.phases /\ now.closed + 1 = index
        /\ now.done = {t \in Tasks : run.tasks[t] = "done"}
        /\ now.failing = {t \in Tasks : run.verdict[t] = "fail"}
    BY <1>9, <1>10
  <2>2. View(q) = [phases |-> now.phases, closed |-> now.closed + 1,
                   done |-> now.done, failing |-> now.failing]
    BY <1>9, <2>1, Zenon
  <2> QED
    BY <1>8, <2>2 DEF Ledger!Reaches
<1>15. Ledger!Close
  BY <1>2, <1>8, <1>10, <1>11, <1>12, <1>13, <1>14 DEF Ledger!Close
<1> QED
  BY <1>5, <1>6, <1>7, <1>15 DEF WInv

LEMMA BetweenPhasesKeeps ==
  ASSUME WInv, PauseAfterPhase \/ WorkflowDone
  PROVE  WInv' /\ (Ledger!Rewrite \/ Ledger!FallBack)
<1>1. stage = "between" /\ UNCHANGED <<plan, paid, sessions, crashes>>
  BY DEF PauseAfterPhase, WorkflowDone
<1>2. /\ run \in RunRecords /\ run # NoRun /\ Live = run
      /\ DOMAIN run.phases = Phases /\ VerdictsStand(run) /\ ClosedBefore(run, index)
      /\ index \in 1..NPhases + 1
      /\ sessions # 0 /\ sessions' \in 0..MaxSessions
  BY <1>1, SessionFacts
<1>3. \E s \in {"paused", "done"} :
        /\ Conclude([run EXCEPT !.status = s])
        /\ s = "paused" => index \in Phases
        /\ s = "done" => index \notin Phases
  BY DEF PauseAfterPhase, WorkflowDone
<1>4. PICK s \in {"paused", "done"} :
        /\ Conclude([run EXCEPT !.status = s])
        /\ s = "paused" => index \in Phases
        /\ s = "done" => index \notin Phases
  BY <1>3
<1> DEFINE q == [run EXCEPT !.status = s]
<1>5. /\ Conclude(q)
      /\ q \in RunRecords /\ q.status = s /\ q.phases = run.phases
      /\ q.tasks = run.tasks /\ q.verdict = run.verdict
  BY <1>2, <1>4, StatusSet
<1> HIDE DEF q
<1>6. q # NoRun /\ Sound(q, index)
  BY <1>2, <1>5, NoRunApart DEF Sound, VerdictsStand, ClosedBefore
<1>7. Truthful(q)
  <2>1. CASE s = "paused"
    BY <1>2, <1>4, <1>5, <2>1 DEF Truthful, ClosedBefore
  <2>2. CASE s = "done"
    <3>1. \A p \in Phases : p < index
      BY <1>2, <1>4, <2>2, PlanTyped DEF Phases, WInv
    <3> QED
      BY <1>2, <1>5, <2>2, <3>1 DEF Truthful, ClosedBefore
  <2> QED
    BY <2>1, <2>2
<1>8. View(q) = View(Live)
  BY <1>2, <1>5, <1>6, SameView DEF Sound
<1> QED
  BY <1>1, <1>2, <1>5, <1>6, <1>7, <1>8, SessionConcludes

LEMMA SessionDiesKeeps == ASSUME WInv, SessionDies PROVE WInv' /\ Ledger!FallBack
<1> USE DEF WInv
<1>1. /\ stage # "idle" /\ crashes < MaxCrashes /\ crashes' = crashes + 1
      /\ run' = NoRun /\ stage' = "idle" /\ behind' = FALSE /\ index' = 1
      /\ board' = NoBoard /\ round' = NoRound /\ count' = NoCount
      /\ limits' = NoLimits /\ budget_hit' = FALSE
      /\ disk' \in {disk, NoRun}
      /\ UNCHANGED <<plan, sessions, faults>>
  BY DEF SessionDies, SessionOver
<1>2. PICK cost \in 0..MaxCost * Cardinality(InHand) :
        /\ paid' = paid + cost
        /\ lost' = IF behind THEN paid' - Saved(disk') ELSE lost + cost
  BY DEF SessionDies
<1>3. sessions # 0
  BY <1>1, SessionFacts
<1>4. disk' \in RunRecords \cup {NoRun}
  BY <1>1 DEF TypeOK
<1>5. paid' \in Nat /\ lost' \in Int
  <2>1. Saved(disk') \in Nat
    BY <1>4, SavedIsNat
  <2>2. cost \in Nat
    <3>1. InHand \in SUBSET Tasks
      BY DEF InHand, TypeOK
    <3>2. MaxCost * Cardinality(InHand) \in Nat
      BY <3>1, TasksCounted
    <3> QED
      BY <3>2
  <2> QED
    BY <1>2, <2>1, <2>2 DEF TypeOK
<1>6. TypeOK'
  <2>1. board' \in [Tasks -> {"out", "open", "claimed", "done", "failed"}]
    BY <1>1 DEF NoBoard
  <2>2. /\ round' \in [taken : SUBSET Tasks, capped : BOOLEAN]
        /\ count' \in [spawns : Nat, activations : Nat]
        /\ limits' \in [budget : Budgets \cup {NoBudget}, agents : Nat]
    BY <1>1 DEF NoRound, NoCount, NoLimits
  <2>3. plan' \in Plans /\ sessions' \in 0..MaxSessions /\ faults' \in 0..MaxFaults
    BY <1>1 DEF TypeOK
  <2>4. crashes' \in 0..MaxCrashes
    BY <1>1 DEF TypeOK
  <2>5. index' \in 1..NPhases + 1
    BY <1>1
  <2>6. budget_hit' \in BOOLEAN
    BY <1>1
  <2> QED
    BY <1>1, <1>4, <1>5, <2>1, <2>2, <2>3, <2>4, <2>5, <2>6 DEF TypeOK
<1>7. FileSound' /\ EndIsTrue'
  BY <1>1 DEF FileSound, Phases, VerdictsStand, EndIsTrue
<1>8. NoneYet' /\ RunSound' /\ BoardFollows' /\ HandsFollow' /\ SpawnsLeft'
  BY <1>1, <1>3 DEF NoneYet, RunSound, BoardFollows, HandsFollow, SpawnsLeft, NoCount, NoLimits
<1>9. Ledger!FallBack
  <2>1. View(disk)' \in {View(disk), Ledger!Nothing} /\ View(Live)' = View(disk)'
    BY <1>1, NothingViewed DEF View, Live
  <2> QED
    BY <1>1, <2>1 DEF Ledger!FallBack
<1> QED
  BY <1>6, <1>7, <1>8, <1>9

(* Every step keeps the invariant and is a step of the ledger, or none.    *)
LEMMA StepKeeps == ASSUME WInv, [Next]_vars PROVE WInv' /\ [Ledger!Next]_Ledger!vars
<1>1. CASE RunWorkflow
  BY <1>1, RunKeeps DEF Ledger!Next
<1>2. CASE Resume
  BY <1>2, ResumeKeeps DEF Ledger!Next
<1>3. CASE Advance
  <2>1. CASE BeginPhase
    BY <2>1, BeginPhaseKeeps DEF Ledger!Next
  <2>2. CASE Round
    BY <2>2, RoundKeeps
  <2>3. CASE RoundOver
    BY <2>3, RoundOverKeeps
  <2>4. CASE BoardDone
    BY <2>4, BoardDoneKeeps
  <2>5. ASSUME NEW t \in Tasks, TaskReturns(t) PROVE WInv' /\ Ledger!Next
    BY <2>5, TaskReturnsKeeps DEF Ledger!Next
  <2>6. CASE PhasePausesOnBudget \/ PhaseUnfinished \/ GateFails
    BY <2>6, PhaseStopsKeep DEF Ledger!Next
  <2>7. CASE PhaseDone
    BY <2>7, PhaseDoneKeeps DEF Ledger!Next
  <2>8. CASE PauseAfterPhase \/ WorkflowDone
    BY <2>8, BetweenPhasesKeeps DEF Ledger!Next
  <2> QED
    BY <1>3, <2>1, <2>2, <2>3, <2>4, <2>5, <2>6, <2>7, <2>8 DEF Advance
<1>4. CASE SessionDies
  BY <1>4, SessionDiesKeeps DEF Ledger!Next
<1>5. CASE EditWorkflow
  BY <1>5, EditKeeps DEF Ledger!Next
<1>6. CASE UNCHANGED vars
  BY <1>6 DEF vars, session, WInv, TypeOK, FileSound, NoneYet, RunSound, Sound, VerdictsStand,
              ClosedBefore, Phases, BoardFollows, InPhase, HandsFollow, SpawnsLeft, EndIsTrue,
              OverBudget, Spent, Ledger!vars, Live, View
<1> QED
  BY <1>1, <1>2, <1>3, <1>4, <1>5, <1>6 DEF Next

(* The invariant: what there is of the run is sound, its session stands    *)
(* where it says, and the board and the hands follow it.                   *)
THEOREM WorkflowInvariance == Spec => []WInv
<1>1. Init => WInv
  BY InitWInv
<1>2. WInv /\ [Next]_vars => WInv'
  BY StepKeeps
<1> QED
  BY <1>1, <1>2, PTL DEF Spec

(* Every state of a workflow run is well typed.                            *)
THEOREM WorkflowTypeCorrect == Spec => []TypeOK
<1>1. WInv => TypeOK
  BY DEF WInv
<1> QED
  BY <1>1, WorkflowInvariance, PTL

(* What the saved run tells of a session that ended is true: done, failed  *)
(* or paused for a reason it holds.                                        *)
THEOREM EndsAreTrue == Spec => []EndIsTrue
<1>1. WInv => EndIsTrue
  BY DEF WInv
<1> QED
  BY <1>1, WorkflowInvariance, PTL

(* Through every death, resume, failed save and change of the number of    *)
(* phases the run implements the ledger: what is closed or done stays so   *)
(* and gates hold, but for what falls back to what was saved or starts     *)
(* over with another plan.                                                 *)
THEOREM LedgerIsKept == Spec => KeepsLedger
<1>1. Init => Ledger!Init
  BY InitWInv
<1>2. WInv /\ [Next]_vars => [Ledger!Next]_(Ledger!vars)
  BY StepKeeps
<1> QED
  BY <1>1, <1>2, WorkflowInvariance, PTL DEF Spec, KeepsLedger, Ledger!Spec

-----------------------------------------------------------------------------
(* What a run spends *)

(* What is paid and not lost is in the session's run, and the file shows   *)
(* it when the last save was written; it never shows more than was paid.   *)
Metered ==
  /\ lost >= 0
  /\ disk # NoRun => Spent(disk) <= paid
  /\ stage = "idle" /\ disk # NoRun => Spent(disk) + lost = paid
  /\ stage # "idle" => Spent(run) + lost = paid
  /\ stage # "idle" /\ ~behind => disk # NoRun /\ disk.cost = run.cost

(* A session that has not noticed its budget is still within it.           *)
BudgetNoticed == stage # "idle" /\ ~budget_hit => ~OverBudget(run, limits.budget)

SpendInv == Metered /\ BudgetNoticed

LEMMA SameCost == ASSUME NEW r, NEW q, q.cost = r.cost PROVE Spent(q) = Spent(r)
BY DEF Spent

LEMMA SpentLater ==
  /\ Spent(disk)' = Spent(disk') /\ Spent(run)' = Spent(run')
  /\ OverBudget(run, limits.budget)' = OverBudget(run', limits'.budget)
BY DEF Spent, OverBudget

LEMMA RecordIsMetered == ASSUME NEW r \in RunRecords PROVE Spent(r) \in Nat
<1>1. r.cost \in [Tasks -> Nat]
  BY DEF RunRecords
<1> QED
  BY <1>1, SpentIsNat

(* A session saves a run whose meter is right, or fails to.                *)
LEMMA SavedIsMetered ==
  ASSUME WInv, WInv', Metered, NEW r \in RunRecords, Save(r), stage' # "idle",
         paid <= paid', lost' >= 0, Spent(r) + lost' = paid'
  PROVE  Metered'
<1>1. /\ paid \in Nat /\ paid' \in Nat /\ lost' \in Int /\ Spent(r) \in Nat
      /\ disk # NoRun => Spent(disk) \in Nat /\ Spent(disk) <= paid
      /\ r # NoRun /\ run' = r
  BY RecordIsMetered, NoRunApart DEF WInv, TypeOK, Metered, Save
<1>2. CASE Written(r) /\ behind' = FALSE
  <2>1. disk' = r
    BY <1>2 DEF Written
  <2>2. Spent(r) <= paid'
    BY <1>1
  <2> QED
    BY <1>1, <2>1, <2>2, SpentLater DEF Metered
<1>3. CASE WriteFails /\ behind' = TRUE
  <2>1. disk' \in {disk, NoRun}
    BY <1>3 DEF WriteFails
  <2>2. disk' # NoRun => Spent(disk') <= paid'
    BY <1>1, <2>1
  <2> QED
    BY <1>1, <1>3, <2>2, SpentLater DEF Metered
<1> QED
  BY <1>2, <1>3 DEF Save

(* A session ends with a run whose meter is right, saved or not.           *)
LEMMA ConcludedIsMetered ==
  ASSUME WInv, WInv', Metered, NEW r \in RunRecords, Conclude(r), paid' = paid,
         Spent(r) + lost = paid
  PROVE  SpendInv'
<1>1. /\ stage' = "idle"
      /\ \/ Written(r) /\ lost' = lost
         \/ WriteFails /\ lost' = paid - Saved(disk')
  BY DEF Conclude, SessionOver
<1>2. /\ paid \in Nat /\ lost \in Int /\ lost >= 0 /\ Spent(r) \in Nat
      /\ disk # NoRun => Spent(disk) \in Nat /\ Spent(disk) <= paid
  BY RecordIsMetered DEF WInv, TypeOK, Metered
<1>3. CASE Written(r) /\ lost' = lost
  <2>1. disk' = r
    BY <1>3 DEF Written
  <2>2. Spent(disk') <= paid' /\ Spent(disk') + lost' = paid' /\ lost' >= 0
    BY <1>2, <1>3, <2>1
  <2>3. Metered'
    BY <1>1, <2>2, SpentLater DEF Metered
  <2> QED
    BY <1>1, <2>3 DEF SpendInv, BudgetNoticed
<1>4. CASE WriteFails /\ lost' = paid - Saved(disk')
  <2>1. disk' \in {disk, NoRun}
    BY <1>4 DEF WriteFails
  <2>2. /\ disk' # NoRun => Spent(disk') <= paid' /\ Spent(disk') + lost' = paid'
        /\ lost' >= 0
    BY <1>2, <1>4, <2>1 DEF Saved
  <2>3. Metered'
    BY <1>1, <2>2, SpentLater DEF Metered
  <2> QED
    BY <1>1, <2>3 DEF SpendInv, BudgetNoticed
<1> QED
  BY <1>1, <1>3, <1>4

(* A step of a session that costs nothing.                                 *)
LEMMA FreeSaves ==
  ASSUME WInv, WInv', SpendInv, stage # "idle", stage' # "idle",
         NEW r \in RunRecords, r.cost = run.cost, Save(r),
         UNCHANGED <<limits, budget_hit, paid, lost>>
  PROVE  SpendInv'
<1>1. run' = r /\ Spent(r) = Spent(run) /\ paid \in Nat
  BY SameCost DEF Save, WInv, TypeOK
<1>2. paid <= paid' /\ lost' >= 0 /\ Spent(r) + lost' = paid'
  BY <1>1 DEF SpendInv, Metered
<1>3. Metered'
  BY <1>2, SavedIsMetered DEF SpendInv
<1>4. BudgetNoticed'
  BY <1>1, SpentLater DEF SpendInv, BudgetNoticed, OverBudget
<1> QED
  BY <1>3, <1>4 DEF SpendInv

LEMMA FreeSteps ==
  ASSUME SpendInv, stage # "idle", stage' # "idle", run'.cost = run.cost,
         UNCHANGED <<disk, behind, limits, budget_hit, paid, lost>>
  PROVE  SpendInv'
<1>1. Spent(run') = Spent(run)
  BY SameCost
<1>2. Metered'
  BY <1>1, SpentLater DEF SpendInv, Metered
<1>3. BudgetNoticed'
  BY <1>1, SpentLater DEF SpendInv, BudgetNoticed, OverBudget
<1> QED
  BY <1>2, <1>3 DEF SpendInv

LEMMA FreeEnds ==
  ASSUME WInv, WInv', SpendInv, stage # "idle",
         NEW r \in RunRecords, r.cost = run.cost, Conclude(r), paid' = paid
  PROVE  SpendInv'
<1>1. Spent(r) + lost = paid
  BY SameCost DEF SpendInv, Metered
<1> QED
  BY <1>1, ConcludedIsMetered DEF SpendInv

(* A session begins with a run whose meter is right and within its budget. *)
LEMMA BeginsMetered ==
  ASSUME WInv, WInv', SpendInv, NEW r \in RunRecords, NEW l \in Limits, SessionBegins(r, l),
         paid' = paid, lost' >= 0, Spent(r) + lost' = paid, ~OverBudget(r, l.budget)
  PROVE  SpendInv'
<1> DEFINE q == [r EXCEPT !.status = "running"]
<1>1. Save(q) /\ stage' = "between" /\ limits' = l
  BY DEF SessionBegins
<1>2. q \in RunRecords /\ q.cost = r.cost
  BY StatusSet
<1> HIDE DEF q
<1>3. Spent(q) = Spent(r) /\ run' = q /\ paid \in Nat
  BY <1>1, <1>2, SameCost DEF Save, WInv, TypeOK
<1>4. Metered'
  BY <1>1, <1>2, <1>3, SavedIsMetered DEF SpendInv
<1>5. BudgetNoticed'
  BY <1>1, <1>3, SpentLater DEF BudgetNoticed, OverBudget
<1> QED
  BY <1>4, <1>5 DEF SpendInv

LEMMA RunSpends == ASSUME WInv, WInv', SpendInv, RunWorkflow PROVE SpendInv'
<1>1. PICK l \in Limits : SessionBegins(Fresh, l)
  BY DEF RunWorkflow
<1>2. paid' = paid /\ lost' = lost /\ paid = 0 /\ lost = 0
  BY DEF RunWorkflow, Command, WInv, NoneYet
<1>3. Fresh \in RunRecords /\ Spent(Fresh) = 0 /\ l.budget \in Nat
  BY FreshSound, FreshIsFree DEF WInv, Limits
<1>4. ~OverBudget(Fresh, l.budget)
  BY <1>3 DEF OverBudget, NoBudget
<1> QED
  BY <1>1, <1>2, <1>3, <1>4, BeginsMetered

LEMMA ResumeSpends == ASSUME WInv, WInv', SpendInv, Resume PROVE SpendInv'
<1>1. /\ disk # NoRun /\ disk \in RunRecords /\ stage = "idle" /\ paid' = paid
      /\ Spent(disk) + lost = paid /\ Spent(disk) \in Nat
      /\ lost \in Int /\ lost >= 0 /\ paid \in Nat
  BY RecordIsMetered DEF Resume, Command, WInv, TypeOK, SpendInv, Metered
<1>2. PICK l \in Limits :
        \/ /\ OverBudget(Loaded, l.budget)
           /\ Conclude([Loaded EXCEPT !.status = "paused"])
        \/ /\ ~OverBudget(Loaded, l.budget)
           /\ SessionBegins(Loaded, l)
           /\ lost' = lost + (Spent(disk) - Spent(Loaded))
  BY DEF Resume
<1>3. l.budget \in Nat
  BY DEF Limits
<1>4. /\ Loaded \in RunRecords
      /\ Loaded = disk \/ Spent(Loaded) = 0
  BY <1>1, FreshSound, FreshIsFree DEF Loaded, WInv
<1>5. CASE /\ OverBudget(Loaded, l.budget)
           /\ Conclude([Loaded EXCEPT !.status = "paused"])
  <2>1. Loaded = disk
    BY <1>3, <1>4, <1>5 DEF OverBudget, NoBudget
  <2> DEFINE q == [disk EXCEPT !.status = "paused"]
  <2>2. q \in RunRecords /\ q.cost = disk.cost
    BY <1>1, StatusSet
  <2>3. Conclude(q)
    BY <1>5, <2>1
  <2> HIDE DEF q
  <2>4. Spent(q) + lost = paid
    BY <1>1, <2>2, SameCost
  <2> QED
    BY <1>1, <2>2, <2>3, <2>4, ConcludedIsMetered DEF SpendInv
<1>6. CASE /\ ~OverBudget(Loaded, l.budget)
           /\ SessionBegins(Loaded, l)
           /\ lost' = lost + (Spent(disk) - Spent(Loaded))
  <2>1. Spent(Loaded) \in Nat
    BY <1>4, RecordIsMetered
  <2>2. lost' >= 0 /\ Spent(Loaded) + lost' = paid
    BY <1>1, <1>4, <1>6, <2>1
  <2> QED
    BY <1>1, <1>4, <1>6, <2>2, BeginsMetered
<1> QED
  BY <1>2, <1>5, <1>6

LEMMA ReturnSpends ==
  ASSUME WInv, WInv', SpendInv, NEW t \in Tasks, TaskReturns(t)
  PROVE  SpendInv'
<1>1. PICK ending \in {"done", "failed", "raised"}, cost \in 0..MaxCost, passed \in {"pass", "fail"} :
        LET told == IF ending = "raised" THEN 0 ELSE cost
            r == [run EXCEPT !.tasks[t] = IF ending = "done" THEN "done" ELSE "failed",
                             !.cost[t] = @ + told,
                             !.verdict[t] = IF ending = "done" /\ index \in plan.gates
                                            THEN passed ELSE "none"]
        IN /\ Save(r)
           /\ budget_hit' = (budget_hit \/ OverBudget(r, limits.budget))
           /\ paid' = paid + cost
           /\ lost' = lost + (cost - told)
  BY Zenon DEF TaskReturns
<1> DEFINE told == IF ending = "raised" THEN 0 ELSE cost
           r == [run EXCEPT !.tasks[t] = IF ending = "done" THEN "done" ELSE "failed",
                            !.cost[t] = @ + told,
                            !.verdict[t] = IF ending = "done" /\ index \in plan.gates
                                           THEN passed ELSE "none"]
<1>2. /\ stage # "idle" /\ stage' # "idle" /\ limits' = limits
      /\ run \in RunRecords /\ run.cost \in [Tasks -> Nat]
      /\ paid \in Nat /\ lost \in Int /\ lost >= 0 /\ Spent(run) + lost = paid
      /\ Spent(run) \in Nat
  BY SessionFacts, RecordIsMetered
  DEF TaskReturns, RunRecords, WInv, TypeOK, SpendInv, Metered
<1>3. /\ Save(r) /\ budget_hit' = (budget_hit \/ OverBudget(r, limits.budget))
      /\ paid' = paid + cost /\ lost' = lost + (cost - told)
  BY <1>1
<1>4. r.cost = [run.cost EXCEPT ![t] = @ + told]
  BY <1>2 DEF RunRecords
<1>5. cost \in Nat /\ told \in Nat /\ told <= cost
  OBVIOUS
<1> HIDE DEF told, r
<1>6. run' = r /\ r \in RunRecords
  BY <1>2, <1>3 DEF Save, WInv, TypeOK
<1>7. Spent(r) = Spent(run) + told
  <2> HIDE DEF Tasks
  <2> QED
    BY <1>2, <1>4, <1>5, SpentGrows
<1>8. paid <= paid' /\ lost' >= 0 /\ Spent(r) + lost' = paid'
  <2>1. paid' = paid + cost /\ lost' = lost + (cost - told)
    BY <1>3
  <2>2. /\ paid \in Int /\ lost \in Int /\ lost >= 0 /\ Spent(run) + lost = paid
        /\ Spent(run) \in Int /\ cost \in Int /\ cost >= 0 /\ told \in Int /\ told <= cost
    BY <1>2, <1>5
  <2> HIDE DEF Tasks
  <2> QED
    BY <1>7, <2>1, <2>2
<1>9. Metered'
  BY <1>2, <1>3, <1>6, <1>8, SavedIsMetered DEF SpendInv
<1>10. BudgetNoticed'
  BY <1>2, <1>3, <1>6, SpentLater DEF BudgetNoticed
<1> QED
  BY <1>9, <1>10 DEF SpendInv

LEMMA DeathSpends == ASSUME WInv, WInv', SpendInv, SessionDies PROVE SpendInv'
<1>1. /\ stage # "idle" /\ stage' = "idle" /\ disk' \in {disk, NoRun}
  BY DEF SessionDies, SessionOver
<1>2. PICK cost \in 0..MaxCost * Cardinality(InHand) :
        /\ paid' = paid + cost
        /\ lost' = IF behind THEN paid' - Saved(disk') ELSE lost + cost
  BY DEF SessionDies
<1>3. /\ paid \in Nat /\ lost \in Int /\ lost >= 0
      /\ Spent(run) + lost = paid
      /\ disk # NoRun => Spent(disk) \in Nat /\ Spent(disk) <= paid
      /\ ~behind => disk # NoRun /\ Spent(disk) = Spent(run)
  BY <1>1, RecordIsMetered, SameCost DEF WInv, TypeOK, SpendInv, Metered
<1>4. cost \in Nat
  <2>1. InHand \in SUBSET Tasks
    BY DEF InHand, WInv, TypeOK
  <2>2. MaxCost * Cardinality(InHand) \in Nat
    BY <2>1, TasksCounted
  <2> QED
    BY <2>2
<1>5. /\ lost' >= 0
      /\ disk' # NoRun => Spent(disk') <= paid' /\ Spent(disk') + lost' = paid'
  BY <1>1, <1>2, <1>3, <1>4 DEF Saved
<1>6. Metered'
  BY <1>1, <1>5, SpentLater DEF Metered
<1> QED
  BY <1>1, <1>6 DEF SpendInv, BudgetNoticed

LEMMA SpendStep == ASSUME WInv, WInv', SpendInv, [Next]_vars PROVE SpendInv'
<1>1. CASE RunWorkflow
  BY <1>1, RunSpends
<1>2. CASE Resume
  BY <1>2, ResumeSpends
<1>3. CASE BeginPhase
  <2>1. /\ stage # "idle" /\ stage' # "idle" /\ UNCHANGED <<limits, budget_hit, paid, lost>>
        /\ Save([run EXCEPT !.phases[index] = "running"])
        /\ run \in RunRecords /\ index \in DOMAIN run.phases
    BY <1>3, SessionFacts DEF BeginPhase
  <2> DEFINE q == [run EXCEPT !.phases[index] = "running"]
  <2>2. q \in RunRecords /\ q.cost = run.cost
    BY <2>1, PhaseMarked DEF PhaseStates
  <2>3. Save(q)
    BY <2>1
  <2> HIDE DEF q
  <2> QED
    BY <2>1, <2>2, <2>3, FreeSaves
<1>4. CASE Round
  <2>1. PICK chosen \in SUBSET Claimable :
          run' = [run EXCEPT !.tasks = [t \in Tasks |-> IF t \in chosen THEN "running" ELSE @[t]]]
    BY <1>4 DEF Round
  <2>2. /\ stage # "idle" /\ stage' # "idle" /\ run \in RunRecords
        /\ UNCHANGED <<disk, behind, limits, budget_hit, paid, lost>>
    BY <1>4, SessionFacts DEF Round
  <2>3. run'.cost = run.cost
    BY <2>1, <2>2 DEF RunRecords
  <2> QED
    BY <2>2, <2>3, FreeSteps
<1>5. ASSUME NEW t \in Tasks, TaskReturns(t) PROVE SpendInv'
  BY <1>5, ReturnSpends
<1>6. CASE RoundOver \/ BoardDone
  <2>1. /\ stage # "idle" /\ stage' # "idle"
        /\ UNCHANGED <<run, disk, behind, limits, budget_hit, paid, lost>>
    BY <1>6 DEF RoundOver, BoardDone
  <2> QED
    BY <2>1, FreeSteps
<1>7. CASE PhasePausesOnBudget \/ PhaseUnfinished \/ GateFails
  <2>1. stage # "idle" /\ index \in DOMAIN run.phases /\ run \in RunRecords
    BY <1>7, SessionFacts
    DEF PhasePausesOnBudget, PhaseUnfinished, GateFails, WInv, RunSound
  <2>2. PICK outcome \in Stops : StopWith(outcome)
    BY <1>7 DEF PhasePausesOnBudget, PhaseUnfinished, GateFails, Stops
  <2> DEFINE q == Stopped(run, index, outcome)
  <2>3. Conclude(q) /\ paid' = paid
    BY <2>2 DEF StopWith, Stopped
  <2>4. q \in RunRecords /\ q.cost = run.cost
    <3>1. q \in RunRecords
      BY <2>1, <2>2, PhaseAndStatusSet
    <3>2. q.cost = run.cost
      BY <2>1, StoppedCosts
    <3> QED
      BY <3>1, <3>2
  <2> HIDE DEF q
  <2> QED
    BY <2>1, <2>3, <2>4, FreeEnds
<1>8. CASE PhaseDone
  <2>1. /\ stage # "idle" /\ stage' # "idle" /\ UNCHANGED <<limits, budget_hit, paid, lost>>
        /\ Save([run EXCEPT !.phases[index] = "done"])
        /\ run \in RunRecords /\ index \in DOMAIN run.phases
    BY <1>8, SessionFacts DEF PhaseDone, WInv, RunSound
  <2> DEFINE q == [run EXCEPT !.phases[index] = "done"]
  <2>2. q \in RunRecords /\ q.cost = run.cost
    BY <2>1, PhaseMarked DEF PhaseStates
  <2>3. Save(q)
    BY <2>1
  <2> HIDE DEF q
  <2> QED
    BY <2>1, <2>2, <2>3, FreeSaves
<1>9. CASE PauseAfterPhase \/ WorkflowDone
  <2>1. stage # "idle" /\ run \in RunRecords /\ paid' = paid
    BY <1>9, SessionFacts DEF PauseAfterPhase, WorkflowDone
  <2>2. PICK s \in {"paused", "done"} : Conclude([run EXCEPT !.status = s])
    BY <1>9 DEF PauseAfterPhase, WorkflowDone
  <2> DEFINE q == [run EXCEPT !.status = s]
  <2>3. Conclude(q) /\ q \in RunRecords /\ q.cost = run.cost
    BY <2>1, <2>2, StatusSet
  <2> HIDE DEF q
  <2> QED
    BY <2>1, <2>3, FreeEnds
<1>10. CASE SessionDies
  BY <1>10, DeathSpends
<1>11. CASE EditWorkflow
  <2>1. stage = "idle" /\ UNCHANGED <<stage, disk, paid, lost>>
    BY <1>11 DEF EditWorkflow, session
  <2> QED
    BY <2>1, SpentLater DEF SpendInv, Metered, BudgetNoticed
<1>12. CASE UNCHANGED vars
  BY <1>12, SpentLater DEF vars, session, SpendInv, Metered, BudgetNoticed
<1> QED
  BY <1>1, <1>2, <1>3, <1>4, <1>5, <1>6, <1>7, <1>8, <1>9, <1>10, <1>11, <1>12
  DEF Next, Advance

LEMMA SpendInvariance == Spec => [](WInv /\ SpendInv)
<1>1. Init => WInv /\ SpendInv
  BY InitWInv DEF Init, SpendInv, Metered, BudgetNoticed
<1>2. WInv /\ SpendInv /\ [Next]_vars => WInv' /\ SpendInv'
  BY StepKeeps, SpendStep
<1> QED
  BY <1>1, <1>2, PTL DEF Spec

(* What the file says a run has spent is what all its attempts have cost,  *)
(* but for what is lost with attempts that raised or were cut off, records *)
(* made anew and sessions that could not save; and it is never more.       *)
THEOREM SpendSaved == Spec => []SpendIsSaved
<1>1. WInv /\ SpendInv => SpendIsSaved
  <2> SUFFICES ASSUME SpendInv, disk # NoRun
               PROVE  Spent(disk) <= paid /\ (~behind => Spent(disk) + lost = paid)
    BY DEF SpendIsSaved
  <2>1. CASE stage = "idle"
    BY <2>1 DEF SpendInv, Metered
  <2>2. CASE stage # "idle"
    BY <2>2, SameCost DEF SpendInv, Metered
  <2> QED
    BY <2>1, <2>2
<1> QED
  BY <1>1, SpendInvariance, PTL

(* No phase begins once what is known to be paid has reached the budget of *)
(* its session: resuming looks, after the records of a plan of another     *)
(* size are made anew, and a session has noticed every cost since.         *)
THEOREM PhasesStayWithinBudget == Spec => PhaseWithinBudget
<1>1. ASSUME WInv, SpendInv, [Next]_vars
      PROVE  [stage = "between" /\ stage' = "rounds" /\ limits.budget # NoBudget
                => paid - lost < limits.budget]_vars
  <2> SUFFICES ASSUME stage = "between", stage' = "rounds", limits.budget # NoBudget
               PROVE  paid - lost < limits.budget
    OBVIOUS
  <2>1. ~budget_hit
    BY <1>1 DEF Next, Advance, RunWorkflow, Resume, Command, BeginPhase, Round, RoundOver,
                BoardDone, TaskReturns, PhasePausesOnBudget, PhaseUnfinished, GateFails, PhaseDone,
                PauseAfterPhase, WorkflowDone, Conclude, SessionOver, SessionDies, EditWorkflow,
                vars, session
  <2>2. /\ Spent(run) \in Nat /\ paid \in Nat /\ lost \in Int /\ limits.budget \in Nat
        /\ Spent(run) + lost = paid /\ ~OverBudget(run, limits.budget)
    BY <1>1, <2>1, RecordIsMetered, SessionFacts
    DEF WInv, TypeOK, SpendInv, Metered, BudgetNoticed, NoBudget
  <2> QED
    BY <2>2 DEF OverBudget
<1> QED
  BY <1>1, SpendInvariance, PTL DEF Spec, PhaseWithinBudget
=============================================================================
