---------------------------- MODULE PhaseLedger ----------------------------
(***************************************************************************)
(* What a workflow run promises of its progress, however often it is       *)
(* interrupted and resumed: phases close in order, a task finishes once    *)
(* and after its prerequisites, its verdict is final, and a gated phase    *)
(* never closes over a failing verdict.  There are two ways back: to what  *)
(* was last saved, when a session ends, and to the start, when phases were *)
(* added to the plan or removed.                                           *)
(***************************************************************************)
EXTENDS Naturals

CONSTANTS Tasks

VARIABLES
  plan,      \* the number of phases; phase, prerequisites and gates of the tasks
  now,       \* the phases of the run, how many are closed, what is done, what of
             \* that failed its gate
  kept,      \* as much of a run as is saved
  behind     \* the last save failed

vars == <<plan, now, kept, behind>>

Nothing == [phases |-> {}, closed |-> 0, done |-> {}, failing |-> {}]
Blank   == [phases |-> 1..plan.size, closed |-> 0, done |-> {}, failing |-> {}]

InPhase(p) == {t \in Tasks : plan.phase[t] = p}

Init == now = Nothing /\ kept = Nothing /\ behind = FALSE

(* What is now is saved; or it is not, and what was saved stays or is gone. *)
Keep ==
  /\ UNCHANGED plan
  /\ \/ behind' = FALSE /\ kept' = now'
     \/ behind' = TRUE /\ kept' \in {kept, Nothing}

Begin == now = Nothing /\ now' = Blank /\ Keep

\* The run gets as far as this.
Reaches(closed, done, failing) ==
  now' = [phases |-> now.phases, closed |-> closed, done |-> done, failing |-> failing]

Finish(t) ==
  /\ t \in InPhase(now.closed + 1) \ now.done
  /\ plan.after[t] \cap InPhase(now.closed + 1) \subseteq now.done
  /\ \/ Reaches(now.closed, now.done \cup {t}, now.failing)
     \/ /\ now.closed + 1 \in plan.gates
        /\ Reaches(now.closed, now.done \cup {t}, now.failing \cup {t})
  /\ Keep

Close ==
  /\ now.closed + 1 \in now.phases
  /\ InPhase(now.closed + 1) \subseteq now.done
  /\ InPhase(now.closed + 1) \cap now.failing = {}
  /\ Reaches(now.closed + 1, now.done, now.failing)
  /\ Keep

(* Something else of the run is saved.                                     *)
Rewrite == now' = now /\ Keep

(* The saved state is all that is left, or not even that.                  *)
FallBack ==
  /\ kept' \in {kept, Nothing} /\ now' = kept'
  /\ behind' = FALSE
  /\ UNCHANGED plan

(* The plan has another number of phases: the run starts over.             *)
Edit    == 1..plan'.size # now.phases /\ UNCHANGED <<now, kept, behind>>
Restart == now # Nothing /\ now.phases # 1..plan.size /\ now' = Blank /\ Keep

Next == \/ Begin \/ Close \/ Rewrite \/ FallBack \/ Edit \/ Restart
        \/ \E t \in Tasks : Finish(t)
Spec == Init /\ [][Next]_vars
=============================================================================
