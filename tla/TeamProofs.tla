----------------------------- MODULE TeamProofs -----------------------------
(***************************************************************************)
(* The safety of Team for every board, roster and caps, and that its board *)
(* implements TaskBoard.                                                   *)
(***************************************************************************)
EXTENDS Team, TLAPS

(* What the phases of a round know: the board and the ceilings were        *)
(* consulted before it began, and the reason can only become the spawn cap.*)
RoundState ==
  /\ phase \in {"check", "offer"} => reason = "completed"
  /\ phase \in {"check", "offer", "work"} => activations < limit.activations
  /\ phase = "offer" => \E t \in Tasks : ~Terminal(t)
  /\ phase = "work" => reason \in {"completed", "spawn_cap"}
  /\ phase = "work" /\ reason = "spawn_cap" => spawns >= limit.spawns

USE SizesAssumption DEF Tasks, Members

TInv == TypeOK /\ OneHolder /\ DepsFirst /\ CapsHold /\ ReasonIsTrue /\ RoundState

-----------------------------------------------------------------------------
LEMMA InitTInv == Init => TInv /\ Board!Init
<1> SUFFICES ASSUME Init PROVE TInv /\ Board!Init
  OBVIOUS
<1> USE LimitsAssumption DEF Init
<1>1. deps \in [Tasks -> SUBSET Tasks]
  BY DEF Wired
<1>2. TypeOK
  <2>1. status \in [Tasks -> Status] /\ holds \in [Members -> Tasks \cup {0}]
        /\ stage \in [Members -> Stage]
    BY DEF Status, Stage, Final
  <2>2. \A m \in Members : ~(m <= taken) /\ holds[m] = 0 /\ stage[m] = "idle"
    OBVIOUS
  <2>3. limit \in [spawns : Nat, activations : Nat \ {0}] /\ taken \in 0..NMembers
    OBVIOUS
  <2> QED
    BY <1>1, <2>1, <2>2, <2>3 DEF TypeOK
<1>3. OneHolder /\ DepsFirst
  BY DEF OneHolder, DepsFirst
<1>4. CapsHold /\ ReasonIsTrue /\ RoundState
  BY DEF CapsHold, ReasonIsTrue, RoundState
<1>5. Board!Init
  BY <1>1 DEF Board!Init
<1> QED
  BY <1>2, <1>3, <1>4, <1>5 DEF TInv

LEMMA BeginRoundKeeps == TInv /\ BeginRound => TInv' /\ UNCHANGED <<deps, status>>
<1> SUFFICES ASSUME TInv, BeginRound PROVE TInv' /\ UNCHANGED <<deps, status>>
  OBVIOUS
<1> USE DEF TInv, BeginRound, Stop
<1>1. TypeOK'
  BY DEF TypeOK
<1>2. OneHolder' /\ DepsFirst'
  BY DEF OneHolder, DepsFirst, TypeOK
<1>3. CapsHold' /\ RoundState'
  BY DEF CapsHold, RoundState, Terminal
<1>4. \A t \in Tasks : status[t] # "claimed"
  BY DEF OneHolder, TypeOK
<1>5. ReasonIsTrue'
  BY <1>4 DEF ReasonIsTrue, Terminal, RoundState
<1> QED
  BY <1>1, <1>2, <1>3, <1>5

LEMMA OfferKeeps == TInv /\ Offer => TInv' /\ Board!Next
<1> SUFFICES ASSUME TInv, Offer PROVE TInv' /\ Board!Next
  OBVIOUS
<1> USE DEF TInv, Offer
<1>1. PICK t \in Tasks : Claims(taken + 1, t)
  OBVIOUS
<1>2. /\ status[t] = "open" /\ \A d \in deps[t] : status[d] = "done"
      /\ status' = [status EXCEPT ![t] = "claimed"]
      /\ holds' = [holds EXCEPT ![taken + 1] = t]
  BY <1>1 DEF Claims, Claimable
<1>3. taken \in Nat /\ taken + 1 \in Members /\ NMembers \in Nat
  BY DEF TypeOK
<1>4. TypeOK'
  BY <1>2, <1>3 DEF TypeOK, Status, Stage, Final
<1>5. \A m \in 1..taken : m \in Members /\ holds[m] # t /\ holds'[m] = holds[m]
  <2> SUFFICES ASSUME NEW m \in 1..taken
               PROVE  m \in Members /\ holds[m] # t /\ holds'[m] = holds[m]
    OBVIOUS
  <2>1. m \in Members /\ m # taken + 1
    BY <1>3 DEF TypeOK
  <2>2. holds[m] # t
    BY <1>2 DEF OneHolder
  <2> QED
    BY <1>2, <2>1, <2>2 DEF TypeOK
<1>6. 1..taken' = 1..taken \cup {taken + 1} /\ holds'[taken + 1] = t
  BY <1>2, <1>3 DEF TypeOK
<1>7. OneHolder'
  <2>1. \A m, n \in 1..taken' : holds'[m] = holds'[n] => m = n
    BY <1>5, <1>6 DEF OneHolder
  <2>2. \A u \in Tasks : status'[u] = "claimed" <=> \E m \in 1..taken' : holds'[m] = u
    <3> TAKE u \in Tasks
    <3>1. CASE u = t
      BY <1>2, <1>6, <3>1 DEF TypeOK
    <3>2. CASE u # t
      BY <1>2, <1>5, <1>6, <3>2 DEF TypeOK, OneHolder
    <3> QED
      BY <3>1, <3>2
  <2> QED
    BY <2>1, <2>2 DEF OneHolder
<1>8. DepsFirst'
  BY <1>2 DEF DepsFirst, TypeOK
<1>9. RoundState'
  <2>1. ~Terminal(t)'
    BY <1>2 DEF Terminal, Final, TypeOK
  <2> QED
    BY <2>1 DEF RoundState
<1>11. CapsHold' /\ ReasonIsTrue'
  BY <1>3, LimitsAssumption DEF CapsHold, ReasonIsTrue, TypeOK, Denied
<1>10. Board!Claim(t)
  BY <1>2 DEF Board!Claim
<1> QED
  BY <1>4, <1>7, <1>8, <1>9, <1>10, <1>11 DEF Board!Next

LEMMA EndOffersKeeps == TInv /\ EndOffers => TInv' /\ UNCHANGED <<deps, status>>
<1> SUFFICES ASSUME TInv, EndOffers PROVE TInv' /\ UNCHANGED <<deps, status>>
  OBVIOUS
<1> USE DEF TInv, EndOffers, Gather, Stop
<1>1. taken \in Nat /\ NMembers \in Nat \ {0} /\ limit.spawns \in Nat /\ spawns \in Nat
  BY DEF TypeOK
<1>2. TypeOK'
  <2>1. phase' \in {"work", "stopped"} /\ handle' \in {handle, "done"}
        /\ (phase' = "stopped" => taken = 0) /\ spawns' \in Nat
    BY <1>1
  <2>2. reason' \in {"completed", "spawn_cap", "deadlocked"}
    OBVIOUS
  <2>3. paused' \in BOOLEAN
    BY DEF TypeOK
  <2> QED
    BY <2>1, <2>2, <2>3 DEF TypeOK
<1>3. OneHolder' /\ DepsFirst'
  BY DEF OneHolder, DepsFirst
<1>4. CapsHold' /\ RoundState'
  BY <1>1 DEF CapsHold, RoundState, Denied, TypeOK
<1>5. ReasonIsTrue'
  <2>1. CASE phase' = "work"
    BY <2>1 DEF ReasonIsTrue
  <2>2. CASE phase' = "stopped"
    <3>1. taken = 0 /\ taken < NMembers /\ handle' = "done"
      BY <1>1, <2>2
    <3>2. \A t \in Tasks : status[t] # "claimed"
      BY <3>1 DEF OneHolder
    <3>3. CASE Denied /\ reason' = "spawn_cap" /\ spawns' = spawns
      BY <1>1, <2>2, <3>1, <3>2, <3>3 DEF ReasonIsTrue, Denied
    <3>4. CASE /\ Claimable = {}
               /\ reason' = "deadlocked"
      <4>1. \E t \in Tasks : ~Terminal(t)
        BY DEF RoundState, Terminal
      <4> QED
        BY <2>2, <3>1, <3>2, <3>4, <4>1 DEF ReasonIsTrue, Claimable, Terminal
    <3> QED
      BY <1>1, <2>2, <3>1, <3>3, <3>4
  <2> QED
    BY <2>1, <2>2
<1> QED
  BY <1>2, <1>3, <1>4, <1>5

LEMMA EmptyHands ==
  ASSUME HandsEmptied
  PROVE  /\ taken' = 0 /\ taken' \in 0..NMembers
         /\ holds' \in [Members -> Tasks \cup {0}] /\ stage' \in [Members -> Stage]
         /\ \A m \in Members : ~(m <= taken') /\ holds'[m] = 0 /\ stage'[m] = "idle"
BY DEF HandsEmptied, Stage

LEMMA EndRoundKeeps == TInv /\ EndRound => TInv' /\ Board!Next
<1> SUFFICES ASSUME TInv, EndRound PROVE TInv' /\ Board!Next
  OBVIOUS
<1> USE DEF TInv, EndRound
<1>1. /\ taken \in Nat /\ NMembers \in Nat \ {0} /\ activations \in Nat
      /\ limit.activations \in Nat /\ taken <= NMembers
      /\ \A m \in 1..taken : m \in Members /\ holds[m] \in Tasks /\ stage[m] \in Final
  <2>1. taken \in 0..NMembers /\ NMembers \in Nat \ {0}
    BY DEF TypeOK
  <2>2. \A m \in 1..taken : m \in Members
    BY <2>1
  <2>3. \A m \in 1..taken : holds[m] \in Tasks /\ stage[m] \in Final
    BY <2>1, <2>2 DEF TypeOK, RoundOver
  <2> QED
    BY <2>1, <2>2, <2>3 DEF TypeOK
<1>2. \A t \in Tasks : \/ status'[t] = status[t] /\ status[t] # "claimed"
                       \/ status[t] = "claimed" /\ status'[t] \in Final
  <2> TAKE t \in Tasks
  <2>1. status[t] = "claimed" <=> \E m \in 1..taken : holds[m] = t
    BY DEF OneHolder, RoundOver
  <2>2. CASE \E m \in 1..taken : holds[m] = t
    <3> DEFINE who == CHOOSE m \in 1..taken : holds[m] = t
    <3>1. who \in 1..taken
      BY <2>2
    <3>2. status'[t] = stage[who]
      BY <2>2 DEF Written
    <3> QED
      BY <1>1, <2>1, <2>2, <3>1, <3>2
  <2>3. CASE ~\E m \in 1..taken : holds[m] = t
    BY <2>1, <2>3 DEF Written
  <2> QED
    BY <2>2, <2>3
<1>3. status' \in [Tasks -> Status]
  <2>1. status' = [t \in Tasks |-> status'[t]]
    BY DEF Written
  <2>2. \A t \in Tasks : status'[t] \in Status
    BY <1>2 DEF TypeOK, Status
  <2> QED
    BY <2>1, <2>2
<1>4. TypeOK'
  <2>1. phase' \in {"check", "stopped"} /\ reason' \in {reason, "max_activations"}
        /\ handle' \in {handle, "done"}
    BY DEF Stop
  <2>2. activations' \in Nat
    BY <1>1
  <2>3. paused' \in BOOLEAN
    BY DEF Stop, TypeOK
  <2> QED
    BY <1>3, <2>1, <2>2, <2>3, EmptyHands DEF TypeOK
<1>5. \A t \in Tasks : status'[t] # "claimed"
  BY <1>2 DEF Final
<1>6. OneHolder'
  BY <1>5, EmptyHands DEF OneHolder
<1>7. DepsFirst'
  <2> SUFFICES ASSUME NEW t \in Tasks, status'[t] # "open", NEW d \in deps[t]
               PROVE  status'[d] = "done"
    BY DEF DepsFirst
  <2>1. d \in Tasks /\ status[d] = "done"
    BY <1>2 DEF DepsFirst, TypeOK
  <2> QED
    BY <1>2, <2>1
<1>8. CapsHold'
  BY <1>1, EmptyHands DEF CapsHold, RoundState, RoundOver, TypeOK
<1>9. RoundState'
  BY DEF RoundState, RoundOver, Stop
<1>10. ReasonIsTrue'
  BY <1>5 DEF ReasonIsTrue, RoundState, RoundOver, Stop
<1>11. Board!Settle
  BY <1>2, <1>3 DEF Board!Settle, Status, Final
<1> QED
  BY <1>4, <1>6, <1>7, <1>8, <1>9, <1>10, <1>11 DEF Board!Next

LEMMA AbortKeeps == TInv /\ Abort => TInv' /\ UNCHANGED <<deps, status>>
<1> SUFFICES ASSUME TInv, Abort PROVE TInv' /\ UNCHANGED <<deps, status>>
  OBVIOUS
<1> USE DEF TInv, Abort
<1>1. TypeOK'
  BY EmptyHands DEF TypeOK
<1>2. OneHolder' /\ DepsFirst'
  BY EmptyHands DEF OneHolder, DepsFirst
<1>3. CapsHold'
  BY EmptyHands DEF CapsHold, TypeOK
<1>4. RoundState' /\ ReasonIsTrue'
  BY DEF RoundState, ReasonIsTrue
<1> QED
  BY <1>1, <1>2, <1>3, <1>4

(* While a round's teammates work, they and the user change no task.       *)
LEMMA WorkKeeps ==
  TInv /\ (UserStep \/ \E m \in Members : TeammateStep(m))
    => TInv' /\ UNCHANGED <<deps, status>>
<1> SUFFICES ASSUME TInv, UserStep \/ \E m \in Members : TeammateStep(m)
             PROVE  TInv' /\ UNCHANGED <<deps, status>>
  OBVIOUS
<1> USE DEF TInv
<1>1. /\ UNCHANGED <<limit, deps, status, phase, taken, holds, spawns, activations, reason>>
      /\ phase = "work" /\ overspent' \in BOOLEAN /\ paused' \in BOOLEAN
      /\ cancelling' \in BOOLEAN /\ handle' \in {handle, "cancelled"}
  BY DEF UserStep, Pause, Resume, Kill, Interrupt, TeammateStep, Start, Return,
         Working, TypeOK
<1>2. /\ stage' \in [Members -> Stage]
      /\ \A m \in Members : (stage'[m] = "idle") = (stage[m] = "idle")
  <2>1. CASE stage' = stage
    BY <2>1 DEF TypeOK
  <2>2. CASE Resume
    BY <2>2 DEF Resume, TypeOK, Stage
  <2>3. CASE \E m \in Members : Start(m)
    <3>1. PICK m \in Members, x \in {"waiting", "working"} :
            stage[m] = "offered" /\ stage' = [stage EXCEPT ![m] = x]
      BY <2>3 DEF Start
    <3> QED
      BY <3>1 DEF TypeOK, Stage
  <2>4. CASE \E m \in Members : Return(m)
    <3>1. PICK m \in Members, x \in Final :
            stage[m] = "working" /\ stage' = [stage EXCEPT ![m] = x]
      BY <2>4 DEF Return
    <3> QED
      BY <3>1 DEF TypeOK, Stage, Final
  <2> QED
    BY <2>1, <2>2, <2>3, <2>4 DEF UserStep, Pause, Kill, Interrupt, TeammateStep
<1>3. TypeOK'
  BY <1>1, <1>2 DEF TypeOK
<1>4. OneHolder' /\ DepsFirst'
  BY <1>1 DEF OneHolder, DepsFirst
<1>5. CapsHold' /\ RoundState' /\ ReasonIsTrue'
  BY <1>1 DEF CapsHold, RoundState, ReasonIsTrue, Terminal
<1> QED
  BY <1>1, <1>3, <1>4, <1>5

LEMMA StepKeepsTInv == TInv /\ [Next]_vars => TInv' /\ [Board!Next]_(Board!vars)
<1> SUFFICES ASSUME TInv, [Next]_vars PROVE TInv' /\ [Board!Next]_(Board!vars)
  OBVIOUS
<1>1. CASE UNCHANGED vars
  BY <1>1 DEF vars, Board!vars, TInv, TypeOK, OneHolder, DepsFirst, CapsHold,
              ReasonIsTrue, RoundState, Terminal, Claimable
<1>2. CASE Coordinate
  BY <1>2, BeginRoundKeeps, OfferKeeps, EndOffersKeeps, EndRoundKeeps, AbortKeeps
     DEF Coordinate, Board!vars
<1>3. CASE UserStep \/ \E m \in Members : TeammateStep(m)
  BY <1>3, WorkKeeps DEF Board!vars
<1> QED
  BY <1>1, <1>2, <1>3 DEF Next

-----------------------------------------------------------------------------
THEOREM TeamInvariance == Spec => []TInv
<1>1. TInv /\ [Next]_vars => TInv'
  BY StepKeepsTInv
<1> QED
  BY <1>1, InitTInv, PTL DEF Spec

(* Every variable of a team keeps its type; hands are empty outside rounds.*)
THEOREM TeamTypeCorrect == Spec => []TypeOK
<1>1. TInv => TypeOK
  BY DEF TInv
<1> QED
  BY <1>1, TeamInvariance, PTL

(* One teammate at most works on a task, and the board says who is busy.   *)
THEOREM TasksHaveOneHolder == Spec => []OneHolder
<1>1. TInv => OneHolder
  BY DEF TInv
<1> QED
  BY <1>1, TeamInvariance, PTL

(* Tasks are taken up in the order of their dependencies.                  *)
THEOREM DependenciesComeFirst == Spec => []DepsFirst
<1>1. TInv => DepsFirst
  BY DEF TInv
<1> QED
  BY <1>1, TeamInvariance, PTL

(* Spawns and activations stay within their caps.                          *)
THEOREM CapsAreKept == Spec => []CapsHold
<1>1. TInv => CapsHold
  BY DEF TInv
<1> QED
  BY <1>1, TeamInvariance, PTL

(* The reason a team gives for stopping is the case.                       *)
THEOREM ReasonsAreTrue == Spec => []ReasonIsTrue
<1>1. TInv => ReasonIsTrue
  BY DEF TInv
<1> QED
  BY <1>1, TeamInvariance, PTL

(* A team's board is a task board, whatever the user and the caps do.      *)
THEOREM BoardIsKept == Spec => KeepsBoard
<1>1. TInv /\ [Next]_vars => TInv'
  BY StepKeepsTInv
<1>2. TInv /\ [Next]_vars => [Board!Next]_(Board!vars)
  BY StepKeepsTInv
<1> QED
  BY <1>1, <1>2, InitTInv, PTL DEF Spec, KeepsBoard, Board!Spec
=============================================================================
