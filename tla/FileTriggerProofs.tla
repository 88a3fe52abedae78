------------------------- MODULE FileTriggerProofs -------------------------
(***************************************************************************)
(* For every set of jobs and directories, triggers and bounds: nothing     *)
(* owed to a job escapes its later checks, and every variable keeps its    *)
(* type, whatever the triggers of a job come to.                           *)
(***************************************************************************)
EXTENDS FileTrigger, InductionFacts

Marks == [newer : SUBSET Dirs, recorded : SUBSET Dirs]

Bookkeeping ==
  /\ run \in [Jobs -> {"idle", "launched", "placed", "running"}]
  /\ ran \in [Jobs -> BOOLEAN] /\ files \subseteq Dirs
  /\ newer \in [Jobs -> SUBSET files] /\ recorded \in [Jobs -> SUBSET Dirs]
  /\ mark \in [Jobs -> Marks] /\ \A j \in Jobs : mark[j].newer \subseteq files
  /\ owed \in [Jobs -> SUBSET Dirs]
  /\ transit \subseteq Dirs /\ _watches \subseteq Dirs

\* The inductive invariant: a file newer than a run is a file, too.
FInv == Bookkeeping /\ NoBlindSpot

\* NoBlindSpot, for one directory and one job.
Held(j, d) ==
  IF ~ran[j] /\ ~Started(j) THEN d \in files
  ELSE IF d \in Watchable
  THEN /\ d \in _watches
       /\ d \in recorded[j] \cup transit
       /\ Started(j) => d \in mark[j].recorded \cup transit
  ELSE /\ d \in newer[j]
       /\ Started(j) => d \in mark[j].newer

LEMMA HeldEach == NoBlindSpot <=> \A j \in Jobs : \A d \in owed[j] : Held(j, d)
BY DEF NoBlindSpot, Held

LEMMA HeldAfter ==
  ASSUME \A j \in Jobs : \A d \in owed'[j] : Held(j, d)' PROVE NoBlindSpot'
BY DEF NoBlindSpot, Held

LEMMA InitHolds == Init => FInv
BY DEF Init, FInv, Bookkeeping, NoBlindSpot, NoMark, Marks, Started

(* What a change of a file owes its jobs.                                  *)
LEMMA TouchOwes ==
  ASSUME FInv, NEW d \in Dirs, NEW found, Touch(d, found), NEW j \in Jobs, NEW e \in owed'[j]
  PROVE  \/ e \in owed[j] /\ Held(j, e)
         \/ e = d /\ ByWalk(j, d) /\ j \in found
         \/ e = d /\ ~ByWalk(j, d) /\ d \in _watches
<1>1. e \in IF IF ByWalk(j, d) THEN j \in found ELSE d \in _watches
            THEN owed[j] \cup {d} ELSE owed[j]
  BY DEF Touch, FInv, Bookkeeping
<1> QED
  BY <1>1 DEF FInv, NoBlindSpot, Held

LEMMA TouchTyped ==
  ASSUME FInv, NEW d \in Dirs, NEW found, Touch(d, found)
  PROVE  /\ owed' \in [Jobs -> SUBSET Dirs] /\ transit' \subseteq Dirs
         /\ transit \subseteq transit' /\ (d \in _watches => d \in transit')
         /\ UNCHANGED <<run, ran, recorded, _watches>>
BY DEF FInv, Bookkeeping, Touch

LEMMA ChangeKeeps == ASSUME FInv, NEW d \in Dirs, Change(d) PROVE FInv'
<1> USE DEF FInv
<1>1. Touch(d, Jobs) /\ files' = files \cup {d} /\ newer' = [j \in Jobs |-> newer[j] \cup {d}]
      /\ mark' = [j \in Jobs |-> IF Started(j) THEN [mark[j] EXCEPT !.newer = @ \cup {d}]
                                            ELSE mark[j]]
  BY DEF Change
<1>2. Bookkeeping'
  <2>1. ASSUME NEW j \in Jobs
        PROVE  mark'[j] \in Marks /\ mark'[j].newer \subseteq files'
    <3>1. mark[j] \in Marks /\ mark[j].newer \subseteq files
      BY DEF Bookkeeping
    <3>2. mark'[j] = IF Started(j) THEN [mark[j] EXCEPT !.newer = @ \cup {d}] ELSE mark[j]
      BY <1>1
    <3>3. [mark[j] EXCEPT !.newer = @ \cup {d}] \in Marks
      BY <3>1 DEF Marks
    <3> QED
      BY <1>1, <3>1, <3>2, <3>3 DEF Marks
  <2>2. mark' \in [Jobs -> Marks] /\ files' \subseteq Dirs
    BY <1>1, <2>1 DEF Bookkeeping
  <2>3. newer' \in [Jobs -> SUBSET files']
    BY <1>1 DEF Bookkeeping
  <2> QED
    BY <2>1, <2>2, <2>3, <1>1, TouchTyped DEF Bookkeeping
<1>3. ASSUME NEW j \in Jobs, NEW e \in owed'[j] PROVE Held(j, e)'
  <2>1. mark[j] \in Marks
    BY DEF Bookkeeping
  <2>2. /\ mark'[j].recorded = mark[j].recorded
        /\ mark[j].newer \subseteq mark'[j].newer /\ (Started(j) => d \in mark'[j].newer)
    BY <1>1, <2>1 DEF Marks
  <2>3. files \subseteq files' /\ d \in files' /\ newer'[j] = newer[j] \cup {d}
        /\ (Started(j)' <=> Started(j))
    BY <1>1, TouchTyped DEF Started
  <2> QED
    BY <1>1, <2>2, <2>3, TouchOwes, TouchTyped DEF Held, ByWalk
<1> QED
  BY <1>2, <1>3, HeldAfter

LEMMA MoveInKeeps == ASSUME FInv, NEW d \in Dirs, NEW late, MoveIn(d, late) PROVE FInv'
<1> USE DEF FInv
<1> DEFINE found == {j \in Jobs : ~Started(j) /\ (ran[j] => j \in late)}
<1>1. Touch(d, found) /\ files' = files \cup {d} /\ mark' = mark
      /\ newer' = [j \in Jobs |-> IF j \in late THEN newer[j] \cup {d} ELSE newer[j]]
  BY DEF MoveIn
<1>2. Bookkeeping'
  <2> HIDE DEF found
  <2> QED
    BY <1>1, TouchTyped DEF Bookkeeping
<1>3. ASSUME NEW j \in Jobs, NEW e \in owed'[j] PROVE Held(j, e)'
  <2>1. \/ e \in owed[j] /\ Held(j, e)
        \/ e = d /\ ByWalk(j, d) /\ ~Started(j) /\ (ran[j] => j \in late)
        \/ e = d /\ ~ByWalk(j, d) /\ d \in _watches
    BY <1>1, <1>3, TouchOwes
  <2>2. /\ transit \subseteq transit' /\ (d \in _watches => d \in transit')
        /\ UNCHANGED <<run, ran, recorded, _watches>>
    <3> HIDE DEF found
    <3> QED
      BY <1>1, TouchTyped
  <2> QED
    BY <1>1, <2>1, <2>2 DEF Held, ByWalk, Started
<1> QED
  BY <1>2, <1>3, HeldAfter

LEMMA ChangeBeyondKeeps == ASSUME FInv, NEW d \in Dirs, ChangeBeyond(d) PROVE FInv'
<1> USE DEF FInv
<1>1. Touch(d, {}) /\ UNCHANGED <<files, newer, mark>>
  BY DEF ChangeBeyond
<1>2. Bookkeeping'
  BY <1>1, TouchTyped DEF Bookkeeping
<1>3. ASSUME NEW j \in Jobs, NEW e \in owed'[j] PROVE Held(j, e)'
  BY <1>1, <1>3, TouchOwes, TouchTyped DEF Held, ByWalk, Started
<1> QED
  BY <1>2, <1>3, HeldAfter

(* Files that go take what is owed through the walk with them, and events  *)
(* that go what is owed through the buffer.                                *)
LEMMA VanishKeeps == ASSUME FInv, NEW d \in Dirs, Vanish(d) PROVE FInv'
<1> USE DEF FInv
<1>1. /\ files \ {d} \subseteq files' /\ files' \subseteq files
      /\ newer' = [j \in Jobs |-> newer[j] \ {d}]
      /\ mark' = [j \in Jobs |-> [mark[j] EXCEPT !.newer = @ \ {d}]]
      /\ owed' = [j \in Jobs |-> IF ByWalk(j, d) THEN owed[j] \ {d} ELSE owed[j]]
      /\ UNCHANGED <<transit, _watches, ran, recorded, run>>
  BY DEF Vanish
<1>2. ASSUME NEW j \in Jobs
      PROVE  /\ mark'[j] \in Marks /\ mark'[j].recorded = mark[j].recorded
             /\ mark'[j].newer = mark[j].newer \ {d}
  <2>1. mark[j] \in Marks
    BY DEF Bookkeeping
  <2> QED
    BY <1>1, <2>1 DEF Marks
<1>3. mark' \in [Jobs -> Marks]
  BY <1>1, <1>2
<1>4. newer' \in [Jobs -> SUBSET files']
  <2>1. ASSUME NEW j \in Jobs PROVE newer[j] \ {d} \subseteq files'
    BY <1>1 DEF Bookkeeping
  <2> QED
    BY <1>1, <2>1
<1>5. Bookkeeping'
  <2>1. \A j \in Jobs : mark'[j].newer \subseteq files'
    BY <1>1, <1>2 DEF Bookkeeping
  <2> QED
    BY <1>1, <1>3, <1>4, <2>1 DEF Bookkeeping
<1>6. ASSUME NEW j \in Jobs, NEW e \in owed'[j] PROVE Held(j, e)'
  <2>1. e \in owed[j] /\ (ByWalk(j, d) => e # d)
    BY <1>1
  <2>2. Held(j, e)
    BY <2>1, HeldEach
  <2>3. newer'[j] = newer[j] \ {d} /\ (Started(j)' <=> Started(j))
    BY <1>1 DEF Started
  <2> QED
    BY <1>1, <1>2, <2>1, <2>2, <2>3 DEF Held, ByWalk
<1> QED
  BY <1>5, <1>6, HeldAfter

LEMMA OverflowKeeps == ASSUME FInv, NEW d \in Dirs, Overflow(d) PROVE FInv'
<1> USE DEF FInv
<1>1. /\ recorded' = [j \in Jobs |-> recorded[j] \ {d}]
      /\ mark' = [j \in Jobs |-> [mark[j] EXCEPT !.recorded = @ \ {d}]]
      /\ owed' = Forgotten({d} \ transit)
      /\ UNCHANGED <<files, newer, transit, _watches, ran, run>>
  BY DEF Overflow
<1>2. ASSUME NEW j \in Jobs
      PROVE  /\ mark'[j] \in Marks /\ mark'[j].newer = mark[j].newer
             /\ mark'[j].recorded = mark[j].recorded \ {d}
  <2>1. mark[j] \in Marks
    BY DEF Bookkeeping
  <2> QED
    BY <1>1, <2>1 DEF Marks
<1>3. mark' \in [Jobs -> Marks] /\ owed' \in [Jobs -> SUBSET Dirs]
  <2>1. mark' \in [Jobs -> Marks]
    BY <1>1, <1>2
  <2>2. owed' \in [Jobs -> SUBSET Dirs]
    BY <1>1 DEF Forgotten, Bookkeeping
  <2> QED
    BY <2>1, <2>2
<1>4. Bookkeeping'
  <2>1. \A j \in Jobs : mark'[j].newer \subseteq files'
    BY <1>1, <1>2 DEF Bookkeeping
  <2> QED
    BY <1>1, <1>3, <2>1 DEF Bookkeeping
<1>5. ASSUME NEW j \in Jobs, NEW e \in owed'[j] PROVE Held(j, e)'
  <2>1. e \in owed[j] /\ (e = d => d \in transit \/ ByWalk(j, d))
    BY <1>1 DEF Forgotten
  <2>2. Held(j, e)
    BY <2>1, HeldEach
  <2>3. recorded'[j] = recorded[j] \ {d} /\ (Started(j)' <=> Started(j))
    BY <1>1 DEF Started
  <2> QED
    BY <1>1, <1>2, <2>1, <2>2, <2>3 DEF Held, ByWalk
<1> QED
  BY <1>4, <1>5, HeldAfter

LEMMA RecordKeeps == ASSUME FInv, NEW d \in Dirs, Record(d) PROVE FInv'
<1> USE DEF FInv
<1>1. /\ transit' = transit \ {d} /\ recorded' = [j \in Jobs |-> recorded[j] \cup {d}]
      /\ mark' = [j \in Jobs |-> IF Started(j) THEN [mark[j] EXCEPT !.recorded = @ \cup {d}]
                                            ELSE mark[j]]
      /\ UNCHANGED <<files, newer, _watches, ran, run, owed>>
  BY DEF Record
<1>2. ASSUME NEW j \in Jobs
      PROVE  /\ mark'[j] \in Marks /\ mark'[j].newer = mark[j].newer
             /\ Started(j) => mark'[j].recorded = mark[j].recorded \cup {d}
  <2>1. mark[j] \in Marks
    BY DEF Bookkeeping
  <2> QED
    BY <1>1, <2>1 DEF Marks
<1>3. mark' \in [Jobs -> Marks]
  BY <1>1, <1>2
<1>4. Bookkeeping'
  BY <1>1, <1>3 DEF Bookkeeping
<1>5. ASSUME NEW j \in Jobs, NEW e \in owed'[j] PROVE Held(j, e)'
  <2>1. Held(j, e)
    BY <1>1, HeldEach
  <2>2. recorded'[j] = recorded[j] \cup {d} /\ (Started(j)' <=> Started(j))
    BY <1>1 DEF Started
  <2> QED
    BY <1>1, <1>2, <2>1, <2>2 DEF Held
<1> QED
  BY <1>4, <1>5, HeldAfter

LEMMA BusyIsLeft == \A j \in Jobs : run[j] # "idle" => ~_check_job_triggers[j].fires
BY DEF _check_job_triggers

(* A tick takes a watch away together with what was owed through it, and    *)
(* starts no run.                                                          *)
LEMMA TickKeeps == ASSUME FInv, Tick PROVE FInv'
<1> USE DEF FInv
<1>1. \A j \in Jobs : Started(j)' <=> Started(j)
  <2> SUFFICES ASSUME NEW j \in Jobs PROVE Started(j)' <=> Started(j)
    OBVIOUS
  <2>1. PICK due \in {_check_job_triggers} :
          run' = [i \in Jobs |-> IF due[i].fires THEN "launched" ELSE run[i]]
    BY DEF Tick
  <2>2. Started(j) => ~due[j].fires
    BY BusyIsLeft, <2>1 DEF Started
  <2> QED
    BY <2>1, <2>2 DEF Started
<1>2. /\ transit' = transit \ Dropped /\ _watches \ Dropped \subseteq _watches'
      /\ recorded' = [j \in Jobs |-> recorded[j] \ Dropped]
      /\ mark' = [j \in Jobs |-> [mark[j] EXCEPT !.recorded = @ \ Dropped]]
      /\ owed' = Forgotten(Dropped)
      /\ UNCHANGED <<files, newer, ran>>
  BY DEF Tick, sync, Dropped
<1>3. ASSUME NEW j \in Jobs
      PROVE  /\ mark'[j] \in Marks /\ mark'[j].newer = mark[j].newer
             /\ mark'[j].recorded = mark[j].recorded \ Dropped
  <2>1. mark[j] \in Marks
    BY DEF Bookkeeping
  <2> QED
    BY <1>2, <2>1 DEF Marks
<1>4. Bookkeeping'
  <2>1. transit' \subseteq Dirs /\ _watches' \subseteq Dirs
    BY WatchableAssumption DEF Bookkeeping, Tick, sync
  <2>2. run' \in [Jobs -> {"idle", "launched", "placed", "running"}]
    BY DEF Bookkeeping, Tick
  <2>3. recorded' \in [Jobs -> SUBSET Dirs] /\ owed' \in [Jobs -> SUBSET Dirs]
    BY <1>2 DEF Bookkeeping, Forgotten
  <2>4. mark' \in [Jobs -> Marks]
    BY <1>2, <1>3
  <2> QED
    BY <1>2, <1>3, <2>1, <2>2, <2>3, <2>4 DEF Bookkeeping
<1>5. ASSUME NEW j \in Jobs, NEW e \in owed'[j] PROVE Held(j, e)'
  <2>1. e \in owed[j] /\ (e \in Dropped => ByWalk(j, e))
    BY <1>2 DEF Forgotten
  <2>2. Held(j, e)
    BY <2>1, HeldEach
  <2>3. recorded'[j] = recorded[j] \ Dropped
    BY <1>2
  <2> QED
    BY <1>1, <1>2, <1>3, <2>1, <2>2, <2>3 DEF Held, ByWalk
<1> QED
  BY <1>4, <1>5, HeldAfter

LEMMA RunKeeps ==
  ASSUME FInv, NEW j \in Jobs, TriggerManual(j) \/ StartRun(j) \/ EndRun(j) PROVE FInv'
<1> USE DEF FInv
<1>1. CASE TriggerManual(j)
  BY <1>1 DEF Bookkeeping, NoBlindSpot, TriggerManual, NoMark, Marks, Started
<1>2. CASE StartRun(j)
  <2>1. NoMark \in Marks /\ NoMark.newer = {}
    BY DEF NoMark, Marks
  <2>2. Bookkeeping'
    BY <1>2, <2>1 DEF Bookkeeping, StartRun
  <2>3. NoBlindSpot'
    BY <1>2 DEF Bookkeeping, NoBlindSpot, StartRun, NoMark, Marks, Started
  <2> QED
    BY <2>2, <2>3
<1>3. CASE EndRun(j)
  <2>1. mark[j] \in Marks /\ run[j] = "running" /\ owed' = owed /\ UNCHANGED <<transit, _watches>>
    BY <1>3 DEF Bookkeeping, EndRun
  <2>2. ASSUME NEW i \in Jobs, i # j
        PROVE  /\ newer'[i] = newer[i] /\ recorded'[i] = recorded[i] /\ mark'[i] = mark[i]
               /\ ran'[i] = ran[i] /\ run'[i] = run[i]
    BY <1>3, <2>2 DEF Bookkeeping, EndRun
  <2>3. ASSUME NEW d \in owed[j] PROVE Held(j, d)'
    BY <1>3, <2>1, <2>3 DEF Bookkeeping, NoBlindSpot, EndRun, Held, Started
  <2>4. ASSUME NEW i \in Jobs, NEW d \in owed'[i], i # j PROVE Held(i, d)'
    <3>1. Held(i, d) /\ files' = files
      BY <1>3, <2>1, <2>4, HeldEach DEF EndRun
    <3> QED
      BY <2>1, <2>2, <2>4, <3>1 DEF Held, Started
  <2>5. Bookkeeping'
    <3>1. mark[j].recorded \in SUBSET Dirs /\ NoMark \in Marks /\ mark[j].newer \subseteq files
      <4>1. mark[j].newer \subseteq files
        BY DEF Bookkeeping
      <4> QED
        BY <2>1, <4>1 DEF NoMark, Marks
    <3>2. \A i \in Jobs : mark'[i] \in Marks /\ mark'[i].newer \subseteq files
      BY <1>3, <3>1 DEF Bookkeeping, EndRun, NoMark
    <3>3. mark' \in [Jobs -> Marks]
      BY <1>3, <3>1 DEF Bookkeeping, EndRun
    <3> QED
      BY <1>3, <3>1, <3>2, <3>3 DEF Bookkeeping, EndRun
  <2> QED
    BY <2>1, <2>3, <2>4, <2>5, HeldAfter
<1> QED
  BY <1>1, <1>2, <1>3

(* A first run that dies with the daemon leaves its job to the walk.       *)
LEMMA GoDownKeeps == ASSUME FInv, GoDown PROVE FInv'
<1> USE DEF FInv
<1>1. Bookkeeping'
  BY DEF Bookkeeping, GoDown, NoMark, Marks, Forgotten
<1>2. ASSUME NEW j \in Jobs, NEW e \in owed'[j] PROVE Held(j, e)'
  <2>1. e \in owed[j] /\ (e \in Watchable => ByWalk(j, e))
    BY DEF GoDown, Forgotten
  <2>2. Held(j, e)
    BY <2>1, HeldEach
  <2>3. newer[j] \subseteq files /\ UNCHANGED <<files, newer, ran>> /\ ~Started(j)'
    BY DEF Bookkeeping, GoDown, Started
  <2> QED
    BY <2>1, <2>2, <2>3 DEF Held, ByWalk
<1> QED
  BY <1>1, <1>2, HeldAfter

LEMMA OthersKeep ==
  ASSUME FInv, \/ Boot \/ UNCHANGED vars \/ \E d \in Dirs : MakeDir(d)
               \/ \E j \in Jobs : WindowPasses(j) \/ SetEnabled(j)
  PROVE  FInv'
<1>1. UNCHANGED <<files, transit, _watches, ran, newer, recorded, mark, run, owed>>
  BY DEF Boot, vars, job, MakeDir, WindowPasses, SetEnabled
<1> QED
  BY <1>1 DEF FInv, Bookkeeping, NoBlindSpot, Started

LEMMA NextKeeps == FInv /\ [Next]_vars => FInv'
BY ChangeKeeps, MoveInKeeps, ChangeBeyondKeeps, VanishKeeps, OverflowKeeps, RecordKeeps,
   TickKeeps, RunKeeps, GoDownKeeps, OthersKeep DEF Next, Advance

(* What is owed to a job - the changes since its last start that its checks *)
(* are in a position to find - is always where a later check of the job    *)
(* will find it (file_watch.py, scheduler.py:452-545), whatever other jobs, *)
(* runs, restarts, deletions and bursts of events come in between.         *)
THEOREM NothingEscapes == Spec => []NoBlindSpot
<1>1. FInv => NoBlindSpot
  BY DEF FInv
<1> QED
  BY InitHolds, NextKeeps, <1>1, PTL DEF Spec

-----------------------------------------------------------------------------
(* Types.  What the triggers of a job come to is typed, however many there *)
(* are.                                                                    *)

Outcomes == [fires : BOOLEAN, pending : {"none", "seen", "elapsed"}]
start(j) == [fires |-> FALSE, pending |-> _file_change_pending[j]]

(* The outcomes after each of the triggers of j.                           *)
Checks(j) ==
  CHOOSE h : h = [i \in 0..Len(Triggers[j]) |->
                    IF i = 0 THEN start(j) ELSE CheckTrigger(j, h[i - 1], Triggers[j][i])]

LEMMA CheckTyped ==
  ASSUME NEW j, NEW due \in Outcomes, NEW trigger PROVE CheckTrigger(j, due, trigger) \in Outcomes
BY DEF CheckTrigger, Outcomes

LEMMA ChecksTyped ==
  ASSUME TypeOK, NEW j \in Jobs
  PROVE  Len(Triggers[j]) \in Nat /\ Checks(j) \in [0..Len(Triggers[j]) -> Outcomes]
<1> DEFINE N == Len(Triggers[j])
           Checked(h) == h = [i \in 0..N |->
                                IF i = 0 THEN start(j) ELSE CheckTrigger(j, h[i - 1], Triggers[j][i])]
           g == [p \in (1..N) \X Outcomes |-> CheckTrigger(j, p[2], Triggers[j][p[1]])]
<1>1. N \in Nat
  BY TriggersAssumption
<1>2. start(j) \in Outcomes
  BY DEF start, Outcomes, TypeOK
<1>3. g \in [(1..N) \X Outcomes -> Outcomes]
  BY CheckTyped
<1> HIDE DEF N
<1>4. PICK f \in [0..N -> Outcomes] : f[0] = start(j) /\ \A i \in 1..N : f[i] = g[<<i, f[i - 1]>>]
  <2> HIDE DEF g
  <2>1. \E f \in [0..N -> Outcomes] : Climbs(N, start(j), g, f)
    BY <1>1, <1>2, <1>3, RecursionExists
  <2> QED
    BY <2>1 DEF Climbs
<1>5. ASSUME NEW i \in 0..N
      PROVE  f[i] = IF i = 0 THEN start(j) ELSE CheckTrigger(j, f[i - 1], Triggers[j][i])
  <2>1. CASE i = 0
    BY <1>4, <2>1
  <2>2. CASE i # 0
    <3>1. i \in 1..N /\ i - 1 \in 0..N
      BY <1>1, <2>2
    <3>2. f[i - 1] \in Outcomes /\ f[i] = g[<<i, f[i - 1]>>]
      BY <1>4, <3>1
    <3>3. g[<<i, f[i - 1]>>] = CheckTrigger(j, f[i - 1], Triggers[j][i])
      BY <3>1, <3>2
    <3> QED
      BY <2>2, <3>2, <3>3
  <2> QED
    BY <2>1, <2>2
<1>6. Checked(f)
  BY <1>4, <1>5
<1> DEFINE h == Checks(j)
<1>7. Checked(h)
  <2> HIDE DEF Checked
  <2>1. h = CHOOSE e : Checked(e)
    BY DEF Checks, Checked, N
  <2> HIDE DEF h
  <2> QED
    BY <1>6, <2>1
<1> HIDE DEF h
<1>8. ASSUME NEW i \in 0..N
      PROVE  h[i] = IF i = 0 THEN start(j) ELSE CheckTrigger(j, h[i - 1], Triggers[j][i])
  BY <1>7, Zenon
<1>9. \A i \in 0..N : f[i] = h[i]
  <2>1. f[0] = h[0]
    BY <1>1, <1>4, <1>8
  <2>2. ASSUME NEW i \in 1..N, f[i - 1] = h[i - 1] PROVE f[i] = h[i]
    <3>1. i \in 0..N /\ i # 0
      BY <1>1
    <3>2. f[i] = CheckTrigger(j, f[i - 1], Triggers[j][i])
      BY <1>5, <3>1
    <3>3. h[i] = CheckTrigger(j, h[i - 1], Triggers[j][i])
      BY <1>8, <3>1
    <3> QED
      BY <2>2, <3>2, <3>3
  <2>3. Agree(N, f, h)
    BY <1>1, <2>1, <2>2, RecursionAgrees DEF Alike
  <2> QED
    BY <2>3 DEF Agree
<1>10. h = f
  <2>1. h = [i \in 0..N |-> h[i]]
    BY <1>7
  <2> QED
    BY <1>9, <2>1
<1> QED
  BY <1>1, <1>10 DEF h, N

LEMMA TriggersTyped ==
  ASSUME TypeOK, NEW j \in Jobs
  PROVE  _check_job_triggers[j] \in Outcomes
<1>1. Checks(j)[Len(Triggers[j])] \in Outcomes /\ start(j) \in Outcomes
  <2>1. Len(Triggers[j]) \in 0..Len(Triggers[j])
    BY ChecksTyped
  <2>2. Checks(j)[Len(Triggers[j])] \in Outcomes
    BY <2>1, ChecksTyped
  <2>3. start(j) \in Outcomes
    BY DEF start, Outcomes, TypeOK
  <2> QED
    BY <2>2, <2>3
<1>2. _check_job_triggers[j] =
        IF enabled[j] /\ run[j] = "idle" THEN Checks(j)[Len(Triggers[j])] ELSE start(j)
  BY DEF _check_job_triggers, Checks, start
<1> QED
  BY <1>1, <1>2

LEMMA TickTyped == ASSUME TypeOK, Tick PROVE TypeOK'
<1>1. /\ run' \in [Jobs -> {"idle", "launched", "placed", "running"}]
      /\ _file_change_pending' \in [Jobs -> {"none", "seen", "elapsed"}]
  <2>1. /\ run' = [j \in Jobs |-> IF _check_job_triggers[j].fires THEN "launched" ELSE run[j]]
        /\ _file_change_pending' = [j \in Jobs |-> _check_job_triggers[j].pending]
    BY DEF Tick
  <2> QED
    BY <2>1, TriggersTyped DEF Outcomes, TypeOK
<1>2. transit' \subseteq _watches' /\ _watches' \subseteq Watchable \cap present'
  BY DEF Tick, TypeOK, sync, Dropped
<1>3. /\ recorded' \in [Jobs -> SUBSET Dirs] /\ owed' \in [Jobs -> SUBSET Dirs]
      /\ mark' \in [Jobs -> [newer : SUBSET Dirs, recorded : SUBSET Dirs]]
  <2>1. ASSUME NEW j \in Jobs
        PROVE  [mark[j] EXCEPT !.recorded = @ \ Dropped] \in [newer : SUBSET Dirs, recorded : SUBSET Dirs]
    <3>1. mark[j] \in [newer : SUBSET Dirs, recorded : SUBSET Dirs]
      BY DEF TypeOK
    <3>2. mark[j].recorded \ Dropped \in SUBSET Dirs
      BY <3>1
    <3> QED
      BY <3>1, <3>2
  <2>2. /\ recorded' = [j \in Jobs |-> recorded[j] \ Dropped]
        /\ owed' \in [Jobs -> SUBSET Dirs]
        /\ mark' = [j \in Jobs |-> [mark[j] EXCEPT !.recorded = @ \ Dropped]]
    BY DEF Tick, Forgotten, TypeOK
  <2> QED
    BY <2>1, <2>2 DEF TypeOK
<1> QED
  BY <1>1, <1>2, <1>3 DEF Tick, TypeOK

LEMMA InitTyped == Init => TypeOK
BY BoundsAssumption DEF Init, TypeOK, NoMark

(* Taking directories out of a mark.                                       *)
LEMMA MarksTyped ==
  ASSUME TypeOK, NEW d
  PROVE  /\ [j \in Jobs |-> [mark[j] EXCEPT !.newer = @ \ {d}]]
              \in [Jobs -> [newer : SUBSET Dirs, recorded : SUBSET Dirs]]
         /\ [j \in Jobs |-> [mark[j] EXCEPT !.recorded = @ \ {d}]]
              \in [Jobs -> [newer : SUBSET Dirs, recorded : SUBSET Dirs]]
<1>1. ASSUME NEW j \in Jobs
      PROVE  /\ [mark[j] EXCEPT !.newer = @ \ {d}] \in [newer : SUBSET Dirs, recorded : SUBSET Dirs]
             /\ [mark[j] EXCEPT !.recorded = @ \ {d}] \in [newer : SUBSET Dirs, recorded : SUBSET Dirs]
  <2>1. mark[j] \in [newer : SUBSET Dirs, recorded : SUBSET Dirs]
    BY DEF TypeOK
  <2> QED
    BY <2>1
<1> QED
  BY <1>1

LEMMA OwedTyped ==
  ASSUME TypeOK, NEW D PROVE Forgotten(D) \in [Jobs -> SUBSET Dirs]
BY DEF Forgotten, TypeOK

LEMMA TouchedTyped ==
  ASSUME TypeOK, NEW d \in Dirs, NEW found, Touch(d, found)
  PROVE  /\ d \in present /\ changes' \in 0..MaxChanges
         /\ owed' \in [Jobs -> SUBSET Dirs] /\ transit' \subseteq _watches
         /\ UNCHANGED <<up, present, _watches, enabled, ran, recorded,
                        _file_change_pending, run, commands, stops>>
<1>1. d \in present /\ changes' \in 0..MaxChanges
  BY BoundsAssumption DEF Touch, TypeOK
<1>2. owed' \in [Jobs -> SUBSET Dirs] /\ transit' \subseteq _watches
  BY DEF Touch, TypeOK
<1> QED
  BY <1>1, <1>2 DEF Touch

LEMMA FilesTyped ==
  ASSUME TypeOK, NEW d \in Dirs,
         \/ MakeDir(d) \/ Change(d) \/ ChangeBeyond(d) \/ Vanish(d) \/ Overflow(d)
         \/ Record(d) \/ \E late \in SUBSET Jobs : MoveIn(d, late)
  PROVE  TypeOK'
<1>1. CASE MakeDir(d)
  BY <1>1 DEF TypeOK, MakeDir, job
<1>2. CASE Change(d)
  <2>1. Touch(d, Jobs) /\ files' = files \cup {d} /\ newer' = [j \in Jobs |-> newer[j] \cup {d}]
    BY <1>2 DEF Change
  <2>2. mark' \in [Jobs -> [newer : SUBSET Dirs, recorded : SUBSET Dirs]]
    BY <1>2 DEF Change, TypeOK
  <2> QED
    BY <2>1, <2>2, TouchedTyped DEF TypeOK
<1>3. CASE ChangeBeyond(d)
  BY <1>3, TouchedTyped DEF TypeOK, ChangeBeyond
<1>4. CASE Vanish(d)
  <2>1. /\ newer' \in [Jobs -> SUBSET Dirs] /\ owed' \in [Jobs -> SUBSET Dirs]
        /\ files' \subseteq present /\ changes' \in 0..MaxChanges
    BY <1>4, BoundsAssumption DEF TypeOK, Vanish
  <2> QED
    BY <1>4, <2>1, MarksTyped DEF TypeOK, Vanish
<1>5. CASE Overflow(d)
  <2>1. recorded' \in [Jobs -> SUBSET Dirs] /\ changes' \in 0..MaxChanges
    BY <1>5, BoundsAssumption DEF TypeOK, Overflow
  <2> QED
    BY <1>5, <2>1, MarksTyped, OwedTyped DEF TypeOK, Overflow
<1>6. CASE Record(d)
  BY <1>6 DEF TypeOK, Record
<1>7. ASSUME NEW late \in SUBSET Jobs, MoveIn(d, late) PROVE TypeOK'
  <2>1. PICK found : Touch(d, found)
    BY <1>7 DEF MoveIn
  <2>2. files' = files \cup {d} /\ mark' = mark /\ newer' \in [Jobs -> SUBSET Dirs]
    BY <1>7 DEF MoveIn, TypeOK
  <2> QED
    BY <2>1, <2>2, TouchedTyped DEF TypeOK
<1> QED
  BY <1>1, <1>2, <1>3, <1>4, <1>5, <1>6, <1>7

LEMMA JobTyped ==
  ASSUME TypeOK, NEW j \in Jobs,
         WindowPasses(j) \/ TriggerManual(j) \/ StartRun(j) \/ EndRun(j) \/ SetEnabled(j)
  PROVE  TypeOK'
<1>1. CASE WindowPasses(j)
  BY <1>1 DEF TypeOK, WindowPasses
<1>2. CASE TriggerManual(j)
  BY <1>2, BoundsAssumption DEF TypeOK, TriggerManual, NoMark
<1>3. CASE StartRun(j)
  <2>1. up /\ run' = [run EXCEPT ![j] = "running"]
    BY <1>3 DEF TypeOK, StartRun
  <2>2. /\ run' \in [Jobs -> {"idle", "launched", "placed", "running"}]
        /\ mark' \in [Jobs -> [newer : SUBSET Dirs, recorded : SUBSET Dirs]]
        /\ owed' \in [Jobs -> SUBSET Dirs]
    <3>1. NoMark \in [newer : SUBSET Dirs, recorded : SUBSET Dirs]
      BY DEF NoMark
    <3>2. \/ mark' = [mark EXCEPT ![j] = NoMark] /\ owed' = [owed EXCEPT ![j] = {}]
          \/ UNCHANGED <<mark, owed>>
      BY <1>3 DEF StartRun
    <3>3. run' \in [Jobs -> {"idle", "launched", "placed", "running"}]
      BY <2>1 DEF TypeOK
    <3>4. CASE mark' = [mark EXCEPT ![j] = NoMark] /\ owed' = [owed EXCEPT ![j] = {}]
      <4>1. mark' \in [Jobs -> [newer : SUBSET Dirs, recorded : SUBSET Dirs]]
        BY <3>1, <3>4 DEF TypeOK
      <4>2. owed' \in [Jobs -> SUBSET Dirs]
        BY <3>4 DEF TypeOK
      <4> QED
        BY <3>3, <4>1, <4>2
    <3>5. CASE UNCHANGED <<mark, owed>>
      BY <3>3, <3>5 DEF TypeOK
    <3> QED
      BY <3>2, <3>4, <3>5
  <2> QED
    BY <1>3, <2>1, <2>2 DEF TypeOK, StartRun
<1>4. CASE EndRun(j)
  BY <1>4 DEF TypeOK, EndRun, NoMark
<1>5. CASE SetEnabled(j)
  BY <1>5, BoundsAssumption DEF TypeOK, SetEnabled
<1> QED
  BY <1>1, <1>2, <1>3, <1>4, <1>5

LEMMA ProcessTyped == ASSUME TypeOK, GoDown \/ Boot \/ UNCHANGED vars PROVE TypeOK'
<1>1. CASE GoDown
  <2>1. /\ mark' \in [Jobs -> [newer : SUBSET Dirs, recorded : SUBSET Dirs]]
        /\ recorded' \in [Jobs -> SUBSET Dirs] /\ owed' \in [Jobs -> SUBSET Dirs]
    BY <1>1, OwedTyped DEF TypeOK, GoDown, NoMark
  <2>2. stops' \in 0..MaxStops /\ up' = FALSE /\ \A j \in Jobs : run'[j] = "idle"
    BY <1>1, BoundsAssumption DEF TypeOK, GoDown
  <2>3. /\ run' \in [Jobs -> {"idle", "launched", "placed", "running"}]
        /\ _file_change_pending' \in [Jobs -> {"none", "seen", "elapsed"}]
        /\ transit' = {} /\ _watches' = {}
    BY <1>1 DEF GoDown
  <2>4. UNCHANGED <<present, files, enabled, ran, newer, changes, commands>>
    BY <1>1 DEF GoDown
  <2> QED
    BY <2>1, <2>2, <2>3, <2>4 DEF TypeOK
<1>2. CASE Boot
  BY <1>2 DEF TypeOK, Boot, job
<1>3. CASE UNCHANGED vars
  BY <1>3 DEF TypeOK, vars, job
<1> QED
  BY <1>1, <1>2, <1>3

(* Every variable keeps its type: a live watch is on a directory that is   *)
(* there, an undelivered event under a live watch, and a daemon that is    *)
(* down has neither watches nor runs.                                      *)
THEOREM FileTriggerTypeCorrect == Spec => []TypeOK
<1>1. TypeOK /\ [Next]_vars => TypeOK'
  BY TickTyped, FilesTyped, JobTyped, ProcessTyped DEF Next, Advance
<1> QED
  BY <1>1, InitTyped, PTL DEF Spec
=============================================================================
