------------------------ MODULE PeatSchedulerProofs ------------------------
(***************************************************************************)
(* PeatScheduler fires one run of a job at a time, once per instant,       *)
(* restart and command, and stops only when the fires are over, for every  *)
(* set of jobs and every bound.                                            *)
(***************************************************************************)
EXTENDS PeatScheduler, FiniteSetTheorems, SequenceTheorems, TLAPS

(* A live fire of a job that may not overlap itself is the one in the      *)
(* table: the table is what both the tick and stop() go by.                *)
TableTellsAll == \A j \in Jobs \ Concurrent : \A f \in LiveFires(j) : _inflight[j] = f

OneRuns == \A f, g \in FireIds :
  fires[f].stage = "running" /\ fires[g].stage = "running" => f = g

(* What stop() awaits is what is in the table, less what has ended since.  *)
AwaitsTheTable ==
  app = "stopping" => \A j \in Jobs : _inflight[j] # 0 => _inflight[j] \in awaited

PInv == TypeOK /\ TableTellsAll /\ OneRuns /\ AwaitsTheTable

USE JobsAssumption, BoundsAssumption

-----------------------------------------------------------------------------
LEMMA InitPInv == Init => PInv
<1> SUFFICES ASSUME Init PROVE PInv
  OBVIOUS
<1>1. file \in [Jobs -> Records] /\ FireIds = {} /\ fires = << >>
  BY DEF Init, Records, FireIds
<1>2. TypeOK
  <2>1. fires \in Seq(Fire) /\ Len(fires) = 0
    BY <1>1
  <2>2. now \in [Jobs -> 0..MaxInstants]
    BY DEF Init
  <2>3. _inflight \in [Jobs -> 0..Len(fires)] /\ \A j \in Jobs : _inflight[j] = 0
    BY <2>1 DEF Init
  <2>4. /\ app = "up" /\ ready = FALSE /\ awaited = {} /\ command = NoCommand
        /\ commands \in 0..MaxCommands /\ starts \in 1..MaxStarts
    BY DEF Init
  <2> QED
    BY <1>1, <2>1, <2>2, <2>3, <2>4 DEF TypeOK
<1> QED
  BY <1>1, <1>2 DEF Init, PInv, TableTellsAll, OneRuns, AwaitsTheTable, LiveFires

LEMMA NextIsTyped ==
  ASSUME TypeOK, NEW j \in Jobs PROVE next_fire_time(j) \in 0..MaxInstants + 1
<1>1. now[j] \in 0..MaxInstants
  BY DEF TypeOK
<1> QED
  BY <1>1 DEF next_fire_time

(* A fire that moves on stays a fire of its job, and the others stand.     *)
LEMMA FireMoves ==
  ASSUME TypeOK, NEW f \in FireIds, NEW s \in {"created", "running", "ended", "killed"},
         fires' = [fires EXCEPT ![f].stage = s]
  PROVE  /\ fires' \in Seq(Fire) /\ Len(fires') = Len(fires) /\ FireIds' = FireIds
         /\ \A g \in FireIds : /\ fires'[g].job = fires[g].job
                               /\ g # f => fires'[g] = fires[g]
         /\ fires'[f].stage = s
<1> DEFINE new == [fires[f] EXCEPT !.stage = s]
<1>1. fires \in Seq(Fire) /\ fires[f] \in Fire
  BY DEF TypeOK, FireIds
<1>2. new \in Fire /\ new.job = fires[f].job /\ new.stage = s
  BY <1>1 DEF Fire
<1>3. fires' = [fires EXCEPT ![f] = new]
  OBVIOUS
<1> HIDE DEF new
<1>4. /\ fires' \in Seq(Fire) /\ Len(fires') = Len(fires) /\ fires'[f] = new
      /\ \A g \in FireIds \ {f} : fires'[g] = fires[g]
  BY <1>1, <1>2, <1>3, ExceptSeq DEF FireIds
<1> QED
  BY <1>2, <1>4 DEF FireIds

(* The end of a fire takes that fire, and no other, off the table.         *)
LEMMA EndKeeps ==
  ASSUME PInv, NEW f \in FireIds, Live(f), NEW status \in {"ok", "fail"}, Ends(f, status)
  PROVE  PInv'
<1> USE DEF PInv
<1> DEFINE j == fires[f].job
<1>1. fires \in Seq(Fire) /\ j \in Jobs /\ fires[f].copy \in Records
  <2>1. fires[f] \in Fire
    BY DEF TypeOK, FireIds
  <2> QED
    BY <2>1 DEF TypeOK, Fire
<1>2. /\ fires' = [fires EXCEPT ![f].stage = "ended"]
      /\ _inflight' = [_inflight EXCEPT ![j] = 0]
      /\ file' = [file EXCEPT ![j] = After(j, fires[f].copy, status)]
      /\ UNCHANGED <<now, app, ready, awaited, command, commands, starts>>
  BY DEF Ends
<1>3. fires' \in Seq(Fire) /\ Len(fires') = Len(fires) /\ FireIds' = FireIds
  BY <1>2, FireMoves
<1>4. \A g \in FireIds : /\ fires'[g].job = fires[g].job
                         /\ g # f => fires'[g] = fires[g]
                         /\ fires'[f].stage = "ended"
  BY <1>2, FireMoves
<1>5. After(j, fires[f].copy, status) \in Records
  BY <1>1, NextIsTyped DEF After, Records
<1>6. \A i \in Jobs : LiveFires(i)' = LiveFires(i) \ {f}
  BY <1>3, <1>4 DEF LiveFires, Live
<1>7. \A i \in Jobs : _inflight'[i] # 0 => i # j /\ _inflight'[i] = _inflight[i]
  BY <1>2 DEF TypeOK
<1>8. \A i \in Jobs : _inflight'[i] # 0 => _inflight'[i] \in LiveFires(i) \ {f}
  BY <1>1, <1>7 DEF TypeOK, LiveFires
<1>9. TypeOK'
  <2>1. _inflight' \in [Jobs -> 0..Len(fires')] /\ file' \in [Jobs -> Records]
    BY <1>1, <1>2, <1>3, <1>5 DEF TypeOK
  <2> QED
    BY <2>1, <1>2, <1>3, <1>6, <1>8 DEF TypeOK, Fire
<1>10. TableTellsAll'
  <2> SUFFICES ASSUME NEW i \in Jobs \ Concurrent, NEW g \in LiveFires(i) \ {f}
               PROVE  _inflight'[i] = g
    BY <1>6 DEF TableTellsAll
  <2>1. _inflight[i] = g
    BY DEF TableTellsAll
  <2>2. i = j => _inflight[i] = f
    BY <1>1 DEF TableTellsAll, LiveFires
  <2> QED
    BY <2>1, <2>2, <1>1, <1>2 DEF TypeOK
<1>11. OneRuns'
  BY <1>3, <1>4 DEF OneRuns
<1>12. AwaitsTheTable'
  BY <1>2, <1>7 DEF AwaitsTheTable
<1> QED
  BY <1>9, <1>10, <1>11, <1>12

LEMMA RunKeeps == ASSUME PInv, NEW f \in FireIds, Runs(f) PROVE PInv'
<1> USE DEF PInv
<1>1. fires \in Seq(Fire)
  BY DEF TypeOK
<1>2. fires' = [fires EXCEPT ![f].stage = "running"] /\ fires[f].stage = "created"
      /\ \A g \in FireIds : fires[g].stage # "running"
      /\ UNCHANGED <<file, now, app, ready, _inflight, awaited, command, commands, starts>>
  BY DEF Runs
<1>3. fires' \in Seq(Fire) /\ Len(fires') = Len(fires) /\ FireIds' = FireIds
  BY <1>2, FireMoves
<1>4. \A g \in FireIds : /\ fires'[g].job = fires[g].job
                         /\ g # f => fires'[g] = fires[g]
                         /\ fires'[f].stage = "running"
  BY <1>2, FireMoves
<1>5. \A i \in Jobs : LiveFires(i)' = LiveFires(i)
  BY <1>2, <1>3, <1>4 DEF LiveFires, Live
<1>6. TypeOK'
  BY <1>2, <1>3, <1>5 DEF TypeOK, Fire
<1>7. TableTellsAll' /\ AwaitsTheTable'
  BY <1>2, <1>5 DEF TableTellsAll, AwaitsTheTable
<1>8. OneRuns'
  BY <1>2, <1>3, <1>4 DEF OneRuns
<1> QED
  BY <1>6, <1>7, <1>8

(* A tick fires a job only when the table has no fire of it, or sets its   *)
(* first instant.                                                          *)
LEMMA TickKeeps == ASSUME PInv, NEW j \in Jobs, Tick(j) PROVE PInv'
<1> USE DEF PInv
<1>1. CASE UNCHANGED <<fires, _inflight>>
  <2>1. file' = [file EXCEPT ![j].next = next_fire_time(j)]
        \/ Len(fires') = Len(fires) + 1
    BY DEF Tick
  <2>2. file' = [file EXCEPT ![j].next = next_fire_time(j)]
    BY <1>1, <2>1 DEF TypeOK
  <2>3. file' \in [Jobs -> Records]
    <3>1. file[j] \in Records /\ next_fire_time(j) \in 0..MaxInstants + 1
      BY NextIsTyped DEF TypeOK
    <3>2. [file[j] EXCEPT !.next = next_fire_time(j)] \in Records
      BY <3>1 DEF Records
    <3> QED
      BY <2>2, <3>2 DEF TypeOK
  <2> QED
    BY <1>1, <2>3 DEF Tick, TypeOK, TableTellsAll, OneRuns, AwaitsTheTable,
       LiveFires, Live, FireIds
<1>2. CASE ~UNCHANGED <<fires, _inflight>>
  <2> DEFINE new == [job |-> j, copy |-> file[j], stage |-> "created"]
             n   == Len(fires) + 1
  <2>1. /\ app = "up" /\ Fires(j)
        /\ fires' = Append(fires, new) /\ _inflight' = [_inflight EXCEPT ![j] = n]
        /\ UNCHANGED <<file, now, app, ready, awaited, command, commands, starts>>
    BY <1>2 DEF Tick
  <2>2. fires \in Seq(Fire) /\ new \in Fire
    BY DEF TypeOK, Fire
  <2>3. /\ fires' \in Seq(Fire) /\ Len(fires') = n /\ fires'[n] = new
        /\ FireIds' = FireIds \cup {n} /\ n \notin FireIds /\ n \in Nat \ {0}
        /\ \A g \in FireIds : fires'[g] = fires[g]
    BY <2>1, <2>2 DEF FireIds
  <2>4. \A i \in Jobs : LiveFires(i)' = LiveFires(i) \cup (IF i = j THEN {n} ELSE {})
    BY <2>3 DEF LiveFires, Live
  <2>5. TypeOK'
    <3>1. _inflight' \in [Jobs -> 0..Len(fires')]
      BY <2>1, <2>2, <2>3 DEF TypeOK
    <3>2. \A i \in Jobs : _inflight'[i] # 0 => _inflight'[i] \in LiveFires(i)'
      BY <2>1, <2>4 DEF TypeOK
    <3>3. awaited' \subseteq FireIds'
      BY <2>1, <2>3 DEF TypeOK
    <3> QED
      BY <2>1, <2>3, <3>1, <3>2, <3>3 DEF TypeOK, Fire
  <2>6. TableTellsAll'
    <3> SUFFICES ASSUME NEW i \in Jobs \ Concurrent, NEW g \in LiveFires(i)'
                 PROVE  _inflight'[i] = g
      BY DEF TableTellsAll
    <3>1. CASE i # j
      BY <3>1, <2>1, <2>4 DEF TableTellsAll, TypeOK
    <3>2. CASE i = j
      <4>1. _inflight[j] = 0 /\ LiveFires(j) = {}
        BY <3>2, <2>1, <2>2 DEF Fires, TableTellsAll, LiveFires, FireIds
      <4> QED
        BY <3>2, <4>1, <2>1, <2>4 DEF TypeOK
    <3> QED
      BY <3>1, <3>2
  <2>7. OneRuns'
    <3>1. fires'[n].stage # "running"
      BY <2>3
    <3> QED
      BY <2>3, <3>1 DEF OneRuns
  <2>8. AwaitsTheTable'
    BY <2>1 DEF AwaitsTheTable
  <2> QED
    BY <2>5, <2>6, <2>7, <2>8
<1> QED
  BY <1>1, <1>2

(* What kills the application leaves neither fires nor a table.            *)
LEMMA GoDownKeeps == ASSUME PInv, GoDown PROVE PInv'
<1> USE DEF PInv
<1>1. fires \in Seq(Fire)
  BY DEF TypeOK
<1>2. /\ fires' \in Seq(Fire) /\ Len(fires') = Len(fires) /\ FireIds' = FireIds
      /\ \A g \in FireIds : fires'[g].stage \notin {"created", "running"}
  <2>1. fires' = [g \in 1..Len(fires) |->
                    IF Live(g) THEN [fires[g] EXCEPT !.stage = "killed"] ELSE fires[g]]
    BY DEF GoDown, Killed, FireIds
  <2>2. \A g \in 1..Len(fires) : fires[g] \in Fire
    BY <1>1
  <2>3. \A g \in 1..Len(fires) : fires'[g] \in Fire
                                 /\ fires'[g].stage \notin {"created", "running"}
    BY <2>1, <2>2 DEF Live, Fire
  <2>4. fires' \in Seq(Fire) /\ Len(fires') = Len(fires)
    BY <1>1, <2>1, <2>3
  <2> QED
    BY <2>3, <2>4 DEF FireIds
<1>3. \A i \in Jobs : LiveFires(i)' = {}
  BY <1>2 DEF LiveFires, Live
<1>4. TypeOK'
  <2>1. _inflight' \in [Jobs -> 0..Len(fires')] /\ \A j \in Jobs : _inflight'[j] = 0
    BY <1>2 DEF GoDown, FireIds
  <2>2. /\ app' = "down" /\ ready' = FALSE /\ awaited' = {} /\ command' = NoCommand
        /\ UNCHANGED <<file, now, commands, starts>>
    BY DEF GoDown
  <2> QED
    BY <1>2, <2>1, <2>2 DEF TypeOK
<1> QED
  BY <1>2, <1>3, <1>4 DEF GoDown, TableTellsAll, OneRuns, AwaitsTheTable

(* Commands, time and the application's start and stop leave the fires and *)
(* the table alone.                                                        *)
LEMMA UserKeeps ==
  ASSUME PInv, UNCHANGED <<fires, _inflight>>,
         \/ \E j \in Jobs : TimePasses(j) \/ Delete(j)
         \/ \E j \in Jobs, verb \in Verbs : CommandReads(verb, j)
         \/ CommandWrites \/ AgentReady \/ Stop \/ Restart \/ UNCHANGED vars
  PROVE  PInv'
<1> USE DEF PInv
<1>1. FireIds' = FireIds /\ \A i \in Jobs : LiveFires(i)' = LiveFires(i)
  BY DEF FireIds, LiveFires, Live
<1>2. TableTellsAll' /\ OneRuns'
  BY <1>1 DEF TableTellsAll, OneRuns
<1>3. AwaitsTheTable'
  BY DEF AwaitsTheTable, TimePasses, Delete, CommandReads, CommandWrites, AgentReady,
     Stop, Restart, vars
<1>4. TypeOK'
  <2>1. CASE \E j \in Jobs : TimePasses(j)
    BY <2>1, <1>1 DEF TypeOK, TimePasses
  <2>2. CASE \E j \in Jobs : Delete(j)
    <3>1. Absent \in Records
      BY DEF Absent, Records
    <3> QED
      BY <2>2, <3>1, <1>1 DEF TypeOK, Delete
  <2>3. CASE \E j \in Jobs, verb \in Verbs : CommandReads(verb, j)
    BY <2>3, <1>1 DEF TypeOK, CommandReads
  <2>4. CASE CommandWrites
    <3>1. command.job \in Jobs /\ command.copy \in Records
      BY <2>4 DEF CommandWrites, TypeOK, NoCommand
    <3>2. file' \in [Jobs -> Records]
      BY <2>4, <3>1, NextIsTyped DEF CommandWrites, TypeOK, Records
    <3> QED
      BY <2>4, <3>2, <1>1 DEF TypeOK, CommandWrites
  <2>5. CASE Stop
    <3>1. {_inflight[j] : j \in Jobs} \ {0} \subseteq FireIds
      BY DEF TypeOK, LiveFires
    <3> QED
      BY <2>5, <3>1, <1>1 DEF TypeOK, Stop
  <2>6. CASE AgentReady \/ UNCHANGED vars
    BY <2>6, <1>1 DEF TypeOK, AgentReady, vars
  <2>7. CASE Restart
    BY <2>7, <1>1 DEF TypeOK, Restart
  <2> QED
    BY <2>1, <2>2, <2>3, <2>4, <2>5, <2>6, <2>7
<1> QED
  BY <1>2, <1>3, <1>4

LEMMA StepKeepsPInv == PInv /\ [Next]_vars => PInv'
<1> SUFFICES ASSUME PInv, [Next]_vars PROVE PInv'
  OBVIOUS
<1>1. CASE \E f \in FireIds : Proceeds(f)
  BY <1>1, EndKeeps, RunKeeps DEF Proceeds, NotReady, GivesUp, RunEnds, Live
<1>2. CASE \E j \in Jobs : Tick(j)
  BY <1>2, TickKeeps
<1>3. CASE Stopped \/ Crash
  BY <1>3, GoDownKeeps DEF Stopped, Crash
<1>4. CASE \/ \E j \in Jobs : TimePasses(j) \/ Delete(j)
           \/ \E j \in Jobs, verb \in Verbs : CommandReads(verb, j)
           \/ CommandWrites \/ AgentReady \/ Stop \/ Restart \/ UNCHANGED vars
  <2>1. UNCHANGED <<fires, _inflight>>
    BY <1>4 DEF TimePasses, Delete, CommandReads, CommandWrites, AgentReady, Stop,
       Restart, vars
  <2> QED
    BY <1>4, <2>1, UserKeeps
<1> QED
  BY <1>1, <1>2, <1>3, <1>4 DEF Next

-----------------------------------------------------------------------------
THEOREM SchedulerInvariance == Spec => []PInv
BY InitPInv, StepKeepsPInv, PTL DEF Spec

(* The table, the files, the fires and the command keep their types, and   *)
(* what the table has is alive.                                            *)
THEOREM SchedulerTypeCorrect == Spec => []TypeOK
<1>1. PInv => TypeOK
  BY DEF PInv
<1> QED
  BY <1>1, SchedulerInvariance, PTL

(* A job that is not concurrent has one fire at most, and one fire at most *)
(* has the agent, for all jobs, bounds and interleavings.                  *)
THEOREM FiresAreSingle == Spec => []OneFireAtATime
<1>1. PInv => OneFireAtATime
  <2> SUFFICES ASSUME PInv PROVE OneFireAtATime
    OBVIOUS
  <2>1. ASSUME NEW j \in Jobs \ Concurrent PROVE Cardinality(LiveFires(j)) <= 1
    <3>1. LiveFires(j) = {} \/ LiveFires(j) = {_inflight[j]}
      BY DEF PInv, TableTellsAll
    <3>2. Cardinality(LiveFires(j)) = 0 \/ Cardinality(LiveFires(j)) = 1
      BY <3>1, FS_EmptySet, FS_Singleton
    <3> QED
      BY <3>2
  <2> DEFINE R == {f \in FireIds : fires[f].stage = "running"}
  <2>2. R = {} \/ \E f \in R : R = {f}
    BY DEF PInv, OneRuns
  <2>3. Cardinality(R) = 0 \/ Cardinality(R) = 1
    <3> HIDE DEF R
    <3> QED
      BY <2>2, FS_EmptySet, FS_Singleton
  <2> QED
    BY <2>1, <2>3 DEF OneFireAtATime
<1> QED
  BY <1>1, SchedulerInvariance, PTL

(* A stop that completes kills no fire but an overlapping one.             *)
THEOREM StopsDrain == Spec => StopDrains
<1>1. PInv /\ [Next]_vars =>
        [Stopped => \A f \in FireIds : Live(f) => fires[f].job \in Concurrent]_vars
  <2> SUFFICES ASSUME PInv, Stopped, NEW f \in FireIds, Live(f)
               PROVE  fires[f].job \in Concurrent
    OBVIOUS
  <2> DEFINE j == fires[f].job
  <2>1. j \in Jobs /\ f # 0
    <3>1. fires[f] \in Fire
      BY DEF PInv, TypeOK, FireIds
    <3> QED
      BY <3>1 DEF PInv, TypeOK, Fire, FireIds
  <2>2. SUFFICES ASSUME j \notin Concurrent PROVE FALSE
    OBVIOUS
  <2>3. _inflight[j] = f
    BY <2>1, <2>2 DEF PInv, TableTellsAll, LiveFires
  <2> QED
    BY <2>1, <2>3 DEF PInv, AwaitsTheTable, Stopped
<1> QED
  BY <1>1, SchedulerInvariance, PTL DEF Spec, StopDrains

-----------------------------------------------------------------------------
(* How often a job is fired *)

FiresOf(j) == {f \in FireIds : fires[f].job = j}

(* The fire a due job is owed, and the one a command may make it owed: the *)
(* instant the command writes back may be due.                             *)
Owed(j)  == IF app = "up" /\ _inflight[j] = 0 /\ Due(j, file[j]) THEN 1 ELSE 0
Asked(j) == IF command # NoCommand /\ command.job = j THEN 1 ELSE 0

Credit(j) == now[j] + starts - 1 + commands

FiresAreOwed == \A j \in Jobs \ Concurrent :
  Cardinality(FiresOf(j)) + Owed(j) + Asked(j) <= Credit(j)

LEMMA CountsAreNat ==
  ASSUME TypeOK, NEW j \in Jobs
  PROVE  /\ IsFiniteSet(FiresOf(j)) /\ Cardinality(FiresOf(j)) \in Nat
         /\ Owed(j) \in 0..1 /\ Asked(j) \in 0..1
         /\ now[j] \in Nat /\ starts \in Nat \ {0} /\ commands \in Nat
         /\ Credit(j) = now[j] + starts - 1 + commands
<1>1. IsFiniteSet(FireIds)
  BY FS_Interval DEF FireIds, TypeOK
<1>2. IsFiniteSet(FiresOf(j)) /\ Cardinality(FiresOf(j)) \in Nat
  BY <1>1, FS_Subset, FS_CardinalityType DEF FiresOf
<1> QED
  BY <1>2 DEF Owed, Asked, TypeOK, Credit

(* next_fire_time is in the future.                                        *)
LEMMA NextIsNotDue ==
  ASSUME TypeOK, NEW j \in Jobs, NEW r, r.next = next_fire_time(j) \/ r.next = 0
  PROVE  ~Due(j, r)
BY DEF next_fire_time, Due, TypeOK

(* The fires are the same or move on, and no job is owed more than before  *)
(* but by its credit.                                                      *)
LEMMA OwedKeeps ==
  ASSUME TypeOK, TypeOK', FiresAreOwed, FireIds' = FireIds,
         \A f \in FireIds : fires'[f].job = fires[f].job,
         \A j \in Jobs \ Concurrent : Owed(j)' + Asked(j)' - (Owed(j) + Asked(j)) <= Credit(j)' - Credit(j)
  PROVE  FiresAreOwed'
<1> SUFFICES ASSUME NEW j \in Jobs \ Concurrent
             PROVE  Cardinality(FiresOf(j)') + Owed(j)' + Asked(j)' <= Credit(j)'
  BY DEF FiresAreOwed
<1>1. FiresOf(j)' = FiresOf(j)
  BY DEF FiresOf
<1>2. Cardinality(FiresOf(j)) + Owed(j) + Asked(j) <= Credit(j)
  BY DEF FiresAreOwed
<1>3. /\ Cardinality(FiresOf(j)) \in Nat /\ Owed(j) \in 0..1 /\ Asked(j) \in 0..1
      /\ now[j] \in Nat /\ starts \in Nat \ {0} /\ commands \in Nat
      /\ Credit(j) = now[j] + starts - 1 + commands
  BY CountsAreNat
<1>4. /\ Owed(j)' \in 0..1 /\ Asked(j)' \in 0..1
      /\ now'[j] \in Nat /\ starts' \in Nat \ {0} /\ commands' \in Nat
      /\ Credit(j)' = now'[j] + starts' - 1 + commands'
  <2>1. now'[j] \in Nat /\ starts' \in Nat \ {0} /\ commands' \in Nat
    BY DEF TypeOK
  <2> QED
    BY <2>1 DEF Owed, Asked, Credit
<1> QED
  BY <1>1, <1>2, <1>3, <1>4

LEMMA EndOwes ==
  ASSUME PInv, PInv', FiresAreOwed, NEW f \in FireIds, NEW status \in {"ok", "fail"}, Ends(f, status)
  PROVE  FiresAreOwed'
<1> USE DEF PInv
<1> DEFINE i == fires[f].job
<1>1. /\ fires' = [fires EXCEPT ![f].stage = "ended"]
      /\ _inflight' = [_inflight EXCEPT ![i] = 0]
      /\ file' = [file EXCEPT ![i] = After(i, fires[f].copy, status)]
      /\ UNCHANGED <<now, app, ready, awaited, command, commands, starts>>
  BY DEF Ends
<1>2. FireIds' = FireIds /\ \A g \in FireIds : fires'[g].job = fires[g].job
  <2>1. \A g \in FireIds : fires'[g].job = fires[g].job
    BY <1>1, FireMoves
  <2> QED
    BY <1>1, <2>1, FireMoves
<1>3. ASSUME NEW j \in Jobs \ Concurrent
      PROVE  Owed(j)' + Asked(j)' - (Owed(j) + Asked(j)) <= Credit(j)' - Credit(j)
  <2>1. Asked(j)' = Asked(j) /\ Credit(j)' = Credit(j)
    BY <1>1 DEF Asked, Credit
  <2>2. Owed(j)' <= Owed(j)
    <3>1. CASE j = i
      <4>1. After(i, fires[f].copy, status).next = next_fire_time(i)
        BY DEF After
      <4>2. ~Due(j, file[j])'
        BY <1>1, <3>1, <4>1, NextIsNotDue DEF Due, TypeOK
      <4> QED
        BY <4>2, CountsAreNat DEF Owed
    <3>2. CASE j # i
      BY <1>1, <3>2, CountsAreNat DEF Owed, Due, TypeOK
    <3> QED
      BY <3>1, <3>2
  <2>3. Owed(j)' \in 0..1
    BY DEF Owed
  <2> QED
    BY <2>1, <2>2, <2>3, CountsAreNat
<1> QED
  BY <1>2, <1>3, OwedKeeps

LEMMA TickOwes ==
  ASSUME PInv, PInv', FiresAreOwed, NEW i \in Jobs, Tick(i)
  PROVE  FiresAreOwed'
<1> USE DEF PInv
<1>1. CASE file' = [file EXCEPT ![i].next = next_fire_time(i)] /\ UNCHANGED <<fires, _inflight>>
  <2>1. UNCHANGED <<now, app, command, commands, starts>>
    BY DEF Tick
  <2>2. ASSUME NEW j \in Jobs \ Concurrent
        PROVE  Owed(j)' + Asked(j)' - (Owed(j) + Asked(j)) <= Credit(j)' - Credit(j)
    <3>1. Asked(j)' = Asked(j) /\ Credit(j)' = Credit(j)
      BY <2>1 DEF Asked, Credit
    <3>2. CASE j = i
      <4>1. file'[j].next = next_fire_time(j)
        BY <1>1, <3>2 DEF TypeOK, Records
      <4>2. ~Due(j, file[j])'
        BY <2>1, <4>1, NextIsNotDue DEF Due
      <4> QED
        BY <3>1, <4>2, CountsAreNat DEF Owed
    <3>3. CASE j # i
      <4>1. Owed(j)' = Owed(j)
        BY <1>1, <2>1, <3>3 DEF Owed, Due, TypeOK
      <4> QED
        BY <3>1, <4>1, CountsAreNat
    <3> QED
      BY <3>2, <3>3
  <2> QED
    BY <1>1, <2>2, OwedKeeps DEF FireIds
<1>2. CASE Fires(i) /\ Len(fires') = Len(fires) + 1
  <2> DEFINE new == [job |-> i, copy |-> file[i], stage |-> "created"]
             n   == Len(fires) + 1
  <2>1. fires \in Seq(Fire) /\ Len(fires) \in Nat /\ new \in Fire
    BY DEF TypeOK, Fire
  <2>2. /\ app = "up" /\ fires' = Append(fires, new) /\ _inflight' = [_inflight EXCEPT ![i] = n]
        /\ UNCHANGED <<file, now, app, command, commands, starts>>
    BY <1>2, <2>1 DEF Tick
  <2>3. /\ FireIds' = FireIds \cup {n} /\ n \notin FireIds /\ n # 0 /\ fires'[n].job = i
        /\ \A g \in FireIds : fires'[g] = fires[g]
    BY <2>1, <2>2 DEF FireIds
  <2>4. SUFFICES ASSUME NEW j \in Jobs \ Concurrent
                 PROVE  Cardinality(FiresOf(j)') + Owed(j)' + Asked(j)' <= Credit(j)'
    BY DEF FiresAreOwed
  <2>5. Cardinality(FiresOf(j)) + Owed(j) + Asked(j) <= Credit(j)
    BY DEF FiresAreOwed
  <2>6. Asked(j)' = Asked(j) /\ Credit(j)' = Credit(j)
    BY <2>2 DEF Asked, Credit
  <2>7. CASE j = i
    <3>1. FiresOf(j)' = FiresOf(j) \cup {n} /\ n \notin FiresOf(j)
      BY <2>3, <2>7 DEF FiresOf
    <3>2. IsFiniteSet(FiresOf(j))
      BY CountsAreNat
    <3>3. Cardinality(FiresOf(j)') = Cardinality(FiresOf(j)) + 1
      BY <3>1, <3>2, FS_AddElement
    <3>4. Owed(j) = 1 /\ Owed(j)' = 0
      BY <1>2, <2>2, <2>3, <2>7 DEF Owed, Fires, TypeOK
    <3> QED
      BY <2>5, <2>6, <3>3, <3>4, CountsAreNat
  <2>8. CASE j # i
    <3>1. FiresOf(j)' = FiresOf(j)
      BY <2>3, <2>8 DEF FiresOf
    <3>2. Owed(j)' = Owed(j)
      BY <2>2, <2>8 DEF Owed, Due, TypeOK
    <3> QED
      BY <2>5, <2>6, <3>1, <3>2
  <2> QED
    BY <2>7, <2>8
<1> QED
  BY <1>1, <1>2 DEF Tick, TypeOK

LEMMA OthersOwe ==
  ASSUME PInv, PInv', FiresAreOwed,
         \/ \E j \in Jobs : TimePasses(j) \/ Delete(j)
         \/ \E j \in Jobs, verb \in Verbs : CommandReads(verb, j)
         \/ CommandWrites \/ AgentReady \/ Stop \/ Stopped \/ Crash \/ Restart \/ UNCHANGED vars
  PROVE  FiresAreOwed'
<1> USE DEF PInv
<1>1. FireIds' = FireIds /\ \A f \in FireIds : fires'[f].job = fires[f].job
  <2>1. CASE Stopped \/ Crash
    <3>1. fires' = [f \in 1..Len(fires) |->
                      IF Live(f) THEN [fires[f] EXCEPT !.stage = "killed"] ELSE fires[f]]
      BY <2>1 DEF Stopped, Crash, GoDown, Killed, FireIds
    <3>2. Len(fires') = Len(fires)
      BY <3>1 DEF TypeOK
    <3>3. \A f \in 1..Len(fires) : fires[f] \in Fire
      BY DEF TypeOK
    <3>4. \A f \in 1..Len(fires) : fires'[f].job = fires[f].job
      BY <3>1, <3>3 DEF Fire
    <3> QED
      BY <3>2, <3>4 DEF FireIds
  <2>2. CASE ~(Stopped \/ Crash)
    BY <2>2 DEF TimePasses, Delete, CommandReads, CommandWrites, AgentReady, Stop, Restart, vars, FireIds
  <2> QED
    BY <2>1, <2>2
<1>2. ASSUME NEW j \in Jobs \ Concurrent
      PROVE  Owed(j)' + Asked(j)' - (Owed(j) + Asked(j)) <= Credit(j)' - Credit(j)
  <2>1. /\ Owed(j) \in 0..1 /\ Asked(j) \in 0..1
        /\ now[j] \in Nat /\ starts \in Nat /\ commands \in Nat
    BY CountsAreNat
  <2>2. Owed(j)' \in 0..1 /\ Asked(j)' \in 0..1
    BY DEF Owed, Asked
  <2>3. ASSUME NEW i \in Jobs, TimePasses(i)
        PROVE  Owed(j)' + Asked(j)' - (Owed(j) + Asked(j)) <= Credit(j)' - Credit(j)
    <3>1. Asked(j)' = Asked(j)
      BY <2>3 DEF TimePasses, Asked
    <3>2. CASE j = i
      <4>1. Credit(j)' = Credit(j) + 1
        BY <2>1, <2>3, <3>2 DEF TimePasses, Credit, TypeOK
      <4> QED
        BY <2>1, <2>2, <3>1, <4>1 DEF Credit
    <3>3. CASE j # i
      <4>1. Credit(j)' = Credit(j) /\ Owed(j)' = Owed(j)
        BY <2>3, <3>3 DEF TimePasses, Credit, Owed, Due, TypeOK
      <4> QED
        BY <2>1, <3>1, <4>1 DEF Credit
    <3> QED
      BY <3>2, <3>3
  <2>4. ASSUME NEW i \in Jobs, Delete(i)
        PROVE  Owed(j)' + Asked(j)' - (Owed(j) + Asked(j)) <= Credit(j)' - Credit(j)
    <3>1. Asked(j)' = Asked(j) /\ Credit(j)' = Credit(j) + 1
      BY <2>1, <2>4 DEF Delete, Asked, Credit
    <3> QED
      BY <2>1, <2>2, <3>1 DEF Credit
  <2>5. ASSUME NEW i \in Jobs, NEW verb \in Verbs, CommandReads(verb, i)
        PROVE  Owed(j)' + Asked(j)' - (Owed(j) + Asked(j)) <= Credit(j)' - Credit(j)
    <3>1. Owed(j)' = Owed(j) /\ Credit(j)' = Credit(j) + 1
      BY <2>1, <2>5 DEF CommandReads, Owed, Due, Credit
    <3> QED
      BY <2>1, <2>2, <3>1 DEF Credit
  <2>6. CASE CommandWrites
    <3>1. Credit(j)' = Credit(j) /\ command # NoCommand /\ command' = NoCommand
      BY <2>6 DEF CommandWrites, Credit
    <3>2. CASE command.job = j
      BY <2>1, <2>2, <3>1, <3>2 DEF Asked, Credit
    <3>3. CASE command.job # j
      <4>1. Asked(j)' = 0 /\ Asked(j) = 0 /\ Owed(j)' = Owed(j)
        BY <2>6, <3>3 DEF Asked, CommandWrites, Owed, Due, TypeOK
      <4> QED
        BY <2>1, <3>1, <4>1 DEF Credit
    <3> QED
      BY <3>2, <3>3
  <2>7. CASE Stop \/ Stopped \/ Crash
    <3>1. Credit(j)' = Credit(j) /\ Owed(j)' = 0 /\ Asked(j)' = 0
      BY <2>7 DEF Stop, Stopped, Crash, GoDown, Credit, Owed, Asked
    <3> QED
      BY <2>1, <3>1 DEF Credit
  <2>8. CASE Restart
    <3>1. Credit(j)' = Credit(j) + 1 /\ Asked(j)' = Asked(j)
      BY <2>1, <2>8 DEF Restart, Credit, Asked
    <3> QED
      BY <2>1, <2>2, <3>1 DEF Credit
  <2>9. CASE AgentReady \/ UNCHANGED vars
    <3>1. Credit(j)' = Credit(j) /\ Asked(j)' = Asked(j) /\ Owed(j)' = Owed(j)
      BY <2>9 DEF AgentReady, vars, Credit, Asked, Owed, Due
    <3> QED
      BY <2>1, <3>1 DEF Credit
  <2> QED
    BY <2>3, <2>4, <2>5, <2>6, <2>7, <2>8, <2>9
<1> QED
  BY <1>1, <1>2, OwedKeeps

LEMMA StepOwes == PInv /\ FiresAreOwed /\ [Next]_vars => FiresAreOwed'
<1> SUFFICES ASSUME PInv, FiresAreOwed, [Next]_vars PROVE FiresAreOwed'
  OBVIOUS
<1>1. PInv'
  BY StepKeepsPInv
<1>2. ASSUME NEW f \in FireIds, Proceeds(f) PROVE FiresAreOwed'
  <2>1. CASE Runs(f)
    <3>1. fires' = [fires EXCEPT ![f].stage = "running"]
          /\ UNCHANGED <<file, now, app, _inflight, command, commands, starts>>
      BY <2>1 DEF Runs
    <3>2. FireIds' = FireIds
      BY <3>1, FireMoves DEF PInv
    <3>3. \A g \in FireIds : fires'[g].job = fires[g].job
      BY <3>1, FireMoves DEF PInv
    <3>4. \A j \in Jobs : Owed(j)' = Owed(j) /\ Asked(j)' = Asked(j) /\ Credit(j)' = Credit(j)
      BY <3>1 DEF Owed, Asked, Credit, Due
    <3>5. \A j \in Jobs : Owed(j) \in Int /\ Asked(j) \in Int /\ Credit(j) \in Int
      BY CountsAreNat DEF PInv
    <3> QED
      BY <1>1, <3>2, <3>3, <3>4, <3>5, OwedKeeps DEF PInv
  <2>2. CASE ~Runs(f)
    BY <1>1, <1>2, <2>2, EndOwes DEF Proceeds, NotReady, GivesUp, RunEnds
  <2> QED
    BY <2>1, <2>2
<1>3. CASE \E j \in Jobs : Tick(j)
  BY <1>1, <1>3, TickOwes
<1>4. CASE \/ \E j \in Jobs : TimePasses(j) \/ Delete(j)
           \/ \E j \in Jobs, verb \in Verbs : CommandReads(verb, j)
           \/ CommandWrites \/ AgentReady \/ Stop \/ Stopped \/ Crash \/ Restart \/ UNCHANGED vars
  BY <1>1, <1>4, OthersOwe
<1> QED
  BY <1>2, <1>3, <1>4 DEF Next

(* A job that is not concurrent is fired once per instant, and again only  *)
(* for a restart or a command, for all jobs, bounds and interleavings.     *)
THEOREM FiresAreCounted == Spec => []FiresPerInstant
<1>1. Init => PInv /\ FiresAreOwed
  <2> SUFFICES ASSUME Init PROVE FiresAreOwed
    BY InitPInv
  <2>1. ASSUME NEW j \in Jobs
        PROVE  Cardinality(FiresOf(j)) + Owed(j) + Asked(j) <= Credit(j)
    <3>1. FiresOf(j) = {} /\ Asked(j) = 0
      BY DEF Init, FiresOf, FireIds, Asked
    <3>2. Owed(j) <= now[j] /\ now[j] \in 0..1 /\ Owed(j) \in 0..1
      BY DEF Init, Owed, Due
    <3>3. Credit(j) = now[j]
      BY <3>2 DEF Init, Credit
    <3> QED
      BY <3>1, <3>2, <3>3, FS_EmptySet
  <2> QED
    BY <2>1 DEF FiresAreOwed
<1>2. PInv /\ FiresAreOwed => FiresPerInstant
  <2> SUFFICES ASSUME PInv, FiresAreOwed, NEW j \in Jobs \ Concurrent
               PROVE  Cardinality(FiresOf(j)) <= Credit(j)
    BY DEF FiresPerInstant, FiresOf, Credit
  <2>1. Cardinality(FiresOf(j)) + Owed(j) + Asked(j) <= Credit(j)
    BY DEF FiresAreOwed
  <2> QED
    BY <2>1, CountsAreNat DEF PInv, Credit
<1> QED
  BY <1>1, <1>2, StepKeepsPInv, StepOwes, PTL DEF Spec
=============================================================================
