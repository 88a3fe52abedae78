--------------------------- MODULE TurnLoopProofs ---------------------------
(***************************************************************************)
(* For every number of messages and interrupts: the flags of the turn loop *)
(* keep their types and always have an owner, a message is in one place at *)
(* a time, and what the drain starts it starts in the order it was typed.  *)
(***************************************************************************)
EXTENDS TurnLoop, SequenceTheorems, InductionFacts

TInv == TypeOK /\ FlagsOwned

(* The initial prompt has no handler before the server is ready.           *)
InitialWaits == initial = "waiting" => handler["initial"] = Idle

(* What the queue, the handlers and the drain's flag keep in any step.     *)
QueueTyped ==
  /\ pending \in Seq(Messages)
  /\ processing \in BOOLEAN /\ on_pump \in BOOLEAN
  /\ handler \in [Handlers -> {Idle} \cup Handlings]
  /\ processing <=> handler["drain"] # Idle

USE MaxMessagesAssumption, MaxInterruptsAssumption
USE DEF Stages, Modes, QueuedModes, UserModes, Displaced

-----------------------------------------------------------------------------
LEMMA PopTyped ==
  ASSUME NEW queue \in Seq(Messages), queue # << >>
  PROVE  popleft(queue).msg \in Messages /\ popleft(queue).rest \in Seq(Messages)
BY HeadTailProperties DEF popleft

LEMMA AtTyped ==
  ASSUME NEW m \in Messages, NEW s \in {"awaiting", "reading", "compacting", "compacted"}
  PROVE  At(s, m) \in Handlings /\ At(s, m) # Idle /\ At(s, m).stage = s
BY DEF At, Handlings, Idle

(* Message i of the queue as the user rewrites it.                         *)
Rewritten(queue, i) == [queue EXCEPT ![i].mode = IF @ = "raw" THEN "edited" ELSE @]

LEMMA RewrittenTyped ==
  ASSUME NEW q \in Seq(Messages), NEW i \in DOMAIN q
  PROVE  /\ Rewritten(q, i) \in Seq(Messages) /\ Len(Rewritten(q, i)) = Len(q)
         /\ Rewritten(q, i)[i].id = q[i].id
         /\ Rewritten(q, i)[i].mode \in {q[i].mode, "edited"}
         /\ \A j \in 1..Len(q) : j # i => Rewritten(q, i)[j] = q[j]
<1> DEFINE new == [q[i] EXCEPT !.mode = IF @ = "raw" THEN "edited" ELSE @]
<1>1. new \in Messages /\ new.id = q[i].id /\ new.mode \in {q[i].mode, "edited"}
  <2>1. q[i] \in Messages
    OBVIOUS
  <2> QED
    BY <2>1 DEF Messages
<1>2. Rewritten(q, i) = [q EXCEPT ![i] = new]
  BY DEF Rewritten
<1> HIDE DEF new
<1>3. /\ [q EXCEPT ![i] = new] \in Seq(Messages) /\ Len([q EXCEPT ![i] = new]) = Len(q)
      /\ [q EXCEPT ![i] = new][i] = new
      /\ \A j \in 1..Len(q) : j # i => [q EXCEPT ![i] = new][j] = q[j]
  BY <1>1, ExceptSeq
<1> QED
  BY <1>1, <1>2, <1>3

LEMMA WithoutTyped ==
  ASSUME NEW q \in Seq(Messages), NEW i \in DOMAIN q
  PROVE  /\ Without(q, i) \in Seq(Messages) /\ Len(Without(q, i)) = Len(q) - 1
         /\ \A j \in 1..(Len(q) - 1) : Without(q, i)[j] = IF j < i THEN q[j] ELSE q[j + 1]
<1>1. Len(q) \in Nat /\ i \in 1..Len(q) /\ Len(q) - 1 \in Nat
  OBVIOUS
<1>2. \A j \in 1..(Len(q) - 1) : (IF j < i THEN q[j] ELSE q[j + 1]) \in Messages
  BY <1>1
<1> QED
  BY <1>1, <1>2 DEF Without

(* A handler in the middle of a message has that message.                  *)
LEMMA MessageInHand ==
  ASSUME TypeOK, NEW h \in Handlers, NEW s, s # "idle", handler[h].stage = s
  PROVE  handler[h] \in Handlings /\ handler[h].msg \in Messages /\ handler[h] # Idle
BY DEF TypeOK, Handlings, Idle

(* A drain that starts takes a message ...                                 *)
LEMMA TakenUp ==
  ASSUME TypeOK, FlagsOwned, NEW pump \in BOOLEAN, NEW queue \in Seq(Messages),
         ~processing, queue # << >>, TakeUp(queue, pump)
  PROVE  /\ QueueTyped'
         /\ \A h \in Handlers : handler'[h].stage = "compacting" <=> handler[h].stage = "compacting"
<1> DEFINE m == popleft(queue).msg
<1>1. m \in Messages /\ popleft(queue).rest \in Seq(Messages)
  BY PopTyped
<1>2. /\ processing' = TRUE /\ pending' = popleft(queue).rest /\ on_pump' = pump
      /\ handler' = [handler EXCEPT !["drain"] = At("awaiting", m)]
  BY DEF TakeUp
<1>3. handler["drain"] = Idle
  BY DEF FlagsOwned
<1> HIDE DEF m
<1>4. At("awaiting", m) \in Handlings /\ At("awaiting", m) # Idle
      /\ At("awaiting", m).stage = "awaiting"
  BY <1>1, AtTyped
<1> QED
  BY <1>1, <1>2, <1>3, <1>4 DEF QueueTyped, TypeOK, Handlers, Idle

(* ... or nothing happens.                                                 *)
LEMMA DrainStarts ==
  ASSUME TypeOK, FlagsOwned, NEW pump \in BOOLEAN, _process_next_from_queue(pump)
  PROVE  /\ QueueTyped'
         /\ \A h \in Handlers : handler'[h].stage = "compacting" <=> handler[h].stage = "compacting"
<1>1. CASE processing \/ pending = << >>
  BY <1>1 DEF _process_next_from_queue, QueueTyped, TypeOK, FlagsOwned
<1>2. CASE ~(processing \/ pending = << >>)
  BY <1>2, TakenUp DEF _process_next_from_queue, TypeOK
<1> QED
  BY <1>1, <1>2

(* A handler that returns is idle, or is the drain with its next message.  *)
LEMMA ReturnKeeps ==
  ASSUME TypeOK, FlagsOwned, NEW h \in Handlers, NEW queue \in Seq(Messages),
         handler[h] # Idle, handler[h].stage # "compacting", Return(h, queue)
  PROVE  /\ QueueTyped'
         /\ \A g \in Handlers : handler'[g].stage = "compacting" <=> handler[g].stage = "compacting"
<1>1. CASE h # "drain"
  <2>1. /\ pending' = queue /\ UNCHANGED <<processing, on_pump>>
        /\ handler' = [handler EXCEPT ![h] = Idle]
    BY <1>1 DEF Return
  <2>2. handler'[h] = Idle /\ Idle.stage # "compacting"
    BY <2>1 DEF TypeOK, Idle
  <2>3. \A g \in Handlers : g # h => handler'[g] = handler[g]
    BY <2>1 DEF TypeOK
  <2>4. handler' \in [Handlers -> {Idle} \cup Handlings]
    BY <2>1 DEF TypeOK
  <2> QED
    BY <1>1, <2>1, <2>2, <2>3, <2>4 DEF QueueTyped, TypeOK, FlagsOwned, Handlers
<1>2. CASE h = "drain" /\ (agent_running' \/ shell_running' \/ queue = << >>)
  <2>1. /\ pending' = queue /\ processing' = FALSE /\ on_pump' = FALSE
        /\ handler' = [handler EXCEPT !["drain"] = Idle]
    BY <1>2 DEF Return, DrainEnds
  <2>2. handler'["drain"] = Idle /\ Idle.stage # "compacting"
    BY <2>1 DEF TypeOK, Idle, Handlers
  <2>3. \A g \in Handlers : g # h => handler'[g] = handler[g]
    BY <1>2, <2>1 DEF TypeOK
  <2>4. handler' \in [Handlers -> {Idle} \cup Handlings]
    BY <2>1 DEF TypeOK
  <2> QED
    BY <1>2, <2>1, <2>2, <2>3, <2>4 DEF QueueTyped
<1>3. CASE h = "drain" /\ ~(agent_running' \/ shell_running') /\ queue # << >>
  <2> DEFINE m == popleft(queue).msg
  <2>1. m \in Messages /\ popleft(queue).rest \in Seq(Messages)
    BY <1>3, PopTyped
  <2>2. /\ UNCHANGED <<processing, on_pump>> /\ pending' = popleft(queue).rest
        /\ handler' = [handler EXCEPT !["drain"] = At("awaiting", m)]
    BY <1>3 DEF Return, DrainEnds
  <2> HIDE DEF m
  <2>3. At("awaiting", m) \in Handlings /\ At("awaiting", m) # Idle
        /\ At("awaiting", m).stage = "awaiting"
    BY <2>1, AtTyped
  <2> QED
    BY <1>3, <2>1, <2>2, <2>3 DEF QueueTyped, TypeOK, FlagsOwned, Handlers
<1> QED
  BY <1>1, <1>2, <1>3

(* A task that starts runs, beside those there are.                        *)
LEMMA StartKeeps ==
  ASSUME TypeOK, NEW kind \in {"agent", "session", "shell"}, NEW m \in Messages,
         NEW by \in Handlers \cup {"background"}, Start(kind, m, by)
  PROVE  /\ tasks' \in Seq(TaskRecords) /\ NewId \notin TaskIds
         /\ TaskIds' = TaskIds \cup {NewId} /\ NewId \in TaskIds'
         /\ tasks'[NewId].kind = kind /\ tasks'[NewId].stage = "created"
         /\ \A t \in TaskIds : tasks'[t] = tasks[t]
<1> DEFINE new == NewTask(kind, m, by)
<1>1. new \in TaskRecords /\ new.kind = kind /\ new.stage = "created"
  BY DEF NewTask, TaskRecords, Messages
<1>2. tasks \in Seq(TaskRecords) /\ tasks' = Append(tasks, new)
  BY DEF TypeOK, Start
<1> HIDE DEF new
<1> QED
  BY <1>1, <1>2 DEF TaskIds, NewId

(* A task that moves on stays a task of its kind, and the others stand.    *)
LEMMA StageKeeps ==
  ASSUME TypeOK, NEW t \in TaskIds,
         NEW s \in Stages,
         Stage(t, s)
  PROVE  /\ tasks' \in Seq(TaskRecords) /\ TaskIds' = TaskIds
         /\ \A u \in TaskIds : /\ tasks'[u].kind = tasks[u].kind
                               /\ u # t => tasks'[u] = tasks[u]
         /\ tasks'[t].stage = s
<1> DEFINE new == [tasks[t] EXCEPT !.stage = s]
<1>1. tasks \in Seq(TaskRecords) /\ tasks[t] \in TaskRecords
  BY DEF TypeOK, TaskIds
<1>2. new \in TaskRecords /\ new.kind = tasks[t].kind /\ new.stage = s
  BY <1>1 DEF TaskRecords
<1>3. tasks' = [tasks EXCEPT ![t] = new]
  BY DEF Stage
<1> HIDE DEF new
<1>4. /\ tasks' \in Seq(TaskRecords) /\ Len(tasks') = Len(tasks) /\ tasks'[t] = new
      /\ \A u \in TaskIds \ {t} : tasks'[u] = tasks[u]
  BY <1>1, <1>2, <1>3, ExceptSeq DEF TaskIds
<1> QED
  BY <1>2, <1>4 DEF TaskIds

-----------------------------------------------------------------------------
(* The types of the flags and the tasks, and the owners of the flags.      *)
FlagsTyped ==
  /\ tasks \in Seq(TaskRecords)
  /\ agent_running \in BOOLEAN /\ shell_running \in BOOLEAN
  /\ agent_worker \in {NoTask} \cup {t \in TaskIds : tasks[t].kind \in {"agent", "session"}}
  /\ shell_worker \in {NoTask} \cup {t \in TaskIds : tasks[t].kind = "shell"}

Owned ==
  /\ agent_worker # NoTask =>
       tasks[agent_worker].stage \in {"created", "running", "finalising", "lost"}
  /\ AgentWedged => \E t \in TaskIds : /\ tasks[t].kind \in {"agent", "session"}
                                       /\ tasks[t].stage = "lost"
  /\ ShellWedged => \E t \in TaskIds : tasks[t].kind = "shell" /\ tasks[t].stage = "lost"

Rest ==
  /\ server \in {"connecting", "ready", "failed"}
  /\ initial \in {"none", "waiting", "handling", "begun", "dropped"}
  /\ sent \in 0..MaxMessages /\ interrupts \in 0..MaxInterrupts

LEMMA Parts == QueueTyped' /\ FlagsTyped' /\ Owned' /\ Rest' => TInv'
BY DEF TInv, TypeOK, FlagsOwned, QueueTyped, FlagsTyped, Owned, Rest

(* The handlers that compact are those there were.                         *)
SameCompacting ==
  \A h \in Handlers : handler'[h].stage = "compacting" <=> handler[h].stage = "compacting"

LEMMA FlagsStand ==
  ASSUME TInv, SameCompacting, UNCHANGED <<flags, tasks>>
  PROVE  FlagsTyped' /\ Owned'
<1>1. Compacting' <=> Compacting
  BY DEF SameCompacting, Compacting
<1>2. (AgentWedged' <=> AgentWedged) /\ (ShellWedged' <=> ShellWedged)
  BY <1>1 DEF AgentWedged, ShellWedged, Turns, TaskIds, flags
<1> QED
  BY <1>2 DEF TInv, TypeOK, FlagsOwned, FlagsTyped, Owned, TaskIds, flags

(* A turn starts, and becomes the one the flag belongs to.                 *)
LEMMA AgentStarts ==
  ASSUME TInv, NEW kind \in {"agent", "session"}, NEW m \in Messages,
         NEW by \in Handlers \cup {"background"},
         Start(kind, m, by), begin_agent(NewId), ShellUnchanged
  PROVE  FlagsTyped' /\ Owned'
<1>1. TypeOK /\ FlagsOwned
  BY DEF TInv
<1>2. /\ tasks' \in Seq(TaskRecords) /\ NewId \notin TaskIds
      /\ TaskIds' = TaskIds \cup {NewId} /\ NewId \in TaskIds'
      /\ tasks'[NewId].kind = kind /\ tasks'[NewId].stage = "created"
      /\ \A t \in TaskIds : tasks'[t] = tasks[t]
  BY <1>1, StartKeeps
<1>3. agent_running' = TRUE /\ agent_worker' = NewId /\ UNCHANGED <<shell_running, shell_worker>>
  BY DEF begin_agent, ShellUnchanged
<1>4. FlagsTyped'
  BY <1>1, <1>2, <1>3 DEF TypeOK, FlagsTyped
<1>5. ~AgentWedged'
  BY <1>2 DEF AgentWedged, Turns
<1>6. ShellWedged' => ShellWedged
  BY <1>2, <1>3 DEF ShellWedged
<1> QED
  BY <1>1, <1>2, <1>3, <1>4, <1>5, <1>6 DEF FlagsOwned, Owned

LEMMA ShellStarts ==
  ASSUME TInv, NEW m \in Messages, NEW by \in Handlers, SameCompacting,
         Start("shell", m, by), begin_shell(NewId), AgentUnchanged
  PROVE  FlagsTyped' /\ Owned'
<1>1. TypeOK /\ FlagsOwned
  BY DEF TInv
<1>2. /\ tasks' \in Seq(TaskRecords) /\ NewId \notin TaskIds
      /\ TaskIds' = TaskIds \cup {NewId} /\ NewId \in TaskIds'
      /\ tasks'[NewId].kind = "shell" /\ tasks'[NewId].stage = "created"
      /\ \A t \in TaskIds : tasks'[t] = tasks[t]
  BY <1>1, StartKeeps
<1>3. shell_running' = TRUE /\ shell_worker' = NewId /\ UNCHANGED <<agent_running, agent_worker>>
  BY DEF begin_shell, AgentUnchanged
<1>4. FlagsTyped'
  BY <1>1, <1>2, <1>3 DEF TypeOK, FlagsTyped
<1>5. AgentWedged' => AgentWedged
  BY <1>2, <1>3 DEF AgentWedged, Turns, Compacting, SameCompacting
<1>6. ~ShellWedged'
  BY <1>2 DEF ShellWedged
<1> QED
  BY <1>1, <1>2, <1>3, <1>4, <1>5, <1>6 DEF TypeOK, FlagsOwned, Owned

(* A turn ends and lowers the flag, its own or another's.                  *)
LEMMA AgentLowers ==
  ASSUME TInv, NEW t \in TaskIds, tasks[t].kind # "shell",
         NEW s \in Stages,
         Stage(t, s), end_agent, ShellUnchanged
  PROVE  FlagsTyped' /\ Owned'
<1>1. TypeOK /\ FlagsOwned
  BY DEF TInv
<1>2. /\ tasks' \in Seq(TaskRecords) /\ TaskIds' = TaskIds
      /\ \A u \in TaskIds : /\ tasks'[u].kind = tasks[u].kind
                            /\ u # t => tasks'[u] = tasks[u]
  BY <1>1, StageKeeps
<1>3. agent_running' = FALSE /\ agent_worker' = NoTask /\ UNCHANGED <<shell_running, shell_worker>>
  BY DEF end_agent, ShellUnchanged
<1>4. FlagsTyped'
  BY <1>1, <1>2, <1>3 DEF TypeOK, FlagsTyped
<1>5. ~AgentWedged'
  BY <1>3 DEF AgentWedged
<1>6. ShellWedged' => ShellWedged
  BY <1>2, <1>3 DEF ShellWedged
<1> QED
  BY <1>1, <1>2, <1>3, <1>4, <1>5, <1>6 DEF FlagsOwned, Owned

(* A task moves on without the flags: to where it owns them as before, or  *)
(* from where it did not own them.                                         *)
LEMMA TaskMoves ==
  ASSUME TInv, SameCompacting, NEW t \in TaskIds,
         NEW s \in Stages,
         Stage(t, s), AgentUnchanged, tasks[t].stage = "lost" => s = "lost",
         \/ s = "lost"
         \/ tasks[t].stage \in {"created", "running"} /\ s \in {"running", "finalising"}
         \/ tasks[t].kind = "shell"
         \/ tasks[t].stage = "cleaning" /\ tasks[t].kind # "agent"
         \/ s = tasks[t].stage,
         \/ shell_running' = FALSE /\ shell_worker' = NoTask
         \/ ShellUnchanged /\ \/ tasks[t].kind # "shell"
                              \/ tasks[t].stage \notin {"created", "running", "cancelled"}
                              \/ s \in {"created", "running", "cancelled", "lost"}
  PROVE  FlagsTyped' /\ Owned'
<1>1. TypeOK /\ FlagsOwned
  BY DEF TInv
<1>2. /\ tasks' \in Seq(TaskRecords) /\ TaskIds' = TaskIds
      /\ \A u \in TaskIds : /\ tasks'[u].kind = tasks[u].kind
                            /\ u # t => tasks'[u] = tasks[u]
      /\ tasks'[t].stage = s
  BY <1>1, StageKeeps
<1>3. UNCHANGED <<agent_running, agent_worker>>
  BY DEF AgentUnchanged
<1>4. FlagsTyped'
  BY <1>1, <1>2, <1>3 DEF TypeOK, FlagsTyped, ShellUnchanged
<1>5. agent_worker' # NoTask =>
        tasks'[agent_worker'].stage \in {"created", "running", "finalising", "lost"}
  BY <1>1, <1>2, <1>3 DEF TypeOK, FlagsOwned
<1>6. AgentWedged' => \E u \in TaskIds' : /\ tasks'[u].kind \in {"agent", "session"}
                                           /\ tasks'[u].stage = "lost"
  <2>1. CASE s = "lost" /\ tasks[t].kind \in {"agent", "session"}
    BY <2>1, <1>2
  <2>2. CASE ~(s = "lost" /\ tasks[t].kind \in {"agent", "session"})
    <3>1. Compacting' <=> Compacting
      BY DEF SameCompacting, Compacting
    <3>2. AgentWedged' => AgentWedged
      BY <2>2, <1>2, <1>3, <3>1 DEF AgentWedged, Turns
    <3> QED
      BY <2>2, <3>2, <1>1, <1>2 DEF FlagsOwned
  <2> QED
    BY <2>1, <2>2
<1>7. ShellWedged' => \E u \in TaskIds' : tasks'[u].kind = "shell" /\ tasks'[u].stage = "lost"
  <2>1. CASE shell_running' = FALSE
    BY <2>1 DEF ShellWedged
  <2>2. CASE s = "lost" /\ tasks[t].kind = "shell"
    BY <2>2, <1>2
  <2>3. CASE ShellUnchanged /\ ~(s = "lost" /\ tasks[t].kind = "shell")
    <3>1. ShellWedged' => ShellWedged
      BY <2>3, <1>2 DEF ShellWedged, ShellUnchanged
    <3> QED
      BY <2>3, <3>1, <1>1, <1>2 DEF FlagsOwned
  <2> QED
    BY <2>1, <2>2, <2>3
<1> QED
  BY <1>4, <1>5, <1>6, <1>7 DEF Owned

-----------------------------------------------------------------------------
(* The actions *)

LEMMA InitTInv == Init => TInv /\ InitialWaits
<1> SUFFICES ASSUME Init PROVE TInv /\ InitialWaits
  OBVIOUS
<1>1. pending \in Seq(Messages) /\ tasks \in Seq(TaskRecords) /\ TaskIds = {}
  BY DEF Init, TaskIds
<1>2. TypeOK
  <2>1. sent \in 0..MaxMessages /\ interrupts \in 0..MaxInterrupts
    BY DEF Init
  <2>2. initial \in {"none", "waiting"} /\ handler \in [Handlers -> {Idle} \cup Handlings]
    BY DEF Init
  <2> QED
    BY <1>1, <2>1, <2>2 DEF Init, TypeOK
<1>3. FlagsOwned
  BY <1>1 DEF Init, FlagsOwned, AgentWedged, ShellWedged, Handlers
<1>4. InitialWaits
  BY DEF Init, InitialWaits, Handlers
<1> QED
  BY <1>2, <1>3, <1>4 DEF TInv

LEMMA SubmitKeeps == ASSUME TInv, NEW mode \in Modes, Submit(mode) PROVE TInv'
<1> DEFINE m == NewMessage(mode)
<1>1. m \in Messages /\ sent' \in 0..MaxMessages
  BY DEF NewMessage, Messages, Submit, TInv, TypeOK
<1> HIDE DEF m
<1>2. At("awaiting", m) \in Handlings /\ At("awaiting", m) # Idle
      /\ At("awaiting", m).stage = "awaiting"
  BY <1>1, AtTyped
<1>3. UNCHANGED <<server, initial, flags, processing, on_pump, tasks, interrupts>>
      /\ handler["pump"] = Idle
  BY DEF Submit, PumpFree
<1>4. \/ pending' = Append(pending, m) /\ handler' = handler
      \/ pending' = pending /\ handler' = [handler EXCEPT !["pump"] = At("awaiting", m)]
  BY DEF Submit, m
<1>5. QueueTyped' /\ SameCompacting
  <2>1. CASE pending' = Append(pending, m) /\ handler' = handler
    BY <2>1, <1>1, <1>3 DEF QueueTyped, SameCompacting, TInv, TypeOK, FlagsOwned
  <2>2. CASE pending' = pending /\ handler' = [handler EXCEPT !["pump"] = At("awaiting", m)]
    <3>1. \A h \in Handlers : h # "pump" => handler'[h] = handler[h]
      BY <2>2 DEF TInv, TypeOK
    <3>2. handler'["pump"] = At("awaiting", m) /\ handler["pump"].stage # "compacting"
      BY <2>2, <1>3 DEF TInv, TypeOK, Idle, Handlers
    <3>3. handler' \in [Handlers -> {Idle} \cup Handlings]
      BY <2>2, <1>2 DEF TInv, TypeOK
    <3> QED
      BY <2>2, <1>2, <1>3, <3>1, <3>2, <3>3
         DEF QueueTyped, SameCompacting, TInv, TypeOK, FlagsOwned, Handlers
  <2> QED
    BY <1>4, <2>1, <2>2
<1>6. Rest'
  BY <1>1, <1>3 DEF Rest, TInv, TypeOK
<1>7. UNCHANGED <<flags, tasks>>
  BY <1>3
<1> QED
  BY <1>5, <1>6, <1>7, FlagsStand, Parts DEF TInv

(* A background prompt waits in the queue, or starts a turn.               *)
LEMMA BackgroundKeeps == ASSUME TInv, BackgroundPrompt PROVE TInv'
<1> DEFINE m == NewMessage("raw")
           n == NewMessage("normal")
<1>1. m \in Messages /\ n \in Messages /\ sent' \in 0..MaxMessages
  BY DEF NewMessage, Messages, BackgroundPrompt, TInv, TypeOK
<1>2. UNCHANGED <<server, initial, processing, handler, on_pump, interrupts>> /\ ShellUnchanged
  BY DEF BackgroundPrompt
<1>3. \/ /\ pending' = Append(pending, m) \/ pending' = Append(pending, n)
         /\ UNCHANGED <<agent_running, agent_worker, tasks>>
      \/ pending' = pending /\ Start("agent", m, "background") /\ begin_agent(NewId)
  BY DEF BackgroundPrompt
<1> HIDE DEF m, n
<1>4. pending' \in Seq(Messages)
  <2>1. pending \in Seq(Messages)
    BY DEF TInv, TypeOK
  <2>2. pending' \in {pending, Append(pending, m), Append(pending, n)}
    BY <1>3
  <2> QED
    BY <1>1, <2>1, <2>2
<1>5. QueueTyped' /\ SameCompacting /\ Rest'
  BY <1>1, <1>2, <1>4 DEF QueueTyped, SameCompacting, Rest, TInv, TypeOK, FlagsOwned
<1>6. FlagsTyped' /\ Owned'
  <2>1. CASE UNCHANGED <<agent_running, agent_worker, tasks>>
    BY <2>1, <1>2, <1>5, FlagsStand DEF ShellUnchanged, flags
  <2>2. CASE Start("agent", m, "background") /\ begin_agent(NewId)
    BY <2>2, <1>1, <1>2, AgentStarts
  <2> QED
    BY <1>3, <2>1, <2>2
<1> QED
  BY <1>5, <1>6, Parts

(* The prompts of other sessions are queued, and one is taken up.          *)
Pulled(n) == [i \in 1..n |-> [id |-> sent + i, mode |-> "normal"]]

LEMMA PollKeeps == ASSUME TInv, PollSessionQueue PROVE TInv'
<1>a. TypeOK /\ FlagsOwned
  BY DEF TInv
<1>1. PICK n \in 1..(MaxMessages - sent) :
        /\ sent' = sent + n /\ UNCHANGED <<server, initial, flags, tasks, interrupts>>
        /\ \/ /\ processing /\ pending' = Pulled(n)
              /\ UNCHANGED <<processing, handler, on_pump>>
           \/ ~processing /\ \E pump \in BOOLEAN : TakeUp(Pulled(n), pump)
  BY DEF PollSessionQueue, Pulled
<1>2. n \in Nat /\ sent \in Nat /\ 0 < n /\ sent + n \in 0..MaxMessages
  BY <1>a DEF TypeOK
<1>3. Pulled(n) \in Seq(Messages) /\ Pulled(n) # << >>
  <2>1. \A i \in 1..n : [id |-> sent + i, mode |-> "normal"] \in Messages
    BY <1>2 DEF Messages
  <2>2. Pulled(n) \in Seq(Messages) /\ Len(Pulled(n)) = n
    BY <1>2, <2>1 DEF Pulled
  <2> QED
    BY <1>2, <2>2
<1>4. QueueTyped' /\ SameCompacting
  <2>1. CASE processing /\ pending' = Pulled(n) /\ UNCHANGED <<processing, handler, on_pump>>
    BY <1>a, <1>3, <2>1 DEF QueueTyped, SameCompacting, TypeOK, FlagsOwned
  <2>2. CASE ~processing /\ \E pump \in BOOLEAN : TakeUp(Pulled(n), pump)
    BY <1>a, <1>3, <2>2, TakenUp DEF SameCompacting
  <2> QED
    BY <1>1, <2>1, <2>2
<1>5. Rest'
  BY <1>a, <1>1, <1>2 DEF Rest, TypeOK
<1> QED
  BY <1>1, <1>4, <1>5, FlagsStand, Parts

(* The pieces of a handler's step: its message is typed, and so is all it  *)
(* does not say.                                                           *)
LEMMA HandlingFacts ==
  ASSUME TInv, NEW h \in Handlers, NEW s \in {"awaiting", "reading", "compacting", "compacted"},
         NEW modes, Handling(h, s, modes)
  PROVE  /\ handler[h].stage = s /\ handler[h].msg \in Messages /\ handler[h] # Idle
         /\ handler[h] \in Handlings
         /\ pending \in Seq(Messages)
         /\ initial' \in {"none", "waiting", "handling", "begun", "dropped"} => Rest'
BY MessageInHand DEF Handling, TInv, TypeOK, Rest

LEMMA HandleKeeps == ASSUME TInv, NEW h \in Handlers, Handle(h) PROVE TInv'
<1> DEFINE m == handler[h].msg
<1>a. TypeOK /\ FlagsOwned
  BY DEF TInv
<1>b. initial \in {"none", "waiting", "handling", "begun", "dropped"}
  BY DEF TInv, TypeOK
<1>1. CASE UserTurn(h)
  <2>1. /\ Handling(h, "awaiting", UserModes) /\ Start("agent", m, h)
        /\ begin_agent(NewId) /\ ShellUnchanged /\ Return(h, pending) /\ Became(h, "begun")
    BY <1>1 DEF UserTurn
  <2>2. m \in Messages /\ handler[h] # Idle /\ handler[h].stage = "awaiting"
        /\ pending \in Seq(Messages) /\ Rest'
    BY <2>1, <1>b, HandlingFacts DEF Became
  <2> QED
    BY <1>a, <2>1, <2>2, ReturnKeeps, AgentStarts, Parts
<1>2. CASE NoTurn(h)
  <2>1. /\ Handling(h, "awaiting", UserModes \cup {"command"}) /\ UNCHANGED <<flags, tasks>>
        /\ Return(h, pending) /\ Became(h, "dropped")
    BY <1>2 DEF NoTurn, AgentUnchanged, ShellUnchanged, flags
  <2>2. handler[h] # Idle /\ handler[h].stage = "awaiting" /\ pending \in Seq(Messages) /\ Rest'
    BY <2>1, <1>b, HandlingFacts DEF Became
  <2>3. QueueTyped' /\ SameCompacting
    BY <1>a, <2>1, <2>2, ReturnKeeps DEF SameCompacting
  <2> QED
    BY <2>1, <2>2, <2>3, FlagsStand, Parts
<1>3. CASE ShellCommand(h)
  <2>1. /\ Handling(h, "awaiting", {"shell"}) /\ Start("shell", m, h)
        /\ begin_shell(NewId) /\ AgentUnchanged /\ Return(h, pending) /\ UNCHANGED initial
    BY <1>3 DEF ShellCommand
  <2>2. m \in Messages /\ handler[h] # Idle /\ handler[h].stage = "awaiting"
        /\ pending \in Seq(Messages) /\ Rest'
    BY <2>1, <1>b, HandlingFacts
  <2>3. QueueTyped' /\ SameCompacting
    BY <1>a, <2>1, <2>2, ReturnKeeps DEF SameCompacting
  <2> QED
    BY <2>1, <2>2, <2>3, ShellStarts, Parts
<1>4. CASE Prompt(h)
  <2>1. /\ Handling(h, "awaiting", {"command", "raw"}) /\ ShellUnchanged
        /\ _send_prompt_to_agent(h, m) /\ UNCHANGED initial
    BY <1>4 DEF Prompt
  <2>2. m \in Messages /\ handler[h] # Idle /\ handler[h].stage = "awaiting"
        /\ pending \in Seq(Messages) /\ Rest'
    BY <2>1, <1>b, HandlingFacts
  <2>3. \/ /\ UNCHANGED <<agent_running, agent_worker, tasks>>
           /\ Return(h, Append(pending, [m EXCEPT !.mode = "raw"]))
        \/ Start("agent", m, h) /\ begin_agent(NewId) /\ Return(h, pending)
        \/ UNCHANGED <<agent_running, agent_worker, tasks>> /\ Return(h, pending)
    BY <2>1 DEF _send_prompt_to_agent
  <2>4. Append(pending, [m EXCEPT !.mode = "raw"]) \in Seq(Messages)
    <3>1. [m EXCEPT !.mode = "raw"] \in Messages
      BY <2>2 DEF Messages
    <3> QED
      BY <2>2, <3>1
  <2>5. CASE Start("agent", m, h) /\ begin_agent(NewId) /\ Return(h, pending)
    BY <1>a, <2>1, <2>2, <2>5, ReturnKeeps, AgentStarts, Parts
  <2>6. ASSUME NEW q \in Seq(Messages), Return(h, q),
               UNCHANGED <<agent_running, agent_worker, tasks>>
        PROVE  TInv'
    <3>1. QueueTyped' /\ SameCompacting
      BY <1>a, <2>2, <2>6, ReturnKeeps DEF SameCompacting
    <3>2. UNCHANGED <<flags, tasks>>
      BY <2>1, <2>6 DEF ShellUnchanged, flags
    <3> QED
      BY <2>2, <3>1, <3>2, FlagsStand, Parts
  <2> QED
    BY <2>2, <2>3, <2>4, <2>5, <2>6
<1>5. CASE SessionCommand(h)
  <2>1. /\ Handling(h, "awaiting", {"command"}) /\ Start("session", m, h)
        /\ begin_agent(NewId) /\ ShellUnchanged /\ Return(h, pending) /\ UNCHANGED initial
    BY <1>5 DEF SessionCommand
  <2>2. m \in Messages /\ handler[h] # Idle /\ handler[h].stage = "awaiting"
        /\ pending \in Seq(Messages) /\ Rest'
    BY <2>1, <1>b, HandlingFacts
  <2> QED
    BY <1>a, <2>1, <2>2, ReturnKeeps, AgentStarts, Parts
<1>6. CASE ClearCommand(h) \/ CompactNothing(h)
  <2>1. PICK s \in {"awaiting", "reading"}, q \in {pending, << >>} :
          /\ Handling(h, s, {"command"}) /\ UNCHANGED <<flags, tasks>>
          /\ Return(h, q) /\ UNCHANGED initial
    BY <1>6 DEF ClearCommand, CompactNothing, AgentUnchanged, ShellUnchanged, flags
  <2>2. handler[h] # Idle /\ handler[h].stage = s /\ pending \in Seq(Messages) /\ Rest'
    BY <2>1, <1>b, HandlingFacts
  <2>3. QueueTyped' /\ SameCompacting
    <3>1. << >> \in Seq(Messages)
      OBVIOUS
    <3>2. q \in Seq(Messages)
      BY <2>2, <3>1
    <3>3. handler[h].stage # "compacting"
      BY <2>2
    <3>4. Return(h, q)
      BY <2>1
    <3> QED
      BY <1>a, <2>2, <3>2, <3>3, <3>4, ReturnKeeps DEF SameCompacting
  <2> QED
    BY <2>1, <2>2, <2>3, FlagsStand, Parts
<1>7. CASE CompactReads(h) \/ CompactBegins(h) \/ CompactEnds(h)
  <2>1. PICK s \in {"awaiting", "reading", "compacting"}, u \in {"reading", "compacting", "compacted"} :
          /\ Handling(h, s, {"command"}) /\ MoveTo(h, u) /\ UNCHANGED <<initial, agent_worker, tasks>>
          /\ ShellUnchanged
          /\ \/ u = "reading" /\ s = "awaiting" /\ UNCHANGED agent_running
             \/ u = "compacting" /\ agent_running' = TRUE
             \/ u = "compacted" /\ agent_running' = FALSE
    BY <1>7 DEF CompactReads, CompactBegins, CompactEnds, flags, ShellUnchanged
  <2>2. handler[h] \in Handlings /\ handler[h].stage = s /\ pending \in Seq(Messages) /\ Rest'
        /\ handler[h] # Idle
    BY <2>1, <1>b, HandlingFacts
  <2>3. /\ [handler[h] EXCEPT !.stage = u] \in Handlings
        /\ [handler[h] EXCEPT !.stage = u].stage = u
        /\ [handler[h] EXCEPT !.stage = u] # Idle
    BY <2>2 DEF Handlings, Idle
  <2>4. /\ handler' = [handler EXCEPT ![h] = [handler[h] EXCEPT !.stage = u]]
        /\ UNCHANGED <<pending, processing, on_pump>>
    BY <2>1 DEF MoveTo
  <2>5. handler' \in [Handlers -> {Idle} \cup Handlings] /\ handler'[h].stage = u
        /\ handler'[h] # Idle
        /\ \A g \in Handlers : g # h => handler'[g] = handler[g]
    BY <2>3, <2>4, <1>a DEF TypeOK
  <2>6. QueueTyped'
    BY <2>2, <2>4, <2>5, <1>a DEF QueueTyped, TypeOK, FlagsOwned, Handlers
  <2>7. FlagsTyped' /\ Owned'
    <3>1. CASE u = "reading" /\ s = "awaiting" /\ UNCHANGED agent_running
      <4>1. SameCompacting
        BY <3>1, <2>2, <2>5 DEF SameCompacting
      <4> QED
        BY <3>1, <4>1, <2>1, FlagsStand DEF ShellUnchanged, flags
    <3>2. CASE u # "reading" /\ agent_running' = (u = "compacting")
      <4>1. ~AgentWedged'
        BY <3>2, <2>1, <2>5 DEF AgentWedged, Compacting
      <4>2. ShellWedged' <=> ShellWedged
        BY <2>1 DEF ShellWedged, ShellUnchanged, TaskIds
      <4> QED
        BY <3>2, <4>1, <4>2, <2>1, <1>a
           DEF FlagsTyped, Owned, TypeOK, FlagsOwned, ShellUnchanged, TaskIds
    <3> QED
      BY <3>1, <3>2, <2>1
  <2> QED
    BY <2>2, <2>6, <2>7, Parts
<1>8. CASE CompactDrains(h)
  <2>1. Handling(h, "compacted", {"command"}) /\ UNCHANGED <<initial, flags, tasks>>
    BY <1>8 DEF CompactDrains
  <2>2. handler[h] # Idle /\ handler[h].stage = "compacted" /\ pending \in Seq(Messages) /\ Rest'
    BY <2>1, <1>b, HandlingFacts
  <2>3. QueueTyped' /\ SameCompacting
    <3>1. CASE processing \/ pending = << >>
      BY <3>1, <1>8, <1>a, <2>2, ReturnKeeps DEF CompactDrains, SameCompacting
    <3>2. CASE ~processing /\ pending # << >>
      <4> DEFINE n == popleft(pending).msg
      <4>1. n \in Messages /\ popleft(pending).rest \in Seq(Messages)
        BY <3>2, <2>2, PopTyped
      <4>2. /\ processing' = TRUE /\ pending' = popleft(pending).rest /\ on_pump' = TRUE
            /\ handler' = [handler EXCEPT ![h] = Idle, !["drain"] = At("awaiting", n)]
        BY <3>2, <1>8 DEF CompactDrains
      <4> HIDE DEF n
      <4>3. At("awaiting", n) \in Handlings /\ At("awaiting", n) # Idle
            /\ At("awaiting", n).stage = "awaiting"
        BY <4>1, AtTyped
      <4>4. handler["drain"] = Idle /\ h # "drain"
        BY <3>2, <2>2, <1>a DEF FlagsOwned
      <4>5. /\ handler' \in [Handlers -> {Idle} \cup Handlings]
            /\ handler'[h] = Idle /\ handler'["drain"] = At("awaiting", n)
            /\ \A g \in Handlers : g # h /\ g # "drain" => handler'[g] = handler[g]
        BY <4>2, <4>3, <4>4, <1>a DEF TypeOK, Handlers
      <4>6. Idle.stage = "idle"
        BY DEF Idle
      <4> QED
        BY <4>1, <4>2, <4>3, <4>4, <4>5, <4>6, <2>2 DEF QueueTyped, SameCompacting
    <3> QED
      BY <3>1, <3>2
  <2> QED
    BY <2>1, <2>2, <2>3, FlagsStand, Parts
<1>9. CASE SteerCommand(h)
  <2> DEFINE n == NewMessage("steered")
  <2>1. /\ handler[h].stage = "awaiting" /\ sent < MaxMessages /\ sent' = sent + 1
        /\ UNCHANGED <<server, initial, flags, tasks, interrupts>>
        /\ Return(h, Append(pending, n))
    BY <1>9 DEF SteerCommand
  <2>2. n \in Messages /\ Rest'
    BY <2>1, <1>a DEF NewMessage, Messages, TypeOK, Rest
  <2>3. handler[h] # Idle /\ pending \in Seq(Messages)
    BY <2>1, <1>a, MessageInHand DEF TypeOK
  <2> HIDE DEF n
  <2>4. Append(pending, n) \in Seq(Messages)
    BY <2>2, <2>3
  <2>5. QueueTyped' /\ SameCompacting
    BY <1>a, <2>1, <2>3, <2>4, ReturnKeeps DEF SameCompacting
  <2> QED
    BY <2>1, <2>2, <2>5, FlagsStand, Parts
<1>10. CASE EditCommand(h) \/ DropCommand(h)
  <2>1. Handling(h, "awaiting", {"command"}) /\ UNCHANGED <<initial, flags, tasks>>
    BY <1>10 DEF EditCommand, DropCommand
  <2>2. handler[h] # Idle /\ handler[h].stage = "awaiting" /\ pending \in Seq(Messages) /\ Rest'
    BY <2>1, <1>b, HandlingFacts
  <2>3. PICK q \in Seq(Messages) : Return(h, q)
    <3>1. CASE EditCommand(h)
      <4>1. PICK i \in DOMAIN pending : Return(h, Rewritten(pending, i))
        BY <3>1 DEF EditCommand, Rewritten
      <4> QED
        BY <2>2, <4>1, RewrittenTyped
    <3>2. CASE DropCommand(h)
      <4>1. PICK i \in DOMAIN pending : Return(h, Without(pending, i))
        BY <3>2 DEF DropCommand
      <4> QED
        BY <2>2, <4>1, WithoutTyped
    <3> QED
      BY <1>10, <3>1, <3>2
  <2>4. QueueTyped' /\ SameCompacting
    BY <1>a, <2>2, <2>3, ReturnKeeps DEF SameCompacting
  <2> QED
    BY <2>1, <2>2, <2>4, FlagsStand, Parts
<1> QED
  BY <1>1, <1>2, <1>3, <1>4, <1>5, <1>6, <1>7, <1>8, <1>9, <1>10 DEF Handle

LEMMA ProceedKeeps == ASSUME TInv, NEW t \in TaskIds, Proceed(t) PROVE TInv'
<1>a. TypeOK /\ FlagsOwned
  BY DEF TInv
<1>b. (UNCHANGED <<server, initial, sent, interrupts>>) => Rest'
  BY <1>a DEF TypeOK, Rest
<1>c. (UNCHANGED <<pending, processing, handler, on_pump>>) => QueueTyped' /\ SameCompacting
  BY <1>a DEF TypeOK, FlagsOwned, QueueTyped, SameCompacting
<1>1. CASE TurnSettles(t)
  <2>1. /\ tasks[t].kind = "agent" /\ tasks[t].stage = "running" /\ Rest'
        /\ Stage(t, "finalising") /\ AgentUnchanged /\ ShellUnchanged
        /\ QueueTyped' /\ SameCompacting
    BY <1>1, <1>b, <1>c DEF TurnSettles, Task, flags, AgentUnchanged, ShellUnchanged
  <2> QED
    BY <2>1, TaskMoves, Parts
<1>2. CASE TurnEnds(t) \/ SessionEnds(t)
  <2>1. /\ tasks[t].kind # "shell" /\ Rest' /\ Stage(t, "cleaning") /\ end_agent /\ ShellUnchanged
        /\ QueueTyped'
    BY <1>2, <1>b, <1>c DEF TurnEnds, SessionEnds, Task
  <2> QED
    BY <2>1, AgentLowers, Parts
<1>3. CASE CleanupDrains(t)
  <2>1. /\ tasks[t].kind # "shell" /\ Rest' /\ Stage(t, "done") /\ end_agent /\ ShellUnchanged
        /\ _process_next_from_queue(FALSE)
    BY <1>3, <1>b DEF CleanupDrains, Task
  <2>2. QueueTyped'
    BY <1>a, <2>1, DrainStarts
  <2> QED
    BY <2>1, <2>2, AgentLowers, Parts
<1>4. CASE SpawnedDrain(t) \/ ShellDrains(t)
  <2>1. /\ tasks[t].kind # "agent" /\ tasks[t].stage = "cleaning" /\ Rest'
        /\ Stage(t, "done") /\ AgentUnchanged /\ ShellUnchanged
        /\ _process_next_from_queue(FALSE)
    BY <1>4, <1>b DEF SpawnedDrain, ShellDrains, Task, flags, AgentUnchanged, ShellUnchanged
  <2>2. QueueTyped' /\ SameCompacting
    BY <1>a, <2>1, DrainStarts DEF SameCompacting
  <2> QED
    BY <2>1, <2>2, TaskMoves, Parts
<1>5. CASE ShellEnds(t)
  <2>1. /\ tasks[t].kind = "shell" /\ tasks[t].stage = "running" /\ Rest'
        /\ Stage(t, "done") /\ AgentUnchanged /\ end_shell
        /\ _process_next_from_queue(FALSE)
    BY <1>5, <1>b DEF ShellEnds, Task
  <2>2. QueueTyped' /\ SameCompacting
    BY <1>a, <2>1, DrainStarts DEF SameCompacting
  <2> QED
    BY <2>1, <2>2, TaskMoves, Parts DEF end_shell
<1>6. CASE ShellKilled(t)
  <2>1. /\ tasks[t].kind = "shell" /\ tasks[t].stage = "cancelled" /\ Rest'
        /\ Stage(t, "cleaning") /\ AgentUnchanged /\ end_shell
        /\ QueueTyped' /\ SameCompacting
    BY <1>6, <1>b, <1>c DEF ShellKilled, Task
  <2> QED
    BY <2>1, TaskMoves, Parts DEF end_shell
<1>7. CASE Begin(t)
  <2>1. /\ tasks[t].stage = "created" /\ Rest'
        /\ Stage(t, "running") /\ AgentUnchanged /\ ShellUnchanged
        /\ QueueTyped' /\ SameCompacting
    BY <1>7, <1>b, <1>c DEF Begin, Task, flags, AgentUnchanged, ShellUnchanged
  <2> QED
    BY <2>1, TaskMoves, Parts
<1> QED
  BY <1>1, <1>2, <1>3, <1>4, <1>5, <1>6, <1>7 DEF Proceed

(* An interrupt cancels the shell command, or else the turn, that the      *)
(* flags point at; the queue is emptied.                                   *)
LEMMA InterruptKeeps == ASSUME TInv, Interrupt PROVE TInv'
<1>a. TypeOK /\ FlagsOwned
  BY DEF TInv
<1>1. PICK t \in TaskIds : Stage(t, Cancelled(t)) /\ tasks[t].kind \in {"agent", "session", "shell"}
  BY <1>a DEF Interrupt, TypeOK, NoTask
<1>2. /\ UNCHANGED <<server, initial, flags, processing, handler, on_pump, sent>>
      /\ pending' = << >> /\ interrupts' = interrupts + 1 /\ interrupts < MaxInterrupts
  BY DEF Interrupt
<1>3. QueueTyped' /\ SameCompacting /\ Rest'
  BY <1>a, <1>2 DEF QueueTyped, SameCompacting, Rest, TypeOK, FlagsOwned
<1>4. tasks[t] \in TaskRecords
  BY <1>a DEF TypeOK, TaskIds
<1>5. /\ Cancelled(t) \in Stages
      /\ tasks[t].stage = "lost" => Cancelled(t) = "lost"
      /\ Cancelled(t) = "lost" \/ tasks[t].kind = "shell" \/ Cancelled(t) = tasks[t].stage
      /\ \/ tasks[t].kind # "shell"
         \/ tasks[t].stage \notin {"created", "running", "cancelled"}
         \/ Cancelled(t) \in {"created", "running", "cancelled", "lost"}
  <2>1. CASE tasks[t].kind = "agent" /\ tasks[t].stage = "finalising"
    BY <2>1 DEF Cancelled
  <2>2. CASE tasks[t].kind = "shell" /\ tasks[t].stage = "running"
    BY <2>2 DEF Cancelled
  <2>3. CASE tasks[t].stage = "created"
    BY <2>3 DEF Cancelled
  <2>4. CASE /\ ~(tasks[t].kind = "agent" /\ tasks[t].stage = "finalising")
             /\ ~(tasks[t].kind = "shell" /\ tasks[t].stage = "running")
             /\ tasks[t].stage # "created"
    BY <2>4, <1>4 DEF Cancelled, TaskRecords
  <2> QED
    BY <2>1, <2>2, <2>3, <2>4
<1>6. AgentUnchanged /\ ShellUnchanged
  BY <1>2 DEF flags, AgentUnchanged, ShellUnchanged
<1>7. FlagsTyped' /\ Owned'
  <2> DEFINE s == Cancelled(t)
  <2>1. Stage(t, s)
    BY <1>1
  <2> HIDE DEF s
  <2> QED
    BY <1>3, <1>5, <1>6, <2>1, TaskMoves DEF s
<1> QED
  BY <1>3, <1>7, Parts

LEMMA ServerKeeps == ASSUME TInv, InitialWaits, ServerReady \/ ServerFails PROVE TInv'
<1>a. TypeOK /\ FlagsOwned
  BY DEF TInv
<1>1. CASE ServerFails
  <2>1. /\ server' = "failed" /\ pending' = << >>
        /\ UNCHANGED <<initial, flags, processing, handler, on_pump, tasks, sent, interrupts>>
    BY <1>1 DEF ServerFails
  <2>2. QueueTyped' /\ SameCompacting /\ Rest'
    BY <1>a, <2>1 DEF QueueTyped, SameCompacting, Rest, TypeOK, FlagsOwned
  <2> QED
    BY <2>1, <2>2, FlagsStand, Parts
<1>2. CASE ServerReady
  <2> DEFINE m == [id |-> 1, mode |-> "normal"]
             w == [kind |-> "spawned", stage |-> "cleaning", msg |-> 0, mode |-> "raw",
                   by |-> "background"]
  <2>1. /\ server' = "ready" /\ UNCHANGED <<flags, pending, processing, on_pump, sent, interrupts>>
        /\ \/ /\ initial = "waiting" /\ initial' = "handling" /\ UNCHANGED tasks
              /\ handler' = [handler EXCEPT !["initial"] = At("awaiting", m)]
           \/ tasks' = Append(tasks, w) /\ UNCHANGED <<initial, handler>>
           \/ UNCHANGED <<initial, handler, tasks>>
    BY <1>2 DEF ServerReady
  <2>2. m \in Messages /\ w \in TaskRecords
    BY DEF Messages, TaskRecords, Modes
  <2> HIDE DEF m, w
  <2>3. At("awaiting", m) \in Handlings /\ At("awaiting", m).stage = "awaiting"
    BY <2>2, AtTyped
  <2>4. Rest'
    BY <1>a, <2>1 DEF Rest, TypeOK
  <2>5. handler' = handler \/ handler' = [handler EXCEPT !["initial"] = At("awaiting", m)]
    BY <2>1
  <2>6. handler' \in [Handlers -> {Idle} \cup Handlings] /\ handler'["drain"] = handler["drain"]
    BY <1>a, <2>3, <2>5 DEF TypeOK, Handlers
  <2>7. SameCompacting
    <3>1. handler' = handler \/ handler["initial"] = Idle
      BY <2>1 DEF InitialWaits
    <3>2. Idle.stage = "idle"
      BY DEF Idle
    <3> QED
      BY <1>a, <2>3, <2>5, <3>1, <3>2 DEF TypeOK, SameCompacting
  <2>8. QueueTyped'
    BY <1>a, <2>1, <2>6 DEF QueueTyped, TypeOK, FlagsOwned
  <2>9. FlagsTyped' /\ Owned'
    <3>1. CASE UNCHANGED tasks
      BY <2>1, <2>7, <3>1, FlagsStand
    <3>2. CASE tasks' = Append(tasks, w) /\ handler' = handler
      <4>1. /\ tasks' \in Seq(TaskRecords) /\ NewId \notin TaskIds /\ tasks'[NewId] = w
            /\ TaskIds' = TaskIds \cup {NewId} /\ \A t \in TaskIds : tasks'[t] = tasks[t]
        BY <1>a, <2>2, <3>2 DEF TypeOK, TaskIds, NewId
      <4>2. UNCHANGED <<agent_running, agent_worker, shell_running, shell_worker>>
        BY <2>1 DEF flags
      <4>3. FlagsTyped'
        BY <1>a, <4>1, <4>2 DEF FlagsTyped, TypeOK
      <4>4. (AgentWedged' => AgentWedged) /\ (ShellWedged' => ShellWedged)
        BY <3>2, <4>1, <4>2 DEF AgentWedged, ShellWedged, Turns, Compacting, w
      <4> QED
        BY <1>a, <4>1, <4>2, <4>3, <4>4 DEF TypeOK, FlagsOwned, Owned
    <3> QED
      BY <2>1, <3>1, <3>2
  <2> QED
    BY <2>4, <2>8, <2>9, Parts
<1> QED
  BY <1>1, <1>2

(* No step gives the initial prompt's handler work before it is due.       *)
LEMMA InitialStays ==
  ASSUME TypeOK, InitialWaits, [Next]_vars PROVE InitialWaits'
<1> SUFFICES ASSUME initial' = "waiting" PROVE handler'["initial"] = Idle
  BY DEF InitialWaits
<1>1. CASE \E mode \in Modes : Submit(mode)
  BY <1>1 DEF Submit, InitialWaits, TypeOK, Handlers
<1>2. CASE BackgroundPrompt \/ Interrupt \/ ServerFails \/ UNCHANGED vars
  BY <1>2 DEF BackgroundPrompt, Interrupt, ServerFails, InitialWaits, vars
<1>3. CASE ServerReady
  BY <1>3 DEF ServerReady, InitialWaits
<1>4. ASSUME NEW h \in Handlers, Handle(h) PROVE handler'["initial"] = Idle
  <2>1. initial' = initial \/ (Became(h, "begun") \/ Became(h, "dropped"))
    BY <1>4 DEF Handle, UserTurn, NoTurn, ShellCommand, Prompt, SessionCommand, ClearCommand,
       SteerCommand, EditCommand, DropCommand, CompactReads, CompactNothing, CompactBegins,
       CompactEnds, CompactDrains
  <2>2. initial = "waiting" /\ handler["initial"] = Idle
    BY <2>1 DEF Became, InitialWaits
  <2>3. handler[h].stage # "idle"
    BY <1>4 DEF Handle, UserTurn, NoTurn, ShellCommand, Prompt, SessionCommand, ClearCommand,
       SteerCommand, EditCommand, DropCommand, CompactReads, CompactNothing, CompactBegins,
       CompactEnds, CompactDrains, Handling
  <2>4. h # "initial"
    BY <2>2, <2>3 DEF Idle
  <2>5. \A q : Return(h, q) => handler'["initial"] = handler["initial"]
    BY <2>4 DEF Return, DrainEnds, TypeOK, Handlers
  <2>6. \A u : MoveTo(h, u) => handler'["initial"] = handler["initial"]
    BY <2>4 DEF MoveTo, TypeOK
  <2>7. CompactDrains(h) => handler'["initial"] = handler["initial"]
    BY <2>4, <2>5 DEF CompactDrains, TypeOK, Handlers
  <2> QED
    BY <1>4, <2>2, <2>5, <2>6, <2>7 DEF Handle, UserTurn, NoTurn, ShellCommand, Prompt,
       _send_prompt_to_agent, SessionCommand, ClearCommand, SteerCommand, EditCommand,
       DropCommand, CompactReads, CompactNothing, CompactBegins, CompactEnds
<1>5. ASSUME NEW t \in TaskIds, Proceed(t) PROVE handler'["initial"] = Idle
  <2>1. UNCHANGED initial /\ (UNCHANGED handler \/ _process_next_from_queue(FALSE))
    BY <1>5 DEF Proceed, Begin, TurnSettles, TurnEnds, CleanupDrains, SessionEnds, SpawnedDrain,
       ShellEnds, ShellKilled, ShellDrains, Task
  <2> QED
    BY <2>1 DEF _process_next_from_queue, TakeUp, InitialWaits, TypeOK, Handlers
<1>6. CASE PollSessionQueue
  BY <1>6 DEF PollSessionQueue, TakeUp, InitialWaits, TypeOK, Handlers
<1> QED
  BY <1>1, <1>2, <1>3, <1>4, <1>5, <1>6 DEF Next

LEMMA StepKeepsTInv == TInv /\ InitialWaits /\ [Next]_vars => TInv' /\ InitialWaits'
<1> SUFFICES ASSUME TInv, InitialWaits, [Next]_vars PROVE TInv'
  BY InitialStays DEF TInv
<1>1. CASE UNCHANGED vars
  <2>1. QueueTyped' /\ SameCompacting /\ Rest'
    BY <1>1 DEF TInv, TypeOK, FlagsOwned, QueueTyped, SameCompacting, Rest, vars
  <2> QED
    BY <1>1, <2>1, FlagsStand, Parts DEF vars
<1> QED
  BY <1>1, SubmitKeeps, BackgroundKeeps, PollKeeps, HandleKeeps, ProceedKeeps, InterruptKeeps,
     ServerKeeps DEF Next

-----------------------------------------------------------------------------
THEOREM TurnInvariance == Spec => [](TInv /\ InitialWaits)
BY InitTInv, StepKeepsTInv, PTL DEF Spec

(* Every variable of the turn loop keeps its type: the worker handles of   *)
(* the flags always point at a task of their kind.                         *)
THEOREM TurnTypeCorrect == Spec => []TypeOK
<1>1. TInv => TypeOK
  BY DEF TInv
<1> QED
  BY <1>1, TurnInvariance, PTL

(* A raised flag has an owner that will lower it, or an interrupt took it. *)
THEOREM FlagsAreOwned == Spec => []FlagsOwned
<1>1. TInv => FlagsOwned
  BY DEF TInv
<1> QED
  BY <1>1, TurnInvariance, PTL
-----------------------------------------------------------------------------
(* Where the messages are: the queue q, what each handler holds, hd, and   *)
(* the tasks they started, ts.  A message moves from one to another; the   *)
(* initial prompt is its handler's from the start.                         *)

NoMessage == [id |-> 0, mode |-> "raw"]

Held ==
  [h \in Handlers |->
     IF handler[h] # Idle THEN handler[h].msg
     ELSE IF h = "initial" /\ initial = "waiting" THEN [id |-> 1, mode |-> "normal"]
     ELSE NoMessage]

(* All of them are among the n messages so far.                            *)
Known(q, hd, ts, n) ==
  /\ q \in Seq(Messages) /\ \A i \in 1..Len(q) : q[i].id <= n
  /\ hd \in [Handlers -> Messages \cup {NoMessage}] /\ \A h \in Handlers : hd[h].id <= n
  /\ ts \in Seq(TaskRecords) /\ \A t \in 1..Len(ts) : ts[t].msg <= n
  /\ n \in 0..MaxMessages

(* No two places have the same message.                                    *)
Once(q, hd, ts) ==
  /\ \A i, j \in 1..Len(q) : q[i].id = q[j].id => i = j
  /\ \A g, h \in Handlers : hd[g].id = hd[h].id /\ hd[h].id # 0 => g = h
  /\ \A t, u \in 1..Len(ts) : ts[t].msg = ts[u].msg /\ ts[t].msg # 0 => t = u
  /\ \A i \in 1..Len(q), h \in Handlers : q[i].id # hd[h].id
  /\ \A i \in 1..Len(q), t \in 1..Len(ts) : q[i].id # ts[t].msg
  /\ \A h \in Handlers, t \in 1..Len(ts) : hd[h].id = ts[t].msg => hd[h].id = 0

(* The tasks the drain started, what it holds (d) and the queue, in this   *)
(* order, have the messages in the order they were typed.                  *)
Drained(ts) == {t \in 1..Len(ts) : ts[t].by = "drain" /\ ts[t].mode \notin Displaced}
InOrder(q, d, ts) ==
  /\ \A i, j \in 1..Len(q) :
       i < j /\ q[i].mode \notin Displaced /\ q[j].mode \notin Displaced => q[i].id < q[j].id
  /\ \A i \in 1..Len(q) : d.mode \notin Displaced /\ q[i].mode \notin Displaced => d.id < q[i].id
  /\ \A i \in 1..Len(q), t \in Drained(ts) : q[i].mode \notin Displaced => ts[t].msg < q[i].id
  /\ \A t \in Drained(ts) : d.mode \notin Displaced => ts[t].msg < d.id
  /\ \A t, u \in Drained(ts) : t < u => ts[t].msg < ts[u].msg

Placed(q, hd, ts, n) == Known(q, hd, ts, n) /\ Once(q, hd, ts) /\ InOrder(q, hd["drain"], ts)

(* What that says of each of them.                                         *)
LEMMA KnownFacts ==
  ASSUME NEW q, NEW hd, NEW ts, NEW n, Placed(q, hd, ts, n)
  PROVE  /\ n \in Nat /\ Len(q) \in Nat /\ Len(ts) \in Nat
         /\ \A i \in 1..Len(q) : /\ q[i] \in Messages /\ q[i].id \in Nat
                                /\ q[i].id # 0 /\ q[i].id < n + 1
         /\ \A h \in Handlers : hd[h].id \in Nat /\ hd[h].id < n + 1
         /\ \A t \in 1..Len(ts) : ts[t].msg \in Nat /\ ts[t].msg < n + 1
<1>1. \A m \in Messages : m.id \in Nat /\ m.id # 0
  BY DEF Messages
<1>2. \A r \in TaskRecords : r.msg \in Nat
  BY DEF TaskRecords
<1>3. \A i \in 1..Len(q) : q[i] \in Messages
  BY DEF Placed, Known
<1>4. \A t \in 1..Len(ts) : ts[t] \in TaskRecords
  BY DEF Placed, Known
<1>5. \A h \in Handlers : hd[h] \in Messages \/ hd[h].id = 0
  BY DEF Placed, Known, NoMessage
<1>6. n \in Nat /\ Len(q) \in Nat /\ Len(ts) \in Nat
  BY DEF Placed, Known
<1> QED
  BY <1>1, <1>2, <1>3, <1>4, <1>5, <1>6 DEF Placed, Known

(* A handler lets go of its message.                                       *)
LEMMA LetGo ==
  ASSUME NEW q, NEW hd, NEW ts, NEW n, Placed(q, hd, ts, n), NEW h \in Handlers
  PROVE  Placed(q, [hd EXCEPT ![h] = NoMessage], ts, n)
<1> DEFINE ld == [hd EXCEPT ![h] = NoMessage]
<1>1. /\ ld \in [Handlers -> Messages \cup {NoMessage}] /\ ld[h] = NoMessage
      /\ \A g \in Handlers : g # h => ld[g] = hd[g]
  BY DEF Placed, Known
<1>2. NoMessage.id = 0 /\ NoMessage.mode = "raw"
  BY DEF NoMessage
<1> HIDE DEF ld
<1>3. Known(q, ld, ts, n)
  BY <1>1, <1>2 DEF Placed, Known
<1>4. Once(q, ld, ts)
  <2>1. \A i \in 1..Len(q) : q[i].id # 0
    BY KnownFacts
  <2>2. Once(q, hd, ts)
    BY DEF Placed
  <2>3. \A g \in Handlers : ld[g] = hd[g] \/ ld[g].id = 0
    BY <1>1, <1>2
  <2>4. \A g, k \in Handlers : ld[g].id = ld[k].id /\ ld[k].id # 0 => g = k
    BY <2>2, <2>3 DEF Once
  <2>5. \A i \in 1..Len(q), g \in Handlers : q[i].id # ld[g].id
    BY <2>1, <2>2, <2>3 DEF Once
  <2>6. \A g \in Handlers, t \in 1..Len(ts) : ld[g].id = ts[t].msg => ld[g].id = 0
    BY <2>2, <2>3 DEF Once
  <2> QED
    BY <2>2, <2>4, <2>5, <2>6 DEF Once
<1>5. InOrder(q, ld["drain"], ts)
  BY <1>1, <1>2 DEF Placed, InOrder, Handlers
<1> QED
  BY <1>3, <1>4, <1>5 DEF Placed, ld

(* The queue is emptied.                                                   *)
LEMMA Emptied ==
  ASSUME NEW q, NEW hd, NEW ts, NEW n, Placed(q, hd, ts, n)
  PROVE  Placed(<< >>, hd, ts, n)
<1>1. << >> \in Seq(Messages) /\ 1..Len(<< >>) = {}
  OBVIOUS
<1> QED
  BY <1>1 DEF Placed, Known, Once, InOrder

(* One message of the queue is rewritten: it may lose its place, not get one. *)
LEMMA Reworded ==
  ASSUME NEW q, NEW hd, NEW ts, NEW n, Placed(q, hd, ts, n), NEW i \in DOMAIN q
  PROVE  Placed(Rewritten(q, i), hd, ts, n)
<1> DEFINE r == Rewritten(q, i)
<1>1. q \in Seq(Messages) /\ i \in 1..Len(q)
  BY DEF Placed, Known
<1>2. /\ r \in Seq(Messages) /\ Len(r) = Len(q) /\ r[i].id = q[i].id
      /\ r[i].mode \in {q[i].mode, "edited"}
      /\ \A j \in 1..Len(q) : j # i => r[j] = q[j]
  BY <1>1, RewrittenTyped
<1> HIDE DEF r
<1>3. \A j \in 1..Len(q) : /\ r[j].id = q[j].id
                           /\ r[j].mode \notin Displaced => q[j].mode \notin Displaced
  BY <1>2
<1>4. Known(r, hd, ts, n)
  BY <1>2, <1>3 DEF Placed, Known
<1>5. Once(r, hd, ts)
  BY <1>2, <1>3 DEF Placed, Once
<1>6. InOrder(r, hd["drain"], ts)
  BY <1>2, <1>3 DEF Placed, InOrder
<1> QED
  BY <1>4, <1>5, <1>6 DEF Placed, r

(* One message of the queue is dropped: the others keep their order.       *)
LEMMA Dropped ==
  ASSUME NEW q, NEW hd, NEW ts, NEW n, Placed(q, hd, ts, n), NEW i \in DOMAIN q
  PROVE  Placed(Without(q, i), hd, ts, n)
<1> DEFINE r == Without(q, i)
           at(j) == IF j < i THEN j ELSE j + 1
<1>1. q \in Seq(Messages) /\ i \in 1..Len(q) /\ Len(q) \in Nat
  BY DEF Placed, Known
<1>2. r \in Seq(Messages) /\ Len(r) = Len(q) - 1
      /\ \A j \in 1..(Len(q) - 1) : r[j] = IF j < i THEN q[j] ELSE q[j + 1]
  BY <1>1, WithoutTyped
<1> HIDE DEF r
<1>3. \A j \in 1..Len(r) : at(j) \in 1..Len(q) /\ r[j] = q[at(j)]
  BY <1>1, <1>2
<1>4. \A j, k \in 1..Len(r) : (j < k => at(j) < at(k)) /\ (at(j) = at(k) => j = k)
  BY <1>1, <1>2
<1> HIDE DEF at
<1>5. Known(r, hd, ts, n)
  BY <1>2, <1>3 DEF Placed, Known
<1>6. Once(r, hd, ts)
  <2>a. Once(q, hd, ts)
    BY DEF Placed
  <2>1. ASSUME NEW j \in 1..Len(r), NEW k \in 1..Len(r), r[j].id = r[k].id PROVE j = k
    <3>1. at(j) = at(k)
      BY <1>3, <2>a, <2>1 DEF Once
    <3> QED
      BY <1>4, <3>1
  <2>2. ASSUME NEW j \in 1..Len(r), NEW h \in Handlers PROVE r[j].id # hd[h].id
    BY <1>3, <2>a DEF Once
  <2>3. ASSUME NEW j \in 1..Len(r), NEW t \in 1..Len(ts) PROVE r[j].id # ts[t].msg
    BY <1>3, <2>a DEF Once
  <2> QED
    BY <2>a, <2>1, <2>2, <2>3 DEF Once
<1>7. InOrder(r, hd["drain"], ts)
  <2>a. InOrder(q, hd["drain"], ts)
    BY DEF Placed
  <2>1. ASSUME NEW j \in 1..Len(r), NEW k \in 1..Len(r),
               j < k, r[j].mode \notin Displaced, r[k].mode \notin Displaced
        PROVE  r[j].id < r[k].id
    <3>1. at(j) < at(k)
      BY <1>4, <2>1
    <3>2. /\ at(j) \in 1..Len(q) /\ r[j] = q[at(j)]
          /\ at(k) \in 1..Len(q) /\ r[k] = q[at(k)]
      BY <1>3
    <3> QED
      BY <2>a, <2>1, <3>1, <3>2 DEF InOrder
  <2>2. ASSUME NEW j \in 1..Len(r), r[j].mode \notin Displaced
        PROVE  /\ hd["drain"].mode \notin Displaced => hd["drain"].id < r[j].id
               /\ \A t \in Drained(ts) : ts[t].msg < r[j].id
    BY <1>3, <2>a, <2>2 DEF InOrder
  <2> QED
    BY <2>a, <2>1, <2>2 DEF InOrder
<1> QED
  BY <1>5, <1>6, <1>7 DEF Placed, r

(* The queue was empty, and the prompts of other sessions are put there.   *)
LEMMA Filled ==
  ASSUME NEW hd, NEW ts, NEW k, Placed(<< >>, hd, ts, k), NEW n \in 1..(MaxMessages - k)
  PROVE  Placed([i \in 1..n |-> [id |-> k + i, mode |-> "normal"]], hd, ts, k + n)
<1> DEFINE r == [i \in 1..n |-> [id |-> k + i, mode |-> "normal"]]
<1>1. k \in Nat /\ n \in Nat /\ k + n \in 0..MaxMessages /\ 0 < n
  BY DEF Placed, Known
<1>2. \A i \in 1..n : [id |-> k + i, mode |-> "normal"] \in Messages
  BY <1>1 DEF Messages
<1>3. r \in Seq(Messages) /\ Len(r) = n
      /\ \A i \in 1..Len(r) : r[i] \in Messages /\ r[i].id = k + i /\ i \in 1..n
  <2>1. r \in [1..n -> Messages] /\ \A i \in 1..n : r[i].id = k + i
    BY <1>2
  <2> HIDE DEF r
  <2>2. r \in Seq(Messages) /\ Len(r) = n
    BY <1>1, <2>1
  <2> QED
    BY <2>1, <2>2
<1>4. /\ \A h \in Handlers : hd[h].id \in Nat /\ hd[h].id < k + 1
      /\ \A t \in 1..Len(ts) : ts[t].msg \in Nat /\ ts[t].msg < k + 1
  BY KnownFacts
<1> HIDE DEF r
<1>5. Known(r, hd, ts, k + n)
  <2>1. \A i \in 1..Len(r) : r[i].id <= k + n
    BY <1>1, <1>3
  <2>2. /\ \A h \in Handlers : hd[h].id <= k + n
        /\ \A t \in 1..Len(ts) : ts[t].msg <= k + n
    BY <1>1, <1>4
  <2> QED
    BY <1>1, <1>3, <2>1, <2>2 DEF Placed, Known
<1>6. Once(r, hd, ts)
  <2>1. \A i, j \in 1..Len(r) : r[i].id = r[j].id => i = j
    BY <1>1, <1>3
  <2>2. \A i \in 1..Len(r), h \in Handlers : r[i].id # hd[h].id
    BY <1>1, <1>3, <1>4
  <2>3. \A i \in 1..Len(r), t \in 1..Len(ts) : r[i].id # ts[t].msg
    BY <1>1, <1>3, <1>4
  <2> QED
    BY <2>1, <2>2, <2>3 DEF Placed, Once
<1>7. InOrder(r, hd["drain"], ts)
  <2>1. \A i, j \in 1..Len(r) : i < j => r[i].id < r[j].id
    BY <1>1, <1>3
  <2>2. \A i \in 1..Len(r) : hd["drain"].id < r[i].id
    BY <1>1, <1>3, <1>4 DEF Handlers
  <2>3. \A i \in 1..Len(r), t \in 1..Len(ts) : ts[t].msg < r[i].id
    BY <1>1, <1>3, <1>4
  <2> QED
    BY <2>1, <2>2, <2>3 DEF Placed, InOrder, Drained
<1> QED
  BY <1>5, <1>6, <1>7 DEF Placed, r

(* The drain takes the oldest message of the queue.                        *)
LEMMA Taken ==
  ASSUME NEW q, NEW hd, NEW ts, NEW n, Placed(q, hd, ts, n), q # << >>,
         hd["drain"] = NoMessage
  PROVE  Placed(Tail(q), [hd EXCEPT !["drain"] = Head(q)], ts, n)
<1> DEFINE ld == [hd EXCEPT !["drain"] = Head(q)]
           r == Tail(q)
<1>1. /\ r \in Seq(Messages) /\ Len(q) \in Nat /\ Len(q) >= 1 /\ Len(r) = Len(q) - 1
      /\ Head(q) = q[1] /\ q[1] \in Messages
      /\ \A i \in 1..Len(r) : r[i] = q[i + 1] /\ i + 1 \in 1..Len(q) /\ i + 1 # 1
  BY HeadTailProperties DEF Placed, Known
<1>2. /\ ld \in [Handlers -> Messages \cup {NoMessage}] /\ ld["drain"] = q[1]
      /\ \A g \in Handlers : g # "drain" => ld[g] = hd[g]
  BY <1>1 DEF Placed, Known, Handlers
<1>3. 1 \in 1..Len(q) /\ \A m \in Messages : m.id \in Nat /\ m.id # 0
  BY <1>1 DEF Messages
<1> HIDE DEF ld, r
<1>4. Known(r, ld, ts, n)
  BY <1>1, <1>2, <1>3 DEF Placed, Known
<1>5. Once(r, ld, ts)
  <2>a. Once(q, hd, ts)
    BY DEF Placed
  <2>1. ASSUME NEW i \in 1..Len(r), NEW j \in 1..Len(r), r[i].id = r[j].id PROVE i = j
    <3>1. i + 1 = j + 1
      BY <1>1, <2>a, <2>1 DEF Once
    <3> QED
      BY <1>1, <3>1
  <2>2. \A g, h \in Handlers : ld[g].id = ld[h].id /\ ld[h].id # 0 => g = h
    BY <1>2, <1>3 DEF Placed, Once
  <2>3. \A t, u \in 1..Len(ts) : ts[t].msg = ts[u].msg /\ ts[t].msg # 0 => t = u
    BY DEF Placed, Once
  <2>4. ASSUME NEW i \in 1..Len(r), NEW h \in Handlers PROVE r[i].id # ld[h].id
    <3>1. r[i] = q[i + 1] /\ i + 1 \in 1..Len(q) /\ i + 1 # 1
      BY <1>1
    <3>2. CASE h = "drain"
      BY <1>2, <1>3, <3>1, <3>2 DEF Placed, Once
    <3>3. CASE h # "drain"
      BY <1>2, <3>1, <3>3 DEF Placed, Once
    <3> QED
      BY <3>2, <3>3
  <2>5. ASSUME NEW i \in 1..Len(r), NEW t \in 1..Len(ts) PROVE r[i].id # ts[t].msg
    <3>1. r[i] = q[i + 1] /\ i + 1 \in 1..Len(q)
      BY <1>1
    <3> QED
      BY <2>a, <3>1 DEF Once
  <2>6. \A h \in Handlers, t \in 1..Len(ts) : ld[h].id = ts[t].msg => ld[h].id = 0
    BY <1>2, <1>3 DEF Placed, Once
  <2> QED
    BY <2>1, <2>2, <2>3, <2>4, <2>5, <2>6 DEF Once
<1>6. InOrder(r, q[1], ts)
  <2>a. InOrder(q, hd["drain"], ts)
    BY DEF Placed
  <2>1. ASSUME NEW i \in 1..Len(r), NEW j \in 1..Len(r),
               i < j, r[i].mode \notin Displaced, r[j].mode \notin Displaced
        PROVE  r[i].id < r[j].id
    <3>1. /\ r[i] = q[i + 1] /\ i + 1 \in 1..Len(q)
          /\ r[j] = q[j + 1] /\ j + 1 \in 1..Len(q) /\ i + 1 < j + 1
      BY <1>1, <2>1
    <3> QED
      BY <2>a, <2>1, <3>1 DEF InOrder
  <2>2. \A i \in 1..Len(r) : q[1].mode \notin Displaced /\ r[i].mode \notin Displaced => q[1].id < r[i].id
    BY <1>1, <1>3 DEF Placed, InOrder
  <2>3. \A i \in 1..Len(r), t \in Drained(ts) : r[i].mode \notin Displaced => ts[t].msg < r[i].id
    BY <1>1 DEF Placed, InOrder
  <2>4. \A t \in Drained(ts) : q[1].mode \notin Displaced => ts[t].msg < q[1].id
    BY <1>3 DEF Placed, InOrder
  <2>5. \A t, u \in Drained(ts) : t < u => ts[t].msg < ts[u].msg
    BY DEF Placed, InOrder
  <2> QED
    BY <2>1, <2>2, <2>3, <2>4, <2>5 DEF InOrder
<1> QED
  BY <1>2, <1>4, <1>5, <1>6 DEF Placed, ld, r

(* A handler's message waits in the queue as a prompt: it loses its place. *)
LEMMA Deferred ==
  ASSUME NEW q, NEW hd, NEW ts, NEW n, Placed(q, hd, ts, n), NEW h \in Handlers,
         hd[h] \in Messages
  PROVE  Placed(Append(q, [hd[h] EXCEPT !.mode = "raw"]), [hd EXCEPT ![h] = NoMessage], ts, n)
<1> DEFINE ld == [hd EXCEPT ![h] = NoMessage]
           m  == [hd[h] EXCEPT !.mode = "raw"]
           r  == Append(q, m)
<1>1. m \in Messages /\ m.id = hd[h].id /\ m.mode = "raw" /\ m.id \in Nat /\ m.id # 0
  BY DEF Messages
<1>2. Placed(q, ld, ts, n)
  BY LetGo
<1> HIDE DEF m
<1>3. /\ r \in Seq(Messages) /\ Len(q) \in Nat /\ Len(r) = Len(q) + 1 /\ r[Len(r)] = m
      /\ \A i \in 1..Len(r) : i # Len(r) => r[i] = q[i] /\ i \in 1..Len(q)
  BY <1>1 DEF Placed, Known
<1>4. /\ ld[h].id = 0 /\ \A g \in Handlers : g # h => ld[g] = hd[g]
  BY DEF Placed, Known, NoMessage
<1> HIDE DEF ld, r
<1>5. Known(r, ld, ts, n)
  BY <1>1, <1>2, <1>3 DEF Placed, Known
<1>6. Once(r, ld, ts)
  <2>1. \A i, j \in 1..Len(r) : r[i].id = r[j].id => i = j
    BY <1>1, <1>3 DEF Placed, Once
  <2>2. \A i \in 1..Len(r), g \in Handlers : r[i].id # ld[g].id
    BY <1>1, <1>2, <1>3, <1>4 DEF Placed, Once
  <2>3. \A i \in 1..Len(r), t \in 1..Len(ts) : r[i].id # ts[t].msg
    BY <1>1, <1>3 DEF Placed, Once
  <2> QED
    BY <1>2, <2>1, <2>2, <2>3 DEF Placed, Once
<1>7. InOrder(r, ld["drain"], ts)
  BY <1>1, <1>2, <1>3 DEF Placed, InOrder
<1> QED
  BY <1>5, <1>6, <1>7 DEF Placed, ld, r, m

(* A handler's message starts a task.                                      *)
LEMMA Begun ==
  ASSUME NEW q, NEW hd, NEW ts, NEW n, Placed(q, hd, ts, n), NEW h \in Handlers,
         hd[h] \in Messages, NEW kind \in {"agent", "session", "shell"}
  PROVE  Placed(q, [hd EXCEPT ![h] = NoMessage], Append(ts, NewTask(kind, hd[h], h)), n)
<1> DEFINE ld == [hd EXCEPT ![h] = NoMessage]
           new == NewTask(kind, hd[h], h)
           us == Append(ts, new)
<1>1. /\ new \in TaskRecords /\ new.msg = hd[h].id /\ new.mode = hd[h].mode /\ new.by = h
      /\ new.msg \in Nat /\ new.msg # 0
  BY DEF NewTask, TaskRecords, Messages
<1>2. Placed(q, ld, ts, n)
  BY LetGo
<1> HIDE DEF new
<1>3. /\ us \in Seq(TaskRecords) /\ Len(ts) \in Nat /\ Len(us) = Len(ts) + 1 /\ us[Len(us)] = new
      /\ \A t \in 1..Len(us) : t # Len(us) => us[t] = ts[t] /\ t \in 1..Len(ts)
      /\ 1..Len(us) = 1..Len(ts) \cup {Len(us)} /\ Len(us) \notin 1..Len(ts)
  BY <1>1 DEF Placed, Known
<1>4. ld[h].id = 0 /\ ld[h].mode = "raw" /\ \A g \in Handlers : g # h => ld[g] = hd[g]
  BY DEF Placed, Known, NoMessage
<1> HIDE DEF ld, us
<1>5. Known(q, ld, us, n)
  BY <1>1, <1>2, <1>3 DEF Placed, Known
<1>6. Once(q, ld, us)
  <2>1. \A t, u \in 1..Len(us) : us[t].msg = us[u].msg /\ us[t].msg # 0 => t = u
    BY <1>1, <1>3 DEF Placed, Once
  <2>2. \A i \in 1..Len(q), t \in 1..Len(us) : q[i].id # us[t].msg
    BY <1>1, <1>2, <1>3 DEF Placed, Once
  <2>3. \A g \in Handlers, t \in 1..Len(us) : ld[g].id = us[t].msg => ld[g].id = 0
    BY <1>1, <1>2, <1>3, <1>4 DEF Placed, Once
  <2> QED
    BY <1>2, <2>1, <2>2, <2>3 DEF Placed, Once
<1>7. InOrder(q, ld["drain"], us)
  <2>1. \A t \in Drained(us) : \/ t # Len(us) /\ t \in Drained(ts) /\ us[t] = ts[t]
                               \/ t = Len(us) /\ h = "drain" /\ hd["drain"].mode \notin Displaced
    BY <1>1, <1>3 DEF Drained
  <2>2. h = "drain" => ld["drain"].mode = "raw"
    BY <1>4
  <2>3. \A i \in 1..Len(q), t \in Drained(us) : q[i].mode \notin Displaced => us[t].msg < q[i].id
    BY <1>1, <1>3, <2>1 DEF Placed, InOrder
  <2>4. \A t \in Drained(us) : ld["drain"].mode \notin Displaced => us[t].msg < ld["drain"].id
    BY <1>2, <2>1, <2>2 DEF Placed, InOrder
  <2>5. \A t, u \in Drained(us) : t < u => us[t].msg < us[u].msg
    <3>1. SUFFICES ASSUME NEW t \in Drained(us), NEW u \in Drained(us), t < u
                   PROVE  us[t].msg < us[u].msg
      OBVIOUS
    <3>2. u \in 1..Len(us) /\ t # Len(us)
      BY <1>3, <3>1 DEF Drained
    <3> QED
      BY <1>1, <1>3, <2>1, <3>1, <3>2 DEF Placed, InOrder
  <2> QED
    BY <1>2, <2>3, <2>4, <2>5 DEF Placed, InOrder
<1> QED
  BY <1>5, <1>6, <1>7 DEF Placed, ld, us, new

(* Message n + 1 comes to the end of the queue ...                         *)
LEMMA Queued ==
  ASSUME NEW q, NEW hd, NEW ts, NEW n, Placed(q, hd, ts, n), n < MaxMessages,
         NEW mode \in QueuedModes
  PROVE  Placed(Append(q, [id |-> n + 1, mode |-> mode]), hd, ts, n + 1)
<1> DEFINE m == [id |-> n + 1, mode |-> mode]
           r == Append(q, m)
<1>1. m \in Messages /\ m.id = n + 1 /\ n \in Nat
  BY DEF Messages, Placed, Known
<1> HIDE DEF m
<1>2. /\ r \in Seq(Messages) /\ Len(q) \in Nat /\ Len(r) = Len(q) + 1 /\ r[Len(r)] = m
      /\ \A i \in 1..Len(r) : i # Len(r) => r[i] = q[i] /\ i \in 1..Len(q) /\ i < Len(r)
  BY <1>1 DEF Placed, Known
<1>3. /\ \A i \in 1..Len(q) : q[i].id \in Nat /\ q[i].id < m.id
      /\ \A h \in Handlers : hd[h].id \in Nat /\ hd[h].id < m.id
      /\ \A t \in 1..Len(ts) : ts[t].msg \in Nat /\ ts[t].msg < m.id
  BY <1>1, KnownFacts
<1> HIDE DEF r
<1>4. Known(r, hd, ts, n + 1)
  <2>1. n + 1 \in 0..MaxMessages /\ \A i \in 1..Len(r) : r[i].id <= n + 1
    BY <1>1, <1>2, <1>3
  <2>2. /\ \A h \in Handlers : hd[h].id <= n + 1
        /\ \A t \in 1..Len(ts) : ts[t].msg <= n + 1
    BY <1>1, <1>3
  <2> QED
    BY <1>2, <2>1, <2>2 DEF Placed, Known
<1>5. Once(r, hd, ts)
  <2>1. ASSUME NEW i \in 1..Len(r), NEW j \in 1..Len(r), r[i].id = r[j].id PROVE i = j
    <3>1. i # Len(r) => r[i] = q[i] /\ i \in 1..Len(q) /\ r[i].id < m.id
      BY <1>2, <1>3
    <3>2. j # Len(r) => r[j] = q[j] /\ j \in 1..Len(q) /\ r[j].id < m.id
      BY <1>2, <1>3
    <3>3. m.id \in Nat /\ r[Len(r)] = m
      BY <1>1, <1>2
    <3>4. i = Len(r) <=> j = Len(r)
      BY <2>1, <3>1, <3>2, <3>3
    <3> QED
      BY <2>1, <3>1, <3>2, <3>4 DEF Placed, Once
  <2>2. \A i \in 1..Len(r), g \in Handlers : r[i].id # hd[g].id
    BY <1>2, <1>3 DEF Placed, Once
  <2>3. \A i \in 1..Len(r), t \in 1..Len(ts) : r[i].id # ts[t].msg
    BY <1>2, <1>3 DEF Placed, Once
  <2> QED
    BY <2>1, <2>2, <2>3 DEF Placed, Once
<1>6. InOrder(r, hd["drain"], ts)
  <2>1. ASSUME NEW i \in 1..Len(r), NEW j \in 1..Len(r),
               i < j, r[i].mode \notin Displaced, r[j].mode \notin Displaced
        PROVE  r[i].id < r[j].id
    <3>1. i # Len(r) /\ r[i] = q[i] /\ i \in 1..Len(q) /\ r[i].id < m.id
      BY <1>2, <1>3, <2>1
    <3>2. CASE j = Len(r)
      BY <1>2, <3>1, <3>2
    <3>3. CASE j # Len(r)
      <4>1. r[j] = q[j] /\ j \in 1..Len(q)
        BY <1>2, <3>3
      <4> QED
        BY <2>1, <3>1, <4>1 DEF Placed, InOrder
    <3> QED
      BY <3>2, <3>3
  <2>2. \A i \in 1..Len(r) :
          hd["drain"].mode \notin Displaced /\ r[i].mode \notin Displaced => hd["drain"].id < r[i].id
    BY <1>2, <1>3 DEF Placed, InOrder, Handlers
  <2>3. \A i \in 1..Len(r), t \in Drained(ts) : r[i].mode \notin Displaced => ts[t].msg < r[i].id
    BY <1>2, <1>3 DEF Placed, InOrder, Drained
  <2> QED
    BY <2>1, <2>2, <2>3 DEF Placed, InOrder
<1> QED
  BY <1>4, <1>5, <1>6 DEF Placed, r, m

(* ... to a handler other than the drain that has none ...                 *)
LEMMA Handed ==
  ASSUME NEW q, NEW hd, NEW ts, NEW n, Placed(q, hd, ts, n), n < MaxMessages,
         NEW mode \in QueuedModes, NEW h \in Handlers, h # "drain"
  PROVE  Placed(q, [hd EXCEPT ![h] = [id |-> n + 1, mode |-> mode]], ts, n + 1)
<1> DEFINE m == [id |-> n + 1, mode |-> mode]
           ld == [hd EXCEPT ![h] = m]
<1>1. m \in Messages /\ m.id = n + 1 /\ n \in Nat
  BY DEF Messages, Placed, Known
<1> HIDE DEF m
<1>2. /\ ld \in [Handlers -> Messages \cup {NoMessage}] /\ ld[h] = m
      /\ \A g \in Handlers : g # h => ld[g] = hd[g]
  BY <1>1 DEF Placed, Known
<1>3. /\ \A i \in 1..Len(q) : q[i].id \in Nat /\ q[i].id < m.id
      /\ \A g \in Handlers : hd[g].id \in Nat /\ hd[g].id < m.id
      /\ \A t \in 1..Len(ts) : ts[t].msg \in Nat /\ ts[t].msg < m.id
  BY <1>1, KnownFacts
<1> HIDE DEF ld
<1>4. Known(q, ld, ts, n + 1)
  <2>1. n + 1 \in 0..MaxMessages /\ \A g \in Handlers : ld[g].id <= n + 1
    BY <1>1, <1>2, <1>3
  <2>2. /\ \A i \in 1..Len(q) : q[i].id <= n + 1
        /\ \A t \in 1..Len(ts) : ts[t].msg <= n + 1
    BY <1>1, <1>3
  <2> QED
    BY <1>2, <2>1, <2>2 DEF Placed, Known
<1>5. Once(q, ld, ts)
  <2>1. Once(q, hd, ts)
    BY DEF Placed
  <2>2. \A g, k \in Handlers : ld[g].id = ld[k].id /\ ld[k].id # 0 => g = k
    BY <1>2, <1>3, <2>1 DEF Once
  <2>3. \A i \in 1..Len(q), g \in Handlers : q[i].id # ld[g].id
    BY <1>2, <1>3, <2>1 DEF Once
  <2>4. \A g \in Handlers, t \in 1..Len(ts) : ld[g].id = ts[t].msg => ld[g].id = 0
    BY <1>2, <1>3, <2>1 DEF Once
  <2> QED
    BY <2>1, <2>2, <2>3, <2>4 DEF Once
<1>6. InOrder(q, ld["drain"], ts)
  BY <1>2 DEF Placed, Handlers
<1> QED
  BY <1>4, <1>5, <1>6 DEF Placed, ld, m

(* ... or starts a turn of its own.                                        *)
LEMMA Sent ==
  ASSUME NEW q, NEW hd, NEW ts, NEW n, Placed(q, hd, ts, n), n < MaxMessages
  PROVE  Placed(q, hd, Append(ts, NewTask("agent", [id |-> n + 1, mode |-> "raw"], "background")),
                n + 1)
<1> DEFINE new == NewTask("agent", [id |-> n + 1, mode |-> "raw"], "background")
           us == Append(ts, new)
<1>1. new \in TaskRecords /\ new.msg = n + 1 /\ new.mode = "raw" /\ n \in Nat
  BY DEF NewTask, TaskRecords, Placed, Known
<1> HIDE DEF new
<1>2. /\ us \in Seq(TaskRecords) /\ Len(ts) \in Nat /\ Len(us) = Len(ts) + 1 /\ us[Len(us)] = new
      /\ \A t \in 1..Len(us) : t # Len(us) => us[t] = ts[t] /\ t \in 1..Len(ts)
  BY <1>1 DEF Placed, Known
<1>3. /\ \A i \in 1..Len(q) : q[i].id \in Nat /\ q[i].id < new.msg
      /\ \A g \in Handlers : hd[g].id \in Nat /\ hd[g].id < new.msg
      /\ \A t \in 1..Len(ts) : ts[t].msg \in Nat /\ ts[t].msg < new.msg
  BY <1>1, KnownFacts
<1> HIDE DEF us
<1>4. Known(q, hd, us, n + 1)
  <2>1. n + 1 \in 0..MaxMessages /\ \A t \in 1..Len(us) : us[t].msg <= n + 1
    BY <1>1, <1>2, <1>3
  <2>2. /\ \A i \in 1..Len(q) : q[i].id <= n + 1
        /\ \A g \in Handlers : hd[g].id <= n + 1
    BY <1>1, <1>3
  <2> QED
    BY <1>2, <2>1, <2>2 DEF Placed, Known
<1>5. Once(q, hd, us)
  <2>1. ASSUME NEW t \in 1..Len(us), NEW u \in 1..Len(us),
               us[t].msg = us[u].msg, us[t].msg # 0
        PROVE  t = u
    <3>1. t # Len(us) => us[t] = ts[t] /\ t \in 1..Len(ts) /\ us[t].msg < new.msg
      BY <1>2, <1>3
    <3>2. u # Len(us) => us[u] = ts[u] /\ u \in 1..Len(ts) /\ us[u].msg < new.msg
      BY <1>2, <1>3
    <3>3. new.msg \in Nat /\ us[Len(us)] = new
      BY <1>1, <1>2
    <3>4. t = Len(us) <=> u = Len(us)
      BY <2>1, <3>1, <3>2, <3>3
    <3> QED
      BY <2>1, <3>1, <3>2, <3>4 DEF Placed, Once
  <2>2. \A i \in 1..Len(q), t \in 1..Len(us) : q[i].id # us[t].msg
    BY <1>2, <1>3 DEF Placed, Once
  <2>3. \A g \in Handlers, t \in 1..Len(us) : hd[g].id = us[t].msg => hd[g].id = 0
    BY <1>2, <1>3 DEF Placed, Once
  <2> QED
    BY <2>1, <2>2, <2>3 DEF Placed, Once
<1>6. \A t \in Drained(us) : t \in Drained(ts) /\ us[t] = ts[t]
  BY <1>1, <1>2 DEF Drained
<1>7. InOrder(q, hd["drain"], us)
  BY <1>6 DEF Placed, InOrder
<1> QED
  BY <1>4, <1>5, <1>7 DEF Placed, us, new

(* Tasks that move on keep their messages; one without a message may come. *)
LEMMA Staged ==
  ASSUME NEW q, NEW hd, NEW ts, NEW us, NEW n, Placed(q, hd, ts, n),
         us \in Seq(TaskRecords), Len(us) = Len(ts),
         \A t \in 1..Len(ts) : us[t].msg = ts[t].msg /\ us[t].mode = ts[t].mode /\ us[t].by = ts[t].by
  PROVE  Placed(q, hd, us, n)
<1>1. Known(q, hd, us, n)
  BY DEF Placed, Known
<1>2. Once(q, hd, us)
  BY DEF Placed, Once
<1>3. Drained(us) = Drained(ts) /\ \A t \in Drained(ts) : us[t].msg = ts[t].msg
  BY DEF Drained
<1> QED
  BY <1>1, <1>3, <1>2 DEF Placed, InOrder

LEMMA Spawned ==
  ASSUME NEW q, NEW hd, NEW ts, NEW n, Placed(q, hd, ts, n),
         NEW w \in TaskRecords, w.msg = 0, w.by = "background"
  PROVE  Placed(q, hd, Append(ts, w), n)
<1> DEFINE us == Append(ts, w)
<1>1. /\ us \in Seq(TaskRecords) /\ Len(ts) \in Nat /\ Len(us) = Len(ts) + 1 /\ us[Len(us)] = w
      /\ \A t \in 1..Len(us) : t # Len(us) => us[t] = ts[t] /\ t \in 1..Len(ts)
  BY DEF Placed, Known
<1>2. \A i \in 1..Len(q) : q[i].id # 0
  BY KnownFacts
<1> HIDE DEF us
<1>3. Known(q, hd, us, n)
  <2>1. \A t \in 1..Len(us) : us[t].msg <= n
    BY <1>1, KnownFacts DEF Placed, Known
  <2> QED
    BY <1>1, <2>1 DEF Placed, Known
<1>4. Once(q, hd, us)
  <2>1. \A t, u \in 1..Len(us) : us[t].msg = us[u].msg /\ us[t].msg # 0 => t = u
    BY <1>1 DEF Placed, Once
  <2>2. \A i \in 1..Len(q), t \in 1..Len(us) : q[i].id # us[t].msg
    BY <1>1, <1>2 DEF Placed, Once
  <2>3. \A g \in Handlers, t \in 1..Len(us) : hd[g].id = us[t].msg => hd[g].id = 0
    BY <1>1 DEF Placed, Once
  <2> QED
    BY <2>1, <2>2, <2>3 DEF Placed, Once
<1>5. \A t \in Drained(us) : t \in Drained(ts) /\ us[t] = ts[t]
  BY <1>1 DEF Drained
<1> QED
  BY <1>3, <1>5, <1>4 DEF Placed, InOrder, us

-----------------------------------------------------------------------------
(* Every step moves the messages so.                                       *)

AllPlaced == Placed(pending, Held, tasks, sent)

(* The initial prompt waits as long as nobody handles it.                  *)
StillWaits == initial' = "waiting" <=> initial = "waiting"

LEMMA HeldFacts ==
  ASSUME TypeOK, InitialWaits
  PROVE  /\ \A h \in Handlers : handler[h] # Idle => Held[h] = handler[h].msg
         /\ \A h \in Handlers : handler[h] # Idle => Held[h] \in Messages
         /\ handler["drain"] = Idle => Held["drain"] = NoMessage
<1>1. \A h \in Handlers : handler[h] # Idle => handler[h].msg \in Messages
  BY DEF TypeOK, Handlings
<1> QED
  BY <1>1 DEF Held, Handlers

(* A handler's message is done with.                                       *)
LEMMA HandlerIdles ==
  ASSUME TypeOK, InitialWaits, StillWaits, NEW h \in Handlers, handler[h] # Idle,
         handler' = [handler EXCEPT ![h] = Idle]
  PROVE  Held' = [Held EXCEPT ![h] = NoMessage]
<1>1. handler'[h] = Idle /\ \A g \in Handlers : g # h => handler'[g] = handler[g]
  BY DEF TypeOK
<1>2. h = "initial" => initial' # "waiting"
  BY DEF InitialWaits, StillWaits
<1> DEFINE hd == [Held EXCEPT ![h] = NoMessage]
<1>3. \A g \in Handlers : Held'[g] = hd[g]
  BY <1>1, <1>2 DEF Held, StillWaits
<1> QED
  BY <1>3 DEF Held

(* The drain has a message in hand.                                        *)
LEMMA DrainHolds ==
  ASSUME TypeOK, StillWaits, NEW m \in Messages,
         handler' = [handler EXCEPT !["drain"] = At("awaiting", m)]
  PROVE  Held' = [Held EXCEPT !["drain"] = m]
<1>1. /\ handler'["drain"] = At("awaiting", m)
      /\ \A g \in Handlers : g # "drain" => handler'[g] = handler[g]
  BY DEF TypeOK, Handlers
<1>2. At("awaiting", m) # Idle /\ At("awaiting", m).msg = m
  BY AtTyped DEF At
<1> DEFINE hd == [Held EXCEPT !["drain"] = m]
<1>3. \A g \in Handlers : Held'[g] = hd[g]
  BY <1>1, <1>2 DEF Held, StillWaits, Handlers
<1> QED
  BY <1>3 DEF Held

LEMMA ReturnPlaces ==
  ASSUME TypeOK, FlagsOwned, InitialWaits, StillWaits, NEW h \in Handlers, handler[h] # Idle,
         NEW queue, Return(h, queue),
         Placed(queue, [Held EXCEPT ![h] = NoMessage], tasks', sent')
  PROVE  AllPlaced'
<1> DEFINE hd == [Held EXCEPT ![h] = NoMessage]
<1>1. CASE pending' = queue /\ handler' = [handler EXCEPT ![h] = Idle]
  BY <1>1, HandlerIdles DEF AllPlaced
<1>2. CASE /\ h = "drain" /\ queue # << >> /\ pending' = popleft(queue).rest
           /\ handler' = [handler EXCEPT !["drain"] = At("awaiting", popleft(queue).msg)]
  <2>1. Head(queue) \in Messages
    BY <1>2, HeadTailProperties DEF Placed, Known
  <2>2. Held' = [Held EXCEPT !["drain"] = Head(queue)] /\ pending' = Tail(queue)
    BY <1>2, <2>1, DrainHolds DEF popleft
  <2>3. hd["drain"] = NoMessage /\ [hd EXCEPT !["drain"] = Head(queue)] = Held'
    BY <1>2, <2>2 DEF Held
  <2>4. Placed(queue, hd, tasks', sent')
    OBVIOUS
  <2> HIDE DEF hd
  <2>5. Placed(Tail(queue), [hd EXCEPT !["drain"] = Head(queue)], tasks', sent')
    BY <1>2, <2>3, <2>4, Taken
  <2> QED
    BY <2>2, <2>3, <2>5 DEF AllPlaced
<1> QED
  BY <1>1, <1>2 DEF Return, DrainEnds

(* A drain that starts moves the oldest message ...                        *)
LEMMA TakeUpPlaces ==
  ASSUME TypeOK, FlagsOwned, InitialWaits, UNCHANGED initial, NEW pump, ~processing,
         NEW queue \in Seq(Messages), queue # << >>, TakeUp(queue, pump),
         Placed(queue, Held, tasks', sent')
  PROVE  AllPlaced'
<1>1. /\ pending' = Tail(queue)
      /\ handler' = [handler EXCEPT !["drain"] = At("awaiting", Head(queue))]
  BY DEF TakeUp, popleft
<1>2. Head(queue) \in Messages
  BY HeadTailProperties
<1>3. Held' = [Held EXCEPT !["drain"] = Head(queue)]
  BY <1>1, <1>2, DrainHolds DEF StillWaits
<1>4. Held["drain"] = NoMessage
  BY HeldFacts DEF FlagsOwned
<1> QED
  BY <1>1, <1>3, <1>4, Taken DEF AllPlaced

(* ... or nothing.                                                         *)
LEMMA DrainPlaces ==
  ASSUME TypeOK, FlagsOwned, InitialWaits, UNCHANGED initial, NEW pump,
         _process_next_from_queue(pump), Placed(pending, Held, tasks', sent')
  PROVE  AllPlaced'
<1>1. CASE processing \/ pending = << >>
  BY <1>1 DEF _process_next_from_queue, AllPlaced, Held
<1>2. CASE ~(processing \/ pending = << >>)
  BY <1>2, TakeUpPlaces DEF _process_next_from_queue, TypeOK
<1> QED
  BY <1>1, <1>2

LEMMA InitPlaced == Init => AllPlaced
<1> SUFFICES ASSUME Init PROVE AllPlaced
  OBVIOUS
<1>1. /\ pending = << >> /\ tasks = << >> /\ pending \in Seq(Messages)
      /\ tasks \in Seq(TaskRecords) /\ 1..Len(pending) = {} /\ 1..Len(tasks) = {}
  BY DEF Init
<1>2. Held = [h \in Handlers |-> IF h = "initial" /\ initial = "waiting"
                                 THEN [id |-> 1, mode |-> "normal"] ELSE NoMessage]
  BY DEF Init, Held
<1>3. [id |-> 1, mode |-> "normal"] \in Messages
  BY DEF Messages, Modes
<1>4. sent = (IF initial = "waiting" THEN 1 ELSE 0)
  BY DEF Init
<1>5. Known(pending, Held, tasks, sent)
  BY <1>1, <1>2, <1>3, <1>4 DEF Known, NoMessage
<1>6. Once(pending, Held, tasks)
  BY <1>1, <1>2 DEF Once, NoMessage
<1>7. InOrder(pending, Held["drain"], tasks)
  BY <1>1 DEF InOrder, Drained
<1> QED
  BY <1>5, <1>6, <1>7 DEF AllPlaced, Placed

LEMMA SubmitPlaces ==
  ASSUME TypeOK, FlagsOwned, InitialWaits, AllPlaced, NEW mode \in Modes, Submit(mode)
  PROVE  AllPlaced'
<1> DEFINE m == [id |-> sent + 1, mode |-> mode]
<1>1. /\ sent < MaxMessages /\ sent' = sent + 1 /\ UNCHANGED <<initial, tasks>>
      /\ handler["pump"] = Idle
      /\ \/ pending' = Append(pending, m) /\ UNCHANGED handler
         \/ handler' = [handler EXCEPT !["pump"] = At("awaiting", m)] /\ UNCHANGED pending
  BY DEF Submit, NewMessage, PumpFree
<1>2. CASE pending' = Append(pending, m) /\ UNCHANGED handler
  <2>1. Held' = Held
    BY <1>1, <1>2 DEF Held
  <2>2. Placed(Append(pending, m), Held, tasks, sent + 1)
    BY <1>1, Queued DEF AllPlaced
  <2> QED
    BY <1>1, <1>2, <2>1, <2>2 DEF AllPlaced
<1>3. CASE handler' = [handler EXCEPT !["pump"] = At("awaiting", m)] /\ UNCHANGED pending
  <2>1. m \in Messages
    BY <1>1 DEF Messages, TypeOK
  <2>2. Placed(pending, [Held EXCEPT !["pump"] = m], tasks, sent + 1)
    BY <1>1, Handed DEF AllPlaced, Handlers
  <2> HIDE DEF m
  <2>3. /\ handler'["pump"] = At("awaiting", m)
        /\ \A g \in Handlers : g # "pump" => handler'[g] = handler[g]
    BY <1>3 DEF TypeOK, Handlers
  <2>4. At("awaiting", m) # Idle /\ At("awaiting", m).msg = m
    BY <2>1, AtTyped DEF At
  <2>5. Held' = [Held EXCEPT !["pump"] = m]
    BY <1>1, <2>3, <2>4 DEF Held, Handlers
  <2> QED
    BY <1>1, <1>3, <2>2, <2>5 DEF AllPlaced
<1> QED
  BY <1>1, <1>2, <1>3

LEMMA BackgroundPlaces == ASSUME AllPlaced, BackgroundPrompt PROVE AllPlaced'
<1>1. sent < MaxMessages /\ sent' = sent + 1 /\ Held' = Held
  BY DEF BackgroundPrompt, Held
<1>2. \/ /\ \E mode \in QueuedModes : pending' = Append(pending, [id |-> sent + 1, mode |-> mode])
         /\ UNCHANGED tasks
      \/ /\ tasks' = Append(tasks, NewTask("agent", [id |-> sent + 1, mode |-> "raw"], "background"))
         /\ UNCHANGED pending
  BY DEF BackgroundPrompt, NewMessage, Start
<1>3. CASE /\ \E mode \in QueuedModes : pending' = Append(pending, [id |-> sent + 1, mode |-> mode])
           /\ UNCHANGED tasks
  <2>1. PICK mode \in QueuedModes : pending' = Append(pending, [id |-> sent + 1, mode |-> mode])
    BY <1>3
  <2>2. Placed(Append(pending, [id |-> sent + 1, mode |-> mode]), Held, tasks, sent + 1)
    BY <1>1, Queued DEF AllPlaced
  <2> QED
    BY <1>1, <1>3, <2>1, <2>2 DEF AllPlaced
<1>4. CASE /\ tasks' = Append(tasks, NewTask("agent", [id |-> sent + 1, mode |-> "raw"], "background"))
           /\ UNCHANGED pending
  BY <1>1, <1>4, Sent DEF AllPlaced
<1> QED
  BY <1>2, <1>3, <1>4

LEMMA PollPlaces ==
  ASSUME TypeOK, FlagsOwned, InitialWaits, AllPlaced, PollSessionQueue PROVE AllPlaced'
<1>1. PICK n \in 1..(MaxMessages - sent) :
        /\ sent' = sent + n /\ UNCHANGED <<initial, tasks>>
        /\ \/ /\ processing /\ pending' = Pulled(n)
              /\ UNCHANGED <<processing, handler, on_pump>>
           \/ ~processing /\ \E pump \in BOOLEAN : TakeUp(Pulled(n), pump)
  BY DEF PollSessionQueue, Pulled
<1>2. Placed(<< >>, Held, tasks, sent)
  BY DEF PollSessionQueue, AllPlaced
<1>3. Placed(Pulled(n), Held, tasks', sent')
  BY <1>1, <1>2, Filled DEF Pulled
<1>4. Pulled(n) \in Seq(Messages) /\ Pulled(n) # << >>
  <2>1. n \in Nat /\ 0 < n
    BY DEF TypeOK
  <2>2. Pulled(n) \in Seq(Messages)
    BY <1>3 DEF Placed, Known
  <2>3. Len(Pulled(n)) = n
    BY <2>1 DEF Pulled
  <2> QED
    BY <2>1, <2>2, <2>3
<1>5. CASE pending' = Pulled(n) /\ UNCHANGED handler
  BY <1>1, <1>3, <1>5 DEF AllPlaced, Held
<1> QED
  BY <1>1, <1>3, <1>4, <1>5, TakeUpPlaces

(* What every handler's step has in common.                                *)
LEMMA HandlerPlaces ==
  ASSUME TypeOK, FlagsOwned, InitialWaits, AllPlaced, NEW h \in Handlers,
         NEW s \in {"awaiting", "reading", "compacting", "compacted"}, NEW modes,
         Handling(h, s, modes),
         UNCHANGED initial \/ Became(h, "begun") \/ Became(h, "dropped")
  PROVE  /\ handler[h] # Idle /\ Held[h] = handler[h].msg /\ Held[h] \in Messages
         /\ sent' = sent /\ StillWaits
         /\ Placed(pending, [Held EXCEPT ![h] = NoMessage], tasks, sent)
<1>1. handler[h] # Idle /\ sent' = sent
  BY MessageInHand DEF Handling
<1>2. h = "initial" => initial # "waiting"
  BY <1>1 DEF InitialWaits
<1> QED
  BY <1>1, <1>2, HeldFacts, LetGo DEF AllPlaced, StillWaits, Became

LEMMA HandlePlaces ==
  ASSUME TypeOK, FlagsOwned, InitialWaits, AllPlaced, NEW h \in Handlers, Handle(h)
  PROVE  AllPlaced'
<1> DEFINE m == handler[h].msg
           hd == [Held EXCEPT ![h] = NoMessage]
<1>a. ASSUME NEW kind \in {"agent", "session", "shell"}, Start(kind, m, h),
             handler[h] # Idle, sent' = sent, StillWaits, Return(h, pending)
      PROVE  AllPlaced'
  <2>1. Held[h] = m /\ Held[h] \in Messages
    BY <1>a, HeldFacts
  <2>2. Placed(pending, hd, Append(tasks, NewTask(kind, Held[h], h)), sent)
    BY <2>1, Begun DEF AllPlaced
  <2>3. Placed(pending, hd, tasks', sent')
    BY <1>a, <2>1, <2>2 DEF Start
  <2> QED
    BY <1>a, <2>3, ReturnPlaces
<1>1. CASE UserTurn(h)
  <2>1. /\ Handling(h, "awaiting", UserModes) /\ Start("agent", m, h)
        /\ Return(h, pending) /\ Became(h, "begun")
    BY <1>1 DEF UserTurn
  <2> QED
    BY <2>1, <1>a, HandlerPlaces
<1>2. CASE NoTurn(h)
  <2>1. /\ Handling(h, "awaiting", UserModes \cup {"command"}) /\ UNCHANGED tasks
        /\ Return(h, pending) /\ Became(h, "dropped")
    BY <1>2 DEF NoTurn
  <2>2. /\ handler[h] # Idle /\ StillWaits /\ Placed(pending, hd, tasks', sent')
    BY <2>1, HandlerPlaces
  <2> QED
    BY <2>1, <2>2, ReturnPlaces
<1>3. CASE ShellCommand(h) \/ SessionCommand(h)
  <2>1. PICK kind \in {"agent", "session", "shell"}, modes \in {{"shell"}, {"command"}} :
          /\ Handling(h, "awaiting", modes) /\ Start(kind, m, h)
          /\ Return(h, pending) /\ UNCHANGED initial
    BY <1>3 DEF ShellCommand, SessionCommand
  <2> QED
    BY <2>1, <1>a, HandlerPlaces
<1>4. CASE Prompt(h)
  <2>1. /\ Handling(h, "awaiting", {"command", "raw"})
        /\ _send_prompt_to_agent(h, m) /\ UNCHANGED initial
    BY <1>4 DEF Prompt
  <2>2. /\ handler[h] # Idle /\ Held[h] = m /\ Held[h] \in Messages
        /\ sent' = sent /\ StillWaits /\ Placed(pending, hd, tasks, sent)
    BY <2>1, HandlerPlaces
  <2>3. CASE Start("agent", m, h) /\ Return(h, pending)
    BY <1>a, <2>2, <2>3
  <2>4. CASE UNCHANGED tasks /\ Return(h, pending)
    BY <2>2, <2>4, ReturnPlaces
  <2>5. CASE UNCHANGED tasks /\ Return(h, Append(pending, [m EXCEPT !.mode = "raw"]))
    <3>1. Placed(Append(pending, [Held[h] EXCEPT !.mode = "raw"]), hd, tasks, sent)
      BY <2>2, Deferred DEF AllPlaced
    <3>2. Placed(Append(pending, [m EXCEPT !.mode = "raw"]), hd, tasks', sent')
      BY <2>2, <2>5, <3>1
    <3> QED
      BY <2>2, <2>5, <3>2, ReturnPlaces
  <2> QED
    BY <2>1, <2>3, <2>4, <2>5 DEF _send_prompt_to_agent
<1>5. CASE ClearCommand(h) \/ CompactNothing(h)
  <2>1. PICK s \in {"awaiting", "reading"}, q \in {pending, << >>} :
          /\ Handling(h, s, {"command"}) /\ UNCHANGED tasks
          /\ Return(h, q) /\ UNCHANGED initial
    BY <1>5 DEF ClearCommand, CompactNothing
  <2>2. /\ handler[h] # Idle /\ StillWaits /\ Placed(pending, hd, tasks', sent')
    BY <2>1, HandlerPlaces
  <2> HIDE DEF hd
  <2>3. Placed(q, hd, tasks', sent')
    BY <2>2, Emptied
  <2> QED
    BY <2>1, <2>2, <2>3, ReturnPlaces DEF hd
<1>6. CASE CompactReads(h) \/ CompactBegins(h) \/ CompactEnds(h)
  <2>1. PICK s \in {"awaiting", "reading", "compacting"}, u \in {"reading", "compacting", "compacted"} :
          Handling(h, s, {"command"}) /\ MoveTo(h, u) /\ UNCHANGED <<initial, tasks>>
    BY <1>6 DEF CompactReads, CompactBegins, CompactEnds
  <2>2. handler[h] \in Handlings /\ handler[h] # Idle /\ sent' = sent
    BY <2>1, MessageInHand DEF Handling
  <2>3. /\ [handler[h] EXCEPT !.stage = u].msg = handler[h].msg
        /\ [handler[h] EXCEPT !.stage = u] # Idle
    BY <2>2 DEF Handlings, Idle
  <2>4. /\ handler' = [handler EXCEPT ![h] = [handler[h] EXCEPT !.stage = u]]
        /\ UNCHANGED pending
    BY <2>1 DEF MoveTo
  <2>5. handler'[h].msg = handler[h].msg /\ handler'[h] # Idle
        /\ \A g \in Handlers : g # h => handler'[g] = handler[g]
    BY <2>3, <2>4 DEF TypeOK
  <2>6. Held' = Held
    BY <2>1, <2>2, <2>5 DEF Held
  <2> QED
    BY <2>1, <2>2, <2>4, <2>6 DEF AllPlaced
<1>7. CASE CompactDrains(h)
  <2>1. Handling(h, "compacted", {"command"}) /\ UNCHANGED <<initial, tasks>>
    BY <1>7 DEF CompactDrains
  <2>2. /\ handler[h] # Idle /\ sent' = sent /\ StillWaits /\ Placed(pending, hd, tasks', sent')
    BY <2>1, HandlerPlaces
  <2>3. CASE Return(h, pending)
    BY <2>2, <2>3, ReturnPlaces
  <2>4. CASE /\ ~processing /\ pending # << >> /\ pending' = popleft(pending).rest
             /\ handler' = [handler EXCEPT ![h] = Idle,
                              !["drain"] = At("awaiting", popleft(pending).msg)]
    <3> DEFINE n == Head(pending)
    <3>1. n \in Messages
      BY <2>4, HeadTailProperties DEF TypeOK
    <3>2. pending' = Tail(pending)
          /\ handler' = [handler EXCEPT ![h] = Idle, !["drain"] = At("awaiting", n)]
      BY <2>4 DEF popleft
    <3>3. handler["drain"] = Idle /\ h # "drain"
      BY <2>2, <2>4 DEF FlagsOwned
    <3>4. hd["drain"] = NoMessage
      BY <3>3, HeldFacts DEF Handlers, Held
    <3>5. Placed(Tail(pending), [hd EXCEPT !["drain"] = Head(pending)], tasks', sent')
      <4> HIDE DEF hd
      <4> QED
        BY <2>2, <2>4, <3>4, Taken
    <3> HIDE DEF n
    <3>6. /\ handler'[h] = Idle /\ handler'["drain"] = At("awaiting", n)
          /\ \A g \in Handlers : g # h /\ g # "drain" => handler'[g] = handler[g]
      BY <3>2, <3>3 DEF TypeOK, Handlers
    <3>7. At("awaiting", n) # Idle /\ At("awaiting", n).msg = n
      BY <3>1, AtTyped DEF At
    <3>8. h = "initial" => initial' # "waiting"
      BY <2>2 DEF InitialWaits, StillWaits
    <3>9. Held' = [hd EXCEPT !["drain"] = n]
      BY <3>3, <3>6, <3>7, <3>8, <2>2 DEF Held, Handlers, StillWaits
    <3> QED
      BY <3>2, <3>5, <3>9 DEF AllPlaced, n
  <2> QED
    BY <1>7, <2>3, <2>4 DEF CompactDrains
<1>8. CASE SteerCommand(h)
  <2> DEFINE q == Append(pending, [id |-> sent + 1, mode |-> "steered"])
  <2>1. /\ handler[h].stage = "awaiting" /\ sent < MaxMessages /\ sent' = sent + 1
        /\ UNCHANGED <<initial, tasks>> /\ Return(h, q)
    BY <1>8 DEF SteerCommand, NewMessage
  <2>2. handler[h] # Idle
    BY <2>1, MessageInHand
  <2>3. Placed(pending, hd, tasks, sent)
    BY LetGo DEF AllPlaced
  <2> HIDE DEF hd
  <2>4. Placed(q, hd, tasks, sent + 1)
    BY <2>1, <2>3, Queued
  <2>5. Placed(q, hd, tasks', sent')
    BY <2>1, <2>4
  <2> HIDE DEF q
  <2> QED
    BY <2>1, <2>2, <2>5, ReturnPlaces DEF hd, StillWaits
<1>9. CASE EditCommand(h) \/ DropCommand(h)
  <2>1. Handling(h, "awaiting", {"command"}) /\ UNCHANGED <<initial, tasks>>
    BY <1>9 DEF EditCommand, DropCommand
  <2>2. /\ handler[h] # Idle /\ StillWaits /\ Placed(pending, hd, tasks', sent')
    BY <2>1, HandlerPlaces
  <2>3. PICK i \in DOMAIN pending : Return(h, Rewritten(pending, i)) \/ Return(h, Without(pending, i))
    BY <1>9 DEF EditCommand, DropCommand, Rewritten
  <2> HIDE DEF hd
  <2>4. Placed(Rewritten(pending, i), hd, tasks', sent') /\ Placed(Without(pending, i), hd, tasks', sent')
    BY <2>2, Reworded, Dropped
  <2> QED
    BY <2>2, <2>3, <2>4, ReturnPlaces DEF hd
<1> QED
  BY <1>1, <1>2, <1>3, <1>4, <1>5, <1>6, <1>7, <1>8, <1>9 DEF Handle

(* A task's stage is no matter.                                            *)
LEMMA StagePlaces ==
  ASSUME TypeOK, AllPlaced, NEW t \in TaskIds,
         NEW s \in Stages, Stage(t, s)
  PROVE  Placed(pending, Held, tasks', sent)
<1> DEFINE new == [tasks[t] EXCEPT !.stage = s]
<1>1. tasks \in Seq(TaskRecords) /\ tasks[t] \in TaskRecords /\ t \in 1..Len(tasks)
  BY DEF TypeOK, TaskIds
<1>2. /\ new \in TaskRecords /\ new.msg = tasks[t].msg /\ new.mode = tasks[t].mode
      /\ new.by = tasks[t].by
  BY <1>1 DEF TaskRecords
<1>3. tasks' = [tasks EXCEPT ![t] = new]
  BY DEF Stage
<1> HIDE DEF new
<1>4. /\ tasks' \in Seq(TaskRecords) /\ Len(tasks') = Len(tasks) /\ tasks'[t] = new
      /\ \A u \in 1..Len(tasks) \ {t} : tasks'[u] = tasks[u]
  BY <1>1, <1>2, <1>3, ExceptSeq
<1>5. \A u \in 1..Len(tasks) : /\ tasks'[u].msg = tasks[u].msg /\ tasks'[u].mode = tasks[u].mode
                               /\ tasks'[u].by = tasks[u].by
  BY <1>2, <1>4
<1> QED
  BY <1>4, <1>5, Staged DEF AllPlaced

LEMMA ProceedPlaces ==
  ASSUME TypeOK, FlagsOwned, InitialWaits, AllPlaced, NEW t \in TaskIds, Proceed(t)
  PROVE  AllPlaced'
<1>1. PICK s \in Stages :
        /\ Stage(t, s) /\ UNCHANGED <<initial, sent>>
        /\ (UNCHANGED <<pending, handler>>) \/ _process_next_from_queue(FALSE)
  BY DEF Proceed, Begin, TurnSettles, TurnEnds, CleanupDrains, SessionEnds, SpawnedDrain,
     ShellEnds, ShellKilled, ShellDrains, Task
<1>2. Placed(pending, Held, tasks', sent')
  BY <1>1, StagePlaces
<1>3. CASE UNCHANGED <<pending, handler>>
  BY <1>1, <1>2, <1>3 DEF AllPlaced, Held
<1> QED
  BY <1>1, <1>2, <1>3, DrainPlaces

LEMMA InterruptPlaces == ASSUME TypeOK, AllPlaced, Interrupt PROVE AllPlaced'
<1>1. PICK t \in TaskIds : Stage(t, Cancelled(t))
  BY DEF Interrupt, TypeOK, NoTask
<1>2. UNCHANGED <<initial, handler, sent>> /\ pending' = << >>
  BY DEF Interrupt
<1>3. tasks[t] \in TaskRecords
  BY DEF TypeOK, TaskIds
<1>4. Cancelled(t) \in Stages
  <2>1. CASE tasks[t].kind = "agent" /\ tasks[t].stage = "finalising"
    BY <2>1 DEF Cancelled
  <2>2. CASE tasks[t].kind = "shell" /\ tasks[t].stage = "running"
    BY <2>2 DEF Cancelled
  <2>3. CASE tasks[t].stage = "created"
    BY <2>3 DEF Cancelled
  <2>4. CASE /\ ~(tasks[t].kind = "agent" /\ tasks[t].stage = "finalising")
             /\ ~(tasks[t].kind = "shell" /\ tasks[t].stage = "running")
             /\ tasks[t].stage # "created"
    BY <2>4, <1>3 DEF Cancelled, TaskRecords
  <2> QED
    BY <2>1, <2>2, <2>3, <2>4
<1>5. Placed(pending, Held, tasks', sent)
  BY <1>1, <1>4, StagePlaces
<1>6. Held' = Held
  BY <1>2 DEF Held
<1> QED
  BY <1>2, <1>5, <1>6, Emptied DEF AllPlaced

LEMMA ServerPlaces ==
  ASSUME TypeOK, InitialWaits, AllPlaced, ServerReady \/ ServerFails PROVE AllPlaced'
<1>1. CASE ServerFails
  <2>1. Held' = Held /\ UNCHANGED <<tasks, sent>> /\ pending' = << >>
    BY <1>1 DEF ServerFails, Held
  <2> QED
    BY <2>1, Emptied DEF AllPlaced
<1>2. CASE ServerReady
  <2> DEFINE m == [id |-> 1, mode |-> "normal"]
             w == [kind |-> "spawned", stage |-> "cleaning", msg |-> 0, mode |-> "raw",
                   by |-> "background"]
  <2>1. /\ UNCHANGED <<pending, sent>>
        /\ \/ /\ initial = "waiting" /\ initial' = "handling" /\ UNCHANGED tasks
              /\ handler' = [handler EXCEPT !["initial"] = At("awaiting", m)]
           \/ tasks' = Append(tasks, w) /\ UNCHANGED <<initial, handler>>
           \/ UNCHANGED <<initial, handler, tasks>>
    BY <1>2 DEF ServerReady
  <2>2. CASE /\ initial = "waiting" /\ initial' = "handling" /\ UNCHANGED tasks
             /\ handler' = [handler EXCEPT !["initial"] = At("awaiting", m)]
    <3>1. /\ handler'["initial"] = At("awaiting", m) /\ handler["initial"] = Idle
          /\ \A g \in Handlers : g # "initial" => handler'[g] = handler[g]
      BY <2>2 DEF TypeOK, Handlers, InitialWaits
    <3>2. At("awaiting", m) # Idle /\ At("awaiting", m).msg = m
      BY DEF At, Idle
    <3>3. Held' = Held
      BY <2>2, <3>1, <3>2 DEF Held
    <3> QED
      BY <2>1, <2>2, <3>3 DEF AllPlaced
  <2>3. CASE tasks' = Append(tasks, w) /\ UNCHANGED <<initial, handler>>
    <3>1. w \in TaskRecords /\ w.msg = 0 /\ w.by = "background"
      BY DEF TaskRecords, Modes, Handlers
    <3> HIDE DEF w
    <3>2. Placed(pending, Held, Append(tasks, w), sent)
      BY <3>1, Spawned DEF AllPlaced
    <3>3. Held' = Held
      BY <2>3 DEF Held
    <3> QED
      BY <2>1, <2>3, <3>2, <3>3 DEF AllPlaced
  <2>4. CASE UNCHANGED <<initial, handler, tasks>>
    BY <2>1, <2>4 DEF AllPlaced, Held
  <2> QED
    BY <2>1, <2>2, <2>3, <2>4
<1> QED
  BY <1>1, <1>2

LEMMA StepPlaces == TInv /\ InitialWaits /\ AllPlaced /\ [Next]_vars => AllPlaced'
<1> SUFFICES ASSUME TypeOK, FlagsOwned, InitialWaits, AllPlaced, [Next]_vars PROVE AllPlaced'
  BY DEF TInv
<1>1. CASE UNCHANGED vars
  BY <1>1 DEF AllPlaced, Held, vars
<1> QED
  BY <1>1, SubmitPlaces, BackgroundPlaces, PollPlaces, HandlePlaces, ProceedPlaces, InterruptPlaces,
     ServerPlaces DEF Next

THEOREM Placement == Spec => []AllPlaced
BY InitPlaced, StepPlaces, TurnInvariance, PTL DEF Spec

LEMMA PlacedIsOnce ==
  ASSUME TypeOK, AllPlaced PROVE MessageOnce
<1> DEFINE places(id) ==
        {<<"queue", i>> : i \in {j \in DOMAIN pending : pending[j].id = id}}
        \cup {<<"handler", h>> : h \in {g \in Handlers : handler[g] # Idle
                                             /\ handler[g].msg.id = id}}
        \cup {<<"task", t>> : t \in {u \in TaskIds : tasks[u].msg = id}}
<1>1. Once(pending, Held, tasks)
  BY DEF AllPlaced, Placed
<1>2. DOMAIN pending = 1..Len(pending) /\ \A h \in Handlers : handler[h] # Idle => Held[h] = handler[h].msg
  BY DEF TypeOK, Held
<1>3. ASSUME NEW id \in 1..MaxMessages, NEW x \in places(id), NEW y \in places(id)
      PROVE  x = y
  <2>1. id # 0
    OBVIOUS
  <2>2. CASE \E i \in DOMAIN pending : x = <<"queue", i>> /\ pending[i].id = id
    BY <1>1, <1>2, <1>3, <2>1, <2>2 DEF Once, TaskIds
  <2>3. CASE \E h \in Handlers : x = <<"handler", h>> /\ handler[h] # Idle /\ handler[h].msg.id = id
    BY <1>1, <1>2, <1>3, <2>1, <2>3 DEF Once, TaskIds
  <2>4. CASE \E t \in TaskIds : x = <<"task", t>> /\ tasks[t].msg = id
    BY <1>1, <1>2, <1>3, <2>1, <2>4 DEF Once, TaskIds
  <2> QED
    BY <1>3, <2>2, <2>3, <2>4
<1>4. \A id \in 1..MaxMessages : Cardinality(places(id)) <= 1
  <2> HIDE DEF places
  <2> QED
    BY <1>3, AtMostOne
<1> QED
  BY <1>4 DEF MessageOnce

(* A message is in one place at a time, whatever is typed, sent, cancelled *)
(* or compacted meanwhile: no message starts two tasks.                    *)
THEOREM MessagesRunOnce == Spec => []MessageOnce
<1>1. TInv /\ AllPlaced => MessageOnce
  BY PlacedIsOnce DEF TInv
<1> QED
  BY <1>1, TurnInvariance, Placement, PTL

(* What the drain starts, it starts in the order it was typed.             *)
THEOREM DrainKeepsOrder == Spec => []DrainedInOrder
<1>1. AllPlaced => DrainedInOrder
  BY DEF AllPlaced, Placed, InOrder, Drained, DrainedInOrder, TaskIds
<1> QED
  BY <1>1, Placement, PTL
=============================================================================
