------------------------------ MODULE TurnLoop ------------------------------
(***************************************************************************)
(* The turn loop of the CLI application (bog_agents_cli/app.py and         *)
(* turn_manager.py).  A user submission, a queued message, a background    *)
(* prompt (pipeline step, file watch, scheduled Peat job) or a slash       *)
(* command starts a turn; while one runs, other messages wait in           *)
(* `_pending_messages`, and the end of a turn drains that queue.           *)
(*                                                                         *)
(* Everything runs on one event loop: what lies between two awaits is one  *)
(* step here.  User input is handled by the message pump, one message at a *)
(* time; turns, shell commands and drains are tasks of the loop.           *)
(***************************************************************************)
EXTENDS Naturals, FiniteSets, Sequences

CONSTANTS MaxMessages,    \* bound: messages ever submitted or sent
          MaxInterrupts   \* bound: Esc or Ctrl+C presses

ASSUME MaxMessagesAssumption   == MaxMessages \in Nat \ {0}
ASSUME MaxInterruptsAssumption == MaxInterrupts \in Nat

VARIABLES
  server,           \* "connecting", then "ready" or "failed"
  initial,          \* what became of the initial prompt, if there is one
  agent_running,    \* TurnManager.agent_running
  agent_worker,     \* TurnManager.agent_worker: a task, or NoTask
  shell_running,    \* TurnManager.shell_running
  shell_worker,     \* _shell_worker
  pending,          \* _pending_messages
  processing,       \* _processing_pending
  handler,          \* who is in the middle of handling which message
  on_pump,          \* the drain in progress was awaited by the pump itself
  tasks,            \* the workers and spawned tasks, in the order they started
  sent,             \* messages so far
  interrupts        \* interrupts so far

flags == <<agent_running, agent_worker, shell_running, shell_worker>>
vars  == <<server, initial, flags, pending, processing, handler, on_pump,
           tasks, sent, interrupts>>

NoTask   == 0
TaskIds  == 1..Len(tasks)
Handlers == {"pump", "drain", "initial"}
Modes    == {"normal", "shell", "command"}
\* What a queued message is besides: a prompt that goes straight to the agent
\* ("raw"), one of those rewritten by the user, or a prompt put there by /tasks.
QueuedModes == Modes \cup {"raw", "edited", "steered"}
UserModes   == {"normal", "edited", "steered"}
Displaced   == {"raw", "edited"}    \* these may have been queued a second time
Messages    == [id : 1..MaxMessages, mode : QueuedModes]

Idle      == [stage |-> "idle"]
At(s, m)  == [stage |-> s, msg |-> m]
Handlings == [stage : {"awaiting", "reading", "compacting", "compacted"}, msg : Messages]
Stages == {"created", "running", "finalising", "cancelled", "cleaning", "lost", "done"}
TaskRecords ==
  [kind : {"agent", "session", "shell", "spawned"},
   stage : Stages, msg : 0..MaxMessages, mode : QueuedModes,
   by : Handlers \cup {"background"}]
NewTask(kind, m, by) == [kind |-> kind, stage |-> "created", msg |-> m.id,
                         mode |-> m.mode, by |-> by]

\* TurnManager.busy
Busy == agent_running \/ shell_running

\* The pump takes the next event only when nothing it awaits is left.
PumpFree == handler["pump"] = Idle /\ ~on_pump

TypeOK ==
  /\ server \in {"connecting", "ready", "failed"}
  /\ initial \in {"none", "waiting", "handling", "begun", "dropped"}
  /\ agent_running \in BOOLEAN /\ shell_running \in BOOLEAN
  /\ agent_worker \in {NoTask} \cup {t \in TaskIds : tasks[t].kind \in {"agent", "session"}}
  /\ shell_worker \in {NoTask} \cup {t \in TaskIds : tasks[t].kind = "shell"}
  /\ pending \in Seq(Messages)
  /\ processing \in BOOLEAN /\ on_pump \in BOOLEAN
  /\ handler \in [Handlers -> {Idle} \cup Handlings]
  /\ tasks \in Seq(TaskRecords)
  /\ sent \in 0..MaxMessages
  /\ interrupts \in 0..MaxInterrupts

Init ==
  /\ server = "connecting"
  /\ initial \in {"none", "waiting"}
  /\ agent_running = FALSE /\ agent_worker = NoTask
  /\ shell_running = FALSE /\ shell_worker = NoTask
  /\ pending = << >> /\ processing = FALSE /\ on_pump = FALSE
  /\ handler = [h \in Handlers |-> Idle]
  /\ tasks = << >>
  /\ sent = (IF initial = "waiting" THEN 1 ELSE 0)    \* the prompt is message 1
  /\ interrupts = 0

-----------------------------------------------------------------------------
(* TurnManager *)

begin_agent(task) == agent_running' = TRUE /\ agent_worker' = task
end_agent == agent_running' = FALSE /\ agent_worker' = NoTask
begin_shell(task) == shell_running' = TRUE /\ shell_worker' = task
end_shell == shell_running' = FALSE /\ shell_worker' = NoTask

AgentUnchanged == UNCHANGED <<agent_running, agent_worker>>
ShellUnchanged == UNCHANGED <<shell_running, shell_worker>>

Start(kind, m, by) == tasks' = Append(tasks, NewTask(kind, m, by))
NewId == Len(tasks) + 1

popright(queue) == [msg |-> queue[Len(queue)], rest |-> SubSeq(queue, 1, Len(queue) - 1)]
peekleft(queue) == [msg |-> Head(queue), rest |-> queue]

\* deque.popleft(): what a drain takes, and what it leaves.
popleft(queue) == [msg |-> Head(queue), rest |-> Tail(queue)]

\* A drain starts with the oldest message of `queue`.
TakeUp(queue, pump) ==
  /\ processing' = TRUE
  /\ pending' = popleft(queue).rest
  /\ handler' = [handler EXCEPT !["drain"] = At("awaiting", popleft(queue).msg)]
  /\ on_pump' = pump

\* _process_next_from_queue up to its first await: nothing when a drain is in
\* progress or the queue is empty, else the oldest message is taken.
_process_next_from_queue(pump) ==
  IF processing \/ pending = << >>
  THEN UNCHANGED <<pending, processing, handler, on_pump>>
  ELSE TakeUp(pending, pump)

\* The end of _process_next_from_queue: release the flag and, when the message
\* left no turn behind, take the next one; `queue` is what is pending by then.
DrainEnds(queue) ==
  IF ~(agent_running' \/ shell_running') /\ queue # << >>
  THEN /\ pending' = popleft(queue).rest
       /\ handler' = [handler EXCEPT !["drain"] =
                         At("awaiting", popleft(queue).msg)]
       /\ UNCHANGED <<processing, on_pump>>
  ELSE /\ pending' = queue
       /\ handler' = [handler EXCEPT !["drain"] = Idle]
       /\ processing' = FALSE /\ on_pump' = FALSE

\* The handling of a message by `h` returns, leaving `queue` pending.
Return(h, queue) ==
  \/ /\ h = "drain"
     /\ DrainEnds(queue)
  \/ /\ h # "drain"
     /\ pending' = queue
     /\ handler' = [handler EXCEPT ![h] = Idle]
     /\ UNCHANGED <<processing, on_pump>>

MoveTo(h, stage) ==
  /\ handler' = [handler EXCEPT ![h].stage = stage]
  /\ UNCHANGED <<pending, processing, on_pump>>

\* What the initial prompt came to; only its own handler changes it.
Became(h, outcome) == initial' = IF h = "initial" THEN outcome ELSE initial

Handling(h, stage, modes) ==
  /\ handler[h].stage = stage
  /\ handler[h].msg.mode \in modes
  /\ UNCHANGED <<server, sent, interrupts>>

-----------------------------------------------------------------------------
(* Messages come in *)

NewMessage(mode) == [id |-> sent + 1, mode |-> mode]

\* on_chat_input_submitted: queued behind a turn, a shell command or the start
\* of the server, handled by the pump itself otherwise.
Submit(mode) ==
  /\ sent < MaxMessages
  /\ PumpFree
  /\ sent' = sent + 1
  /\ \/ /\ Busy \/ server = "connecting"
        /\ pending' = Append(pending, NewMessage(mode))
        /\ UNCHANGED handler
     \/ /\ ~(Busy \/ server = "connecting")
        /\ handler' = [handler EXCEPT !["pump"] = At("awaiting", NewMessage(mode))]
        /\ UNCHANGED pending
  /\ UNCHANGED <<server, initial, flags, processing, on_pump, tasks, interrupts>>

\* _send_prompt_to_agent for message m, seen from the handler h that awaits it:
\* deferred to the queue, or started, or dropped for want of an agent.
_send_prompt_to_agent(h, m) ==
  \/ /\ Busy \/ server = "connecting"
     /\ UNCHANGED <<agent_running, agent_worker, tasks>>
     /\ Return(h, Append(pending, [m EXCEPT !.mode = "raw"]))
  \/ /\ ~(Busy \/ server = "connecting")
     /\ server = "ready"
     /\ Start("agent", m, h)
     /\ begin_agent(NewId)
     /\ Return(h, pending)
  \/ /\ ~(Busy \/ server = "connecting")
     /\ server = "failed"
     /\ UNCHANGED <<agent_running, agent_worker, tasks>>
     /\ Return(h, pending)

\* A pipeline step, file watch or Peat job sends its prompt from its own task;
\* a rewritten prompt accepted while busy is queued as if it had been typed.
BackgroundPrompt ==
  /\ sent < MaxMessages
  /\ sent' = sent + 1
  /\ \/ /\ Busy \/ server = "connecting"
        /\ \E mode \in {"raw", "normal"} : pending' = Append(pending, NewMessage(mode))
        /\ UNCHANGED <<agent_running, agent_worker, tasks>>
     \/ /\ ~(Busy \/ server = "connecting")
        /\ server = "ready"
        /\ Start("agent", NewMessage("raw"), "background")
        /\ begin_agent(NewId)
        /\ UNCHANGED pending
  /\ ShellUnchanged
  /\ UNCHANGED <<server, initial, processing, handler, on_pump, interrupts>>

\* poll_session_queue, a timer: the prompts that other sessions left for this
\* one are queued when it is idle, and a drain takes them up.
PollSessionQueue ==
  /\ ~Busy /\ server # "connecting" /\ pending = << >>
  /\ \E n \in 1..(MaxMessages - sent) :
       LET pulled == [i \in 1..n |-> [id |-> sent + i, mode |-> "normal"]]
       IN /\ sent' = sent + n
          /\ \/ /\ processing
                /\ pending' = pulled
                /\ UNCHANGED <<processing, handler, on_pump>>
             \/ /\ ~processing
                /\ \E pump \in BOOLEAN : (pump => PumpFree) /\ TakeUp(pulled, pump)
  /\ UNCHANGED <<server, initial, flags, tasks, interrupts>>

-----------------------------------------------------------------------------
(* Handling a message: _process_message after its awaits *)

UserTurnOldHandle(h) ==
  /\ Handling(h, "awaiting", UserModes)
  /\ server = "ready"
  /\ Start("agent", handler[h].msg, h)
  /\ begin_agent(Len(tasks))
  /\ ShellUnchanged
  /\ Return(h, pending)
  /\ Became(h, "begun")

\* A turn that needs no further look at the flags starts: _handle_user_message
\* checked nothing since its gate, hooks, mounts and routing were awaited.
UserTurn(h) ==
  /\ Handling(h, "awaiting", UserModes)
  /\ server = "ready"
  /\ Start("agent", handler[h].msg, h)
  /\ begin_agent(NewId)
  /\ ShellUnchanged
  /\ Return(h, pending)
  /\ Became(h, "begun")

\* The budget gate, a vetoing hook, a pending registration, an interview or a
\* missing agent: the message starts nothing.  A command may do so too, and
\* leave flags and queue alone.
NoTurn(h) ==
  /\ Handling(h, "awaiting", UserModes \cup {"command"})
  /\ AgentUnchanged /\ ShellUnchanged
  /\ Return(h, pending)
  /\ Became(h, "dropped")
  /\ UNCHANGED tasks

\* _handle_shell_command after the mount.
ShellCommand(h) ==
  /\ Handling(h, "awaiting", {"shell"})
  /\ Start("shell", handler[h].msg, h)
  /\ begin_shell(NewId)
  /\ AgentUnchanged
  /\ Return(h, pending)
  /\ UNCHANGED initial

\* A queued raw prompt, or a slash command that builds a prompt.
Prompt(h) ==
  /\ Handling(h, "awaiting", {"command", "raw"})
  /\ ShellUnchanged
  /\ _send_prompt_to_agent(h, handler[h].msg)
  /\ UNCHANGED initial

\* _start_model_command: a session of its own, refused while busy.
SessionCommand(h) ==
  /\ Handling(h, "awaiting", {"command"})
  /\ ~Busy
  /\ Start("session", handler[h].msg, h)
  /\ begin_agent(NewId)
  /\ ShellUnchanged
  /\ Return(h, pending)
  /\ UNCHANGED initial

\* /clear drops what is pending.
ClearCommand(h) ==
  /\ Handling(h, "awaiting", {"command"})
  /\ AgentUnchanged /\ ShellUnchanged
  /\ Return(h, << >>)
  /\ UNCHANGED <<initial, tasks>>

\* /tasks steer main: a prompt joins the queue, with no look at the flags and
\* no drain to take it up.
SteerCommand(h) ==
  /\ handler[h].stage = "awaiting" /\ handler[h].msg.mode = "command"
  /\ sent < MaxMessages
  /\ sent' = sent + 1
  /\ UNCHANGED <<server, initial, flags, tasks, interrupts>>
  /\ Return(h, Append(pending, NewMessage("steered")))

\* /tasks queue edit: the message keeps its place, and is the user's from now on.
EditCommand(h) ==
  /\ Handling(h, "awaiting", {"command"})
  /\ UNCHANGED <<initial, flags, tasks>>
  /\ \E i \in DOMAIN pending :
       Return(h, [pending EXCEPT ![i].mode = IF @ = "raw" THEN "edited" ELSE @])

Without(queue, i) ==
  [j \in 1..(Len(queue) - 1) |-> IF j < i THEN queue[j] ELSE queue[j + 1]]

\* /tasks queue drop and /tasks kill: the message is gone.
DropCommand(h) ==
  /\ Handling(h, "awaiting", {"command"})
  /\ UNCHANGED <<initial, flags, tasks>>
  /\ \E i \in DOMAIN pending : Return(h, Without(pending, i))

\* /compact, refused while an agent turn runs, reads the thread's state ...
CompactReads(h) ==
  /\ Handling(h, "awaiting", {"command"})
  /\ server = "ready" /\ ~agent_running
  /\ MoveTo(h, "reading")
  /\ UNCHANGED <<initial, flags, tasks>>

\* ... and returns when there is nothing to compact ...
CompactNothing(h) ==
  /\ Handling(h, "reading", {"command"})
  /\ AgentUnchanged /\ ShellUnchanged
  /\ Return(h, pending)
  /\ UNCHANGED <<initial, tasks>>

\* ... or raises the flag, without a worker and without looking again ...
CompactBegins(h) ==
  /\ Handling(h, "reading", {"command"})
  /\ agent_running' = TRUE
  /\ MoveTo(h, "compacting")
  /\ ShellUnchanged
  /\ UNCHANGED <<initial, agent_worker, tasks>>

\* ... lowers it ...
CompactEnds(h) ==
  /\ Handling(h, "compacting", {"command"})
  /\ agent_running' = FALSE
  /\ MoveTo(h, "compacted")
  /\ ShellUnchanged
  /\ UNCHANGED <<initial, agent_worker, tasks>>

\* ... and drains the queue: within the pump's handler, or not at all when the
\* command itself came from the queue.
CompactDrains(h) ==
  /\ Handling(h, "compacted", {"command"})
  /\ UNCHANGED <<initial, flags, tasks>>
  /\ \/ /\ processing \/ pending = << >>
        /\ Return(h, pending)
     \/ /\ ~processing /\ pending # << >>
        /\ processing' = TRUE
        /\ pending' = popleft(pending).rest
        /\ handler' = [handler EXCEPT ![h] = Idle, !["drain"] =
                         At("awaiting", popleft(pending).msg)]
        /\ on_pump' = TRUE

-----------------------------------------------------------------------------
(* Turns, sessions and shell commands end *)

Task(t, kind, stage) ==
  /\ tasks[t].kind \in kind
  /\ tasks[t].stage = stage
  /\ UNCHANGED <<server, initial, sent, interrupts>>

Stage(t, stage) == tasks' = [tasks EXCEPT ![t].stage = stage]

\* The first step of a task that was created: until then its coroutine, and the
\* finally that lowers its flag, is not entered.
Begin(t) ==
  /\ Task(t, {"agent", "session", "shell"}, "created")
  /\ Stage(t, "running")
  /\ UNCHANGED <<flags, pending, processing, handler, on_pump>>

\* _run_agent_task leaves the agent: with statistics to settle first (changes
\* tray, auto-commit) ...
TurnSettles(t) ==
  /\ Task(t, {"agent"}, "running")
  /\ Stage(t, "finalising")
  /\ UNCHANGED <<flags, pending, processing, handler, on_pump>>

\* ... or not, a failure or a timeout; then _cleanup_agent_task clears the flags
\* and awaits the spinner and the stop hook.
TurnEnds(t) ==
  /\ \/ Task(t, {"agent"}, "running")
     \/ Task(t, {"agent"}, "finalising")
  /\ end_agent
  /\ Stage(t, "cleaning")
  /\ ShellUnchanged
  /\ UNCHANGED <<pending, processing, handler, on_pump>>

\* The rest of _cleanup_agent_task: clear the flags again, drain the queue.
CleanupDrains(t) ==
  /\ Task(t, {"agent"}, "cleaning")
  /\ end_agent
  /\ Stage(t, "done")
  /\ ShellUnchanged
  /\ _process_next_from_queue(FALSE)

SessionEndsUndrained(t) ==
  /\ Task(t, {"session"}, "running")
  /\ end_agent
  /\ Stage(t, "done")
  /\ ShellUnchanged
  /\ UNCHANGED <<pending, processing, handler, on_pump>>

\* The finally of a tracked session: clear the flags, spawn a drain.
SessionEnds(t) ==
  /\ Task(t, {"session"}, "running")
  /\ end_agent
  /\ Stage(t, "cleaning")
  /\ ShellUnchanged
  /\ UNCHANGED <<pending, processing, handler, on_pump>>

\* A spawned drain starts.
SpawnedDrain(t) ==
  /\ Task(t, {"session", "spawned"}, "cleaning")
  /\ Stage(t, "done")
  /\ UNCHANGED flags
  /\ _process_next_from_queue(FALSE)

\* _cleanup_shell_task of a command that ended by itself.
ShellEnds(t) ==
  /\ Task(t, {"shell"}, "running")
  /\ end_shell
  /\ Stage(t, "done")
  /\ AgentUnchanged
  /\ _process_next_from_queue(FALSE)

ShellKilledKeepsFlag(t) ==
  /\ Task(t, {"shell"}, "cancelled")
  /\ Stage(t, "cleaning")
  /\ UNCHANGED <<flags, pending, processing, handler, on_pump>>

\* _cleanup_shell_task of an interrupted one: it awaits a message first.
ShellKilled(t) ==
  /\ Task(t, {"shell"}, "cancelled")
  /\ end_shell
  /\ Stage(t, "cleaning")
  /\ AgentUnchanged
  /\ UNCHANGED <<pending, processing, handler, on_pump>>

ShellDrains(t) ==
  /\ Task(t, {"shell"}, "cleaning")
  /\ Stage(t, "done")
  /\ UNCHANGED flags
  /\ _process_next_from_queue(FALSE)

-----------------------------------------------------------------------------
(* Interrupts and the server *)

\* What Worker.cancel leaves of a task, by the stage it is in.  One that has yet
\* to take its first step never takes it.  A turn's stream absorbs it and ends;
\* while a turn settles, it goes through the finally block and
\* _cleanup_agent_task is never called.
Cancelled(t) ==
  CASE tasks[t].stage = "created" -> "lost"
    [] tasks[t].kind = "agent" /\ tasks[t].stage = "finalising" -> "lost"
    [] tasks[t].kind = "shell" /\ tasks[t].stage = "running"    -> "cancelled"
    [] OTHER -> tasks[t].stage

\* Esc or Ctrl+C: _cancel_worker, for the shell command first.
Interrupt ==
  /\ interrupts < MaxInterrupts
  /\ PumpFree
  /\ interrupts' = interrupts + 1
  /\ \/ /\ shell_running /\ shell_worker # NoTask
        /\ Stage(shell_worker, Cancelled(shell_worker))
     \/ /\ ~(shell_running /\ shell_worker # NoTask)
        /\ agent_running /\ agent_worker # NoTask
        /\ Stage(agent_worker, Cancelled(agent_worker))
  /\ pending' = << >>
  /\ UNCHANGED <<server, initial, flags, processing, handler, on_pump, sent>>

\* on_bog_agents_app_server_ready: the initial prompt is handled, else what was
\* typed meanwhile is drained.
ServerReady ==
  /\ server = "connecting"
  /\ PumpFree
  /\ server' = "ready"
  /\ \/ /\ initial = "waiting"
        /\ initial' = "handling"
        /\ handler' = [handler EXCEPT !["initial"] =
                         At("awaiting", [id |-> 1, mode |-> "normal"])]
        /\ UNCHANGED tasks
     \/ /\ initial = "none" /\ pending # << >>
        /\ tasks' = Append(tasks, [kind |-> "spawned", stage |-> "cleaning",
                             msg |-> 0, mode |-> "raw", by |-> "background"])
        /\ UNCHANGED <<initial, handler>>
     \/ /\ initial = "none" /\ pending = << >>
        /\ UNCHANGED <<initial, handler, tasks>>
  /\ UNCHANGED <<flags, pending, processing, on_pump, sent, interrupts>>

\* on_bog_agents_app_server_start_failed: what was typed is discarded.
ServerFails ==
  /\ server = "connecting"
  /\ PumpFree
  /\ server' = "failed"
  /\ pending' = << >>
  /\ UNCHANGED <<initial, flags, processing, handler, on_pump, tasks, sent,
                 interrupts>>

-----------------------------------------------------------------------------
Handle(h) ==
  \/ UserTurn(h) \/ NoTurn(h) \/ ShellCommand(h) \/ Prompt(h)
  \/ SessionCommand(h) \/ ClearCommand(h)
  \/ SteerCommand(h) \/ EditCommand(h) \/ DropCommand(h)
  \/ CompactReads(h) \/ CompactNothing(h) \/ CompactBegins(h)
  \/ CompactEnds(h) \/ CompactDrains(h)

Proceed(t) ==
  \/ Begin(t) \/ TurnSettles(t) \/ TurnEnds(t) \/ CleanupDrains(t)
  \/ SessionEnds(t) \/ SpawnedDrain(t)
  \/ ShellEnds(t) \/ ShellKilled(t) \/ ShellDrains(t)

Next ==
  \/ \E mode \in Modes : Submit(mode)
  \/ BackgroundPrompt \/ PollSessionQueue
  \/ \E h \in Handlers : Handle(h)
  \/ \E t \in TaskIds : Proceed(t)
  \/ Interrupt
  \/ ServerReady \/ ServerFails

MaxTasks == MaxMessages + 1

\* The loop runs what is ready: handlers return, turns end (a turn is capped at
\* an hour, a shell command at a minute), the server starts or fails.
Fairness ==
  /\ \A h \in Handlers : WF_vars(Handle(h))
  /\ \A t \in 1..MaxTasks : WF_vars(t \in TaskIds /\ Proceed(t))
  /\ WF_vars(ServerReady \/ ServerFails)

Spec     == Init /\ [][Next]_vars
FairSpec == Spec /\ Fairness

-----------------------------------------------------------------------------
(* Properties *)

\* Turns that still run or that have yet to clear the flags.
Turns(stages) == {t \in TaskIds : tasks[t].kind \in {"agent", "session"}
                                    /\ tasks[t].stage \in stages}
Compacting == \E h \in Handlers : handler[h].stage = "compacting"

\* A flag is up and nothing is left that would lower it.
AgentWedged ==
  /\ agent_running
  /\ Turns({"created", "running", "finalising"}) = {}
  /\ {t \in Turns({"cleaning"}) : tasks[t].kind = "agent"} = {}
  /\ ~Compacting
ShellWedged ==
  /\ shell_running
  /\ \A t \in TaskIds : tasks[t].kind = "shell"
                         => tasks[t].stage \notin {"created", "running", "cancelled"}
Wedged == AgentWedged \/ ShellWedged

NothingUnderWay ==
  /\ ~Busy
  /\ \A t \in TaskIds : tasks[t].stage \in {"done", "lost"}
  /\ \A h \in Handlers : handler[h] = Idle

\* The initial prompt came to nothing and nothing else is under way.
PromptDropped == initial = "dropped" /\ NothingUnderWay

\* All that is left was put in the queue by /tasks, while nothing was under way.
OnlySteeredLeft ==
  /\ NothingUnderWay
  /\ \A i \in DOMAIN pending : pending[i].mode = "steered"

\* A message is in one place at a time: in the queue, with a handler, or behind
\* a task it started; it is never run twice.
MessageOnce ==
  LET places(id) ==
        {<<"queue", i>> : i \in {j \in DOMAIN pending : pending[j].id = id}}
        \cup {<<"handler", h>> : h \in {g \in Handlers : handler[g] # Idle
                                             /\ handler[g].msg.id = id}}
        \cup {<<"task", t>> : t \in {u \in TaskIds : tasks[u].msg = id}}
  IN \A id \in 1..MaxMessages : Cardinality(places(id)) <= 1

\* What is drained from the queue starts in the order it was typed, whatever
\* runs in between and whatever /tasks edits or drops ("Dequeues and processes the
\* next pending message in FIFO order", app.py:15028); only a prompt that goes
\* straight to the agent, deferred a second time, loses its place.
DrainedInOrder ==
  \A t, u \in TaskIds :
    /\ t < u
    /\ tasks[t].by = "drain" /\ tasks[u].by = "drain"
    /\ tasks[t].mode \notin Displaced /\ tasks[u].mode \notin Displaced
    => tasks[t].msg < tasks[u].msg

\* A flag that is up has an owner that will lower it, unless an interrupt lost
\* the owner: a turn that was settling, or any task that had yet to take its
\* first step.  The handle that Esc cancels is never that of a turn that ended
\* and was cleaned up.
FlagsOwned ==
  /\ agent_worker # NoTask =>
       tasks[agent_worker].stage \in {"created", "running", "finalising", "lost"}
  /\ AgentWedged => \E t \in TaskIds : /\ tasks[t].kind \in {"agent", "session"}
                                       /\ tasks[t].stage = "lost"
  /\ ShellWedged => \E t \in TaskIds : tasks[t].kind = "shell" /\ tasks[t].stage = "lost"
  /\ processing <=> handler["drain"] # Idle

\* A queued message is taken up or discarded in the end, unless a flag is
\* wedged, an initial prompt that was to drain the queue came to nothing, or
\* all that waits are prompts that /tasks queued when no turn was there to end.
QueueDrains ==
  pending # << >> ~> (pending = << >> \/ Wedged \/ PromptDropped \/ OnlySteeredLeft)
=============================================================================
