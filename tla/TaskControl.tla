---------------------------- MODULE TaskControl ----------------------------
(***************************************************************************)
(* One task run under control: the requests to pause, stop and resume it   *)
(* (task_executor.py, task_run_control_gateway.py), the controller that    *)
(* gives it a cell, and the executor in that cell, which looks for control *)
(* signals at its boundaries and tells the agent of them.                  *)
(*                                                                         *)
(* The task's record is read and written whole: each thread writes back    *)
(* the copy it read, changed in the fields it means to change, and what    *)
(* another thread wrote in between is lost.  The signals are an append-    *)
(* only log; the executor's registry entry and the tool invocations of the *)
(* cell are in memory.  The agent's answer is arbitrary, a batch of tools  *)
(* is one tool.  Approvals, replans and steers are left out.               *)
(***************************************************************************)
EXTENDS Naturals, Sequences

CONSTANTS None,
          Callers,      \* threads that pause, stop and resume
          Answers,      \* what the agent may answer
          MaxSignals,   \* bound: signals ever published
          MaxCells,     \* bound: cells ever created, and epochs
          MaxSteps,     \* max_steps of an executor
          MaxRequests,  \* bound: requests of all callers
          MaxCrashes,   \* bound: restarts of the process
          Stops,        \* may a caller stop the task?
          Faults,       \* may a worker fail to start, a model call fail?
          Outrun,       \* may the worker run before its handle is stored?
          SlowModel     \* does a model call outlast every request?

ASSUME NoneIsNoValue == None \notin Callers \cup Answers /\ None \notin Nat
ASSUME AnswersKnown == Answers \subseteq {"tool", "respond", "ask_user", "block"}
ASSUME ControlBounds ==
  /\ {MaxSignals, MaxCells, MaxSteps, MaxRequests, MaxCrashes} \subseteq Nat
  /\ {Stops, Faults, Outrun, SlowModel} \subseteq BOOLEAN

VARIABLES task,     \* the stored record of the task run
          signals,  \* the control signals published, in order
          told,     \* the signals whose observation is in the task's log
          reg,      \* the registry entry of the last executor, or None
          cell,     \* the cell of the task
          sup,      \* the caller that holds the supervisor's lock, or None
          exe,      \* the executor in that cell
          op,       \* the requests in progress
          count     \* requests made and restarts, for the bounds

vars == <<task, signals, told, reg, cell, sup, exe, op, count>>

Ids == 1 .. MaxSignals
Cells == 1 .. MaxCells

Statuses == {"created", "running", "waiting_executor", "blocked",
             "executor_failed",  \* blocked, terminal_reason executor_failed
             "completed", "aborted"}
Controls == {"none", "running", "pause_requested", "paused", "resume_requested",
             "stop_requested", "stopped", "waiting_executor"}

TaskRecords ==
  [status : Statuses, ctl : Controls,
   sig : Ids \cup {None},             \* runtime_control_signal_ref
   dlv : Controls \cup {None},        \* the state in the delivered fingerprint
   exec : {"none", "scheduled", "running", "rest"},  \* executor_status
   lease : BOOLEAN,                   \* executor_lease_state is "scheduled"
   reco : BOOLEAN, err : BOOLEAN,     \* recovery_action, recoverable_error
   epoch : 0 .. MaxCells,
   scope : Cells \cup {0}]            \* the run_cell_id of agent_run_scope

\* A registry entry; begun is a ghost: its executor entered its try clause.
Entries == [cell : Cells, epoch : Nat, sig : Ids \cup {None}, begun : BOOLEAN]
ASSUME NoneIsNoEntry == None \notin Entries

SignalRecords ==
  [kind : {"pause", "stop", "budget_exhausted"}, scope : Cells \cup {0},
   state : {"pending", "observed", "consumed"}]

NewTask == [status |-> "created", ctl |-> "none", sig |-> None, dlv |-> None,
            exec |-> "none", lease |-> FALSE, reco |-> FALSE, err |-> FALSE,
            epoch |-> 0, scope |-> 0]

\* published: the handle is stored in the cell, so that others see it run.
\* tool: the invocation that has not ended, in the cell's registry; its record
\* is cancelled when it is signalled, and its task too when it is cancelled.
CellRecords == [id : Cells \cup {0}, alive : BOOLEAN, published : BOOLEAN, cancel : BOOLEAN,
                tool : {"none", "running", "signalled", "cancelled"}]
NoCell == [id |-> 0, alive |-> FALSE, published |-> FALSE, cancel |-> FALSE, tool |-> "none"]

(***************************************************************************)
(* The executor: what it does next and, in hear and tell, at which         *)
(* boundary; the task as it last read it (current_task); the signal it was *)
(* interrupted with or is telling of; the agent's answer.                  *)
(***************************************************************************)
Boundaries == {"step_start", "before_model_action", "model_action_wait",
               "after_model_action", "tool_batch_execution", "after_tool_batch_group",
               "after_action_admission", "step_budget"}
ExecutorPcs ==
  {"idle", "begin", "claim", "step", "hear", "tell", "prepare", "compile",
   "model", "recover", "acted", "tool", "start", "attach", "await", "grouped",
   "admitted", "decide", "refused",
   "closing", "budget", "exhausted", "fail", "clear", "end"}
ExecutorRecords ==
  [pc : ExecutorPcs, at : Boundaries, copy : TaskRecords, sig : Ids \cup {None},
   epoch : 0 .. MaxCells, answer : Answers \cup {None}, steps : 0 .. MaxSteps]

NoExecutor == [pc |-> "idle", at |-> "step_start", copy |-> NewTask, sig |-> None,
               epoch |-> 0, answer |-> None, steps |-> 0]

(***************************************************************************)
(* A request: what is still to do, the copy it will write, its signal, and *)
(* the registry entry it found (named by its cell).                        *)
(***************************************************************************)
RequestPcs == {"idle", "publish", "signal", "tools", "cancel", "finish", "write",
               "check", "admit", "mark", "start", "publish_handle"}
RequestRecords ==
  [pc : RequestPcs, kind : {"pause", "stop", "resume"}, copy : TaskRecords,
   sig : Ids \cup {None}, rec : Cells \cup {None}]

NoRequest == [pc |-> "idle", kind |-> "resume", copy |-> NewTask, sig |-> None, rec |-> None]

Init == /\ task = NewTask
        /\ signals = <<>>
        /\ told = <<>>
        /\ reg = None
        /\ cell = NoCell
        /\ sup = None
        /\ exe = NoExecutor
        /\ op = [c \in Callers |-> NoRequest]
        /\ count = [requests |-> 0, crashes |-> 0]

-----------------------------------------------------------------------------
(* What the record of a task says.                                         *)

\* runtime_control_state_from_task_run: a state that its status belies is no
\* state; every requested state here has a published signal.
Visible(t) ==
  IF \/ t.ctl = "paused" /\ t.status # "waiting_executor"
     \/ t.ctl = "stopped" /\ t.status # "aborted"
  THEN "none" ELSE t.ctl

Stopped(t) == t.status = "aborted" \/ Visible(t) \in {"stop_requested", "stopped"}
Paused(t) == Visible(t) \in {"pause_requested", "paused"}

\* is_stopped_or_terminal_task_run
Terminal(t) == t.status \in {"completed", "executor_failed"} \/ Stopped(t)

\* is_task_run_executor_claimed: its cell has a handle and its thread lives
Claimed == cell.alive /\ cell.published

\* recovery_state_for_task_run: same_run_resumable and executable
Checkpoint(t) ==
  \/ t.status = "waiting_executor" /\ Paused(t)
  \/ t.status = "waiting_executor" /\ Visible(t) = "resume_requested" /\ t.reco
  \/ /\ t.status \in {"waiting_executor", "blocked", "executor_failed"}
     /\ t.reco /\ t.err
Resumable(t) == ~Claimed /\ t.status # "completed" /\ ~Stopped(t) /\ Checkpoint(t)
Executable(t) == Resumable(t) /\ ~Paused(t)

\* _is_task_run_schedulable
Schedulable(t) == \/ Executable(t)
                  \/ t.status = "created" /\ t.exec = "none" /\ ~t.lease

\* _apply_runtime_control_boundary: the executor ends at once
Halts(t) == t.status = "aborted" /\ Visible(t) # "stop_requested"

\* drain, with the scope of the task's record: the first one not closed
Pending(t) == {s \in 1 .. Len(signals) : /\ signals[s].state = "pending"
                                         /\ t.scope \in {0, signals[s].scope}}
FirstPending(t) == IF Pending(t) = {} THEN None
                   ELSE CHOOSE s \in Pending(t) : \A r \in Pending(t) : s <= r

\* peek_executor_signal: the entry must have the epoch asked for
Peek(epoch) == IF reg # None /\ reg.epoch = epoch THEN reg.sig ELSE None

\* Mutant of SignalFor: the log is not looked at.
SignalForEntry(t, epoch) == Peek(epoch)

\* The entry's signal comes before those of the log.
SignalFor(t, epoch) == IF Peek(epoch) # None THEN Peek(epoch) ELSE FirstPending(t)

\* clear_executor_signal, of the entry with the epoch asked for
Cleared(s, epoch) == IF Peek(epoch) = s THEN [reg EXCEPT !.sig = None] ELSE reg

\* The changes of _strip_runtime_lease_diagnostics to the control state
Unleased(t) == IF t.ctl \in {"resume_requested", "running"}
               THEN [t EXCEPT !.ctl = "none", !.sig = None, !.dlv = None]
               ELSE t

Controlled(t, ctl, sig) == [t EXCEPT !.ctl = ctl, !.sig = sig, !.dlv = None]

PausedTask(t) == [Controlled(t, "paused", None) EXCEPT
                    !.status = "waiting_executor", !.exec = "rest", !.reco = TRUE]
StoppedTask(t) == [Controlled(t, "stopped", None) EXCEPT
                    !.status = "aborted", !.exec = "rest", !.reco = FALSE, !.err = FALSE]

-----------------------------------------------------------------------------
(* The requests.                                                           *)

Do(c, record) == op' = [op EXCEPT ![c] = record]
Then(c, pc) == Do(c, [op[c] EXCEPT !.pc = pc])
Idle(c) == Do(c, NoRequest)

Request(c) == /\ op[c].pc = "idle"
              /\ count.requests < MaxRequests
              /\ count' = [count EXCEPT !.requests = @ + 1]

\* request_task_run_pause: without an executor, or before the executor has
\* begun to run, the task is written as paused; otherwise a signal is sent.
Pause(c) ==
  /\ Request(c)
  /\ ~Terminal(task)
  /\ ~(task.status = "waiting_executor" /\ Visible(task) = "paused")
  /\ IF Claimed /\ task.status = "running"
     THEN /\ Len(signals) < MaxSignals
          /\ Do(c, [NoRequest EXCEPT !.pc = "publish", !.kind = "pause", !.copy = task])
     ELSE Do(c, [NoRequest EXCEPT !.pc = "write", !.kind = "pause", !.copy = PausedTask(task)])
  /\ UNCHANGED <<task, signals, told, reg, cell, sup, exe>>

\* stop_task_run
Stop(c) ==
  /\ Stops
  /\ Request(c)
  /\ ~Terminal(task)
  /\ IF Claimed
     THEN /\ Len(signals) < MaxSignals
          /\ Do(c, [NoRequest EXCEPT !.pc = "publish", !.kind = "stop", !.copy = task])
     ELSE Do(c, [NoRequest EXCEPT !.pc = "write", !.kind = "stop", !.copy = StoppedTask(task)])
  /\ UNCHANGED <<task, signals, told, reg, cell, sup, exe>>

\* resume_task_run and resume_paused_task_run
Resume(c) ==
  /\ Request(c)
  /\ Resumable(task) /\ ~Terminal(task)
  /\ Do(c, [NoRequest EXCEPT !.pc = "write",
              !.copy = [Controlled(task, "resume_requested", None) EXCEPT
                          !.status = "waiting_executor", !.exec = "rest", !.reco = TRUE,
                          !.err = @ \/ task.status = "blocked"]])
  /\ UNCHANGED <<task, signals, told, reg, cell, sup, exe>>

\* The chat turn that made the task schedules it.
Launch(c) ==
  /\ Request(c)
  /\ task.status = "created"
  /\ Do(c, [NoRequest EXCEPT !.pc = "check"])
  /\ UNCHANGED <<task, signals, told, reg, cell, sup, exe>>

\* _request_signal: the entry is read before the signal is published, with
\* the scope of the live cell or else of the task's record.
Publish(c) ==
  /\ op[c].pc = "publish"
  /\ Len(signals) < MaxSignals
  /\ signals' = Append(signals, [kind |-> op[c].kind, state |-> "pending",
                                 scope |-> IF Claimed THEN cell.id ELSE task.scope])
  /\ Do(c, [op[c] EXCEPT !.pc = "signal", !.sig = Len(signals'),
                         !.rec = IF reg = None THEN None ELSE reg.cell])
  /\ UNCHANGED <<task, told, reg, cell, sup, exe, count>>

\* record.signal, on the entry found before; its model call is cancelled.
Signal(c) ==
  /\ op[c].pc = "signal"
  /\ reg' = IF reg # None /\ reg.cell = op[c].rec THEN [reg EXCEPT !.sig = op[c].sig] ELSE reg
  /\ Then(c, "tools")
  /\ UNCHANGED <<task, signals, told, cell, sup, exe, count>>

\* cancel_by_caller: the record of the invocation that runs gets the signal,
\* and its task, if it has one by then, a cancel.
ToolsSignalled ==
  CASE cell.tool = "running" -> IF exe.pc = "await" THEN "cancelled" ELSE "signalled"
    [] OTHER -> cell.tool

\* The end of _request_signal.  A pause then writes the copy it read before
\* it published.
CancelTools(c) ==
  /\ op[c].pc = "tools"
  /\ cell' = IF Claimed THEN [cell EXCEPT !.tool = ToolsSignalled] ELSE cell
  /\ IF op[c].kind = "stop"
     THEN Then(c, "cancel")
     ELSE Do(c, [op[c] EXCEPT !.pc = "write",
                   !.copy = Controlled(@, "pause_requested", op[c].sig)])
  /\ UNCHANGED <<task, signals, told, reg, sup, exe, count>>

\* _cancel_task_run_runtime_cell: the tools again, and then a cancel is posted
\* to the worker's loop.
Cancel(c) ==
  /\ op[c].pc = "cancel"
  /\ cell' = IF Claimed THEN [cell EXCEPT !.tool = ToolsSignalled, !.cancel = TRUE] ELSE cell
  /\ Then(c, "finish")
  /\ UNCHANGED <<task, signals, told, reg, sup, exe, count>>

\* The end of _hard_stop_claimed_task_run: the task is read again.
Finish(c) ==
  /\ op[c].pc = "finish"
  /\ task' = IF Terminal(task) THEN task ELSE StoppedTask(task)
  /\ Idle(c)
  /\ UNCHANGED <<signals, told, reg, cell, sup, exe, count>>

\* upsert_task_run of the copy; a resume goes on to schedule the task
Write(c) ==
  /\ op[c].pc = "write"
  /\ task' = op[c].copy
  /\ IF op[c].kind = "resume" THEN Then(c, "check") ELSE Idle(c)
  /\ UNCHANGED <<signals, told, reg, cell, sup, exe, count>>

-----------------------------------------------------------------------------
(* schedule_task_run_executor and the supervisor's schedule_task_run.      *)

Check(c) ==
  /\ op[c].pc = "check"
  /\ IF ~Claimed /\ Schedulable(task) THEN Then(c, "admit") ELSE Idle(c)
  /\ UNCHANGED <<task, signals, told, reg, cell, sup, exe, count>>

\* Under the supervisor's lock: no live cell of the task, a new cell, its
\* scope written to the task's record; on_scheduled then reads the task.
Admit(c) ==
  /\ op[c].pc = "admit"
  /\ sup = None
  /\ IF Claimed
     THEN Idle(c) /\ UNCHANGED <<task, cell, sup>>
     ELSE /\ cell.id < MaxCells
          /\ ~cell.alive
          /\ cell' = [NoCell EXCEPT !.id = cell.id + 1]
          /\ task' = [task EXCEPT !.scope = cell'.id]
          /\ Do(c, [op[c] EXCEPT !.pc = "mark", !.copy = task'])
          /\ sup' = c
  /\ UNCHANGED <<signals, told, reg, exe, count>>

\* _mark_scheduled: two events were appended since the task was read
Mark(c) ==
  /\ op[c].pc = "mark"
  /\ task' = [op[c].copy EXCEPT !.status = "running", !.exec = "scheduled", !.lease = TRUE]
  /\ Then(c, "start")
  /\ UNCHANGED <<signals, told, reg, cell, sup, exe, count>>

\* AgentRuntimeCell.start: the thread runs before its handle is stored.
Start(c) ==
  /\ op[c].pc = "start"
  /\ cell' = [cell EXCEPT !.alive = TRUE]
  /\ exe' = [NoExecutor EXCEPT !.pc = "begin"]
  /\ Then(c, "publish_handle")
  /\ UNCHANGED <<task, signals, told, reg, sup, count>>

PublishHandle(c) ==
  /\ op[c].pc = "publish_handle"
  /\ cell' = [cell EXCEPT !.published = TRUE]
  /\ sup' = None
  /\ Idle(c)
  /\ UNCHANGED <<task, signals, told, reg, exe, count>>

\* The thread does not start: _mark_scheduled_task_failed
StartFails(c) ==
  /\ Faults
  /\ op[c].pc = "start"
  /\ task' = [task EXCEPT !.status = "blocked", !.exec = "rest", !.lease = FALSE,
                          !.reco = TRUE, !.err = TRUE, !.scope = 0]
  /\ sup' = None
  /\ Idle(c)
  /\ UNCHANGED <<signals, told, reg, cell, exe, count>>

RequestStep(c) == \/ Publish(c) \/ Signal(c) \/ CancelTools(c) \/ Cancel(c)
                  \/ Finish(c) \/ Write(c) \/ Check(c) \/ Admit(c) \/ Mark(c)
                  \/ Start(c) \/ PublishHandle(c) \/ StartFails(c)

-----------------------------------------------------------------------------
(* execute_task_run.                                                       *)

Becomes(record) == exe' = record
Goes(pc) == exe' = [exe EXCEPT !.pc = pc]
Hears(at, copy, s) == exe' = [exe EXCEPT !.pc = "hear", !.at = at, !.copy = copy, !.sig = s]

\* The first reads: an executor that does not see its own cell claimed wants
\* an executable task; one that sees it and the task running gives way.
Begin ==
  /\ exe.pc = "begin"
  /\ Outrun \/ cell.published
  /\ IF \/ Halts(task)
        \/ Claimed /\ task.exec = "running"
        \/ ~Claimed /\ ~Executable(task)
     THEN Goes("end") /\ UNCHANGED reg
     ELSE /\ task.epoch < MaxCells
          /\ reg' = [cell |-> cell.id, epoch |-> task.epoch + 1, sig |-> None, begun |-> FALSE]
          /\ Becomes([exe EXCEPT !.pc = "claim", !.epoch = task.epoch + 1])
  /\ UNCHANGED <<task, signals, told, cell, sup, op, count>>

\* The task as the executor writes it when it claims it
ClaimedTask == [task EXCEPT !.status = "running", !.exec = "running",
                            !.epoch = exe.epoch, !.reco = FALSE, !.err = FALSE,
                            !.ctl = IF @ = "resume_requested" THEN "running" ELSE @]

\* The task is read again and written as running, and the try clause entered
\* whose end clears the registry entry; a halt before that leaves the entry.
Claim ==
  /\ exe.pc = "claim"
  /\ IF Halts(task)
     THEN Goes("end") /\ UNCHANGED <<task, reg>>
     ELSE /\ task' = ClaimedTask
          /\ reg' = [reg EXCEPT !.begun = TRUE]
          /\ Becomes([exe EXCEPT !.pc = "step", !.copy = task'])
  /\ UNCHANGED <<signals, told, cell, sup, op, count>>

\* So does an exception before it, whether the task is written by then or not.
ClaimRaises ==
  /\ Faults
  /\ exe.pc = "claim"
  /\ task' \in IF Halts(task) THEN {task} ELSE {task, ClaimedTask}
  /\ Goes("fail")
  /\ UNCHANGED <<signals, told, reg, cell, sup, op, count>>

\* Mutant of OutOfSteps: one step too many.
OutOfStepsLate == exe.steps > MaxSteps

OutOfSteps == exe.steps = MaxSteps

\* The head of the loop of _execute_claimed_task_run
Step ==
  /\ exe.pc = "step"
  /\ IF OutOfSteps THEN Goes("budget")
     ELSE IF Halts(task) THEN Goes("clear")
     ELSE Becomes([exe EXCEPT !.pc = "hear", !.at = "step_start", !.steps = @ + 1])
  /\ UNCHANGED <<task, signals, told, reg, cell, sup, op, count>>

Interrupts == {"model_action_wait", "tool_batch_execution"}
After(at) ==
  CASE at = "step_start" -> "prepare"
    [] at = "before_model_action" -> "model"
    [] at \in Interrupts -> "recover"
    [] at = "after_model_action" -> IF exe.answer = "tool" THEN "tool" ELSE "admitted"
    [] at = "after_tool_batch_group" -> "step"
    [] at = "after_action_admission" -> "decide"

\* _runtime_control_signal_already_delivered
Delivered(t, s) == t.sig = s /\ t.dlv # None /\ t.dlv = Visible(t)

\* The signal a boundary looks at: the one that interrupted, or the entry's,
\* or the first pending one.
Heard == IF exe.sig # None THEN exe.sig ELSE SignalFor(task, task.epoch)
HeardEpoch == IF exe.at \in Interrupts THEN exe.epoch ELSE task.epoch

\* Mutant of Known: what is closed already is not asked.
KnownDelivered(s) == s = None \/ Delivered(task, s)

\* There is nothing to tell: no signal, or one told before, or closed.
Known(s) == s = None \/ Delivered(task, s) \/ signals[s].state # "pending"

\* _record_pending_runtime_control_signal_for_agent up to mark_observed_by_id
Hear ==
  /\ exe.pc = "hear"
  /\ IF Known(Heard)
     THEN /\ Becomes([exe EXCEPT !.pc = After(exe.at), !.sig = None])
          /\ reg' = IF Heard # None /\ Delivered(task, Heard) THEN Cleared(Heard, HeardEpoch) ELSE reg
          /\ UNCHANGED signals
     ELSE /\ signals' = [signals EXCEPT ![Heard].state = "observed"]
          /\ Becomes([exe EXCEPT !.pc = "tell", !.sig = Heard, !.copy = task])
          /\ UNCHANGED reg
  /\ UNCHANGED <<task, told, cell, sup, op, count>>

\* The rest of it: the observation is logged, and the task written, from the
\* copy read before, by _mark_runtime_control_signal_delivered.
Tell ==
  /\ exe.pc = "tell"
  /\ told' = Append(told, exe.sig)
  /\ task' = [exe.copy EXCEPT
                !.ctl = IF signals[exe.sig].kind = "stop" THEN "stop_requested"
                        ELSE "pause_requested",
                !.sig = exe.sig, !.dlv = Visible(exe.copy)]
  /\ reg' = Cleared(exe.sig, IF exe.at \in Interrupts THEN exe.epoch ELSE exe.copy.epoch)
  /\ Becomes([exe EXCEPT !.pc = IF exe.at = "step_start" THEN "prepare" ELSE "step",
                         !.sig = None, !.copy = task'])
  /\ UNCHANGED <<signals, cell, sup, op, count>>

\* The task is read; then steers and memory are awaited
Prepare ==
  /\ exe.pc = "prepare"
  /\ Becomes([exe EXCEPT !.pc = "compile", !.copy = task])
  /\ UNCHANGED <<task, signals, told, reg, cell, sup, op, count>>

\* A cancel ends the executor in an await that suspends; in that of tools,
\* when they run in parallel.
Cancelled ==
  /\ exe.pc \in {"compile", "await"}
  /\ cell.cancel
  /\ Goes("clear")
  /\ UNCHANGED <<task, signals, told, reg, cell, sup, op, count>>

\* The packet is compiled, without an await, and the copy written back.
Compile ==
  /\ exe.pc = "compile"
  /\ task' = [exe.copy EXCEPT !.epoch = exe.epoch]
  /\ Hears("before_model_action", task', None)
  /\ UNCHANGED <<signals, told, reg, cell, sup, op, count>>

\* _await_task_model_action_with_status: a signal, or a cancel while there is
\* a signal, interrupts the wait; a cancel without one ends the executor.
Interrupted ==
  /\ exe.pc = "model"
  /\ SignalFor(task, exe.epoch) # None
  /\ Hears("model_action_wait", task, SignalFor(task, exe.epoch))
  /\ cell' = [cell EXCEPT !.cancel = FALSE]
  /\ UNCHANGED <<task, signals, told, reg, sup, op, count>>

ModelCancelled ==
  /\ exe.pc = "model"
  /\ cell.cancel
  /\ SignalFor(task, exe.epoch) = None
  /\ Goes("clear")
  /\ UNCHANGED <<task, signals, told, reg, cell, sup, op, count>>

ModelFails ==
  /\ Faults
  /\ exe.pc = "model"
  /\ SignalFor(task, exe.epoch) = None
  /\ Goes("recover")
  /\ UNCHANGED <<task, signals, told, reg, cell, sup, op, count>>

ModelAnswers ==
  /\ exe.pc = "model"
  /\ SignalFor(task, exe.epoch) = None
  /\ SlowModel => \A c \in Callers : op[c].pc \in {"idle", "check", "admit"}
  /\ \E a \in Answers : Becomes([exe EXCEPT !.pc = "acted", !.answer = a])
  /\ UNCHANGED <<task, signals, told, reg, cell, sup, op, count>>

\* _pause_executor_for_model_recovery, from the copy it is given
Recover ==
  /\ exe.pc = "recover"
  /\ task' = [exe.copy EXCEPT !.status = "blocked", !.exec = "rest",
                              !.reco = TRUE, !.err = TRUE]
  /\ Goes("clear")
  /\ UNCHANGED <<signals, told, reg, cell, sup, op, count>>

\* After the model's answer, its tools or its admission, the task is read again
BoundaryAfter ==
  CASE exe.pc = "acted" -> "after_model_action"
    [] exe.pc = "grouped" -> "after_tool_batch_group"
    [] exe.pc = "admitted" -> "after_action_admission"

Acted ==
  /\ exe.pc \in {"acted", "grouped", "admitted"}
  /\ IF Halts(task) THEN Goes("clear") ELSE Hears(BoundaryAfter, task, None)
  /\ UNCHANGED <<task, signals, told, reg, cell, sup, op, count>>

\* _execute_task_tool_call: a signal interrupts it before the tool runs
ToolInterrupted ==
  /\ exe.pc = "tool"
  /\ SignalFor(task, exe.copy.epoch) # None
  /\ Hears("tool_batch_execution", task, SignalFor(task, exe.copy.epoch))
  /\ UNCHANGED <<task, signals, told, reg, cell, sup, op, count>>

ToolAdmitted ==
  /\ exe.pc = "tool"
  /\ SignalFor(task, exe.copy.epoch) = None
  /\ Becomes([exe EXCEPT !.pc = IF Halts(task) THEN "recover" ELSE "start", !.copy = task])
  /\ UNCHANGED <<task, signals, told, reg, cell, sup, op, count>>

\* The invocation goes on with its record in state t.
Tool(pc, t) == /\ Goes(pc)
               /\ cell' = [cell EXCEPT !.tool = t]
               /\ UNCHANGED <<task, signals, told, reg, sup, op, count>>

\* ToolInvocationControlRegistry.start
ToolStarts == exe.pc = "start" /\ Tool("attach", "running")

\* Mutant of Attached: a signal that came before the task is not looked at.
AttachedUnseen == cell.tool

\* attach_task: a signal that came before the task cancels it now.
Attached == IF cell.tool = "signalled" THEN "cancelled" ELSE cell.tool

ToolAttaches == exe.pc = "attach" /\ Tool("await", Attached)

\* The tool completes, fails or runs into the group's timeout.
ToolEnds == exe.pc = "await" /\ Tool("grouped", "none")

\* Its task is cancelled, or else the executor's in the await of a tool of its
\* own: either way that is caught and becomes an observation of the tool's.
ToolCancelled ==
  /\ exe.pc = "await"
  /\ cell.tool = "cancelled" \/ cell.cancel
  /\ Goes("grouped")
  /\ \E left \in {FALSE, cell.cancel /\ cell.tool = "cancelled"} :
       cell' = [cell EXCEPT !.tool = "none", !.cancel = left]
  /\ UNCHANGED <<task, signals, told, reg, sup, op, count>>

-----------------------------------------------------------------------------
(* How the agent's answer, the step budget and a failure end the executor. *)

\* Mutant of LastTold: asked of the record, which other threads overwrite.
LastToldRecorded == IF told = <<>> \/ exe.copy.sig = None THEN None ELSE told[Len(told)]

\* _latest_agent_closeout_runtime_control_observation: of all that is logged
LastTold == IF told = <<>> THEN None ELSE told[Len(told)]

Ends(t) == task' = t /\ Goes("clear")

\* _normalize_executor_terminal_closeout
Blocked(t) == [Unleased(t) EXCEPT !.exec = "rest",
                 !.status = IF t.reco /\ t.err THEN "waiting_executor" ELSE "blocked"]
AskedUser(t) == Blocked([t EXCEPT !.err = @ \/ ~t.reco, !.reco = TRUE])

\* The task that finish_task_lifecycle writes when the agent closes out
ClosedOut(t, s) ==
  CASE signals[s].kind = "stop" -> StoppedTask(t)
    [] signals[s].kind = "pause" -> [PausedTask(t) EXCEPT !.err = FALSE]
    [] OTHER -> [Controlled(t, "waiting_executor", None) EXCEPT
                   !.status = "waiting_executor", !.exec = "rest", !.reco = TRUE, !.err = FALSE]

\* A respond ends the task, or closes out the signal the agent was told of
\* last; the answer is refused when that signal is consumed already.
Decide ==
  /\ exe.pc = "decide"
  /\ CASE exe.answer = "ask_user" -> Ends(AskedUser(exe.copy)) /\ UNCHANGED signals
       [] exe.answer = "block" -> Ends(Blocked(exe.copy)) /\ UNCHANGED signals
       [] LastTold = None ->
            Ends([exe.copy EXCEPT !.status = "completed"]) /\ UNCHANGED signals
       [] signals[LastTold].state = "consumed" ->
            Goes("refused") /\ UNCHANGED <<task, signals>>
       [] OTHER -> /\ signals' = [signals EXCEPT ![LastTold].state = "consumed"]
                   /\ Goes("closing")
                   /\ UNCHANGED task
  /\ UNCHANGED <<told, reg, cell, sup, op, count>>

CloseOut ==
  /\ exe.pc = "closing"
  /\ Ends(ClosedOut(exe.copy, LastTold))
  /\ UNCHANGED <<signals, told, reg, cell, sup, op, count>>

\* "runtime_gateway_control_signal_consumption_unavailable": nothing is written
Refused ==
  /\ exe.pc = "refused"
  /\ Goes("clear")
  /\ UNCHANGED <<task, signals, told, reg, cell, sup, op, count>>

\* _pause_executor_for_step_budget, and then its signal and observation
Budget ==
  /\ exe.pc = "budget"
  /\ task' = [exe.copy EXCEPT !.status = "waiting_executor", !.exec = "rest",
                              !.reco = TRUE, !.err = TRUE]
  /\ Becomes([exe EXCEPT !.pc = "exhausted", !.at = "step_budget"])
  /\ UNCHANGED <<signals, told, reg, cell, sup, op, count>>

Exhausted ==
  /\ exe.pc = "exhausted"
  /\ Len(signals) < MaxSignals
  /\ signals' = Append(signals, [kind |-> "budget_exhausted", state |-> "observed",
                                 scope |-> exe.copy.scope])
  /\ told' = Append(told, Len(signals'))
  /\ Goes("clear")
  /\ UNCHANGED <<task, reg, cell, sup, op, count>>

\* Mutant of Unregistered: the epoch to clear is read from the record.
UnregisteredRecord == IF reg # None /\ reg.epoch = task.epoch THEN None ELSE reg

\* clear_executor_epoch
Unregistered == IF reg # None /\ reg.epoch = exe.epoch THEN None ELSE reg

\* An exception ends the executor; after its finally clause, which clears the
\* entry, the runner calls _mark_executor_failed.
Raises ==
  /\ Faults
  /\ exe.pc \in {"compile", "tool", "decide"}
  /\ Goes("fail")
  /\ reg' = Unregistered
  /\ UNCHANGED <<task, signals, told, cell, sup, op, count>>

MarkFailed ==
  /\ exe.pc = "fail"
  /\ task' = [task EXCEPT !.status = "executor_failed", !.exec = "rest", !.lease = FALSE,
                          !.reco = TRUE, !.err = TRUE, !.scope = 0]
  /\ Goes("end")
  /\ UNCHANGED <<signals, told, reg, cell, sup, op, count>>

Clear ==
  /\ exe.pc = "clear"
  /\ reg' = Unregistered
  /\ Goes("end")
  /\ UNCHANGED <<task, signals, told, cell, sup, op, count>>

\* _runner: out of steps it would go on, were the task executable; but its
\* own cell claims the task.  Otherwise the thread ends.
End ==
  /\ exe.pc = "end"
  /\ IF exe.at = "step_budget" /\ Executable(task)
     THEN Becomes([NoExecutor EXCEPT !.pc = "begin"]) /\ UNCHANGED cell
     ELSE Becomes(NoExecutor) /\ cell' = [cell EXCEPT !.alive = FALSE]
  /\ UNCHANGED <<task, signals, told, reg, sup, op, count>>

ExecutorStep ==
  \/ Begin \/ Claim \/ ClaimRaises \/ Step \/ Hear \/ Tell \/ Prepare \/ Cancelled \/ Compile
  \/ Interrupted \/ ModelCancelled \/ ModelFails \/ ModelAnswers \/ Recover \/ Acted
  \/ ToolInterrupted \/ ToolAdmitted \/ ToolStarts \/ ToolAttaches \/ ToolEnds
  \/ ToolCancelled \/ Decide \/ CloseOut \/ Refused \/ Budget \/ Exhausted
  \/ Raises \/ MarkFailed \/ Clear \/ End

-----------------------------------------------------------------------------
\* Mutant of Recovers: only an executor that had begun to run counts.
RecoversRunning(t) == t.exec = "running" /\ ~Paused(t) /\ ~Stopped(t)

\* _has_durable_executor_lease_marker, and no control of the user's
Recovers(t) == /\ t.status \notin {"completed", "aborted"}
               /\ t.exec \in {"scheduled", "running"} \/ t.lease
               /\ ~Paused(t) /\ ~Stopped(t)

\* The process is lost and started again: recover_interrupted_executor_leases
Restart ==
  /\ count.crashes < MaxCrashes
  /\ count' = [count EXCEPT !.crashes = @ + 1]
  /\ task' = IF Recovers(task)
             THEN [task EXCEPT !.status = "waiting_executor", !.exec = "rest",
                               !.reco = TRUE, !.err = TRUE]
             ELSE task
  /\ reg' = None
  /\ cell' = [NoCell EXCEPT !.id = cell.id]
  /\ sup' = None
  /\ exe' = NoExecutor
  /\ op' = [c \in Callers |-> NoRequest]
  /\ UNCHANGED <<signals, told>>

Next == \/ ExecutorStep
        \/ \E c \in Callers : Pause(c) \/ Stop(c) \/ Resume(c) \/ Launch(c) \/ RequestStep(c)
        \/ Restart

Spec == Init /\ [][Next]_vars

-----------------------------------------------------------------------------
(* Properties.                                                             *)

\* The type of the variables: a record another thread restores is still one.
TypeOK ==
  /\ task \in TaskRecords
  /\ signals \in Seq(SignalRecords) /\ Len(signals) <= MaxSignals
  /\ told \in Seq(Ids)
  /\ reg \in Entries \cup {None}
  /\ cell \in CellRecords
  /\ sup \in Callers \cup {None}
  /\ exe \in ExecutorRecords
  /\ op \in [Callers -> RequestRecords]
  /\ count \in [requests : Nat, crashes : Nat]

Told == {told[i] : i \in 1 .. Len(told)}

\* The log tells the agent of a signal at most once, although it is found on
\* two ways (the registry entry and the log) and the record that remembers
\* its delivery is overwritten by other threads; what is told is closed, and
\* only what was told is ever consumed (3344-3515, mark_observed_by_id).
ToldOnce ==
  /\ \A i, j \in 1 .. Len(told) : told[i] = told[j] => i = j
  /\ \A s \in Told : s <= Len(signals) /\ signals[s].state # "pending"
  /\ \A s \in 1 .. Len(signals) : signals[s].state = "consumed" => s \in Told

\* A task the agent was told to pause or stop does not end as completed with
\* that request open: its answer closes the signal out first.
CompletedWithNoneOpen ==
  task.status = "completed" => \A s \in Told : signals[s].state = "consumed"

\* The executor has registered itself and has not ended.
Registered == exe.pc \notin {"idle", "begin", "fail", "end"}

\* Whatever epoch the record was set back to, the entry an executor registered
\* stays its own until it ends, and none outlives an executor that came as far
\* as its try clause.  One that was halted or failed before leaves its entry
\* (1361-1398), where signals are set that nobody looks for; but the next
\* executor replaces it, and never hears what is set in another one's entry.
EntryOfLiveExecutor ==
  /\ Registered => reg # None /\ reg.cell = cell.id /\ reg.epoch = exe.epoch
  /\ reg # None /\ reg.begun => Registered

\* A tool whose invocation is cancelled is not awaited to its end: whichever
\* comes first, the signal or the task, the other finds it.
ToolCancelArrives == exe.pc = "await" => cell.tool # "signalled"

\* A boundary the executor passes overlooks no signal published for its cell,
\* except behind an entry it has told already, or when another thread's copy
\* of the record has put an earlier cell's scope back.
NothingOverlooked ==
  [][exe.pc = "hear" /\ exe'.pc \notin {"hear", "tell", "idle"}
       => \/ Pending([scope |-> cell.id]) = {}
          \/ Heard \in Told
          \/ task.scope # cell.id]_vars

\* How far signal s has come, for the abstract specification.
StageOf(s) ==
  IF s > Len(signals) THEN "unsent"
  ELSE IF signals[s].state = "pending" THEN "pending"
  ELSE IF s \in Told THEN IF signals[s].state = "consumed" THEN "consumed" ELSE "told"
  ELSE IF exe.pc = "tell" /\ exe.sig = s THEN "telling"
  ELSE "lost"

Delivery == INSTANCE ControlDelivery
              WITH Signals <- Ids, stage <- [s \in Ids |-> StageOf(s)], log <- told

\* Every step is one of ControlDelivery: a signal is told once, one at a time,
\* and never lost but by a restart in the middle of its telling; a closeout
\* consumes what the agent was told last.
DeliversControl == Delivery!Spec

\* A restart leaves no task running without an executor, but one whose pause
\* or stop was already requested: the executor status in the record, which
\* every thread writes back, tells the recovery which tasks were running.
RestartLeavesNoneRunning ==
  [][count'.crashes # count.crashes /\ task'.status = "running"
       => Paused(task) \/ Stopped(task)]_vars

\* Checked by a run that expects it to fail: a resumed task "continues from
\* the checkpoint", so its agent's answer is taken.  The closeout looks at all
\* that is logged, finds the signal that paused the earlier executor, which
\* is consumed, and refuses the answer.
ResumedAnswerIsTaken == exe.pc # "refused"
=============================================================================
