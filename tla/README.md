# Mythical Age: a TLA+ model of the backend's run control

The repository is a platform for agents: a FastAPI backend (`src/backend`), a web
workbench, an Electron shell and a VS Code extension. Its own logic that is hard to
test lies in the backend, where request coroutines, background coroutines, one thread
per runtime cell and files on disk share the state of a chat session. This directory
models that logic, checks it with TLC and proves its main invariants with TLAPS.

Paths below are relative to `src/backend` unless they say otherwise.

## Inventory

| Component | State | Operations | Talks to | Hard behaviour | What makes it correct |
|---|---|---|---|---|---|
| Queued user input store (`runtime/shared/queued_user_input_store.py`) | one JSON file per session: items with a status, a policy, a target | enqueue, list, claim_next, claim_for_active_turn, retarget, mark_dispatched, mark_failed, cancel, reset_stale | chat API, dispatcher, loops of turns and tasks | claims by several actors, crash between claim and mark, cancel in two critical sections | a message is worked on by one actor, settles, and settles once |
| Dispatch (`runtime/shared/queued_user_input_dispatcher.py`, `api/chat.py`) | none of its own, local variables across awaits | admission target, steer validation, dispatch loop | store, run registry, supervisor, active turns | every await lets other coroutines and cells move | at most one run per message, none while the session is busy, nothing stranded |
| Chat runs (`api/chat.py`, `runtime/shared/runtime_run_registry.py`) | status, owner, diagnostics of each run | create, schedule, mark events, finish, orphan | supervisor, replay, active turn | the status is terminal before the cell has ended; restarts | one terminal status; a run of a dead process is orphaned |
| Active turn (`harness/runtime/active_turn.py`) | one current turn per session | start, bind, complete, interrupt, compare-and-update | facade, executor, stop endpoint | unlocked read-modify-write from several threads | one turn at a time, released when its work is over |
| Queued steers (`harness/loop/active_turn_steering.py`) | local claims | claim for the current turn, mark each | store, task executor | the loop may be cancelled between claim and marks | a steer goes to the turn it is aimed at |
| Cell supervisor (`harness/runtime/agent_run_supervisor.py`) | cells, maps from jobs to cells, one lock | schedule, supervise, cancel, done callback | cells, run registry, gateway | admission against cells that are ending | one cell per job, primary work alone, a ceiling |
| Cell and worker (`harness/runtime/agent_runtime_cell.py`, `agent_worker_backend.py`) | handle fields, a thread, an event loop | start, request_cancel, mark_done | supervisor | the handle has no lock of its own | a cancel is neither lost nor applied to finished work |
| Tool invocation control (`runtime/tool_runtime/tool_invocation_control.py`) | invocations of a cell | start, attach, cancel, complete, fail | cell, tools | a cancel by snapshot from another thread | a tool that was cancelled is not awaited to its end |
| Control signals and epochs (`harness/runtime/runtime_gateway.py`, `harness/loop/task_run_execution_control.py`) | an append-only log, one registry entry per task | publish, drain, observe, consume, request | executor, control endpoints | a signal comes on two ways, to an executor that may be replaced | a signal is told once, and not overlooked |
| Task run control (`harness/runtime/task_run_control_gateway.py`, `harness/loop/task_executor_controller.py`) | status, control state and lease of a task | schedule, pause, resume, approve, stop, recover | supervisor, signals | whole copies of one record written by several threads | no completed task with an open request; a restart finds what was running |
| Task executor (`harness/loop/task_executor.py`) | steps, its copy of the task, observations | claim, boundaries, model call, tools, closeout | all of the above, the model | decisions come from a language model, copies go stale across awaits | bounded steps, the agent is told what is asked of it |
| Single agent turn, facade (`harness/loop`, `harness/entrypoint`) | local variables of a turn | the agent's loop | active turn, executor, the model | as above | one terminal lifecycle event |
| Event log and replay (`runtime/shared/event_log.py`, `stream_replay.py`) | files of events, cursors | append, list, subscribe, replay | all | cursors at offset 0 | no event skipped or shown twice |
| Graph loop (`graph_system/loop.py`) | the checkpointed loop state: node and edge states, active orders, results | dispatch, accept a result, requeue, replay | checkpoint store, root task run | results of orders that were dropped, a crash between checkpoint and root | a node is done on the present results of what it depends on |
| Graph supervision (`graph_system/background_supervisor.py`, `resume.py`, `api/graph_system.py`) | background tasks, known by their names; the root's pause control | submit, follow up, pause, resume, execute an order | graph loop, clients | tasks that are spawned and have not begun, pauses at boundaries | one task per order; no run stands still unseen |
| Memory, context, permissions, capabilities, model gateway, agents, tasks, frontend | files and payloads | mostly pure functions and I/O | | | not state machines |

`PROJECT.json` lists all of them with their files, and under `hazards` what in this code
is hard to test, at its line.

## Modules

| Module | Models |
|---|---|
| `QueuedInputStore` | the store's methods as functions from the stored items to the stored items |
| `InputDelivery` | abstract: what a session promises for each queued message |
| `SessionDispatch` (extends the store, implements it) | one chat session: handlers, dispatchers, chat runs and their cells, the active turn, the task it hands over to, cancels, restarts |
| `SessionWork` | abstract: which jobs of a session may be worked on together |
| `CellSupervisor` (implements it) | the supervisor, its cells and their worker threads at the grain of their locks and fields |
| `ControlDelivery` | abstract: how far a control signal may come, and what the agent is told |
| `TaskControl` (implements it) | one task run: requests to pause, stop and resume it, the controller, its executor, its control signals, the tools of its cell |
| `DependencyOrder` | abstract: the order in which the work of a graph may begin, end and be undone |
| `GraphRun` (implements it) | one graph run: the loop's checkpoint, the root's control, background tasks, requests, restarts |
| `MCSessionDispatch`, `MCCellSupervisor`, `MCTaskControl`, `MCGraphRun` | instances and symmetry for TLC |
| `SessionDispatch_proofs` | type correctness, exclusive claims |
| `SessionDispatchRuns_proofs` (extends it) | at most one run per message; cells take turns |
| `SessionDispatchDelivery_proofs` (extends it) | dispatched messages went where their record says; nothing is stranded |
| `SessionDispatchRefinement_proofs` (extends it) | the refinement |
| `CellSupervisor_proofs` | types, running cells are mapped, one cell per job, turns of primary work, the ceiling, the refinement |
| `CellSupervisorCancels_proofs` (extends it) | no cancel is lost |
| `TaskControl_proofs` | types, signals told once, the registry entry, tools that are cancelled, recovery after a restart, what completed means, what a boundary overlooks, the refinement |
| `GraphRun_proofs` | types, one task per order, present inputs, the refinement; how a run closes, that it does not stand still |

The levels meet at the supervisor: `SessionDispatch` takes the admission of a cell as
one step, because it happens under the supervisor's lock; `CellSupervisor` opens that step;
`TaskControl` has the admission, `on_scheduled` and the start of the thread as steps of
the caller that holds the lock, and reads the cell as others see it (`Claimed`).
`SessionDispatch` leaves a task's life after the hand-over to `TaskControl`. A graph run's
nodes are executed by agents; `GraphRun` takes what one yields as arbitrary.

### SessionDispatch and the code

- `store` is the session's file. A message is named by its `client_message_id`
  (`Items`); its target is the turn and whether it also names the task of that turn.
- `co[d]` is a coroutine of the control loop: `d \in Items` is the handler that posts
  message `d`, `d \in Runs` is the dispatcher spawned when the cell of run `d` is done.
  A segment between two awaits is one action, each awaited store method another:
  `DoReset`, `DoList`, `Decide`, `DoRetarget`, `DoClaimAuto`, `DoClaimSteer`, `Start`,
  `DoMark`, `DoFail` are `_dispatch_next_queued_input` and
  `_dispatch_claimed_queued_input` in `api/chat.py`. The head of the listing is kept in
  `co[d]` across awaits as the code keeps it in `next_item`. A dispatcher that returns
  with a message in sight, because its run was not created (`api/chat.py:1305`) or its
  attempts are used up, rests at `gaveUp`; any other at `idle`.
- `run[r]` is a chat run: its status in the registry, the phase of its cell's thread,
  the message it was made for, whether the cell's cancel was requested, the task its
  turn is bound to, and the process that owns it. `CreateAndSchedule` is
  `_create_and_schedule_run`: no await, so one action, with the cancels
  `supervise_cells` issues and the failed run of a rejected cell.
- `turn` is `ActiveTurnRegistry`'s current turn, named by the run that started it.
- `steering[r]` are messages the loop of turn `r`, or the executor of its task, has
  claimed and not yet marked.
- `CellBegins` ... `OnDone` follow the thread: the status becomes terminal (`Complete`,
  `Interrupted`), the stream is flushed (`Unwind`, where a requested cancel strikes and
  the turn is released), `done_event` is set (`SetDone`), the callback spawns the next
  dispatcher (`OnDone`).
- `TaskParks`, `TaskPauses` and `TaskEnds` differ in what becomes of the turn: an
  approval keeps it, a pause and an end go through `finish_task_lifecycle`, which ends it.
- `Age` lets a claim turn 300 s old; `Restart` ends the process, orphans its runs as the
  startup reconciliation does, and forgets turns and coroutines.

### CellSupervisor and the code

- `cell[c]` is a cell and its handle, created in the order in which `_cells_by_id` is
  searched; `map` stands for `_task_run_cells` and `_runtime_run_cells`; `sup` and
  `lock[c]` are the locks; `terminal` are the jobs whose stored status is terminal.
- `caller[k]` is a thread inside `schedule_task_run`, `schedule_single_turn` or a
  cancel. `supervise_cells` looks at one cell at a time, and `request_cancel` is split
  where the worker may interfere: status and `cancel_requested`, the look at the task,
  `cancel_delivered`, `call_soon_threadsafe`, which raises on a closed loop.
- The worker: `PublishTask`, `CheckCancel` (the look for an early cancel), `WorkEnds`,
  `CloseLoop`, `SetDone`, `MarkDone` (cell lock), `Unmap` (supervisor lock).
- `Admit` removes a task from `terminal` because `on_scheduled` writes it as running
  whatever it was.

### TaskControl and the code

- `task` is the stored task run. Every writer reads the whole record, changes some fields
  of its copy and writes the whole copy back, as `upsert_task_run` does: the copies are
  `op[c].copy` of a request and `exe.copy` of the executor (`current_task`), and the
  places where the code reads the record again are the only ones that refresh them.
- `Visible` is `runtime_control_state_from_task_run`; `Resumable`, `Executable`,
  `Schedulable` are the classifications of `task_run_status.py` and of the controller.
- `signals` is the gateway's log; a signal is its place in it, with the last of pending,
  observed and consumed. `told` is the order of their observations in the task's log.
  `reg` is the registry entry of the executor's epoch, with the signal set on it; its
  `begun` is history: the executor entered the try clause whose end clears the entry.
- `Pause`, `Stop`, `Resume`, `Launch` begin a request; `Publish`, `Signal`, `CancelTools`,
  `Cancel`, `Finish`, `Write` are the parts of `_request_signal`,
  `_hard_stop_claimed_task_run` and the write of the copy, between which other threads
  run. `Check`, `Admit`, `Mark`, `Start`, `PublishHandle`, `StartFails` are the controller
  and the supervisor; `sup` is the supervisor's lock.
- The executor is its program counter: `Begin` and `Claim` take the epoch (`Claim`'s halt
  and `ClaimRaises` leave before the try clause, and leave the entry); `Step` ...
  `Acted` are one round of its loop. `hear` and `tell` are the boundary
  (`_record_pending_runtime_control_signal_for_agent`), entered at eight places
  (`Boundaries`) that differ in what they go on with (`After`). `ToolStarts`,
  `ToolAttaches`, `ToolEnds`, `ToolCancelled` meet the registry of invocations.
- `Decide`, `CloseOut`, `Refused`, `Budget`, `Exhausted`, `Raises`, `MarkFailed`, `Clear`,
  `End` are the ways an executor ends. `Restart` is the end of the process and
  `recover_interrupted_executor_leases`.

### GraphRun and the code

- The graph system runs on one event loop, and the only await of a work order is its
  execution: what happens between two awaits is one action.
- `graph` is `GraphLoopState` as the checkpoint holds it. The loop's functions are
  operators from loop state to loop states: `Ready`, `StatusOf` (`status_snapshot`),
  `Dispatches` (`dispatch_ready` and its failure to resolve a node's context), `Accepted`
  (`accept_node_result`), `Requeued` (with or without `reset_downstream`), `Replayed`,
  `Resumed` (`GraphRunResume.resume`). A work order is named by its node and the number of
  the dispatch that issued it.
- `root` is the root task run's status and its `runtime_control`; it is written after the
  checkpoint, and `RestartInAccept` ends the process between the two.
- `work` are executions under way: background tasks of the supervisor, known to it by
  name (`TaskRunning`), and executions a client asked for, which it does not know.
- `Submitted` is `submit_until_idle`, `FollowedUp` what a task does after its result was
  accepted; `left` is the `max_node_executions` handed on.
- `driven` is history: a submission was made, nothing has taken the run out of the
  supervisor's hands since (a request, a refusal, a failure, a boundary, a restart).
- `alone` is history too: which orders had been issued when a node was last requeued
  without what is downstream of it. `Outdated` are the edges this leaves out of date: their
  target has begun under an order not later than that. It is what `DependencyOrder` calls
  `kept`, and what the properties except.

## Runs

| Run | Instance | Shows |
|---|---|---|
| `dispatch_race` | 2 messages, 2 runs, faults, hand-offs; 446 thousand states | `TypeOK`, `ClaimExclusive`, `OneRunPerInput`, `OnePrimaryCell`, `DispatchedWhereItSays`, `NoInputStranded`, the refinement `DeliversInputs` |
| `dispatch_restart` | 1 message submitted twice, 4 runs, 1 restart, faults, hand-offs, cancels; 449 thousand states | `ClaimExclusive`, `OneRunPerInput`, `DispatchedWhereItSays`, `DeliversInputs` across a restart |
| `dispatch_liveness` | 2 messages, 2 runs, cancels, no faults or hand-offs; fairness; 418 thousand states | `ClaimExclusive`, `OneRunPerInput`, `EveryInputSettled` |
| `dispatch_terminal` | 1 message, 1 run, cancels | a settled status changes (violation) |
| `dispatch_busy` | 2 messages, 2 runs | a run is created while another is attached (violation) |
| `cell_threads` | a turn and the task it hands over to, 2 callers with 3 calls, 2 cells, start failures, swallowed cancels; 2.5 million states | `TypeOK`, `RunningIsMapped`, `OneCellPerJob`, `CancelNotLost`, the refinement `SchedulesWork` |
| `cell_admission` | 2 turns, a task, a subagent, room for 2 cells, 3 calls; 4.3 million states | `PrimaryAlone`, `CeilingKept` |
| `cell_liveness` | 1 task scheduled again, 2 callers with 2 calls; fairness | `CancelEnds`, `CallersReturn` |
| `cell_relabel` | 1 cell, 2 callers | finished work is marked cancelled (violation) |
| `task_control` | 2 callers with 3 requests, 3 signals, 2 cells, a budget of 1 step, faults, 1 restart; 1.41 million states | `TypeOK`, `ToldOnce`, `CompletedWithNoneOpen`, `EntryOfLiveExecutor`, `ToolCancelArrives`, `NothingOverlooked`, `RestartLeavesNoneRunning`, the refinement `DeliversControl` |
| `task_resume` | 1 caller, no faults, no restart, model calls slower than requests | the answer of a resumed agent is refused (violation) |
| `graph_run` | 4 nodes (two, their join and one behind it), 5 dispatches, 3 requests, faults, 1 restart; 421 thousand states | `TypeOK`, `OneTaskPerOrder`, `RunningHasOrder`, `CompletedOnPresentInputs`, `ClosedHasNoOrder`, `NoSilentStall`, `RootCompletedIsTrue`, the refinement `KeepsDependencyOrder` |

The four violations are disagreements between the code and its own tests or design
documents, quoted in `PROJECT.json` under `findings`. `task_resume` is the plainest: a
task is paused, its agent is told and closes out, the task is resumed, and the answer of
the new executor's agent meets the consumed signal of the old one and is dropped, with the
task left running and nobody to execute it.

**Bounds.** `MaxPosts` and `MaxCrashes` bound submissions and restarts, `MaxCalls` and
`MaxCells` calls and cells. Two messages and two runs let a dispatcher work on a message
while another posts, claims or cancels, and let a steer be aimed at a turn that another
replaces; `dispatch_restart` has four runs, for before and after the restart. Cancels of one
message out of two are in `dispatch_liveness`, those that meet faults, hand-offs and a
restart in `dispatch_restart`; all at once, `dispatch_race` would have eight times as many
states. `MaxAttempts` stands for the 8 of the dispatch loop and `ClaimLimit` for
the number of steers a turn claims at once. With one attempt more than there are
messages, as in `dispatch_liveness`, no dispatcher runs out of them, which
`EveryInputSettled` needs: more invalid steers than attempts end the loop early.
`NoInputStranded` does not depend on it, since it excepts a dispatcher that gave up. Two
cells and three calls let a job be scheduled again while its first cell is being
unmapped; the third cell of `cell_admission` is what the ceiling keeps out. `SlowClaims`
is FALSE in every run: a live holder that keeps a claim 300 s loses it by design. A
model run out of fresh runs or cells stops, so deadlock is not checked.

In `task_control`, three requests are a launch, a control and a resume, or a launch and
two controls that race; two cells let an executor be replaced by one of another epoch.
One step has all boundaries of an executor's round: a signal is told before the model's
call and closed out by its answer, or told after it and met by the budget, which ends,
or by the executor of the next cell. A signal takes part in at most three ways (entry,
log, observation), so a third one adds only a second overtaking. `SlowModel` in
`task_resume` makes each request end before the model answers, so that its trace needs
no race; it has three steps. In `graph_run`, four nodes give two that run at once, a
join and a chain of three, the depth at which `Budget` 3 runs out; `Limit` 2 lets both
be dispatched together; five dispatches let a node be done again after a requeue, with
the result of its dropped order still to come, and the graph completed. Three requests are
a submission, a requeue of a node alone and any third one; each case that the properties
except is reached.

**Symmetry** is used in safety runs only, over messages, runs and callers, which the
definitions never choose between; cells are numbers and are not permuted. The symmetry of
`graph_run` exchanges the two nodes without inputs, which leaves the edges as they are.

**Fairness.** `SessionDispatch`: the event loop resumes every ready coroutine and worker
threads return, so handlers and dispatchers are weakly fair; a cell's thread runs on,
and its work completes because the harness bounds the steps of a turn. Users, faults,
tasks and clocks owe nothing. `CellSupervisor`: threads run on and a lock that is
released is given to a waiter (each thread makes finitely many calls, so weak fairness
is enough); work must end only after its cancel is posted, and `Stubborn` is FALSE in
the liveness run, since work that swallows cancels need not end. No fairness is given
to calls, cancels or status writes. `TaskControl` and `GraphRun` state none: what an
agent or a node does is up to a language model and may take for ever, and the code gives
no bound that would make progress a promise. That a graph run goes on is stated as an
invariant instead: `NoSilentStall` says that it does not stand still with no task left.

## Proofs

For every finite set of messages and runs and every bound (`SessionDispatch`):

- `TypeCorrect`: `Spec => []TypeOK`. One lemma per kind of actor; the store's methods
  return stores of the right shape (`StoreTypes`, `MarkTypes`, `ResetType`).
- `ClaimsAreExclusive`: `Spec => []ClaimExclusive`, assuming `SlowClaims = FALSE`.
  `ClaimExclusive` is not inductive: nothing in it says that a held message cannot be
  claimed again. `HeldIsClaimed` adds that: what an actor holds is stored as dispatching
  or cancelled and is not stale, so claims (which take queued messages) and the stale
  reset (which takes old ones) miss it. Steps that take no claim are handled by one
  frame lemma, `ClaimFrame`.
- `AtMostOneRunPerInput`: `Spec => []OneRunPerInput`, same assumption. The strengthening
  is `RunAccounted`: the run made for a message in this process is accounted for by the
  message's settled status or by the one coroutine that has yet to mark it, and no
  coroutine is about to create another; it rests on `ClaimInv` (only one coroutine holds
  the message) and `SpawnedOnce` (a run's dispatcher is spawned once).
- `CellsTakeTurns`: `Spec => []OnePrimaryCell`, no assumption. It is inductive with
  `TypeOK`: only the admission of a run or of a task adds an actor, and both look at all
  others under the supervisor's lock.
- `DispatchedTrue`: `Spec => []DispatchedWhereItSays`, assuming `SlowClaims = FALSE`. The
  strengthening `HeldIsAimed` says it of what is held: a coroutine about to mark holds a
  message for which it created that run, and a turn holds steers aimed at it. That nobody
  re-aims a held message rests on `ClaimInv`; that a run keeps its message, on
  `UnbornIsNew` (only a run that does not exist yet is given one).
- `NothingStranded`: `Spec => []NoInputStranded`, no assumption: however slow claims are
  and however often messages are cancelled. The strengthening `QueueIsTended` names who
  tends to a queue: a coroutine that has yet to look at it or has taken its head, or a
  cell whose end spawns one. A dispatcher may leave without a message because a run is
  attached, which is such a cell, or because a turn is current, which `TurnIsServed` says
  has one.
- `Refinement`: `Spec => DeliversInputs`, assuming `SlowClaims = FALSE`. `PlaceOf` reads a
  message's place from its stored status, `HandOf` who has it from the coroutines, the
  turns and the runs of this process. Every step is one of `InputDelivery`'s or leaves both
  alone: `DoClaimAuto`, `DoClaimSteer` and `ClaimSteers` take, `Start` gives, the marks
  settle, a loop that is cancelled between its claim and its marks drops, `Restart` drops
  all, `DoReset` returns.
  That a message is taken only from nobody is `ClaimInv`; that it is given once is
  `RunAccounted` and `UnbornIsNew`; that what `DoReset` returns is free is `HeldIsClaimed`
  with `RunAccounted`. What these leave open is a cancel that writes late: the new
  invariant `CanceledIsKnown` says that its message was submitted.

For all sets of jobs and threads, any number of cells and any ceiling
(`CellSupervisor`), with failing thread starts and stubborn work allowed:

- `SupervisorTypeCorrect`: `Spec => []TypeOK`, one lemma per kind of thread.
- `RunningCellsAreMapped`, `JobsRunOnce`: `RunningIsMapped` is inductive with `TypeOK`.
  Only `Admit` starts a cell. `StepCalm` shows that in every other step the cells that
  run afterwards ran before, on the same job; that the map keeps them is
  proved action by action: a job that has a running cell is not admissible, so neither
  `Admit` nor `StartFails` overwrites its entry, and `Unmap` removes only its own cell's.
  Two cells on one job would both be what the job is mapped to, so `OneCellPerJob`
  follows.
- `PrimaryTakesTurns`: `PrimaryAlone` is inductive with these. The supervisor looks at
  the first other primary cell only; that this suffices is an argument of its own: the
  cells already running satisfy `PrimaryAlone`, and a turn hands over to one task, so
  when the first one hands over to the new job there is no second.
- `CeilingHolds`: the calm steps add no cell that counts, and `Admit` adds one below the
  ceiling, by the library's facts on finite sets.
- `Refinement`: `Spec => SchedulesWork`. What is worked on are the jobs of running cells,
  and since a job has one cell (`OneCellPerJob`) a cell's request or end is its job's
  (`CellMovesWork`). `Admit` begins one: `OthersHandOver` turns the look at the first other
  primary cell into a statement about all of them, and `UndisturbedAreCounted` maps the
  jobs not asked to end one to one to the cells that are counted.
- `NoCancelLost`: `CancelNotLost` is not inductive. `LockHeldInside` says that a cell's
  lock is held by exactly the caller inside its `request_cancel`; `CancelOnItsWay`, that
  a cancel requested of running work and not delivered has that caller still on its way
  to deliver it. Only `LockCell` makes a cell pending in this sense: the worker that
  starts its work has seen no request.

For any number of callers, signals, cells, steps and requests (`TaskControl`), with
faults, stops, restarts and workers that outrun their handle allowed:

- `Invariance`: the invariant is `Types`, `Places`, `Telling`, `ToldOnce`,
  `EntryOfLiveExecutor` and `ToolCancelArrives`. Because every thread writes whole copies
  back, `Types` demands of every copy what is proved of the record (`SoundTasks`: a task
  that runs is marked so), and `Places` says who may be where: only the caller with the
  supervisor's lock makes a cell, an executor lives in a living cell, and one that has yet
  to claim the task has not begun its entry.
- `TypeCorrect`: `Spec => []TypeOK`.
- `AgentToldOnce`: `Spec => []ToldOnce`. Not inductive: between `Hear` and `Tell` the
  signal is closed and not yet logged; `Telling` says that this one was not told.
- `RegistryIsLive`: `Spec => []EntryOfLiveExecutor`, from `Places`: an executor registers
  over whatever entry is left and clears by the epoch it took, never by the one in the
  record. That no entry outlives its executor is true only of those that entered the try
  clause (`begun`).
- `CancelArrives`: `Spec => []ToolCancelArrives`.
- `RestartRecovers`: `Spec => RestartLeavesNoneRunning`, an action property, from
  `SoundTasks`.
- `CompletedClosed`: `Spec => []CompletedWithNoneOpen`. Copies make this one subtle: a
  request that read a completed task could write it back later. `Completes` says that no
  copy still to be written is completed, except in a schedule that has been admitted and
  writes the task as running; and that a task becomes completed only when its agent was
  told nothing (the answer of an agent that was told is a closeout or, after a resume, the
  refusal `task_resume` shows).
- `BoundariesHear`: `Spec => NothingOverlooked`, an action property: a boundary goes on
  only when no signal published for its cell is left, behind a told entry and a scope that
  another copy put back excepted. The boundary skips a signal that the record
  remembers as delivered, so `Deliveries` says that what any copy remembers was told, and
  that a signal held by the entry, a request or the executor is pending, being told or told.
- `Refinement`: `Spec => DeliversControl`. Each action is one of `ControlDelivery`'s or
  leaves its variables alone: `Hear` takes a signal, `Tell` says it, `Exhausted` notes the
  budget's, `Decide` closes out the last one; a signal is lost by `Restart` alone, and only
  one that is being told.

For every finite graph, every limit and bound (`GraphRun`):

- `Invariance`: each operator on loop states (`WithOrders`, `DispatchBlocked`, `Recorded`,
  `Requeued`, `Replayed`) preserves `Consistent`: orders belong to the nodes that run,
  ready edges have completed sources, what runs or is completed rests on present results or
  on a node that was requeued alone since. They are composed in one step, so each has its
  lemma and the steps cite them. The lemmas take `since`, the value of `alone`; what a
  requeue makes of it is `SinceAfter`.
- `TypeCorrect`, `OneTask` (`OneTaskPerOrder`), `RunningNodesHaveOrders`
  (`RunningHasOrder`), `PresentInputs` (`CompletedOnPresentInputs`).
- `Refinement`: `Spec => KeepsDependencyOrder`. Each operator relates the stages and the
  outdated edges before and after (`Begins`, `OrderStep`), and every step is `Begin`,
  `Advance`, `Redo` or `RedoAlone`, or stutters. `DoneInOrder` adds what the abstract
  specification promises: nothing is in progress or done before what it depends on, but for
  the edges a client left out of date.
- `ClosedRunsAreSettled`: `Spec => []ClosedHasNoOrder`. The invariant on the graph grows to
  `Sound`: a closed status is one `status_snapshot` gives (`Settled`), completed nodes have
  released their edges (`Released`), and a node is tried only with all upstream of it
  completed or requeued alone at some time (`Upheld`).
- `RootIsTrue`: `Spec => []RootCompletedIsTrue`, if every node leads to a terminal one or
  there is no terminal node (`AllLeadToTerminals`). A completed graph then has nothing
  ready, unless a completed node rests on an earlier result of one that was requeued alone
  (`Overtaken`); otherwise a run is completed with open nodes, and dispatch-ready reopens it
  under a root that says completed.
- `RunsDoNotStall`: `Spec => []NoSilentStall`, if no node depends on itself (`Acyclic`). Of
  the nodes that are not completed, one depends on no other such node; by `Sound` it is
  ready, runs, or has closed the run (`Moving`), so the follow-up finds what is left to do.
  A resume replays failed nodes, and of those the one that depends on no other becomes
  ready, or waits for a node that `Upheld` says was requeued alone, and that has failed
  since (`ReplayedWaits`).

Nothing enforces either shape: `validate_task_graph` looks for neither, and a preview of
the loop plan only labels what it cannot place "blocked_or_cyclic"
(`task_system/compiler/loop_plan_preview.py:231`). The instance of `graph_run` has both.

The assumptions on constants are the named ASSUMEs of `QueuedInputStore`,
`SessionDispatch`, `CellSupervisor`, `TaskControl` and `GraphRun`, which TLC evaluates in
every run that uses them.

Model-checked only: the liveness properties `EveryInputSettled`, `CancelEnds` and
`CallersReturn`, which are out of the prover's reach. Every other property of a passing
run is proved: `ClaimsAreExclusive`, `AtMostOneRunPerInput`, `DispatchedTrue` and the
refinement of `InputDelivery` under the assumption they name. The properties of the four
violation runs do not hold.

## What does not hold

The models also show behaviour that no document or test speaks against, so that no run
states its opposite; whoever changes this code should know it.

Dispatch:

- When the creation of a run fails the dispatcher marks its message failed and returns
  (`api/chat.py:1305-1313`), and after eight attempts it returns too (`:1252`, `:1289`):
  other queued messages wait until the next post or the end of a run.

Task control:

- A stop may be undone by a copy written late: by the executor's next write
  (`task_executor.py`, `Compile`, `Tell`) or by `Mark` of a schedule that had begun. A
  completed task is set back to running by a pause that read it before.
- A pause that comes while the task is being scheduled is lost: it sees no claimed cell
  (`agent_runtime_cell.py:94`) and writes a copy that `Mark` overwrites.
- A registry signal found by the model wait that the boundary then finds told already ends
  in model-call recovery: the task is blocked, though no model call failed.
- A process lost between `mark_observed` and the append of the observation loses the
  signal. A restart leaves a task whose pause was requested as running, without executor.
- A task closed out by its step budget, or failed as retryable, is not resumable by the
  classification the resume uses (`task_run_status.py:40`).
- A stop's cancel that strikes inside a serial tool is taken for the tool's own
  (`tool_executor.py:691`), so another tool may start after the stop; a tool that starts
  after the snapshot of `cancel_by_caller` escapes a pause until the next boundary.

- An executor that halts before its claim (`task_executor.py:1382`) or fails before its
  try clause (`:1361-1400`) leaves its registry entry. Signals are set there that nobody
  looks for until the next executor registers; it finds them in the log.

Graph runs:

- A node that is requeued alone (`reset_downstream=False`, `api/graph_system.py:62`) leaves
  what is downstream of it as it was (`loop.py:537`): completed nodes stay completed on a
  result that was dropped, running ones end on it.
- A terminal node that still runs then completes the graph and the root while the requeued
  node is ready; dispatch-ready (`loop.py:244`) dispatches it and reopens the graph under a
  root that says completed.
- If the node requeued alone fails for good, and a node behind it had failed recoverably, a
  follow-up's resume opens the run to replay the latter (`resume.py:71`, `loop.py:665`),
  which waits for the former: the run stays "running" with nothing ready and no task.
- A pause accepted while the last node runs overwrites the root's "completed" with
  waiting_executor; a resume then leaves the root running with nothing to do
  (`background_supervisor.py:318`). A budget that runs out first leaves the pause
  requested and unsettled (`:198`).
- A client that executes an order doubles the background task that does; the second
  result is refused and its task ends without a follow-up (`NoSilentStall` is about runs
  no request has taken over).
- After an automatic replay the root stays failed or blocked, so a pause is refused
  (`loop.py:665`). Requeueing a node below a failed one leaves the run running with nothing
  ready (`loop.py:3828`).
- `max_active_nodes` limits a dispatch, not the run (`loop.py:191`), and
  `max_node_executions` the depth of a chain of follow-ups, not their number.
- A human gate's decision drops the orders of parallel nodes, which stay running
  (`loop.py:733-889`; read in the code, gates are not in the model).

## Abstractions and what is not modelled

- Contents, attachments and model settings of a message; wording and public events.
- Hard stops of a run and compare-and-update of the turn; the lost updates of the run
  registry and the active turn, each of whose updates is one step; resolving the turn
  and claiming its steers, one step here and two in the code.
- A task that has been paused and is bound to the turn of a later run: the model keeps
  it with its first run. Executors do not start again after a restart.
- An exception between the creation of a run and the mark of its message
  (`api/chat.py`, `_dispatch_claimed_queued_input`), other than the failure to create it.
- Direct runs are not posted again by their client, and the ceiling of eight cells is
  only in `CellSupervisor`: one session's primary work never reaches it.
- In `CellSupervisor`: the gate for late events, mailboxes, tool invocations, the age
  limit of `supervise_cells` (no caller sets one); a job's status is written only once
  the job is scheduled; `TaskOf` is constant, that is, a turn hands over to one task;
  `supervise_cells` passes over cells that are done, which stay done.
- In `TaskControl`: approvals, replans, steers, subagents, artifacts, repairs of a model's
  answer and retries of its calls; a batch of tools is one tool; the idempotency keys of
  invocations; the contents of packets and observations; one task, one cell at a time.
  `Claim`, `Finish`, `MarkFailed` and `StartFails` read the record and write it in one step,
  where the code does one after the other: a write of another thread between the two,
  which would be lost like those the other copies overwrite, is left out.
- In `GraphRun`: loops, revisions and memory of the writing graphs, human gates, quality
  retries, wait and join policies other than the default, nodes that are skipped,
  `run_until_idle` of the runner (it drives the same loop from one request), the contents
  of results. That `requeue-nodes` takes several nodes: the run takes one at a time, while
  the operators and the lemmas about them take any set.
- Corrupt files: the store reads what it wrote.
- Not modelled at all, with the reasons in `PROJECT.json`: the agent turn's own loop and
  the facade (what they decide is a language model's), event log and replay, sessions,
  subagents, and the parts that transform data or talk to other services: model gateway,
  permissions, capabilities, prompts and memory, and all clients. These are most of the
  repository's lines.

## Plan

Done: `QueuedInputStore`, `SessionDispatch`, `CellSupervisor`, `TaskControl`,
`ControlDelivery`, `DependencyOrder`, `GraphRun`, `InputDelivery`, `SessionWork` and the
theorems above. Next, in this order:

1. `ActiveTurn`: start, bind, interrupt, compare-and-update and complete with their
   reads and writes apart, hard stops of a run, the pause that ends the turn.
2. `RunRegistry`: reads and writes of `update_run` apart, and its terminal status.
3. Human gates and quality retries in `GraphRun`; approvals in `TaskControl`.
4. `EventReplay`: cursors of clients against appends under the log's lock.
