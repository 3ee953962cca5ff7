--------------------------- MODULE CellSupervisor ---------------------------
(***************************************************************************)
(* AgentRunSupervisor, its AgentRuntimeCells and their worker threads      *)
(* (src/backend/harness/runtime), for one session.                         *)
(*                                                                         *)
(* A job is what a cell executes: a task run or the stream run of a chat   *)
(* turn.  Three kinds of threads meet here: callers, which schedule jobs   *)
(* and cancel them; the worker of each cell, with an event loop of its     *)
(* own; and whoever writes the status of a job.  The supervisor's lock and *)
(* the lock of each cell are modelled; AgentWorkerHandle's fields are read *)
(* and written without a lock of their own by its worker and by cancels.   *)
(***************************************************************************)
EXTENDS Naturals, FiniteSets

CONSTANTS MaxCells,   \* bound: run cells ever created
          Jobs,       \* task_run_ids and stream_run_ids of one session
          Callers,    \* threads that schedule or cancel
          None,
          Tasks,      \* the task_run_ids among the jobs
          Primary,    \* the jobs of which a session runs one at a time
          TaskOf,     \* the task a chat turn's job is bound to, or None
          MaxActive,  \* max_active_cells
          MaxCalls,   \* bound: calls made by each caller
          Faults,     \* may a worker thread fail to start?
          Stubborn    \* may work swallow the CancelledError and go on?

\* run_cell_ids, never used twice; _cells_by_id is searched in this order.
Cells == 1 .. MaxCells

ASSUME NoneIsNoName == None \notin Cells \cup Jobs \cup Callers
ASSUME JobKinds == /\ Tasks \subseteq Jobs /\ Primary \subseteq Jobs
                   /\ TaskOf \in [Jobs \ Tasks -> Tasks \cup {None}]
ASSUME CellBounds == /\ MaxCells \in Nat
                     /\ MaxActive \in Nat \ {0} /\ MaxCalls \in Nat
                     /\ Faults \in BOOLEAN /\ Stubborn \in BOOLEAN

VARIABLES cell,      \* the cells and their workers' handles
          map,       \* _task_run_cells and _runtime_run_cells
          sup,       \* the holder of the supervisor's lock, or None
          lock,      \* the holder of each cell's lock, or None
          terminal,  \* the jobs whose stored status is terminal
          caller     \* the callers

vars == <<cell, map, sup, lock, terminal, caller>>

(***************************************************************************)
(* The worker's thread: started; its loop and task are in the handle       *)
(* (ready); it has looked for an early cancel and runs the task (working); *)
(* the task is done (returned); the loop is closed; done_event is set;     *)
(* mark_done has run (marked); the cell is unmapped (gone).                *)
(***************************************************************************)
RunningPhases == {"starting", "ready", "working", "returned", "closed"}
Phases == {"none", "done", "marked", "gone"} \cup RunningPhases

CellRecords ==
  [job : Jobs \cup {None}, phase : Phases,
   status : {"created", "running", "cancel_requested", "cancelled", "failed", "completed"},
   requested : BOOLEAN,  \* handle.cancel_requested
   delivered : BOOLEAN,  \* handle.cancel_delivered
   posted : BOOLEAN,     \* task.cancel is due in the worker's loop
   outcome : {"none", "result", "error", "cancelled"}]

NoCell == [job |-> None, phase |-> "none", status |-> "created",
           requested |-> FALSE, delivered |-> FALSE, posted |-> FALSE,
           outcome |-> "none"]

(***************************************************************************)
(* A caller: what it does next, on which job and cell, the cells it has    *)
(* still to look at in supervise_cells, and where request_cancel returns.  *)
(***************************************************************************)
CallerRecords ==
  [pc : {"idle", "enter", "supervise", "failing", "lock", "read", "deliver", "post"},
   job : Jobs \cup {None}, cell : Cells \cup {None},
   todo : SUBSET Cells, back : {"idle", "supervise"}, calls : 0 .. MaxCalls]

Resting == [pc |-> "idle", job |-> None, cell |-> None, todo |-> {},
            back |-> "idle", calls |-> 0]

Init == /\ cell = [c \in Cells |-> NoCell]
        /\ map = [j \in Jobs |-> None]
        /\ sup = None
        /\ lock = [c \in Cells |-> None]
        /\ terminal = {}
        /\ caller = [k \in Callers |-> Resting]

-----------------------------------------------------------------------------
(* is_running, and what the supervisor reads under its lock.               *)

Running(c) == cell[c].phase \in RunningPhases
Unused == {c \in Cells : cell[c].phase = "none"}

\* active_cell_for_task_run and active_cell_for_stream_run
ActiveCell(j, c) == map[j] = c /\ Running(c)

\* _counts_against_active_limit
Counted == {c \in Cells : Running(c) /\ cell[c].status = "running"}

\* _is_current_turn_task_handoff
HandsOver(i, j) == i \notin Tasks /\ TaskOf[i] = j

\* Mutant of OtherPrimary: a cell asked to cancel is out of the way.
OtherPrimaryCounted(j) == {c \in Counted : cell[c].job \in Primary \ {j}}

\* _active_primary_cell_for_session: the first one found decides
OtherPrimary(j) == {c \in Cells : Running(c) /\ cell[c].job \in Primary \ {j}}

PrimaryInTheWay(j) ==
  /\ j \in Primary
  /\ \E c \in OtherPrimary(j) : /\ \A d \in OtherPrimary(j) : c <= d
                               /\ ~HandsOver(cell[c].job, j)

\* _cell_supervision_cancel_reason, with no age limit
ToBeCancelled(c) ==
  Running(c) /\ cell[c].status = "running" /\ cell[c].job \in terminal

-----------------------------------------------------------------------------
(* schedule_task_run and schedule_single_turn.                             *)

Become(k, record) == caller' = [caller EXCEPT ![k] = record]
Rest(k) == [Resting EXCEPT !.calls = caller[k].calls]

\* A stream run is scheduled once, by the request that creates it.
IsNew(j) == /\ \A c \in Cells : cell[c].job # j
            /\ \A k \in Callers : caller[k].job # j

\* The controller has seen the task fit to run, or the chat API has created
\* the stream run; the lock comes later.
Schedule(k, j) ==
  /\ caller[k].pc = "idle"
  /\ caller[k].calls < MaxCalls
  /\ j \notin terminal
  /\ j \in Tasks \/ IsNew(j)
  /\ Cardinality({q \in Callers : caller[q].job # None}) < Cardinality(Unused)
  /\ Become(k, [Resting EXCEPT !.pc = "enter", !.job = j, !.calls = caller[k].calls + 1])
  /\ UNCHANGED <<cell, map, sup, lock, terminal>>

Enter(k) ==
  /\ caller[k].pc = "enter"
  /\ sup = None
  /\ sup' = k
  /\ Become(k, [caller[k] EXCEPT !.pc = "supervise", !.todo = {c \in Cells : Running(c)}])
  /\ UNCHANGED <<cell, map, lock, terminal>>

\* supervise_cells, one cell at a time; a cell that is done stays so
Supervise(k) ==
  /\ caller[k].pc = "supervise"
  /\ \E c \in caller[k].todo :
       /\ \A d \in caller[k].todo : c <= d
       /\ LET rest == [caller[k] EXCEPT !.todo = @ \ {c}]
          IN  IF ToBeCancelled(c)
              THEN Become(k, [rest EXCEPT !.pc = "lock", !.cell = c, !.back = "supervise"])
              ELSE Become(k, rest)
  /\ UNCHANGED <<cell, map, sup, lock, terminal>>

\* Mutants of Admissible: no look for a cell of the job; a ceiling one too high.
AdmissibleAgain(j) == ~PrimaryInTheWay(j) /\ Cardinality(Counted) < MaxActive
AdmissibleAbove(j) == /\ ~\E c \in Cells : ActiveCell(j, c)
                      /\ ~PrimaryInTheWay(j)
                      /\ Cardinality(Counted) <= MaxActive

Admissible(j) == /\ ~\E c \in Cells : ActiveCell(j, c)   \* already_running
                 /\ ~PrimaryInTheWay(j)                  \* session_primary_task_active
                 /\ Cardinality(Counted) < MaxActive     \* max_session_active_cells_reached

\* A task run keeps its status; _fail_chat_run_schedule fails a stream run.
Reject(k) ==
  /\ caller[k].pc = "supervise" /\ caller[k].todo = {}
  /\ ~Admissible(caller[k].job)
  /\ sup' = None
  /\ Become(k, IF caller[k].job \in Tasks THEN Rest(k)
               ELSE [caller[k] EXCEPT !.pc = "failing"])
  /\ UNCHANGED <<cell, map, lock, terminal>>

\* on_scheduled writes the task's status as running whatever it was.
Admit(k) ==
  /\ caller[k].pc = "supervise" /\ caller[k].todo = {}
  /\ Admissible(caller[k].job)
  /\ \E c \in Unused :
       /\ \A d \in Unused : c <= d
       /\ cell' = [cell EXCEPT ![c] = [NoCell EXCEPT
            !.job = caller[k].job, !.phase = "starting", !.status = "running"]]
       /\ map' = [map EXCEPT ![caller[k].job] = c]
  /\ terminal' = terminal \ (Tasks \cap {caller[k].job})
  /\ sup' = None
  /\ Become(k, Rest(k))
  /\ UNCHANGED lock

\* worker_start_failed: the claim is taken back, then the job is failed.
StartFails(k) ==
  /\ Faults
  /\ caller[k].pc = "supervise" /\ caller[k].todo = {}
  /\ Admissible(caller[k].job)
  /\ map' = [map EXCEPT ![caller[k].job] = None]
  /\ terminal' = terminal \ (Tasks \cap {caller[k].job})
  /\ sup' = None
  /\ Become(k, [caller[k] EXCEPT !.pc = "failing"])
  /\ UNCHANGED <<cell, lock>>

FailJob(k) ==
  /\ caller[k].pc = "failing"
  /\ terminal' = terminal \cup {caller[k].job}
  /\ Become(k, Rest(k))
  /\ UNCHANGED <<cell, map, sup, lock>>

-----------------------------------------------------------------------------
(* Cancels.                                                                *)

\* cancel_task_run and cancel_stream_run: the lookup, under the lock
Cancel(k, c) ==
  /\ caller[k].pc = "idle"
  /\ caller[k].calls < MaxCalls
  /\ sup = None
  /\ \E j \in Jobs : ActiveCell(j, c)
  /\ Become(k, [Resting EXCEPT !.pc = "lock", !.cell = c, !.calls = caller[k].calls + 1])
  /\ UNCHANGED <<cell, map, sup, lock, terminal>>

\* AgentRuntimeCell.request_cancel, up to the first field it reads
LockCell(k) ==
  /\ caller[k].pc = "lock"
  /\ lock[caller[k].cell] = None
  /\ lock' = [lock EXCEPT ![caller[k].cell] = k]
  /\ cell' = [cell EXCEPT ![caller[k].cell] =
                [@ EXCEPT !.status = "cancel_requested", !.requested = TRUE]]
  /\ Become(k, [caller[k] EXCEPT !.pc = "read"])
  /\ UNCHANGED <<map, sup, terminal>>

\* Mutant of Return: supervise_cells goes on without the job to schedule.
ReturnForgetful(k) ==
  /\ lock' = [lock EXCEPT ![caller[k].cell] = None]
  /\ Become(k, IF caller[k].back = "supervise"
               THEN [Rest(k) EXCEPT !.pc = "supervise", !.todo = caller[k].todo]
               ELSE Rest(k))

\* Return from request_cancel.
Return(k) ==
  /\ lock' = [lock EXCEPT ![caller[k].cell] = None]
  /\ Become(k, IF caller[k].back = "supervise"
               THEN [caller[k] EXCEPT !.pc = "supervise", !.cell = None, !.back = "idle"]
               ELSE Rest(k))

\* AgentWorkerHandle.request_cancel: no task yet, or a task that is done
ReadTask(k) ==
  /\ caller[k].pc = "read"
  /\ \/ /\ cell[caller[k].cell].phase \in {"ready", "working"}
        /\ Become(k, [caller[k] EXCEPT !.pc = "deliver"])
        /\ UNCHANGED lock
     \/ /\ cell[caller[k].cell].phase \notin {"ready", "working"}
        /\ Return(k)
  /\ UNCHANGED <<cell, map, sup, terminal>>

Deliver(k) ==
  /\ caller[k].pc = "deliver"
  /\ cell' = [cell EXCEPT ![caller[k].cell] = [@ EXCEPT !.delivered = TRUE]]
  /\ Become(k, [caller[k] EXCEPT !.pc = "post"])
  /\ UNCHANGED <<map, sup, lock, terminal>>

LoopOpen(c) == cell[c].phase \in {"ready", "working", "returned"}

\* loop.call_soon_threadsafe
Post(k) ==
  /\ caller[k].pc = "post"
  /\ LoopOpen(caller[k].cell)
  /\ cell' = [cell EXCEPT ![caller[k].cell] = [@ EXCEPT !.posted = TRUE]]
  /\ Return(k)
  /\ UNCHANGED <<map, sup, terminal>>

\* Mutant of PostRaises: the cell's lock is not released on the way out.
PostRaisesHolding(k) ==
  /\ caller[k].pc = "post"
  /\ ~LoopOpen(caller[k].cell)
  /\ sup' = IF sup = k THEN None ELSE sup
  /\ Become(k, Rest(k))
  /\ UNCHANGED <<cell, map, lock, terminal>>

\* ... raises RuntimeError on a closed loop, out of schedule_* too.
PostRaises(k) ==
  /\ caller[k].pc = "post"
  /\ ~LoopOpen(caller[k].cell)
  /\ lock' = [lock EXCEPT ![caller[k].cell] = None]
  /\ sup' = IF sup = k THEN None ELSE sup
  /\ Become(k, Rest(k))
  /\ UNCHANGED <<cell, map, terminal>>

CallerStep(k) == \/ Enter(k) \/ Supervise(k) \/ Reject(k) \/ Admit(k)
                 \/ StartFails(k) \/ FailJob(k) \/ LockCell(k)
                 \/ ReadTask(k) \/ Deliver(k) \/ Post(k) \/ PostRaises(k)

-----------------------------------------------------------------------------
(* The worker's _runner.                                                   *)

Advance(c, from, record) ==
  /\ cell[c].phase = from
  /\ cell' = [cell EXCEPT ![c] = record]

PublishTask(c) ==
  /\ Advance(c, "starting", [cell[c] EXCEPT !.phase = "ready"])
  /\ UNCHANGED <<map, sup, lock, terminal, caller>>

\* Mutant of CheckCancel: the worker does not look for an early cancel.
CheckCancelNever(c) ==
  /\ Advance(c, "ready", [cell[c] EXCEPT !.phase = "working"])
  /\ terminal' = terminal \ ({cell[c].job} \ Tasks)
  /\ UNCHANGED <<map, sup, lock, caller>>

\* A task cancelled before its first step never runs.  The work of a stream
\* run writes its status as running whatever it was.
CheckCancel(c) ==
  /\ IF cell[c].requested
     THEN /\ Advance(c, "ready", [cell[c] EXCEPT
                 !.phase = "returned", !.delivered = TRUE, !.outcome = "cancelled"])
          /\ UNCHANGED terminal
     ELSE /\ Advance(c, "ready", [cell[c] EXCEPT !.phase = "working"])
          /\ terminal' = terminal \ ({cell[c].job} \ Tasks)
  /\ UNCHANGED <<map, sup, lock, caller>>

WorkEnds(c) ==
  /\ \E outcome \in {"result", "error"} \cup IF cell[c].posted THEN {"cancelled"} ELSE {} :
       Advance(c, "working", [cell[c] EXCEPT !.phase = "returned", !.outcome = outcome])
  /\ UNCHANGED <<map, sup, lock, terminal, caller>>

WorkGoesOn(c) ==
  /\ Stubborn
  /\ cell[c].posted
  /\ Advance(c, "working", [cell[c] EXCEPT !.posted = FALSE])
  /\ UNCHANGED <<map, sup, lock, terminal, caller>>

CloseLoop(c) ==
  /\ Advance(c, "returned", [cell[c] EXCEPT !.phase = "closed"])
  /\ UNCHANGED <<map, sup, lock, terminal, caller>>

SetDone(c) ==
  /\ Advance(c, "closed", [cell[c] EXCEPT !.phase = "done"])
  /\ UNCHANGED <<map, sup, lock, terminal, caller>>

FinalStatus(c) ==
  IF cell[c].outcome = "cancelled" \/ cell[c].delivered THEN "cancelled"
  ELSE IF cell[c].outcome = "error" THEN "failed" ELSE "completed"

MarkDone(c) ==
  /\ lock[c] = None
  /\ Advance(c, "done", [cell[c] EXCEPT !.phase = "marked", !.status = FinalStatus(c)])
  /\ UNCHANGED <<map, sup, lock, terminal, caller>>

\* Mutant of Unmap: whatever cell the job is mapped to is unmapped.
UnmapAny(c) ==
  /\ sup = None
  /\ Advance(c, "marked", [cell[c] EXCEPT !.phase = "gone"])
  /\ map' = [map EXCEPT ![cell[c].job] = None]
  /\ UNCHANGED <<sup, lock, terminal, caller>>

\* the last part of _on_cell_done
Unmap(c) ==
  /\ sup = None
  /\ Advance(c, "marked", [cell[c] EXCEPT !.phase = "gone"])
  /\ map' = [j \in Jobs |-> IF j = cell[c].job /\ map[j] = c THEN None ELSE map[j]]
  /\ UNCHANGED <<sup, lock, terminal, caller>>

WorkerStep(c) == \/ PublishTask(c) \/ CheckCancel(c) \/ WorkEnds(c) \/ WorkGoesOn(c)
                 \/ CloseLoop(c) \/ SetDone(c) \/ MarkDone(c) \/ Unmap(c)

-----------------------------------------------------------------------------

\* The executor of the job, or a stop, writes its terminal status; before
\* the job is scheduled that only keeps it from being scheduled.
EndJob(j) ==
  /\ ~IsNew(j)
  /\ terminal' = terminal \cup {j}
  /\ j \notin terminal
  /\ UNCHANGED <<cell, map, sup, lock, caller>>

Next == \/ \E k \in Callers, j \in Jobs : Schedule(k, j)
        \/ \E k \in Callers, c \in Cells : Cancel(k, c)
        \/ \E k \in Callers : CallerStep(k)
        \/ \E c \in Cells : WorkerStep(c)
        \/ \E j \in Jobs : EndJob(j)

Spec == Init /\ [][Next]_vars

(***************************************************************************)
(* Threads run on, and a thread waiting for a lock gets it: callers make   *)
(* finitely many calls.  Work that is cancelled ends; nothing else obliges *)
(* it to.                                                                  *)
(***************************************************************************)
Fairness ==
  /\ \A k \in Callers : WF_vars(CallerStep(k))
  /\ \A c \in Cells : /\ WF_vars(PublishTask(c)) /\ WF_vars(CheckCancel(c))
                      /\ WF_vars(cell[c].posted /\ WorkEnds(c))
                      /\ WF_vars(CloseLoop(c)) /\ WF_vars(SetDone(c))
                      /\ WF_vars(MarkDone(c)) /\ WF_vars(Unmap(c))

FairSpec == Spec /\ Fairness

-----------------------------------------------------------------------------
(* Properties.                                                             *)

(* Every variable keeps the shape the code gives it; a caller in           *)
(* supervise_cells has a job, and one in request_cancel a cell.            *)
TypeOK == /\ cell \in [Cells -> CellRecords]
          /\ map \in [Jobs -> Cells \cup {None}]
          /\ sup \in Callers \cup {None}
          /\ lock \in [Cells -> Callers \cup {None}]
          /\ terminal \subseteq Jobs
          /\ caller \in [Callers -> CallerRecords]
          /\ \A c \in Cells : cell[c].phase # "none" => cell[c].job \in Jobs
          /\ \A k \in Callers :
               /\ caller[k].pc \in {"enter", "supervise", "failing"} \/ caller[k].back = "supervise"
                    => caller[k].job \in Jobs
               /\ caller[k].pc \in {"lock", "read", "deliver", "post"}
                    => caller[k].cell \in Cells

(* A running cell is the one its job is mapped to, so that a stop finds it *)
(* and the gate for late events knows it; a cell that is done and unmapped *)
(* late does not unmap its successor.                                      *)
RunningIsMapped ==
  \A c \in Cells : Running(c) => map[cell[c].job] = c

(* One job is never executed by two workers at a time.                     *)
OneCellPerJob ==
  \A c, d \in Cells :
    Running(c) /\ Running(d) /\ cell[c].job = cell[d].job => c = d

(* Primary work of a session takes turns, but for a task beside the turn   *)
(* that hands over to it.                                                  *)
PrimaryAlone ==
  \A c, d \in Cells :
    /\ c # d /\ Running(c) /\ Running(d)
    /\ cell[c].job \in Primary /\ cell[d].job \in Primary
    => HandsOver(cell[c].job, cell[d].job) \/ HandsOver(cell[d].job, cell[c].job)

(* The ceiling per session holds for the cells that run undisturbed; a     *)
(* cell asked to cancel gives its place up before it ends.                 *)
CeilingKept == Cardinality(Counted) <= MaxActive

\* The jobs worked on, and those of them asked to end, for the abstract
\* specification.
Working == {cell[c].job : c \in {d \in Cells : Running(d)}}
Ending == {cell[c].job : c \in {d \in Cells : Running(d)} \ Counted}

Work == INSTANCE SessionWork
          WITH Follows <- {p \in Jobs \X Jobs : HandsOver(p[1], p[2])},
               Ceiling <- MaxActive, working <- Working, ending <- Ending

(* Every step is one of SessionWork: although the supervisor looks at the  *)
(* first other primary cell only, a job begins beside none but the turns   *)
(* that hand over to it, and what the lock does not cover (a cancel, the   *)
(* end of a thread) only asks or ends.                                     *)
SchedulesWork == Work!Spec

(* A cancel is not lost between the worker, which stores its task and then *)
(* looks for a cancel, and the caller, which stores the cancel and then    *)
(* looks for the task: once both have looked, it has been delivered.       *)
CancelNotLost ==
  \A c \in Cells :
    cell[c].phase = "working" /\ cell[c].requested /\ lock[c] = None
    => cell[c].delivered

(* Why that is inductive: a cell's lock is held by the caller inside its   *)
(* request_cancel and by nobody else; a cancel that is not delivered yet   *)
(* has its caller still on the way to look for the task.                   *)
InsideCancel == {"read", "deliver", "post"}

LockHeldInside ==
  \A k \in Callers :
    /\ \A c \in Cells : lock[c] = k <=> /\ caller[k].pc \in InsideCancel
                                        /\ caller[k].cell = c
    /\ caller[k].pc \in {"lock"} \cup InsideCancel
         => cell[caller[k].cell].phase # "none"

CancelOnItsWay ==
  /\ \A k \in Callers : caller[k].pc = "post" => cell[caller[k].cell].delivered
  /\ \A c \in Cells :
       cell[c].phase = "working" /\ cell[c].requested /\ ~cell[c].delivered
       => \E k \in Callers : lock[c] = k /\ caller[k].pc \in {"read", "deliver"}

(* Work that does not swallow its cancel ends after one, and its cell is   *)
(* unmapped.                                                               *)
CancelEnds ==
  \A c \in Cells : cell[c].requested ~> cell[c].phase = "gone"

(* No caller waits for ever for the supervisor's lock or a cell's.         *)
CallersReturn ==
  \A k \in Callers : caller[k].pc # "idle" ~> caller[k].pc = "idle"

(* What a test says of a cancel that comes when the task is done: it is    *)
(* not recorded as delivered, and so the cell is not called cancelled.     *)
DoneIsNotRelabelled ==
  [][\A c \in Cells :
       cell[c].phase \in {"returned", "closed", "done"} /\ ~cell[c].delivered
       => ~cell'[c].delivered]_vars
=============================================================================
