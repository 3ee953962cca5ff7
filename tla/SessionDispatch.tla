-------------------------- MODULE SessionDispatch --------------------------
(***************************************************************************)
(* One chat session of the backend: how a user's message becomes a chat    *)
(* run of its own, or a steer included in the turn that is running.        *)
(*                                                                         *)
(* Three kinds of actors share the session:                                *)
(*   - coroutines of the control loop: the request handlers that post      *)
(*     message i (named i) and the dispatcher spawned when the cell of run *)
(*     r is done (named r).  A segment between two awaits is one action,   *)
(*     since no other coroutine runs meanwhile; each awaited store method  *)
(*     runs in a worker thread and is an action of its own;                *)
(*   - the threads of the runtime cells, one per chat run, and of the task *)
(*     executor a turn has handed its work to;                             *)
(*   - the user, who may cancel a queued message, and the process, which   *)
(*     may be killed and restarted.                                        *)
(*                                                                         *)
(* A turn is named by the chat run that starts it (ActiveTurnRegistry      *)
(* keeps one current turn per session).                                    *)
(***************************************************************************)
EXTENDS QueuedInputStore

CONSTANTS MaxAttempts,  \* the dispatcher's range(8)
          MaxPosts,     \* bound: submissions per message (a client may retry)
          MaxCrashes,   \* bound: restarts of the process
          Faults,       \* may a worker fail, be cancelled or raise midway?
          HandOffs,     \* may a turn hand its work to a task?
          Cancels,      \* may the user cancel queued messages?
          SlowClaims    \* may a live claimer hold its claim for 300 s?

VARIABLES store,      \* the file of queued inputs
          canceling,  \* cancel requests that have read a cancelable status
          co,         \* the coroutines of the control loop
          run,        \* RuntimeRunRegistry and the supervisor's cells
          turn,       \* ActiveTurnRegistry's current turn, or None
          steering,   \* inputs the loop of a turn has claimed, not yet marked
          posts,      \* submissions made of each message
          life        \* process lifetimes ended by a restart

vars == <<store, canceling, co, run, turn, steering, posts, life>>

ASSUME ItemsAreNotRuns == Items \cap Runs = {}
ASSUME NaturalBounds ==
  MaxAttempts \in Nat \ {0} /\ MaxPosts \in Nat /\ MaxCrashes \in Nat
ASSUME BooleanKnobs ==
  /\ Faults \in BOOLEAN /\ HandOffs \in BOOLEAN
  /\ Cancels \in BOOLEAN /\ SlowClaims \in BOOLEAN

Coroutines == Items \cup Runs

(***************************************************************************)
(* A coroutine: what it does next, the queue item it works on (the head of *)
(* its listing, then its claim), the policy and target it read, the run it *)
(* created, and the attempts of the dispatch loop used so far.             *)
(***************************************************************************)
Pcs == {"idle",
        "gaveUp",       \* a dispatcher that returned with a message in sight
        "enqueue",      \* POST queued-inputs: enqueue, then dispatch
        "enqueueChat",  \* POST chat/runs on a busy session: enqueue, then
        "recheck",      \* ... dispatch only if the run has gone meanwhile
        "reset", "list", "decide",
        "retarget", "claimAuto", "claimSteer",
        "start", "mark", "failStart", "failSteer"}

HoldingPcs == {"start", "mark", "failStart", "failSteer"}
RestingPcs == {"idle", "gaveUp"}
WorkingPcs == {"decide", "retarget", "claimAuto", "claimSteer"} \cup HoldingPcs

CoRecords == [pc : Pcs, item : Items \cup {None}, policy : Policies,
              turn : Runs \cup {None}, bound : BOOLEAN,
              run : Runs \cup {None}, tries : 0 .. MaxAttempts]

Idle == [pc |-> "idle", item |-> None, policy |-> "auto", turn |-> None,
         bound |-> FALSE, run |-> None, tries |-> 0]
GaveUp == [Idle EXCEPT !.pc = "gaveUp"]

TerminalRunStatuses == {"completed", "failed", "orphaned"}
RunStatuses == {"absent", "starting", "running"} \cup TerminalRunStatuses

(***************************************************************************)
(* The thread of a cell: its work has begun (working), has written its     *)
(* terminal status and awaits the flush of the stream (flushing), has      *)
(* released its turn (closing), has set done_event (finished), has run its *)
(* done callbacks (gone).                                                  *)
(***************************************************************************)
RunningCells == {"spawned", "working", "flushing", "closing"}
CellPhases == {"none", "finished", "gone"} \cup RunningCells

LiveTasks == {"waiting", "running"}

RunRecords == [status : RunStatuses, cell : CellPhases,
               item : Items \cup {None},  \* diagnostics.queued_input_id
               cancel : BOOLEAN,          \* the cell's cancel was requested
               task : {"none", "over"} \cup LiveTasks,
               life : 0 .. MaxCrashes]    \* owner_instance_id

NoRun == [status |-> "absent", cell |-> "none", item |-> None,
          cancel |-> FALSE, task |-> "none", life |-> 0]

Init == /\ store = EmptyStore
        /\ canceling = {}
        /\ co = [d \in Coroutines |-> Idle]
        /\ run = [r \in Runs |-> NoRun]
        /\ turn = None
        /\ steering = [r \in Runs |-> {}]
        /\ posts = [i \in Items |-> 0]
        /\ life = 0

-----------------------------------------------------------------------------
(* What the control loop reads.                                            *)

CellRunning(r) == run[r].cell \in RunningCells

\* chat_run_execution_attached and has_active_primary_chat_run
Attached(r) == run[r].status \in {"starting", "running"} /\ CellRunning(r)
HasActive == \E r \in Runs : Attached(r)

Bound(t) == t # None /\ run[t].task \in LiveTasks

\* queued_input_admission_target
AdmissionPolicy == IF turn = None THEN "auto" ELSE "steer"

\* validate_queued_steer
SteerIsValid(c) == /\ turn # None
                   /\ c.turn \in {None, turn}
                   /\ c.bound => Bound(turn)

\* Mutant of PrimaryCellRunning: runs in a terminal status do not count.
PrimaryCellAttached == \E s \in Runs : Attached(s) \/ run[s].task = "running"

\* schedule_single_turn admits a primary cell only beside no other.
PrimaryCellRunning == \E s \in Runs : CellRunning(s) \/ run[s].task = "running"

(***************************************************************************)
(* _create_and_schedule_run: create the run; cancel every cell still       *)
(* running whose run is terminal (supervise_cells); start a cell, or fail  *)
(* the run when the supervisor rejects it.                                 *)
(***************************************************************************)
Supervised(s) == [run[s] EXCEPT !.cancel = @ \/
                    (CellRunning(s) /\ run[s].status \in TerminalRunStatuses)]

NewRun(item) ==
  [NoRun EXCEPT !.status = IF PrimaryCellRunning THEN "failed" ELSE "starting",
                !.cell = IF PrimaryCellRunning THEN "none" ELSE "spawned",
                !.item = item, !.life = life]

CreateAndSchedule(r, item) ==
  /\ run[r].status = "absent"
  /\ run' = [s \in Runs |-> IF s = r THEN NewRun(item) ELSE Supervised(s)]

\* The run was created, then an exception left it without a cell.
CreateAndRaise(r, item) ==
  /\ Faults
  /\ run[r].status = "absent"
  /\ run' = [run EXCEPT ![r] = [NoRun EXCEPT !.status = "starting",
                                             !.item = item, !.life = life]]

-----------------------------------------------------------------------------
(* Request handlers.                                                       *)

Goto(d, pc) == co' = [co EXCEPT ![d].pc = pc]
Finish(d) == co' = [co EXCEPT ![d] = Idle]
GiveUp(d) == co' = [co EXCEPT ![d] = GaveUp]
Continue(d) ==
  co' = [co EXCEPT ![d] =
          IF co[d].tries + 1 < MaxAttempts
          THEN [Idle EXCEPT !.pc = "list", !.tries = co[d].tries + 1]
          ELSE GaveUp]

Admitted(i, pc) ==
  [Idle EXCEPT !.pc = pc, !.item = i, !.policy = AdmissionPolicy,
               !.turn = turn, !.bound = Bound(turn)]

NewPost(i) == /\ co[i].pc \in RestingPcs
              /\ posts[i] < MaxPosts
              /\ posts' = [posts EXCEPT ![i] = @ + 1]

\* POST /chat/sessions/{id}/queued-inputs, up to its first await
PostQueued(i) ==
  /\ NewPost(i)
  /\ co' = [co EXCEPT ![i] = Admitted(i, "enqueue")]
  /\ UNCHANGED <<store, canceling, run, turn, steering, life>>

\* POST /chat/runs while a run is attached: the message is queued
PostRunBusy(i) ==
  /\ NewPost(i)
  /\ HasActive
  /\ co' = [co EXCEPT ![i] = Admitted(i, "enqueueChat")]
  /\ UNCHANGED <<store, canceling, run, turn, steering, life>>

\* POST /chat/runs otherwise: a run of its own, with no await in between
PostRunFree(i) ==
  /\ NewPost(i)
  /\ ~HasActive
  /\ \E r \in Runs : CreateAndSchedule(r, None) \/ CreateAndRaise(r, None)
  /\ UNCHANGED <<store, canceling, co, turn, steering, life>>

DoEnqueue(i) ==
  /\ co[i].pc \in {"enqueue", "enqueueChat"}
  /\ store' = Enqueue(store, i, co[i].policy, co[i].turn, co[i].bound)
  /\ co' = [co EXCEPT ![i] = [Idle EXCEPT !.pc =
              IF co[i].pc = "enqueue" THEN "reset" ELSE "recheck"]]
  /\ UNCHANGED <<canceling, run, turn, steering, posts, life>>

Recheck(i) ==
  /\ co[i].pc = "recheck"
  /\ IF HasActive THEN Finish(i) ELSE Goto(i, "reset")
  /\ UNCHANGED <<store, canceling, run, turn, steering, posts, life>>

-----------------------------------------------------------------------------
(* _dispatch_next_queued_input                                             *)

DoReset(d) ==
  /\ co[d].pc = "reset"
  /\ store' = ResetStale(store)
  /\ Goto(d, "list")
  /\ UNCHANGED <<canceling, run, turn, steering, posts, life>>

\* Mutant of DoList: the listing is not tested for emptiness.
DoListUntested(d) ==
  /\ co[d].pc = "list"
  /\ \/ Queued(store) = {} /\ Goto(d, "decide")
     \/ \E i \in Items :
          /\ IsFirst(store, Queued(store), i)
          /\ co' = [co EXCEPT ![d] = [@ EXCEPT
                !.pc = "decide", !.item = i, !.policy = store[i].policy,
                !.turn = store[i].turn, !.bound = store[i].bound]]
  /\ UNCHANGED <<store, canceling, run, turn, steering, posts, life>>

\* list_session; the head of the listing is kept across the coming awaits
DoList(d) ==
  /\ co[d].pc = "list"
  /\ \/ Queued(store) = {} /\ Finish(d)
     \/ \E i \in Items :
          /\ IsFirst(store, Queued(store), i)
          /\ co' = [co EXCEPT ![d] = [@ EXCEPT
                !.pc = "decide", !.item = i, !.policy = store[i].policy,
                !.turn = store[i].turn, !.bound = store[i].bound]]
  /\ UNCHANGED <<store, canceling, run, turn, steering, posts, life>>

Decide(d) ==
  /\ co[d].pc = "decide"
  /\ \/ HasActive /\ Finish(d)
     \/ /\ ~HasActive /\ co[d].policy = "auto" /\ turn = None
        /\ Goto(d, "claimAuto")
     \/ /\ ~HasActive /\ co[d].policy = "auto" /\ turn # None
        /\ co' = [co EXCEPT ![d] = [@ EXCEPT !.pc = "retarget",
                     !.turn = turn, !.bound = Bound(turn)]]
     \/ ~HasActive /\ co[d].policy = "steer" /\ SteerIsValid(co[d]) /\ Finish(d)
     \/ /\ ~HasActive /\ co[d].policy = "steer" /\ ~SteerIsValid(co[d])
        /\ Goto(d, "claimSteer")
  /\ UNCHANGED <<store, canceling, run, turn, steering, posts, life>>

DoRetarget(d) ==
  /\ co[d].pc = "retarget"
  /\ \/ /\ Retargetable(store, co[d].item)
        /\ store' = Retarget(store, co[d].item, "steer", co[d].turn, co[d].bound)
        /\ Finish(d)
     \/ /\ ~Retargetable(store, co[d].item)
        /\ Continue(d)
        /\ UNCHANGED store
  /\ UNCHANGED <<canceling, run, turn, steering, posts, life>>

\* claim_next(policy): whichever input of that policy stands first by now
ClaimNext(d, policy, nextPc) ==
  \/ \E i \in Items :
       /\ IsFirst(store, Claimable(store, policy), i)
       /\ store' = Claim(store, i)
       /\ co' = [co EXCEPT ![d] = [@ EXCEPT !.pc = nextPc, !.item = i]]
  \/ Claimable(store, policy) = {} /\ Continue(d) /\ UNCHANGED store

DoClaimAuto(d) ==
  /\ co[d].pc = "claimAuto"
  /\ ClaimNext(d, "auto", "start")
  /\ UNCHANGED <<canceling, run, turn, steering, posts, life>>

DoClaimSteer(d) ==
  /\ co[d].pc = "claimSteer"
  /\ ClaimNext(d, "steer", "failSteer")
  /\ UNCHANGED <<canceling, run, turn, steering, posts, life>>

\* _dispatch_claimed_queued_input after its await on the session scope
Start(d) ==
  /\ co[d].pc = "start"
  /\ \/ \E r \in Runs :
          /\ CreateAndSchedule(r, co[d].item)
          /\ co' = [co EXCEPT ![d] = [@ EXCEPT !.pc = "mark", !.run = r]]
     \/ (\E r \in Runs : CreateAndRaise(r, co[d].item)) /\ Goto(d, "failStart")
     \/ Faults /\ Goto(d, "failStart") /\ UNCHANGED run  \* scope not allowed
  /\ UNCHANGED <<store, canceling, turn, steering, posts, life>>

DoMark(d) ==
  /\ co[d].pc = "mark"
  /\ store' = MarkDispatched(store, co[d].item, co[d].run)
  /\ Finish(d)
  /\ UNCHANGED <<canceling, run, turn, steering, posts, life>>

DoFail(d) ==
  /\ co[d].pc \in {"failStart", "failSteer"}
  /\ store' = MarkFailed(store, co[d].item)
  /\ IF co[d].pc = "failStart" THEN GiveUp(d) ELSE Continue(d)
  /\ UNCHANGED <<canceling, run, turn, steering, posts, life>>

CoroutineStep(d) ==
  \/ DoReset(d) \/ DoList(d) \/ Decide(d) \/ DoRetarget(d)
  \/ DoClaimAuto(d) \/ DoClaimSteer(d) \/ Start(d) \/ DoMark(d) \/ DoFail(d)

HandlerStep(i) == DoEnqueue(i) \/ Recheck(i)

-----------------------------------------------------------------------------
(* The user's cancel request: a read, then an unconditional write.         *)

CancelCheck(i) ==
  /\ Cancels
  /\ i \notin canceling
  /\ Cancelable(store, i)
  /\ canceling' = canceling \cup {i}
  /\ UNCHANGED <<store, co, run, turn, steering, posts, life>>

CancelWrite(i) ==
  /\ i \in canceling
  /\ store' = MarkCanceled(store, i)
  /\ canceling' = canceling \ {i}
  /\ UNCHANGED <<co, run, turn, steering, posts, life>>

-----------------------------------------------------------------------------
(* The thread of a chat run's cell.                                        *)

CellBegins(r) ==
  /\ run[r].cell = "spawned"
  /\ run' = [run EXCEPT ![r].cell = "working", ![r].status = "running"]
  /\ UNCHANGED <<store, canceling, co, turn, steering, posts, life>>

\* HarnessRuntimeFacade.astream starts a turn unless one is still current
StartTurn(r) ==
  /\ run[r].cell = "working"
  /\ run[r].task = "none"
  /\ turn = None
  /\ turn' = r
  /\ UNCHANGED <<store, canceling, co, run, steering, posts, life>>

(***************************************************************************)
(* claim_active_turn_queued_user_steers, run between model requests by the *)
(* loop of turn r, or by the executor of the task r is bound to.           *)
(***************************************************************************)
LoopOfTurnRuns(r) ==
  /\ turn = r
  /\ \/ run[r].cell = "working" /\ run[r].task = "none"
     \/ run[r].task = "running"

ClaimSteers(r) ==
  /\ LoopOfTurnRuns(r)
  /\ steering[r] = {}
  /\ ClaimedForTurn(store, r, Bound(r)) # {}
  /\ store' = ClaimForActiveTurn(store, r, Bound(r))
  /\ steering' = [steering EXCEPT ![r] = ClaimedForTurn(store, r, Bound(r))]
  /\ UNCHANGED <<canceling, co, run, turn, posts, life>>

\* One awaited mark per claimed input, in file order.
MarkSteer(r) ==
  \E i \in Items :
    /\ IsFirst(store, steering[r], i)
    /\ \/ store' = MarkDispatched(store, i, r)
       \/ Faults /\ Bound(r) /\ store' = MarkFailed(store, i)  \* no mirror
    /\ steering' = [steering EXCEPT ![r] = @ \ {i}]
    /\ UNCHANGED <<canceling, co, run, turn, posts, life>>

\* The loop is cancelled, or raises, between its claim and its marks.
AbandonSteers(r) ==
  /\ Faults
  /\ run[r].task = "running"
  /\ steering[r] # {}
  /\ steering' = [steering EXCEPT ![r] = {}]
  /\ run' = [run EXCEPT ![r].task = "waiting"]
  /\ UNCHANGED <<store, canceling, co, turn, posts, life>>

\* A stream bridged to a task goes on until the lifecycle of the task has been
\* finished, which takes the turn from it.
BridgeOver(r) == run[r].task # "none" => turn # r

\* The stream of the run reaches its terminal event.
Complete(r) ==
  /\ run[r].cell = "working"
  /\ BridgeOver(r)
  /\ steering[r] = {}
  /\ \E status \in {"completed", "failed"} :
       run' = [run EXCEPT ![r].cell = "flushing", ![r].status = status]
  /\ UNCHANGED <<store, canceling, co, turn, steering, posts, life>>

\* The stream raises, is cancelled or ends without a terminal event.
Interrupted(r) ==
  /\ Faults
  /\ run[r].cell = "working"
  /\ run' = [run EXCEPT ![r].cell = "flushing", ![r].status = "orphaned"]
  /\ steering' = [steering EXCEPT ![r] = IF run[r].task = "none" THEN {} ELSE @]
  /\ UNCHANGED <<store, canceling, co, turn, posts, life>>

(***************************************************************************)
(* The work returns, or a requested cancel reaches it at the flush and is  *)
(* recorded as an interruption; the turn it started is released unless it  *)
(* is bound to a task that is not over (_release_transient_active_turn).   *)
(***************************************************************************)
Unwind(r) ==
  /\ run[r].cell = "flushing"
  /\ \E status \in {run[r].status} \cup IF run[r].cancel THEN {"orphaned"} ELSE {} :
       run' = [run EXCEPT ![r].cell = "closing", ![r].status = status]
  /\ turn' = IF turn = r /\ ~Bound(r) THEN None ELSE turn
  /\ UNCHANGED <<store, canceling, co, steering, posts, life>>

SetDone(r) ==
  /\ run[r].cell = "closing"
  /\ run' = [run EXCEPT ![r].cell = "finished"]
  /\ UNCHANGED <<store, canceling, co, turn, steering, posts, life>>

\* Mutant of OnDone: no dispatcher is spawned.
OnDoneQuietly(r) ==
  /\ run[r].cell = "finished"
  /\ run' = [run EXCEPT ![r].cell = "gone"]
  /\ UNCHANGED <<store, canceling, co, turn, steering, posts, life>>

\* _done: the cell is unmapped, then a dispatcher is spawned
OnDone(r) ==
  /\ run[r].cell = "finished"
  /\ run' = [run EXCEPT ![r].cell = "gone"]
  /\ Goto(r, "reset")
  /\ UNCHANGED <<store, canceling, turn, steering, posts, life>>

CellStep(r) == CellBegins(r) \/ StartTurn(r) \/ ClaimSteers(r) \/ MarkSteer(r)
               \/ Complete(r) \/ Unwind(r) \/ SetDone(r) \/ OnDone(r)

-----------------------------------------------------------------------------
(* The task a turn hands its work to.                                      *)

BindTask(r) ==
  /\ HandOffs
  /\ turn = r
  /\ run[r].cell = "working" /\ run[r].task = "none"
  /\ steering[r] = {}
  /\ run' = [run EXCEPT ![r].task = "waiting"]
  /\ UNCHANGED <<store, canceling, co, turn, steering, posts, life>>

\* schedule_task_run: beside no primary cell but that of the turn itself
TaskStarts(r) ==
  /\ run[r].task = "waiting"
  /\ CellRunning(r) => turn = r
  /\ \A s \in Runs \ {r} : ~CellRunning(s) /\ run[s].task # "running"
  /\ run' = [s \in Runs |->
       IF s = r THEN [Supervised(r) EXCEPT !.task = "running"] ELSE Supervised(s)]
  /\ UNCHANGED <<store, canceling, co, turn, steering, posts, life>>

\* The executor waits for an approval, or stops where it may go on.
TaskParks(r) ==
  /\ run[r].task = "running"
  /\ steering[r] = {}
  /\ run' = [run EXCEPT ![r].task = "waiting"]
  /\ UNCHANGED <<store, canceling, co, turn, steering, posts, life>>

\* A pause boundary runs finish_task_lifecycle too, and so ends the turn.
TaskPauses(r) ==
  /\ run[r].task = "running"
  /\ steering[r] = {}
  /\ run' = [run EXCEPT ![r].task = "waiting"]
  /\ turn' = IF turn = r THEN None ELSE turn
  /\ UNCHANGED <<store, canceling, co, steering, posts, life>>

\* complete_bound_task; nothing is dispatched here
TaskEnds(r) ==
  /\ run[r].task \in LiveTasks
  /\ steering[r] = {}
  /\ run' = [run EXCEPT ![r].task = "over"]
  /\ turn' = IF turn = r THEN None ELSE turn
  /\ UNCHANGED <<store, canceling, co, steering, posts, life>>

TaskStep(r) == BindTask(r) \/ TaskStarts(r) \/ TaskParks(r) \/ TaskPauses(r)
               \/ TaskEnds(r)

-----------------------------------------------------------------------------
(* Time, and the process.                                                  *)

Holds(d, i) == co[d].pc \in HoldingPcs /\ co[d].item = i
Held(i) == (\E d \in Coroutines : Holds(d, i)) \/ (\E r \in Runs : i \in steering[r])

\* A claim turns 300 s old; SlowClaims says whether its holder may live on.
Age(i) ==
  /\ store[i].status = "dispatching" /\ ~store[i].old
  /\ SlowClaims \/ ~Held(i)
  /\ store' = [store EXCEPT ![i].old = TRUE]
  /\ UNCHANGED <<canceling, co, run, turn, steering, posts, life>>

(***************************************************************************)
(* A restart: files survive, coroutines and cells do not.  Startup         *)
(* reconciliation orphans the runs of the old process; its turn is not     *)
(* owned by the new instance and is terminal; its executors are not        *)
(* started again here.                                                     *)
(***************************************************************************)
Restart ==
  /\ life < MaxCrashes
  /\ life' = life + 1
  /\ canceling' = {}
  /\ co' = [d \in Coroutines |-> Idle]
  /\ run' = [r \in Runs |->
       IF run[r].status \in {"absent"} \cup TerminalRunStatuses
       THEN [run[r] EXCEPT !.cell = "none", !.task = "none"]
       ELSE [run[r] EXCEPT !.cell = "none", !.task = "none", !.status = "orphaned"]]
  /\ turn' = None
  /\ steering' = [r \in Runs |-> {}]
  /\ UNCHANGED <<store, posts>>

Next ==
  \/ \E i \in Items : \/ PostQueued(i) \/ PostRunBusy(i) \/ PostRunFree(i)
                      \/ HandlerStep(i)
                      \/ CancelCheck(i) \/ CancelWrite(i) \/ Age(i)
  \/ \E d \in Coroutines : CoroutineStep(d)
  \/ \E r \in Runs : CellStep(r) \/ TaskStep(r) \/ AbandonSteers(r) \/ Interrupted(r)
  \/ Restart

Spec == Init /\ [][Next]_vars

(***************************************************************************)
(* The event loop runs every ready coroutine, the store methods return,    *)
(* and a cell thread runs on; a turn ends because the harness bounds its   *)
(* steps.  Nothing obliges users, faults, tasks or clocks.                 *)
(***************************************************************************)
Fairness == /\ \A i \in Items : WF_vars(HandlerStep(i))
            /\ \A d \in Coroutines : WF_vars(CoroutineStep(d))
            /\ \A r \in Runs : /\ WF_vars(CellBegins(r))
                               /\ WF_vars(MarkSteer(r))
                               /\ WF_vars(Complete(r))
                               /\ WF_vars(Unwind(r) \/ SetDone(r) \/ OnDone(r))

FairSpec == Spec /\ Fairness

-----------------------------------------------------------------------------
(* Properties.                                                             *)

InHand(c) == /\ c.pc \in WorkingPcs => c.item \in Items
             /\ c.pc = "mark" => c.run \in Runs

(* Every variable keeps the shape the code gives it, and a coroutine that  *)
(* works on an item has one.                                               *)
TypeOK == /\ store \in [Items -> ItemRecords]
          /\ canceling \subseteq Items
          /\ co \in [Coroutines -> CoRecords]
          /\ \A d \in Coroutines : InHand(co[d])
          /\ run \in [Runs -> RunRecords]
          /\ turn \in Runs \cup {None}
          /\ steering \in [Runs -> SUBSET Items]
          /\ posts \in [Items -> 0 .. MaxPosts]
          /\ life \in 0 .. MaxCrashes

(* Dispatchers, the loop of a turn and the executor of its task claim from *)
(* the same file: no two of them work on one input at the same time.       *)
ClaimExclusive ==
  \A i \in Items :
    /\ \A d, e \in Coroutines : Holds(d, i) /\ Holds(e, i) => d = e
    /\ \A r, s \in Runs : i \in steering[r] /\ i \in steering[s] => r = s
    /\ \A d \in Coroutines, r \in Runs : ~(Holds(d, i) /\ i \in steering[r])

(* A queued message becomes at most one chat run in the lifetime of a      *)
(* process, whatever dispatchers, retries and cancels do; a second one     *)
(* takes a restart between its run's creation and mark_dispatched.         *)
OneRunPerInput ==
  \A r, s \in Runs :
    run[r].item # None /\ run[r].item = run[s].item /\ run[r].life = run[s].life
    => r = s

(* Why the two properties above are inductive: a held input cannot be      *)
(* claimed or reset, and the run made for an input stays accounted for by  *)
(* its settled status or by the coroutine that has not marked it yet; the  *)
(* dispatcher of a run is spawned once.                                    *)
HeldIsClaimed ==
  \A i \in Items :
    Held(i) => store[i].status \in {"dispatching", "canceled"} /\ ~store[i].old

RunAccounted ==
  \A r \in Runs :
    /\ run[r].life <= life
    /\ run[r].item # None /\ run[r].life = life =>
         /\ \/ store[run[r].item].status \in Settled
            \/ \E d \in Coroutines : /\ co[d].pc \in {"mark", "failStart"}
                                     /\ co[d].item = run[r].item
         /\ \A d \in Coroutines : ~(co[d].pc = "start" /\ co[d].item = run[r].item)

SpawnedOnce ==
  \A r \in Runs : /\ co[r].pc # "idle" => run[r].cell = "gone"
                  /\ run[r].status = "absent" => run[r].cell = "none"

ClaimInv == ClaimExclusive /\ HeldIsClaimed
RunInv == OneRunPerInput /\ RunAccounted

(* No two chat cells of a session are at work together, nor a chat cell    *)
(* beside the executor of the task of another run's turn: the admission    *)
(* of a run and of a task, and the ends of both, keep the session serial.  *)
OnePrimaryCell ==
  \A r, s \in Runs :
    r # s => ~(CellRunning(r) /\ (CellRunning(s) \/ run[s].task = "running"))

(* Where a dispatched message went: a steer names the turn that took it    *)
(* in, any other message the run that was created for it.                  *)
DispatchedWhereItSays ==
  \A i \in Items :
    store[i].status = "dispatched" =>
      /\ store[i].ref # None
      /\ IF store[i].policy = "steer" THEN store[i].turn = store[i].ref
                                      ELSE run[store[i].ref].item = i

(* Why that is inductive: what a coroutine or a loop holds is aimed where   *)
(* its mark will say, and a run keeps the input it was created for.        *)
HeldIsAimed ==
  /\ \A d \in Coroutines :
       /\ co[d].pc \in {"start", "mark"} => store[co[d].item].policy = "auto"
       /\ co[d].pc = "mark" => run[co[d].run].item = co[d].item
  /\ \A r \in Runs : \A i \in steering[r] :
       store[i].policy = "steer" /\ store[i].turn = r

UnbornIsNew ==
  \A r \in Runs : run[r].status = "absent" => run[r].item = None /\ run[r].task = "none"

DeliveryInv == HeldIsAimed /\ DispatchedWhereItSays

Motion == \/ \E d \in Coroutines : co[d].pc \notin RestingPcs
          \/ \E r \in Runs : CellRunning(r) \/ run[r].cell = "finished"

(* When nothing moves any more, no message is left in the queue: the done  *)
(* callback of the last cell comes after the cell has stopped counting as  *)
(* attached, so it sees what was enqueued before.  The exceptions are a    *)
(* restart and a hand-off, after which no dispatcher is spawned, and a     *)
(* dispatcher that gave up: its attempts were used up, or the run it meant *)
(* to start was not created.                                               *)
Excused == \/ life > 0
           \/ \E r \in Runs : run[r].task # "none"
           \/ \E d \in Coroutines : co[d].pc = "gaveUp"

NoInputStranded ==
  (\E i \in Items : store[i].status = "queued") /\ ~Motion => Excused

(* Why that is inductive: a queued message has somebody to tend to it, a   *)
(* coroutine that has yet to look at the queue or has taken the first of   *)
(* it, or a cell whose end spawns one; and the turn that makes a coroutine *)
(* leave a message to it has such a cell.                                  *)
TendingPcs == Pcs \ (RestingPcs \cup {"enqueueChat", "retarget", "mark"})
CellTends(r) == run[r].cell \in RunningCells \cup {"finished"}

QueueIsTended ==
  Queued(store) # {} => \/ \E r \in Runs : CellTends(r)
                        \/ \E d \in Coroutines : co[d].pc \in TendingPcs
                        \/ Excused

TurnIsServed ==
  turn # None => \/ run[turn].cell \in {"working", "flushing"}
                 \/ run[turn].task # "none"

\* Where the queue has message i, and who has it, for the abstract specification.
PlaceOf(i) == CASE store[i].status = "absent" -> "out"
                [] store[i].status = "queued" -> "waiting"
                [] store[i].status = "dispatching" -> "taken"
                [] OTHER -> "settled"
Given(i) == \E r \in Runs : run[r].item = i /\ run[r].life = life
HandOf(i) == IF Given(i) THEN "given" ELSE IF Held(i) THEN "held" ELSE "free"

Place == [i \in Items |-> PlaceOf(i)]
Hand == [i \in Items |-> HandOf(i)]

Delivery == INSTANCE InputDelivery
              WITH Messages <- Items, place <- Place, hand <- Hand

(* Every step is one of InputDelivery: a message is taken by one, given a  *)
(* run once in the life of a process, returned to the queue only when      *)
(* nobody has it, and settled by whoever has it or by a cancel.            *)
DeliversInputs == Delivery!Spec

(* Why that takes no more than the invariants above, but that a message    *)
(* whose cancel is under way was submitted.                                *)
CanceledIsKnown == \A i \in canceling : store[i].status # "absent"

(* A message left in the queue is settled in the end: run, included in a   *)
(* turn, failed or cancelled.                                              *)
EveryInputSettled ==
  \A i \in Items : store[i].status = "queued" ~> store[i].status \in Settled

(* What the store's tests say of dispatched, failed and canceled: they are *)
(* terminal, no later call changes them.                                   *)
TerminalIsFinal ==
  [][\A i \in Items : store[i].status \in Settled
                        => store'[i].status = store[i].status]_vars

(* What the chat API's tests say of a busy session: its input is queued,   *)
(* no chat run is created while one is attached.                           *)
NoRunWhileBusy ==
  [][\A r \in Runs : run[r].status = "absent" /\ run'[r].status # "absent"
                       => ~HasActive]_vars
=============================================================================
