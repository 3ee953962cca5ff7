------------------------------ MODULE GraphRun ------------------------------
(***************************************************************************)
(* One graph run (graph_system): the loop's checkpoint, the root task run  *)
(* with its pause control, the background tasks that execute work orders   *)
(* and submit their successors, and the requests of the API.               *)
(*                                                                         *)
(* All of it runs on one event loop: what happens between two awaits is    *)
(* one action, and the only await is the execution of a node.  What a node *)
(* yields is arbitrary.  Dependencies wait for all upstream nodes, the     *)
(* default policy; loops, revisions, gates and quality retries of a graph  *)
(* are left out.                                                           *)
(***************************************************************************)
EXTENDS Naturals, FiniteSets

CONSTANTS Nodes,          \* the executable nodes
          Edges,          \* the dependency edges <<source, target>>
          Terminals,      \* terminal_node_ids
          Limit,          \* max_active_nodes: orders of one dispatch
          Budget,         \* max_node_executions of a submission
          MaxDispatches,  \* bound: dispatches that issue orders
          MaxRequests,    \* bound: requests to the API
          MaxCrashes,     \* bound: restarts of the process
          Faults          \* may the context of a node fail to resolve?

ASSUME GraphShape == /\ IsFiniteSet(Nodes)
                     /\ Edges \subseteq Nodes \X Nodes
                     /\ Terminals \subseteq Nodes
ASSUME GraphBounds ==
  /\ Limit \in Nat \ {0}
  /\ {Budget, MaxDispatches, MaxRequests, MaxCrashes} \subseteq Nat
  /\ Faults \in BOOLEAN

VARIABLES graph,   \* the checkpointed GraphLoopState
          root,    \* status and runtime control of the root task run
          work,    \* the executions in progress
          driven,  \* ghost: is the supervisor expected to carry the run on?
          alone,   \* ghost: graph.seq when a node was last requeued without
                   \* the nodes downstream of it
          count    \* requests and restarts, for the bounds

vars == <<graph, root, work, driven, alone, count>>

\* again: a result resume may replay; the other ones need a request.
Failed == {"failed", "failed_again"}
Blocked == {"blocked", "blocked_again"}
Outcomes == {"completed"} \cup Failed \cup Blocked
NodeStatuses == {"pending", "ready", "running"} \cup Outcomes
Closed == {"blocked", "completed", "failed"}

Orders == 1 .. MaxDispatches  \* with its node, the number names an order

GraphStates ==
  [node : [Nodes -> NodeStatuses],
   edge : [Edges -> {"pending", "ready", "source_failed"}],
   active : [Nodes -> Orders \cup {0}],  \* active_work_orders
   result : [Nodes -> Orders \cup {0}],  \* result_index: the order it is of
   status : {"running"} \cup Closed,
   seq : Orders \cup {0}]

RootRecords == [status : {"running", "waiting_executor"} \cup Closed,
                ctl : {"running", "pause_requested", "paused"}]

\* A background task of the supervisor, or an execution a client asked for;
\* left is the max_node_executions it passes on.
Executions == [node : Nodes, order : Orders, by : {"supervisor", "client"},
               pc : {"spawned", "executing"}, left : 0 .. Budget]

Inputs(n) == {e \in Edges : e[2] = n}
Outputs(n) == {e \in Edges : e[1] = n}

Init == /\ graph = [node |-> [n \in Nodes |-> IF Inputs(n) = {} THEN "ready" ELSE "pending"],
                    edge |-> [e \in Edges |-> "pending"],
                    active |-> [n \in Nodes |-> 0],
                    result |-> [n \in Nodes |-> 0],
                    status |-> "running", seq |-> 0]
        /\ root = [status |-> "running", ctl |-> "running"]
        /\ work = {}
        /\ driven = FALSE
        /\ alone = [n \in Nodes |-> 0]
        /\ count = [requests |-> 0, crashes |-> 0]

-----------------------------------------------------------------------------
(* The loop state and what follows from it.                                *)

With(g, statuses) == {n \in Nodes : g.node[n] \in statuses}
Active(g) == {n \in Nodes : g.active[n] # 0}

\* Mutant of Ready: one upstream node is enough.
ReadyByAny(g) ==
  {n \in With(g, {"pending", "ready"}) :
     Inputs(n) = {} \/ \E e \in Inputs(n) : g.edge[e] = "ready"}

\* ready_nodes, with the default wait and join policies
Ready(g) == {n \in With(g, {"pending", "ready"}) :
               \A e \in Inputs(n) : g.edge[e] = "ready"}

\* Mutant of StatusOf: a failure closes the run while other nodes run.
StatusOfAtOnce(g) ==
  CASE With(g, Blocked) # {} -> "blocked"
    [] With(g, Blocked) = {} /\ With(g, Failed) # {} -> "failed"
    [] /\ With(g, Blocked \cup Failed) = {}
       /\ With(g, {"completed"}) = Nodes -> "completed"
    [] OTHER -> "running"

\* status_snapshot: nothing is concluded while something runs.
StatusOf(g) ==
  CASE With(g, {"running"}) \cup Active(g) # {} -> "running"
    [] OTHER ->
       CASE With(g, Blocked) # {} -> "blocked"
         [] With(g, Blocked) = {} /\ With(g, Failed) # {} -> "failed"
         [] /\ With(g, Blocked \cup Failed) = {}
            /\ \/ Terminals # {} /\ Terminals \subseteq With(g, {"completed"})
               \/ With(g, {"completed"}) = Nodes -> "completed"
         [] OTHER -> "running"

\* _state_with_work_orders
WithOrders(g, S) ==
  [g EXCEPT !.node = [n \in Nodes |-> IF n \in S THEN "running" ELSE @[n]],
            !.active = [n \in Nodes |-> IF n \in S THEN g.seq + 1 ELSE @[n]],
            !.status = "running",
            !.seq = @ + 1]

\* _state_after_dispatch_block: the context of node n cannot be resolved, and
\* no order of this dispatch is issued.
DispatchBlocked(g, n) ==
  LET blocked == [g EXCEPT !.node[n] = "blocked", !.active[n] = 0]
  IN  [blocked EXCEPT !.status = StatusOf(blocked)]

\* dispatch_ready: which ready nodes come first is left open.
Selections(g) ==
  LET candidates == Ready(g) \ Active(g)
  IN  {S \in SUBSET candidates :
         Cardinality(S) = IF Cardinality(candidates) < Limit
                          THEN Cardinality(candidates) ELSE Limit}

\* _dispatch_ready_with_state: the states it may lead to.
Dispatches(g) ==
  UNION {  {IF S = {} THEN g ELSE WithOrders(g, S)}
         \cup {DispatchBlocked(g, n) : n \in IF Faults THEN S ELSE {}} : S \in Selections(g)}

-----------------------------------------------------------------------------
(* What changes the loop state.                                            *)

\* _edge_states_after_transition
EdgesAfter(g, n, outcome) ==
  [e \in Edges |-> IF e \notin Outputs(n) THEN g.edge[e]
                   ELSE IF outcome = "completed" THEN "ready" ELSE "source_failed"]

\* accept_node_result up to its snapshot, for the result of an order of n.
Recorded(g, n, order, outcome) ==
  LET taken == [g EXCEPT !.node[n] = outcome,
                         !.edge = EdgesAfter(g, n, outcome),
                         !.active[n] = 0,
                         !.result[n] = order]
  IN  [taken EXCEPT !.status = StatusOf(taken)]

\* accept_node_result: a run that is not closed goes on to its ready nodes.
Accepted(g, n, order, outcome) ==
  LET next == Recorded(g, n, order, outcome)
  IN  IF next.status \in Closed THEN {next} ELSE Dispatches(next)

\* Mutant of Accepts: that the node is active is enough.
AcceptsAnyOrder(g, n, order) == g.active[n] # 0

\* accept_node_result refuses the result of any other order.
Accepts(g, n, order) == g.active[n] # 0 /\ g.active[n] = order

\* _revision_reset_node_ids: the targets and all downstream of them.
Downstream(T) ==
  {n \in Nodes : \A S \in SUBSET Nodes :
     T \subseteq S /\ (\A e \in Edges : e[1] \in S => e[2] \in S) => n \in S}

\* The nodes a requeue of T resets: _revision_reset_node_ids, or T alone
\* when the client asks for no reset_downstream.
Reset(T, downstream) == IF downstream THEN Downstream(T) ELSE T

\* Mutant of Requeued: nodes that are reset but not targets keep their orders.
RequeuedKeepsOrders(g, T, downstream) ==
  LET reset == Reset(T, downstream)
  IN  [g EXCEPT !.node = [n \in Nodes |-> IF n \in T THEN "ready"
                                          ELSE IF n \in reset THEN "pending" ELSE @[n]],
                !.edge = [e \in Edges |-> IF e[1] \in reset THEN "pending" ELSE @[e]],
                !.active = [n \in Nodes |-> IF n \in T THEN 0 ELSE @[n]],
                !.result = [n \in Nodes |-> IF n \in reset THEN 0 ELSE @[n]],
                !.status = "running"]

\* requeue_nodes_and_checkpoint (_state_after_revision_requeue)
Requeued(g, T, downstream) ==
  LET reset == Reset(T, downstream)
  IN  [g EXCEPT !.node = [n \in Nodes |-> IF n \in T THEN "ready"
                                          ELSE IF n \in reset THEN "pending" ELSE @[n]],
                !.edge = [e \in Edges |-> IF e[1] \in reset THEN "pending" ELSE @[e]],
                !.active = [n \in Nodes |-> IF n \in reset THEN 0 ELSE @[n]],
                !.result = [n \in Nodes |-> IF n \in reset THEN 0 ELSE @[n]],
                !.status = "running"]

\* _reset_outgoing_failed_edges, of the nodes T
FailedEdgesReset(g, T) ==
  [e \in Edges |-> IF e[1] \in T /\ g.edge[e] = "source_failed" THEN "pending" ELSE g.edge[e]]

\* requeue_blocked_nodes_and_checkpoint and, with forget,
\* requeue_recoverable_failed_nodes_and_checkpoint
Replayed(g, T, forget) ==
  [g EXCEPT !.node = [n \in Nodes |-> IF n \in T THEN "ready" ELSE @[n]],
            !.edge = FailedEdgesReset(g, T),
            !.active = [n \in Nodes |-> IF n \in T THEN 0 ELSE @[n]],
            !.result = [n \in Nodes |-> IF forget /\ n \in T THEN 0 ELSE @[n]],
            !.status = "running"]

\* GraphRunResume.resume: what may be replayed is; a closed run stays closed.
Replayable(g) ==
  CASE g.status = "failed" -> With(g, {"failed_again"})
    [] g.status = "blocked" /\ Active(g) = {} -> With(g, {"blocked_again"})
    [] OTHER -> {}

Resumed(g) ==
  IF Replayable(g) # {} THEN Dispatches(Replayed(g, Replayable(g), g.status = "failed"))
  ELSE IF g.status \in {"completed", "failed"} THEN {g}
  ELSE IF Active(g) # {}
       THEN {[g EXCEPT !.edge = FailedEdgesReset(g, Active(g)), !.status = "running"]}
  ELSE IF g.status = "blocked" THEN {g} ELSE Dispatches(g)

-----------------------------------------------------------------------------
(* The supervisor.                                                         *)

AtBoundary(r) == r.ctl \in {"pause_requested", "paused"}

\* Mutant of MarkedPaused: the root gets the status of the graph run object.
MarkedPausedAsRun(r) == [status |-> "paused", ctl |-> "paused"]

\* _mark_root_graph_run_paused
MarkedPaused(r) == [status |-> "waiting_executor", ctl |-> "paused"]

\* Mutant of TaskRunning: a task that has not begun is not running.
TaskExecuting(tasks, n, order) ==
  \E w \in tasks : w.by = "supervisor" /\ w.node = n /\ w.order = order /\ w.pc = "executing"

\* _background_task_running, by the name of the order
TaskRunning(tasks, n, order) ==
  \E w \in tasks : w.by = "supervisor" /\ w.node = n /\ w.order = order

\* The tasks submit_until_idle spawns for the active orders of the nodes S.
Spawned(g, tasks, S, left) ==
  {[node |-> n, order |-> g.active[n], by |-> "supervisor", pc |-> "spawned",
    left |-> left - 1] : n \in {m \in S : ~TaskRunning(tasks, m, g.active[m])}}

\* The first max_node_executions active orders, in an order left open.
Submittable(g, left) ==
  {S \in SUBSET Active(g) :
     Cardinality(S) = IF Cardinality(Active(g)) < left THEN Cardinality(Active(g)) ELSE left}

Outcome(g, r, tasks, on) == [graph |-> g, root |-> r, work |-> tasks, driven |-> on]

\* submit_until_idle; on: does the run go on if this does not stop it?
Submitted(g, r, tasks, left, on) ==
  IF AtBoundary(r) THEN {Outcome(g, MarkedPaused(r), tasks, FALSE)}
  ELSE UNION {{Outcome(h, r, tasks \cup Spawned(h, tasks, S, left), on /\ S = Active(h)) :
                 S \in Submittable(h, left)} : h \in Resumed(g)}

\* Mutant of NeedsFollowup: a run that is blocked or failed is left at that.
NeedsFollowupIfOpen(g) ==
  \/ Active(g) # {}
  \/ g.status = "running" /\ Ready(g) # {}

\* _state_needs_followup_submit
NeedsFollowup(g) ==
  \/ Active(g) # {}
  \/ g.status = "running" /\ Ready(g) # {}
  \/ g.status \in {"blocked", "failed"}

\* What a task does once its result is accepted
\* (_execute_order_and_schedule_next).
FollowedUp(g, r, tasks, left, on) ==
  IF left = 0 THEN {Outcome(g, r, tasks, FALSE)}
  ELSE IF AtBoundary(r) THEN {Outcome(g, MarkedPaused(r), tasks, FALSE)}
  ELSE IF NeedsFollowup(g) THEN Submitted(g, r, tasks, left, on)
  ELSE {Outcome(g, r, tasks, on)}

-----------------------------------------------------------------------------
(* The steps.                                                              *)

\* Only a requeue changes alone.
Turns(o) == /\ o.graph.seq <= MaxDispatches
            /\ graph' = o.graph
            /\ root' = o.root
            /\ work' = o.work
            /\ driven' = o.driven

Becomes(o) == Turns(o) /\ UNCHANGED alone

Request == /\ count.requests < MaxRequests
           /\ count' = [count EXCEPT !.requests = @ + 1]

Tasks(executions) == {w \in executions : w.by = "supervisor"}

\* run-until-idle in the background; the answer says whether tasks run.
Submit ==
  /\ Request
  /\ \E o \in Submitted(graph, root, work, Budget, TRUE) :
       Becomes([o EXCEPT !.driven = @ /\ Tasks(o.work) # {}])

\* dispatch-ready: orders nobody is told to execute
DispatchReady == /\ Request
                 /\ \E g \in Dispatches(graph) : Becomes(Outcome(g, root, work, FALSE))

\* What is known of the nodes T when they are requeued.
Requeues(T, downstream) ==
  alone' = IF downstream THEN alone
           ELSE [n \in Nodes |-> IF n \in T THEN graph.seq ELSE alone[n]]

\* Mutant of RequeueNodes: the root is not told.
RequeueNodesSilently(T, downstream) ==
  /\ Request
  /\ T # {}
  /\ Turns(Outcome(Requeued(graph, T, downstream), root, work, FALSE))
  /\ Requeues(T, downstream)

\* requeue-nodes; _update_formal_runs writes the root's status.
RequeueNodes(T, downstream) ==
  /\ Request
  /\ T # {}
  /\ Turns(Outcome(Requeued(graph, T, downstream), [root EXCEPT !.status = "running"], work, FALSE))
  /\ Requeues(T, downstream)

\* work-orders/execute: a client executes an order itself.
ClientExecutes(n) ==
  /\ Request
  /\ graph.active[n] # 0
  /\ work' = work \cup {[node |-> n, order |-> graph.active[n], by |-> "client",
                         pc |-> "executing", left |-> 0]}
  /\ UNCHANGED <<graph, root, driven, alone>>

RootOpen == root.status \notin {"completed", "failed"}

\* request_graph_run_pause
Pause ==
  /\ Request
  /\ RootOpen /\ root.ctl # "paused"
  /\ root' = IF \E n \in Active(graph) : TaskRunning(work, n, graph.active[n])
             THEN [root EXCEPT !.ctl = "pause_requested"]
             ELSE MarkedPaused(root)
  /\ UNCHANGED <<graph, work, driven, alone>>

\* request_graph_run_resume
Resume ==
  /\ Request
  /\ RootOpen
  /\ root' = [status |-> "running", ctl |-> "running"]
  /\ UNCHANGED <<graph, work, driven, alone>>

\* A spawned task gets its turn.
TaskBegins(w) ==
  /\ w.pc = "spawned"
  /\ IF AtBoundary(root)
     THEN Becomes(Outcome(graph, MarkedPaused(root), work \ {w}, FALSE))
     ELSE Becomes(Outcome(graph, root, (work \ {w}) \cup {[w EXCEPT !.pc = "executing"]}, driven))
  /\ UNCHANGED count

\* The root's status as accept_node_result writes it, whatever its control.
RootTold(g) == [root EXCEPT !.status = g.status]

\* A node ends, its result is accepted, and a task of the supervisor goes on.
NodeEnds(w, outcome) ==
  /\ w.pc = "executing" /\ Accepts(graph, w.node, w.order)
  /\ \E g \in Accepted(graph, w.node, w.order, outcome) :
       \E o \in IF w.by = "client" THEN {Outcome(g, RootTold(g), work \ {w}, FALSE)}
                ELSE FollowedUp(g, RootTold(g), work \ {w}, w.left, driven) : Becomes(o)
  /\ UNCHANGED count

\* The result is refused: the order was dropped or replaced, or another
\* execution of it was accepted.  The task ends without a follow-up.
ResultRefused(w) ==
  /\ w.pc = "executing" /\ ~Accepts(graph, w.node, w.order)
  /\ Becomes(Outcome(graph, root, work \ {w}, driven /\ w.by = "client"))
  /\ UNCHANGED count

\* The execution raises: the order stays active, nobody follows up.
ExecutionRaises(w) ==
  /\ Faults /\ w.pc = "executing"
  /\ Becomes(Outcome(graph, root, work \ {w}, driven /\ w.by = "client"))
  /\ UNCHANGED count

Crash(g) ==
  /\ count.crashes < MaxCrashes
  /\ count' = [count EXCEPT !.crashes = @ + 1]
  /\ Becomes(Outcome(g, root, {}, FALSE))

\* The process ends and is started again: the checkpoint and the root remain.
Restart == Crash(graph)

\* It ends when a result is checkpointed, before the root is told.
RestartInAccept(w, outcome) ==
  /\ w.pc = "executing" /\ Accepts(graph, w.node, w.order)
  /\ \E g \in Accepted(graph, w.node, w.order, outcome) : Crash(g)

Next == \/ Submit \/ DispatchReady \/ Pause \/ Resume \/ Restart
        \/ \E n \in Nodes : \/ ClientExecutes(n)
                           \/ \E downstream \in BOOLEAN : RequeueNodes({n}, downstream)
        \/ \E w \in work : \/ TaskBegins(w)
                           \/ ResultRefused(w)
                           \/ ExecutionRaises(w)
                           \/ \E outcome \in Outcomes :
                                NodeEnds(w, outcome) \/ RestartInAccept(w, outcome)

Spec == Init /\ [][Next]_vars

-----------------------------------------------------------------------------
(* Properties.                                                             *)

\* The type of the variables.
TypeOK ==
  /\ graph \in GraphStates
  /\ root \in RootRecords
  /\ work \subseteq Executions
  /\ driven \in BOOLEAN
  /\ alone \in [Nodes -> Orders \cup {0}]
  /\ count \in [requests : 0 .. MaxRequests, crashes : 0 .. MaxCrashes]

\* An order is executed by one background task at a time, however often the
\* run is submitted, paused, resumed and followed up: nothing but the names
\* of the tasks tells a submission which orders are taken.
OneTaskPerOrder ==
  \A v, w \in Tasks(work) :
    v.node = w.node /\ v.order = w.order => v = w

\* A node that runs has an order, and only such a node: no request leaves one
\* that nobody's result can end, or an order for a node that is over.
RunningHasOrder == \A n \in Nodes : graph.node[n] = "running" <=> graph.active[n] # 0

\* The order a node runs under, or whose result it has.
OrderOf(g, n) == IF g.node[n] = "running" THEN g.active[n] ELSE g.result[n]

\* The edges whose target a client left as it was when it requeued their
\* source without what is downstream: begun before, and not redone since.
OutdatedIn(g, since) == {e \in Edges : /\ g.node[e[2]] \in {"running", "completed"}
                                       /\ OrderOf(g, e[2]) <= since[e[1]]}
Outdated == OutdatedIn(graph, alone)

\* A completed node is completed on what it depends on now: its order was
\* issued after their present results, although nodes are requeued while
\* others run and late results of dropped orders come in.  Only where a
\* client requeued the source alone (reset_downstream = False) has the node
\* an earlier result, or one that was dropped.
CompletedOnPresentInputs ==
  \A e \in Edges \ Outdated : graph.node[e[2]] = "completed" =>
    /\ graph.node[e[1]] = "completed"
    /\ 0 < graph.result[e[1]] /\ graph.result[e[1]] < graph.result[e[2]]

\* The checkpoint is one GraphStateMachine.validate lets pass: a write that it
\* refused would lose an accepted result.
ClosedHasNoOrder == graph.status \in Closed => Active(graph) = {}

\* A node is to be replayed that waits for one which failed when it was
\* requeued alone.
WaitsForFailed ==
  \E e \in Edges : /\ graph.node[e[2]] = "ready"
                   /\ graph.node[e[1]] \in Failed \cup Blocked /\ alone[e[1]] > 0

\* A run a submission started does not stall: with no background task left it
\* is over, and what a resume would replay has been, unless a node that only
\* a request can free stops the run.  In one case it stays open with nothing
\* to do: a resume opened it for nodes that wait for one which a client had
\* requeued alone, and which failed.
NoSilentStall ==
  driven /\ Tasks(work) = {} =>
    \/ /\ graph.status \in Closed
       /\ Replayable(graph) # {} => With(graph, {"blocked"}) # {}
    \/ graph.status = "running" /\ WaitsForFailed

\* A root that says completed has a completed graph, but for one way: a
\* node was requeued alone and the graph completed on an earlier result of
\* it; dispatch-ready then opens the graph again and does not tell the root.
RootCompletedIsTrue ==
  root.status = "completed" =>
    \/ graph.status = "completed"
    \/ \E e \in Outdated : graph.node[e[2]] = "completed"

\* The stages of the nodes, for the abstract specification.
StageOf(g) == [n \in Nodes |-> IF g.node[n] = "completed" THEN "done"
                               ELSE IF g.node[n] = "running" THEN "doing" ELSE "todo"]

Order == INSTANCE DependencyOrder WITH stage <- StageOf(graph), kept <- Outdated

\* Every step of the run is one of DependencyOrder: a node begins when all it
\* depends on is done, and is undone with all that depends on it, or alone
\* when a client asks for that.
KeepsDependencyOrder == Order!Spec
=============================================================================
