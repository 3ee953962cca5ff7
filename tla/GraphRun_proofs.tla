--------------------------- MODULE GraphRun_proofs ---------------------------
(***************************************************************************)
(* For every graph and all bounds: a graph run keeps the order of its      *)
(* dependencies (it implements DependencyOrder), a completed node is       *)
(* completed on the present results of what it depends on, unless a client *)
(* had one of those redone alone, an order has one background task, and a  *)
(* closed run has no order left.  A root that says completed is right in   *)
(* graphs whose nodes all lead to a terminal one, and a run does not stand *)
(* still unseen in graphs without a cycle; both properties name the case   *)
(* of a node redone alone.                                                 *)
(*                                                                         *)
(* The loop state changes in operators that are composed in one step:      *)
(* a result is recorded, ready nodes are dispatched, failed ones replayed. *)
(* Each of them preserves Consistent, and relates the stages before and    *)
(* after; the steps of GraphRun follow from that.                          *)
(***************************************************************************)
EXTENDS GraphRun, FiniteSetTheorems, TLAPS

\* A loop state in the middle of a step may exceed the bound on orders.
LoopStates ==
  [node : [Nodes -> NodeStatuses],
   edge : [Edges -> {"pending", "ready", "source_failed"}],
   active : [Nodes -> Nat], result : [Nodes -> Nat],
   status : {"running"} \cup Closed, seq : Nat]

\* The orders of a state were issued, and are those of the nodes that run.
OrdersFit(g) ==
  \A n \in Nodes : /\ g.node[n] = "running" <=> g.active[n] # 0
                   /\ g.active[n] <= g.seq
                   /\ g.result[n] <= g.seq

\* An edge that is ready has a completed source.  What runs or is completed
\* rests on completed nodes, on their present results, or on a node that was
\* requeued alone since.
EdgesFit(g, since) ==
  \A e \in Edges :
    /\ g.edge[e] = "ready" => g.node[e[1]] = "completed"
    /\ g.node[e[2]] \in {"running", "completed"} =>
         \/ OrderOf(g, e[2]) <= since[e[1]]
         \/ g.node[e[1]] = "completed" /\ g.result[e[1]] < OrderOf(g, e[2])

ResultsFit(g) == \A n \in Nodes : g.node[n] = "completed" => 0 < g.result[n]

SinceFits(g, since) == /\ since \in [Nodes -> Nat]
                       /\ \A n \in Nodes : since[n] <= g.seq

\* since: the orders issued when the nodes were last requeued alone.
Consistent(g, since) == /\ g \in LoopStates
                        /\ OrdersFit(g) /\ EdgesFit(g, since)
                        /\ ResultsFit(g) /\ SinceFits(g, since)

\* From g to h some nodes begin, and orders may be issued.
Begins(g, h, since) ==
  /\ g.seq <= h.seq
  /\ OutdatedIn(h, since) = OutdatedIn(g, since)
  /\ \E S \in SUBSET Nodes : /\ Order!MayBegin(StageOf(g), S)
                             /\ StageOf(h) = Order!Begun(StageOf(g), S)

\* A step from g and since to h and now that is one of DependencyOrder.
OrderStep(g, since, h, now) ==
  \/ Begins(g, h, since) /\ now = since
  \/ \E n \in Nodes, end \in {"done", "todo"}, S \in SUBSET Nodes :
       LET ended == [StageOf(g) EXCEPT ![n] = end]
       IN  /\ StageOf(g)[n] = "doing"
           /\ Order!MayBegin(ended, S)
           /\ StageOf(h) = Order!Begun(ended, S)
           /\ OutdatedIn(h, now) = Order!Left(OutdatedIn(g, since), ended)
  \/ \E S \in SUBSET Nodes :
       /\ StageOf(h) = [n \in Nodes |-> IF n \in S THEN "todo" ELSE StageOf(g)[n]]
       /\ \/ /\ \A m \in S, n \in Nodes : <<m, n>> \in Edges => n \in S
             /\ OutdatedIn(h, now) = Order!Left(OutdatedIn(g, since), StageOf(h))
          \/ OutdatedIn(h, now) =
               Order!Left(OutdatedIn(g, since) \cup {e \in Edges : e[1] \in S}, StageOf(h))

LEMMA EdgeEnds == ASSUME NEW e \in Edges PROVE e[1] \in Nodes /\ e[2] \in Nodes /\ e = <<e[1], e[2]>>
  BY GraphShape

LEMMA StatusIsOne == ASSUME NEW g PROVE StatusOf(g) \in {"running"} \cup Closed
  BY DEF StatusOf, Closed

LEMMA StatusDepends ==
  ASSUME NEW g, NEW h, h.node = g.node, h.active = g.active
  PROVE  StatusOf(h) = StatusOf(g)
  BY DEF StatusOf, With, Active

-----------------------------------------------------------------------------
(* Orders are issued.                                                      *)

LEMMA WithOrdersIs ==
  ASSUME NEW g \in LoopStates, NEW S \in SUBSET Nodes
  PROVE  LET h == WithOrders(g, S)
         IN  /\ h \in LoopStates
             /\ h.node = [n \in Nodes |-> IF n \in S THEN "running" ELSE g.node[n]]
             /\ h.active = [n \in Nodes |-> IF n \in S THEN g.seq + 1 ELSE g.active[n]]
             /\ h.edge = g.edge /\ h.result = g.result
             /\ h.seq = g.seq + 1 /\ h.status = "running"
<1> DEFINE node == [n \in Nodes |-> IF n \in S THEN "running" ELSE g.node[n]]
           active == [n \in Nodes |-> IF n \in S THEN g.seq + 1 ELSE g.active[n]]
<1>1. g.seq + 1 \in Nat /\ active \in [Nodes -> Nat]
  BY DEF LoopStates
<1>2. node \in [Nodes -> NodeStatuses]
  BY DEF LoopStates, NodeStatuses
<1>3. WithOrders(g, S) = [g EXCEPT !.node = node, !.active = active,
                                   !.status = "running", !.seq = g.seq + 1]
  BY DEF WithOrders
<1> HIDE DEF node, active
<1>4. /\ WithOrders(g, S) \in LoopStates
      /\ WithOrders(g, S).node = node /\ WithOrders(g, S).active = active
      /\ WithOrders(g, S).edge = g.edge /\ WithOrders(g, S).result = g.result
      /\ WithOrders(g, S).seq = g.seq + 1 /\ WithOrders(g, S).status = "running"
  BY <1>1, <1>2, <1>3 DEF LoopStates
<1> QED BY <1>4 DEF node, active

LEMMA WithOrdersKeeps ==
  ASSUME NEW g, NEW since, Consistent(g, since), NEW S \in SUBSET (Ready(g) \ Active(g))
  PROVE  Consistent(WithOrders(g, S), since) /\ Begins(g, WithOrders(g, S), since)
<1> DEFINE h == WithOrders(g, S)
<1>1. S \subseteq Nodes /\ g \in LoopStates
  BY DEF Consistent, Ready, With
<1>2. /\ h \in LoopStates
      /\ h.node = [n \in Nodes |-> IF n \in S THEN "running" ELSE g.node[n]]
      /\ h.active = [n \in Nodes |-> IF n \in S THEN g.seq + 1 ELSE g.active[n]]
      /\ h.edge = g.edge /\ h.result = g.result
      /\ h.seq = g.seq + 1 /\ h.status = "running"
  BY <1>1, WithOrdersIs
<1>3. /\ g.seq \in Nat
      /\ g.active \in [Nodes -> Nat] /\ g.result \in [Nodes -> Nat]
      /\ g.node \in [Nodes -> NodeStatuses]
  BY <1>1 DEF LoopStates
<1>0. /\ OrdersFit(g) /\ EdgesFit(g, since) /\ ResultsFit(g)
      /\ since \in [Nodes -> Nat] /\ \A n \in Nodes : since[n] <= g.seq
  BY DEF Consistent, SinceFits
<1> HIDE DEF h
<1>4. \A n \in S : /\ n \in Nodes
                   /\ g.node[n] \in {"pending", "ready"}
                   /\ \A e \in Edges : e[2] = n => g.edge[e] = "ready"
  BY DEF Ready, With, Inputs
<1>5. \A e \in Edges : e[2] \in S => g.node[e[1]] = "completed" /\ g.result[e[1]] <= g.seq
  BY <1>0, <1>4, EdgeEnds DEF EdgesFit, OrdersFit
<1>6. \A n \in Nodes : h.node[n] \in {"running", "completed"} =>
                       OrderOf(h, n) = IF n \in S THEN g.seq + 1 ELSE OrderOf(g, n)
  BY <1>2 DEF OrderOf
<1>7. OrdersFit(h)
  <2> SUFFICES ASSUME NEW n \in Nodes
               PROVE  /\ h.node[n] = "running" <=> h.active[n] # 0
                      /\ h.active[n] <= h.seq /\ h.result[n] <= h.seq
    BY DEF OrdersFit
  <2>1. /\ g.node[n] = "running" <=> g.active[n] # 0
        /\ g.active[n] <= g.seq /\ g.result[n] <= g.seq
    BY DEF Consistent, OrdersFit
  <2>2. CASE n \in S
    BY <2>1, <2>2, <1>2, <1>3
  <2>3. CASE n \notin S
    BY <2>1, <2>3, <1>2, <1>3
  <2> QED BY <2>2, <2>3
<1>8. EdgesFit(h, since)
  <2> SUFFICES ASSUME NEW e \in Edges
               PROVE  /\ h.edge[e] = "ready" => h.node[e[1]] = "completed"
                      /\ h.node[e[2]] \in {"running", "completed"} =>
                           \/ OrderOf(h, e[2]) <= since[e[1]]
                           \/ h.node[e[1]] = "completed" /\ h.result[e[1]] < OrderOf(h, e[2])
    BY DEF EdgesFit
  <2>0. e[1] \in Nodes /\ e[2] \in Nodes
    BY EdgeEnds
  <2>1. /\ g.edge[e] = "ready" => g.node[e[1]] = "completed"
        /\ g.node[e[2]] \in {"running", "completed"} =>
             \/ OrderOf(g, e[2]) <= since[e[1]]
             \/ g.node[e[1]] = "completed" /\ g.result[e[1]] < OrderOf(g, e[2])
    BY <1>0 DEF EdgesFit
  <2>2. CASE e[2] \in S
    <3>1. e[1] \notin S /\ g.node[e[1]] = "completed" /\ g.result[e[1]] < g.seq + 1
      BY <2>0, <2>2, <1>3, <1>5, <1>4
    <3>2. OrderOf(h, e[2]) = g.seq + 1
      BY <2>0, <2>2, <1>2, <1>6
    <3> QED BY <3>1, <3>2, <2>0, <1>2
  <2>3. CASE e[2] \notin S
    <3>1. h.node[e[2]] = g.node[e[2]]
      BY <2>0, <2>3, <1>2
    <3>2. h.node[e[2]] \in {"running", "completed"} => OrderOf(h, e[2]) = OrderOf(g, e[2])
      BY <2>0, <2>3, <1>6
    <3>3. e[1] \in S => g.node[e[1]] # "completed"
      BY <1>4
    <3>4. e[1] \notin S => h.node[e[1]] = g.node[e[1]]
      BY <2>0, <1>2
    <3> QED BY <3>1, <3>2, <3>3, <3>4, <2>1, <1>2
  <2> QED BY <2>2, <2>3
<1>9. ResultsFit(h) /\ SinceFits(h, since)
  BY <1>0, <1>2, <1>3 DEF ResultsFit, SinceFits
<1>10. Begins(g, h, since)
  <2>1. \A n \in S : StageOf(g)[n] = "todo"
    BY <1>4 DEF StageOf
  <2>2. ASSUME NEW n \in S, NEW m \in Nodes, <<m, n>> \in Edges PROVE StageOf(g)[m] = "done"
    BY <1>5, <2>2 DEF StageOf
  <2>3. StageOf(h) = Order!Begun(StageOf(g), S)
    BY <1>2, <1>3 DEF StageOf, Order!Begun
  <2>4. g.seq <= h.seq
    BY <1>2, <1>3
  <2>5. ASSUME NEW e \in Edges
        PROVE  e \in OutdatedIn(h, since) <=> e \in OutdatedIn(g, since)
    <3>0. e[1] \in Nodes /\ e[2] \in Nodes
      BY EdgeEnds
    <3>1. CASE e[2] \in S
      <4>1. OrderOf(h, e[2]) = g.seq + 1 /\ since[e[1]] < g.seq + 1
        BY <3>0, <3>1, <1>0, <1>2, <1>3, <1>6
      <4>2. ~(OrderOf(h, e[2]) <= since[e[1]])
        BY <3>0, <4>1, <1>0, <1>3
      <4> QED BY <3>1, <4>2, <1>4 DEF OutdatedIn
    <3>2. CASE e[2] \notin S
      BY <3>0, <3>2, <1>2, <1>6 DEF OutdatedIn
    <3> QED BY <3>1, <3>2
  <2>6. OutdatedIn(h, since) = OutdatedIn(g, since)
    BY <2>5 DEF OutdatedIn
  <2> QED BY <2>1, <2>2, <2>3, <2>4, <2>6, <1>1 DEF Begins, Order!MayBegin
<1> QED BY <1>2, <1>7, <1>8, <1>9, <1>10 DEF Consistent, h

\* Nobody begins, nothing changes: Begins is reflexive.
LEMMA SameStages ==
  ASSUME NEW g \in LoopStates, NEW h, NEW since, StageOf(h) = StageOf(g), h.seq = g.seq,
         OutdatedIn(h, since) = OutdatedIn(g, since)
  PROVE  Begins(g, h, since)
<1>1. Order!MayBegin(StageOf(g), {})
  BY DEF Order!MayBegin
<1>2. StageOf(h) = Order!Begun(StageOf(g), {})
  BY DEF Order!Begun, StageOf
<1>3. g.seq <= h.seq
  BY DEF LoopStates
<1> QED BY <1>1, <1>2, <1>3 DEF Begins

\* What begins after others have begun may begin with them.
LEMMA BeginsTwice ==
  ASSUME NEW g \in LoopStates, NEW h \in LoopStates, NEW k \in LoopStates,
         NEW since, Begins(g, h, since), Begins(h, k, since)
  PROVE  Begins(g, k, since)
<1>1. PICK S \in SUBSET Nodes : /\ Order!MayBegin(StageOf(g), S)
                                /\ StageOf(h) = Order!Begun(StageOf(g), S)
  BY DEF Begins
<1>2. PICK T \in SUBSET Nodes : /\ Order!MayBegin(StageOf(h), T)
                                /\ StageOf(k) = Order!Begun(StageOf(h), T)
  BY DEF Begins
<1>3. \A n \in Nodes : StageOf(h)[n] = IF n \in S THEN "doing" ELSE StageOf(g)[n]
  BY <1>1 DEF Order!Begun
<1>4. Order!MayBegin(StageOf(g), S \cup T)
  BY <1>1, <1>2, <1>3 DEF Order!MayBegin
<1>5. StageOf(k) = Order!Begun(StageOf(g), S \cup T)
  BY <1>2, <1>3 DEF Order!Begun
<1>6. g.seq <= k.seq /\ OutdatedIn(k, since) = OutdatedIn(g, since)
  BY DEF Begins, LoopStates
<1> QED BY <1>4, <1>5, <1>6 DEF Begins

-----------------------------------------------------------------------------
(* Nodes that neither ran nor were completed change their status, and edges *)
(* that are not ready theirs.                                               *)

LEMMA AtRestKeeps ==
  ASSUME NEW g, NEW since, Consistent(g, since), NEW h \in LoopStates,
         \A n \in Nodes :
           \/ h.node[n] = g.node[n] /\ h.active[n] = g.active[n] /\ h.result[n] = g.result[n]
           \/ /\ g.node[n] \notin {"running", "completed"}
              /\ h.node[n] \notin {"running", "completed"}
              /\ h.active[n] = 0
              /\ h.result[n] \in {0, g.result[n]},
         \A e \in Edges : h.edge[e] = "ready" => g.edge[e] = "ready",
         h.seq = g.seq
  PROVE  Consistent(h, since) /\ Begins(g, h, since)
<1>1. /\ g.seq \in Nat /\ g.active \in [Nodes -> Nat] /\ g.result \in [Nodes -> Nat]
      /\ h.active \in [Nodes -> Nat] /\ h.result \in [Nodes -> Nat]
  BY DEF Consistent, LoopStates
<1>2. OrdersFit(h)
  BY <1>1 DEF OrdersFit, Consistent
<1>3. \A n \in Nodes : h.node[n] \in {"running", "completed"} =>
                       h.node[n] = g.node[n] /\ OrderOf(h, n) = OrderOf(g, n)
  BY DEF OrderOf
<1>4. \A n \in Nodes : g.node[n] \in {"running", "completed"} =>
                       h.node[n] = g.node[n] /\ h.result[n] = g.result[n]
  OBVIOUS
<1>5. EdgesFit(h, since)
  BY <1>3, <1>4, EdgeEnds DEF EdgesFit, Consistent
<1>6. ResultsFit(h) /\ SinceFits(h, since)
  BY DEF ResultsFit, Consistent, SinceFits
<1>7. StageOf(h) = StageOf(g)
  BY DEF StageOf
<1>8. OutdatedIn(h, since) = OutdatedIn(g, since)
  BY <1>3, <1>4, EdgeEnds DEF OutdatedIn
<1>9. Begins(g, h, since)
  BY <1>7, <1>8, SameStages DEF Consistent
<1> QED BY <1>2, <1>5, <1>6, <1>9 DEF Consistent

LEMMA DispatchBlockedIs ==
  ASSUME NEW g \in LoopStates, NEW n \in Nodes
  PROVE  LET h == DispatchBlocked(g, n)
         IN  /\ h \in LoopStates
             /\ h.node = [g.node EXCEPT ![n] = "blocked"]
             /\ h.active = [g.active EXCEPT ![n] = 0]
             /\ h.edge = g.edge /\ h.result = g.result /\ h.seq = g.seq
             /\ h.status = StatusOf(h)
<1> DEFINE h == DispatchBlocked(g, n)
           node == [g.node EXCEPT ![n] = "blocked"]
           active == [g.active EXCEPT ![n] = 0]
           blocked == [g EXCEPT !.node[n] = "blocked", !.active[n] = 0]
<1>1. node \in [Nodes -> NodeStatuses] /\ active \in [Nodes -> Nat]
  BY DEF LoopStates, NodeStatuses, Outcomes, Blocked
<1>2. blocked = [g EXCEPT !.node = node, !.active = active]
  OBVIOUS
<1>3. StatusOf(blocked) \in {"running"} \cup Closed
  BY StatusIsOne
<1>4. h = [blocked EXCEPT !.status = StatusOf(blocked)]
  BY DEF DispatchBlocked
<1> HIDE DEF h, node, active, blocked
<1>5. blocked.node = node /\ blocked.active = active
  BY <1>1, <1>2 DEF LoopStates
<1>6. h = [g EXCEPT !.node = node, !.active = active, !.status = StatusOf(blocked)]
  BY <1>2, <1>4 DEF LoopStates
<1>7. /\ h \in LoopStates
      /\ h.node = node /\ h.active = active /\ h.edge = g.edge
      /\ h.result = g.result /\ h.seq = g.seq /\ h.status = StatusOf(blocked)
  BY <1>1, <1>3, <1>6 DEF LoopStates
<1>8. h.status = StatusOf(h)
  BY <1>5, <1>7, StatusDepends
<1> QED BY <1>7, <1>8 DEF h, node, active

LEMMA DispatchBlockedKeeps ==
  ASSUME NEW g, NEW since, Consistent(g, since), NEW n \in Ready(g)
  PROVE  LET h == DispatchBlocked(g, n) IN Consistent(h, since) /\ Begins(g, h, since)
<1> DEFINE h == DispatchBlocked(g, n)
<1>1. g \in LoopStates /\ n \in Nodes /\ g.node[n] \in {"pending", "ready"}
  BY DEF Consistent, Ready, With
<1>2. /\ h \in LoopStates
      /\ h.node = [g.node EXCEPT ![n] = "blocked"] /\ h.active = [g.active EXCEPT ![n] = 0]
      /\ h.edge = g.edge /\ h.result = g.result /\ h.seq = g.seq
  BY <1>1, DispatchBlockedIs
<1> HIDE DEF h
<1>3. \A m \in Nodes : m # n => h.node[m] = g.node[m] /\ h.active[m] = g.active[m]
  BY <1>1, <1>2 DEF LoopStates
<1>4. h.node[n] = "blocked" /\ h.active[n] = 0
  BY <1>1, <1>2 DEF LoopStates
<1>5. \A m \in Nodes :
        \/ h.node[m] = g.node[m] /\ h.active[m] = g.active[m] /\ h.result[m] = g.result[m]
        \/ /\ g.node[m] \notin {"running", "completed"}
           /\ h.node[m] \notin {"running", "completed"}
           /\ h.active[m] = 0
           /\ h.result[m] \in {0, g.result[m]}
  BY <1>1, <1>2, <1>3, <1>4
<1>6. \A e \in Edges : h.edge[e] = "ready" => g.edge[e] = "ready"
  BY <1>2
<1>7. h \in LoopStates /\ h.seq = g.seq
  BY <1>2
<1>8. Consistent(h, since) /\ Begins(g, h, since)
  BY <1>5, <1>6, <1>7, AtRestKeeps
<1> QED BY <1>8 DEF h

LEMMA DispatchesKeep ==
  ASSUME NEW g, NEW since, Consistent(g, since), NEW h \in Dispatches(g)
  PROVE  Consistent(h, since) /\ Begins(g, h, since)
<1>1. PICK S \in Selections(g) :
        h \in {IF S = {} THEN g ELSE WithOrders(g, S)}
              \cup {DispatchBlocked(g, n) : n \in IF Faults THEN S ELSE {}}
  BY DEF Dispatches
<1>2. S \subseteq Ready(g) \ Active(g)
  BY DEF Selections
<1>3. CASE h = g
  BY <1>3, SameStages DEF Consistent
<1>4. CASE h = WithOrders(g, S)
  BY <1>2, <1>4, WithOrdersKeeps
<1>5. CASE \E n \in S : h = DispatchBlocked(g, n)
  BY <1>2, <1>5, DispatchBlockedKeeps
<1> QED BY <1>1, <1>3, <1>4, <1>5

-----------------------------------------------------------------------------
(* A result is recorded.                                                   *)

LEMMA RecordedIs ==
  ASSUME NEW g \in LoopStates, NEW n \in Nodes, NEW order \in Nat, NEW outcome \in Outcomes,
         NEW h, h = Recorded(g, n, order, outcome)
  PROVE  /\ h \in LoopStates
         /\ h.node = [g.node EXCEPT ![n] = outcome]
         /\ h.edge = EdgesAfter(g, n, outcome)
         /\ h.active = [g.active EXCEPT ![n] = 0]
         /\ h.result = [g.result EXCEPT ![n] = order]
         /\ h.seq = g.seq
         /\ h.status = StatusOf(h)
<1> DEFINE node == [g.node EXCEPT ![n] = outcome]
           edge == EdgesAfter(g, n, outcome)
           active == [g.active EXCEPT ![n] = 0]
           result == [g.result EXCEPT ![n] = order]
           taken == [g EXCEPT !.node[n] = outcome, !.edge = EdgesAfter(g, n, outcome),
                              !.active[n] = 0, !.result[n] = order]
<1>1. /\ node \in [Nodes -> NodeStatuses] /\ active \in [Nodes -> Nat]
      /\ result \in [Nodes -> Nat]
  BY DEF LoopStates, NodeStatuses
<1>2. edge \in [Edges -> {"pending", "ready", "source_failed"}]
  BY DEF LoopStates, EdgesAfter
<1>3. taken = [g EXCEPT !.node = node, !.edge = edge, !.active = active, !.result = result]
  OBVIOUS
<1>4. StatusOf(taken) \in {"running"} \cup Closed
  BY StatusIsOne
<1>5. h = [taken EXCEPT !.status = StatusOf(taken)]
  BY DEF Recorded
<1> HIDE DEF node, edge, active, result, taken
<1>6. taken.node = node /\ taken.active = active
  BY <1>1, <1>2, <1>3 DEF LoopStates
<1>7. h = [g EXCEPT !.node = node, !.edge = edge, !.active = active,
                    !.result = result, !.status = StatusOf(taken)]
  BY <1>3, <1>5 DEF LoopStates
<1>8. /\ h \in LoopStates
      /\ h.node = node /\ h.edge = edge /\ h.active = active
      /\ h.result = result /\ h.seq = g.seq /\ h.status = StatusOf(taken)
  BY <1>1, <1>2, <1>4, <1>7 DEF LoopStates
<1>9. h.status = StatusOf(h)
  BY <1>6, <1>8, StatusDepends
<1> QED BY <1>8, <1>9 DEF node, edge, active, result

LEMMA RecordedKeeps ==
  ASSUME NEW g, NEW since, Consistent(g, since), NEW n \in Nodes, NEW order, Accepts(g, n, order),
         NEW outcome \in Outcomes
  PROVE  LET h == Recorded(g, n, order, outcome)
         IN  /\ Consistent(h, since) /\ h.seq = g.seq
             /\ StageOf(g)[n] = "doing"
             /\ StageOf(h) = [StageOf(g) EXCEPT ![n] = IF outcome = "completed"
                                                       THEN "done" ELSE "todo"]
             /\ OutdatedIn(h, since) = Order!Left(OutdatedIn(g, since), StageOf(h))
<1> DEFINE h == Recorded(g, n, order, outcome)
           node == [g.node EXCEPT ![n] = outcome]
           edge == EdgesAfter(g, n, outcome)
           active == [g.active EXCEPT ![n] = 0]
           result == [g.result EXCEPT ![n] = order]
<1>1. /\ g \in LoopStates /\ OrdersFit(g) /\ EdgesFit(g, since)
      /\ ResultsFit(g) /\ SinceFits(g, since)
      /\ g.node[n] = "running" /\ g.active[n] = order /\ order # 0
  BY DEF Consistent, Accepts, OrdersFit
<1>2. order \in Nat
  BY <1>1 DEF LoopStates
<1>3. h = Recorded(g, n, order, outcome)
  OBVIOUS
<1> HIDE DEF h
<1>5. /\ h \in LoopStates
      /\ h.node = node /\ h.edge = edge /\ h.active = active
      /\ h.result = result /\ h.seq = g.seq
  BY <1>1, <1>2, <1>3, RecordedIs
<1>6. \A m \in Nodes : m # n => /\ h.node[m] = g.node[m] /\ h.active[m] = g.active[m]
                                /\ h.result[m] = g.result[m]
  BY <1>1, <1>5 DEF LoopStates
<1>7. h.node[n] = outcome /\ h.active[n] = 0 /\ h.result[n] = order
  BY <1>1, <1>5 DEF LoopStates
<1>8. \A e \in Edges : h.edge[e] = IF e[1] # n THEN g.edge[e]
                                   ELSE IF outcome = "completed" THEN "ready"
                                   ELSE "source_failed"
  BY <1>5 DEF EdgesAfter, Outputs
<1>9. outcome # "running"
  BY DEF Outcomes, Failed, Blocked
<1>10. \A m \in Nodes : h.node[m] \in {"running", "completed"} =>
                        OrderOf(h, m) = OrderOf(g, m) /\ g.node[m] \in {"running", "completed"}
  BY <1>1, <1>6, <1>7, <1>9 DEF OrderOf
<1>11. g.seq \in Nat /\ g.active \in [Nodes -> Nat] /\ g.result \in [Nodes -> Nat]
  BY <1>1 DEF LoopStates
<1>12. OrdersFit(h)
  <2> SUFFICES ASSUME NEW m \in Nodes
               PROVE  /\ h.node[m] = "running" <=> h.active[m] # 0
                      /\ h.active[m] <= h.seq /\ h.result[m] <= h.seq
    BY DEF OrdersFit
  <2>1. CASE m = n
    BY <2>1, <1>1, <1>2, <1>5, <1>7, <1>9, <1>11 DEF OrdersFit
  <2>2. CASE m # n
    BY <2>2, <1>1, <1>5, <1>6 DEF OrdersFit
  <2> QED BY <2>1, <2>2
<1>13. EdgesFit(h, since)
  <2> SUFFICES ASSUME NEW e \in Edges
               PROVE  /\ h.edge[e] = "ready" => h.node[e[1]] = "completed"
                      /\ h.node[e[2]] \in {"running", "completed"} =>
                           \/ OrderOf(h, e[2]) <= since[e[1]]
                           \/ h.node[e[1]] = "completed" /\ h.result[e[1]] < OrderOf(h, e[2])
    BY DEF EdgesFit
  <2>0. e[1] \in Nodes /\ e[2] \in Nodes
    BY EdgeEnds
  <2>1. /\ g.edge[e] = "ready" => g.node[e[1]] = "completed"
        /\ g.node[e[2]] \in {"running", "completed"} =>
             \/ OrderOf(g, e[2]) <= since[e[1]]
             \/ g.node[e[1]] = "completed" /\ g.result[e[1]] < OrderOf(g, e[2])
    BY <1>1 DEF EdgesFit
  <2>2. CASE e[1] = n
    <3>1. h.edge[e] = "ready" => h.node[e[1]] = "completed"
      BY <2>2, <1>7, <1>8
    <3>2. h.node[e[2]] \in {"running", "completed"} => OrderOf(h, e[2]) <= since[e[1]]
      BY <2>0, <2>1, <2>2, <1>1, <1>10
    <3> QED BY <3>1, <3>2
  <2>3. CASE e[1] # n
    BY <2>0, <2>1, <2>3, <1>6, <1>8, <1>10
  <2> QED BY <2>2, <2>3
<1>14. ResultsFit(h) /\ SinceFits(h, since)
  BY <1>1, <1>2, <1>5, <1>6, <1>7, <1>11 DEF ResultsFit, SinceFits
<1>15. StageOf(g)[n] = "doing"
  BY <1>1 DEF StageOf
<1>16. StageOf(h) = [StageOf(g) EXCEPT ![n] = IF outcome = "completed" THEN "done" ELSE "todo"]
  BY <1>6, <1>7, <1>9 DEF StageOf
<1>17. OutdatedIn(h, since) = Order!Left(OutdatedIn(g, since), StageOf(h))
  <2> SUFFICES ASSUME NEW e \in Edges
               PROVE  e \in OutdatedIn(h, since)
                        <=> e \in OutdatedIn(g, since) /\ StageOf(h)[e[2]] # "todo"
    BY DEF OutdatedIn, Order!Left
  <2>1. e[2] \in Nodes
    BY EdgeEnds
  <2>2. StageOf(h)[e[2]] # "todo" <=> h.node[e[2]] \in {"running", "completed"}
    BY <2>1 DEF StageOf
  <2> QED BY <2>1, <2>2, <1>10 DEF OutdatedIn
<1> QED BY <1>5, <1>12, <1>13, <1>14, <1>15, <1>16, <1>17 DEF Consistent, h

-----------------------------------------------------------------------------
(* Nodes are done again.                                                   *)

\* What is downstream of T contains T and is closed under the edges.
LEMMA DownstreamIs ==
  ASSUME NEW T \in SUBSET Nodes
  PROVE  /\ T \subseteq Downstream(T) /\ Downstream(T) \subseteq Nodes
         /\ \A e \in Edges : e[1] \in Downstream(T) => e[2] \in Downstream(T)
  BY EdgeEnds DEF Downstream

LEMMA RequeuedIs ==
  ASSUME NEW g \in LoopStates, NEW T \in SUBSET Nodes, NEW downstream \in BOOLEAN
  PROVE  LET h == Requeued(g, T, downstream)
             reset == Reset(T, downstream)
         IN  /\ h \in LoopStates
             /\ h.node = [n \in Nodes |-> IF n \in T THEN "ready"
                                          ELSE IF n \in reset THEN "pending" ELSE g.node[n]]
             /\ h.edge = [e \in Edges |-> IF e[1] \in reset THEN "pending" ELSE g.edge[e]]
             /\ h.active = [n \in Nodes |-> IF n \in reset THEN 0 ELSE g.active[n]]
             /\ h.result = [n \in Nodes |-> IF n \in reset THEN 0 ELSE g.result[n]]
             /\ h.seq = g.seq /\ h.status = "running"
<1> DEFINE h == Requeued(g, T, downstream)
           reset == Reset(T, downstream)
           node == [n \in Nodes |-> IF n \in T THEN "ready"
                                    ELSE IF n \in reset THEN "pending" ELSE g.node[n]]
           edge == [e \in Edges |-> IF e[1] \in reset THEN "pending" ELSE g.edge[e]]
           active == [n \in Nodes |-> IF n \in reset THEN 0 ELSE g.active[n]]
           result == [n \in Nodes |-> IF n \in reset THEN 0 ELSE g.result[n]]
<1>1. /\ node \in [Nodes -> NodeStatuses] /\ active \in [Nodes -> Nat]
      /\ result \in [Nodes -> Nat]
      /\ edge \in [Edges -> {"pending", "ready", "source_failed"}]
  BY DEF LoopStates, NodeStatuses
<1>2. h = [g EXCEPT !.node = node, !.edge = edge, !.active = active,
                    !.result = result, !.status = "running"]
  BY DEF Requeued
<1> HIDE DEF h, node, edge, active, result
<1>3. /\ h \in LoopStates
      /\ h.node = node /\ h.edge = edge /\ h.active = active
      /\ h.result = result /\ h.seq = g.seq /\ h.status = "running"
  BY <1>1, <1>2 DEF LoopStates
<1> QED BY <1>3 DEF h, node, edge, active, result

\* What is known of the nodes T once they were requeued from g.
SinceAfter(g, T, downstream, since) ==
  IF downstream THEN since ELSE [n \in Nodes |-> IF n \in T THEN g.seq ELSE since[n]]

\* A reset of T either takes all that depends on a node with it, or the nodes
\* are known to be requeued alone.
ResetFits(g, since, T, reset, now) ==
  /\ T \subseteq reset /\ reset \subseteq Nodes
  /\ SinceFits(g, now)
  /\ \A n \in Nodes : since[n] <= now[n]
  /\ \A n \in Nodes \ T : now[n] = since[n]
  /\ \/ now = since /\ \A e \in Edges : e[1] \in reset => e[2] \in reset
     \/ reset = T /\ \A n \in T : now[n] = g.seq

LEMMA ResetIs ==
  ASSUME NEW g, NEW since, Consistent(g, since),
         NEW T \in SUBSET Nodes, NEW downstream \in BOOLEAN
  PROVE  ResetFits(g, since, T, Reset(T, downstream), SinceAfter(g, T, downstream, since))
<1>1. /\ g.seq \in Nat /\ since \in [Nodes -> Nat] /\ \A n \in Nodes : since[n] <= g.seq
  BY DEF Consistent, SinceFits, LoopStates
<1>2. CASE downstream
  BY <1>1, <1>2, DownstreamIs DEF ResetFits, Reset, SinceAfter, SinceFits
<1>3. CASE ~downstream
  BY <1>1, <1>3 DEF ResetFits, Reset, SinceAfter, SinceFits
<1> QED BY <1>2, <1>3

LEMMA RequeuedKeeps ==
  ASSUME NEW g, NEW since, Consistent(g, since),
         NEW T \in SUBSET Nodes, NEW downstream \in BOOLEAN
  PROVE  LET h == Requeued(g, T, downstream)
             now == SinceAfter(g, T, downstream, since)
         IN  Consistent(h, now) /\ h.seq = g.seq /\ OrderStep(g, since, h, now)
<1> DEFINE h == Requeued(g, T, downstream)
           reset == Reset(T, downstream)
           now == SinceAfter(g, T, downstream, since)
<1>1. /\ g \in LoopStates /\ OrdersFit(g) /\ EdgesFit(g, since) /\ ResultsFit(g)
      /\ since \in [Nodes -> Nat]
  BY DEF Consistent, SinceFits
<1>2. g.seq \in Nat /\ g.active \in [Nodes -> Nat] /\ g.result \in [Nodes -> Nat]
  BY <1>1 DEF LoopStates
<1>3. ResetFits(g, since, T, reset, now)
  BY ResetIs
<1>4. /\ h \in LoopStates
      /\ h.node = [n \in Nodes |-> IF n \in T THEN "ready"
                                   ELSE IF n \in reset THEN "pending" ELSE g.node[n]]
      /\ h.edge = [e \in Edges |-> IF e[1] \in reset THEN "pending" ELSE g.edge[e]]
      /\ h.active = [n \in Nodes |-> IF n \in reset THEN 0 ELSE g.active[n]]
      /\ h.result = [n \in Nodes |-> IF n \in reset THEN 0 ELSE g.result[n]]
      /\ h.seq = g.seq
  BY <1>1, RequeuedIs
<1> HIDE DEF h, reset, now
<1>5. /\ T \subseteq reset /\ reset \subseteq Nodes
      /\ SinceFits(g, now) /\ now \in [Nodes -> Nat]
      /\ \A n \in Nodes : since[n] <= now[n]
      /\ \A n \in Nodes \ T : now[n] = since[n]
  BY <1>3 DEF ResetFits, SinceFits
<1>6. \/ now = since /\ \A e \in Edges : e[1] \in reset => e[2] \in reset
      \/ reset = T /\ \A n \in T : now[n] = g.seq
  BY <1>3 DEF ResetFits
<1>7. \A n \in Nodes \ reset : /\ h.node[n] = g.node[n] /\ h.active[n] = g.active[n]
                               /\ h.result[n] = g.result[n]
                               /\ OrderOf(h, n) = OrderOf(g, n)
  BY <1>5, <1>4 DEF OrderOf
<1>8. \A n \in reset : h.node[n] \in {"ready", "pending"} /\ h.active[n] = 0 /\ h.result[n] = 0
  BY <1>5, <1>4
<1>9. \A e \in Edges : h.edge[e] = "ready" => e[1] \notin reset /\ g.edge[e] = "ready"
  BY <1>4
<1>10. OrdersFit(h)
  <2> SUFFICES ASSUME NEW n \in Nodes
               PROVE  /\ h.node[n] = "running" <=> h.active[n] # 0
                      /\ h.active[n] <= h.seq /\ h.result[n] <= h.seq
    BY DEF OrdersFit
  <2>1. CASE n \in reset
    BY <2>1, <1>2, <1>4, <1>8
  <2>2. CASE n \notin reset
    BY <2>2, <1>1, <1>4, <1>7 DEF OrdersFit
  <2> QED BY <2>1, <2>2
\* What is not reset had its order before: it is outdated by what is.
<1>11. ASSUME NEW e \in Edges, e[2] \notin reset, e[1] \in reset,
              g.node[e[2]] \in {"running", "completed"}
       PROVE  OrderOf(g, e[2]) <= now[e[1]]
  <2>1. now[e[1]] = g.seq
    BY <1>6, <1>11
  <2>2. OrderOf(g, e[2]) <= g.seq
    BY <1>1, EdgeEnds DEF OrderOf, OrdersFit
  <2> QED BY <2>1, <2>2
<1>12. EdgesFit(h, now)
  <2> SUFFICES ASSUME NEW e \in Edges
               PROVE  /\ h.edge[e] = "ready" => h.node[e[1]] = "completed"
                      /\ h.node[e[2]] \in {"running", "completed"} =>
                           \/ OrderOf(h, e[2]) <= now[e[1]]
                           \/ h.node[e[1]] = "completed" /\ h.result[e[1]] < OrderOf(h, e[2])
    BY DEF EdgesFit
  <2>0. e[1] \in Nodes /\ e[2] \in Nodes
    BY EdgeEnds
  <2>1. /\ g.edge[e] = "ready" => g.node[e[1]] = "completed"
        /\ g.node[e[2]] \in {"running", "completed"} =>
             \/ OrderOf(g, e[2]) <= since[e[1]]
             \/ g.node[e[1]] = "completed" /\ g.result[e[1]] < OrderOf(g, e[2])
    BY <1>1 DEF EdgesFit
  <2>2. h.edge[e] = "ready" => h.node[e[1]] = "completed"
    BY <2>0, <2>1, <1>7, <1>9
  <2>3. CASE e[2] \in reset
    BY <2>2, <2>3, <1>8
  <2>4. CASE e[2] \notin reset /\ e[1] \in reset
    BY <2>0, <2>2, <2>4, <1>7, <1>11
  <2>5. CASE e[2] \notin reset /\ e[1] \notin reset
    <3>1. now[e[1]] = since[e[1]]
      BY <2>0, <2>5, <1>5
    <3> QED BY <3>1, <2>0, <2>1, <2>2, <2>5, <1>7
  <2> QED BY <2>3, <2>4, <2>5
<1>13. ResultsFit(h) /\ SinceFits(h, now)
  BY <1>1, <1>5, <1>4, <1>7, <1>8 DEF ResultsFit, SinceFits
<1>14. StageOf(h) = [n \in Nodes |-> IF n \in reset THEN "todo" ELSE StageOf(g)[n]]
  BY <1>7, <1>8 DEF StageOf
<1>15. ASSUME NEW e \in Edges
       PROVE  e \in OutdatedIn(h, now) <=> /\ OrderOf(g, e[2]) <= now[e[1]]
                                           /\ StageOf(h)[e[2]] # "todo"
  <2>0. e[1] \in Nodes /\ e[2] \in Nodes
    BY EdgeEnds
  <2>1. StageOf(h)[e[2]] # "todo" <=> h.node[e[2]] \in {"running", "completed"}
    BY <2>0 DEF StageOf
  <2>2. CASE e[2] \in reset
    BY <2>1, <2>2, <1>8 DEF OutdatedIn
  <2>3. CASE e[2] \notin reset
    BY <2>0, <2>1, <2>3, <1>7 DEF OutdatedIn
  <2> QED BY <2>2, <2>3
<1>16. ASSUME NEW e \in Edges, StageOf(h)[e[2]] # "todo"
       PROVE  e[2] \notin reset /\ g.node[e[2]] \in {"running", "completed"}
  <2>0. e[2] \in Nodes
    BY EdgeEnds
  <2>1. h.node[e[2]] \in {"running", "completed"}
    BY <2>0, <1>16 DEF StageOf
  <2> QED BY <2>0, <2>1, <1>7, <1>8
<1>17. ASSUME now = since /\ \A e \in Edges : e[1] \in reset => e[2] \in reset
       PROVE  OrderStep(g, since, h, now)
  <2>1. \A m \in reset, n \in Nodes : <<m, n>> \in Edges => n \in reset
    BY <1>17
  <2>2. OutdatedIn(h, now) = Order!Left(OutdatedIn(g, since), StageOf(h))
    BY <1>15, <1>16, <1>17 DEF OutdatedIn, Order!Left
  <2>3. reset \in SUBSET Nodes
    BY <1>5
  <2> QED BY <2>1, <2>2, <2>3, <1>14 DEF OrderStep
<1>18. ASSUME reset = T /\ \A n \in T : now[n] = g.seq
       PROVE  OrderStep(g, since, h, now)
  <2>1. ASSUME NEW e \in Edges, StageOf(h)[e[2]] # "todo"
        PROVE  OrderOf(g, e[2]) <= now[e[1]]
                 <=> e \in OutdatedIn(g, since) \/ e[1] \in reset
    <3>0. e[1] \in Nodes /\ e[2] \in Nodes
      BY EdgeEnds
    <3>1. e[2] \notin reset /\ g.node[e[2]] \in {"running", "completed"}
      BY <2>1, <1>16
    <3>2. CASE e[1] \in reset
      BY <3>1, <3>2, <1>11
    <3>3. CASE e[1] \notin reset
      BY <3>0, <3>1, <3>3, <1>5 DEF OutdatedIn
    <3> QED BY <3>2, <3>3
  <2>2. OutdatedIn(h, now) =
          Order!Left(OutdatedIn(g, since) \cup {e \in Edges : e[1] \in reset}, StageOf(h))
    <3> SUFFICES ASSUME NEW e \in Edges
                 PROVE  e \in OutdatedIn(h, now)
                          <=> /\ e \in OutdatedIn(g, since) \/ e[1] \in reset
                              /\ StageOf(h)[e[2]] # "todo"
      BY DEF OutdatedIn, Order!Left
    <3> QED BY <2>1, <1>15
  <2>3. reset \in SUBSET Nodes
    BY <1>5
  <2> QED BY <2>2, <2>3, <1>14 DEF OrderStep
<1>19. OrderStep(g, since, h, now)
  BY <1>6, <1>17, <1>18
<1> QED BY <1>4, <1>10, <1>12, <1>13, <1>19 DEF Consistent, h, now

LEMMA ReplayedIs ==
  ASSUME NEW g \in LoopStates, NEW T \in SUBSET Nodes, NEW forget \in BOOLEAN,
         NEW h, h = Replayed(g, T, forget)
  PROVE  /\ h \in LoopStates
         /\ h.node = [n \in Nodes |-> IF n \in T THEN "ready" ELSE g.node[n]]
         /\ h.edge = FailedEdgesReset(g, T)
         /\ h.active = [n \in Nodes |-> IF n \in T THEN 0 ELSE g.active[n]]
         /\ h.result = [n \in Nodes |-> IF forget /\ n \in T THEN 0 ELSE g.result[n]]
         /\ h.seq = g.seq /\ h.status = "running"
<1> DEFINE node == [n \in Nodes |-> IF n \in T THEN "ready" ELSE g.node[n]]
           edge == FailedEdgesReset(g, T)
           active == [n \in Nodes |-> IF n \in T THEN 0 ELSE g.active[n]]
           result == [n \in Nodes |-> IF forget /\ n \in T THEN 0 ELSE g.result[n]]
<1>1. /\ node \in [Nodes -> NodeStatuses] /\ active \in [Nodes -> Nat]
      /\ result \in [Nodes -> Nat]
      /\ edge \in [Edges -> {"pending", "ready", "source_failed"}]
  BY DEF LoopStates, NodeStatuses, FailedEdgesReset
<1>2. h = [g EXCEPT !.node = node, !.edge = edge, !.active = active,
                    !.result = result, !.status = "running"]
  BY DEF Replayed
<1> HIDE DEF node, edge, active, result
<1>3. /\ h \in LoopStates
      /\ h.node = node /\ h.edge = edge /\ h.active = active
      /\ h.result = result /\ h.seq = g.seq /\ h.status = "running"
  BY <1>1, <1>2 DEF LoopStates
<1> QED BY <1>3 DEF node, edge, active, result

LEMMA ReplayedKeeps ==
  ASSUME NEW g, NEW since, Consistent(g, since),
         NEW T \in SUBSET With(g, Failed \cup Blocked), NEW forget \in BOOLEAN
  PROVE  LET h == Replayed(g, T, forget) IN Consistent(h, since) /\ Begins(g, h, since)
<1> DEFINE h == Replayed(g, T, forget)
<1>1. g \in LoopStates /\ T \in SUBSET Nodes
  BY DEF Consistent, With
<1>2. h = Replayed(g, T, forget)
  OBVIOUS
<1> HIDE DEF h
<1>4. /\ h \in LoopStates
      /\ h.node = [n \in Nodes |-> IF n \in T THEN "ready" ELSE g.node[n]]
      /\ h.edge = FailedEdgesReset(g, T)
      /\ h.active = [n \in Nodes |-> IF n \in T THEN 0 ELSE g.active[n]]
      /\ h.result = [n \in Nodes |-> IF forget /\ n \in T THEN 0 ELSE g.result[n]]
      /\ h.seq = g.seq
  BY <1>1, <1>2, ReplayedIs
<1>5. \A n \in T : n \in Nodes /\ g.node[n] \in Failed \cup Blocked
  BY DEF With
<1>6. \A n \in Nodes :
        \/ h.node[n] = g.node[n] /\ h.active[n] = g.active[n] /\ h.result[n] = g.result[n]
        \/ /\ g.node[n] \notin {"running", "completed"}
           /\ h.node[n] \notin {"running", "completed"}
           /\ h.active[n] = 0
           /\ h.result[n] \in {0, g.result[n]}
  BY <1>4, <1>5 DEF Failed, Blocked
<1>7. \A e \in Edges : h.edge[e] = "ready" => g.edge[e] = "ready"
  BY <1>4 DEF FailedEdgesReset
<1>8. Consistent(h, since) /\ Begins(g, h, since)
  BY <1>4, <1>6, <1>7, AtRestKeeps
<1> QED BY <1>8 DEF h

LEMMA ReconnectedKeeps ==
  ASSUME NEW g, NEW since, Consistent(g, since), NEW T \in SUBSET Nodes
  PROVE  LET h == [g EXCEPT !.edge = FailedEdgesReset(g, T), !.status = "running"]
         IN  Consistent(h, since) /\ Begins(g, h, since)
<1> DEFINE edge == FailedEdgesReset(g, T)
           h == [g EXCEPT !.edge = edge, !.status = "running"]
<1>1. g \in LoopStates /\ edge \in [Edges -> {"pending", "ready", "source_failed"}]
  BY DEF Consistent, LoopStates, FailedEdgesReset
<1>2. /\ h \in LoopStates
      /\ h.node = g.node /\ h.edge = edge /\ h.active = g.active
      /\ h.result = g.result /\ h.seq = g.seq
  <2> HIDE DEF edge
  <2> QED BY <1>1 DEF LoopStates
<1>3. \A e \in Edges : h.edge[e] = "ready" => g.edge[e] = "ready"
  BY <1>2 DEF FailedEdgesReset
<1> HIDE DEF h
<1>4. Consistent(h, since) /\ Begins(g, h, since)
  BY <1>2, <1>3, AtRestKeeps
<1> QED BY <1>4 DEF h

LEMMA ResumedKeeps ==
  ASSUME NEW g, NEW since, Consistent(g, since), NEW h \in Resumed(g)
  PROVE  Consistent(h, since) /\ Begins(g, h, since)
<1>1. CASE Replayable(g) # {}
  <2> DEFINE again == Replayed(g, Replayable(g), g.status = "failed")
  <2>1. Replayable(g) \subseteq With(g, Failed \cup Blocked)
    BY DEF Replayable, With, Failed, Blocked
  <2>2. Consistent(again, since) /\ Begins(g, again, since)
    BY <2>1, ReplayedKeeps
  <2>3. h \in Dispatches(again)
    BY <1>1 DEF Resumed
  <2> HIDE DEF again
  <2>4. Consistent(h, since) /\ Begins(again, h, since)
    BY <2>2, <2>3, DispatchesKeep
  <2> QED BY <2>2, <2>4, BeginsTwice DEF Consistent
<1>2. CASE h = g
  BY <1>2, SameStages DEF Consistent
<1>3. CASE h = [g EXCEPT !.edge = FailedEdgesReset(g, Active(g)), !.status = "running"]
  BY <1>3, ReconnectedKeeps DEF Active, Consistent
<1>4. CASE h \in Dispatches(g)
  BY <1>4, DispatchesKeep
<1> QED BY <1>1, <1>2, <1>3, <1>4 DEF Resumed

-----------------------------------------------------------------------------
(* Executions.                                                             *)

WorkRecords == [node : Nodes, order : Nat, by : {"supervisor", "client"},
                pc : {"spawned", "executing"}, left : 0 .. Budget]

\* The executions are of orders that were issued, each with one task.
TasksFit(g, tasks) ==
  /\ tasks \subseteq WorkRecords
  /\ \A w \in tasks : 0 < w.order /\ w.order <= g.seq
  /\ \A v, w \in Tasks(tasks) : v.node = w.node /\ v.order = w.order => v = w

LEMMA FewerTasksFit ==
  ASSUME NEW g, NEW tasks, TasksFit(g, tasks), NEW some \in SUBSET tasks
  PROVE  TasksFit(g, some)
  BY DEF TasksFit, Tasks

LEMMA TasksStillFit ==
  ASSUME NEW g \in LoopStates, NEW h \in LoopStates, g.seq <= h.seq,
         NEW tasks, TasksFit(g, tasks)
  PROVE  TasksFit(h, tasks)
<1>1. g.seq \in Nat /\ h.seq \in Nat
  BY DEF LoopStates
<1>2. ASSUME NEW w \in tasks PROVE 0 < w.order /\ w.order <= h.seq
  <2>1. w.order \in Nat /\ 0 < w.order /\ w.order <= g.seq
    BY DEF TasksFit, WorkRecords
  <2> QED BY <1>1, <2>1
<1> QED BY <1>2 DEF TasksFit

LEMMA SpawnedFit ==
  ASSUME NEW g, NEW since, Consistent(g, since), NEW tasks, TasksFit(g, tasks),
         NEW S \in SUBSET Active(g), NEW left \in 0 .. Budget, left = 0 => S = {}
  PROVE  TasksFit(g, tasks \cup Spawned(g, tasks, S, left))
<1> DEFINE new == Spawned(g, tasks, S, left)
<1>1. ASSUME NEW w \in new
      PROVE  /\ w \in WorkRecords /\ 0 < w.order /\ w.order <= g.seq
             /\ w.by = "supervisor" /\ w.order = g.active[w.node]
             /\ ~TaskRunning(tasks, w.node, w.order)
             /\ w = [node |-> w.node, order |-> g.active[w.node], by |-> "supervisor",
                     pc |-> "spawned", left |-> left - 1]
  <2>1. PICK n \in S : /\ ~TaskRunning(tasks, n, g.active[n])
                       /\ w = [node |-> n, order |-> g.active[n], by |-> "supervisor",
                               pc |-> "spawned", left |-> left - 1]
    BY DEF Spawned
  <2>2. n \in Nodes /\ g.active[n] # 0 /\ g.active[n] \in Nat /\ g.active[n] <= g.seq
    BY DEF Active, Consistent, LoopStates, OrdersFit
  <2>3. left - 1 \in 0 .. Budget
    <3>1. left \in 1 .. Budget
      <4>1. left # 0
        BY <2>1
      <4> QED BY <4>1, GraphBounds
    <3> QED BY <3>1, GraphBounds
  <2> QED BY <2>1, <2>2, <2>3 DEF WorkRecords
<1>2. \A v, w \in Tasks(tasks) : v.node = w.node /\ v.order = w.order => v = w
  BY DEF TasksFit
<1>3. ASSUME NEW v \in Tasks(tasks), NEW w \in new
      PROVE  ~(v.node = w.node /\ v.order = w.order)
  BY <1>1 DEF TaskRunning, Tasks
<1>4. ASSUME NEW v \in new, NEW w \in new, v.node = w.node PROVE v = w
  BY <1>1, <1>4
<1>5. Tasks(tasks \cup new) \subseteq Tasks(tasks) \cup new
  BY DEF Tasks
<1>6. \A v, w \in Tasks(tasks \cup new) : v.node = w.node /\ v.order = w.order => v = w
  BY <1>2, <1>3, <1>4, <1>5
<1> HIDE DEF new
<1>7. /\ tasks \cup new \subseteq WorkRecords
      /\ \A w \in tasks \cup new : 0 < w.order /\ w.order <= g.seq
  BY <1>1 DEF TasksFit
<1>8. TasksFit(g, tasks \cup new)
  BY <1>6, <1>7 DEF TasksFit
<1> QED BY <1>8 DEF new

LEMMA SubmittableIsNone ==
  ASSUME NEW g, NEW S \in Submittable(g, 0)
  PROVE  S = {}
<1>1. S \subseteq Nodes /\ IsFiniteSet(S) /\ IsFiniteSet(Active(g))
  BY GraphShape, FS_Subset DEF Submittable, Active
<1>2. Cardinality(S) = 0
  BY <1>1, FS_CardinalityType DEF Submittable
<1> QED BY <1>1, <1>2, FS_EmptySet

\* What a submission and a follow-up lead to.
Fits(g, o, since) == /\ Consistent(o.graph, since) /\ Begins(g, o.graph, since)
                     /\ TasksFit(o.graph, o.work)
                     /\ o.root \in RootRecords /\ o.driven \in BOOLEAN

IsOutcome(o) == \E g, r, t : \E d \in BOOLEAN : o = Outcome(g, r, t, d)

LEMMA SubmittedOutcome ==
  ASSUME NEW g, NEW r, NEW tasks, NEW left, NEW on \in BOOLEAN,
         NEW o \in Submitted(g, r, tasks, left, on)
  PROVE  IsOutcome(o)
<1>1. CASE AtBoundary(r)
  BY <1>1 DEF Submitted, IsOutcome
<1>2. CASE ~AtBoundary(r)
  <2> DEFINE Of(h) == {Outcome(h, r, tasks \cup Spawned(h, tasks, S, left), on /\ S = Active(h)) :
                         S \in Submittable(h, left)}
  <2>1. PICK h \in Resumed(g) : o \in Of(h)
    <3>1. o \in UNION {Of(h) : h \in Resumed(g)}
      BY <1>2 DEF Submitted
    <3> HIDE DEF Of
    <3> QED BY <3>1
  <2>2. PICK S \in Submittable(h, left) :
          o = Outcome(h, r, tasks \cup Spawned(h, tasks, S, left), on /\ S = Active(h))
    BY <2>1
  <2>3. (on /\ S = Active(h)) \in BOOLEAN
    OBVIOUS
  <2> HIDE DEF Of
  <2> QED BY <2>2, <2>3 DEF IsOutcome
<1> QED BY <1>1, <1>2

LEMMA SubmittedFits ==
  ASSUME NEW g, NEW since, Consistent(g, since), NEW r \in RootRecords, NEW tasks, TasksFit(g, tasks),
         NEW left \in 0 .. Budget, NEW on \in BOOLEAN, NEW o \in Submitted(g, r, tasks, left, on)
  PROVE  Fits(g, o, since)
<1>0. MarkedPaused(r) \in RootRecords
  BY DEF MarkedPaused, RootRecords
<1>1. CASE AtBoundary(r)
  <2>1. o = Outcome(g, MarkedPaused(r), tasks, FALSE)
    BY <1>1 DEF Submitted
  <2>2. Begins(g, g, since)
    BY SameStages DEF Consistent
  <2> QED BY <1>0, <2>1, <2>2 DEF Fits, Outcome
<1>2. CASE ~AtBoundary(r)
  <2> DEFINE Of(h) == {Outcome(h, r, tasks \cup Spawned(h, tasks, S, left), on /\ S = Active(h)) :
                         S \in Submittable(h, left)}
  <2>0. PICK h \in Resumed(g) : o \in Of(h)
    <3>1. o \in UNION {Of(h) : h \in Resumed(g)}
      BY <1>2 DEF Submitted
    <3> HIDE DEF Of
    <3> QED BY <3>1
  <2>1. PICK S \in Submittable(h, left) :
          o = Outcome(h, r, tasks \cup Spawned(h, tasks, S, left), on /\ S = Active(h))
    BY <2>0
  <2> HIDE DEF Of
  <2>2. Consistent(h, since) /\ Begins(g, h, since)
    BY ResumedKeeps
  <2>3. TasksFit(h, tasks)
    BY <2>2, TasksStillFit DEF Consistent, Begins
  <2>4. S \subseteq Active(h) /\ (left = 0 => S = {})
    BY SubmittableIsNone DEF Submittable
  <2>5. TasksFit(h, tasks \cup Spawned(h, tasks, S, left))
    BY <2>2, <2>3, <2>4, SpawnedFit
  <2> QED BY <2>1, <2>2, <2>5 DEF Fits, Outcome
<1> QED BY <1>1, <1>2

LEMMA FollowedUpFits ==
  ASSUME NEW g, NEW since, Consistent(g, since), NEW r \in RootRecords, NEW tasks, TasksFit(g, tasks),
         NEW left \in 0 .. Budget, NEW on \in BOOLEAN, NEW o \in FollowedUp(g, r, tasks, left, on)
  PROVE  Fits(g, o, since)
<1>0. MarkedPaused(r) \in RootRecords /\ Begins(g, g, since)
  BY SameStages DEF MarkedPaused, RootRecords, Consistent
<1>1. CASE o = Outcome(g, r, tasks, FALSE) \/ o = Outcome(g, r, tasks, on)
  <2>1. PICK d \in BOOLEAN : o = Outcome(g, r, tasks, d)
    BY <1>1
  <2>2. o.graph = g /\ o.root = r /\ o.work = tasks /\ o.driven = d
    BY <2>1 DEF Outcome
  <2> QED BY <1>0, <2>2 DEF Fits
<1>2. CASE o = Outcome(g, MarkedPaused(r), tasks, FALSE)
  BY <1>0, <1>2 DEF Fits, Outcome
<1>3. CASE o \in Submitted(g, r, tasks, left, on)
  BY <1>3, SubmittedFits
<1> QED BY <1>1, <1>2, <1>3 DEF FollowedUp

-----------------------------------------------------------------------------
(* The invariant and the steps.                                            *)

Inv == /\ Consistent(graph, alone) /\ graph.seq <= MaxDispatches
       /\ TasksFit(graph, work)
       /\ root \in RootRecords /\ driven \in BOOLEAN
       /\ count \in [requests : 0 .. MaxRequests, crashes : 0 .. MaxCrashes]

LEMMA OrderStepIs ==
  ASSUME OrderStep(graph, alone, graph', alone')
  PROVE  Order!Next
<1>1. CASE Begins(graph, graph', alone) /\ alone' = alone
  BY <1>1 DEF Begins, Outdated, Order!Next, Order!Begin
<1>2. ASSUME NEW n \in Nodes, NEW end \in {"done", "todo"}, NEW S \in SUBSET Nodes,
             LET ended == [StageOf(graph) EXCEPT ![n] = end]
             IN  /\ StageOf(graph)[n] = "doing"
                 /\ Order!MayBegin(ended, S)
                 /\ StageOf(graph') = Order!Begun(ended, S)
                 /\ OutdatedIn(graph', alone') = Order!Left(OutdatedIn(graph, alone), ended)
      PROVE  Order!Next
  BY <1>2 DEF Outdated, Order!Next, Order!Advance
<1>3. ASSUME NEW S \in SUBSET Nodes,
             StageOf(graph') = [n \in Nodes |-> IF n \in S THEN "todo" ELSE StageOf(graph)[n]]
      PROVE  /\ /\ \A m \in S, n \in Nodes : <<m, n>> \in Edges => n \in S
                /\ OutdatedIn(graph', alone')
                     = Order!Left(OutdatedIn(graph, alone), StageOf(graph'))
                => Order!Next
             /\ OutdatedIn(graph', alone')
                  = Order!Left(OutdatedIn(graph, alone) \cup {e \in Edges : e[1] \in S},
                               StageOf(graph'))
                => Order!Next
  BY <1>3 DEF Outdated, Order!Next, Order!Redo, Order!RedoAlone, Order!Undone
<1> QED BY <1>1, <1>2, <1>3 DEF OrderStep

\* Accepting a result: a node ends and others begin.
LEMMA AcceptedKeeps ==
  ASSUME NEW g, NEW since, Consistent(g, since), NEW n \in Nodes, NEW order,
         Accepts(g, n, order), NEW outcome \in Outcomes,
         NEW h \in Accepted(g, n, order, outcome),
         NEW k, Consistent(k, since), Begins(h, k, since)
  PROVE  Consistent(h, since) /\ g.seq <= h.seq /\ OrderStep(g, since, k, since)
<1> DEFINE ended == Recorded(g, n, order, outcome)
           end == IF outcome = "completed" THEN "done" ELSE "todo"
<1>1. /\ Consistent(ended, since) /\ ended.seq = g.seq
      /\ StageOf(g)[n] = "doing"
      /\ StageOf(ended) = [StageOf(g) EXCEPT ![n] = end]
      /\ OutdatedIn(ended, since) = Order!Left(OutdatedIn(g, since), StageOf(ended))
  BY RecordedKeeps
<1>2. h = ended \/ h \in Dispatches(ended)
  BY DEF Accepted
<1> HIDE DEF ended
<1>3. Consistent(h, since) /\ Begins(ended, h, since)
  BY <1>1, <1>2, DispatchesKeep, SameStages DEF Consistent
<1>4. Begins(ended, k, since)
  BY <1>1, <1>3, BeginsTwice DEF Consistent
<1>5. OrderStep(g, since, k, since)
  <2>1. PICK S \in SUBSET Nodes : /\ Order!MayBegin(StageOf(ended), S)
                                  /\ StageOf(k) = Order!Begun(StageOf(ended), S)
    BY <1>4 DEF Begins
  <2>2. OutdatedIn(k, since) = Order!Left(OutdatedIn(g, since), StageOf(ended))
    BY <1>1, <1>4 DEF Begins
  <2>3. end \in {"done", "todo"}
    OBVIOUS
  <2> HIDE DEF end
  <2> QED BY <1>1, <2>1, <2>2, <2>3 DEF OrderStep
<1> QED BY <1>1, <1>3, <1>5 DEF Begins

\* The requests and restarts stay within their bounds.
LEMMA CountersFit ==
  ASSUME Inv, Request \/ UNCHANGED count \/ (\E g : Crash(g))
  PROVE  count' \in [requests : 0 .. MaxRequests, crashes : 0 .. MaxCrashes]
<1>1. /\ count.requests \in 0 .. MaxRequests /\ count.crashes \in 0 .. MaxCrashes
      /\ count \in [requests : 0 .. MaxRequests, crashes : 0 .. MaxCrashes]
  BY DEF Inv
<1>2. CASE Request
  <2>1. count.requests + 1 \in 0 .. MaxRequests
    BY <1>1, <1>2, GraphBounds DEF Request
  <2> QED BY <1>1, <1>2, <2>1 DEF Request
<1>3. CASE \E g : Crash(g)
  <2>1. count.crashes + 1 \in 0 .. MaxCrashes
    BY <1>1, <1>3, GraphBounds DEF Crash
  <2>2. count' = [count EXCEPT !.crashes = @ + 1]
    BY <1>3 DEF Crash
  <2> QED BY <1>1, <2>1, <2>2
<1> QED BY <1>1, <1>2, <1>3

LEMMA InitInv == Init => Inv /\ Order!Init
<1> SUFFICES ASSUME Init PROVE Inv /\ Order!Init
  OBVIOUS
<1>1. graph \in LoopStates /\ graph.seq = 0 /\ graph.seq <= MaxDispatches
  BY GraphBounds DEF Init, LoopStates, NodeStatuses
<1>2. /\ \A n \in Nodes : /\ graph.node[n] \in {"pending", "ready"}
                          /\ graph.active[n] = 0 /\ graph.result[n] = 0
      /\ \A e \in Edges : graph.edge[e] = "pending"
  BY DEF Init
<1>3. Consistent(graph, alone)
  <2>1. OrdersFit(graph) /\ EdgesFit(graph, alone) /\ ResultsFit(graph)
    BY <1>1, <1>2, EdgeEnds DEF OrdersFit, EdgesFit, ResultsFit
  <2>2. SinceFits(graph, alone)
    BY <1>1 DEF Init, SinceFits
  <2> QED BY <1>1, <2>1, <2>2 DEF Consistent
<1>4. TasksFit(graph, work)
  BY DEF Init, TasksFit, Tasks
<1>5. /\ root \in RootRecords /\ driven \in BOOLEAN
      /\ count \in [requests : 0 .. MaxRequests, crashes : 0 .. MaxCrashes]
  <2>1. 0 \in 0 .. MaxRequests /\ 0 \in 0 .. MaxCrashes
    BY GraphBounds
  <2>2. /\ root = [status |-> "running", ctl |-> "running"]
        /\ driven = FALSE
        /\ count = [requests |-> 0, crashes |-> 0]
    BY DEF Init
  <2>3. root \in RootRecords
    BY <2>2 DEF RootRecords
  <2> QED BY <2>1, <2>2, <2>3
<1>6. Order!Init
  <2>1. Outdated = {}
    BY <1>2, EdgeEnds DEF Outdated, OutdatedIn
  <2> QED BY <1>2, <2>1 DEF Order!Init, StageOf
<1> QED BY <1>1, <1>3, <1>4, <1>5, <1>6 DEF Inv

\* Every step keeps the invariant and is one of DependencyOrder.
LEMMA Step ==
  ASSUME Inv, [Next]_vars
  PROVE  /\ Inv'
         /\ \/ OrderStep(graph, alone, graph', alone')
            \/ graph' = graph /\ alone' = alone
<1>0. /\ Consistent(graph, alone) /\ graph \in LoopStates /\ TasksFit(graph, work)
      /\ root \in RootRecords /\ driven \in BOOLEAN
      /\ work \subseteq WorkRecords
      /\ Begins(graph, graph, alone)
  BY SameStages DEF Inv, Consistent, TasksFit
<1>1. MarkedPaused(root) \in RootRecords
  BY DEF MarkedPaused, RootRecords
<1>2. CASE Submit
  <2>1. PICK o \in Submitted(graph, root, work, Budget, TRUE) :
          Becomes([o EXCEPT !.driven = @ /\ Tasks(o.work) # {}])
    BY <1>2 DEF Submit
  <2>2. Fits(graph, o, alone)
    <3>1. Budget \in 0 .. Budget /\ TRUE \in BOOLEAN
      BY GraphBounds
    <3> QED BY <1>0, <2>1, <3>1, SubmittedFits
  <2>3. IsOutcome(o)
    BY <2>1, SubmittedOutcome
  <2>4. /\ graph' = o.graph /\ root' = o.root /\ work' = o.work
        /\ driven' \in BOOLEAN /\ graph'.seq <= MaxDispatches /\ alone' = alone
    BY <2>1, <2>3 DEF Becomes, Turns, Outcome, IsOutcome
  <2>5. count' \in [requests : 0 .. MaxRequests, crashes : 0 .. MaxCrashes]
    BY <1>2, CountersFit DEF Submit
  <2> QED BY <2>2, <2>4, <2>5 DEF Fits, Inv, OrderStep
<1>3. CASE DispatchReady
  <2>1. PICK g \in Dispatches(graph) : Becomes(Outcome(g, root, work, FALSE))
    BY <1>3 DEF DispatchReady
  <2>2. Consistent(g, alone) /\ Begins(graph, g, alone)
    BY <1>0, DispatchesKeep
  <2>3. TasksFit(g, work)
    BY <1>0, <2>2, TasksStillFit DEF Consistent, Begins
  <2>4. count' \in [requests : 0 .. MaxRequests, crashes : 0 .. MaxCrashes]
    BY <1>3, CountersFit DEF DispatchReady
  <2> QED BY <1>0, <2>1, <2>2, <2>3, <2>4 DEF Becomes, Turns, Outcome, Inv, OrderStep
<1>4. ASSUME NEW n \in Nodes, NEW downstream \in BOOLEAN, RequeueNodes({n}, downstream)
      PROVE  Inv' /\ OrderStep(graph, alone, graph', alone')
  <2> DEFINE h == Requeued(graph, {n}, downstream)
             now == SinceAfter(graph, {n}, downstream, alone)
  <2>0. {n} \in SUBSET Nodes
    OBVIOUS
  <2>1. Consistent(h, now) /\ h.seq = graph.seq /\ OrderStep(graph, alone, h, now)
    BY <1>0, <2>0, RequeuedKeeps
  <2>2. graph.seq <= h.seq
    BY <1>0, <2>1 DEF LoopStates
  <2>3. TasksFit(h, work)
    BY <1>0, <2>1, <2>2, TasksStillFit DEF Consistent
  <2>4. [root EXCEPT !.status = "running"] \in RootRecords
    BY <1>0 DEF RootRecords
  <2>5. /\ Turns(Outcome(h, [root EXCEPT !.status = "running"], work, FALSE))
        /\ alone' = now
    BY <1>4 DEF RequeueNodes, Requeues, SinceAfter
  <2>6. count' \in [requests : 0 .. MaxRequests, crashes : 0 .. MaxCrashes]
    BY <1>4, CountersFit DEF RequeueNodes
  <2> HIDE DEF h, now
  <2>7. graph' = h /\ Inv'
    BY <2>1, <2>3, <2>4, <2>5, <2>6 DEF Turns, Outcome, Inv
  <2> QED BY <2>1, <2>5, <2>7
<1>5. ASSUME NEW n \in Nodes, ClientExecutes(n)
      PROVE  Inv' /\ graph' = graph /\ alone' = alone
  <2> DEFINE w == [node |-> n, order |-> graph.active[n], by |-> "client",
                   pc |-> "executing", left |-> 0]
  <2>1. /\ work' = work \cup {w} /\ graph' = graph /\ root' = root /\ driven' = driven
        /\ graph.active[n] # 0 /\ alone' = alone
    BY <1>5 DEF ClientExecutes
  <2>2. graph.active[n] \in Nat /\ graph.active[n] <= graph.seq /\ graph.seq \in Nat
    BY <1>0 DEF LoopStates, Consistent, OrdersFit
  <2>3. w \in WorkRecords /\ w.by = "client" /\ 0 < w.order /\ w.order <= graph.seq
    BY <2>1, <2>2, GraphBounds DEF WorkRecords
  <2> HIDE DEF w
  <2>4. TasksFit(graph, work \cup {w})
    BY <1>0, <2>3 DEF TasksFit, Tasks
  <2>5. count' \in [requests : 0 .. MaxRequests, crashes : 0 .. MaxCrashes]
    BY <1>5, CountersFit DEF ClientExecutes
  <2> QED BY <1>0, <2>1, <2>4, <2>5 DEF Inv
<1>6. ASSUME Pause \/ Resume
      PROVE  Inv' /\ graph' = graph /\ alone' = alone
  <2>1. root' \in RootRecords /\ UNCHANGED <<graph, work, driven, alone>>
    BY <1>0, <1>1, <1>6 DEF Pause, Resume, RootRecords
  <2>2. count' \in [requests : 0 .. MaxRequests, crashes : 0 .. MaxCrashes]
    BY <1>6, CountersFit DEF Pause, Resume
  <2> QED BY <1>0, <2>1, <2>2 DEF Inv
<1>7. ASSUME Restart
      PROVE  Inv' /\ graph' = graph /\ alone' = alone
  <2>1. graph' = graph /\ root' = root /\ work' = {} /\ driven' = FALSE
        /\ alone' = alone
    BY <1>7 DEF Restart, Crash, Becomes, Turns, Outcome
  <2>2. TasksFit(graph, {})
    BY <1>0, FewerTasksFit
  <2>3. count' \in [requests : 0 .. MaxRequests, crashes : 0 .. MaxCrashes]
    BY <1>7, CountersFit DEF Restart
  <2> QED BY <1>0, <2>1, <2>2, <2>3 DEF Inv
<1>8. ASSUME NEW w \in work, TaskBegins(w)
      PROVE  Inv' /\ graph' = graph /\ alone' = alone
  <2> DEFINE begun == [w EXCEPT !.pc = "executing"]
  <2>1. /\ w \in WorkRecords /\ begun \in WorkRecords
        /\ begun.node = w.node /\ begun.order = w.order /\ begun.by = w.by
    BY <1>0 DEF WorkRecords
  <2>2. count' \in [requests : 0 .. MaxRequests, crashes : 0 .. MaxCrashes]
    BY <1>8, CountersFit DEF TaskBegins
  <2>3. TasksFit(graph, work \ {w})
    BY <1>0, FewerTasksFit
  <2> HIDE DEF begun
  <2>4. TasksFit(graph, (work \ {w}) \cup {begun})
    BY <1>0, <2>1, <2>3 DEF TasksFit, Tasks
  <2>5. CASE AtBoundary(root)
    BY <1>0, <1>1, <1>8, <2>2, <2>3, <2>5 DEF TaskBegins, Becomes, Turns, Outcome, Inv
  <2>6. CASE ~AtBoundary(root)
    BY <1>0, <1>8, <2>2, <2>4, <2>6 DEF TaskBegins, Becomes, Turns, Outcome, Inv, begun
  <2> QED BY <2>5, <2>6
<1>9. ASSUME NEW w \in work, ResultRefused(w) \/ ExecutionRaises(w)
      PROVE  Inv' /\ graph' = graph /\ alone' = alone
  <2>1. /\ graph' = graph /\ root' = root /\ work' = work \ {w}
        /\ driven' \in BOOLEAN /\ count' = count /\ alone' = alone
    BY <1>9 DEF ResultRefused, ExecutionRaises, Becomes, Turns, Outcome
  <2>2. TasksFit(graph, work \ {w})
    BY <1>0, FewerTasksFit
  <2> QED BY <1>0, <2>1, <2>2 DEF Inv
<1>10. ASSUME NEW w \in work, NEW outcome \in Outcomes, NodeEnds(w, outcome)
       PROVE  Inv' /\ OrderStep(graph, alone, graph', alone')
  <2>0. w.node \in Nodes /\ w.left \in 0 .. Budget
    BY <1>0 DEF WorkRecords
  <2>1. PICK g \in Accepted(graph, w.node, w.order, outcome) :
          \E o \in IF w.by = "client" THEN {Outcome(g, RootTold(g), work \ {w}, FALSE)}
                   ELSE FollowedUp(g, RootTold(g), work \ {w}, w.left, driven) : Becomes(o)
    BY <1>10 DEF NodeEnds
  <2>2. Accepts(graph, w.node, w.order)
    BY <1>10 DEF NodeEnds
  <2>3. \A k : Consistent(k, alone) /\ Begins(g, k, alone)
                 => /\ Consistent(g, alone) /\ graph.seq <= g.seq
                    /\ OrderStep(graph, alone, k, alone)
    BY <1>0, <2>0, <2>1, <2>2, AcceptedKeeps
  <2>4. Consistent(g, alone) /\ graph.seq <= g.seq /\ Begins(g, g, alone)
    <3> DEFINE ended == Recorded(graph, w.node, w.order, outcome)
    <3>1. Consistent(ended, alone) /\ ended.seq = graph.seq
      BY <1>0, <2>0, <2>2, RecordedKeeps
    <3>2. g = ended \/ g \in Dispatches(ended)
      BY <2>1 DEF Accepted
    <3> HIDE DEF ended
    <3>3. Consistent(g, alone) /\ Begins(ended, g, alone)
      BY <3>1, <3>2, DispatchesKeep, SameStages DEF Consistent
    <3> QED BY <3>1, <3>3, SameStages DEF Begins, Consistent
  <2>5. RootTold(g) \in RootRecords
    BY <1>0, <2>4 DEF RootTold, RootRecords, Consistent, LoopStates
  <2>6. TasksFit(g, work \ {w})
    BY <1>0, <2>4, FewerTasksFit, TasksStillFit DEF Consistent
  <2>7. PICK o : Becomes(o) /\ Fits(g, o, alone)
    <3>1. CASE w.by = "client"
      <4> DEFINE o == Outcome(g, RootTold(g), work \ {w}, FALSE)
      <4>1. Becomes(o)
        BY <2>1, <3>1
      <4>2. o.graph = g /\ o.root = RootTold(g) /\ o.work = work \ {w} /\ o.driven = FALSE
        BY DEF Outcome
      <4> HIDE DEF o
      <4> QED BY <2>4, <2>5, <2>6, <4>1, <4>2 DEF Fits
    <3>2. CASE w.by # "client"
      BY <1>0, <2>0, <2>1, <2>4, <2>5, <2>6, <3>2, FollowedUpFits
    <3> QED BY <3>1, <3>2
  <2>8. graph' = o.graph /\ OrderStep(graph, alone, graph', alone')
    BY <2>3, <2>7 DEF Becomes, Turns, Fits
  <2>9. count' \in [requests : 0 .. MaxRequests, crashes : 0 .. MaxCrashes]
    BY <1>10, CountersFit DEF NodeEnds
  <2> QED BY <2>7, <2>8, <2>9 DEF Becomes, Turns, Fits, Inv
<1>11. ASSUME NEW w \in work, NEW outcome \in Outcomes, RestartInAccept(w, outcome)
       PROVE  Inv' /\ OrderStep(graph, alone, graph', alone')
  <2>0. w.node \in Nodes
    BY <1>0 DEF WorkRecords
  <2>1. PICK g \in Accepted(graph, w.node, w.order, outcome) : Crash(g)
    BY <1>11 DEF RestartInAccept
  <2>2. Accepts(graph, w.node, w.order)
    BY <1>11 DEF RestartInAccept
  <2> DEFINE ended == Recorded(graph, w.node, w.order, outcome)
  <2>3. Consistent(ended, alone)
    BY <1>0, <2>0, <2>2, RecordedKeeps
  <2>4. g = ended \/ g \in Dispatches(ended)
    BY <2>1 DEF Accepted
  <2> HIDE DEF ended
  <2>5. Consistent(g, alone) /\ Begins(g, g, alone)
    BY <2>3, <2>4, DispatchesKeep, SameStages DEF Consistent
  <2>6. OrderStep(graph, alone, g, alone)
    BY <1>0, <2>0, <2>1, <2>2, <2>5, AcceptedKeeps
  <2>7. TasksFit(g, {})
    BY DEF TasksFit, Tasks
  <2>8. count' \in [requests : 0 .. MaxRequests, crashes : 0 .. MaxCrashes]
    BY <2>1, CountersFit
  <2> QED BY <1>0, <2>1, <2>5, <2>6, <2>7, <2>8 DEF Crash, Becomes, Turns, Outcome, Inv
<1>12. CASE UNCHANGED vars
  BY <1>0, <1>12 DEF vars, Inv
<1> QED BY <1>2, <1>3, <1>4, <1>5, <1>6, <1>7, <1>8, <1>9, <1>10, <1>11, <1>12 DEF Next
-----------------------------------------------------------------------------
(* How a run closes.                                                       *)

\* What the graph of a run is like when all its nodes lead to a terminal one,
\* and when no node depends on itself.
AllLeadToTerminals ==
  \/ Terminals = {}
  \/ \A S \in SUBSET Nodes :
       S # {} /\ S \cap Terminals = {} => \E e \in Edges : e[1] \in S /\ e[2] \notin S

Acyclic ==
  \A S \in SUBSET Nodes : S # {} => \E n \in S : \A e \in Inputs(n) : e[1] \notin S

Finished(g) == \/ With(g, {"completed"}) = Nodes
               \/ Terminals # {} /\ Terminals \subseteq With(g, {"completed"})

\* A status that closes the run is one status_snapshot concluded.
Settled(g) == /\ g.status \in Closed => Active(g) = {}
              /\ g.status = "completed" => Finished(g)

\* A completed node has released its outgoing edges.
Released(g) == \A e \in Edges : g.node[e[1]] = "completed" => g.edge[e] = "ready"

Tried == {"running"} \cup Outcomes

\* What is downstream of a node is tried only with that node completed, or
\* with the node requeued alone.
Upheld(g, since) ==
  \A n \in Nodes : \A t \in Downstream({n}) \ {n} :
    g.node[t] \in Tried =>
      g.node[n] = "completed" \/ (0 < since[n] /\ g.node[n] # "pending")

Sound(g, since) == Consistent(g, since) /\ Settled(g) /\ Released(g) /\ Upheld(g, since)

\* What is downstream of n and not n itself depends on something downstream of n.
LEMMA DownstreamEnters ==
  ASSUME NEW n \in Nodes, NEW t \in Downstream({n}) \ {n}
  PROVE  \E e \in Edges : e[2] = t /\ e[1] \in Downstream({n})
<1> DEFINE S == Downstream({n}) \ {t}
<1> SUFFICES ASSUME \A e \in Edges : e[2] = t => e[1] \notin Downstream({n}) PROVE FALSE
  OBVIOUS
<1>1. {n} \subseteq S /\ S \in SUBSET Nodes
  BY DownstreamIs
<1>2. \A e \in Edges : e[1] \in S => e[2] \in S
  BY DownstreamIs
<1> HIDE DEF S
<1>3. t \in S
  BY <1>1, <1>2 DEF Downstream
<1> QED BY <1>3 DEF S

\* What is downstream of something downstream of T is downstream of T.
LEMMA DownstreamGoesOn ==
  ASSUME NEW T \in SUBSET Nodes, NEW n \in Downstream(T)
  PROVE  n \in Nodes /\ Downstream({n}) \subseteq Downstream(T)
<1> DEFINE S == Downstream(T)
<1>1. S \in SUBSET Nodes /\ {n} \subseteq S /\ \A e \in Edges : e[1] \in S => e[2] \in S
  BY DownstreamIs
<1> HIDE DEF S
<1>2. Downstream({n}) \subseteq S
  BY <1>1 DEF Downstream
<1> QED BY <1>1, <1>2 DEF S

\* No completed node is given up, none is put back, and a node is tried only
\* on completed ones.
LEMMA GoingOnUpholds ==
  ASSUME NEW g, NEW since, Upheld(g, since), NEW h,
         \A n \in Nodes : \/ h.node[n] = g.node[n]
                          \/ g.node[n] # "completed" /\ h.node[n] # "pending",
         \A t \in Nodes : h.node[t] \in Tried =>
           \/ g.node[t] \in Tried
           \/ \A e \in Edges : e[2] = t => g.node[e[1]] = "completed"
  PROVE  Upheld(h, since)
<1> SUFFICES ASSUME NEW n \in Nodes, NEW t \in Downstream({n}) \ {n}, h.node[t] \in Tried
             PROVE  h.node[n] = "completed" \/ (0 < since[n] /\ h.node[n] # "pending")
  BY DEF Upheld
<1>0. t \in Nodes /\ "completed" \in Tried
  BY DownstreamIs DEF Tried, Outcomes
<1>1. g.node[n] = "completed" \/ (0 < since[n] /\ g.node[n] # "pending")
  <2>1. CASE g.node[t] \in Tried
    BY <2>1 DEF Upheld
  <2>2. CASE \A e \in Edges : e[2] = t => g.node[e[1]] = "completed"
    <3>1. PICK e \in Edges : e[2] = t /\ e[1] \in Downstream({n})
      BY DownstreamEnters
    <3>2. g.node[e[1]] = "completed"
      BY <2>2, <3>1
    <3> QED BY <1>0, <3>1, <3>2 DEF Upheld
  <2> QED BY <1>0, <2>1, <2>2
<1> QED BY <1>1

LEMMA StatusSettles ==
  ASSUME NEW g, g.status = StatusOf(g)
  PROVE  Settled(g)
  BY DEF Settled, StatusOf, Closed, Finished

LEMMA WithOrdersSound ==
  ASSUME NEW g, NEW since, Sound(g, since), NEW S \in SUBSET (Ready(g) \ Active(g))
  PROVE  Sound(WithOrders(g, S), since)
<1> DEFINE h == WithOrders(g, S)
<1>1. S \subseteq Nodes /\ g \in LoopStates
  BY DEF Sound, Consistent, Ready, With
<1>2. /\ h \in LoopStates
      /\ h.node = [n \in Nodes |-> IF n \in S THEN "running" ELSE g.node[n]]
      /\ h.active = [n \in Nodes |-> IF n \in S THEN g.seq + 1 ELSE g.active[n]]
      /\ h.edge = g.edge /\ h.result = g.result
      /\ h.seq = g.seq + 1 /\ h.status = "running"
  BY <1>1, WithOrdersIs
<1>3. Consistent(h, since)
  BY WithOrdersKeeps DEF Sound
<1>4. \A n \in S : /\ g.node[n] \in {"pending", "ready"}
                   /\ \A e \in Edges : e[2] = n => g.edge[e] = "ready"
  BY DEF Ready, With, Inputs
<1> HIDE DEF h
<1>5. Settled(h)
  BY <1>2 DEF Settled, Closed
<1>6. Upheld(h, since)
  <2>1. \A n \in Nodes : \/ h.node[n] = g.node[n]
                         \/ g.node[n] # "completed" /\ h.node[n] # "pending"
    BY <1>2, <1>4
  <2>2. \A t \in Nodes : h.node[t] \in Tried =>
          \/ g.node[t] \in Tried
          \/ \A e \in Edges : e[2] = t => g.node[e[1]] = "completed"
    BY <1>2, <1>4 DEF Sound, Consistent, EdgesFit
  <2> QED BY <2>1, <2>2, GoingOnUpholds DEF Sound
<1>7. Released(h)
  BY <1>2, EdgeEnds DEF Released, Sound
<1>8. Sound(h, since)
  BY <1>3, <1>5, <1>6, <1>7 DEF Sound
<1> QED BY <1>8 DEF h

LEMMA DispatchBlockedSound ==
  ASSUME NEW g, NEW since, Sound(g, since), NEW n \in Ready(g)
  PROVE  Sound(DispatchBlocked(g, n), since)
<1> DEFINE h == DispatchBlocked(g, n)
<1>1. /\ g \in LoopStates /\ n \in Nodes /\ g.node[n] \in {"pending", "ready"}
      /\ \A e \in Edges : e[2] = n => g.edge[e] = "ready"
  BY DEF Sound, Consistent, Ready, With, Inputs
<1>2. /\ h.node = [g.node EXCEPT ![n] = "blocked"]
      /\ h.edge = g.edge /\ h.status = StatusOf(h)
  BY <1>1, DispatchBlockedIs
<1>3. Consistent(h, since)
  BY DispatchBlockedKeeps DEF Sound
<1> HIDE DEF h
<1>4. Settled(h)
  BY <1>2, StatusSettles
<1>5. \A m \in Nodes : h.node[m] = IF m = n THEN "blocked" ELSE g.node[m]
  BY <1>1, <1>2 DEF LoopStates
<1>6. Upheld(h, since)
  <2>1. \A m \in Nodes : \/ h.node[m] = g.node[m]
                         \/ g.node[m] # "completed" /\ h.node[m] # "pending"
    BY <1>1, <1>5
  <2>2. \A t \in Nodes : h.node[t] \in Tried =>
          \/ g.node[t] \in Tried
          \/ \A e \in Edges : e[2] = t => g.node[e[1]] = "completed"
    BY <1>1, <1>5 DEF Sound, Consistent, EdgesFit
  <2> QED BY <2>1, <2>2, GoingOnUpholds DEF Sound
<1>7. Released(h)
  BY <1>2, <1>5, EdgeEnds DEF Released, Sound
<1>8. Sound(h, since)
  BY <1>3, <1>4, <1>6, <1>7 DEF Sound
<1> QED BY <1>8 DEF h

LEMMA DispatchesSound ==
  ASSUME NEW g, NEW since, Sound(g, since), NEW h \in Dispatches(g)
  PROVE  Sound(h, since)
<1>1. PICK S \in Selections(g) :
        h \in {IF S = {} THEN g ELSE WithOrders(g, S)}
              \cup {DispatchBlocked(g, n) : n \in IF Faults THEN S ELSE {}}
  BY DEF Dispatches
<1>2. S \subseteq Ready(g) \ Active(g)
  BY DEF Selections
<1>3. CASE h = g
  BY <1>3
<1>4. CASE h = WithOrders(g, S)
  BY <1>2, <1>4, WithOrdersSound
<1>5. CASE \E n \in S : h = DispatchBlocked(g, n)
  BY <1>2, <1>5, DispatchBlockedSound
<1> QED BY <1>1, <1>3, <1>4, <1>5

LEMMA RecordedSound ==
  ASSUME NEW g, NEW since, Sound(g, since), NEW n \in Nodes, NEW order, Accepts(g, n, order),
         NEW outcome \in Outcomes
  PROVE  LET h == Recorded(g, n, order, outcome)
         IN  Sound(h, since) /\ h.status = StatusOf(h)
<1> DEFINE h == Recorded(g, n, order, outcome)
<1>0. h = Recorded(g, n, order, outcome)
  OBVIOUS
<1>1. g \in LoopStates /\ g.node[n] = "running" /\ order \in Nat
  BY DEF Sound, Consistent, Accepts, OrdersFit, LoopStates
<1>3. Consistent(h, since)
  BY RecordedKeeps DEF Sound
<1> HIDE DEF h
<1>2. /\ h \in LoopStates
      /\ h.node = [g.node EXCEPT ![n] = outcome]
      /\ h.edge = EdgesAfter(g, n, outcome)
      /\ h.active = [g.active EXCEPT ![n] = 0]
      /\ h.result = [g.result EXCEPT ![n] = order]
      /\ h.seq = g.seq
      /\ h.status = StatusOf(h)
  BY <1>0, <1>1, RecordedIs
<1>4. Settled(h)
  BY <1>2, StatusSettles
<1>5. \A m \in Nodes : h.node[m] = IF m = n THEN outcome ELSE g.node[m]
  BY <1>1, <1>2 DEF LoopStates
<1>6. \A e \in Edges : h.edge[e] = IF e[1] # n THEN g.edge[e]
                                   ELSE IF outcome = "completed" THEN "ready"
                                   ELSE "source_failed"
  BY <1>2 DEF EdgesAfter, Outputs
<1>7. Upheld(h, since)
  <2>1. \A m \in Nodes : \/ h.node[m] = g.node[m]
                         \/ g.node[m] # "completed" /\ h.node[m] # "pending"
    BY <1>1, <1>5 DEF Outcomes, Failed, Blocked
  <2>2. \A t \in Nodes : h.node[t] \in Tried => g.node[t] \in Tried
    BY <1>1, <1>5 DEF Tried
  <2> QED BY <2>1, <2>2, GoingOnUpholds DEF Sound
<1>8. Released(h)
  <2> SUFFICES ASSUME NEW e \in Edges, h.node[e[1]] = "completed" PROVE h.edge[e] = "ready"
    BY DEF Released
  <2>1. e[1] \in Nodes
    BY EdgeEnds
  <2>2. CASE e[1] = n
    BY <1>5, <1>6, <2>1, <2>2
  <2>3. CASE e[1] # n
    <3>1. g.node[e[1]] = "completed"
      BY <1>5, <2>1, <2>3
    <3> QED BY <1>6, <2>3, <3>1 DEF Sound, Released
  <2> QED BY <2>2, <2>3
<1>9. Sound(h, since)
  BY <1>3, <1>4, <1>7, <1>8 DEF Sound
<1> QED BY <1>2, <1>9 DEF h

LEMMA AcceptedSound ==
  ASSUME NEW g, NEW since, Sound(g, since), NEW n \in Nodes, NEW order, Accepts(g, n, order),
         NEW outcome \in Outcomes, NEW h \in Accepted(g, n, order, outcome)
  PROVE  Sound(h, since)
  BY RecordedSound, DispatchesSound DEF Accepted

LEMMA RequeuedSound ==
  ASSUME NEW g, NEW since, Sound(g, since), NEW T \in SUBSET Nodes, NEW downstream \in BOOLEAN
  PROVE  Sound(Requeued(g, T, downstream), SinceAfter(g, T, downstream, since))
<1> DEFINE h == Requeued(g, T, downstream)
           reset == Reset(T, downstream)
           now == SinceAfter(g, T, downstream, since)
<1>1. g \in LoopStates /\ Consistent(g, since)
  BY DEF Sound, Consistent
<1>2. /\ h \in LoopStates
      /\ h.node = [n \in Nodes |-> IF n \in T THEN "ready"
                                   ELSE IF n \in reset THEN "pending" ELSE g.node[n]]
      /\ h.edge = [e \in Edges |-> IF e[1] \in reset THEN "pending" ELSE g.edge[e]]
      /\ h.active = [n \in Nodes |-> IF n \in reset THEN 0 ELSE g.active[n]]
      /\ h.result = [n \in Nodes |-> IF n \in reset THEN 0 ELSE g.result[n]]
      /\ h.seq = g.seq /\ h.status = "running"
  BY <1>1, RequeuedIs
<1>3. Consistent(h, now)
  BY <1>1, RequeuedKeeps
<1>4. ResetFits(g, since, T, reset, now)
  BY <1>1, ResetIs
<1> HIDE DEF h, reset, now
<1>5. /\ T \subseteq reset /\ reset \subseteq Nodes
      /\ \A n \in Nodes \ T : now[n] = since[n]
      /\ \/ now = since /\ \A e \in Edges : e[1] \in reset => e[2] \in reset
         \/ reset = T /\ \A n \in T : now[n] = g.seq
  BY <1>4 DEF ResetFits
<1>6. ASSUME \A e \in Edges : e[1] \in reset => e[2] \in reset,
             NEW n \in reset
      PROVE  Downstream({n}) \subseteq reset
  BY <1>6, <1>5 DEF Downstream
<1>7. Settled(h)
  BY <1>2 DEF Settled, Closed
<1>8. \A n \in Nodes : IF n \in reset THEN h.node[n] \in {"ready", "pending"}
                       ELSE h.node[n] = g.node[n]
  BY <1>2, <1>5
<1>9. Upheld(h, now)
  <2> SUFFICES ASSUME NEW n \in Nodes, NEW t \in Downstream({n}) \ {n}, h.node[t] \in Tried
               PROVE  h.node[n] = "completed" \/ (0 < now[n] /\ h.node[n] # "pending")
    BY DEF Upheld
  <2>1. t \in Nodes
    BY DownstreamIs
  <2>2. t \notin reset /\ g.node[t] \in Tried
    BY <1>8, <2>1 DEF Tried, Outcomes, Failed, Blocked
  <2>3. g.node[n] = "completed" \/ (0 < since[n] /\ g.node[n] # "pending")
    BY <2>2 DEF Sound, Upheld
  <2>4. CASE n \notin reset
    BY <1>5, <1>8, <2>3, <2>4
  <2>5. CASE n \in reset
    <3>1. ~(\A e \in Edges : e[1] \in reset => e[2] \in reset)
      <4>1. t \in Downstream({n}) /\ t \notin reset
        BY <2>2
      <4> QED BY <4>1, <2>5, <1>6
    <3>2. n \in T /\ now[n] = g.seq
      BY <3>1, <1>5, <2>5
    <3>3. h.node[n] = "ready"
      BY <1>2, <3>2
    <3>4. 0 < g.seq
      <4>1. g.seq \in Nat /\ since[n] \in Nat /\ since[n] <= g.seq /\ g.result[n] \in Nat
        BY <1>1 DEF Consistent, SinceFits, LoopStates
      <4>2. g.result[n] <= g.seq /\ (g.node[n] = "completed" => 0 < g.result[n])
        BY <1>1 DEF Consistent, OrdersFit, ResultsFit
      <4> QED BY <4>1, <4>2, <2>3
    <3> QED BY <3>2, <3>3, <3>4
  <2> QED BY <2>4, <2>5
<1>10. Released(h)
  <2> SUFFICES ASSUME NEW e \in Edges, h.node[e[1]] = "completed" PROVE h.edge[e] = "ready"
    BY DEF Released
  <2>1. e[1] \notin reset /\ g.node[e[1]] = "completed"
    BY <1>8, EdgeEnds
  <2> QED BY <1>2, <2>1 DEF Sound, Released
<1>11. Sound(h, now)
  BY <1>3, <1>7, <1>9, <1>10 DEF Sound
<1> QED BY <1>11 DEF h, now

\* From g to h the run is opened and the nodes T are ready.
Reopened(g, T, h) ==
  /\ h.status = "running"
  /\ \A n \in T : h.node[n] = "ready"
  /\ \A n \in Nodes \ T : h.node[n] = g.node[n]
  /\ Active(g) = {} => Active(h) = {}

LEMMA ReplayedSound ==
  ASSUME NEW g, NEW since, Sound(g, since),
         NEW T \in SUBSET With(g, Failed \cup Blocked), NEW forget \in BOOLEAN,
         NEW h, h = Replayed(g, T, forget)
  PROVE  Sound(h, since) /\ Reopened(g, T, h)
<1>1. g \in LoopStates /\ T \in SUBSET Nodes
  BY DEF Sound, Consistent, With
<1>2. /\ h \in LoopStates
      /\ h.node = [n \in Nodes |-> IF n \in T THEN "ready" ELSE g.node[n]]
      /\ h.edge = FailedEdgesReset(g, T)
      /\ h.active = [n \in Nodes |-> IF n \in T THEN 0 ELSE g.active[n]]
      /\ h.result = [n \in Nodes |-> IF forget /\ n \in T THEN 0 ELSE g.result[n]]
      /\ h.seq = g.seq /\ h.status = "running"
  BY <1>1, ReplayedIs
<1>3. Consistent(h, since)
  BY ReplayedKeeps DEF Sound
<1>4. Settled(h)
  BY <1>2 DEF Settled, Closed
<1>5. \A n \in Nodes : IF n \in T THEN h.node[n] = "ready" /\ g.node[n] \in Failed \cup Blocked
                       ELSE h.node[n] = g.node[n]
  BY <1>2 DEF With
<1>6. Upheld(h, since)
  <2>1. \A n \in Nodes : \/ h.node[n] = g.node[n]
                         \/ g.node[n] # "completed" /\ h.node[n] # "pending"
    BY <1>5 DEF Failed, Blocked
  <2>2. \A t \in Nodes : h.node[t] \in Tried => g.node[t] \in Tried
    BY <1>5 DEF Tried, Outcomes, Failed, Blocked
  <2> QED BY <2>1, <2>2, GoingOnUpholds DEF Sound
<1>7. Released(h)
  <2> SUFFICES ASSUME NEW e \in Edges, h.node[e[1]] = "completed" PROVE h.edge[e] = "ready"
    BY DEF Released
  <2>1. g.node[e[1]] = "completed"
    BY <1>5, EdgeEnds
  <2> QED BY <1>2, <2>1 DEF FailedEdgesReset, Sound, Released
<1>8. Active(g) = {} => Active(h) = {}
  BY <1>2 DEF Active
<1>9. Reopened(g, T, h)
  BY <1>1, <1>2, <1>8 DEF Reopened
<1> QED BY <1>3, <1>4, <1>6, <1>7, <1>9 DEF Sound

LEMMA ResumedSound ==
  ASSUME NEW g, NEW since, Sound(g, since), NEW h \in Resumed(g)
  PROVE  Sound(h, since)
<1>1. CASE Replayable(g) # {}
  <2> DEFINE again == Replayed(g, Replayable(g), g.status = "failed")
  <2>1. Replayable(g) \subseteq With(g, Failed \cup Blocked)
    BY DEF Replayable, With, Failed, Blocked
  <2>2. Sound(again, since)
    BY <2>1, ReplayedSound
  <2>3. h \in Dispatches(again)
    BY <1>1 DEF Resumed
  <2> HIDE DEF again
  <2> QED BY <2>2, <2>3, DispatchesSound
<1>2. CASE h = g
  BY <1>2
<1>3. CASE h = [g EXCEPT !.edge = FailedEdgesReset(g, Active(g)), !.status = "running"]
  <2> DEFINE edge == FailedEdgesReset(g, Active(g))
  <2>1. g \in LoopStates
    BY DEF Sound, Consistent
  <2>2. h.node = g.node /\ h.edge = edge /\ h.status = "running"
    <3> HIDE DEF edge
    <3> QED BY <1>3, <2>1 DEF LoopStates, edge
  <2>3. Consistent(h, since)
    BY <1>3, ReconnectedKeeps DEF Active, Sound
  <2>4. \A e \in Edges : g.edge[e] = "ready" => h.edge[e] = "ready"
    BY <2>2 DEF FailedEdgesReset
  <2> QED BY <2>2, <2>3, <2>4 DEF Sound, Released, Upheld, Settled, Closed
<1>4. CASE h \in Dispatches(g)
  BY <1>4, DispatchesSound
<1> QED BY <1>1, <1>2, <1>3, <1>4 DEF Resumed
-----------------------------------------------------------------------------
(* The root says completed of a completed graph, or of one where a node was *)
(* requeued alone.                                                         *)

\* A completed node rests on an earlier result of one requeued alone.
Overtaken(g, since) == \E e \in OutdatedIn(g, since) : g.node[e[2]] = "completed"

RootTrue(r, g, since) ==
  r.status = "completed" => g.status = "completed" \/ Overtaken(g, since)

LEMMA CompletedStays ==
  ASSUME NEW g, g.status = "completed"
  PROVE  Resumed(g) = {g}
  BY DEF Resumed, Replayable

LEMMA DoneIs ==
  ASSUME NEW g, NEW n \in Nodes
  PROVE  StageOf(g)[n] = "done" <=> g.node[n] = "completed"
  BY DEF StageOf

LEMMA OvertakenStays ==
  ASSUME NEW g, NEW h, NEW since, Begins(g, h, since), Overtaken(g, since)
  PROVE  Overtaken(h, since)
<1>1. PICK e \in OutdatedIn(g, since) : g.node[e[2]] = "completed"
  BY DEF Overtaken
<1>2. e \in OutdatedIn(h, since) /\ e[2] \in Nodes
  BY <1>1, EdgeEnds DEF Begins, OutdatedIn
<1>3. PICK S \in SUBSET Nodes : /\ Order!MayBegin(StageOf(g), S)
                                /\ StageOf(h) = Order!Begun(StageOf(g), S)
  BY DEF Begins
<1>4. StageOf(g)[e[2]] = "done"
  BY <1>1, <1>2, DoneIs
<1>5. StageOf(h)[e[2]] = "done"
  BY <1>2, <1>3, <1>4 DEF Order!MayBegin, Order!Begun
<1> QED BY <1>2, <1>5, DoneIs DEF Overtaken

LEMMA SubmittedSound ==
  ASSUME NEW g, NEW since, Sound(g, since), NEW r, NEW tasks, NEW left, NEW on,
         NEW o \in Submitted(g, r, tasks, left, on)
  PROVE  Sound(o.graph, since) /\ (RootTrue(r, g, since) => RootTrue(o.root, o.graph, since))
<1>1. CASE AtBoundary(r)
  <2>1. o = Outcome(g, MarkedPaused(r), tasks, FALSE)
    BY <1>1 DEF Submitted
  <2> QED BY <2>1 DEF Outcome, RootTrue, MarkedPaused
<1>2. CASE ~AtBoundary(r)
  <2> DEFINE Of(h) == {Outcome(h, r, tasks \cup Spawned(h, tasks, S, left), on /\ S = Active(h)) :
                         S \in Submittable(h, left)}
  <2>1. PICK h \in Resumed(g) : o \in Of(h)
    <3>1. o \in UNION {Of(h) : h \in Resumed(g)}
      BY <1>2 DEF Submitted
    <3> HIDE DEF Of
    <3> QED BY <3>1
  <2>2. o.graph = h /\ o.root = r
    BY <2>1 DEF Outcome
  <2>3. Sound(h, since)
    BY ResumedSound
  <2>4. Begins(g, h, since)
    BY ResumedKeeps DEF Sound
  <2>5. RootTrue(r, g, since) => RootTrue(r, h, since)
    BY <2>4, CompletedStays, OvertakenStays DEF RootTrue
  <2> QED BY <2>2, <2>3, <2>5
<1> QED BY <1>1, <1>2

LEMMA FollowedUpSound ==
  ASSUME NEW g, NEW since, Sound(g, since), NEW r, NEW tasks, NEW left, NEW on,
         NEW o \in FollowedUp(g, r, tasks, left, on)
  PROVE  Sound(o.graph, since) /\ (RootTrue(r, g, since) => RootTrue(o.root, o.graph, since))
<1>1. CASE o = Outcome(g, r, tasks, FALSE) \/ o = Outcome(g, r, tasks, on)
  <2>1. o.graph = g /\ o.root = r
    BY <1>1 DEF Outcome
  <2> QED BY <2>1
<1>2. CASE o = Outcome(g, MarkedPaused(r), tasks, FALSE)
  BY <1>2 DEF Outcome, RootTrue, MarkedPaused
<1>3. CASE o \in Submitted(g, r, tasks, left, on)
  BY <1>3, SubmittedSound
<1> QED BY <1>1, <1>2, <1>3 DEF FollowedUp

\* A completed graph has completed all its nodes, and nothing is ready; or
\* one that is not completed was requeued alone.
LEMMA CompletedHasNoneReady ==
  ASSUME AllLeadToTerminals, NEW g, NEW since, Sound(g, since), g.status = "completed"
  PROVE  Ready(g) = {} \/ Overtaken(g, since)
<1> DEFINE Open == Nodes \ With(g, {"completed"})
<1> SUFFICES ASSUME ~Overtaken(g, since) PROVE Ready(g) = {}
  OBVIOUS
<1>1. Finished(g)
  BY DEF Sound, Settled
<1>2. Open = {}
  <2>1. CASE With(g, {"completed"}) = Nodes
    BY <2>1
  <2>2. CASE Terminals # {} /\ Terminals \subseteq With(g, {"completed"})
    <3> SUFFICES ASSUME Open # {} PROVE FALSE
      OBVIOUS
    <3>1. PICK e \in Edges : e[1] \in Open /\ e[2] \notin Open
      BY <2>2 DEF AllLeadToTerminals
    <3>2. e[2] \in Nodes
      BY EdgeEnds
    <3>3. g.node[e[2]] = "completed" /\ g.node[e[1]] # "completed"
      BY <3>1, <3>2 DEF With
    <3>4. e \in OutdatedIn(g, since)
      BY <3>3 DEF Sound, Consistent, EdgesFit, OutdatedIn
    <3> QED BY <3>3, <3>4 DEF Overtaken
  <2> QED BY <1>1, <2>1, <2>2 DEF Finished
<1> QED BY <1>2 DEF Ready, With

LEMMA DispatchesNothing ==
  ASSUME NEW g, Ready(g) = {}
  PROVE  Dispatches(g) = {g}
<1>1. \A S \in Selections(g) : S = {}
  BY DEF Selections
<1>2. {} \in Selections(g)
  <2>1. Cardinality({}) = 0 /\ 0 < Limit
    BY FS_EmptySet, GraphBounds
  <2> QED BY <2>1 DEF Selections
<1>3. Selections(g) = {{}}
  BY <1>1, <1>2
<1> QED BY <1>3 DEF Dispatches

\* The end of a node that runs leaves the completed ones as they are.
LEMMA AcceptedOvertaken ==
  ASSUME NEW g, NEW since, Sound(g, since), NEW n \in Nodes, NEW order, Accepts(g, n, order),
         NEW outcome \in Outcomes, NEW h \in Accepted(g, n, order, outcome),
         Overtaken(g, since)
  PROVE  Overtaken(h, since)
<1> DEFINE ended == Recorded(g, n, order, outcome)
<1>1. /\ Consistent(ended, since)
      /\ StageOf(g)[n] = "doing"
      /\ StageOf(ended) = [StageOf(g) EXCEPT ![n] = IF outcome = "completed"
                                                    THEN "done" ELSE "todo"]
      /\ OutdatedIn(ended, since) = Order!Left(OutdatedIn(g, since), StageOf(ended))
  BY RecordedKeeps DEF Sound
<1>2. h = ended \/ h \in Dispatches(ended)
  BY DEF Accepted
<1> HIDE DEF ended
<1>3. PICK e \in OutdatedIn(g, since) : g.node[e[2]] = "completed"
  BY DEF Overtaken
<1>4. e[2] \in Nodes /\ StageOf(g)[e[2]] = "done"
  BY <1>3, EdgeEnds, DoneIs DEF OutdatedIn
<1>5. StageOf(ended)[e[2]] = "done"
  BY <1>1, <1>4 DEF StageOf
<1>6. Overtaken(ended, since)
  BY <1>1, <1>3, <1>4, <1>5, DoneIs DEF Overtaken, Order!Left
<1> QED BY <1>1, <1>2, <1>6, DispatchesKeep, OvertakenStays

\* What the steps make of the loop state and of the root.
LEMMA RootStep ==
  ASSUME Inv, Sound(graph, alone), [Next]_vars
  PROVE  /\ Sound(graph, alone)'
         /\ AllLeadToTerminals /\ RootTrue(root, graph, alone) => RootTrue(root, graph, alone)'
<1>0. work \subseteq WorkRecords
  BY DEF Inv, TasksFit
<1>1. CASE Submit
  <2>1. PICK o \in Submitted(graph, root, work, Budget, TRUE) :
          Becomes([o EXCEPT !.driven = @ /\ Tasks(o.work) # {}])
    BY <1>1 DEF Submit
  <2>2. IsOutcome(o)
    BY <2>1, SubmittedOutcome
  <2>3. graph' = o.graph /\ root' = o.root /\ alone' = alone
    BY <2>1, <2>2 DEF Becomes, Turns, Outcome, IsOutcome
  <2> QED BY <2>1, <2>3, SubmittedSound
<1>2. CASE DispatchReady
  <2>1. PICK g \in Dispatches(graph) : graph' = g /\ root' = root /\ alone' = alone
    BY <1>2 DEF DispatchReady, Becomes, Turns, Outcome
  <2>2. Begins(graph, g, alone)
    BY <2>1, DispatchesKeep DEF Sound
  <2>3. AllLeadToTerminals /\ graph.status = "completed" => g = graph \/ Overtaken(g, alone)
    BY <2>1, <2>2, CompletedHasNoneReady, DispatchesNothing, OvertakenStays
  <2>4. Sound(g, alone)
    BY <2>1, DispatchesSound
  <2> QED BY <2>1, <2>2, <2>3, <2>4, OvertakenStays DEF RootTrue
<1>3. ASSUME NEW n \in Nodes, NEW downstream \in BOOLEAN, RequeueNodes({n}, downstream)
      PROVE  Sound(graph, alone)' /\ RootTrue(root, graph, alone)'
  <2>1. /\ graph' = Requeued(graph, {n}, downstream)
        /\ alone' = SinceAfter(graph, {n}, downstream, alone)
        /\ root' = [root EXCEPT !.status = "running"]
    BY <1>3 DEF RequeueNodes, Requeues, SinceAfter, Turns, Outcome
  <2>2. root'.status = "running"
    BY <2>1 DEF Inv, RootRecords
  <2> QED BY <2>1, <2>2, RequeuedSound DEF RootTrue
<1>4. ASSUME NEW n \in Nodes, ClientExecutes(n)
      PROVE  graph' = graph /\ alone' = alone /\ root' = root
  BY <1>4 DEF ClientExecutes
<1>5. ASSUME Pause \/ Resume
      PROVE  /\ graph' = graph /\ alone' = alone
             /\ RootTrue(root, graph, alone) => RootTrue(root, graph, alone)'
  BY <1>5 DEF Pause, Resume, MarkedPaused, RootTrue, RootOpen, Inv, RootRecords
<1>6. ASSUME Restart
      PROVE  graph' = graph /\ alone' = alone /\ root' = root
  BY <1>6 DEF Restart, Crash, Becomes, Turns, Outcome
<1>7. ASSUME NEW w \in work, TaskBegins(w)
      PROVE  /\ graph' = graph /\ alone' = alone
             /\ RootTrue(root, graph, alone) => RootTrue(root, graph, alone)'
  <2>1. CASE AtBoundary(root)
    <3>1. graph' = graph /\ alone' = alone /\ root' = MarkedPaused(root)
      BY <1>7, <2>1 DEF TaskBegins, Becomes, Turns, Outcome
    <3> QED BY <3>1 DEF MarkedPaused, RootTrue
  <2>2. CASE ~AtBoundary(root)
    BY <1>7, <2>2 DEF TaskBegins, Becomes, Turns, Outcome, RootTrue
  <2> QED BY <2>1, <2>2
<1>8. ASSUME NEW w \in work, ResultRefused(w) \/ ExecutionRaises(w)
      PROVE  graph' = graph /\ alone' = alone /\ root' = root
  BY <1>8 DEF ResultRefused, ExecutionRaises, Becomes, Turns, Outcome
<1>9. ASSUME NEW w \in work, NEW outcome \in Outcomes, NodeEnds(w, outcome)
      PROVE  Sound(graph, alone)' /\ RootTrue(root, graph, alone)'
  <2>0. w.node \in Nodes
    BY <1>0 DEF WorkRecords
  <2>1. PICK g \in Accepted(graph, w.node, w.order, outcome) :
          \E o \in IF w.by = "client" THEN {Outcome(g, RootTold(g), work \ {w}, FALSE)}
                   ELSE FollowedUp(g, RootTold(g), work \ {w}, w.left, driven) : Becomes(o)
    BY <1>9 DEF NodeEnds
  <2>2. Sound(g, alone)
    BY <1>9, <2>0, <2>1, AcceptedSound DEF NodeEnds
  <2>3. RootTrue(RootTold(g), g, alone)
    BY DEF RootTrue, RootTold, Inv, RootRecords
  <2>4. CASE w.by = "client"
    <3>1. graph' = g /\ root' = RootTold(g) /\ alone' = alone
      BY <2>1, <2>4 DEF Becomes, Turns, Outcome
    <3> QED BY <2>2, <2>3, <3>1
  <2>5. CASE w.by # "client"
    <3>1. PICK o \in FollowedUp(g, RootTold(g), work \ {w}, w.left, driven) : Becomes(o)
      BY <2>1, <2>5
    <3>2. Sound(o.graph, alone) /\ RootTrue(o.root, o.graph, alone)
      BY <2>2, <2>3, FollowedUpSound
    <3> QED BY <3>1, <3>2 DEF Becomes, Turns
  <2> QED BY <2>4, <2>5
<1>10. ASSUME NEW w \in work, NEW outcome \in Outcomes, RestartInAccept(w, outcome)
       PROVE  Sound(graph, alone)' /\ (RootTrue(root, graph, alone) => RootTrue(root, graph, alone)')
  <2>0. w.node \in Nodes
    BY <1>0 DEF WorkRecords
  <2>1. PICK g \in Accepted(graph, w.node, w.order, outcome) :
          graph' = g /\ root' = root /\ alone' = alone
    BY <1>10 DEF RestartInAccept, Crash, Becomes, Turns, Outcome
  <2>2. Sound(g, alone)
    BY <1>10, <2>0, <2>1, AcceptedSound DEF RestartInAccept
  <2>3. w.node \in Active(graph)
    BY <1>10, <2>0 DEF RestartInAccept, Accepts, Active
  <2>4. graph.status # "completed"
    BY <2>3 DEF Sound, Settled, Closed
  <2>5. Overtaken(graph, alone) => Overtaken(g, alone)
    BY <1>10, <2>0, <2>1, AcceptedOvertaken DEF RestartInAccept
  <2> QED BY <2>1, <2>2, <2>4, <2>5 DEF RootTrue
<1>11. CASE UNCHANGED vars
  BY <1>11 DEF vars
<1> QED BY <1>1, <1>2, <1>3, <1>4, <1>5, <1>6, <1>7, <1>8, <1>9, <1>10, <1>11 DEF Next

LEMMA InitSound == Init => Sound(graph, alone) /\ RootTrue(root, graph, alone)
<1> SUFFICES ASSUME Init PROVE Sound(graph, alone) /\ RootTrue(root, graph, alone)
  OBVIOUS
<1>1. Consistent(graph, alone)
  BY InitInv DEF Inv
<1>2. \A n \in Nodes : graph.node[n] \in {"pending", "ready"}
  BY DEF Init
<1>3. graph.status = "running" /\ root.status = "running"
  BY DEF Init
<1>4. Upheld(graph, alone)
  BY <1>2, DownstreamIs DEF Upheld, Tried, Outcomes, Failed, Blocked
<1> QED BY <1>1, <1>2, <1>3, <1>4, EdgeEnds
        DEF Sound, Settled, Released, RootTrue, Closed

-----------------------------------------------------------------------------
(* A run does not stand still.                                             *)

\* Where the loop says running and nothing runs, something is ready.
Moving(g) == g.status = "running" /\ Active(g) = {} => Ready(g) # {}

\* What NoSilentStall asks of a run that has no task.
AtRest(g) == /\ g.status \in Closed
             /\ Replayable(g) # {} => With(g, {"blocked"}) # {}

\* WaitsForFailed, of a loop state.
Waits(g, since) ==
  \E e \in Edges : /\ g.node[e[2]] = "ready"
                   /\ g.node[e[1]] \in Failed \cup Blocked /\ since[e[1]] > 0

Rested(g, since) == AtRest(g) \/ (g.status = "running" /\ Waits(g, since))

LEMMA NoneRuns ==
  ASSUME NEW g, NEW since, Sound(g, since), Active(g) = {}
  PROVE  With(g, {"running"}) = {}
  BY DEF Sound, Consistent, OrdersFit, With, Active

LEMMA StatusBlocks ==
  ASSUME NEW g, With(g, {"running"}) \cup Active(g) = {}, With(g, Blocked) # {}
  PROVE  StatusOf(g) = "blocked"
<1> DEFINE moves == With(g, {"running"}) \cup Active(g)
           blocked == With(g, Blocked)
<1>1. moves = {} /\ blocked # {}
  OBVIOUS
<1>2. StatusOf(g) =
        CASE moves # {} -> "running"
          [] OTHER ->
             CASE blocked # {} -> "blocked"
               [] blocked = {} /\ With(g, Failed) # {} -> "failed"
               [] /\ With(g, Blocked \cup Failed) = {}
                  /\ \/ Terminals # {} /\ Terminals \subseteq With(g, {"completed"})
                     \/ With(g, {"completed"}) = Nodes -> "completed"
               [] OTHER -> "running"
  BY DEF StatusOf
<1>3. With(g, Blocked \cup Failed) # {}
  BY DEF With
<1> HIDE DEF moves, blocked
<1> QED BY <1>1, <1>2, <1>3

LEMMA SelectionsSelect ==
  ASSUME NEW g, Ready(g) # {}, Active(g) = {}, NEW S \in Selections(g)
  PROVE  S # {}
<1>1. IsFiniteSet(Ready(g) \ Active(g)) /\ Ready(g) \ Active(g) # {}
  <2>1. Ready(g) \ Active(g) \subseteq Nodes
    BY DEF Ready, With
  <2> QED BY <2>1, GraphShape, FS_Subset
<1>2. Cardinality(Ready(g) \ Active(g)) \in Nat /\ Cardinality(Ready(g) \ Active(g)) # 0
  BY <1>1, FS_CardinalityType, FS_EmptySet
<1>3. Cardinality(S) # 0
  BY <1>2, GraphBounds DEF Selections
<1> QED BY <1>3, FS_EmptySet

\* A dispatch from a moving state issues an order or blocks the run.
LEMMA DispatchesMove ==
  ASSUME NEW g, NEW since, Sound(g, since), NEW h \in Dispatches(g)
  PROVE  /\ Moving(g) => Moving(h)
         /\ Ready(g) # {} /\ Active(g) = {} /\ Active(h) = {} => AtRest(h)
<1>0. Sound(h, since) /\ g \in LoopStates
  BY DispatchesSound DEF Sound, Consistent
<1>1. PICK S \in Selections(g) :
        h \in {IF S = {} THEN g ELSE WithOrders(g, S)}
              \cup {DispatchBlocked(g, n) : n \in IF Faults THEN S ELSE {}}
  BY DEF Dispatches
<1>2. S \subseteq Ready(g) /\ S \subseteq Nodes
  BY DEF Selections, Ready, With
<1>3. CASE S = {}
  <2>1. h = g
    BY <1>1, <1>3
  <2>2. ~(Ready(g) # {} /\ Active(g) = {})
    BY <1>3, SelectionsSelect
  <2> QED BY <2>1, <2>2
<1>4. CASE S # {} /\ h = WithOrders(g, S)
  <2>1. h.active = [n \in Nodes |-> IF n \in S THEN g.seq + 1 ELSE g.active[n]]
    BY <1>0, <1>2, <1>4, WithOrdersIs
  <2>2. g.seq + 1 # 0
    BY <1>0 DEF LoopStates
  <2>3. Active(h) # {}
    BY <1>2, <1>4, <2>1, <2>2 DEF Active
  <2> QED BY <2>3 DEF Moving
<1>5. CASE \E n \in S : h = DispatchBlocked(g, n)
  <2>1. PICK n \in S : h = DispatchBlocked(g, n)
    BY <1>5
  <2>2. n \in Nodes
    BY <1>2
  <2>3. h.node = [g.node EXCEPT ![n] = "blocked"] /\ h.status = StatusOf(h)
    BY <1>0, <2>1, <2>2, DispatchBlockedIs
  <2>4. n \in With(h, {"blocked"}) /\ With(h, Blocked) # {}
    BY <1>0, <2>2, <2>3 DEF With, Blocked, LoopStates
  <2>5. ASSUME Active(h) = {} PROVE h.status = "blocked"
    <3>1. With(h, {"running"}) \cup Active(h) = {}
      BY <1>0, <2>5, NoneRuns
    <3>2. StatusOf(h) = "blocked"
      BY <2>4, <3>1, StatusBlocks
    <3> QED BY <2>3, <3>2
  <2> QED BY <2>4, <2>5 DEF Moving, AtRest, Closed
<1> QED BY <1>1, <1>3, <1>4, <1>5

LEMMA AcceptedMoves ==
  ASSUME Acyclic, NEW g, NEW since, Sound(g, since), NEW n \in Nodes, NEW order, Accepts(g, n, order),
         NEW outcome \in Outcomes, NEW h \in Accepted(g, n, order, outcome)
  PROVE  Moving(h)
<1> DEFINE r == Recorded(g, n, order, outcome)
           Open == Nodes \ With(r, {"completed"})
<1>1. Sound(r, since) /\ r.status = StatusOf(r)
  BY RecordedSound
<1>2. h = r \/ h \in Dispatches(r)
  BY DEF Accepted
<1> HIDE DEF r
<1>3. ASSUME r.status = "running", Active(r) = {}
      PROVE  Ready(r) # {}
  <2>1. /\ With(r, Blocked) = {} /\ With(r, Failed) = {}
        /\ With(r, {"running"}) = {} /\ With(r, {"completed"}) # Nodes
    BY <1>1, <1>3, NoneRuns DEF StatusOf, With
  <2>2. Open # {}
    BY <2>1 DEF With
  <2>3. PICK m \in Open : \A e \in Inputs(m) : e[1] \notin Open
    BY <2>2 DEF Acyclic
  <2>4. m \in With(r, {"pending", "ready"})
    BY <1>1, <2>1 DEF Sound, Consistent, LoopStates, NodeStatuses, Outcomes, Failed, Blocked, With
  <2>5. ASSUME NEW e \in Inputs(m) PROVE r.edge[e] = "ready"
    <3>1. e \in Edges /\ e[1] \in Nodes
      BY EdgeEnds DEF Inputs
    <3>2. r.node[e[1]] = "completed"
      BY <2>3, <3>1 DEF With
    <3> QED BY <1>1, <3>1, <3>2 DEF Sound, Released
  <2> QED BY <2>4, <2>5 DEF Ready
<1> QED BY <1>1, <1>2, <1>3, DispatchesMove DEF Moving

\* When nothing that is to be replayed becomes ready, it waits for a node that
\* failed after it was requeued alone.
LEMMA ReplayedWaits ==
  ASSUME Acyclic, NEW g, NEW since, Sound(g, since), Active(g) = {},
         NEW T \in SUBSET With(g, Failed \cup Blocked), T # {}, NEW forget \in BOOLEAN,
         NEW h, h = Replayed(g, T, forget), Ready(h) = {}
  PROVE  Waits(h, since)
<1>1. h = Replayed(g, T, forget) /\ T \in SUBSET With(g, Failed \cup Blocked)
  OBVIOUS
<1>2. Sound(h, since) /\ Reopened(g, T, h)
  BY <1>1, ReplayedSound
<1>3. T \subseteq Nodes /\ \A t \in T : g.node[t] \in Tried /\ h.node[t] = "ready"
  BY <1>2 DEF With, Tried, Outcomes, Reopened
\* The nodes on the way to those that are replayed, that are ready again.
<1> DEFINE Again == {n \in Nodes : h.node[n] = "ready" /\ Downstream({n}) \cap T # {}}
<1>4. Again # {} /\ Again \in SUBSET Nodes
  BY <1>3, DownstreamIs
<1>5. PICK n \in Again : \A e \in Inputs(n) : e[1] \notin Again
  BY <1>4 DEF Acyclic
<1>6. n \in Nodes /\ h.node[n] = "ready"
  BY <1>5
<1>7. PICK e \in Inputs(n) : h.edge[e] # "ready"
  BY <1>6 DEF Ready, With
<1>8. e \in Edges /\ e[2] = n /\ e[1] \in Nodes /\ e[1] \notin Again
  BY <1>5, <1>7, EdgeEnds DEF Inputs
<1>9. h.node[e[1]] # "completed"
  BY <1>2, <1>7, <1>8 DEF Sound, Released
<1>10. PICK t \in T : t \in Downstream({n})
  BY <1>5
<1>11. t \in Downstream({e[1]}) /\ e[1] \in Downstream({e[1]})
  <2>1. e[1] \in Downstream({e[1]}) /\ n \in Downstream({e[1]})
    BY <1>8, DownstreamIs
  <2> QED BY <1>8, <1>10, <2>1, DownstreamGoesOn
<1>12. h.node[e[1]] # "ready"
  BY <1>8, <1>10, <1>11
<1> HIDE DEF Again
<1>13. e[1] \notin T /\ e[1] # t /\ h.node[e[1]] = g.node[e[1]]
  BY <1>2, <1>3, <1>8, <1>10, <1>12 DEF Reopened
<1>14. 0 < since[e[1]] /\ g.node[e[1]] # "pending"
  BY <1>3, <1>8, <1>9, <1>10, <1>11, <1>13 DEF Sound, Upheld
<1>15. h.node[e[1]] # "running"
  BY <1>2, <1>8, NoneRuns DEF With, Reopened
<1>16. h.node[e[1]] \in Failed \cup Blocked
  BY <1>2, <1>8, <1>9, <1>12, <1>13, <1>14, <1>15
     DEF Sound, Consistent, LoopStates, NodeStatuses, Outcomes
<1>17. since[e[1]] > 0
  BY <1>14
<1> QED BY <1>6, <1>8, <1>16, <1>17 DEF Waits

\* A resumption that leaves nothing active leaves the run at rest.
LEMMA ResumedRests ==
  ASSUME Acyclic, NEW g, NEW since, Sound(g, since), Moving(g), NEW h \in Resumed(g),
         Active(h) = {}
  PROVE  Rested(h, since)
<1>1. CASE Replayable(g) # {}
  <2> DEFINE T == Replayable(g)
             again == Replayed(g, T, g.status = "failed")
  <2>1. T \subseteq With(g, Failed \cup Blocked) /\ Active(g) = {}
    BY <1>1 DEF Replayable, With, Failed, Blocked, Sound, Settled, Closed
  <2>2. Sound(again, since) /\ Reopened(g, T, again)
    BY <2>1, ReplayedSound
  <2>3. Sound(again, since) /\ Active(again) = {} /\ again.status = "running"
    BY <2>1, <2>2 DEF Reopened
  <2>4. h \in Dispatches(again)
    BY <1>1 DEF Resumed
  <2>5. Ready(again) = {} => Waits(again, since)
    BY <1>1, <2>1, ReplayedWaits
  <2> HIDE DEF again
  <2>6. CASE Ready(again) # {}
    BY <2>3, <2>4, <2>6, DispatchesMove DEF Rested
  <2>7. CASE Ready(again) = {}
    <3>1. h = again
      BY <2>4, <2>7, DispatchesNothing
    <3> QED BY <2>3, <2>5, <2>7, <3>1 DEF Rested
  <2> QED BY <2>6, <2>7
<1>2. CASE Replayable(g) = {} /\ g.status \in {"completed", "failed", "blocked"} /\ h = g
  BY <1>2 DEF Rested, AtRest, Closed
<1>3. CASE h = [g EXCEPT !.edge = FailedEdgesReset(g, Active(g)), !.status = "running"]
           /\ Active(g) # {}
  <2>1. h.active = g.active
    BY <1>3 DEF Sound, Consistent, LoopStates
  <2> QED BY <1>3, <2>1 DEF Active
<1>4. CASE h \in Dispatches(g) /\ Active(g) = {}
           /\ g.status \notin {"completed", "failed", "blocked"}
  <2>1. g.status = "running"
    BY <1>4 DEF Sound, Consistent, LoopStates, Closed
  <2>2. Ready(g) # {}
    BY <1>4, <2>1 DEF Moving
  <2> QED BY <1>4, <2>2, DispatchesMove DEF Rested
<1> QED BY <1>1, <1>2, <1>3, <1>4 DEF Resumed

\* A submission that drives the run and leaves no task leaves it at rest.
LEMMA SubmittedRests ==
  ASSUME Acyclic, NEW g, NEW since, Sound(g, since), Moving(g), NEW r, NEW tasks, NEW left, NEW on,
         NEW o \in Submitted(g, r, tasks, left, on), o.driven, Tasks(o.work) = {}
  PROVE  Rested(o.graph, since)
<1>1. CASE AtBoundary(r)
  <2>1. o = Outcome(g, MarkedPaused(r), tasks, FALSE)
    BY <1>1 DEF Submitted
  <2> QED BY <2>1 DEF Outcome
<1>2. CASE ~AtBoundary(r)
  <2> DEFINE Of(h) == {Outcome(h, r, tasks \cup Spawned(h, tasks, S, left), on /\ S = Active(h)) :
                         S \in Submittable(h, left)}
  <2>1. PICK h \in Resumed(g) : o \in Of(h)
    <3>1. o \in UNION {Of(h) : h \in Resumed(g)}
      BY <1>2 DEF Submitted
    <3> HIDE DEF Of
    <3> QED BY <3>1
  <2>2. PICK S \in Submittable(h, left) :
          o = Outcome(h, r, tasks \cup Spawned(h, tasks, S, left), on /\ S = Active(h))
    BY <2>1
  <2> HIDE DEF Of
  <2>3. o.graph = h /\ o.work = tasks \cup Spawned(h, tasks, S, left) /\ S = Active(h)
    BY <2>2 DEF Outcome
  <2>4. Active(h) = {}
    <3> SUFFICES ASSUME NEW n \in Active(h) PROVE FALSE
      OBVIOUS
    <3> DEFINE w == [node |-> n, order |-> h.active[n], by |-> "supervisor",
                     pc |-> "spawned", left |-> left - 1]
    <3>1. ~TaskRunning(tasks, n, h.active[n])
      BY <2>3 DEF TaskRunning, Tasks
    <3>2. w \in Spawned(h, tasks, S, left)
      BY <2>3, <3>1 DEF Spawned
    <3>3. w.by = "supervisor" /\ w \in o.work
      BY <2>3, <3>2
    <3> QED BY <3>3 DEF Tasks
  <2> QED BY <2>3, <2>4, ResumedRests
<1> QED BY <1>1, <1>2

LEMMA FollowedUpRests ==
  ASSUME Acyclic, NEW g, NEW since, Sound(g, since), Moving(g), NEW r, NEW tasks, NEW left, NEW on,
         NEW o \in FollowedUp(g, r, tasks, left, on), o.driven, Tasks(o.work) = {}
  PROVE  Rested(o.graph, since)
<1>1. CASE \E any : o = Outcome(g, any, tasks, FALSE)
  BY <1>1 DEF Outcome
<1>2. CASE o = Outcome(g, r, tasks, on) /\ ~NeedsFollowup(g)
  <2>1. o.graph = g
    BY <1>2 DEF Outcome
  <2>2. g.status = "completed"
    BY <1>2 DEF NeedsFollowup, Moving, Sound, Consistent, LoopStates, Closed
  <2> QED BY <2>1, <2>2 DEF Rested, AtRest, Closed, Replayable
<1>3. CASE o \in Submitted(g, r, tasks, left, on)
  BY <1>3, SubmittedRests
<1> QED BY <1>1, <1>2, <1>3 DEF FollowedUp

LEMMA StallStep ==
  ASSUME Acyclic, Inv, Sound(graph, alone), NoSilentStall, [Next]_vars
  PROVE  NoSilentStall'
<1> SUFFICES ASSUME driven', Tasks(work)' = {}
             PROVE  Rested(graph, alone)'
  BY DEF NoSilentStall, Rested, AtRest, Waits, WaitsForFailed
<1>0. /\ work \subseteq WorkRecords
      /\ driven /\ Tasks(work) = {} => Rested(graph, alone)
  BY DEF Inv, TasksFit, NoSilentStall, Rested, AtRest, Waits, WaitsForFailed
<1>1. CASE Submit
  <2>1. PICK o \in Submitted(graph, root, work, Budget, TRUE) :
          Becomes([o EXCEPT !.driven = @ /\ Tasks(o.work) # {}])
    BY <1>1 DEF Submit
  <2>2. IsOutcome(o)
    BY <2>1, SubmittedOutcome
  <2>3. work' = o.work /\ driven' = (o.driven /\ Tasks(o.work) # {})
    BY <2>1, <2>2 DEF Becomes, Turns, Outcome, IsOutcome
  <2> QED BY <2>3 DEF Tasks
<1>2. ASSUME DispatchReady \/ Restart \/ \E n \in Nodes :
                        \E downstream \in BOOLEAN : RequeueNodes({n}, downstream)
      PROVE  ~driven'
  BY <1>2 DEF DispatchReady, RequeueNodes, Restart, Crash, Becomes, Turns, Outcome
<1>3. ASSUME NEW n \in Nodes, ClientExecutes(n)
      PROVE  graph' = graph /\ alone' = alone /\ driven' = driven /\ work \subseteq work'
  BY <1>3 DEF ClientExecutes
<1>4. ASSUME Pause \/ Resume
      PROVE  graph' = graph /\ alone' = alone /\ driven' = driven /\ work' = work
  BY <1>4 DEF Pause, Resume
<1>5. ASSUME NEW w \in work, TaskBegins(w)
      PROVE  Rested(graph, alone)'
  <2>1. w.by # "supervisor" \/ AtBoundary(root)
    <3> DEFINE begun == [w EXCEPT !.pc = "executing"]
    <3> SUFFICES ASSUME w.by = "supervisor", ~AtBoundary(root) PROVE FALSE
      OBVIOUS
    <3>1. begun \in work'
      BY <1>5 DEF TaskBegins, Becomes, Turns, Outcome
    <3>2. begun.by = "supervisor"
      BY <1>0 DEF WorkRecords
    <3> QED BY <3>1, <3>2 DEF Tasks
  <2>2. ~AtBoundary(root)
    BY <1>5 DEF TaskBegins, Becomes, Turns, Outcome
  <2>3. graph' = graph /\ alone' = alone /\ driven' = driven /\ work \ {w} \subseteq work'
    BY <1>5, <2>2 DEF TaskBegins, Becomes, Turns, Outcome
  <2>4. Tasks(work) = {}
    BY <2>1, <2>2, <2>3 DEF Tasks
  <2> QED BY <1>0, <2>3, <2>4
<1>6. ASSUME NEW w \in work, ResultRefused(w) \/ ExecutionRaises(w)
      PROVE  Rested(graph, alone)'
  <2>1. /\ graph' = graph /\ alone' = alone /\ work' = work \ {w}
        /\ driven' = (driven /\ w.by = "client")
    BY <1>6 DEF ResultRefused, ExecutionRaises, Becomes, Turns, Outcome
  <2>2. Tasks(work) = {}
    BY <2>1 DEF Tasks
  <2> QED BY <1>0, <2>1, <2>2
<1>7. ASSUME NEW w \in work, NEW outcome \in Outcomes, NodeEnds(w, outcome)
      PROVE  Rested(graph, alone)'
  <2>0. w.node \in Nodes
    BY <1>0 DEF WorkRecords
  <2>1. PICK g \in Accepted(graph, w.node, w.order, outcome) :
          \E o \in IF w.by = "client" THEN {Outcome(g, RootTold(g), work \ {w}, FALSE)}
                   ELSE FollowedUp(g, RootTold(g), work \ {w}, w.left, driven) : Becomes(o)
    BY <1>7 DEF NodeEnds
  <2>2. Sound(g, alone) /\ Moving(g)
    BY <1>7, <2>0, <2>1, AcceptedSound, AcceptedMoves DEF NodeEnds
  <2>3. SUFFICES ASSUME w.by # "client" PROVE Rested(graph, alone)'
    <3>1. CASE w.by = "client"
      <4>1. Becomes(Outcome(g, RootTold(g), work \ {w}, FALSE))
        BY <2>1, <3>1
      <4>2. driven' = FALSE
        BY <4>1 DEF Becomes, Turns, Outcome
      <4> QED BY <1>0, <4>2
    <3> QED BY <3>1
  <2>4. PICK o \in FollowedUp(g, RootTold(g), work \ {w}, w.left, driven) : Becomes(o)
    BY <2>1, <2>3
  <2>5. graph' = o.graph /\ alone' = alone /\ o.driven /\ Tasks(o.work) = {}
    BY <2>4 DEF Becomes, Turns, Tasks
  <2> QED BY <2>2, <2>4, <2>5, FollowedUpRests
<1>8. ASSUME NEW w \in work, NEW outcome \in Outcomes, RestartInAccept(w, outcome)
      PROVE  ~driven'
  BY <1>8 DEF RestartInAccept, Crash, Becomes, Turns, Outcome
<1>9. ASSUME graph' = graph, alone' = alone, driven' = driven, work \subseteq work'
      PROVE  Rested(graph, alone)'
  BY <1>0, <1>9 DEF Tasks
<1>10. CASE UNCHANGED vars
  BY <1>9, <1>10 DEF vars
<1> QED BY <1>1, <1>2, <1>3, <1>4, <1>5, <1>6, <1>7, <1>8, <1>9, <1>10 DEF Next

-----------------------------------------------------------------------------
(* The theorems.                                                           *)

\* The parts of the invariant hold together in every state of a graph run.
THEOREM Invariance == Spec => []Inv
<1>1. Init => Inv
  BY InitInv
<1>2. Inv /\ [Next]_vars => Inv'
  BY Step
<1> QED BY <1>1, <1>2, PTL DEF Spec

\* The variables have their types, the number of every order included.
THEOREM TypeCorrect == Spec => []TypeOK
<1>1. Inv => TypeOK
  <2> SUFFICES ASSUME Inv PROVE TypeOK
    OBVIOUS
  <2>1. graph \in LoopStates /\ graph.seq \in Nat /\ graph.seq <= MaxDispatches
    BY DEF Inv, Consistent, LoopStates
  <2>2. \A k \in Nat : k <= graph.seq => k \in Orders \cup {0}
    BY <2>1, GraphBounds DEF Orders
  <2>3. /\ graph.active \in [Nodes -> Orders \cup {0}]
        /\ graph.result \in [Nodes -> Orders \cup {0}]
        /\ graph.seq \in Orders \cup {0}
    <3>1. graph.active \in [Nodes -> Nat] /\ graph.result \in [Nodes -> Nat]
      BY <2>1 DEF LoopStates
    <3>2. \A n \in Nodes : graph.active[n] <= graph.seq /\ graph.result[n] <= graph.seq
      BY DEF Inv, Consistent, OrdersFit
    <3> QED BY <2>1, <2>2, <3>1, <3>2
  <2>4. graph \in GraphStates
    BY <2>1, <2>3 DEF LoopStates, GraphStates
  <2>5. work \subseteq Executions
    <3> SUFFICES ASSUME NEW w \in work PROVE w \in Executions
      OBVIOUS
    <3>1. w \in WorkRecords /\ 0 < w.order /\ w.order <= graph.seq
      BY DEF Inv, TasksFit
    <3>2. w.order \in Orders
      BY <2>1, <3>1, GraphBounds DEF WorkRecords, Orders
    <3> QED BY <3>1, <3>2 DEF WorkRecords, Executions
  <2>6. alone \in [Nodes -> Orders \cup {0}]
    <3>1. alone \in [Nodes -> Nat] /\ \A n \in Nodes : alone[n] <= graph.seq
      BY DEF Inv, Consistent, SinceFits
    <3> QED BY <2>2, <3>1
  <2> QED BY <2>4, <2>5, <2>6 DEF Inv, TypeOK
<1> QED BY <1>1, Invariance, PTL

\* However often a run is submitted, paused, resumed and followed up, an order
\* has one background task.
THEOREM OneTask == Spec => []OneTaskPerOrder
<1>1. Inv => OneTaskPerOrder
  BY DEF Inv, TasksFit, OneTaskPerOrder
<1> QED BY <1>1, Invariance, PTL

\* The nodes that run are the nodes with an order, through requeues, replays,
\* refused results and restarts.
THEOREM RunningNodesHaveOrders == Spec => []RunningHasOrder
<1>1. Inv => RunningHasOrder
  BY DEF Inv, Consistent, OrdersFit, RunningHasOrder
<1> QED BY <1>1, Invariance, PTL

\* A completed node is completed on the present results of the nodes it
\* depends on, whatever was requeued while it ran, but for nodes a client
\* requeued alone after it was begun (loop.py, _state_after_revision_requeue).
THEOREM PresentInputs == Spec => []CompletedOnPresentInputs
<1>1. Inv => CompletedOnPresentInputs
  <2> SUFFICES ASSUME Inv, NEW e \in Edges \ Outdated, graph.node[e[2]] = "completed"
               PROVE  /\ graph.node[e[1]] = "completed"
                      /\ 0 < graph.result[e[1]]
                      /\ graph.result[e[1]] < graph.result[e[2]]
    BY DEF CompletedOnPresentInputs
  <2>1. ~(OrderOf(graph, e[2]) <= alone[e[1]])
    BY DEF Outdated, OutdatedIn
  <2>2. graph.node[e[1]] = "completed" /\ graph.result[e[1]] < graph.result[e[2]]
    BY <2>1 DEF Inv, Consistent, EdgesFit, OrderOf
  <2> QED BY <2>2, EdgeEnds DEF Inv, Consistent, ResultsFit
<1> QED BY <1>1, Invariance, PTL

\* A graph run implements DependencyOrder: the step of every request, task and
\* restart is one of its steps or leaves the stages alone.
THEOREM Refinement == Spec => KeepsDependencyOrder
<1>1. Init => Order!Init
  BY InitInv
<1>2. Inv /\ [Next]_vars => [Order!Next]_<<StageOf(graph), Outdated>>
  <2> SUFFICES ASSUME Inv, [Next]_vars
               PROVE  Order!Next \/ (graph' = graph /\ alone' = alone)
    BY DEF StageOf, Outdated, OutdatedIn, OrderOf
  <2> QED BY Step, OrderStepIs
<1> QED BY <1>1, <1>2, Invariance, PTL DEF Spec, KeepsDependencyOrder, Order!Spec

\* So no node is in progress or done while one it depends on is not done, but
\* for nodes requeued alone: what DependencyOrder says follows from it.
THEOREM DoneInOrder == Spec => []Order!Ordered
<1>1. Inv => Order!Ordered
  <2> SUFFICES ASSUME Inv, NEW m \in Nodes, NEW n \in Nodes, <<m, n>> \in Edges \ Outdated,
                      StageOf(graph)[n] # "todo"
               PROVE  StageOf(graph)[m] = "done"
    BY DEF Order!Ordered
  <2>1. graph.node[n] \in {"running", "completed"}
    BY DEF StageOf
  <2>2. ~(OrderOf(graph, n) <= alone[m])
    BY <2>1 DEF Outdated, OutdatedIn
  <2>3. graph.node[m] = "completed"
    BY <2>1, <2>2 DEF Inv, Consistent, EdgesFit
  <2> QED BY <2>3, DoneIs
<1> QED BY <1>1, Invariance, PTL

\* A run that is closed has no order left, so that validate lets its checkpoint
\* pass, whatever was requeued, replayed or refused (loop.py, status_snapshot).
THEOREM ClosedRunsAreSettled == Spec => []ClosedHasNoOrder
<1>1. Init => Sound(graph, alone)
  BY InitSound
<1>2. Inv /\ Sound(graph, alone) /\ [Next]_vars => Sound(graph, alone)'
  BY RootStep
<1>3. Sound(graph, alone) => ClosedHasNoOrder
  BY DEF Sound, Settled, ClosedHasNoOrder
<1> QED BY <1>1, <1>2, <1>3, Invariance, PTL DEF Spec

\* A root that says completed has a completed graph, if every node leads to a
\* terminal one: otherwise dispatch-ready may reopen a completed run.  It may
\* also where a completed node rests on one that was requeued alone, and the
\* property names that case (loop.py, dispatch_ready_and_checkpoint).
THEOREM RootIsTrue ==
  ASSUME AllLeadToTerminals
  PROVE  Spec => []RootCompletedIsTrue
<1>1. Init => Sound(graph, alone) /\ RootTrue(root, graph, alone)
  BY InitSound
<1>2. Inv /\ Sound(graph, alone) /\ RootTrue(root, graph, alone) /\ [Next]_vars
        => Sound(graph, alone)' /\ RootTrue(root, graph, alone)'
  BY RootStep
<1>3. RootTrue(root, graph, alone) => RootCompletedIsTrue
  BY DEF RootTrue, Overtaken, Outdated, RootCompletedIsTrue
<1> QED BY <1>1, <1>2, <1>3, Invariance, PTL DEF Spec

\* A run a submission started does not stand still unseen, if no node depends
\* on itself: the task that ends last follows up whatever is left to do
\* (background_supervisor.py, _execute_order_and_schedule_next).  What it may
\* leave open waits for a node that failed after it was requeued alone.
THEOREM RunsDoNotStall ==
  ASSUME Acyclic
  PROVE  Spec => []NoSilentStall
<1>1. Init => Sound(graph, alone) /\ NoSilentStall
  BY InitSound DEF Init, NoSilentStall
<1>2. Inv /\ Sound(graph, alone) /\ NoSilentStall /\ [Next]_vars
        => Sound(graph, alone)' /\ NoSilentStall'
  BY RootStep, StallStep
<1> QED BY <1>1, <1>2, Invariance, PTL DEF Spec
=============================================================================
