------------------- MODULE SessionDispatchDelivery_proofs -------------------
(***************************************************************************)
(* Proofs about where the messages of a session end up: a dispatched one   *)
(* in the run or the turn its record names, a queued one never forgotten.  *)
(***************************************************************************)
EXTENDS SessionDispatchRuns_proofs

-----------------------------------------------------------------------------
(* What a step may do to a run: once created it keeps its item, and its    *)
(* task, for as long as the process lives.                                 *)

RunsGoOn ==
  \A r \in Runs :
    /\ run'[r].status = "absent" => /\ run[r].status = "absent"
                                    /\ run'[r].item = run[r].item
                                    /\ run'[r].task = run[r].task
    /\ run[r].status # "absent" => run'[r].item = run[r].item
    /\ run[r].task # "none" /\ life' = life => run'[r].task # "none"

LEMMA CreatedGoesOn ==
  ASSUME TypeOK, UnbornIsNew, NEW q \in Runs, NEW item,
         CreateAndSchedule(q, item) \/ CreateAndRaise(q, item)
  PROVE  RunsGoOn
<1>1. /\ run[q].status = "absent" /\ run'[q].status # "absent"
      /\ \A r \in Runs \ {q} :
           /\ run'[r].item = run[r].item /\ run'[r].status = run[r].status
           /\ run'[r].task = run[r].task
  BY Created
<1>2. run[q].task = "none"  BY <1>1 DEF UnbornIsNew
<1> QED BY <1>1, <1>2 DEF RunsGoOn

LEMMA CellGoesOn ==
  ASSUME TypeOK, SpawnedOnce, UnbornIsNew, NEW r \in Runs,
         CellStep(r) \/ TaskStep(r) \/ AbandonSteers(r) \/ Interrupted(r)
  PROVE  RunsGoOn
<1>0. /\ run \in [Runs -> RunRecords] /\ \A s \in Runs : run[s] \in RunRecords
  BY DEF TypeOK
<1>1. CASE run' = run
  BY <1>1 DEF RunsGoOn
<1>2. CASE CellBegins(r) \/ Complete(r) \/ Unwind(r) \/ SetDone(r) \/ OnDone(r)
           \/ Interrupted(r)
  <2>1. \A s \in Runs \ {r} : run'[s] = run[s]
    BY <1>0, <1>2 DEF CellBegins, Complete, Unwind, SetDone, OnDone, Interrupted
  <2>2. run'[r].item = run[r].item /\ run'[r].task = run[r].task
    BY <1>0, <1>2 DEF CellBegins, Complete, Unwind, SetDone, OnDone, Interrupted,
                      RunRecords
  <2>3. run[r].status # "absent"
    BY <1>2 DEF SpawnedOnce, CellBegins, Complete, Unwind, SetDone, OnDone, Interrupted
  <2>4. run'[r].status # "absent"
    <3>1. CASE CellBegins(r) \/ Complete(r) \/ Interrupted(r)
      BY <1>0, <3>1 DEF CellBegins, Complete, Interrupted, RunRecords
    <3>2. CASE SetDone(r) \/ OnDone(r)
      BY <1>0, <2>3, <3>2 DEF SetDone, OnDone, RunRecords
    <3>3. CASE Unwind(r)
      BY <1>0, <2>3, <3>3 DEF Unwind, RunRecords
    <3> QED BY <1>2, <3>1, <3>2, <3>3
  <2> QED BY <2>1, <2>2, <2>3, <2>4 DEF RunsGoOn
<1>3. CASE BindTask(r) \/ TaskParks(r) \/ TaskPauses(r) \/ TaskEnds(r)
           \/ AbandonSteers(r)
  <2>1. run[r].status # "absent"
    BY <1>3 DEF SpawnedOnce, UnbornIsNew, BindTask, TaskParks, TaskPauses, TaskEnds,
                AbandonSteers, LiveTasks
  <2>2. /\ \A s \in Runs \ {r} : run'[s] = run[s]
        /\ run'[r].item = run[r].item /\ run'[r].status = run[r].status
        /\ run'[r].task # "none"
    BY <1>0, <1>3 DEF BindTask, TaskParks, TaskPauses, TaskEnds, AbandonSteers, RunRecords
  <2> QED BY <2>1, <2>2 DEF RunsGoOn
<1>4. CASE TaskStarts(r)
  <2>1. /\ \A s \in Runs : run'[s].item = run[s].item /\ run'[s].status = run[s].status
        /\ \A s \in Runs \ {r} : run'[s].task = run[s].task
        /\ run'[r].task = "running" /\ run[r].task = "waiting"
    BY <1>0, <1>4 DEF TaskStarts, Supervised, RunRecords
  <2>2. run[r].status # "absent"  BY <2>1 DEF UnbornIsNew
  <2> QED BY <2>1, <2>2 DEF RunsGoOn
<1> QED BY <1>1, <1>2, <1>3, <1>4
        DEF CellStep, TaskStep, StartTurn, ClaimSteers, MarkSteer

LEMMA RestartGoesOn ==
  ASSUME TypeOK, UnbornIsNew, Restart
  PROVE  RunsGoOn
<1>1. life' # life
  <2>1. life' = life + 1  BY DEF Restart
  <2>2. life \in 0 .. MaxCrashes  BY DEF TypeOK
  <2> QED BY <2>1, <2>2, NaturalBounds
<1>2. \A r \in Runs :
        /\ run'[r].item = run[r].item /\ run'[r].task = "none"
        /\ run'[r].status = "absent" => run[r].status = "absent"
  BY DEF Restart, TypeOK, RunRecords
<1> QED BY <1>1, <1>2 DEF RunsGoOn, UnbornIsNew

LEMMA NextGoesOn ==
  ASSUME TypeOK, SpawnedOnce, UnbornIsNew, [Next]_vars
  PROVE  RunsGoOn
<1>1. CASE run' = run
  BY <1>1 DEF RunsGoOn
<1>2. ASSUME NEW i \in Items,
             \/ PostQueued(i) \/ PostRunBusy(i) \/ PostRunFree(i)
             \/ HandlerStep(i) \/ CancelCheck(i) \/ CancelWrite(i) \/ Age(i)
      PROVE  RunsGoOn
  BY <1>1, <1>2, CreatedGoesOn
     DEF PostQueued, PostRunBusy, PostRunFree, HandlerStep, DoEnqueue, Recheck,
         CancelCheck, CancelWrite, Age
<1>3. ASSUME NEW d \in Coroutines, CoroutineStep(d)
      PROVE  RunsGoOn
  BY <1>1, <1>3, CreatedGoesOn
     DEF CoroutineStep, DoReset, DoList, Decide, DoRetarget, DoClaimAuto,
         DoClaimSteer, Start, DoMark, DoFail
<1> QED BY <1>1, <1>2, <1>3, CellGoesOn, RestartGoesOn DEF Next, vars

LEMMA UnbornInvariant == Spec => []UnbornIsNew
<1>1. Init => UnbornIsNew
  BY DEF Init, UnbornIsNew, NoRun
<1>2. TypeOK /\ SpawnedOnce /\ UnbornIsNew /\ [Next]_vars => UnbornIsNew'
  BY NextGoesOn DEF RunsGoOn, UnbornIsNew
<1> QED BY <1>1, <1>2, TypeCorrect, SpawnInvariant, PTL DEF Spec

-----------------------------------------------------------------------------
(* A dispatched message went where its record says.                        *)

(* A dispatched input's record is true; what a coroutine holds is aimed at *)
(* its run.                                                                *)
Arrived(i) ==
  /\ store[i].ref # None
  /\ IF store[i].policy = "steer" THEN store[i].turn = store[i].ref
                                  ELSE run[store[i].ref].item = i

AimedAtRun(d) ==
  /\ store[co[d].item].policy = "auto"
  /\ co[d].pc = "mark" => run[co[d].run].item = co[d].item

(* A method of the store that re-aims no input that has left the queue,    *)
(* and one that reports none as dispatched besides.                        *)
KeepsAim(st, new) ==
  \A j \in Items : st[j].status \notin {"absent", "queued"} =>
    new[j].policy = st[j].policy /\ new[j].turn = st[j].turn

ReportsNone(st, new) ==
  \A j \in Items : new[j].status = "dispatched" =>
    st[j].status = "dispatched" /\ new[j].ref = st[j].ref

Passes(st, new) == KeepsAim(st, new) /\ ReportsNone(st, new)

LEMMA StorePasses ==
  ASSUME NEW st \in [Items -> ItemRecords]
  PROVE  /\ Passes(st, st)
         /\ Passes(st, ResetStale(st))
         /\ \A i \in Items :
              /\ \A p, t, b : Passes(st, Enqueue(st, i, p, t, b))
              /\ st[i].status = "queued" => Passes(st, Claim(st, i))
              /\ st[i].status = "queued" =>
                   \A p, t, b : Passes(st, Retarget(st, i, p, t, b))
              /\ \A ref : Passes(st, UpdateItem(st, i, "failed", ref))
              /\ \A ref : Passes(st, UpdateItem(st, i, "canceled", ref))
              /\ \A ref : KeepsAim(st, UpdateItem(st, i, "dispatched", ref))
         /\ \A t, b : Passes(st, ClaimForActiveTurn(st, t, b))
<1>1. Passes(st, st) /\ Passes(st, ResetStale(st))
  BY DEF Passes, KeepsAim, ReportsNone, ResetStale, StaleItems, ItemRecords
<1>2. ASSUME NEW i \in Items, NEW p, NEW t, NEW b
      PROVE  Passes(st, Enqueue(st, i, p, t, b))
  BY DEF Passes, KeepsAim, ReportsNone, Enqueue, ItemRecords
<1>3. ASSUME NEW i \in Items, st[i].status = "queued"
      PROVE  Passes(st, Claim(st, i))
  BY <1>3 DEF Passes, KeepsAim, ReportsNone, Claim, ItemRecords
<1>4. ASSUME NEW i \in Items, st[i].status = "queued", NEW p, NEW t, NEW b
      PROVE  Passes(st, Retarget(st, i, p, t, b))
  BY <1>4 DEF Passes, KeepsAim, ReportsNone, Retarget, ItemRecords
<1>5. ASSUME NEW i \in Items, NEW u \in {"failed", "canceled"}, NEW ref
      PROVE  Passes(st, UpdateItem(st, i, u, ref))
  BY DEF Passes, KeepsAim, ReportsNone, UpdateItem, ItemRecords
<1>6. ASSUME NEW i \in Items, NEW ref
      PROVE  KeepsAim(st, UpdateItem(st, i, "dispatched", ref))
  BY DEF KeepsAim, UpdateItem, ItemRecords
<1>7. ASSUME NEW t, NEW b
      PROVE  Passes(st, ClaimForActiveTurn(st, t, b))
  <2>1. \A i \in Items :
          ClaimForActiveTurn(st, t, b)[i] =
            IF i \in ClaimedForTurn(st, t, b)
            THEN [st[i] EXCEPT !.status = "dispatching", !.policy = "steer",
                               !.turn = t, !.bound = b \/ @, !.old = FALSE]
            ELSE st[i]
    BY DEF ClaimForActiveTurn
  <2>2. \A i \in ClaimedForTurn(st, t, b) : st[i].status = "queued"
    BY DEF ClaimedForTurn, MatchesTurn
  <2> QED BY <2>1, <2>2 DEF Passes, KeepsAim, ReportsNone, ItemRecords
<1> QED BY <1>1, <1>2, <1>3, <1>4, <1>5, <1>6, <1>7

(* No coroutine comes to hold an input for a run, no loop one for a turn.  *)
SameWork(d) == /\ co[d].pc = co'[d].pc /\ co[d].item = co'[d].item
               /\ co[d].run = co'[d].run

NothingAimed ==
  /\ \A d \in Coroutines : co'[d].pc \in {"start", "mark"} => SameWork(d)
  /\ \A r \in Runs : steering'[r] \subseteq steering[r]

LEMMA HeldFrame ==
  ASSUME TypeOK, ClaimInv, DeliveryInv, UnbornIsNew, RunsGoOn, KeepsAim(store, store'),
         NEW d \in Coroutines, co[d].pc \in {"start", "mark"}, SameWork(d)
  PROVE  AimedAtRun(d)'
<1>1. PICK i \in Items : co[d].item = i /\ Holds(d, i)
  BY DEF TypeOK, InHand, WorkingPcs, HoldingPcs, Holds
<1>2. store[i].status \in {"dispatching", "canceled"} /\ store[i].policy = "auto"
  BY <1>1 DEF ClaimInv, HeldIsClaimed, Held, DeliveryInv, HeldIsAimed
<1>3. co[d].pc = "mark" => co[d].run \in Runs /\ run[co[d].run].item = i
  BY <1>1 DEF TypeOK, InHand, DeliveryInv, HeldIsAimed
<1>4. \A r \in Runs : run[r].item = i => run'[r].item = i
  BY NoneIsNoReference DEF RunsGoOn, UnbornIsNew
<1> QED BY <1>1, <1>2, <1>3, <1>4 DEF KeepsAim, AimedAtRun, SameWork

LEMMA SteerFrame ==
  ASSUME ClaimInv, DeliveryInv, KeepsAim(store, store'),
         NEW r \in Runs, NEW i \in Items, i \in steering[r]
  PROVE  store'[i].policy = "steer" /\ store'[i].turn = r
<1>1. store[i].status \in {"dispatching", "canceled"}
  BY DEF ClaimInv, HeldIsClaimed, Held
<1>2. store[i].policy = "steer" /\ store[i].turn = r
  BY DEF DeliveryInv, HeldIsAimed
<1> QED BY <1>1, <1>2 DEF KeepsAim

LEMMA ArrivedFrame ==
  ASSUME TypeOK, DeliveryInv, UnbornIsNew, RunsGoOn, KeepsAim(store, store'),
         NEW i \in Items, store[i].status = "dispatched", store'[i].ref = store[i].ref
  PROVE  Arrived(i)'
<1>1. store[i].ref \in Runs /\ Arrived(i)
  BY DEF DeliveryInv, DispatchedWhereItSays, TypeOK, ItemRecords, Arrived
<1>2. \A r \in Runs : run[r].item = i => run'[r].item = i
  BY NoneIsNoReference DEF RunsGoOn, UnbornIsNew
<1> QED BY <1>1, <1>2, NoneIsNoReference DEF KeepsAim, Arrived

(* What a step must show: that what is newly held is aimed, and what is    *)
(* newly dispatched has arrived.                                           *)
CoroutinesAimed ==
  \A d \in Coroutines : co'[d].pc \in {"start", "mark"} =>
    SameWork(d) \/ AimedAtRun(d)'

LoopsAimed ==
  \A r \in Runs : \A i \in steering'[r] :
    i \in steering[r] \/ (store'[i].policy = "steer" /\ store'[i].turn = r)

ReportsTrue ==
  \A i \in Items : store'[i].status = "dispatched" =>
    \/ store[i].status = "dispatched" /\ store'[i].ref = store[i].ref
    \/ Arrived(i)'

LEMMA NothingAimedFrame == NothingAimed => CoroutinesAimed /\ LoopsAimed
<1>1. NothingAimed => CoroutinesAimed  BY DEF NothingAimed, CoroutinesAimed
<1>2. NothingAimed => LoopsAimed  BY DEF NothingAimed, LoopsAimed
<1> QED BY <1>1, <1>2

LEMMA DeliveryFrame ==
  ASSUME TypeOK, ClaimInv, DeliveryInv, UnbornIsNew, RunsGoOn, KeepsAim(store, store'),
         CoroutinesAimed, LoopsAimed, ReportsTrue
  PROVE  DeliveryInv'
<1>1. ASSUME NEW d \in Coroutines, co'[d].pc \in {"start", "mark"}
      PROVE  AimedAtRun(d)'
  <2>1. SameWork(d) => co[d].pc \in {"start", "mark"}  BY <1>1 DEF SameWork
  <2> QED BY <1>1, <2>1, HeldFrame DEF CoroutinesAimed
<1>2. ASSUME NEW r \in Runs, NEW i \in steering'[r]
      PROVE  store'[i].policy = "steer" /\ store'[i].turn = r
  <2>1. i \in steering[r] => i \in Items  BY DEF TypeOK
  <2> QED BY <1>2, <2>1, SteerFrame DEF LoopsAimed
<1>3. ASSUME NEW i \in Items, store'[i].status = "dispatched"
      PROVE  Arrived(i)'
  BY <1>3, ArrivedFrame DEF ReportsTrue
<1>4. DeliveryInv' <=>
        /\ \A d \in Coroutines : co'[d].pc \in {"start", "mark"} => AimedAtRun(d)'
        /\ \A r \in Runs : \A i \in steering'[r] :
             store'[i].policy = "steer" /\ store'[i].turn = r
        /\ \A i \in Items : store'[i].status = "dispatched" => Arrived(i)'
  BY DEF DeliveryInv, HeldIsAimed, DispatchedWhereItSays, AimedAtRun, Arrived
<1> QED BY <1>1, <1>2, <1>3, <1>4

LEMMA QuietFrame ==
  ASSUME TypeOK, ClaimInv, DeliveryInv, UnbornIsNew, RunsGoOn,
         Passes(store, store'), NothingAimed
  PROVE  DeliveryInv'
<1>1. KeepsAim(store, store') /\ ReportsTrue
  BY DEF Passes, ReportsNone, ReportsTrue
<1> QED BY <1>1, NothingAimedFrame, DeliveryFrame

LEMMA QuietMove ==
  ASSUME TypeOK, NEW d \in Coroutines, NEW c, co' = [co EXCEPT ![d] = c],
         c.pc \notin {"start", "mark"}, steering' = steering
  PROVE  NothingAimed
<1>1. \A e \in Coroutines : co'[e] = IF e = d THEN c ELSE co[e]
  BY DEF TypeOK
<1> QED BY <1>1 DEF NothingAimed, SameWork

LEMMA QuietMoves ==
  ASSUME TypeOK, NEW d \in Coroutines, NEW pc \in Pcs \ {"start", "mark"},
         Finish(d) \/ GiveUp(d) \/ Continue(d) \/ Goto(d, pc), steering' = steering
  PROVE  NothingAimed
<1>0. co[d] \in CoRecords  BY DEF TypeOK
<1>1. CASE Finish(d) \/ GiveUp(d)
  <2>1. PICK c \in {Idle, GaveUp} : co' = [co EXCEPT ![d] = c]
    BY <1>1 DEF Finish, GiveUp
  <2>2. c.pc \notin {"start", "mark"}  BY DEF Idle, GaveUp
  <2> QED BY <2>1, <2>2, QuietMove
<1>2. CASE Continue(d)
  <2> DEFINE c == IF co[d].tries + 1 < MaxAttempts
                  THEN [Idle EXCEPT !.pc = "list", !.tries = co[d].tries + 1]
                  ELSE GaveUp
  <2>1. co' = [co EXCEPT ![d] = c]  BY <1>2 DEF Continue
  <2>2. c.pc \notin {"start", "mark"}  BY DEF Idle, GaveUp
  <2> HIDE DEF c
  <2> QED BY <2>1, <2>2, QuietMove
<1>3. CASE Goto(d, pc)
  <2>1. co' = [co EXCEPT ![d] = [co[d] EXCEPT !.pc = pc]]
    BY <1>3 DEF Goto
  <2>2. [co[d] EXCEPT !.pc = pc].pc \notin {"start", "mark"}
    BY <1>0 DEF CoRecords
  <2> QED BY <2>1, <2>2, QuietMove
<1> QED BY <1>1, <1>2, <1>3

LEMMA HandlerDelivery ==
  ASSUME TypeOK, ClaimInv, DeliveryInv, UnbornIsNew, RunsGoOn, NEW i \in Items,
         PostQueued(i) \/ PostRunBusy(i) \/ PostRunFree(i) \/ HandlerStep(i)
  PROVE  DeliveryInv'
<1>0. i \in Coroutines /\ store \in [Items -> ItemRecords] /\ Passes(store, store)
  BY StorePasses DEF Coroutines, TypeOK
<1>1. CASE PostQueued(i) \/ PostRunBusy(i)
  <2>1. PICK pc \in {"enqueue", "enqueueChat"} :
          co' = [co EXCEPT ![i] = Admitted(i, pc)]
    BY <1>1 DEF PostQueued, PostRunBusy
  <2>2. Admitted(i, pc).pc \notin {"start", "mark"}
    BY DEF Admitted, Idle
  <2>3. NothingAimed
    BY <1>0, <1>1, <2>1, <2>2, QuietMove DEF PostQueued, PostRunBusy
  <2> QED BY <1>0, <1>1, <2>3, QuietFrame DEF PostQueued, PostRunBusy
<1>2. CASE PostRunFree(i)
  <2>1. store' = store /\ co' = co /\ steering' = steering
    BY <1>2 DEF PostRunFree
  <2>2. NothingAimed  BY <2>1 DEF NothingAimed, SameWork
  <2> QED BY <1>0, <2>1, <2>2, QuietFrame
<1>3. CASE DoEnqueue(i)
  <2> DEFINE c == [Idle EXCEPT !.pc = IF co[i].pc = "enqueue" THEN "reset" ELSE "recheck"]
  <2>1. co' = [co EXCEPT ![i] = c] /\ steering' = steering
    BY <1>3 DEF DoEnqueue
  <2>2. c.pc \notin {"start", "mark"}  BY DEF Idle
  <2> HIDE DEF c
  <2>3. NothingAimed  BY <1>0, <2>1, <2>2, QuietMove
  <2>4. Passes(store, store')  BY <1>0, <1>3, StorePasses DEF DoEnqueue
  <2> QED BY <2>3, <2>4, QuietFrame
<1>4. CASE Recheck(i)
  <2>1. Finish(i) \/ Goto(i, "reset")  BY <1>4 DEF Recheck
  <2>2. steering' = steering /\ store' = store  BY <1>4 DEF Recheck
  <2>3. "reset" \in Pcs \ {"start", "mark"}  BY DEF Pcs
  <2>4. NothingAimed  BY <1>0, <2>1, <2>2, <2>3, QuietMoves
  <2> QED BY <1>0, <2>2, <2>4, QuietFrame
<1> QED BY <1>1, <1>2, <1>3, <1>4 DEF HandlerStep

(* A claim aims the input at the run its coroutine will start.             *)
LEMMA ClaimNextDelivery ==
  ASSUME TypeOK, ClaimInv, DeliveryInv, UnbornIsNew, RunsGoOn, NEW d \in Coroutines,
         \/ ClaimNext(d, "auto", "start")
         \/ ClaimNext(d, "steer", "failSteer"),
         steering' = steering
  PROVE  DeliveryInv'
<1>0. /\ store \in [Items -> ItemRecords] /\ Passes(store, store)
      /\ co[d] \in CoRecords
  BY StorePasses DEF TypeOK
<1>1. CASE Continue(d) /\ store' = store
  <2>1. "list" \in Pcs \ {"start", "mark"}  BY DEF Pcs
  <2>2. NothingAimed  BY <1>1, <2>1, QuietMoves
  <2> QED BY <1>0, <1>1, <2>2, QuietFrame
<1>2. ASSUME NEW i \in Items, NEW policy, NEW pc,
             \/ policy = "auto" /\ pc = "start"
             \/ policy = "steer" /\ pc = "failSteer",
             IsFirst(store, Claimable(store, policy), i), store' = Claim(store, i),
             co' = [co EXCEPT ![d] = [@ EXCEPT !.pc = pc, !.item = i]]
      PROVE  DeliveryInv'
  <2>1. store[i].status = "queued" /\ store[i].policy = policy
    BY <1>2 DEF IsFirst, Claimable, Queued
  <2>2. KeepsAim(store, store') /\ ReportsNone(store, store')
    BY <1>0, <1>2, <2>1, StorePasses DEF Passes
  <2>3. store'[i].policy = policy
    BY <1>0, <1>2, <2>1 DEF Claim, ItemRecords
  <2>4. /\ co'[d].pc = pc /\ co'[d].item = i
        /\ \A e \in Coroutines \ {d} : co'[e] = co[e]
    BY <1>0, <1>2 DEF TypeOK, CoRecords
  <2>5. co'[d].pc \in {"start", "mark"} => AimedAtRun(d)'
    BY <1>2, <2>3, <2>4 DEF AimedAtRun
  <2>6. CoroutinesAimed
    BY <2>4, <2>5 DEF SameWork, CoroutinesAimed
  <2>7. LoopsAimed /\ ReportsTrue
    BY <2>2 DEF LoopsAimed, ReportsNone, ReportsTrue
  <2> QED BY <2>2, <2>6, <2>7, DeliveryFrame
<1>3. CASE ClaimNext(d, "auto", "start")
  BY <1>1, <1>2, <1>3 DEF ClaimNext
<1>4. CASE ClaimNext(d, "steer", "failSteer")
  BY <1>1, <1>2, <1>4 DEF ClaimNext
<1> QED BY <1>3, <1>4

LEMMA StartDelivery ==
  ASSUME TypeOK, ClaimInv, DeliveryInv, UnbornIsNew, RunsGoOn,
         NEW d \in Coroutines, Start(d)
  PROVE  DeliveryInv'
<1>0. /\ store \in [Items -> ItemRecords] /\ Passes(store, store)
      /\ co[d] \in CoRecords /\ co[d].item \in Items
      /\ store' = store /\ steering' = steering /\ co[d].pc = "start"
  BY StorePasses DEF TypeOK, Start, InHand, WorkingPcs, HoldingPcs
<1>1. CASE Goto(d, "failStart")
  <2>1. "failStart" \in Pcs \ {"start", "mark"}  BY DEF Pcs
  <2>2. NothingAimed  BY <1>0, <1>1, <2>1, QuietMoves
  <2> QED BY <1>0, <2>2, QuietFrame
<1>2. ASSUME NEW r \in Runs, CreateAndSchedule(r, co[d].item),
             co' = [co EXCEPT ![d] = [@ EXCEPT !.pc = "mark", !.run = r]]
      PROVE  DeliveryInv'
  <2>1. run'[r].item = co[d].item  BY <1>2, Created
  <2>2. /\ co'[d].pc = "mark" /\ co'[d].item = co[d].item /\ co'[d].run = r
        /\ \A e \in Coroutines \ {d} : co'[e] = co[e]
    BY <1>0, <1>2 DEF TypeOK, CoRecords
  <2>3. store[co[d].item].policy = "auto"
    BY <1>0 DEF DeliveryInv, HeldIsAimed
  <2>4. AimedAtRun(d)'  BY <1>0, <2>1, <2>2, <2>3 DEF AimedAtRun
  <2>5. CoroutinesAimed
    BY <2>2, <2>4 DEF SameWork, CoroutinesAimed
  <2>6. KeepsAim(store, store') /\ LoopsAimed /\ ReportsTrue
    BY <1>0 DEF Passes, LoopsAimed, ReportsTrue
  <2> QED BY <2>5, <2>6, DeliveryFrame
<1> QED BY <1>1, <1>2 DEF Start

(* A mark: the one place where an input becomes dispatched.                *)
LEMMA MarkDelivery ==
  ASSUME TypeOK, ClaimInv, DeliveryInv, UnbornIsNew, RunsGoOn, NothingAimed,
         NEW i \in Items, NEW r \in Runs, store' = MarkDispatched(store, i, r),
         \/ store[i].policy = "auto" /\ run'[r].item = i
         \/ store[i].policy = "steer" /\ store[i].turn = r
  PROVE  DeliveryInv'
<1>1. store \in [Items -> ItemRecords]  BY DEF TypeOK
<1>2. KeepsAim(store, store')  BY <1>1, StorePasses DEF MarkDispatched
<1>3. /\ store'[i].ref = r /\ store'[i].policy = store[i].policy
      /\ store'[i].turn = store[i].turn
      /\ \A j \in Items \ {i} : store'[j] = store[j]
  BY <1>1 DEF MarkDispatched, UpdateItem, ItemRecords
<1>4. Arrived(i)'  BY <1>3, NoneIsNoReference DEF Arrived
<1>5. ReportsTrue
  BY <1>3, <1>4 DEF ReportsTrue
<1> QED BY <1>2, <1>5, NothingAimedFrame, DeliveryFrame

LEMMA CoroutineDelivery ==
  ASSUME TypeOK, ClaimInv, DeliveryInv, UnbornIsNew, RunsGoOn,
         NEW d \in Coroutines, CoroutineStep(d)
  PROVE  DeliveryInv'
<1>0. /\ store \in [Items -> ItemRecords] /\ Passes(store, store)
      /\ co[d] \in CoRecords /\ InHand(co[d])
  BY StorePasses DEF TypeOK
<1>1. {"list", "claimAuto", "claimSteer"} \subseteq Pcs \ {"start", "mark"}
  BY DEF Pcs
<1>2. CASE DoReset(d)
  <2>1. NothingAimed  BY <1>1, <1>2, QuietMoves DEF DoReset
  <2>2. Passes(store, store')  BY <1>0, <1>2, StorePasses DEF DoReset
  <2> QED BY <2>1, <2>2, QuietFrame
<1>3. CASE DoList(d)
  <2>0. store' = store /\ steering' = steering  BY <1>3 DEF DoList
  <2>1. CASE Finish(d)
    <3>1. NothingAimed  BY <1>1, <2>0, <2>1, QuietMoves
    <3> QED BY <1>0, <2>0, <3>1, QuietFrame
  <2>2. ASSUME NEW i \in Items,
               co' = [co EXCEPT ![d] = [@ EXCEPT
                !.pc = "decide", !.item = i, !.policy = store[i].policy,
                !.turn = store[i].turn, !.bound = store[i].bound]]
        PROVE  DeliveryInv'
    <3> DEFINE c == [co[d] EXCEPT
                !.pc = "decide", !.item = i, !.policy = store[i].policy,
                !.turn = store[i].turn, !.bound = store[i].bound]
    <3>1. co' = [co EXCEPT ![d] = c]  BY <2>2
    <3>2. c.pc \notin {"start", "mark"}  BY <1>0 DEF CoRecords
    <3> HIDE DEF c
    <3>3. NothingAimed  BY <2>0, <3>1, <3>2, QuietMove
    <3> QED BY <1>0, <2>0, <3>3, QuietFrame
  <2> QED BY <1>3, <2>1, <2>2 DEF DoList
<1>4. CASE Decide(d)
  <2>0. store' = store /\ steering' = steering  BY <1>4 DEF Decide
  <2>1. CASE Finish(d) \/ Goto(d, "claimAuto") \/ Goto(d, "claimSteer")
    <3>1. NothingAimed  BY <1>1, <2>0, <2>1, QuietMoves
    <3> QED BY <1>0, <2>0, <3>1, QuietFrame
  <2>2. CASE co' = [co EXCEPT ![d] = [@ EXCEPT !.pc = "retarget",
                       !.turn = turn, !.bound = Bound(turn)]]
    <3> DEFINE c == [co[d] EXCEPT !.pc = "retarget", !.turn = turn,
                                  !.bound = Bound(turn)]
    <3>1. co' = [co EXCEPT ![d] = c]  BY <2>2
    <3>2. c.pc \notin {"start", "mark"}  BY <1>0 DEF CoRecords
    <3> HIDE DEF c
    <3>3. NothingAimed  BY <2>0, <3>1, <3>2, QuietMove
    <3> QED BY <1>0, <2>0, <3>3, QuietFrame
  <2> QED BY <1>4, <2>1, <2>2 DEF Decide
<1>5. CASE DoRetarget(d)
  <2>1. co[d].item \in Items
    BY <1>0, <1>5 DEF DoRetarget, InHand, WorkingPcs
  <2>2. Passes(store, store')
    BY <1>0, <1>5, <2>1, StorePasses DEF DoRetarget, Retargetable
  <2>3. NothingAimed  BY <1>1, <1>5, QuietMoves DEF DoRetarget
  <2> QED BY <2>2, <2>3, QuietFrame
<1>6. CASE DoClaimAuto(d) \/ DoClaimSteer(d)
  BY <1>6, ClaimNextDelivery DEF DoClaimAuto, DoClaimSteer
<1>7. CASE Start(d)
  BY <1>7, StartDelivery
<1>8. CASE DoMark(d)
  <2>1. NothingAimed  BY <1>1, <1>8, QuietMoves DEF DoMark
  <2>2. co[d].item \in Items /\ co[d].run \in Runs
    BY <1>0, <1>8 DEF DoMark, InHand, WorkingPcs, HoldingPcs
  <2>3. store[co[d].item].policy = "auto" /\ run[co[d].run].item = co[d].item
    BY <1>8 DEF DoMark, DeliveryInv, HeldIsAimed
  <2>4. run' = run /\ store' = MarkDispatched(store, co[d].item, co[d].run)
    BY <1>8 DEF DoMark
  <2> QED BY <2>1, <2>2, <2>3, <2>4, MarkDelivery
<1>9. CASE DoFail(d)
  <2>1. NothingAimed  BY <1>1, <1>9, QuietMoves DEF DoFail
  <2>2. co[d].item \in Items
    BY <1>0, <1>9 DEF DoFail, InHand, WorkingPcs, HoldingPcs
  <2>3. Passes(store, store')
    BY <1>0, <1>9, <2>2, StorePasses DEF DoFail, MarkFailed
  <2> QED BY <2>1, <2>3, QuietFrame
<1> QED BY <1>2, <1>3, <1>4, <1>5, <1>6, <1>7, <1>8, <1>9 DEF CoroutineStep

(* The loop of a turn claims inputs for its turn.                          *)
LEMMA ClaimSteersDelivery ==
  ASSUME TypeOK, ClaimInv, DeliveryInv, UnbornIsNew, RunsGoOn,
         NEW r \in Runs, ClaimSteers(r)
  PROVE  DeliveryInv'
<1> DEFINE taken == ClaimedForTurn(store, r, Bound(r))
<1>0. /\ store \in [Items -> ItemRecords] /\ co' = co
      /\ \A s \in Runs : steering'[s] = IF s = r THEN taken ELSE steering[s]
      /\ store' = ClaimForActiveTurn(store, r, Bound(r))
  BY DEF TypeOK, ClaimSteers
<1>1. KeepsAim(store, store') /\ ReportsTrue
  <2>1. Passes(store, store')  BY <1>0, StorePasses
  <2> QED BY <2>1 DEF Passes, ReportsNone, ReportsTrue
<1>2. \A i \in taken : store'[i].policy = "steer" /\ store'[i].turn = r
  <2>1. taken \subseteq Items  BY DEF ClaimedForTurn
  <2>2. \A i \in taken : store'[i] =
          [store[i] EXCEPT !.status = "dispatching", !.policy = "steer",
                           !.turn = r, !.bound = Bound(r) \/ @, !.old = FALSE]
    BY <1>0, <2>1 DEF ClaimForActiveTurn
  <2> QED BY <1>0, <2>1, <2>2 DEF ItemRecords
<1> HIDE DEF taken
<1>3. LoopsAimed
  BY <1>0, <1>2 DEF LoopsAimed
<1>4. CoroutinesAimed
  BY <1>0 DEF CoroutinesAimed, SameWork
<1> QED BY <1>1, <1>3, <1>4, DeliveryFrame

LEMMA MarkSteerDelivery ==
  ASSUME TypeOK, ClaimInv, DeliveryInv, UnbornIsNew, RunsGoOn,
         NEW r \in Runs, MarkSteer(r)
  PROVE  DeliveryInv'
<1>0. store \in [Items -> ItemRecords]  BY DEF TypeOK
<1>1. PICK i \in Items :
        /\ i \in steering[r]
        /\ store' = MarkDispatched(store, i, r) \/ store' = MarkFailed(store, i)
        /\ steering' = [steering EXCEPT ![r] = @ \ {i}]
        /\ co' = co
  BY DEF MarkSteer, IsFirst
<1>2. NothingAimed
  BY <1>1 DEF NothingAimed, SameWork, TypeOK
<1>3. store[i].policy = "steer" /\ store[i].turn = r
  BY <1>1 DEF DeliveryInv, HeldIsAimed
<1>4. CASE store' = MarkDispatched(store, i, r)
  BY <1>2, <1>3, <1>4, MarkDelivery
<1>5. CASE store' = MarkFailed(store, i)
  <2>1. Passes(store, store')  BY <1>0, <1>5, StorePasses DEF MarkFailed
  <2> QED BY <1>2, <2>1, QuietFrame
<1> QED BY <1>1, <1>4, <1>5

LEMMA CellDelivery ==
  ASSUME TypeOK, ClaimInv, DeliveryInv, UnbornIsNew, RunsGoOn, NEW r \in Runs,
         CellStep(r) \/ TaskStep(r) \/ AbandonSteers(r) \/ Interrupted(r)
  PROVE  DeliveryInv'
<1>0. Passes(store, store)  BY StorePasses DEF TypeOK
<1>1. CASE OnDone(r)
  <2>1. r \in Coroutines  BY DEF Coroutines
  <2>2. "reset" \in Pcs \ {"start", "mark"}  BY DEF Pcs
  <2>3. NothingAimed  BY <1>1, <2>1, <2>2, QuietMoves DEF OnDone
  <2> QED BY <1>0, <1>1, <2>3, QuietFrame DEF OnDone
<1>2. CASE \/ CellBegins(r) \/ StartTurn(r) \/ Complete(r) \/ Unwind(r) \/ SetDone(r)
           \/ TaskStep(r) \/ AbandonSteers(r) \/ Interrupted(r)
  <2>1. /\ store' = store /\ co' = co
        /\ \A s \in Runs : steering'[s] \subseteq steering[s]
    BY <1>2 DEF CellBegins, StartTurn, Complete, Unwind, SetDone, TaskStep, BindTask,
                TaskStarts, TaskParks, TaskPauses, TaskEnds, AbandonSteers, Interrupted,
                TypeOK
  <2>2. NothingAimed  BY <2>1 DEF NothingAimed, SameWork
  <2> QED BY <1>0, <2>1, <2>2, QuietFrame
<1> QED BY <1>1, <1>2, ClaimSteersDelivery, MarkSteerDelivery DEF CellStep

LEMMA UserDelivery ==
  ASSUME TypeOK, ClaimInv, DeliveryInv, UnbornIsNew, RunsGoOn, NEW i \in Items,
         CancelCheck(i) \/ CancelWrite(i) \/ Age(i)
  PROVE  DeliveryInv'
<1>0. store \in [Items -> ItemRecords]  BY DEF TypeOK
<1>1. co' = co /\ steering' = steering
  BY DEF CancelCheck, CancelWrite, Age
<1>2. NothingAimed  BY <1>1 DEF NothingAimed, SameWork
<1>3. Passes(store, store')
  <2>1. CASE CancelCheck(i)
    BY <1>0, <2>1, StorePasses DEF CancelCheck
  <2>2. CASE CancelWrite(i)
    BY <1>0, <2>2, StorePasses DEF CancelWrite, MarkCanceled
  <2>3. CASE Age(i)
    BY <1>0, <2>3 DEF Age, Passes, KeepsAim, ReportsNone, ItemRecords
  <2> QED BY <2>1, <2>2, <2>3
<1> QED BY <1>2, <1>3, QuietFrame

LEMMA RestartDelivery ==
  ASSUME TypeOK, ClaimInv, DeliveryInv, UnbornIsNew, RunsGoOn, Restart
  PROVE  DeliveryInv'
<1>1. store' = store /\ Passes(store, store)
  BY StorePasses DEF Restart, TypeOK
<1>2. NothingAimed
  BY DEF Restart, NothingAimed, SameWork, Idle
<1> QED BY <1>1, <1>2, QuietFrame

(* A dispatched message went where its record says: a steer into the turn  *)
(* it names, any other into the run that was created for it, provided no   *)
(* live claimer outlasts the 300 s after which its claim is given away.    *)
THEOREM DispatchedTrue ==
  ASSUME SlowClaims = FALSE
  PROVE  Spec => []DispatchedWhereItSays
<1>1. Init => DeliveryInv
  BY DEF Init, EmptyStore, Absent, Idle, DeliveryInv, HeldIsAimed, DispatchedWhereItSays
<1>2. TypeOK /\ SpawnedOnce /\ UnbornIsNew /\ ClaimInv /\ DeliveryInv /\ [Next]_vars
        => DeliveryInv'
  <2> SUFFICES ASSUME TypeOK, SpawnedOnce, UnbornIsNew, ClaimInv, DeliveryInv, [Next]_vars
               PROVE  DeliveryInv'
    OBVIOUS
  <2>1. RunsGoOn  BY NextGoesOn
  <2>2. CASE UNCHANGED vars
    <3>1. store' = store /\ Passes(store, store) /\ NothingAimed
      BY <2>2, StorePasses DEF vars, TypeOK, NothingAimed, SameWork
    <3> QED BY <2>1, <3>1, QuietFrame
  <2> QED BY <2>1, <2>2, HandlerDelivery, CoroutineDelivery, CellDelivery, UserDelivery,
             RestartDelivery DEF Next
<1>3. DeliveryInv => DispatchedWhereItSays  BY DEF DeliveryInv
<1> QED BY <1>1, <1>2, <1>3, TypeCorrect, SpawnInvariant, UnbornInvariant,
           ClaimInvariant, PTL DEF Spec

-----------------------------------------------------------------------------
(* The current turn is served: by its cell up to the flush, or by a task.  *)

(* A step that creates runs at most.                                       *)
LEMMA CreateServes ==
  ASSUME TypeOK, SpawnedOnce, UnbornIsNew, TurnIsServed, turn' = turn,
         \/ run' = run
         \/ \E q \in Runs : \E item : CreateAndSchedule(q, item) \/ CreateAndRaise(q, item)
  PROVE  TurnIsServed'
<1>1. CASE run' = run
  BY <1>1 DEF TurnIsServed
<1>2. ASSUME NEW q \in Runs, NEW item,
             CreateAndSchedule(q, item) \/ CreateAndRaise(q, item)
      PROVE  TurnIsServed'
  <2>1. /\ run[q].status = "absent"
        /\ \A r \in Runs \ {q} :
             run'[r].cell = run[r].cell /\ run'[r].task = run[r].task
    BY <1>2, Created
  <2>2. run[q].cell = "none" /\ run[q].task = "none"
    BY <2>1 DEF SpawnedOnce, UnbornIsNew
  <2>3. turn # None => turn \in Runs \ {q}
    BY <2>2 DEF TurnIsServed, TypeOK
  <2> QED BY <2>1, <2>3 DEF TurnIsServed
<1> QED BY <1>1, <1>2

LEMMA CellServes ==
  ASSUME TypeOK, TurnIsServed, NEW r \in Runs,
         CellStep(r) \/ TaskStep(r) \/ AbandonSteers(r) \/ Interrupted(r)
  PROVE  TurnIsServed'
<1>0. run \in [Runs -> RunRecords] /\ run[r] \in RunRecords /\ turn \in Runs \cup {None}
  BY DEF TypeOK
<1>1. CASE ClaimSteers(r) \/ MarkSteer(r)
  BY <1>1 DEF ClaimSteers, MarkSteer, TurnIsServed
<1>2. CASE StartTurn(r)
  BY <1>2 DEF StartTurn, TurnIsServed
<1>3. CASE CellBegins(r) \/ Complete(r) \/ Interrupted(r)
  <2>1. /\ turn' = turn /\ run'[r].cell \in {"working", "flushing"}
        /\ \A s \in Runs \ {r} : run'[s] = run[s]
    BY <1>0, <1>3 DEF CellBegins, Complete, Interrupted, RunRecords
  <2> QED BY <1>0, <2>1 DEF TurnIsServed
<1>4. CASE Unwind(r)
  <2>1. /\ run'[r].task = run[r].task /\ \A s \in Runs \ {r} : run'[s] = run[s]
        /\ turn' = IF turn = r /\ ~Bound(r) THEN None ELSE turn
    BY <1>0, <1>4 DEF Unwind, RunRecords
  <2>2. Bound(r) => run[r].task # "none"
    BY DEF Bound, LiveTasks
  <2>3. turn' = turn /\ turn = r => run'[r].task # "none"
    BY <2>1, <2>2, NoneIsNoReference
  <2>4. turn' = turn \/ turn' = None
    BY <2>1
  <2> QED BY <1>0, <2>1, <2>3, <2>4 DEF TurnIsServed
<1>5. CASE SetDone(r) \/ OnDone(r)
  <2>1. /\ run'[r].task = run[r].task /\ \A s \in Runs \ {r} : run'[s] = run[s]
        /\ run[r].cell \notin {"working", "flushing"} /\ turn' = turn
    BY <1>0, <1>5 DEF SetDone, OnDone, RunRecords
  <2> QED BY <1>0, <2>1 DEF TurnIsServed
<1>6. CASE BindTask(r) \/ TaskParks(r) \/ TaskPauses(r) \/ TaskEnds(r)
           \/ AbandonSteers(r)
  <2>1. /\ run'[r].task # "none" /\ \A s \in Runs \ {r} : run'[s] = run[s]
        /\ turn' \in {None, turn}
    BY <1>0, <1>6 DEF BindTask, TaskParks, TaskPauses, TaskEnds, AbandonSteers, RunRecords
  <2> QED BY <1>0, <2>1 DEF TurnIsServed
<1>7. CASE TaskStarts(r)
  <2>1. /\ turn' = turn /\ run'[r].task # "none"
        /\ \A s \in Runs : run'[s].cell = run[s].cell
        /\ \A s \in Runs \ {r} : run'[s].task = run[s].task
    BY <1>0, <1>7 DEF TaskStarts, Supervised, RunRecords
  <2> QED BY <1>0, <2>1 DEF TurnIsServed
<1> QED BY <1>1, <1>2, <1>3, <1>4, <1>5, <1>6, <1>7 DEF CellStep, TaskStep

LEMMA ServedInvariant == Spec => []TurnIsServed
<1>1. Init => TurnIsServed
  BY DEF Init, TurnIsServed
<1>2. TypeOK /\ SpawnedOnce /\ UnbornIsNew /\ TurnIsServed /\ [Next]_vars
        => TurnIsServed'
  <2> SUFFICES ASSUME TypeOK, SpawnedOnce, UnbornIsNew, TurnIsServed, [Next]_vars
               PROVE  TurnIsServed'
    OBVIOUS
  <2>1. CASE turn' = turn /\ run' = run
    BY <2>1 DEF TurnIsServed
  <2>2. ASSUME NEW i \in Items,
               \/ PostQueued(i) \/ PostRunBusy(i) \/ PostRunFree(i)
               \/ HandlerStep(i) \/ CancelCheck(i) \/ CancelWrite(i) \/ Age(i)
        PROVE  TurnIsServed'
    BY <2>2, CreateServes
       DEF PostQueued, PostRunBusy, PostRunFree, HandlerStep, DoEnqueue, Recheck,
           CancelCheck, CancelWrite, Age
  <2>3. ASSUME NEW d \in Coroutines, CoroutineStep(d)
        PROVE  TurnIsServed'
    BY <2>3, CreateServes
       DEF CoroutineStep, DoReset, DoList, Decide, DoRetarget, DoClaimAuto,
           DoClaimSteer, Start, DoMark, DoFail
  <2>4. CASE Restart
    BY <2>4 DEF Restart, TurnIsServed
  <2> QED BY <2>1, <2>2, <2>3, <2>4, CellServes DEF Next, vars
<1> QED BY <1>1, <1>2, TypeCorrect, SpawnInvariant, UnbornInvariant, PTL DEF Spec

-----------------------------------------------------------------------------
(* A queued message has somebody to tend to it, unless the session has     *)
(* been restarted, has handed work to a task or has a dispatcher that gave *)
(* up.                                                                     *)

LEMMA TendFrame ==
  ASSUME QueueIsTended, Queued(store') \subseteq Queued(store),
         \A r \in Runs : CellTends(r) => CellTends(r)',
         \A d \in Coroutines : co[d].pc \in TendingPcs => co'[d].pc \in TendingPcs,
         Excused => Excused'
  PROVE  QueueIsTended'
BY DEF QueueIsTended

(* Which methods of the store do not add to the queue.                     *)
LEMMA QueueShrinks ==
  ASSUME NEW st \in [Items -> ItemRecords]
  PROVE  /\ \A t, b : Queued(ClaimForActiveTurn(st, t, b)) \subseteq Queued(st)
         /\ \A i \in Items :
              /\ \A u \in Settled : \A ref :
                   Queued(UpdateItem(st, i, u, ref)) \subseteq Queued(st)
              /\ st[i].status = "queued" => \A p, t, b :
                   Queued(Retarget(st, i, p, t, b)) \subseteq Queued(st)
<1>1. ASSUME NEW i \in Items, NEW u \in Settled, NEW ref
      PROVE  Queued(UpdateItem(st, i, u, ref)) \subseteq Queued(st)
  BY DEF Queued, UpdateItem, ItemRecords, Settled
<1>2. ASSUME NEW t, NEW b
      PROVE  Queued(ClaimForActiveTurn(st, t, b)) \subseteq Queued(st)
  <2>1. \A j \in Items : ClaimForActiveTurn(st, t, b)[j].status \in {"dispatching", st[j].status}
    BY DEF ClaimForActiveTurn, ItemRecords
  <2> QED BY <2>1 DEF Queued
<1>3. ASSUME NEW i \in Items, st[i].status = "queued", NEW p, NEW t, NEW b
      PROVE  Queued(Retarget(st, i, p, t, b)) \subseteq Queued(st)
  BY <1>3 DEF Queued, Retarget, ItemRecords
<1> QED BY <1>1, <1>2, <1>3

(* A step of a coroutine after which it tends to the queue, or has given   *)
(* up.                                                                     *)
LEMMA TendMove ==
  ASSUME TypeOK, NEW d \in Coroutines, NEW c, co' = [co EXCEPT ![d] = c],
         c.pc \in TendingPcs \cup {"gaveUp"}
  PROVE  QueueIsTended'
<1>1. co'[d].pc \in TendingPcs \/ co'[d].pc = "gaveUp"
  BY DEF TypeOK
<1> QED BY <1>1 DEF QueueIsTended, Excused

LEMMA TendMoves ==
  ASSUME TypeOK, NEW d \in Coroutines, NEW pc \in TendingPcs,
         Continue(d) \/ GiveUp(d) \/ Goto(d, pc)
  PROVE  QueueIsTended'
<1>0. co[d] \in CoRecords  BY DEF TypeOK
<1>1. CASE Continue(d)
  <2> DEFINE c == IF co[d].tries + 1 < MaxAttempts
                  THEN [Idle EXCEPT !.pc = "list", !.tries = co[d].tries + 1]
                  ELSE GaveUp
  <2>1. co' = [co EXCEPT ![d] = c]  BY <1>1 DEF Continue
  <2>2. "list" \in TendingPcs  BY DEF TendingPcs, Pcs, RestingPcs
  <2>3. c.pc \in TendingPcs \cup {"gaveUp"}  BY <2>2 DEF Idle, GaveUp
  <2> HIDE DEF c
  <2> QED BY <2>1, <2>3, TendMove
<1>2. CASE GiveUp(d)
  BY <1>2, TendMove DEF GiveUp, GaveUp, Idle
<1>3. CASE Goto(d, pc)
  <2>1. co' = [co EXCEPT ![d] = [co[d] EXCEPT !.pc = pc]]
    BY <1>3 DEF Goto
  <2>2. [co[d] EXCEPT !.pc = pc].pc \in TendingPcs
    BY <1>0 DEF CoRecords
  <2> QED BY <2>1, <2>2, TendMove
<1> QED BY <1>1, <1>2, <1>3

(* A coroutine that leaves the queue to others had not tended to it.       *)
LEMMA LeaveMoves ==
  ASSUME TypeOK, QueueIsTended, NEW d \in Coroutines, Finish(d),
         co[d].pc \notin TendingPcs \cup {"gaveUp"},
         Queued(store') \subseteq Queued(store), run' = run, life' = life
  PROVE  QueueIsTended'
<1>1. \A e \in Coroutines \ {d} : co'[e] = co[e]
  BY DEF Finish, TypeOK
<1>2. \A e \in Coroutines : co[e].pc \in TendingPcs => co'[e].pc \in TendingPcs
  BY <1>1
<1>3. Excused => Excused'
  BY <1>1 DEF Excused
<1>4. \A r \in Runs : CellTends(r) => CellTends(r)'
  BY DEF CellTends
<1> QED BY <1>2, <1>3, <1>4, TendFrame

LEMMA CellTending ==
  ASSUME NEW r \in Runs, run'[r].cell \in RunningCells \cup {"finished"}
  PROVE  QueueIsTended'
BY DEF QueueIsTended, CellTends

LEMMA ActiveTends ==
  ASSUME HasActive, run' = run
  PROVE  QueueIsTended'
<1>1. PICK r \in Runs : run[r].cell \in RunningCells
  BY DEF HasActive, Attached, CellRunning
<1> QED BY <1>1, CellTending

LEMMA HandlerTends ==
  ASSUME TypeOK, SpawnedOnce, UnbornIsNew, QueueIsTended, NEW i \in Items,
         PostQueued(i) \/ PostRunBusy(i) \/ PostRunFree(i) \/ HandlerStep(i)
  PROVE  QueueIsTended'
<1>0. i \in Coroutines  BY DEF Coroutines
<1>1. {"enqueue", "reset", "recheck"} \subseteq TendingPcs
  BY DEF TendingPcs, Pcs, RestingPcs
<1>2. CASE PostQueued(i)
  <2>1. co' = [co EXCEPT ![i] = Admitted(i, "enqueue")]  BY <1>2 DEF PostQueued
  <2>2. Admitted(i, "enqueue").pc = "enqueue"  BY DEF Admitted, Idle
  <2> QED BY <1>0, <1>1, <2>1, <2>2, TendMove
<1>3. CASE PostRunBusy(i)
  BY <1>3, ActiveTends DEF PostRunBusy
<1>4. CASE PostRunFree(i)
  <2>1. /\ store' = store /\ co' = co /\ life' = life
    BY <1>4 DEF PostRunFree
  <2>2. PICK q \in Runs : CreateAndSchedule(q, None) \/ CreateAndRaise(q, None)
    BY <1>4 DEF PostRunFree
  <2>3. /\ run[q].status = "absent"
        /\ \A r \in Runs \ {q} : run'[r].cell = run[r].cell /\ run'[r].task = run[r].task
    BY <2>2, Created
  <2>4. run[q].cell = "none" /\ run[q].task = "none"
    BY <2>3 DEF SpawnedOnce, UnbornIsNew
  <2>5. \A r \in Runs : CellTends(r) => CellTends(r)'
    BY <2>3, <2>4 DEF CellTends, RunningCells
  <2>6. Excused => Excused'
    BY <2>1, <2>3, <2>4 DEF Excused
  <2> QED BY <2>1, <2>5, <2>6, TendFrame
<1>5. CASE DoEnqueue(i)
  <2> DEFINE c == [Idle EXCEPT !.pc = IF co[i].pc = "enqueue" THEN "reset" ELSE "recheck"]
  <2>1. co' = [co EXCEPT ![i] = c]  BY <1>5 DEF DoEnqueue
  <2>2. c.pc \in TendingPcs  BY <1>1 DEF Idle
  <2> HIDE DEF c
  <2> QED BY <1>0, <2>1, <2>2, TendMove
<1>6. CASE Recheck(i)
  BY <1>0, <1>1, <1>6, ActiveTends, TendMoves DEF Recheck
<1> QED BY <1>2, <1>3, <1>4, <1>5, <1>6 DEF HandlerStep

(* The run a claimed message was to get has a cell, or another cell or the *)
(* executor of a task is at work.                                          *)
LEMMA StartTends ==
  ASSUME TypeOK, SpawnedOnce, UnbornIsNew, NEW r \in Runs, NEW item,
         CreateAndSchedule(r, item)
  PROVE  QueueIsTended'
<1>1. /\ run[r].status = "absent"
      /\ \A s \in Runs \ {r} : run'[s].cell = run[s].cell /\ run'[s].task = run[s].task
  BY Created
<1>2. run[r].cell = "none" /\ run[r].task = "none"
  BY <1>1 DEF SpawnedOnce, UnbornIsNew
<1>3. CASE PrimaryCellRunning
  <2>1. PICK s \in Runs : CellRunning(s) \/ run[s].task = "running"
    BY <1>3 DEF PrimaryCellRunning
  <2>2. s # r  BY <1>2, <2>1 DEF CellRunning, RunningCells
  <2>3. CASE CellRunning(s)
    BY <1>1, <2>2, <2>3, CellTending DEF CellRunning
  <2>4. CASE run[s].task = "running"
    BY <1>1, <2>2, <2>4 DEF QueueIsTended, Excused
  <2> QED BY <2>1, <2>3, <2>4
<1>4. CASE ~PrimaryCellRunning
  <2>1. run'[r].cell = "spawned"
    BY <1>4 DEF CreateAndSchedule, NewRun, NoRun
  <2> QED BY <2>1, CellTending DEF RunningCells
<1> QED BY <1>3, <1>4

LEMMA ClaimNextTends ==
  ASSUME TypeOK, NEW d \in Coroutines, NEW policy, NEW pc \in TendingPcs,
         ClaimNext(d, policy, pc)
  PROVE  QueueIsTended'
<1>0. co[d] \in CoRecords  BY DEF TypeOK
<1>1. CASE Continue(d)
  BY <1>1, TendMoves
<1>2. ASSUME NEW i \in Items, co' = [co EXCEPT ![d] = [@ EXCEPT !.pc = pc, !.item = i]]
      PROVE  QueueIsTended'
  <2>1. co' = [co EXCEPT ![d] = [co[d] EXCEPT !.pc = pc, !.item = i]]
    BY <1>2
  <2>2. [co[d] EXCEPT !.pc = pc, !.item = i].pc \in TendingPcs
    BY <1>0 DEF CoRecords
  <2> QED BY <2>1, <2>2, TendMove
<1> QED BY <1>1, <1>2 DEF ClaimNext

LEMMA DecideTends ==
  ASSUME TypeOK, TurnIsServed, NEW d \in Coroutines, Decide(d)
  PROVE  QueueIsTended'
<1>1. {"claimAuto", "claimSteer"} \subseteq TendingPcs
  BY DEF TendingPcs, Pcs, RestingPcs
<1>2. CASE HasActive
  BY <1>2, ActiveTends DEF Decide
<1>3. CASE turn # None
  <2>1. run' = run  BY DEF Decide
  <2>2. turn \in Runs  BY <1>3 DEF TypeOK
  <2>3. CASE run[turn].cell \in {"working", "flushing"}
    BY <2>1, <2>2, <2>3, CellTending DEF RunningCells
  <2>4. CASE run[turn].task # "none"
    BY <2>1, <2>2, <2>4 DEF QueueIsTended, Excused
  <2> QED BY <1>3, <2>3, <2>4 DEF TurnIsServed
<1>4. CASE ~HasActive /\ turn = None
  <2>1. Goto(d, "claimAuto") \/ Goto(d, "claimSteer")
    BY <1>4 DEF Decide, SteerIsValid
  <2> QED BY <1>1, <2>1, TendMoves
<1> QED BY <1>2, <1>3, <1>4

LEMMA CoroutineTends ==
  ASSUME TypeOK, SpawnedOnce, UnbornIsNew, TurnIsServed, QueueIsTended,
         NEW d \in Coroutines, CoroutineStep(d)
  PROVE  QueueIsTended'
<1>0. /\ store \in [Items -> ItemRecords] /\ co[d] \in CoRecords /\ InHand(co[d])
  BY DEF TypeOK
<1>1. {"list", "decide", "start", "failStart", "failSteer"} \subseteq TendingPcs
  BY DEF TendingPcs, Pcs, RestingPcs
<1>2. {"retarget", "mark"} \cap (TendingPcs \cup {"gaveUp"}) = {}
  BY DEF TendingPcs
<1>3. CASE DoReset(d)
  BY <1>1, <1>3, TendMoves DEF DoReset
<1>4. CASE DoList(d)
  <2>1. CASE Queued(store) = {} /\ store' = store
    BY <2>1 DEF QueueIsTended
  <2>2. ASSUME NEW i \in Items,
               co' = [co EXCEPT ![d] = [@ EXCEPT
                !.pc = "decide", !.item = i, !.policy = store[i].policy,
                !.turn = store[i].turn, !.bound = store[i].bound]]
        PROVE  QueueIsTended'
    <3> DEFINE c == [co[d] EXCEPT
                !.pc = "decide", !.item = i, !.policy = store[i].policy,
                !.turn = store[i].turn, !.bound = store[i].bound]
    <3>1. co' = [co EXCEPT ![d] = c]  BY <2>2
    <3>2. c.pc \in TendingPcs  BY <1>0, <1>1 DEF CoRecords
    <3> HIDE DEF c
    <3> QED BY <3>1, <3>2, TendMove
  <2> QED BY <1>4, <2>1, <2>2 DEF DoList
<1>5. CASE Decide(d)
  BY <1>5, DecideTends
<1>6. CASE DoRetarget(d)
  <2>1. CASE Continue(d)
    BY <1>1, <2>1, TendMoves
  <2>2. CASE ~Continue(d)
    <3>1. co[d].item \in Items
      BY <1>0, <1>6 DEF DoRetarget, InHand, WorkingPcs
    <3>2. /\ Finish(d) /\ run' = run /\ life' = life /\ co[d].pc = "retarget"
          /\ Queued(store') \subseteq Queued(store)
      BY <1>0, <1>6, <2>2, <3>1, QueueShrinks DEF DoRetarget, Retargetable
    <3> QED BY <1>2, <3>2, LeaveMoves
  <2> QED BY <2>1, <2>2
<1>7. CASE DoClaimAuto(d) \/ DoClaimSteer(d)
  BY <1>1, <1>7, ClaimNextTends DEF DoClaimAuto, DoClaimSteer
<1>8. CASE Start(d)
  <2>1. CASE Goto(d, "failStart")
    BY <1>1, <2>1, TendMoves
  <2> QED BY <1>8, <2>1, StartTends DEF Start
<1>9. CASE DoMark(d)
  <2>1. co[d].item \in Items
    BY <1>0, <1>9 DEF DoMark, InHand, WorkingPcs, HoldingPcs
  <2>2. /\ Finish(d) /\ run' = run /\ life' = life /\ co[d].pc = "mark"
        /\ Queued(store') \subseteq Queued(store)
    BY <1>0, <1>9, <2>1, QueueShrinks DEF DoMark, MarkDispatched, Settled
  <2> QED BY <1>2, <2>2, LeaveMoves
<1>10. CASE DoFail(d)
  BY <1>1, <1>10, TendMoves DEF DoFail
<1> QED BY <1>3, <1>4, <1>5, <1>6, <1>7, <1>8, <1>9, <1>10 DEF CoroutineStep

LEMMA CellTendsOn ==
  ASSUME TypeOK, QueueIsTended, NEW r \in Runs,
         CellStep(r) \/ TaskStep(r) \/ AbandonSteers(r) \/ Interrupted(r)
  PROVE  QueueIsTended'
<1>0. run \in [Runs -> RunRecords] /\ run[r] \in RunRecords /\ store \in [Items -> ItemRecords]
  BY DEF TypeOK
<1>1. CASE run' = run /\ co' = co /\ life' = life /\ Queued(store') \subseteq Queued(store)
  <2>1. Excused => Excused'  BY <1>1 DEF Excused
  <2>2. \A s \in Runs : CellTends(s) => CellTends(s)'  BY <1>1 DEF CellTends
  <2> QED BY <1>1, <2>1, <2>2, TendFrame
<1>2. CASE StartTurn(r)
  BY <1>1, <1>2 DEF StartTurn
<1>3. CASE ClaimSteers(r)
  BY <1>0, <1>1, <1>3, QueueShrinks DEF ClaimSteers
<1>4. CASE MarkSteer(r)
  <2>1. PICK i \in Items :
          store' = MarkDispatched(store, i, r) \/ store' = MarkFailed(store, i)
    BY <1>4 DEF MarkSteer
  <2>2. Queued(store') \subseteq Queued(store)
    BY <1>0, <2>1, QueueShrinks DEF MarkDispatched, MarkFailed, Settled
  <2> QED BY <1>1, <1>4, <2>2 DEF MarkSteer
<1>5. CASE CellBegins(r) \/ Complete(r) \/ Interrupted(r) \/ Unwind(r) \/ SetDone(r)
  <2>1. run'[r].cell \in RunningCells \cup {"finished"}
    BY <1>0, <1>5 DEF CellBegins, Complete, Interrupted, Unwind, SetDone, RunningCells,
                      RunRecords
  <2> QED BY <2>1, CellTending
<1>6. CASE OnDone(r)
  <2>1. r \in Coroutines /\ "reset" \in TendingPcs
    BY DEF Coroutines, TendingPcs, Pcs, RestingPcs
  <2> QED BY <1>6, <2>1, TendMoves DEF OnDone
<1>7. CASE TaskStep(r) \/ AbandonSteers(r)
  <2>1. CASE TaskStarts(r)
    BY <1>0, <2>1 DEF TaskStarts, Supervised, RunRecords, QueueIsTended, Excused
  <2>2. CASE BindTask(r) \/ TaskParks(r) \/ TaskPauses(r) \/ TaskEnds(r) \/ AbandonSteers(r)
    <3>1. run'[r].task # "none"
      BY <1>0, <2>2 DEF BindTask, TaskParks, TaskPauses, TaskEnds, AbandonSteers, RunRecords
    <3> QED BY <3>1 DEF QueueIsTended, Excused
  <2> QED BY <1>7, <2>1, <2>2 DEF TaskStep
<1> QED BY <1>2, <1>3, <1>4, <1>5, <1>6, <1>7 DEF CellStep

LEMMA UserTends ==
  ASSUME TypeOK, QueueIsTended, NEW i \in Items,
         CancelCheck(i) \/ CancelWrite(i) \/ Age(i)
  PROVE  QueueIsTended'
<1>0. store \in [Items -> ItemRecords]  BY DEF TypeOK
<1>1. run' = run /\ co' = co /\ life' = life
  BY DEF CancelCheck, CancelWrite, Age
<1>2. Queued(store') \subseteq Queued(store)
  <2>1. CASE CancelCheck(i)
    BY <2>1 DEF CancelCheck
  <2>2. CASE CancelWrite(i)
    BY <1>0, <2>2, QueueShrinks DEF CancelWrite, MarkCanceled, Settled
  <2>3. CASE Age(i)
    BY <1>0, <2>3 DEF Age, Queued, ItemRecords
  <2> QED BY <2>1, <2>2, <2>3
<1>3. Excused => Excused'  BY <1>1 DEF Excused
<1>4. \A s \in Runs : CellTends(s) => CellTends(s)'  BY <1>1 DEF CellTends
<1> QED BY <1>1, <1>2, <1>3, <1>4, TendFrame

LEMMA RestartTends ==
  ASSUME TypeOK, Restart
  PROVE  QueueIsTended'
<1>1. life' > 0
  <2>1. life' = life + 1  BY DEF Restart
  <2>2. life \in 0 .. MaxCrashes  BY DEF TypeOK
  <2> QED BY <2>1, <2>2, NaturalBounds
<1> QED BY <1>1 DEF QueueIsTended, Excused

(* When nothing moves any more no message is left in the queue, unless the *)
(* process has been restarted, a turn has handed its work to a task or a   *)
(* dispatcher gave up: for any messages, runs, faults, cancels and claims  *)
(* however slow.                                                           *)
THEOREM NothingStranded == Spec => []NoInputStranded
<1>1. Init => QueueIsTended
  BY DEF Init, QueueIsTended, Queued, EmptyStore, Absent
<1>2. TypeOK /\ SpawnedOnce /\ UnbornIsNew /\ TurnIsServed /\ QueueIsTended
        /\ [Next]_vars => QueueIsTended'
  <2> SUFFICES ASSUME TypeOK, SpawnedOnce, UnbornIsNew, TurnIsServed, QueueIsTended,
                      [Next]_vars
               PROVE  QueueIsTended'
    OBVIOUS
  <2>1. CASE UNCHANGED vars
    BY <2>1 DEF vars, QueueIsTended, Excused, CellTends
  <2> QED BY <2>1, HandlerTends, CoroutineTends, CellTendsOn, UserTends, RestartTends
          DEF Next
<1>3. QueueIsTended => NoInputStranded
  <2>1. TendingPcs \cap RestingPcs = {}  BY DEF TendingPcs
  <2>2. (\E r \in Runs : CellTends(r)) => Motion
    BY DEF CellTends, Motion, CellRunning
  <2>3. (\E d \in Coroutines : co[d].pc \in TendingPcs) => Motion
    BY <2>1 DEF Motion
  <2>4. (\E i \in Items : store[i].status = "queued") => Queued(store) # {}
    BY DEF Queued
  <2> QED BY <2>2, <2>3, <2>4 DEF QueueIsTended, NoInputStranded
<1> QED BY <1>1, <1>2, <1>3, TypeCorrect, SpawnInvariant, UnbornInvariant,
           ServedInvariant, PTL DEF Spec
=============================================================================
