--------------------- MODULE SessionDispatchRuns_proofs ---------------------
(***************************************************************************)
(* Proofs that no queued message becomes two chat runs in one lifetime of  *)
(* the process, and that the chat cells of a session take turns.           *)
(***************************************************************************)
EXTENDS SessionDispatch_proofs

-----------------------------------------------------------------------------
(* What the creation of a run changes.                                     *)

LEMMA Created ==
  ASSUME TypeOK, NEW q \in Runs, NEW item,
         CreateAndSchedule(q, item) \/ CreateAndRaise(q, item)
  PROVE  /\ run[q].status = "absent"
         /\ run'[q].status # "absent" /\ run'[q].item = item
         /\ run'[q].life = life /\ run'[q].task = "none"
         /\ \A r \in Runs \ {q} :
              /\ run'[r].item = run[r].item /\ run'[r].life = run[r].life
              /\ run'[r].cell = run[r].cell /\ run'[r].status = run[r].status
              /\ run'[r].task = run[r].task
<1>1. CASE CreateAndSchedule(q, item)
  <2>1. /\ run[q].status = "absent" /\ run'[q] = NewRun(item)
        /\ \A r \in Runs \ {q} : run'[r] = Supervised(r)
    BY <1>1 DEF CreateAndSchedule
  <2>2. /\ NewRun(item).status # "absent" /\ NewRun(item).item = item
        /\ NewRun(item).life = life /\ NewRun(item).task = "none"
    BY DEF NewRun, NoRun
  <2>3. \A r \in Runs : run[r] \in RunRecords  BY DEF TypeOK
  <2>4. \A r \in Runs :
          /\ Supervised(r).item = run[r].item /\ Supervised(r).life = run[r].life
          /\ Supervised(r).cell = run[r].cell /\ Supervised(r).status = run[r].status
          /\ Supervised(r).task = run[r].task
    BY <2>3 DEF Supervised, RunRecords
  <2> QED BY <2>1, <2>2, <2>4
<1>2. CASE CreateAndRaise(q, item)
  <2>1. /\ run[q].status = "absent"
        /\ run'[q] = [NoRun EXCEPT !.status = "starting", !.item = item, !.life = life]
        /\ \A r \in Runs \ {q} : run'[r] = run[r]
    BY <1>2 DEF CreateAndRaise, TypeOK
  <2> QED BY <2>1 DEF NoRun
<1> QED BY <1>1, <1>2

-----------------------------------------------------------------------------
(* The dispatcher of a run is spawned once.                                *)

LEMMA SpawnFrame ==
  ASSUME SpawnedOnce,
         \A r \in Runs : co'[r].pc # "idle" =>
            \/ co[r].pc # "idle" /\ run'[r].cell = run[r].cell
            \/ run'[r].cell = "gone",
         \A r \in Runs : run'[r].status = "absent" =>
            run[r].status = "absent" /\ run'[r].cell = run[r].cell
  PROVE  SpawnedOnce'
BY DEF SpawnedOnce

(* A step that creates runs at most, by a coroutine d or by none.          *)
LEMMA SpawnCreate ==
  ASSUME TypeOK, SpawnedOnce,
         \A r \in Runs : co'[r].pc # "idle" => co[r].pc # "idle",
         \/ run' = run
         \/ \E q \in Runs : \E item : CreateAndSchedule(q, item) \/ CreateAndRaise(q, item)
  PROVE  SpawnedOnce'
<1>1. CASE run' = run
  BY <1>1, SpawnFrame
<1>2. ASSUME NEW q \in Runs, NEW item,
             CreateAndSchedule(q, item) \/ CreateAndRaise(q, item)
      PROVE  SpawnedOnce'
  <2>1. /\ run[q].status = "absent" /\ run'[q].status # "absent"
        /\ \A r \in Runs \ {q} :
             run'[r].cell = run[r].cell /\ run'[r].status = run[r].status
    BY <1>2, Created
  <2>2. co[q].pc = "idle"  BY <2>1 DEF SpawnedOnce
  <2> QED BY <2>1, <2>2, SpawnFrame
<1> QED BY <1>1, <1>2

LEMMA HandlerSpawn ==
  ASSUME TypeOK, SpawnedOnce, NEW i \in Items,
         PostQueued(i) \/ PostRunBusy(i) \/ PostRunFree(i) \/ HandlerStep(i)
  PROVE  SpawnedOnce'
<1>1. \A r \in Runs : r # i  BY ItemsAreNotRuns
<1>2. \A r \in Runs : co'[r] = co[r]
  BY <1>1 DEF PostQueued, PostRunBusy, PostRunFree, HandlerStep, DoEnqueue,
              Recheck, Goto, Finish, TypeOK, Coroutines
<1>3. \/ run' = run
      \/ \E q \in Runs : \E item : CreateAndSchedule(q, item) \/ CreateAndRaise(q, item)
  BY DEF PostQueued, PostRunBusy, PostRunFree, HandlerStep, DoEnqueue, Recheck
<1> QED BY <1>2, <1>3, SpawnCreate

LEMMA CoroutineSpawn ==
  ASSUME TypeOK, SpawnedOnce, NEW d \in Coroutines, CoroutineStep(d)
  PROVE  SpawnedOnce'
<1>1. co[d].pc # "idle"
  BY DEF CoroutineStep, DoReset, DoList, Decide, DoRetarget, DoClaimAuto,
         DoClaimSteer, Start, DoMark, DoFail
<1>2. PICK c : co' = [co EXCEPT ![d] = c]
  BY DEF CoroutineStep, DoReset, DoList, Decide, DoRetarget, DoClaimAuto,
         DoClaimSteer, Start, DoMark, DoFail, ClaimNext, Goto, Finish, GiveUp, Continue
<1>3. \A r \in Runs : co'[r].pc # "idle" => co[r].pc # "idle"
  BY <1>1, <1>2 DEF TypeOK, Coroutines
<1>4. \/ run' = run
      \/ \E q \in Runs : \E item : CreateAndSchedule(q, item) \/ CreateAndRaise(q, item)
  BY DEF CoroutineStep, DoReset, DoList, Decide, DoRetarget, DoClaimAuto,
         DoClaimSteer, Start, DoMark, DoFail
<1> QED BY <1>3, <1>4, SpawnCreate

LEMMA CellSpawn ==
  ASSUME TypeOK, SpawnedOnce, NEW r \in Runs,
         CellStep(r) \/ TaskStep(r) \/ AbandonSteers(r) \/ Interrupted(r)
  PROVE  SpawnedOnce'
<1>0. run \in [Runs -> RunRecords] /\ run[r] \in RunRecords  BY DEF TypeOK
<1>1. CASE run' = run /\ co' = co
  BY <1>1, SpawnFrame
<1>2. ASSUME co' = co, NEW cell \in CellPhases, NEW status \in RunStatuses \ {"absent"},
             run[r].cell \notin {"none", "gone"},
             run' = [run EXCEPT ![r] = [run[r] EXCEPT !.cell = cell, !.status = status]]
      PROVE  SpawnedOnce'
  <2>1. run'[r].status = status /\ \A s \in Runs \ {r} : run'[s] = run[s]
    BY <1>0, <1>2 DEF RunRecords
  <2> QED BY <1>2, <2>1, SpawnFrame DEF SpawnedOnce
<1>3. CASE CellBegins(r)
  <2>1. run' = [run EXCEPT ![r] = [run[r] EXCEPT !.cell = "working", !.status = "running"]]
    BY <1>0, <1>3 DEF CellBegins
  <2>2. "working" \in CellPhases /\ "running" \in RunStatuses \ {"absent"}
    BY DEF CellPhases, RunningCells, RunStatuses
  <2>3. co' = co /\ run[r].cell \notin {"none", "gone"}
    BY <1>3 DEF CellBegins
  <2> QED BY <1>2, <2>1, <2>2, <2>3
<1>4. CASE Complete(r) \/ Interrupted(r)
  <2>1. PICK status \in TerminalRunStatuses :
          run' = [run EXCEPT ![r].cell = "flushing", ![r].status = status]
    BY <1>4 DEF Complete, Interrupted, TerminalRunStatuses
  <2>2. run' = [run EXCEPT ![r] = [run[r] EXCEPT !.cell = "flushing", !.status = status]]
    BY <1>0, <2>1
  <2>3. "flushing" \in CellPhases /\ status \in RunStatuses \ {"absent"}
    BY DEF CellPhases, RunningCells, RunStatuses, TerminalRunStatuses
  <2>4. co' = co /\ run[r].cell \notin {"none", "gone"}
    BY <1>4 DEF Complete, Interrupted
  <2> QED BY <1>2, <2>2, <2>3, <2>4
<1>5. CASE Unwind(r)
  <2>1. PICK status \in {run[r].status, "orphaned"} :
          run' = [run EXCEPT ![r].cell = "closing", ![r].status = status]
    BY <1>5 DEF Unwind
  <2>2. run[r].cell = "flushing" /\ co' = co  BY <1>5 DEF Unwind
  <2>3. run[r].status \in RunStatuses \ {"absent"}
    BY <1>0, <2>2 DEF SpawnedOnce, RunRecords
  <2> QED BY <1>0, <1>2, <2>1, <2>2, <2>3
          DEF CellPhases, RunningCells, RunStatuses, TerminalRunStatuses
<1>6. CASE SetDone(r)
  <2>1. run'[r].status = run[r].status /\ \A s \in Runs \ {r} : run'[s] = run[s]
    BY <1>0, <1>6 DEF SetDone, RunRecords
  <2> QED BY <1>6, <2>1, SpawnFrame DEF SetDone, SpawnedOnce
<1>7. CASE OnDone(r)
  <2>1. /\ run'[r].status = run[r].status /\ run'[r].cell = "gone"
        /\ \A s \in Runs \ {r} : run'[s] = run[s]
    BY <1>0, <1>7 DEF OnDone, RunRecords
  <2>2. \A s \in Runs \ {r} : co'[s] = co[s]
    BY <1>7 DEF OnDone, Goto, TypeOK, Coroutines
  <2> QED BY <1>7, <2>1, <2>2, SpawnFrame DEF OnDone, SpawnedOnce
<1>8. CASE BindTask(r) \/ TaskParks(r) \/ TaskPauses(r) \/ TaskEnds(r)
           \/ AbandonSteers(r)
  <2>1. co' = co /\ \A s \in Runs :
           run'[s].status = run[s].status /\ run'[s].cell = run[s].cell
    BY <1>0, <1>8 DEF BindTask, TaskParks, TaskPauses, TaskEnds, AbandonSteers, RunRecords
  <2> QED BY <2>1, SpawnFrame
<1>9. CASE TaskStarts(r)
  <2>1. co' = co /\ \A s \in Runs :
           run'[s].status = run[s].status /\ run'[s].cell = run[s].cell
    BY <1>0, <1>9 DEF TaskStarts, Supervised, RunRecords
  <2> QED BY <2>1, SpawnFrame
<1> QED
  BY <1>1, <1>3, <1>4, <1>5, <1>6, <1>7, <1>8, <1>9
     DEF CellStep, TaskStep, StartTurn, ClaimSteers, MarkSteer

LEMMA SpawnInvariant == Spec => []SpawnedOnce
<1>1. Init => SpawnedOnce
  BY DEF Init, SpawnedOnce, Idle, NoRun, Coroutines
<1>2. TypeOK /\ SpawnedOnce /\ [Next]_vars => SpawnedOnce'
  <2> SUFFICES ASSUME TypeOK, SpawnedOnce, [Next]_vars PROVE SpawnedOnce'
    OBVIOUS
  <2>1. CASE run' = run /\ co' = co
    BY <2>1, SpawnFrame
  <2>2. ASSUME NEW i \in Items, CancelCheck(i) \/ CancelWrite(i) \/ Age(i)
        PROVE  SpawnedOnce'
    BY <2>1, <2>2 DEF CancelCheck, CancelWrite, Age
  <2>3. CASE Restart
    BY <2>3 DEF Restart, SpawnedOnce, Idle, Coroutines, TypeOK, RunRecords
  <2> QED BY <2>1, <2>2, <2>3, HandlerSpawn, CoroutineSpawn, CellSpawn DEF Next, vars
<1> QED BY <1>1, <1>2, TypeCorrect, PTL DEF Spec

-----------------------------------------------------------------------------
(* A queued message becomes one run.                                       *)

(* No run is created in this step, no coroutine comes to "start", and an   *)
(* input whose run exists stays accounted for.                             *)
RunsStayAccounted ==
  /\ life' = life
  /\ \A r \in Runs : run'[r].item = run[r].item /\ run'[r].life = run[r].life
  /\ \A d \in Coroutines : co'[d].pc = "start" =>
       co[d].pc = "start" /\ co'[d].item = co[d].item
  /\ \A i \in Items : store[i].status \in Settled => store'[i].status \in Settled
  /\ \A d \in Coroutines : co[d].pc \in {"mark", "failStart"} =>
       \/ co'[d].pc \in {"mark", "failStart"} /\ co'[d].item = co[d].item
       \/ store'[co[d].item].status \in Settled

LEMMA RunFrame ==
  ASSUME TypeOK, RunInv, RunsStayAccounted
  PROVE  RunInv'
<1>1. OneRunPerInput'
  BY DEF RunInv, OneRunPerInput, RunsStayAccounted
<1>2. RunAccounted'
  <2> SUFFICES ASSUME NEW r \in Runs
               PROVE  /\ run'[r].life <= life'
                      /\ run'[r].item # None /\ run'[r].life = life' =>
                         /\ \/ store'[run'[r].item].status \in Settled
                            \/ \E d \in Coroutines :
                                 /\ co'[d].pc \in {"mark", "failStart"}
                                 /\ co'[d].item = run'[r].item
                         /\ \A d \in Coroutines :
                              ~(co'[d].pc = "start" /\ co'[d].item = run'[r].item)
    BY DEF RunAccounted
  <2>1. /\ run'[r].item = run[r].item /\ run'[r].life = run[r].life /\ life' = life
    BY DEF RunsStayAccounted
  <2>2. run'[r].life <= life'
    BY <2>1 DEF RunInv, RunAccounted
  <2>3. ASSUME run'[r].item # None, run'[r].life = life'
        PROVE  \/ store'[run'[r].item].status \in Settled
               \/ \E d \in Coroutines : /\ co'[d].pc \in {"mark", "failStart"}
                                        /\ co'[d].item = run'[r].item
    <3>1. run[r].item \in Items  BY <2>1, <2>3 DEF TypeOK, RunRecords
    <3>2. CASE store[run[r].item].status \in Settled
      BY <2>1, <3>1, <3>2 DEF RunsStayAccounted
    <3>3. CASE \E d \in Coroutines : /\ co[d].pc \in {"mark", "failStart"}
                                     /\ co[d].item = run[r].item
      BY <2>1, <3>3 DEF RunsStayAccounted
    <3> QED BY <2>1, <2>3, <3>2, <3>3 DEF RunInv, RunAccounted
  <2>4. ASSUME run'[r].item # None, run'[r].life = life', NEW d \in Coroutines
        PROVE  ~(co'[d].pc = "start" /\ co'[d].item = run'[r].item)
    BY <2>1, <2>4 DEF RunsStayAccounted, RunInv, RunAccounted
  <2> QED BY <2>2, <2>3, <2>4
<1> QED BY <1>1, <1>2 DEF RunInv

(* A settled input stays settled: the marks write one settled status over  *)
(* another, everything else leaves it alone.                               *)
SettledStay ==
  \A i \in Items : store[i].status \in Settled => store'[i].status \in Settled

LEMMA UpdateSettles ==
  ASSUME TypeOK, NEW i \in Items, NEW u \in Settled, NEW ref,
         store' = UpdateItem(store, i, u, ref)
  PROVE  SettledStay /\ store'[i].status = u
<1>1. store \in [Items -> ItemRecords]  BY DEF TypeOK
<1>2. store'[i].status = u /\ \A j \in Items : j # i => store'[j] = store[j]
  BY <1>1 DEF UpdateItem, ItemRecords
<1> QED BY <1>2 DEF SettledStay

LEMMA SafeSettled == ASSUME Safe(store, store') PROVE SettledStay
BY DEF Safe, SettledStay

(* A coroutine's step that neither creates a run nor claims one.           *)
LEMMA CoFrame ==
  ASSUME TypeOK, RunInv, SettledStay, run' = run, life' = life,
         NEW d \in Coroutines, NEW c, co' = [co EXCEPT ![d] = c],
         c.pc # "start",
         co[d].pc \in {"mark", "failStart"}
           => store'[co[d].item].status \in Settled
  PROVE  RunInv'
<1>1. \A e \in Coroutines : co'[e] = IF e = d THEN c ELSE co[e]
  BY DEF TypeOK
<1>2. RunsStayAccounted
  BY <1>1 DEF RunsStayAccounted, SettledStay
<1> QED BY <1>2, RunFrame

LEMMA CoMoves ==
  ASSUME TypeOK, RunInv, SettledStay, run' = run, life' = life,
         NEW d \in Coroutines, NEW pc \in Pcs \ {"start"},
         Finish(d) \/ GiveUp(d) \/ Continue(d) \/ Goto(d, pc),
         co[d].pc \in {"mark", "failStart"}
           => store'[co[d].item].status \in Settled
  PROVE  RunInv'
<1>0. co[d] \in CoRecords  BY DEF TypeOK
<1>1. CASE Finish(d) \/ GiveUp(d)
  <2>1. PICK c \in {Idle, GaveUp} : co' = [co EXCEPT ![d] = c]
    BY <1>1 DEF Finish, GiveUp
  <2>2. c.pc # "start"
    BY DEF Idle, GaveUp
  <2> QED BY <2>1, <2>2, CoFrame
<1>2. CASE Continue(d)
  <2> DEFINE c == IF co[d].tries + 1 < MaxAttempts
                  THEN [Idle EXCEPT !.pc = "list", !.tries = co[d].tries + 1]
                  ELSE GaveUp
  <2>1. co' = [co EXCEPT ![d] = c]  BY <1>2 DEF Continue
  <2>2. c.pc # "start"  BY DEF Idle, GaveUp
  <2> HIDE DEF c
  <2> QED BY <2>1, <2>2, CoFrame
<1>3. CASE Goto(d, pc)
  <2>1. co' = [co EXCEPT ![d] = [co[d] EXCEPT !.pc = pc]]
    BY <1>3 DEF Goto
  <2>2. [co[d] EXCEPT !.pc = pc].pc # "start"
    BY <1>0 DEF CoRecords
  <2> QED BY <2>1, <2>2, CoFrame
<1> QED BY <1>1, <1>2, <1>3

(* The run made for the input a coroutine has claimed: no other run of     *)
(* this lifetime was, since the claim is its coroutine's alone.            *)
LEMMA CreateForClaim ==
  ASSUME TypeOK, ClaimInv, RunInv, NEW d \in Coroutines, co[d].pc = "start",
         NEW q \in Runs,
         CreateAndSchedule(q, co[d].item) \/ CreateAndRaise(q, co[d].item),
         NEW c, co' = [co EXCEPT ![d] = c], c.pc \in {"mark", "failStart"},
         c.item = co[d].item, store' = store, life' = life
  PROVE  RunInv'
<1>1. PICK i \in Items : co[d].item = i /\ Holds(d, i)
  BY DEF TypeOK, InHand, WorkingPcs, HoldingPcs, Holds
<1>2. \A e \in Coroutines : co'[e] = IF e = d THEN c ELSE co[e]
  BY DEF TypeOK
<1>3. /\ run'[q].item = i /\ run'[q].life = life
      /\ \A r \in Runs \ {q} :
           run'[r].item = run[r].item /\ run'[r].life = run[r].life
  BY <1>1, Created
<1>4. \A r \in Runs \ {q} : run[r].life = life => run[r].item # i
  BY <1>1, NoneIsNoReference DEF RunInv, RunAccounted
<1>5. OneRunPerInput'
  BY <1>3, <1>4 DEF RunInv, OneRunPerInput
<1>6. \A e \in Coroutines \ {d} : ~(co[e].pc = "start" /\ co[e].item = i)
  BY <1>1 DEF ClaimInv, ClaimExclusive, Holds, HoldingPcs
<1>7. c.pc # "start"  OBVIOUS
<1>8. RunAccounted'
  <2>1. run'[q].life <= life'
    BY <1>3 DEF TypeOK
  <2>2. \A r \in Runs \ {q} : run'[r].life <= life'
    BY <1>3 DEF RunInv, RunAccounted
  <2>3. \A r \in Runs, e \in Coroutines :
          run'[r].item # None /\ run'[r].life = life' =>
            ~(co'[e].pc = "start" /\ co'[e].item = run'[r].item)
    <3>1. \A e \in Coroutines : ~(co'[e].pc = "start" /\ co'[e].item = i)
      BY <1>2, <1>6, <1>7
    <3>2. \A r \in Runs \ {q}, e \in Coroutines :
            run'[r].item # None /\ run'[r].life = life' =>
              ~(co'[e].pc = "start" /\ co'[e].item = run'[r].item)
      BY <1>2, <1>3, <1>7 DEF RunInv, RunAccounted
    <3> QED BY <1>3, <3>1, <3>2
  <2>4. \A r \in Runs :
          run'[r].item # None /\ run'[r].life = life' =>
            \/ store'[run'[r].item].status \in Settled
            \/ \E e \in Coroutines : /\ co'[e].pc \in {"mark", "failStart"}
                                     /\ co'[e].item = run'[r].item
    <3>1. co'[d].pc \in {"mark", "failStart"} /\ co'[d].item = i
      BY <1>1, <1>2
    <3>2. \A e \in Coroutines : co[e].pc \in {"mark", "failStart"} => co'[e] = co[e]
      BY <1>2
    <3>3. \A r \in Runs \ {q} :
            run[r].item # None /\ run[r].life = life =>
              \/ store[run[r].item].status \in Settled
              \/ \E e \in Coroutines : /\ co'[e].pc \in {"mark", "failStart"}
                                       /\ co'[e].item = run[r].item
      BY <3>2 DEF RunInv, RunAccounted
    <3> QED BY <1>3, <3>1, <3>3
  <2> QED BY <2>1, <2>2, <2>3, <2>4 DEF RunAccounted
<1> QED BY <1>5, <1>8 DEF RunInv

(* claim_next hands an input to "start" only before any run was made for   *)
(* it in this lifetime.                                                    *)
LEMMA ClaimForRun ==
  ASSUME TypeOK, ClaimInv, RunInv, NEW d \in Coroutines, NEW policy,
         NEW pc \in {"start", "failSteer"},
         co[d].pc \in {"claimAuto", "claimSteer"},
         ClaimNext(d, policy, pc), run' = run, life' = life
  PROVE  RunInv'
<1>0. /\ store \in [Items -> ItemRecords] /\ co \in [Coroutines -> CoRecords]
      /\ co[d] \in CoRecords /\ "list" \in Pcs
  BY DEF TypeOK, Pcs
<1>1. CASE Continue(d) /\ UNCHANGED store
  BY <1>0, <1>1, CoMoves DEF SettledStay
<1>2. ASSUME NEW i \in Items, IsFirst(store, Claimable(store, policy), i),
             store' = Claim(store, i),
             co' = [co EXCEPT ![d] = [@ EXCEPT !.pc = pc, !.item = i]]
      PROVE  RunInv'
  <2> DEFINE c == [co[d] EXCEPT !.pc = pc, !.item = i]
  <2>1. store[i].status = "queued"
    BY <1>2 DEF IsFirst, Claimable, Queued
  <2>2. SettledStay  BY <1>0, <1>2, <2>1, ClaimSafe, SafeSettled
  <2>3. c.pc = pc /\ c.item = i  BY <1>0 DEF CoRecords
  <2>4. \A e \in Coroutines : co'[e] = IF e = d THEN c ELSE co[e]
    BY <1>0, <1>2
  <2> HIDE DEF c
  <2>5. \A e \in Coroutines : ~Holds(e, i)
    BY <2>1, QueuedIsFree DEF Held
  <2>6. \A r \in Runs : run[r].item # None /\ run[r].life = life => run[r].item # i
    BY <2>1, <2>5 DEF RunInv, RunAccounted, Holds, HoldingPcs, Settled
  <2>7. OneRunPerInput'  BY DEF RunInv, OneRunPerInput
  <2>8. RunAccounted'
    <3>1. \A r \in Runs :
            /\ run[r].life <= life
            /\ run[r].item # None /\ run[r].life = life =>
                 \A e \in Coroutines :
                   ~(co'[e].pc = "start" /\ co'[e].item = run[r].item)
      BY <2>3, <2>4, <2>6 DEF RunInv, RunAccounted
    <3>2. \A e \in Coroutines : co[e].pc \in {"mark", "failStart"} => co'[e] = co[e]
      BY <2>4
    <3>3. \A r \in Runs :
            run[r].item # None /\ run[r].life = life =>
              \/ store'[run[r].item].status \in Settled
              \/ \E e \in Coroutines : /\ co'[e].pc \in {"mark", "failStart"}
                                       /\ co'[e].item = run[r].item
      <4>1. \A r \in Runs : run[r].item # None => run[r].item \in Items
        BY DEF TypeOK, RunRecords
      <4> QED BY <2>2, <3>2, <4>1 DEF RunInv, RunAccounted, SettledStay
    <3> QED BY <3>1, <3>3 DEF RunAccounted
  <2> QED BY <2>7, <2>8 DEF RunInv
<1> QED BY <1>1, <1>2 DEF ClaimNext

LEMMA HandlerRuns ==
  ASSUME TypeOK, RunInv, NEW i \in Items,
         PostQueued(i) \/ PostRunBusy(i) \/ PostRunFree(i) \/ HandlerStep(i)
  PROVE  RunInv'
<1>0. i \in Coroutines /\ store \in [Items -> ItemRecords]
  BY DEF Coroutines, TypeOK
<1>1. CASE PostQueued(i) \/ PostRunBusy(i)
  <2>1. PICK pc \in {"enqueue", "enqueueChat"} : co' = [co EXCEPT ![i] = Admitted(i, pc)]
    BY <1>1 DEF PostQueued, PostRunBusy
  <2>2. Admitted(i, pc).pc # "start"  BY DEF Admitted, Idle
  <2>3. /\ run' = run /\ life' = life /\ store' = store
        /\ co[i].pc \in RestingPcs
    BY <1>1 DEF PostQueued, PostRunBusy, NewPost
  <2> QED BY <1>0, <2>1, <2>2, <2>3, CoFrame DEF SettledStay, RestingPcs
<1>2. CASE PostRunFree(i)
  <2>1. PICK q \in Runs : CreateAndSchedule(q, None) \/ CreateAndRaise(q, None)
    BY <1>2 DEF PostRunFree
  <2>2. /\ run'[q].item = None /\ run'[q].life = life
        /\ \A r \in Runs \ {q} :
             run'[r].item = run[r].item /\ run'[r].life = run[r].life
    BY <2>1, Created
  <2>3. co' = co /\ store' = store /\ life' = life  BY <1>2 DEF PostRunFree
  <2>4. OneRunPerInput'  BY <2>2 DEF RunInv, OneRunPerInput
  <2>5. RunAccounted'
    <3>1. life <= life  BY DEF TypeOK
    <3> QED BY <2>2, <2>3, <3>1 DEF RunInv, RunAccounted
  <2> QED BY <2>4, <2>5 DEF RunInv
<1>3. CASE DoEnqueue(i)
  <2> DEFINE c == [Idle EXCEPT !.pc =
                     IF co[i].pc = "enqueue" THEN "reset" ELSE "recheck"]
  <2>1. co' = [co EXCEPT ![i] = c]  BY <1>3 DEF DoEnqueue
  <2>2. c.pc # "start"  BY DEF Idle
  <2> HIDE DEF c
  <2>3. SettledStay  BY <1>0, <1>3, EnqueueSafe, SafeSettled DEF DoEnqueue
  <2>4. run' = run /\ life' = life /\ co[i].pc \in {"enqueue", "enqueueChat"}
    BY <1>3 DEF DoEnqueue
  <2> QED BY <1>0, <2>1, <2>2, <2>3, <2>4, CoFrame
<1>4. CASE Recheck(i)
  <2>1. /\ Finish(i) \/ Goto(i, "reset")
        /\ run' = run /\ life' = life /\ store' = store /\ co[i].pc = "recheck"
    BY <1>4 DEF Recheck
  <2>2. "reset" \in Pcs \ {"start"}  BY DEF Pcs
  <2> QED BY <1>0, <2>1, <2>2, CoMoves DEF SettledStay
<1> QED BY <1>1, <1>2, <1>3, <1>4 DEF HandlerStep

LEMMA CoroutineRuns ==
  ASSUME TypeOK, ClaimInv, RunInv, NEW d \in Coroutines, CoroutineStep(d)
  PROVE  RunInv'
<1>0. /\ store \in [Items -> ItemRecords] /\ co \in [Coroutines -> CoRecords]
      /\ co[d] \in CoRecords /\ InHand(co[d]) /\ life' = life
  BY DEF TypeOK, CoroutineStep, DoReset, DoList, Decide, DoRetarget, DoClaimAuto,
         DoClaimSteer, Start, DoMark, DoFail
<1>1. {"list", "claimAuto", "claimSteer", "failStart"} \subseteq Pcs \ {"start"}
  BY DEF Pcs
<1>2. CASE DoReset(d)
  <2>1. SettledStay  BY <1>0, <1>2, ResetSafe, SafeSettled DEF DoReset
  <2> QED BY <1>0, <1>1, <1>2, <2>1, CoMoves DEF DoReset
<1>3. CASE DoList(d)
  <2>1. SettledStay /\ run' = run /\ co[d].pc = "list"
    BY <1>3 DEF DoList, SettledStay
  <2>2. CASE Finish(d)
    BY <1>0, <1>1, <2>1, <2>2, CoMoves
  <2>3. CASE ~Finish(d)
    <3>1. PICK i \in Items :
            co' = [co EXCEPT ![d] = [@ EXCEPT
                !.pc = "decide", !.item = i, !.policy = store[i].policy,
                !.turn = store[i].turn, !.bound = store[i].bound]]
      BY <1>3, <2>3 DEF DoList
    <3> DEFINE c == [co[d] EXCEPT
                !.pc = "decide", !.item = i, !.policy = store[i].policy,
                !.turn = store[i].turn, !.bound = store[i].bound]
    <3>2. co' = [co EXCEPT ![d] = c]  BY <3>1
    <3>3. c.pc # "start"  BY <1>0 DEF CoRecords
    <3> HIDE DEF c
    <3> QED BY <1>0, <2>1, <3>2, <3>3, CoFrame
  <2> QED BY <2>2, <2>3
<1>4. CASE Decide(d)
  <2>1. SettledStay /\ run' = run /\ co[d].pc = "decide"
    BY <1>4 DEF Decide, SettledStay
  <2>2. CASE Finish(d) \/ Goto(d, "claimAuto") \/ Goto(d, "claimSteer")
    BY <1>0, <1>1, <2>1, <2>2, CoMoves
  <2>3. CASE co' = [co EXCEPT ![d] = [@ EXCEPT !.pc = "retarget",
                       !.turn = turn, !.bound = Bound(turn)]]
    <3> DEFINE c == [co[d] EXCEPT !.pc = "retarget", !.turn = turn,
                                  !.bound = Bound(turn)]
    <3>1. co' = [co EXCEPT ![d] = c]  BY <2>3
    <3>2. c.pc # "start"  BY <1>0 DEF CoRecords
    <3> HIDE DEF c
    <3> QED BY <1>0, <2>1, <3>1, <3>2, CoFrame
  <2> QED BY <1>4, <2>2, <2>3 DEF Decide
<1>5. CASE DoRetarget(d)
  <2>1. co[d].item \in Items
    BY <1>0, <1>5 DEF DoRetarget, InHand, WorkingPcs
  <2>2. SettledStay
    BY <1>0, <1>5, <2>1, RetargetSafe, SafeSettled DEF DoRetarget, SettledStay
  <2> QED BY <1>0, <1>1, <1>5, <2>2, CoMoves DEF DoRetarget
<1>6. CASE DoClaimAuto(d)
  BY <1>0, <1>6, ClaimForRun DEF DoClaimAuto
<1>7. CASE DoClaimSteer(d)
  BY <1>0, <1>7, ClaimForRun DEF DoClaimSteer
<1>8. CASE Start(d)
  <2>1. store' = store /\ SettledStay /\ co[d].pc = "start"
    BY <1>8 DEF Start, SettledStay
  <2>2. ASSUME NEW r \in Runs, CreateAndSchedule(r, co[d].item),
               co' = [co EXCEPT ![d] = [@ EXCEPT !.pc = "mark", !.run = r]]
        PROVE  RunInv'
    <3> DEFINE c == [co[d] EXCEPT !.pc = "mark", !.run = r]
    <3>1. co' = [co EXCEPT ![d] = c]  BY <2>2
    <3>2. c.pc = "mark" /\ c.item = co[d].item  BY <1>0 DEF CoRecords
    <3> HIDE DEF c
    <3> QED BY <1>0, <2>1, <2>2, <3>1, <3>2, CreateForClaim
  <2>3. ASSUME NEW r \in Runs, CreateAndRaise(r, co[d].item), Goto(d, "failStart")
        PROVE  RunInv'
    <3> DEFINE c == [co[d] EXCEPT !.pc = "failStart"]
    <3>1. co' = [co EXCEPT ![d] = c]  BY <2>3 DEF Goto
    <3>2. c.pc = "failStart" /\ c.item = co[d].item  BY <1>0 DEF CoRecords
    <3> HIDE DEF c
    <3> QED BY <1>0, <2>1, <2>3, <3>1, <3>2, CreateForClaim
  <2>4. CASE Goto(d, "failStart") /\ run' = run
    BY <1>0, <1>1, <2>1, <2>4, CoMoves
  <2> QED BY <1>8, <2>2, <2>3, <2>4 DEF Start
<1>9. CASE DoMark(d) \/ DoFail(d)
  <2>1. PICK i \in Items : co[d].item = i
    BY <1>0, <1>9 DEF DoMark, DoFail, InHand, WorkingPcs, HoldingPcs
  <2>2. PICK u, ref : u \in Settled /\ store' = UpdateItem(store, i, u, ref)
    BY <1>9, <2>1 DEF DoMark, DoFail, MarkDispatched, MarkFailed, Settled
  <2>3. SettledStay /\ store'[i].status \in Settled
    BY <2>2, UpdateSettles
  <2>4. run' = run /\ (Finish(d) \/ GiveUp(d) \/ Continue(d))
    BY <1>9 DEF DoMark, DoFail
  <2> QED BY <1>0, <1>1, <2>1, <2>3, <2>4, CoMoves
<1> QED BY <1>2, <1>3, <1>4, <1>5, <1>6, <1>7, <1>8, <1>9 DEF CoroutineStep

LEMMA CellRuns ==
  ASSUME TypeOK, SpawnedOnce, RunInv, NEW r \in Runs,
         CellStep(r) \/ TaskStep(r) \/ AbandonSteers(r) \/ Interrupted(r)
  PROVE  RunInv'
<1>0. /\ run \in [Runs -> RunRecords] /\ store \in [Items -> ItemRecords]
      /\ \A s \in Runs : run[s] \in RunRecords
  BY DEF TypeOK
<1>1. /\ \A s \in Runs : run'[s].item = run[s].item /\ run'[s].life = run[s].life
      /\ life' = life
  <2>1. CASE TaskStarts(r)
    BY <1>0, <2>1 DEF TaskStarts, Supervised, RunRecords
  <2>2. CASE UNCHANGED run
    BY <2>2 DEF CellStep, CellBegins, StartTurn, ClaimSteers, MarkSteer, Complete,
       Unwind, SetDone, OnDone, TaskStep, BindTask, TaskStarts, TaskParks, TaskPauses, TaskEnds,
       AbandonSteers, Interrupted
  <2>3. CASE CellBegins(r) \/ Complete(r) \/ Unwind(r) \/ SetDone(r) \/ OnDone(r)
             \/ Interrupted(r)
    BY <1>0, <2>3 DEF CellBegins, Complete, Unwind, SetDone, OnDone, Interrupted,
                      RunRecords
  <2>4. CASE BindTask(r) \/ TaskParks(r) \/ TaskPauses(r) \/ TaskEnds(r)
           \/ AbandonSteers(r)
    BY <1>0, <2>4 DEF BindTask, TaskParks, TaskPauses, TaskEnds, AbandonSteers, RunRecords
  <2> QED BY <2>1, <2>2, <2>3, <2>4
          DEF CellStep, TaskStep, StartTurn, ClaimSteers, MarkSteer
<1>2. SettledStay
  <2>1. CASE ClaimSteers(r)
    BY <1>0, <2>1, ClaimForTurnSafe, SafeSettled DEF ClaimSteers
  <2>2. CASE MarkSteer(r)
    <3>1. PICK i \in Items :
            store' = MarkDispatched(store, i, r) \/ store' = MarkFailed(store, i)
      BY <2>2 DEF MarkSteer
    <3>2. PICK u, ref : u \in Settled /\ store' = UpdateItem(store, i, u, ref)
      BY <3>1 DEF MarkDispatched, MarkFailed, Settled
    <3> QED BY <3>2, UpdateSettles
  <2>3. CASE store' = store
    BY <2>3 DEF SettledStay
  <2> QED BY <2>1, <2>2, <2>3
          DEF CellStep, TaskStep, CellBegins, StartTurn, Complete, Unwind, SetDone,
              OnDone, BindTask, TaskStarts, TaskParks, TaskPauses, TaskEnds, AbandonSteers,
              Interrupted
<1>3. CASE OnDone(r)
  <2>1. co[r].pc = "idle" /\ r \in Coroutines
    BY <1>3 DEF OnDone, SpawnedOnce, Coroutines
  <2>2. co'[r].pc = "reset" /\ \A e \in Coroutines \ {r} : co'[e] = co[e]
    BY <1>3, <2>1 DEF OnDone, Goto, TypeOK, CoRecords
  <2>3. RunsStayAccounted
    BY <1>1, <1>2, <2>1, <2>2 DEF RunsStayAccounted, SettledStay
  <2> QED BY <2>3, RunFrame
<1>4. CASE co' = co
  BY <1>1, <1>2, <1>4, RunFrame DEF RunsStayAccounted, SettledStay
<1> QED BY <1>3, <1>4
        DEF CellStep, TaskStep, CellBegins, StartTurn, ClaimSteers, MarkSteer,
            Complete, Unwind, SetDone, BindTask, TaskStarts, TaskParks, TaskPauses, TaskEnds,
            AbandonSteers, Interrupted

LEMMA UserRuns ==
  ASSUME TypeOK, RunInv, NEW i \in Items,
         CancelCheck(i) \/ CancelWrite(i) \/ Age(i)
  PROVE  RunInv'
<1>1. SettledStay
  <2>1. CASE CancelCheck(i)
    BY <2>1 DEF CancelCheck, SettledStay
  <2>2. CASE CancelWrite(i)
    <3>1. PICK u, ref : u \in Settled /\ store' = UpdateItem(store, i, u, ref)
      BY <2>2 DEF CancelWrite, MarkCanceled, Settled
    <3> QED BY <3>1, UpdateSettles
  <2>3. CASE Age(i)
    BY <2>3 DEF Age, SettledStay, TypeOK, ItemRecords
  <2> QED BY <2>1, <2>2, <2>3
<1>2. run' = run /\ co' = co /\ life' = life
  BY DEF CancelCheck, CancelWrite, Age
<1> QED BY <1>1, <1>2, RunFrame DEF RunsStayAccounted, SettledStay

(* After a restart the runs of the old process belong to its lifetime.     *)
LEMMA RestartRuns ==
  ASSUME TypeOK, RunInv, Restart
  PROVE  RunInv'
<1>1. \A r \in Runs : run'[r].item = run[r].item /\ run'[r].life = run[r].life
  BY DEF Restart, TypeOK, RunRecords
<1>2. \A r \in Runs : run[r].life <= life /\ run[r].life \in Nat
  BY NaturalBounds DEF RunInv, RunAccounted, TypeOK, RunRecords
<1>3. life' = life + 1 /\ life \in Nat
  <2>1. life' = life + 1  BY DEF Restart
  <2>2. life \in 0 .. MaxCrashes  BY DEF TypeOK
  <2> QED BY <2>1, <2>2, NaturalBounds
<1>4. \A r \in Runs : run'[r].life <= life' /\ run'[r].life # life'
  BY <1>1, <1>2, <1>3
<1>5. RunAccounted'
  BY <1>4 DEF RunAccounted
<1>6. OneRunPerInput'
  BY <1>1 DEF RunInv, OneRunPerInput
<1> QED BY <1>5, <1>6 DEF RunInv

LEMMA RunInvariant ==
  ASSUME SlowClaims = FALSE
  PROVE  Spec => []RunInv
<1>1. Init => RunInv
  BY NaturalBounds DEF Init, RunInv, OneRunPerInput, RunAccounted, NoRun
<1>2. TypeOK /\ SpawnedOnce /\ ClaimInv /\ RunInv /\ [Next]_vars => RunInv'
  <2> SUFFICES ASSUME TypeOK, SpawnedOnce, ClaimInv, RunInv, [Next]_vars
               PROVE  RunInv'
    OBVIOUS
  <2>1. CASE UNCHANGED vars
    BY <2>1, RunFrame DEF vars, RunsStayAccounted
  <2> QED BY <2>1, HandlerRuns, CoroutineRuns, CellRuns, UserRuns, RestartRuns DEF Next
<1> QED BY <1>1, <1>2, TypeCorrect, SpawnInvariant, ClaimInvariant, PTL DEF Spec

(* A queued message becomes at most one chat run in the lifetime of a      *)
(* process, whatever dispatchers, retried submissions, cancels and faults  *)
(* do, provided no live claimer outlasts the 300 s.                        *)
THEOREM AtMostOneRunPerInput ==
  ASSUME SlowClaims = FALSE
  PROVE  Spec => []OneRunPerInput
<1>1. RunInv => OneRunPerInput  BY DEF RunInv
<1> QED BY <1>1, RunInvariant, PTL

-----------------------------------------------------------------------------
(* The chat cells of a session take turns.                                 *)

(* A step after which no more cells or executors are at work.              *)
LEMMA TurnFrame ==
  ASSUME OnePrimaryCell,
         \A r \in Runs : /\ run'[r].cell \in RunningCells => CellRunning(r)
                         /\ run'[r].task = "running" => run[r].task = "running"
  PROVE  OnePrimaryCell'
BY DEF OnePrimaryCell, CellRunning

(* A run gets a cell only when no cell and no executor is at work.         *)
LEMMA CreateTurn ==
  ASSUME TypeOK, OnePrimaryCell, NEW q \in Runs, NEW item,
         CreateAndSchedule(q, item) \/ CreateAndRaise(q, item)
  PROVE  OnePrimaryCell'
<1>1. /\ run'[q].task = "none"
      /\ \A r \in Runs \ {q} :
           run'[r].cell = run[r].cell /\ run'[r].task = run[r].task
  BY Created
<1>2. CASE run'[q].cell \notin RunningCells
  BY <1>1, <1>2, TurnFrame DEF CellRunning
<1>3. CASE run'[q].cell \in RunningCells
  <2>1. ~PrimaryCellRunning
    <3>1. CASE CreateAndSchedule(q, item)
      <4>1. run'[q] = NewRun(item)  BY <3>1 DEF CreateAndSchedule
      <4>2. PrimaryCellRunning => NewRun(item).cell = "none"
        BY DEF NewRun, NoRun
      <4> QED BY <1>3, <4>1, <4>2 DEF RunningCells
    <3>2. CASE CreateAndRaise(q, item)
      <4>1. run'[q].cell = "none"
        BY <3>2 DEF CreateAndRaise, NoRun, TypeOK
      <4> QED BY <1>3, <4>1 DEF RunningCells
    <3> QED BY <3>1, <3>2
  <2>2. \A r \in Runs : run[r].cell \notin RunningCells /\ run[r].task # "running"
    BY <2>1 DEF PrimaryCellRunning, CellRunning
  <2> QED BY <1>1, <2>2 DEF OnePrimaryCell, CellRunning
<1> QED BY <1>2, <1>3

LEMMA CellTurn ==
  ASSUME TypeOK, OnePrimaryCell, NEW r \in Runs,
         CellStep(r) \/ TaskStep(r) \/ AbandonSteers(r) \/ Interrupted(r)
  PROVE  OnePrimaryCell'
<1>0. run \in [Runs -> RunRecords] /\ run[r] \in RunRecords
  BY DEF TypeOK
<1>1. CASE run' = run
  BY <1>1, TurnFrame DEF CellRunning
<1>2. CASE CellBegins(r) \/ Complete(r) \/ Unwind(r) \/ SetDone(r) \/ OnDone(r)
           \/ Interrupted(r)
  <2>1. \A s \in Runs \ {r} : run'[s] = run[s]
    BY <1>0, <1>2 DEF CellBegins, Complete, Unwind, SetDone, OnDone, Interrupted
  <2>2. run'[r].task = run[r].task
    BY <1>0, <1>2 DEF CellBegins, Complete, Unwind, SetDone, OnDone, Interrupted,
                      RunRecords
  <2>3. CASE OnDone(r) \/ SetDone(r)
    <3>1. run'[r].cell \notin RunningCells
      BY <1>0, <2>3 DEF OnDone, SetDone, RunRecords, RunningCells
    <3> QED BY <2>1, <2>2, <3>1, TurnFrame DEF CellRunning
  <2>4. CASE CellBegins(r) \/ Complete(r) \/ Unwind(r) \/ Interrupted(r)
    <3>1. CellRunning(r)
      BY <2>4 DEF CellBegins, Complete, Unwind, Interrupted, CellRunning, RunningCells
    <3> QED BY <2>1, <2>2, <3>1, TurnFrame DEF CellRunning
  <2> QED BY <1>2, <2>3, <2>4
<1>3. CASE BindTask(r) \/ TaskParks(r) \/ TaskPauses(r) \/ TaskEnds(r)
           \/ AbandonSteers(r)
  <2>1. /\ \A s \in Runs \ {r} : run'[s] = run[s]
        /\ run'[r].cell = run[r].cell /\ run'[r].task # "running"
    BY <1>0, <1>3 DEF BindTask, TaskParks, TaskPauses, TaskEnds, AbandonSteers, RunRecords
  <2> QED BY <2>1, TurnFrame DEF CellRunning
<1>4. CASE TaskStarts(r)
  <2>1. /\ \A s \in Runs : run'[s].cell = run[s].cell
        /\ \A s \in Runs \ {r} : run'[s].task = run[s].task
    BY <1>0, <1>4 DEF TaskStarts, Supervised, RunRecords, TypeOK
  <2>2. \A s \in Runs \ {r} :
          run[s].cell \notin RunningCells /\ run[s].task # "running"
    BY <1>4 DEF TaskStarts, CellRunning
  <2> QED BY <2>1, <2>2 DEF OnePrimaryCell, CellRunning
<1> QED BY <1>1, <1>2, <1>3, <1>4
        DEF CellStep, TaskStep, StartTurn, ClaimSteers, MarkSteer

(* No two chat cells of a session are at work together, nor a chat cell    *)
(* beside the executor of another run's task, whatever handlers and        *)
(* dispatchers create.                                                     *)
THEOREM CellsTakeTurns == Spec => []OnePrimaryCell
<1>1. Init => OnePrimaryCell
  BY DEF Init, OnePrimaryCell, CellRunning, RunningCells, NoRun
<1>2. TypeOK /\ OnePrimaryCell /\ [Next]_vars => OnePrimaryCell'
  <2> SUFFICES ASSUME TypeOK, OnePrimaryCell, [Next]_vars PROVE OnePrimaryCell'
    OBVIOUS
  <2>1. CASE run' = run
    BY <2>1, TurnFrame DEF CellRunning
  <2>2. ASSUME NEW i \in Items,
               \/ PostQueued(i) \/ PostRunBusy(i) \/ PostRunFree(i)
               \/ HandlerStep(i) \/ CancelCheck(i) \/ CancelWrite(i) \/ Age(i)
        PROVE  OnePrimaryCell'
    BY <2>1, <2>2, CreateTurn
       DEF PostQueued, PostRunBusy, PostRunFree, HandlerStep, DoEnqueue, Recheck,
           CancelCheck, CancelWrite, Age
  <2>3. ASSUME NEW d \in Coroutines, CoroutineStep(d)
        PROVE  OnePrimaryCell'
    BY <2>1, <2>3, CreateTurn
       DEF CoroutineStep, DoReset, DoList, Decide, DoRetarget, DoClaimAuto,
           DoClaimSteer, Start, DoMark, DoFail
  <2>4. CASE Restart
    <3>1. \A r \in Runs : run'[r].cell = "none" /\ run'[r].task = "none"
      BY <2>4 DEF Restart, TypeOK, RunRecords
    <3> QED BY <3>1 DEF OnePrimaryCell, CellRunning, RunningCells
  <2> QED BY <2>1, <2>2, <2>3, <2>4, CellTurn DEF Next, vars
<1> QED BY <1>1, <1>2, TypeCorrect, PTL DEF Spec
=============================================================================
