----------------------- MODULE SessionDispatch_proofs -----------------------
(***************************************************************************)
(* Proofs about SessionDispatch, for any number of messages, runs,         *)
(* attempts, submissions and restarts: the types, and the exclusiveness of *)
(* claims.                                                                 *)
(***************************************************************************)
EXTENDS SessionDispatch, FiniteSetTheorems, TLAPS

-----------------------------------------------------------------------------
(* The store's methods.                                                    *)

(* Every method of the store returns a store.                              *)
LEMMA StoreTypes ==
  ASSUME NEW st \in [Items -> ItemRecords], NEW i \in Items,
         NEW t \in Runs \cup {None}, NEW b \in BOOLEAN, NEW p \in Policies
  PROVE  /\ Enqueue(st, i, p, t, b) \in [Items -> ItemRecords]
         /\ Claim(st, i) \in [Items -> ItemRecords]
         /\ Retarget(st, i, p, t, b) \in [Items -> ItemRecords]
<1>1. Cardinality(Present(st)) + 1 \in Nat
  <2>1. IsFiniteSet(Present(st))
    BY FiniteSession, FS_Subset DEF Present
  <2> QED BY <2>1, FS_CardinalityType
<1>2. Enqueue(st, i, p, t, b) \in [Items -> ItemRecords]
  BY <1>1 DEF Enqueue, ItemRecords, Statuses
<1>3. Retarget(st, i, p, t, b) \in [Items -> ItemRecords]
  BY DEF Retarget, ItemRecords
<1>4. Claim(st, i) \in [Items -> ItemRecords]
  BY DEF Claim, ItemRecords, Statuses
<1> QED BY <1>2, <1>3, <1>4

LEMMA MarkTypes ==
  ASSUME NEW st \in [Items -> ItemRecords], NEW i \in Items,
         NEW t \in Runs \cup {None}
  PROVE  /\ MarkDispatched(st, i, t) \in [Items -> ItemRecords]
         /\ MarkFailed(st, i) \in [Items -> ItemRecords]
         /\ MarkCanceled(st, i) \in [Items -> ItemRecords]
<1>1. \A u \in Statuses, ref \in Runs \cup {None} :
        UpdateItem(st, i, u, ref) \in [Items -> ItemRecords]
  BY DEF UpdateItem, ItemRecords
<1>2. st[i].ref \in Runs \cup {None}  BY DEF ItemRecords
<1> QED BY <1>1, <1>2 DEF MarkDispatched, MarkFailed, MarkCanceled,
                          Statuses, Settled

LEMMA ResetType ==
  ASSUME NEW st \in [Items -> ItemRecords]
  PROVE  ResetStale(st) \in [Items -> ItemRecords]
BY DEF ResetStale, StaleItems, ItemRecords, Statuses

LEMMA ClaimForTurnType ==
  ASSUME NEW st \in [Items -> ItemRecords], NEW t \in Runs, NEW b \in BOOLEAN
  PROVE  ClaimForActiveTurn(st, t, b) \in [Items -> ItemRecords]
BY DEF ClaimForActiveTurn, ItemRecords, Statuses, Policies

-----------------------------------------------------------------------------
(* Type correctness.                                                       *)

LEMMA InitType == Init => TypeOK
<1> SUFFICES ASSUME Init PROVE TypeOK  OBVIOUS
<1>1. store \in [Items -> ItemRecords]
  BY DEF Init, EmptyStore, Absent, ItemRecords, Statuses, Policies
<1>2. co \in [Coroutines -> CoRecords]
  BY NaturalBounds DEF Init, Idle, CoRecords, Pcs, Policies
<1>3. run \in [Runs -> RunRecords]
  BY NaturalBounds DEF Init, NoRun, RunRecords, RunStatuses, CellPhases
<1>4. \A d \in Coroutines : InHand(co[d])
  BY DEF Init, Idle, InHand, WorkingPcs, HoldingPcs
<1> QED BY <1>1, <1>2, <1>3, <1>4, NaturalBounds DEF Init, TypeOK

(* A coroutine's record is sound: of the right type, and on an item when   *)
(* it works on one.                                                        *)
Sound(c) == c \in CoRecords /\ InHand(c)

LEMMA CoSound ==
  ASSUME TypeOK
  PROVE  /\ \A d \in Coroutines : Sound(co[d])
         /\ \A d \in Coroutines : \A c : Sound(c) /\ co' = [co EXCEPT ![d] = c]
              => /\ co' \in [Coroutines -> CoRecords]
                 /\ \A e \in Coroutines : InHand(co'[e])
BY DEF Sound, TypeOK

LEMMA IdleSound ==
  ASSUME NEW pc \in Pcs \ WorkingPcs, NEW tries \in 0 .. MaxAttempts
  PROVE  /\ Sound(Idle)
         /\ Sound([Idle EXCEPT !.pc = pc])
         /\ Sound([Idle EXCEPT !.pc = pc, !.tries = tries])
<1>1. Idle \in CoRecords
  BY NaturalBounds DEF Idle, CoRecords, Pcs, Policies
<1>2. InHand(Idle)
  BY DEF Idle, InHand, WorkingPcs, HoldingPcs
<1>3. [Idle EXCEPT !.pc = pc] \in CoRecords
  BY <1>1 DEF CoRecords
<1>4. [Idle EXCEPT !.pc = pc, !.tries = tries] \in CoRecords
  BY <1>1 DEF CoRecords
<1>5. pc # "mark"  BY DEF WorkingPcs, HoldingPcs
<1>6. InHand([Idle EXCEPT !.pc = pc])
  BY <1>1, <1>5 DEF InHand, CoRecords
<1>7. InHand([Idle EXCEPT !.pc = pc, !.tries = tries])
  BY <1>1, <1>5 DEF InHand, CoRecords
<1> QED BY <1>1, <1>2, <1>3, <1>4, <1>6, <1>7 DEF Sound

(* The moves a coroutine makes keep every coroutine's record sound.        *)
LEMMA CoTypes ==
  ASSUME TypeOK, NEW d \in Coroutines, NEW pc \in Pcs,
         \/ Goto(d, pc) /\ pc \notin WorkingPcs
         \/ Goto(d, pc) /\ pc # "mark" /\ co[d].item \in Items
         \/ Finish(d) \/ GiveUp(d)
         \/ Continue(d)
  PROVE  co' \in [Coroutines -> CoRecords] /\ \A e \in Coroutines : InHand(co'[e])
<1>1. co[d] \in CoRecords /\ Sound(co[d])  BY CoSound DEF TypeOK
<1>2. CASE Goto(d, pc) /\ pc # "mark" /\ (pc \notin WorkingPcs \/ co[d].item \in Items)
  <2>1. Sound([co[d] EXCEPT !.pc = pc])
    BY <1>1, <1>2 DEF Sound, CoRecords, InHand
  <2>2. co' = [co EXCEPT ![d] = [co[d] EXCEPT !.pc = pc]]
    BY <1>2 DEF Goto
  <2> QED BY <2>1, <2>2, CoSound
<1>3. CASE Finish(d) \/ GiveUp(d)
  <2>1. "gaveUp" \in Pcs \ WorkingPcs  BY DEF Pcs, WorkingPcs, HoldingPcs
  <2>2. Sound(Idle) /\ Sound(GaveUp)
    <3>1. co[d].tries \in 0 .. MaxAttempts  BY <1>1 DEF CoRecords
    <3> QED BY <2>1, <3>1, IdleSound DEF GaveUp
  <2> QED BY <1>3, <2>2, CoSound DEF Finish, GiveUp
<1>4. CASE Continue(d)
  <2>1. "list" \in Pcs \ WorkingPcs  BY DEF Pcs, WorkingPcs, HoldingPcs
  <2>2. co[d].tries \in 0 .. MaxAttempts  BY <1>1 DEF CoRecords
  <2>3. CASE co[d].tries + 1 < MaxAttempts
    <3>1. co[d].tries + 1 \in 0 .. MaxAttempts
      BY <2>2, <2>3, NaturalBounds
    <3>2. Sound([Idle EXCEPT !.pc = "list", !.tries = co[d].tries + 1])
      BY <2>1, <3>1, IdleSound
    <3> QED BY <1>4, <2>3, <3>2, CoSound DEF Continue
  <2>4. CASE ~(co[d].tries + 1 < MaxAttempts)
    <3>1. "gaveUp" \in Pcs \ WorkingPcs  BY DEF Pcs, WorkingPcs, HoldingPcs
    <3>2. Sound(GaveUp)  BY <2>2, <3>1, IdleSound DEF GaveUp
    <3> QED BY <1>4, <2>4, <3>2, CoSound DEF Continue
  <2> QED BY <2>3, <2>4
<1>5. pc # "mark" \/ pc \in WorkingPcs  BY DEF WorkingPcs, HoldingPcs
<1> QED BY <1>2, <1>3, <1>4, <1>5

(* A created run, and the cells the supervisor has looked at.              *)
LEMMA RunTypes ==
  ASSUME TypeOK, NEW r \in Runs, NEW item \in Items \cup {None}
  PROVE  /\ CreateAndSchedule(r, item) => run' \in [Runs -> RunRecords]
         /\ CreateAndRaise(r, item) => run' \in [Runs -> RunRecords]
         /\ \A s \in Runs : Supervised(s) \in RunRecords
<1>1. \A s \in Runs : Supervised(s) \in RunRecords
  BY DEF Supervised, TypeOK, RunRecords, CellRunning
<1>2. NewRun(item) \in RunRecords
  BY DEF NewRun, NoRun, RunRecords, RunStatuses, TerminalRunStatuses,
         CellPhases, RunningCells, TypeOK
<1>3. [NoRun EXCEPT !.status = "starting", !.item = item, !.life = life]
        \in RunRecords
  BY DEF NoRun, RunRecords, RunStatuses, CellPhases, TypeOK
<1> QED BY <1>1, <1>2, <1>3 DEF CreateAndSchedule, CreateAndRaise, TypeOK


LEMMA HandlerType ==
  ASSUME TypeOK, NEW i \in Items,
         PostQueued(i) \/ PostRunBusy(i) \/ PostRunFree(i) \/ HandlerStep(i)
  PROVE  TypeOK'
<1>0. i \in Coroutines  BY DEF Coroutines
<1>1. NewPost(i) => posts' \in [Items -> 0 .. MaxPosts]
  <2>1. ASSUME NewPost(i)
        PROVE  posts[i] + 1 \in 0 .. MaxPosts
    BY <2>1, NaturalBounds DEF NewPost, TypeOK
  <2> QED BY <2>1 DEF NewPost, TypeOK
<1>2. ASSUME NEW pc \in {"enqueue", "enqueueChat"},
             co' = [co EXCEPT ![i] = Admitted(i, pc)]
      PROVE  co' \in [Coroutines -> CoRecords] /\ \A e \in Coroutines : InHand(co'[e])
  <2>1. pc \in Pcs /\ pc \notin WorkingPcs  BY DEF Pcs, WorkingPcs, HoldingPcs
  <2>2. Idle \in CoRecords
    BY NaturalBounds DEF Idle, CoRecords, Pcs, Policies
  <2>3. AdmissionPolicy \in Policies /\ Bound(turn) \in BOOLEAN
    BY DEF AdmissionPolicy, Policies, Bound
  <2>4. turn \in Runs \cup {None}  BY DEF TypeOK
  <2>5. Admitted(i, pc) \in CoRecords
    BY <2>1, <2>2, <2>3, <2>4 DEF Admitted, CoRecords
  <2>6. Admitted(i, pc).pc = pc
    BY <2>2 DEF Admitted, CoRecords
  <2>7. Sound(Admitted(i, pc))
    BY <2>1, <2>5, <2>6 DEF Sound, InHand, WorkingPcs, HoldingPcs
  <2> QED BY <1>0, <1>2, <2>7, CoSound
<1>3. CASE PostQueued(i)
  BY <1>1, <1>2, <1>3 DEF PostQueued, TypeOK
<1>4. CASE PostRunBusy(i)
  BY <1>1, <1>2, <1>4 DEF PostRunBusy, TypeOK
<1>5. CASE PostRunFree(i)
  BY <1>1, <1>5, RunTypes DEF PostRunFree, TypeOK
<1>6. CASE DoEnqueue(i)
  <2>1. store' \in [Items -> ItemRecords]
    <3>1. /\ co[i].policy \in Policies /\ co[i].turn \in Runs \cup {None}
          /\ co[i].bound \in BOOLEAN
      BY <1>0 DEF TypeOK, CoRecords
    <3> QED BY <1>6, <3>1, StoreTypes DEF DoEnqueue, TypeOK
  <2>2. co' \in [Coroutines -> CoRecords] /\ \A e \in Coroutines : InHand(co'[e])
    <3>1. {"reset", "recheck"} \subseteq Pcs \ WorkingPcs
      BY DEF Pcs, WorkingPcs, HoldingPcs
    <3>2. 0 \in 0 .. MaxAttempts  BY NaturalBounds
    <3>3. Sound([Idle EXCEPT !.pc = IF co[i].pc = "enqueue" THEN "reset" ELSE "recheck"])
      BY <3>1, <3>2, IdleSound
    <3> QED BY <1>0, <1>6, <3>3, CoSound DEF DoEnqueue
  <2> QED BY <1>6, <2>1, <2>2 DEF DoEnqueue, TypeOK
<1>7. CASE Recheck(i)
  <2>1. "reset" \in Pcs \ WorkingPcs  BY DEF Pcs, WorkingPcs, HoldingPcs
  <2>2. Goto(i, "reset") \/ Finish(i)  BY <1>7 DEF Recheck
  <2> QED BY <1>0, <1>7, <2>1, <2>2, CoTypes DEF Recheck, TypeOK
<1> QED BY <1>3, <1>4, <1>5, <1>6, <1>7 DEF HandlerStep

(* What claim_next leaves behind.                                          *)
LEMMA ClaimNextType ==
  ASSUME TypeOK, NEW d \in Coroutines, NEW policy \in Policies,
         NEW pc \in {"start", "failSteer"}, ClaimNext(d, policy, pc)
  PROVE  /\ store' \in [Items -> ItemRecords]
         /\ co' \in [Coroutines -> CoRecords]
         /\ \A e \in Coroutines : InHand(co'[e])
<1>1. CASE Continue(d) /\ UNCHANGED store
  <2>1. "list" \in Pcs  BY DEF Pcs
  <2> QED BY <1>1, <2>1, CoTypes DEF TypeOK
<1>2. ASSUME NEW i \in Items,
             store' = Claim(store, i),
             co' = [co EXCEPT ![d] = [@ EXCEPT !.pc = pc, !.item = i]]
      PROVE  /\ store' \in [Items -> ItemRecords]
             /\ co' \in [Coroutines -> CoRecords]
             /\ \A e \in Coroutines : InHand(co'[e])
  <2>1. store' \in [Items -> ItemRecords]
    <3>1. "auto" \in Policies /\ None \in Runs \cup {None} /\ FALSE \in BOOLEAN
      BY DEF Policies
    <3> QED BY <1>2, <3>1, StoreTypes DEF TypeOK
  <2>2. Sound([co[d] EXCEPT !.pc = pc, !.item = i])
    <3>1. co[d] \in CoRecords /\ pc \in Pcs /\ pc # "mark"  BY DEF TypeOK, Pcs
    <3>2. [co[d] EXCEPT !.pc = pc, !.item = i] \in CoRecords
      BY <3>1 DEF CoRecords
    <3>3. InHand([co[d] EXCEPT !.pc = pc, !.item = i])
      BY <3>1 DEF CoRecords, InHand
    <3> QED BY <3>2, <3>3 DEF Sound
  <2> QED BY <1>2, <2>1, <2>2, CoSound
<1> QED BY <1>1, <1>2 DEF ClaimNext

LEMMA CoroutineType ==
  ASSUME TypeOK, NEW d \in Coroutines, CoroutineStep(d)
  PROVE  TypeOK'
<1>0. co[d] \in CoRecords /\ InHand(co[d])
  BY DEF TypeOK
<1>1. CASE DoReset(d)
  <2>1. store' \in [Items -> ItemRecords]
    BY <1>1, ResetType DEF DoReset, TypeOK
  <2>2. "list" \in Pcs /\ "list" \notin WorkingPcs
    BY DEF Pcs, WorkingPcs, HoldingPcs
  <2> QED BY <1>1, <2>1, <2>2, CoTypes DEF DoReset, TypeOK
<1>2. CASE DoList(d)
  <2>1. CASE Finish(d)
    <3>1. "idle" \in Pcs  BY DEF Pcs
    <3> QED BY <1>2, <2>1, <3>1, CoTypes DEF DoList, TypeOK
  <2>2. ASSUME NEW i \in Items,
               co' = [co EXCEPT ![d] = [@ EXCEPT
                !.pc = "decide", !.item = i, !.policy = store[i].policy,
                !.turn = store[i].turn, !.bound = store[i].bound]]
        PROVE  TypeOK'
    <3> DEFINE c == [co[d] EXCEPT !.pc = "decide", !.item = i,
                       !.policy = store[i].policy, !.turn = store[i].turn,
                       !.bound = store[i].bound]
    <3>1. /\ store[i].policy \in Policies /\ store[i].turn \in Runs \cup {None}
          /\ store[i].bound \in BOOLEAN
      BY DEF TypeOK, ItemRecords
    <3>2. "decide" \in Pcs  BY DEF Pcs
    <3>3. c \in CoRecords
      BY <1>0, <3>1, <3>2 DEF CoRecords
    <3>4. InHand(c)
      BY <1>0 DEF CoRecords, InHand
    <3>5. Sound(c)  BY <3>3, <3>4 DEF Sound
    <3> QED BY <1>2, <2>2, <3>5, CoSound DEF DoList, TypeOK
  <2> QED BY <1>2, <2>1, <2>2 DEF DoList
<1>3. CASE Decide(d)
  <2>1. CASE Finish(d)
    <3>1. "idle" \in Pcs  BY DEF Pcs
    <3> QED BY <1>3, <2>1, <3>1, CoTypes DEF Decide, TypeOK
  <2>2. ASSUME NEW pc \in {"claimAuto", "claimSteer"}, Goto(d, pc)
        PROVE  TypeOK'
    <3>1. pc \in Pcs /\ pc # "mark"  BY DEF Pcs
    <3>2. co[d].item \in Items
      BY <1>0, <1>3 DEF Decide, InHand, WorkingPcs
    <3> QED BY <1>3, <2>2, <3>1, <3>2, CoTypes DEF Decide, TypeOK
  <2>3. ASSUME co' = [co EXCEPT ![d] = [@ EXCEPT !.pc = "retarget",
                     !.turn = turn, !.bound = Bound(turn)]]
        PROVE  TypeOK'
    <3> DEFINE c == [co[d] EXCEPT !.pc = "retarget", !.turn = turn,
                                  !.bound = Bound(turn)]
    <3>1. "retarget" \in Pcs /\ turn \in Runs \cup {None} /\ Bound(turn) \in BOOLEAN
      BY DEF Pcs, TypeOK, Bound
    <3>2. co[d].item \in Items
      BY <1>0, <1>3 DEF Decide, InHand, WorkingPcs
    <3>3. c \in CoRecords
      BY <1>0, <3>1 DEF CoRecords
    <3>4. InHand(c)
      BY <1>0, <3>2 DEF CoRecords, InHand
    <3>5. Sound(c)  BY <3>3, <3>4 DEF Sound
    <3> QED BY <1>3, <2>3, <3>5, CoSound DEF Decide, TypeOK
  <2> QED BY <1>3, <2>1, <2>2, <2>3 DEF Decide
<1>4. CASE DoRetarget(d)
  <2>1. co[d].item \in Items
    BY <1>0, <1>4 DEF DoRetarget, InHand, WorkingPcs
  <2>2. store' \in [Items -> ItemRecords]
    <3>1. /\ "steer" \in Policies /\ co[d].turn \in Runs \cup {None}
          /\ co[d].bound \in BOOLEAN
      BY <1>0 DEF Policies, CoRecords
    <3>2. Retarget(store, co[d].item, "steer", co[d].turn, co[d].bound)
            \in [Items -> ItemRecords]
      BY <2>1, <3>1, StoreTypes DEF TypeOK
    <3> QED BY <1>4, <3>2 DEF DoRetarget, TypeOK
  <2>3. "idle" \in Pcs  BY DEF Pcs
  <2> QED BY <1>4, <2>2, <2>3, CoTypes DEF DoRetarget, TypeOK
<1>5. CASE DoClaimAuto(d)
  BY <1>5, ClaimNextType DEF DoClaimAuto, TypeOK, Policies
<1>6. CASE DoClaimSteer(d)
  BY <1>6, ClaimNextType DEF DoClaimSteer, TypeOK, Policies
<1>7. CASE Start(d)
  <2>1. co[d].item \in Items
    BY <1>0, <1>7 DEF Start, InHand, WorkingPcs, HoldingPcs
  <2>2. ASSUME NEW r \in Runs, CreateAndSchedule(r, co[d].item),
               co' = [co EXCEPT ![d] = [@ EXCEPT !.pc = "mark", !.run = r]]
        PROVE  TypeOK'
    <3>1. [co[d] EXCEPT !.pc = "mark", !.run = r] \in CoRecords
      <4>1. "mark" \in Pcs  BY DEF Pcs
      <4> QED BY <1>0, <4>1 DEF CoRecords
    <3>2. InHand([co[d] EXCEPT !.pc = "mark", !.run = r])
      BY <1>0, <2>1 DEF CoRecords, InHand
    <3>3. Sound([co[d] EXCEPT !.pc = "mark", !.run = r])
      BY <3>1, <3>2 DEF Sound
    <3> QED BY <1>7, <2>1, <2>2, <3>3, CoSound, RunTypes DEF Start, TypeOK
  <2>3. CASE Goto(d, "failStart")
    <3>1. "failStart" \in Pcs  BY DEF Pcs
    <3>2. ASSUME run' \in [Runs -> RunRecords] PROVE TypeOK'
      BY <1>7, <2>1, <2>3, <3>1, <3>2, CoTypes DEF Start, TypeOK
    <3>3. CASE UNCHANGED run  BY <3>2, <3>3 DEF TypeOK
    <3>4. CASE \E r \in Runs : CreateAndRaise(r, co[d].item)
      BY <2>1, <3>2, <3>4, RunTypes
    <3>5. CASE \E r \in Runs : CreateAndSchedule(r, co[d].item)
      BY <2>1, <3>2, <3>5, RunTypes
    <3> QED BY <1>7, <3>3, <3>4, <3>5 DEF Start
  <2> QED BY <1>7, <2>2, <2>3 DEF Start
<1>8. CASE DoMark(d)
  <2>1. co[d].item \in Items /\ co[d].run \in Runs \cup {None}
    BY <1>0, <1>8 DEF DoMark, InHand, WorkingPcs, HoldingPcs, CoRecords
  <2>2. store' \in [Items -> ItemRecords]
    BY <1>8, <2>1, MarkTypes DEF DoMark, TypeOK
  <2>3. "idle" \in Pcs  BY DEF Pcs
  <2> QED BY <1>8, <2>2, <2>3, CoTypes DEF DoMark, TypeOK
<1>9. CASE DoFail(d)
  <2>1. co[d].item \in Items
    BY <1>0, <1>9 DEF DoFail, InHand, WorkingPcs, HoldingPcs
  <2>2. store' \in [Items -> ItemRecords]
    BY <1>9, <2>1, MarkTypes DEF DoFail, TypeOK
  <2>3. "idle" \in Pcs  BY DEF Pcs
  <2> QED BY <1>9, <2>2, <2>3, CoTypes DEF DoFail, TypeOK
<1> QED BY <1>1, <1>2, <1>3, <1>4, <1>5, <1>6, <1>7, <1>8, <1>9
        DEF CoroutineStep

LEMMA CellType ==
  ASSUME TypeOK, NEW r \in Runs,
         CellStep(r) \/ TaskStep(r) \/ AbandonSteers(r) \/ Interrupted(r)
  PROVE  TypeOK'
<1>0. /\ run[r] \in RunRecords /\ store \in [Items -> ItemRecords]
      /\ steering[r] \subseteq Items
  BY DEF TypeOK
<1>1. ASSUME NEW new \in RunRecords, run' = [run EXCEPT ![r] = new]
      PROVE  run' \in [Runs -> RunRecords]
  BY <1>1 DEF TypeOK
<1>2. CASE CellBegins(r)
  <2>1. run' \in [Runs -> RunRecords]
    BY <1>0, <1>2 DEF CellBegins, TypeOK, RunRecords, RunStatuses, CellPhases,
                      RunningCells
  <2> QED BY <1>2, <2>1 DEF CellBegins, TypeOK
<1>3. CASE StartTurn(r)
  BY <1>3 DEF StartTurn, TypeOK
<1>4. CASE ClaimSteers(r)
  <2>1. Bound(r) \in BOOLEAN  BY DEF Bound
  <2>2. store' \in [Items -> ItemRecords]
    BY <1>0, <1>4, <2>1, ClaimForTurnType DEF ClaimSteers
  <2>3. steering' \in [Runs -> SUBSET Items]
    BY <1>4 DEF ClaimSteers, ClaimedForTurn, TypeOK
  <2> QED BY <1>4, <2>2, <2>3 DEF ClaimSteers, TypeOK
<1>5. CASE MarkSteer(r)
  <2>1. PICK i \in Items :
          /\ store' = MarkDispatched(store, i, r) \/ store' = MarkFailed(store, i)
          /\ steering' = [steering EXCEPT ![r] = @ \ {i}]
          /\ UNCHANGED <<canceling, co, run, turn, posts, life>>
    BY <1>5 DEF MarkSteer
  <2>2. store' \in [Items -> ItemRecords]
    BY <1>0, <2>1, MarkTypes
  <2>3. steering' \in [Runs -> SUBSET Items]
    BY <2>1 DEF TypeOK
  <2> QED BY <2>1, <2>2, <2>3 DEF TypeOK
<1>6. CASE Complete(r)
  <2>1. run' \in [Runs -> RunRecords]
    <3>1. PICK status \in {"completed", "failed"} :
            run' = [run EXCEPT ![r].cell = "flushing", ![r].status = status]
      BY <1>6 DEF Complete
    <3>2. "flushing" \in CellPhases /\ status \in RunStatuses
      BY DEF CellPhases, RunningCells, RunStatuses, TerminalRunStatuses
    <3> QED BY <1>0, <3>1, <3>2 DEF TypeOK, RunRecords
  <2> QED BY <1>6, <2>1 DEF Complete, TypeOK
<1>7. CASE Unwind(r)
  <2>1. run' \in [Runs -> RunRecords]
    <3>1. PICK status \in {run[r].status, "orphaned"} :
            run' = [run EXCEPT ![r].cell = "closing", ![r].status = status]
      BY <1>7 DEF Unwind
    <3>2. "closing" \in CellPhases /\ status \in RunStatuses
      BY <1>0 DEF CellPhases, RunningCells, RunStatuses, TerminalRunStatuses,
                  RunRecords
    <3> QED BY <1>0, <3>1, <3>2 DEF TypeOK, RunRecords
  <2> QED BY <1>7, <2>1 DEF Unwind, TypeOK
<1>8. CASE SetDone(r)
  <2>1. run' \in [Runs -> RunRecords]
    BY <1>0, <1>8 DEF SetDone, TypeOK, RunRecords, CellPhases
  <2> QED BY <1>8, <2>1 DEF SetDone, TypeOK
<1>9. CASE OnDone(r)
  <2>1. run' \in [Runs -> RunRecords]
    BY <1>0, <1>9 DEF OnDone, TypeOK, RunRecords, CellPhases
  <2>2. r \in Coroutines /\ "reset" \in Pcs /\ "reset" \notin WorkingPcs
    BY DEF Coroutines, Pcs, WorkingPcs, HoldingPcs
  <2> QED BY <1>9, <2>1, <2>2, CoTypes DEF OnDone, TypeOK
<1>10. CASE AbandonSteers(r)
  <2>1. run' \in [Runs -> RunRecords]
    BY <1>0, <1>10 DEF AbandonSteers, TypeOK, RunRecords, LiveTasks
  <2> QED BY <1>10, <2>1 DEF AbandonSteers, TypeOK
<1>11. CASE Interrupted(r)
  <2>1. run' \in [Runs -> RunRecords]
    BY <1>0, <1>11 DEF Interrupted, TypeOK, RunRecords, RunStatuses, CellPhases,
                      RunningCells, TerminalRunStatuses
  <2>2. steering' \in [Runs -> SUBSET Items]
    BY <1>11 DEF Interrupted, TypeOK
  <2> QED BY <1>11, <2>1, <2>2 DEF Interrupted, TypeOK
<1>12. CASE BindTask(r)
  <2>1. run' \in [Runs -> RunRecords]
    BY <1>0, <1>12 DEF BindTask, TypeOK, RunRecords, LiveTasks
  <2> QED BY <1>12, <2>1 DEF BindTask, TypeOK
<1>13. CASE TaskStarts(r)
  <2>1. \A s \in Runs : Supervised(s) \in RunRecords
    BY RunTypes
  <2>2. [Supervised(r) EXCEPT !.task = "running"] \in RunRecords
    BY <2>1 DEF RunRecords, LiveTasks
  <2>3. run' \in [Runs -> RunRecords]
    BY <1>13, <2>1, <2>2 DEF TaskStarts
  <2> QED BY <1>13, <2>3 DEF TaskStarts, TypeOK
<1>14. CASE TaskParks(r) \/ TaskPauses(r)
  <2>1. run' \in [Runs -> RunRecords]
    BY <1>0, <1>14 DEF TaskParks, TaskPauses, TypeOK, RunRecords, LiveTasks
  <2> QED BY <1>14, <2>1 DEF TaskParks, TaskPauses, TypeOK
<1>15. CASE TaskEnds(r)
  <2>1. run' \in [Runs -> RunRecords]
    BY <1>0, <1>15 DEF TaskEnds, TypeOK, RunRecords
  <2> QED BY <1>15, <2>1 DEF TaskEnds, TypeOK
<1> QED
  BY <1>2, <1>3, <1>4, <1>5, <1>6, <1>7, <1>8, <1>9, <1>10, <1>11, <1>12,
     <1>13, <1>14, <1>15 DEF CellStep, TaskStep

LEMMA UserType ==
  ASSUME TypeOK, NEW i \in Items, CancelCheck(i) \/ CancelWrite(i) \/ Age(i)
  PROVE  TypeOK'
<1>1. CASE CancelCheck(i)
  BY <1>1 DEF CancelCheck, TypeOK
<1>2. CASE CancelWrite(i)
  <2>1. store' \in [Items -> ItemRecords]
    BY <1>2, MarkTypes, NoneIsNoReference DEF CancelWrite, TypeOK
  <2> QED BY <1>2, <2>1 DEF CancelWrite, TypeOK
<1>3. CASE Age(i)
  <2>1. store' \in [Items -> ItemRecords]
    <3>1. /\ store \in [Items -> ItemRecords]
          /\ store' = [store EXCEPT ![i] = [store[i] EXCEPT !.old = TRUE]]
      BY <1>3 DEF Age, TypeOK
    <3>2. [store[i] EXCEPT !.old = TRUE] \in ItemRecords
      BY <3>1 DEF ItemRecords
    <3> QED BY <3>1, <3>2
  <2> QED BY <1>3, <2>1 DEF Age, TypeOK
<1> QED BY <1>1, <1>2, <1>3

LEMMA RestartType ==
  ASSUME TypeOK, Restart
  PROVE  TypeOK'
<1>1. \A d \in Coroutines : Sound(Idle)
  <2>1. "idle" \in Pcs \ WorkingPcs /\ 0 \in 0 .. MaxAttempts
    BY NaturalBounds DEF Pcs, WorkingPcs, HoldingPcs
  <2> QED BY <2>1, IdleSound
<1>2. /\ co' \in [Coroutines -> CoRecords]
      /\ \A d \in Coroutines : InHand(co'[d])
  BY <1>1 DEF Restart, Sound
<1>3. run' \in [Runs -> RunRecords]
  <2>1. ASSUME NEW r \in Runs
        PROVE  /\ [run[r] EXCEPT !.cell = "none", !.task = "none"] \in RunRecords
               /\ [run[r] EXCEPT !.cell = "none", !.task = "none",
                                 !.status = "orphaned"] \in RunRecords
    <3>1. run[r] \in RunRecords  BY DEF TypeOK
    <3>2. "orphaned" \in RunStatuses /\ "none" \in CellPhases
      BY DEF RunStatuses, TerminalRunStatuses, CellPhases
    <3> QED BY <3>1, <3>2 DEF RunRecords
  <2> QED BY <2>1 DEF Restart
<1>4. life' \in 0 .. MaxCrashes
  <2>1. life \in 0 .. MaxCrashes  BY DEF TypeOK
  <2>2. life < MaxCrashes /\ life' = life + 1  BY DEF Restart
  <2> QED BY <2>1, <2>2, NaturalBounds
<1> QED BY <1>2, <1>3, <1>4 DEF Restart, TypeOK

(* Type correctness: every reachable state has the shape the code gives    *)
(* its stores, its coroutines and its cells.                               *)
THEOREM TypeCorrect == Spec => []TypeOK
<1>1. TypeOK /\ [Next]_vars => TypeOK'
  <2> SUFFICES ASSUME TypeOK, [Next]_vars PROVE TypeOK'
    OBVIOUS
  <2>1. CASE UNCHANGED vars
    BY <2>1 DEF vars, TypeOK
  <2>2. CASE Next
    BY <2>2, HandlerType, CoroutineType, CellType, UserType, RestartType DEF Next
  <2> QED BY <2>1, <2>2
<1> QED BY <1>1, InitType, PTL DEF Spec

-----------------------------------------------------------------------------
(* No two actors of a session work on one input at a time: a step of an    *)
(* actor that takes no claim only lets claims go, and touches the stored   *)
(* status of no input another actor holds but to cancel it.                *)

(* Nobody takes a claim in this step, and what stays held stays claimed.   *)
ClaimsOnlyDrop ==
  /\ \A d \in Coroutines, i \in Items : Holds(d, i)' => Holds(d, i)
  /\ \A r \in Runs : steering'[r] \subseteq steering[r]
  /\ \A i \in Items : Held(i)' =>
       store'[i].status \in {"dispatching", "canceled"} /\ ~store'[i].old

LEMMA ClaimFrame ==
  ASSUME ClaimInv, ClaimsOnlyDrop
  PROVE  ClaimInv'
<1>1. ClaimExclusive'
  BY DEF ClaimInv, ClaimExclusive, ClaimsOnlyDrop
<1>2. HeldIsClaimed'
  BY DEF HeldIsClaimed, ClaimsOnlyDrop
<1> QED BY <1>1, <1>2 DEF ClaimInv

-----------------------------------------------------------------------------
(* What the store's methods do to an input's status.                       *)

LEMMA UpdateStatus ==
  ASSUME NEW st \in [Items -> ItemRecords], NEW i \in Items, NEW j \in Items,
         NEW u, NEW ref
  PROVE  UpdateItem(st, i, u, ref)[j] =
           IF j = i THEN [st[i] EXCEPT !.status = u, !.ref = ref, !.old = FALSE]
                    ELSE st[j]
BY DEF UpdateItem

(* Each method but a claim keeps settled inputs settled, and leaves alone  *)
(* what is claimed and not old.                                            *)
Safe(st, new) ==
  \A j \in Items :
    /\ st[j].status \in Settled => new[j].status \in Settled
    /\ st[j].status \in {"dispatching", "canceled"} /\ ~st[j].old
         => new[j].status = st[j].status /\ ~new[j].old

LEMMA EnqueueSafe ==
  ASSUME NEW st \in [Items -> ItemRecords], NEW i \in Items, NEW p, NEW t, NEW b
  PROVE  Safe(st, Enqueue(st, i, p, t, b))
BY DEF Safe, Enqueue, ItemRecords, Settled

LEMMA RetargetSafe ==
  ASSUME NEW st \in [Items -> ItemRecords], NEW i \in Items, NEW p, NEW t, NEW b,
         Retargetable(st, i)
  PROVE  Safe(st, Retarget(st, i, p, t, b))
BY DEF Safe, Retarget, Retargetable, ItemRecords, Settled

LEMMA ResetSafe ==
  ASSUME NEW st \in [Items -> ItemRecords]
  PROVE  Safe(st, ResetStale(st))
BY DEF Safe, ResetStale, StaleItems, ItemRecords, Settled

LEMMA ClaimSafe ==
  ASSUME NEW st \in [Items -> ItemRecords], NEW i \in Items, st[i].status = "queued"
  PROVE  /\ Safe(st, Claim(st, i))
         /\ Claim(st, i)[i].status = "dispatching" /\ ~Claim(st, i)[i].old
BY DEF Safe, Claim, ItemRecords, Settled

LEMMA ClaimForTurnSafe ==
  ASSUME NEW st \in [Items -> ItemRecords], NEW t, NEW b
  PROVE  /\ Safe(st, ClaimForActiveTurn(st, t, b))
         /\ \A i \in ClaimedForTurn(st, t, b) :
              /\ i \in Items /\ st[i].status = "queued"
              /\ ClaimForActiveTurn(st, t, b)[i].status = "dispatching"
              /\ ~ClaimForActiveTurn(st, t, b)[i].old
<1>1. \A i \in ClaimedForTurn(st, t, b) : i \in Items /\ st[i].status = "queued"
  BY DEF ClaimedForTurn, MatchesTurn
<1>2. \A i \in Items :
        ClaimForActiveTurn(st, t, b)[i] =
          IF i \in ClaimedForTurn(st, t, b)
          THEN [st[i] EXCEPT !.status = "dispatching", !.policy = "steer",
                             !.turn = t, !.bound = b \/ @, !.old = FALSE]
          ELSE st[i]
  BY DEF ClaimForActiveTurn
<1>3. \A i \in ClaimedForTurn(st, t, b) :
        /\ ClaimForActiveTurn(st, t, b)[i].status = "dispatching"
        /\ ~ClaimForActiveTurn(st, t, b)[i].old
  BY <1>1, <1>2 DEF ItemRecords
<1>4. Safe(st, ClaimForActiveTurn(st, t, b))
  BY <1>1, <1>2 DEF Safe, Settled
<1> QED BY <1>1, <1>3, <1>4

(* A safe step of the store in which no coroutine or loop takes a claim.   *)
LEMMA SafeFrame ==
  ASSUME ClaimInv, Safe(store, store'),
         \A d \in Coroutines, i \in Items : Holds(d, i)' => Holds(d, i),
         \A r \in Runs : steering'[r] \subseteq steering[r]
  PROVE  ClaimsOnlyDrop
<1>1. \A i \in Items : Held(i)' => Held(i)
  BY DEF Held
<1> QED BY <1>1 DEF ClaimsOnlyDrop, ClaimInv, HeldIsClaimed, Safe

(* The mark of an input that nobody holds afterwards.                      *)
LEMMA MarkFrame ==
  ASSUME TypeOK, ClaimInv, NEW i \in Items, NEW u, NEW ref,
         store' = UpdateItem(store, i, u, ref), ~Held(i)',
         \A d \in Coroutines, j \in Items : Holds(d, j)' => Holds(d, j),
         \A r \in Runs : steering'[r] \subseteq steering[r]
  PROVE  ClaimsOnlyDrop
<1>1. \A j \in Items : Held(j)' => Held(j) /\ j # i
  BY DEF Held
<1>2. \A j \in Items : j # i => store'[j] = store[j]
  BY DEF UpdateItem, TypeOK
<1> QED BY <1>1, <1>2 DEF ClaimsOnlyDrop, ClaimInv, HeldIsClaimed

(* A coroutine that does not come to hold anything new.                    *)
LEMMA MoveFrame ==
  ASSUME TypeOK, NEW d \in Coroutines, NEW c, co' = [co EXCEPT ![d] = c],
         c.pc \in HoldingPcs => co[d].pc \in HoldingPcs /\ c.item = co[d].item
  PROVE  \A e \in Coroutines, i \in Items : Holds(e, i)' => Holds(e, i)
<1>1. \A e \in Coroutines : co'[e] = IF e = d THEN c ELSE co[e]
  BY DEF TypeOK
<1> QED BY <1>1 DEF Holds

LEMMA MovesFrame ==
  ASSUME TypeOK, NEW d \in Coroutines, NEW pc,
         \/ Finish(d) \/ GiveUp(d) \/ Continue(d)
         \/ Goto(d, pc) /\ (pc \in HoldingPcs => co[d].pc \in HoldingPcs)
  PROVE  /\ \A e \in Coroutines, i \in Items : Holds(e, i)' => Holds(e, i)
         /\ Finish(d) \/ GiveUp(d) \/ Continue(d)
              => co'[d].pc \in RestingPcs \cup {"list"}
         /\ \A e \in Coroutines \ {d} : co'[e] = co[e]
<1>1. co[d] \in CoRecords /\ co \in [Coroutines -> CoRecords]  BY DEF TypeOK
<1>2. CASE Finish(d) \/ GiveUp(d)
  <2>1. PICK c \in {Idle, GaveUp} : co' = [co EXCEPT ![d] = c]
    BY <1>2 DEF Finish, GiveUp
  <2>2. c.pc \in RestingPcs /\ RestingPcs \cap HoldingPcs = {}
    BY DEF Idle, GaveUp, RestingPcs, HoldingPcs
  <2> QED BY <1>1, <2>1, <2>2, MoveFrame
<1>3. CASE Continue(d)
  <2> DEFINE c == IF co[d].tries + 1 < MaxAttempts
                  THEN [Idle EXCEPT !.pc = "list", !.tries = co[d].tries + 1]
                  ELSE GaveUp
  <2>1. co' = [co EXCEPT ![d] = c]  BY <1>3 DEF Continue
  <2>2. c.pc \in RestingPcs \cup {"list"}  BY DEF Idle, GaveUp, RestingPcs
  <2>3. c.pc \notin HoldingPcs  BY <2>2 DEF RestingPcs, HoldingPcs
  <2> HIDE DEF c
  <2> QED BY <1>1, <2>1, <2>2, <2>3, MoveFrame
<1>4. CASE Goto(d, pc) /\ (pc \in HoldingPcs => co[d].pc \in HoldingPcs)
  <2>1. co' = [co EXCEPT ![d] = [co[d] EXCEPT !.pc = pc]]
    BY <1>4 DEF Goto
  <2>2. /\ [co[d] EXCEPT !.pc = pc].pc = pc
        /\ [co[d] EXCEPT !.pc = pc].item = co[d].item
    BY <1>1 DEF CoRecords
  <2>3. \/ ~Finish(d) /\ ~GiveUp(d) /\ ~Continue(d)
        \/ Finish(d) \/ GiveUp(d) \/ Continue(d)
    OBVIOUS
  <2> QED BY <1>1, <1>2, <1>3, <1>4, <2>1, <2>2, <2>3, MoveFrame
<1> QED BY <1>2, <1>3, <1>4

-----------------------------------------------------------------------------
(* Claims.                                                                 *)

LEMMA HandlerClaims ==
  ASSUME TypeOK, ClaimInv, NEW i \in Items,
         PostQueued(i) \/ PostRunBusy(i) \/ PostRunFree(i) \/ HandlerStep(i)
  PROVE  ClaimsOnlyDrop
<1>0. i \in Coroutines /\ store \in [Items -> ItemRecords]
  BY DEF Coroutines, TypeOK
<1>1. Safe(store, store)  BY DEF Safe
<1>2. CASE PostQueued(i) \/ PostRunBusy(i)
  <2>1. PICK pc \in {"enqueue", "enqueueChat"} : co' = [co EXCEPT ![i] = Admitted(i, pc)]
    BY <1>2 DEF PostQueued, PostRunBusy
  <2>2. Admitted(i, pc).pc = pc /\ pc \notin HoldingPcs
    BY DEF Admitted, Idle, HoldingPcs
  <2>3. \A e \in Coroutines, j \in Items : Holds(e, j)' => Holds(e, j)
    BY <1>0, <2>1, <2>2, MoveFrame
  <2>4. store' = store /\ steering' = steering
    BY <1>2 DEF PostQueued, PostRunBusy
  <2> QED BY <1>1, <2>3, <2>4, SafeFrame
<1>3. CASE PostRunFree(i)
  <2>1. store' = store /\ steering' = steering /\ co' = co
    BY <1>3 DEF PostRunFree
  <2> QED BY <1>1, <2>1, SafeFrame DEF Holds
<1>4. CASE DoEnqueue(i)
  <2>1. Safe(store, store') /\ steering' = steering
    BY <1>0, <1>4, EnqueueSafe DEF DoEnqueue
  <2> DEFINE c == [Idle EXCEPT !.pc =
                     IF co[i].pc = "enqueue" THEN "reset" ELSE "recheck"]
  <2>2. co' = [co EXCEPT ![i] = c]  BY <1>4 DEF DoEnqueue
  <2>3. c.pc \notin HoldingPcs  BY DEF Idle, HoldingPcs
  <2> HIDE DEF c
  <2> QED BY <1>0, <2>1, <2>2, <2>3, MoveFrame, SafeFrame
<1>5. CASE Recheck(i)
  <2>1. Finish(i) \/ Goto(i, "reset")  BY <1>5 DEF Recheck
  <2>2. store' = store /\ steering' = steering  BY <1>5 DEF Recheck
  <2>3. "reset" \notin HoldingPcs  BY DEF HoldingPcs
  <2> QED BY <1>0, <1>1, <2>1, <2>2, <2>3, MovesFrame, SafeFrame
<1> QED BY <1>2, <1>3, <1>4, <1>5 DEF HandlerStep

(* The steps of a coroutine that are no claim.                             *)
LEMMA CoroutineClaims ==
  ASSUME TypeOK, ClaimInv, NEW d \in Coroutines,
         \/ DoReset(d) \/ DoList(d) \/ Decide(d) \/ DoRetarget(d)
         \/ Start(d) \/ DoMark(d) \/ DoFail(d)
  PROVE  ClaimsOnlyDrop
<1>0. /\ store \in [Items -> ItemRecords] /\ co \in [Coroutines -> CoRecords]
      /\ InHand(co[d])
  BY DEF TypeOK
<1>1. Safe(store, store)  BY DEF Safe
<1>2. CASE DoReset(d)
  <2>1. Safe(store, store') /\ steering' = steering /\ Goto(d, "list")
    BY <1>0, <1>2, ResetSafe DEF DoReset
  <2>2. "list" \notin HoldingPcs  BY DEF HoldingPcs
  <2> QED BY <2>1, <2>2, MovesFrame, SafeFrame
<1>3. CASE DoList(d)
  <2>1. store' = store /\ steering' = steering  BY <1>3 DEF DoList
  <2>2. CASE Finish(d)
    BY <1>1, <2>1, <2>2, MovesFrame, SafeFrame
  <2>3. CASE ~Finish(d)
    <3>1. PICK i \in Items :
            co' = [co EXCEPT ![d] = [@ EXCEPT
                !.pc = "decide", !.item = i, !.policy = store[i].policy,
                !.turn = store[i].turn, !.bound = store[i].bound]]
      BY <1>3, <2>3 DEF DoList
    <3> DEFINE c == [co[d] EXCEPT
                !.pc = "decide", !.item = i, !.policy = store[i].policy,
                !.turn = store[i].turn, !.bound = store[i].bound]
    <3>2. co' = [co EXCEPT ![d] = c]  BY <3>1
    <3>3. c.pc = "decide"  BY <1>0 DEF CoRecords
    <3>4. c.pc \notin HoldingPcs  BY <3>3 DEF HoldingPcs
    <3> HIDE DEF c
    <3> QED BY <1>1, <2>1, <3>2, <3>4, MoveFrame, SafeFrame
  <2> QED BY <2>2, <2>3
<1>4. CASE Decide(d)
  <2>1. store' = store /\ steering' = steering  BY <1>4 DEF Decide
  <2>2. CASE \/ Finish(d) \/ Goto(d, "claimAuto") \/ Goto(d, "claimSteer")
    <3>1. "claimAuto" \notin HoldingPcs /\ "claimSteer" \notin HoldingPcs
      BY DEF HoldingPcs
    <3> QED BY <1>1, <2>1, <2>2, <3>1, MovesFrame, SafeFrame
  <2>3. CASE co' = [co EXCEPT ![d] = [@ EXCEPT !.pc = "retarget",
                       !.turn = turn, !.bound = Bound(turn)]]
    <3> DEFINE c == [co[d] EXCEPT !.pc = "retarget", !.turn = turn,
                                  !.bound = Bound(turn)]
    <3>1. co' = [co EXCEPT ![d] = c]  BY <2>3
    <3>2. c.pc = "retarget"  BY <1>0 DEF CoRecords
    <3>3. c.pc \notin HoldingPcs  BY <3>2 DEF HoldingPcs
    <3> HIDE DEF c
    <3> QED BY <1>1, <2>1, <3>1, <3>3, MoveFrame, SafeFrame
  <2> QED BY <1>4, <2>2, <2>3 DEF Decide
<1>5. CASE DoRetarget(d)
  <2>1. co[d].item \in Items
    BY <1>0, <1>5 DEF DoRetarget, InHand, WorkingPcs
  <2>2. Safe(store, store')
    BY <1>0, <1>1, <1>5, <2>1, RetargetSafe DEF DoRetarget
  <2>3. steering' = steering /\ (Finish(d) \/ Continue(d))
    BY <1>5 DEF DoRetarget
  <2> QED BY <2>2, <2>3, MovesFrame, SafeFrame
<1>6. CASE Start(d)
  <2>1. store' = store /\ steering' = steering /\ co[d].pc = "start"
    BY <1>6 DEF Start
  <2>2. CASE Goto(d, "failStart")
    <3>1. "start" \in HoldingPcs  BY DEF HoldingPcs
    <3> QED BY <1>1, <2>1, <2>2, <3>1, MovesFrame, SafeFrame
  <2>3. CASE ~Goto(d, "failStart")
    <3>1. PICK r \in Runs :
            co' = [co EXCEPT ![d] = [@ EXCEPT !.pc = "mark", !.run = r]]
      BY <1>6, <2>3 DEF Start
    <3>2. [co[d] EXCEPT !.pc = "mark", !.run = r].item = co[d].item
      BY <1>0 DEF CoRecords
    <3>3. "start" \in HoldingPcs  BY DEF HoldingPcs
    <3> QED BY <1>1, <2>1, <3>1, <3>2, <3>3, MoveFrame, SafeFrame
  <2> QED BY <2>2, <2>3
<1>7. CASE DoMark(d) \/ DoFail(d)
  <2>1. PICK i \in Items : co[d].item = i /\ Holds(d, i)
    BY <1>0, <1>7 DEF DoMark, DoFail, InHand, WorkingPcs, HoldingPcs, Holds
  <2>2. PICK u, ref : store' = UpdateItem(store, i, u, ref)
    BY <1>7, <2>1 DEF DoMark, DoFail, MarkDispatched, MarkFailed
  <2>3. steering' = steering /\ (Finish(d) \/ GiveUp(d) \/ Continue(d))
    BY <1>7 DEF DoMark, DoFail
  <2>4. /\ \A e \in Coroutines, j \in Items : Holds(e, j)' => Holds(e, j)
        /\ co'[d].pc \in RestingPcs \cup {"list"}
    BY <2>3, MovesFrame
  <2>5. ~Held(i)'
    <3>1. ~Holds(d, i)'
      BY <2>4 DEF Holds, RestingPcs, HoldingPcs
    <3>2. \A e \in Coroutines : ~Holds(e, i)'
      BY <2>1, <2>4, <3>1 DEF ClaimInv, ClaimExclusive
    <3>3. \A r \in Runs : i \notin steering'[r]
      BY <2>1, <2>3 DEF ClaimInv, ClaimExclusive
    <3> QED BY <3>2, <3>3 DEF Held
  <2> QED BY <2>2, <2>3, <2>4, <2>5, MarkFrame
<1> QED BY <1>2, <1>3, <1>4, <1>5, <1>6, <1>7

(* claim_next picks a queued input, and nobody holds a queued input.       *)
LEMMA QueuedIsFree ==
  ASSUME ClaimInv, NEW i \in Items, store[i].status = "queued"
  PROVE  ~Held(i)
BY DEF ClaimInv, HeldIsClaimed

LEMMA ClaimNextClaims ==
  ASSUME TypeOK, ClaimInv, NEW d \in Coroutines, NEW policy, NEW pc,
         co[d].pc \notin HoldingPcs, ClaimNext(d, policy, pc), steering' = steering
  PROVE  ClaimInv'
<1>0. /\ store \in [Items -> ItemRecords] /\ co \in [Coroutines -> CoRecords]
      /\ co[d] \in CoRecords
  BY DEF TypeOK
<1>1. CASE Continue(d) /\ UNCHANGED store
  <2>1. Safe(store, store')  BY <1>1 DEF Safe
  <2> QED BY <1>1, <2>1, MovesFrame, SafeFrame, ClaimFrame
<1>2. ASSUME NEW i \in Items, IsFirst(store, Claimable(store, policy), i),
             store' = Claim(store, i),
             co' = [co EXCEPT ![d] = [@ EXCEPT !.pc = pc, !.item = i]]
      PROVE  ClaimInv'
  <2>1. store[i].status = "queued"
    BY <1>2 DEF IsFirst, Claimable, Queued
  <2>2. /\ Safe(store, store')
        /\ store'[i].status = "dispatching" /\ ~store'[i].old
    BY <1>0, <1>2, <2>1, ClaimSafe
  <2>3. ~Held(i)  BY <2>1, QueuedIsFree
  <2>4. \A e \in Coroutines, j \in Items :
          Holds(e, j)' => (e = d /\ j = i) \/ (e # d /\ Holds(e, j))
    <3>1. [co[d] EXCEPT !.pc = pc, !.item = i].item = i
      BY <1>0 DEF CoRecords
    <3>2. \A e \in Coroutines :
            co'[e] = IF e = d THEN [co[d] EXCEPT !.pc = pc, !.item = i] ELSE co[e]
      BY <1>0, <1>2
    <3> QED BY <3>1, <3>2 DEF Holds
  <2>5. \A e \in Coroutines : ~Holds(e, i)  BY <2>3 DEF Held
  <2>6. \A r \in Runs : i \notin steering'[r]  BY <2>3 DEF Held
  <2>7. ClaimExclusive'
    BY <2>4, <2>5, <2>6 DEF ClaimInv, ClaimExclusive
  <2>8. \A j \in Items : Held(j)' => j = i \/ Held(j)
    BY <2>4 DEF Held
  <2>9. HeldIsClaimed'
    BY <2>2, <2>8 DEF ClaimInv, HeldIsClaimed, Safe
  <2> QED BY <2>7, <2>9 DEF ClaimInv
<1> QED BY <1>1, <1>2 DEF ClaimNext

LEMMA ClaimSteersClaims ==
  ASSUME TypeOK, ClaimInv, NEW r \in Runs, ClaimSteers(r)
  PROVE  ClaimInv'
<1> DEFINE taken == ClaimedForTurn(store, r, Bound(r))
<1>0. /\ store \in [Items -> ItemRecords]
      /\ \A s \in Runs : steering'[s] = IF s = r THEN taken ELSE steering[s]
      /\ store' = ClaimForActiveTurn(store, r, Bound(r))
      /\ co' = co
  BY DEF TypeOK, ClaimSteers
<1>1. /\ Safe(store, store')
      /\ \A i \in taken : /\ i \in Items /\ store[i].status = "queued"
                           /\ store'[i].status = "dispatching" /\ ~store'[i].old
  BY <1>0, ClaimForTurnSafe
<1>2. \A i \in taken : ~Held(i)  BY <1>1, QueuedIsFree
<1> HIDE DEF taken
<1>3. \A d \in Coroutines, i \in Items : Holds(d, i)' <=> Holds(d, i)
  BY <1>0 DEF Holds
<1>4. \A i \in taken : /\ \A d \in Coroutines : ~Holds(d, i)
                       /\ \A s \in Runs : i \notin steering[s]
  BY <1>2 DEF Held
<1>5. ClaimExclusive'
  BY <1>0, <1>3, <1>4 DEF ClaimInv, ClaimExclusive
<1>6. \A i \in Items : Held(i)' => Held(i) \/ i \in taken
  BY <1>0, <1>3 DEF Held
<1>7. HeldIsClaimed'
  BY <1>1, <1>6 DEF ClaimInv, HeldIsClaimed, Safe
<1> QED BY <1>5, <1>7 DEF ClaimInv

(* The threads of cells and tasks, but for their claim.                    *)
LEMMA CellClaims ==
  ASSUME TypeOK, ClaimInv, NEW r \in Runs,
         CellStep(r) \/ TaskStep(r) \/ AbandonSteers(r) \/ Interrupted(r),
         ~ClaimSteers(r)
  PROVE  ClaimsOnlyDrop
<1>0. Safe(store, store)  BY DEF Safe
<1>1. CASE MarkSteer(r)
  <2>1. PICK i \in Items :
          /\ IsFirst(store, steering[r], i)
          /\ store' = MarkDispatched(store, i, r) \/ store' = MarkFailed(store, i)
          /\ steering' = [steering EXCEPT ![r] = @ \ {i}]
          /\ co' = co
    BY <1>1 DEF MarkSteer
  <2>2. PICK u, ref : store' = UpdateItem(store, i, u, ref)
    BY <2>1 DEF MarkDispatched, MarkFailed
  <2>3. \A s \in Runs :
          steering'[s] = IF s = r THEN steering[r] \ {i} ELSE steering[s]
    BY <2>1 DEF TypeOK
  <2>4. i \in steering[r]  BY <2>1 DEF IsFirst
  <2>5. \A d \in Coroutines, j \in Items : Holds(d, j)' <=> Holds(d, j)
    BY <2>1 DEF Holds
  <2>6. ~Held(i)'
    BY <2>3, <2>4, <2>5 DEF Held, ClaimInv, ClaimExclusive
  <2> QED BY <2>2, <2>3, <2>5, <2>6, MarkFrame
<1>2. CASE OnDone(r)
  <2>1. r \in Coroutines /\ "reset" \notin HoldingPcs
    BY DEF Coroutines, HoldingPcs
  <2>2. store' = store /\ steering' = steering /\ Goto(r, "reset")
    BY <1>2 DEF OnDone
  <2> QED BY <1>0, <2>1, <2>2, MovesFrame, SafeFrame
<1>3. CASE AbandonSteers(r) \/ Interrupted(r)
  <2>1. store' = store /\ co' = co
    BY <1>3 DEF AbandonSteers, Interrupted
  <2>2. \A s \in Runs : steering'[s] \subseteq steering[s]
    BY <1>3 DEF AbandonSteers, Interrupted, TypeOK
  <2> QED BY <1>0, <2>1, <2>2, SafeFrame DEF Holds
<1>4. CASE store' = store /\ co' = co /\ steering' = steering
  BY <1>0, <1>4, SafeFrame DEF Holds
<1>5. CASE CellBegins(r) \/ StartTurn(r) \/ Complete(r) \/ Unwind(r)
           \/ SetDone(r) \/ TaskStep(r)
  BY <1>4, <1>5 DEF CellBegins, StartTurn, Complete, Unwind, SetDone, TaskStep,
                    BindTask, TaskStarts, TaskParks, TaskPauses, TaskEnds
<1> QED BY <1>1, <1>2, <1>3, <1>5 DEF CellStep

(* A cancel request writes over any status; a claim that ages while it is  *)
(* held would break the invariant, and this is where SlowClaims is needed. *)
LEMMA UserClaims ==
  ASSUME SlowClaims = FALSE, TypeOK, ClaimInv, NEW i \in Items,
         CancelCheck(i) \/ CancelWrite(i) \/ Age(i)
  PROVE  ClaimsOnlyDrop
<1>0. co' = co /\ steering' = steering /\ store \in [Items -> ItemRecords]
  BY DEF CancelCheck, CancelWrite, Age, TypeOK
<1>1. \A j \in Items : Held(j)' <=> Held(j)
  BY <1>0 DEF Held, Holds
<1>2. \A j \in Items : Held(j) =>
        store'[j].status \in {"dispatching", "canceled"} /\ ~store'[j].old
  <2>1. CASE CancelCheck(i)
    BY <2>1 DEF CancelCheck, ClaimInv, HeldIsClaimed
  <2>2. CASE CancelWrite(i)
    <3>1. store' = UpdateItem(store, i, "canceled", store[i].ref)
      BY <2>2 DEF CancelWrite, MarkCanceled
    <3>2. /\ \A j \in Items : j # i => store'[j] = store[j]
          /\ store'[i].status = "canceled" /\ ~store'[i].old
      BY <1>0, <3>1 DEF UpdateItem, ItemRecords
    <3> QED BY <3>2 DEF ClaimInv, HeldIsClaimed
  <2>3. CASE Age(i)
    <3>1. ~Held(i) /\ \A j \in Items : j # i => store'[j] = store[j]
      BY <1>0, <2>3 DEF Age
    <3> QED BY <3>1 DEF ClaimInv, HeldIsClaimed
  <2> QED BY <2>1, <2>2, <2>3
<1> QED BY <1>0, <1>1, <1>2 DEF ClaimsOnlyDrop, Holds

LEMMA InitClaims == Init => ClaimInv
<1> SUFFICES ASSUME Init PROVE ClaimInv  OBVIOUS
<1>1. \A d \in Coroutines, i \in Items : ~Holds(d, i)
  BY DEF Init, Idle, Holds, HoldingPcs
<1>2. \A r \in Runs, i \in Items : i \notin steering[r]
  BY DEF Init
<1> QED BY <1>1, <1>2 DEF ClaimInv, ClaimExclusive, HeldIsClaimed, Held

LEMMA RestartClaims ==
  ASSUME Restart
  PROVE  ClaimInv'
<1>1. \A d \in Coroutines, i \in Items : ~Holds(d, i)'
  BY DEF Restart, Idle, Holds, HoldingPcs
<1>2. \A r \in Runs, i \in Items : i \notin steering'[r]
  BY DEF Restart
<1> QED BY <1>1, <1>2 DEF ClaimInv, ClaimExclusive, HeldIsClaimed, Held

LEMMA NextClaims ==
  ASSUME SlowClaims = FALSE, TypeOK, ClaimInv, Next
  PROVE  ClaimInv'
<1>1. ASSUME NEW i \in Items,
             PostQueued(i) \/ PostRunBusy(i) \/ PostRunFree(i) \/ HandlerStep(i)
      PROVE  ClaimInv'
  BY <1>1, HandlerClaims, ClaimFrame
<1>2. ASSUME NEW i \in Items, CancelCheck(i) \/ CancelWrite(i) \/ Age(i)
      PROVE  ClaimInv'
  BY <1>2, UserClaims, ClaimFrame
<1>3. ASSUME NEW d \in Coroutines, CoroutineStep(d)
      PROVE  ClaimInv'
  <2>1. CASE DoClaimAuto(d)
    BY <2>1, ClaimNextClaims DEF DoClaimAuto, HoldingPcs
  <2>2. CASE DoClaimSteer(d)
    BY <2>2, ClaimNextClaims DEF DoClaimSteer, HoldingPcs
  <2>3. CASE ~DoClaimAuto(d) /\ ~DoClaimSteer(d)
    BY <1>3, <2>3, CoroutineClaims, ClaimFrame DEF CoroutineStep
  <2> QED BY <2>1, <2>2, <2>3
<1>4. ASSUME NEW r \in Runs,
             CellStep(r) \/ TaskStep(r) \/ AbandonSteers(r) \/ Interrupted(r)
      PROVE  ClaimInv'
  BY <1>4, ClaimSteersClaims, CellClaims, ClaimFrame
<1>5. CASE Restart
  BY <1>5, RestartClaims
<1> QED BY <1>1, <1>2, <1>3, <1>4, <1>5 DEF Next

LEMMA ClaimInvariant ==
  ASSUME SlowClaims = FALSE
  PROVE  Spec => []ClaimInv
<1>1. TypeOK /\ ClaimInv /\ [Next]_vars => ClaimInv'
  <2> SUFFICES ASSUME TypeOK, ClaimInv, [Next]_vars PROVE ClaimInv'
    OBVIOUS
  <2>1. CASE UNCHANGED vars
    BY <2>1 DEF vars, ClaimInv, ClaimExclusive, HeldIsClaimed, Held, Holds
  <2> QED BY <2>1, NextClaims
<1> QED BY <1>1, InitClaims, TypeCorrect, PTL DEF Spec

(* No two of the dispatchers, the turn's loop and the task's executor ever *)
(* work on one input, provided no live claimer outlasts the 300 s after    *)
(* which reset_stale_dispatching hands its claim to another.               *)
THEOREM ClaimsAreExclusive ==
  ASSUME SlowClaims = FALSE
  PROVE  Spec => []ClaimExclusive
<1>1. ClaimInv => ClaimExclusive  BY DEF ClaimInv
<1> QED BY <1>1, ClaimInvariant, PTL
=============================================================================
