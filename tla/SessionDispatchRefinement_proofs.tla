------------------ MODULE SessionDispatchRefinement_proofs ------------------
(***************************************************************************)
(* Proof that SessionDispatch implements InputDelivery: what each step of  *)
(* a handler, a dispatcher, a turn's loop, a cell, the user and the        *)
(* process does to the place of a message and to the hand that has it.     *)
(***************************************************************************)
EXTENDS SessionDispatchDelivery_proofs

-----------------------------------------------------------------------------
(* A step, seen message by message.                                        *)
LEMMA Unmoved ==
  ASSUME \A i \in Items : PlaceOf(i)' = PlaceOf(i) /\ HandOf(i)' = HandOf(i)
  PROVE  UNCHANGED <<Place, Hand>>
BY DEF Place, Hand

LEMMA PlaceMoves ==
  ASSUME NEW S, NEW to,
         \A i \in Items : PlaceOf(i)' = IF i \in S THEN to ELSE PlaceOf(i)
  PROVE  Delivery!Moves(S, to)
BY DEF Place, Delivery!Moves

LEMMA HandPasses ==
  ASSUME NEW S, NEW to,
         \A i \in Items : HandOf(i)' = IF i \in S THEN to ELSE HandOf(i)
  PROVE  Delivery!Passes(S, to)
BY DEF Hand, Delivery!Passes

LEMMA SamePlaces ==
  ASSUME \A i \in Items : store'[i].status = store[i].status
  PROVE  (\A i \in Items : PlaceOf(i)' = PlaceOf(i)) /\ UNCHANGED Place
BY DEF PlaceOf, Place

LEMMA SameHands ==
  ASSUME \A i \in Items : (Held(i)' <=> Held(i)) /\ (Given(i)' <=> Given(i))
  PROVE  (\A i \in Items : HandOf(i)' = HandOf(i)) /\ UNCHANGED Hand
BY DEF HandOf, Hand

LEMMA PlaceValues ==
  ASSUME TypeOK
  PROVE  \A i \in Items :
           /\ PlaceOf(i) = "out" <=> store[i].status = "absent"
           /\ PlaceOf(i) = "waiting" <=> store[i].status = "queued"
           /\ PlaceOf(i) = "taken" <=> store[i].status = "dispatching"
           /\ PlaceOf(i) = "settled" <=> store[i].status \in Settled
BY DEF TypeOK, ItemRecords, Statuses, Settled, PlaceOf

LEMMA HandValues ==
  \A i : /\ HandOf(i) = "given" <=> Given(i)
         /\ HandOf(i) = "held" <=> Held(i) /\ ~Given(i)
         /\ HandOf(i) = "free" <=> ~Held(i) /\ ~Given(i)
BY DEF HandOf

(* A message whose run exists is settled, or held by the coroutine that    *)
(* has yet to mark it.                                                     *)
LEMMA GivenIsAccounted ==
  ASSUME RunInv, NEW i \in Items, Given(i)
  PROVE  store[i].status \in Settled \/ Held(i)
<1>1. PICK r \in Runs : run[r].item = i /\ run[r].life = life
  BY DEF Given
<1>2. i # None  BY NoneIsNoReference
<1> QED BY <1>1, <1>2 DEF RunInv, RunAccounted, Held, Holds, HoldingPcs

(* Nobody has a message that waits, or one whose claim is old.             *)
LEMMA NobodyHas ==
  ASSUME ClaimInv, RunInv, NEW i \in Items,
         \/ store[i].status = "queued"
         \/ store[i].status = "dispatching" /\ store[i].old
  PROVE  ~Held(i) /\ ~Given(i)
<1>1. ~Held(i)
  BY DEF ClaimInv, HeldIsClaimed
<1> QED BY <1>1, GivenIsAccounted DEF Settled

-----------------------------------------------------------------------------
(* Who has a message after a step.                                         *)

LEMMA SameGiven ==
  ASSUME life' = life,
         \A r \in Runs : run'[r].item = run[r].item /\ run'[r].life = run[r].life
  PROVE  \A i : Given(i)' <=> Given(i)
BY DEF Given

LEMMA HoldsMove ==
  ASSUME TypeOK, NEW d \in Coroutines, NEW c, co' = [co EXCEPT ![d] = c]
  PROVE  \A i : \A e \in Coroutines :
           Holds(e, i)' <=> IF e = d THEN c.pc \in HoldingPcs /\ c.item = i
                                     ELSE Holds(e, i)
<1>1. \A e \in Coroutines : co'[e] = IF e = d THEN c ELSE co[e]
  BY DEF TypeOK
<1> QED BY <1>1 DEF Holds

LEMMA HeldKept ==
  ASSUME TypeOK, NEW d \in Coroutines, NEW c, co' = [co EXCEPT ![d] = c],
         steering' = steering,
         \/ c.pc \notin HoldingPcs /\ co[d].pc \notin HoldingPcs
         \/ c.pc \in HoldingPcs /\ co[d].pc \in HoldingPcs /\ c.item = co[d].item
  PROVE  \A i : Held(i)' <=> Held(i)
<1>1. \A i : \A e \in Coroutines : Holds(e, i)' <=> Holds(e, i)
  BY HoldsMove DEF Holds
<1> QED BY <1>1 DEF Held

LEMMA HeldTaken ==
  ASSUME TypeOK, NEW d \in Coroutines, NEW c, co' = [co EXCEPT ![d] = c],
         steering' = steering, co[d].pc \notin HoldingPcs, c.pc \in HoldingPcs
  PROVE  \A i : Held(i)' <=> (Held(i) \/ i = c.item)
<1>0. \A i : ~Holds(d, i)  BY DEF Holds
<1>1. \A i : \A e \in Coroutines : Holds(e, i)' <=> (Holds(e, i) \/ (e = d /\ c.item = i))
  BY <1>0, HoldsMove
<1>2. \A i : Held(i)' <=> \/ \E e \in Coroutines : Holds(e, i)'
                      \/ \E r \in Runs : i \in steering[r]
  BY DEF Held
<1> QED BY <1>1, <1>2 DEF Held

LEMMA HeldReleased ==
  ASSUME TypeOK, ClaimExclusive, NEW d \in Coroutines, NEW c, co' = [co EXCEPT ![d] = c],
         steering' = steering, co[d].pc \in HoldingPcs, c.pc \notin HoldingPcs
  PROVE  \A i \in Items : Held(i)' <=> (Held(i) /\ i # co[d].item)
<1>1. \A i : \A e \in Coroutines : Holds(e, i)' <=> (Holds(e, i) /\ e # d)
  BY HoldsMove
<1>2. \A i \in Items : Holds(d, i) => /\ \A e \in Coroutines : Holds(e, i) => e = d
                                      /\ \A r \in Runs : i \notin steering[r]
  BY DEF ClaimExclusive
<1>3. \A i : Holds(d, i) <=> co[d].item = i
  BY DEF Holds
<1> QED BY <1>1, <1>2, <1>3 DEF Held

(* A loop that lets go of S, which it had claimed.                         *)
LEMMA SteersReleased ==
  ASSUME TypeOK, ClaimExclusive, co' = co, NEW r \in Runs, NEW S \in SUBSET steering[r],
         steering' = [steering EXCEPT ![r] = @ \ S]
  PROVE  \A i \in Items : Held(i)' <=> (Held(i) /\ i \notin S)
<1>1. /\ steering'[r] = steering[r] \ S
      /\ \A s \in Runs \ {r} : steering'[s] = steering[s]
  BY DEF TypeOK
<1>2. \A i \in S : i \in Items /\ i \in steering[r]
  BY DEF TypeOK
<1>3. \A i \in S : /\ \A s \in Runs \ {r} : i \notin steering[s]
                   /\ \A d \in Coroutines : ~Holds(d, i)
  BY <1>2 DEF ClaimExclusive
<1>4. \A i : \A d \in Coroutines : Holds(d, i)' <=> Holds(d, i)
  BY DEF Holds
<1> QED BY <1>1, <1>3, <1>4 DEF Held
-----------------------------------------------------------------------------
(* The steps.                                                              *)

LEMMA Quietly ==
  ASSUME \A i \in Items : store'[i].status = store[i].status,
         life' = life,
         \A r \in Runs : run'[r].item = run[r].item /\ run'[r].life = run[r].life,
         \A i \in Items : Held(i)' <=> Held(i)
  PROVE  UNCHANGED <<Place, Hand>>
BY SamePlaces, SameGiven, SameHands

(* A coroutine's move with nothing in hand before or after.                *)
LEMMA EmptyHanded ==
  ASSUME TypeOK, NEW d \in Coroutines, NEW pc \in Pcs \ HoldingPcs,
         \/ Finish(d) \/ GiveUp(d) \/ Continue(d) \/ Goto(d, pc),
         steering' = steering
  PROVE  \E c : c.pc \notin HoldingPcs /\ co' = [co EXCEPT ![d] = c]
<1>0. co[d] \in CoRecords  BY DEF TypeOK
<1>1. CASE Finish(d) \/ GiveUp(d)
  <2>1. Idle.pc \notin HoldingPcs /\ GaveUp.pc \notin HoldingPcs
    BY DEF Idle, GaveUp, HoldingPcs
  <2> QED BY <1>1, <2>1 DEF Finish, GiveUp
<1>2. CASE Continue(d)
  <2> DEFINE c == IF co[d].tries + 1 < MaxAttempts
                  THEN [Idle EXCEPT !.pc = "list", !.tries = co[d].tries + 1]
                  ELSE GaveUp
  <2>1. co' = [co EXCEPT ![d] = c]  BY <1>2 DEF Continue
  <2>2. c.pc \notin HoldingPcs  BY DEF Idle, GaveUp, HoldingPcs
  <2> HIDE DEF c
  <2> QED BY <2>1, <2>2
<1>3. CASE Goto(d, pc)
  <2>1. co' = [co EXCEPT ![d] = [co[d] EXCEPT !.pc = pc]]
    BY <1>3 DEF Goto
  <2>2. [co[d] EXCEPT !.pc = pc].pc \notin HoldingPcs
    BY <1>0 DEF CoRecords
  <2> QED BY <2>1, <2>2
<1> QED BY <1>1, <1>2, <1>3

LEMMA HandlerDelivers ==
  ASSUME TypeOK, UnbornIsNew, NEW i \in Items,
         PostQueued(i) \/ PostRunBusy(i) \/ PostRunFree(i) \/ HandlerStep(i)
  PROVE  Delivery!Submit(i) \/ UNCHANGED <<Place, Hand>>
<1>0. i \in Coroutines /\ store \in [Items -> ItemRecords]
  BY DEF Coroutines, TypeOK
<1>1. CASE PostQueued(i) \/ PostRunBusy(i)
  <2>1. PICK pc \in {"enqueue", "enqueueChat"} :
          co' = [co EXCEPT ![i] = Admitted(i, pc)]
    BY <1>1 DEF PostQueued, PostRunBusy
  <2>2. Admitted(i, pc).pc \notin HoldingPcs /\ co[i].pc \notin HoldingPcs
    BY <1>1 DEF Admitted, Idle, HoldingPcs, PostQueued, PostRunBusy, NewPost, RestingPcs
  <2>3. store' = store /\ steering' = steering /\ run' = run /\ life' = life
    BY <1>1 DEF PostQueued, PostRunBusy
  <2>4. \A j : Held(j)' <=> Held(j)
    BY <1>0, <2>1, <2>2, <2>3, HeldKept
  <2> QED BY <2>3, <2>4, Quietly
<1>2. CASE PostRunFree(i)
  <2>1. store' = store /\ co' = co /\ steering' = steering /\ life' = life
    BY <1>2 DEF PostRunFree
  <2>2. PICK q \in Runs : CreateAndSchedule(q, None) \/ CreateAndRaise(q, None)
    BY <1>2 DEF PostRunFree
  <2>3. /\ run'[q].item = None /\ run[q].item = None
        /\ \A r \in Runs \ {q} :
             run'[r].item = run[r].item /\ run'[r].life = run[r].life
    BY <2>2, Created DEF UnbornIsNew
  <2>4. \A j \in Items : Given(j)' <=> Given(j)
    BY <2>1, <2>3, NoneIsNoReference DEF Given
  <2>5. \A j \in Items : Held(j)' <=> Held(j)
    BY <2>1 DEF Held, Holds
  <2> QED BY <2>1, <2>4, <2>5, SamePlaces, SameHands
<1>3. CASE DoEnqueue(i)
  <2> DEFINE c == [Idle EXCEPT !.pc = IF co[i].pc = "enqueue" THEN "reset" ELSE "recheck"]
  <2>1. co' = [co EXCEPT ![i] = c] /\ steering' = steering /\ run' = run /\ life' = life
    BY <1>3 DEF DoEnqueue
  <2>2. c.pc \notin HoldingPcs /\ co[i].pc \notin HoldingPcs
    BY <1>3 DEF DoEnqueue, Idle, HoldingPcs
  <2> HIDE DEF c
  <2>3. \A j : Held(j)' <=> Held(j)
    BY <1>0, <2>1, <2>2, HeldKept
  <2>4. UNCHANGED Hand
    BY <2>1, <2>3, SameGiven, SameHands
  <2>5. store' = Enqueue(store, i, co[i].policy, co[i].turn, co[i].bound)
    BY <1>3 DEF DoEnqueue
  <2>6. CASE store[i].status # "absent"
    BY <2>1, <2>3, <2>5, <2>6, Quietly DEF Enqueue
  <2>7. CASE store[i].status = "absent"
    <3>1. \A j \in Items : store'[j].status = IF j = i THEN "queued" ELSE store[j].status
      BY <1>0, <2>5, <2>7 DEF Enqueue
    <3>2. \A j \in Items : PlaceOf(j)' = IF j \in {i} THEN "waiting" ELSE PlaceOf(j)
      BY <3>1 DEF PlaceOf
    <3>3. Place[i] = "out"  BY <2>7 DEF Place, PlaceOf
    <3> QED BY <2>4, <3>2, <3>3, PlaceMoves DEF Delivery!Submit
  <2> QED BY <2>6, <2>7
<1>4. CASE Recheck(i)
  <2>1. Finish(i) \/ Goto(i, "reset")  BY <1>4 DEF Recheck
  <2>2. steering' = steering /\ store' = store /\ run' = run /\ life' = life
    BY <1>4 DEF Recheck
  <2>3. "reset" \in Pcs \ HoldingPcs /\ co[i].pc \notin HoldingPcs
    BY <1>4 DEF Pcs, HoldingPcs, Recheck
  <2>4. \A j : Held(j)' <=> Held(j)
    BY <1>0, <2>1, <2>2, <2>3, EmptyHanded, HeldKept
  <2> QED BY <2>2, <2>4, Quietly
<1> QED BY <1>1, <1>2, <1>3, <1>4 DEF HandlerStep

LEMMA ResetDelivers ==
  ASSUME TypeOK, ClaimInv, RunInv, NEW d \in Coroutines, DoReset(d)
  PROVE  Delivery!Return(StaleItems(store))
<1>1. Goto(d, "list") /\ steering' = steering /\ run' = run /\ life' = life
  BY DEF DoReset
<1>2. "list" \in Pcs \ HoldingPcs /\ co[d].pc \notin HoldingPcs
  BY DEF Pcs, HoldingPcs, DoReset
<1>3. \A i : Held(i)' <=> Held(i)
  BY <1>1, <1>2, EmptyHanded, HeldKept
<1>4. UNCHANGED Hand  BY <1>1, <1>3, SameGiven, SameHands
<1>5. \A i \in StaleItems(store) :
        i \in Items /\ store[i].status = "dispatching" /\ store[i].old
  BY DEF StaleItems
<1>6. \A i \in Items : store'[i].status = IF i \in StaleItems(store) THEN "queued"
                                                                ELSE store[i].status
  BY DEF DoReset, ResetStale, TypeOK, ItemRecords
<1>7. \A i \in Items : PlaceOf(i)' = IF i \in StaleItems(store) THEN "waiting" ELSE PlaceOf(i)
  BY <1>6 DEF PlaceOf
<1>8. \A i \in StaleItems(store) : Place[i] = "taken" /\ Hand[i] = "free"
  <2> TAKE i \in StaleItems(store)
  <2>1. PlaceOf(i) = "taken"  BY <1>5 DEF PlaceOf
  <2>2. HandOf(i) = "free"  BY <1>5, NobodyHas DEF HandOf
  <2> QED BY <1>5, <2>1, <2>2 DEF Place, Hand
<1> QED BY <1>4, <1>7, <1>8, PlaceMoves DEF Delivery!Return

(* Several messages that wait are taken, and nothing else changes hands.   *)
LEMMA TakeDelivers ==
  ASSUME ClaimInv, RunInv, NEW S \in SUBSET Items,
         \A i \in S : store[i].status = "queued",
         \A i \in Items : store'[i].status = IF i \in S THEN "dispatching"
                                                        ELSE store[i].status,
         run' = run, life' = life,
         \A i \in Items : Held(i)' <=> (Held(i) \/ i \in S)
  PROVE  Delivery!Take(S)
<1>1. \A i \in Items : PlaceOf(i)' = IF i \in S THEN "taken" ELSE PlaceOf(i)
  BY DEF PlaceOf
<1>2. \A i \in S : PlaceOf(i) = "waiting" /\ HandOf(i) = "free" /\ ~Given(i)
  BY NobodyHas DEF PlaceOf, HandOf
<1>3. \A i \in Items : Given(i)' <=> Given(i)
  BY SameGiven
<1>4. \A i \in Items : HandOf(i)' = IF i \in S THEN "held" ELSE HandOf(i)
  BY <1>2, <1>3 DEF HandOf
<1>5. \A i \in S : Place[i] = "waiting" /\ Hand[i] = "free"
  BY <1>2 DEF Place, Hand
<1> QED BY <1>1, <1>4, <1>5, PlaceMoves, HandPasses DEF Delivery!Take

(* An update writes the status of its message, and of no other.            *)
LEMMA UpdatesOne ==
  ASSUME NEW st \in [Items -> ItemRecords], NEW i \in Items, NEW u, NEW ref
  PROVE  \A j \in Items : UpdateItem(st, i, u, ref)[j].status =
                            IF j = i THEN u ELSE st[j].status
<1>1. UpdateItem(st, i, u, ref)
        = [st EXCEPT ![i] = [st[i] EXCEPT !.status = u, !.ref = ref, !.old = FALSE]]
  BY DEF UpdateItem
<1>2. [st[i] EXCEPT !.status = u, !.ref = ref, !.old = FALSE].status = u
  BY DEF ItemRecords
<1> QED BY <1>1, <1>2

(* Whoever has message i writes a settled status, and lets go of it.       *)
LEMMA SettleDelivers ==
  ASSUME TypeOK, ClaimInv, NEW i \in Items, Held(i), NEW u \in Settled,
         \E ref : store' = UpdateItem(store, i, u, ref), run' = run, life' = life,
         \A j \in Items : Held(j)' <=> (Held(j) /\ j # i)
  PROVE  Delivery!Settle(i)
<1>0. store \in [Items -> ItemRecords]  BY DEF TypeOK
<1>1. \A j \in Items : store'[j].status = IF j = i THEN u ELSE store[j].status
  BY <1>0, UpdatesOne
<1>2. \A j \in Items : PlaceOf(j)' = IF j \in {i} THEN "settled" ELSE PlaceOf(j)
  BY <1>1 DEF PlaceOf, Settled
<1>3. PlaceOf(i) \in {"taken", "settled"}
  <2>1. store[i].status \in {"dispatching", "canceled"}
    BY DEF ClaimInv, HeldIsClaimed
  <2> QED BY <2>1 DEF PlaceOf
<1>4. \A j \in Items : Given(j)' <=> Given(j)
  BY SameGiven
<1>5. CASE Given(i)
  <2>1. HandOf(i) = "given"  BY <1>5 DEF HandOf
  <2>2. \A j \in Items : HandOf(j)' = HandOf(j)
    BY <1>4, <1>5 DEF HandOf
  <2>3. UNCHANGED Hand  BY <2>2 DEF Hand
  <2> QED BY <1>2, <1>3, <2>1, <2>3, PlaceMoves DEF Delivery!Settle, Place, Hand
<1>6. CASE ~Given(i)
  <2>1. HandOf(i) = "held"  BY <1>6 DEF HandOf
  <2>2. \A j \in Items : HandOf(j)' = IF j \in {i} THEN "free" ELSE HandOf(j)
    BY <1>4, <1>6 DEF HandOf
  <2>3. Hand[i] = "held" /\ Hand[i] # "free" /\ Place[i] \in {"taken", "settled"}
    BY <1>3, <2>1 DEF Place, Hand
  <2> QED BY <1>2, <2>2, <2>3, PlaceMoves, HandPasses DEF Delivery!Settle
<1> QED BY <1>5, <1>6

(* Those who hold S and gave none of it a run let go of it.                *)
LEMMA DropDelivers ==
  ASSUME NEW T \in SUBSET Items, \A i \in T : Held(i),
         store' = store, life' = life,
         \A r \in Runs : run'[r].item = run[r].item /\ run'[r].life = run[r].life,
         \A i \in Items : Held(i)' <=> (Held(i) /\ i \notin T)
  PROVE  \E S \in SUBSET Items : Delivery!Drop(S)
<1> DEFINE S == {i \in T : ~Given(i)}
<1>1. \A i \in Items : Given(i)' <=> Given(i)
  BY SameGiven
<1>2. \A i \in Items : HandOf(i)' = IF i \in S THEN "free" ELSE HandOf(i)
  BY <1>1 DEF HandOf
<1>3. \A i \in S : Hand[i] = "held"
  BY DEF Hand, HandOf
<1>4. UNCHANGED Place  BY SamePlaces
<1> HIDE DEF S
<1>5. Delivery!Drop(S)
  BY <1>2, <1>3, <1>4, HandPasses DEF Delivery!Drop
<1>6. S \in SUBSET Items  BY DEF S
<1> QED BY <1>5, <1>6

(* A claim takes one message; if none is left the coroutine goes on.       *)
LEMMA ClaimNextDelivers ==
  ASSUME TypeOK, ClaimInv, RunInv, NEW d \in Coroutines,
         \/ ClaimNext(d, "auto", "start")
         \/ ClaimNext(d, "steer", "failSteer"),
         co[d].pc \notin HoldingPcs,
         steering' = steering, run' = run, life' = life
  PROVE  \/ \E i \in Items : Delivery!Take({i})
         \/ UNCHANGED <<Place, Hand>>
<1>0. store \in [Items -> ItemRecords] /\ co[d] \in CoRecords
  BY DEF TypeOK
<1>1. PICK policy \in {"auto", "steer"}, pc \in {"start", "failSteer"} :
        ClaimNext(d, policy, pc)
  OBVIOUS
<1>2. ASSUME NEW i \in Items, IsFirst(store, Claimable(store, policy), i),
             store' = Claim(store, i),
             co' = [co EXCEPT ![d] = [@ EXCEPT !.pc = pc, !.item = i]]
      PROVE  Delivery!Take({i})
  <2> DEFINE c == [co[d] EXCEPT !.pc = pc, !.item = i]
  <2>1. c.pc \in HoldingPcs /\ c.item = i
    BY <1>0 DEF CoRecords, HoldingPcs
  <2>2. co' = [co EXCEPT ![d] = c]
    BY <1>2
  <2> HIDE DEF c
  <2>3. \A j : Held(j)' <=> (Held(j) \/ j = i)
    BY <2>1, <2>2, HeldTaken
  <2>4. store[i].status = "queued"
    BY <1>2 DEF IsFirst, Claimable, Queued
  <2>5. \A j \in Items : store'[j].status = IF j = i THEN "dispatching" ELSE store[j].status
    BY <1>0, <1>2 DEF Claim, ItemRecords
  <2>6. {i} \in SUBSET Items /\ \A j : j \in {i} <=> j = i
    OBVIOUS
  <2> QED BY <2>3, <2>4, <2>5, <2>6, TakeDelivers
<1>3. CASE Continue(d) /\ store' = store
  <2>1. "list" \in Pcs \ HoldingPcs  BY DEF Pcs, HoldingPcs
  <2>2. \A i : Held(i)' <=> Held(i)
    BY <1>3, <2>1, EmptyHanded, HeldKept
  <2> QED BY <1>3, <2>2, Quietly
<1> QED BY <1>1, <1>2, <1>3 DEF ClaimNext

(* A dispatcher that starts the run of its claim gives the claim away; one *)
(* that fails first keeps it.                                              *)
LEMMA StartDelivers ==
  ASSUME TypeOK, ClaimInv, RunInv, UnbornIsNew, NEW d \in Coroutines, Start(d)
  PROVE  \/ \E i \in Items : Delivery!Give(i)
         \/ UNCHANGED <<Place, Hand>>
<1>0. co[d] \in CoRecords /\ co[d].pc = "start"
  BY DEF TypeOK, Start
<1>1. store' = store /\ steering' = steering /\ life' = life
  BY DEF Start
<1>2. PICK i \in Items : co[d].item = i /\ Holds(d, i)
  BY <1>0 DEF TypeOK, InHand, WorkingPcs, HoldingPcs, Holds
<1>3. \A j \in Items : Held(j)' <=> Held(j)
  <2>1. CASE Goto(d, "failStart")
    <3>1. /\ [co[d] EXCEPT !.pc = "failStart"].pc \in HoldingPcs
          /\ [co[d] EXCEPT !.pc = "failStart"].item = co[d].item
          /\ co[d].pc \in HoldingPcs
      BY <1>0 DEF CoRecords, HoldingPcs
    <3>2. co' = [co EXCEPT ![d] = [co[d] EXCEPT !.pc = "failStart"]]
      BY <2>1 DEF Goto
    <3> QED BY <1>1, <3>1, <3>2, HeldKept
  <2>2. ASSUME NEW q \in Runs, co' = [co EXCEPT ![d] = [@ EXCEPT !.pc = "mark", !.run = q]]
        PROVE  \A j \in Items : Held(j)' <=> Held(j)
    <3>1. /\ [co[d] EXCEPT !.pc = "mark", !.run = q].pc \in HoldingPcs
          /\ [co[d] EXCEPT !.pc = "mark", !.run = q].item = co[d].item
          /\ co[d].pc \in HoldingPcs
      BY <1>0 DEF CoRecords, HoldingPcs
    <3>2. co' = [co EXCEPT ![d] = [co[d] EXCEPT !.pc = "mark", !.run = q]]
      BY <2>2
    <3> QED BY <1>1, <3>1, <3>2, HeldKept
  <2> QED BY <2>1, <2>2 DEF Start
<1>4. ASSUME NEW q \in Runs, CreateAndSchedule(q, i) \/ CreateAndRaise(q, i)
      PROVE  Delivery!Give(i)
  <2>1. /\ run'[q].item = i /\ run'[q].life = life
        /\ run[q].item = None
        /\ \A r \in Runs \ {q} :
             run'[r].item = run[r].item /\ run'[r].life = run[r].life
    BY <1>4, Created DEF UnbornIsNew
  <2>2. ~Given(i)
    <3>1. i # None  BY NoneIsNoReference
    <3> QED BY <1>0, <1>2, <3>1 DEF Given, RunInv, RunAccounted
  <2>3. \A j \in Items : Given(j)' <=> (Given(j) \/ j = i)
    BY <1>1, <2>1, NoneIsNoReference DEF Given
  <2>4. Held(i)  BY <1>2 DEF Held
  <2>5. \A j \in Items : HandOf(j)' = IF j \in {i} THEN "given" ELSE HandOf(j)
    BY <1>3, <2>3 DEF HandOf
  <2>6. Hand[i] = "held"
    BY <2>2, <2>4 DEF HandOf, Hand
  <2>7. UNCHANGED Place  BY <1>1, SamePlaces
  <2> QED BY <2>5, <2>6, <2>7, HandPasses DEF Delivery!Give
<1>5. CASE run' = run
  BY <1>1, <1>3, <1>5, Quietly
<1> QED BY <1>2, <1>4, <1>5 DEF Start

(* A mark settles what its coroutine holds.                                *)
LEMMA MarkDelivers ==
  ASSUME TypeOK, ClaimInv, NEW d \in Coroutines, DoMark(d) \/ DoFail(d)
  PROVE  \E i \in Items : Delivery!Settle(i)
<1>1. co[d].pc \in HoldingPcs
  BY DEF DoMark, DoFail, HoldingPcs
<1>2. PICK i \in Items : co[d].item = i /\ Holds(d, i)
  BY <1>1 DEF TypeOK, InHand, WorkingPcs, Holds
<1>3. Held(i)  BY <1>2 DEF Held
<1>4. run' = run /\ life' = life /\ steering' = steering
  BY DEF DoMark, DoFail
<1>5. PICK u \in Settled : \E ref : store' = UpdateItem(store, i, u, ref)
  BY <1>2 DEF DoMark, DoFail, MarkDispatched, MarkFailed, Settled
<1>6. "list" \in Pcs \ HoldingPcs  BY DEF Pcs, HoldingPcs
<1>7. Finish(d) \/ GiveUp(d) \/ Continue(d)
  BY DEF DoMark, DoFail
<1>8. \A j \in Items : Held(j)' <=> (Held(j) /\ j # i)
  BY <1>1, <1>2, <1>4, <1>6, <1>7, EmptyHanded, HeldReleased DEF ClaimInv
<1> QED BY <1>3, <1>4, <1>5, <1>8, SettleDelivers

(* Looking at the queue, deciding and retargeting move no message.         *)
LEMMA DecideDelivers ==
  ASSUME TypeOK, NEW d \in Coroutines, DoList(d) \/ Decide(d) \/ DoRetarget(d)
  PROVE  UNCHANGED <<Place, Hand>>
<1>0. store \in [Items -> ItemRecords] /\ co[d] \in CoRecords
  BY DEF TypeOK
<1>1. steering' = steering /\ run' = run /\ life' = life
  BY DEF DoList, Decide, DoRetarget
<1>2. co[d].pc \notin HoldingPcs
  BY DEF DoList, Decide, DoRetarget, HoldingPcs
<1>3. \A i \in Items : store'[i].status = store[i].status
  <2>1. CASE store' = store  BY <2>1
  <2>2. CASE DoRetarget(d) /\ store' # store
    <3>1. PICK t, b : store' = Retarget(store, co[d].item, "steer", t, b)
      BY <2>2 DEF DoRetarget
    <3> QED BY <1>0, <3>1 DEF Retarget, ItemRecords
  <2> QED BY <2>1, <2>2 DEF DoList, Decide
<1>4. \A i : Held(i)' <=> Held(i)
  <2>1. CASE \/ Finish(d) \/ Continue(d)
             \/ \E pc \in {"claimAuto", "claimSteer"} : Goto(d, pc)
    <3>1. {"claimAuto", "claimSteer"} \subseteq Pcs \ HoldingPcs
      BY DEF Pcs, HoldingPcs
    <3> QED BY <1>1, <1>2, <2>1, <3>1, EmptyHanded, HeldKept
  <2>2. ASSUME NEW i,
               co' = [co EXCEPT ![d] = [@ EXCEPT
                        !.pc = "decide", !.item = i, !.policy = store[i].policy,
                        !.turn = store[i].turn, !.bound = store[i].bound]]
        PROVE  \A j : Held(j)' <=> Held(j)
    <3> DEFINE c == [co[d] EXCEPT !.pc = "decide", !.item = i, !.policy = store[i].policy,
                        !.turn = store[i].turn, !.bound = store[i].bound]
    <3>1. c.pc \notin HoldingPcs  BY <1>0 DEF CoRecords, HoldingPcs
    <3>2. co' = [co EXCEPT ![d] = c]  BY <2>2
    <3> HIDE DEF c
    <3> QED BY <1>1, <1>2, <3>1, <3>2, HeldKept
  <2>3. CASE co' = [co EXCEPT ![d] = [@ EXCEPT !.pc = "retarget",
                                           !.turn = turn, !.bound = Bound(turn)]]
    <3> DEFINE c == [co[d] EXCEPT !.pc = "retarget", !.turn = turn, !.bound = Bound(turn)]
    <3>1. c.pc \notin HoldingPcs  BY <1>0 DEF CoRecords, HoldingPcs
    <3>2. co' = [co EXCEPT ![d] = c]  BY <2>3
    <3> HIDE DEF c
    <3> QED BY <1>1, <1>2, <3>1, <3>2, HeldKept
  <2> QED BY <2>1, <2>2, <2>3 DEF DoList, Decide, DoRetarget
<1> QED BY <1>1, <1>3, <1>4, Quietly

(* Between them, the loops of turns and the executors of their tasks.      *)
LEMMA LoopDelivers ==
  ASSUME TypeOK, ClaimInv, RunInv, NEW r \in Runs,
         ClaimSteers(r) \/ MarkSteer(r) \/ AbandonSteers(r) \/ Interrupted(r)
  PROVE  Delivery!Next \/ UNCHANGED <<Place, Hand>>
<1>0. /\ store \in [Items -> ItemRecords]
      /\ run \in [Runs -> RunRecords] /\ \A s \in Runs : run[s] \in RunRecords
      /\ steering \in [Runs -> SUBSET Items]
  BY DEF TypeOK
<1>1. co' = co /\ life' = life
  BY DEF ClaimSteers, MarkSteer, AbandonSteers, Interrupted
<1>2. \A i : \A d \in Coroutines : Holds(d, i)' <=> Holds(d, i)
  BY <1>1 DEF Holds
<1>3. CASE ClaimSteers(r)
  <2>1. PICK S : /\ S = ClaimedForTurn(store, r, Bound(r))
                 /\ steering[r] = {} /\ steering' = [steering EXCEPT ![r] = S]
                 /\ store' = ClaimForActiveTurn(store, r, Bound(r)) /\ run' = run
    BY <1>3 DEF ClaimSteers
  <2>2. S \subseteq Items /\ \A i \in S : store[i].status = "queued"
    BY <2>1 DEF ClaimedForTurn, MatchesTurn
  <2>3. \A i \in Items : store'[i].status = IF i \in S THEN "dispatching"
                                                        ELSE store[i].status
    BY <1>0, <2>1 DEF ClaimForActiveTurn, ItemRecords
  <2>4. \A i \in Items : Held(i)' <=> (Held(i) \/ i \in S)
    <3>1. \A i : \A s \in Runs : i \in steering'[s] <=> (i \in steering[s] \/ (s = r /\ i \in S))
      BY <1>0, <2>1
    <3> QED BY <1>2, <3>1 DEF Held
  <2>5. Delivery!Take(S)
    BY <1>1, <2>1, <2>2, <2>3, <2>4, TakeDelivers
  <2> QED BY <2>2, <2>5 DEF Delivery!Next
<1>4. CASE MarkSteer(r)
  <2>1. PICK i \in Items :
          /\ i \in steering[r]
          /\ MarkDispatched(store, i, r) = store' \/ MarkFailed(store, i) = store'
          /\ steering' = [steering EXCEPT ![r] = @ \ {i}] /\ run' = run
    BY <1>4 DEF MarkSteer, IsFirst
  <2>2. PICK u \in Settled : \E ref : store' = UpdateItem(store, i, u, ref)
    BY <2>1 DEF MarkDispatched, MarkFailed, Settled
  <2>3. Held(i)  BY <2>1 DEF Held
  <2>4. \A j \in Items : Held(j)' <=> (Held(j) /\ j # i)
    <3>1. {i} \in SUBSET steering[r]  BY <2>1
    <3>2. \A j \in Items : Held(j)' <=> (Held(j) /\ j \notin {i})
      BY <1>1, <2>1, <3>1, SteersReleased DEF ClaimInv
    <3> QED BY <3>2
  <2> QED BY <1>1, <2>1, <2>2, <2>3, <2>4, SettleDelivers DEF Delivery!Next
<1>5. CASE AbandonSteers(r) \/ Interrupted(r)
  <2>1. /\ store' = store
        /\ \A s \in Runs : run'[s].item = run[s].item /\ run'[s].life = run[s].life
    BY <1>0, <1>5 DEF AbandonSteers, Interrupted, RunRecords
  <2>2. CASE steering' = steering
    <3>1. \A i : Held(i)' <=> Held(i)  BY <1>2, <2>2 DEF Held
    <3> QED BY <1>1, <2>1, <3>1, Quietly
  <2>3. CASE steering' = [steering EXCEPT ![r] = {}]
    <3>1. steering' = [steering EXCEPT ![r] = @ \ steering[r]]
      BY <1>0, <2>3
    <3>2. \A i \in Items : Held(i)' <=> (Held(i) /\ i \notin steering[r])
      BY <1>1, <3>1, SteersReleased DEF ClaimInv
    <3>3. \A i \in steering[r] : Held(i)  BY DEF Held
    <3> QED BY <1>0, <1>1, <2>1, <3>2, <3>3, DropDelivers DEF Delivery!Next
  <2>4. steering' = steering \/ steering' = [steering EXCEPT ![r] = {}]
    BY <1>0, <1>5 DEF AbandonSteers, Interrupted
  <2> QED BY <2>2, <2>3, <2>4
<1> QED BY <1>3, <1>4, <1>5

(* The other steps of cells and tasks have no message in hand.             *)
LEMMA CellDelivers ==
  ASSUME TypeOK, SpawnedOnce, NEW r \in Runs,
         \/ CellBegins(r) \/ StartTurn(r) \/ Complete(r) \/ Unwind(r)
         \/ SetDone(r) \/ OnDone(r) \/ TaskStep(r)
  PROVE  UNCHANGED <<Place, Hand>>
<1>0. run \in [Runs -> RunRecords] /\ \A s \in Runs : run[s] \in RunRecords
  BY DEF TypeOK
<1>1. store' = store /\ steering' = steering /\ life' = life
  BY DEF CellBegins, StartTurn, Complete, Unwind, SetDone, OnDone, TaskStep,
         BindTask, TaskStarts, TaskParks, TaskPauses, TaskEnds
<1>2. \A s \in Runs : run'[s].item = run[s].item /\ run'[s].life = run[s].life
  <2>1. CASE \/ CellBegins(r) \/ StartTurn(r) \/ Complete(r) \/ Unwind(r)
             \/ SetDone(r) \/ OnDone(r)
    BY <1>0, <2>1 DEF CellBegins, StartTurn, Complete, Unwind, SetDone, OnDone, RunRecords
  <2>2. CASE BindTask(r) \/ TaskParks(r) \/ TaskPauses(r) \/ TaskEnds(r)
    BY <1>0, <2>2 DEF BindTask, TaskParks, TaskPauses, TaskEnds, RunRecords
  <2>3. CASE TaskStarts(r)
    BY <1>0, <2>3 DEF TaskStarts, Supervised, RunRecords
  <2> QED BY <2>1, <2>2, <2>3 DEF TaskStep
<1>3. \A i : Held(i)' <=> Held(i)
  <2>1. CASE co' = co
    BY <1>1, <2>1 DEF Held, Holds
  <2>2. CASE OnDone(r)
    <3>1. co[r].pc = "idle"
      BY <2>2 DEF OnDone, SpawnedOnce
    <3>2. Goto(r, "reset") /\ "reset" \in Pcs \ HoldingPcs /\ co[r].pc \notin HoldingPcs
      BY <2>2, <3>1 DEF OnDone, Pcs, HoldingPcs
    <3>3. r \in Coroutines  BY DEF Coroutines
    <3> QED BY <1>1, <3>2, <3>3, EmptyHanded, HeldKept
  <2> QED BY <2>1, <2>2
          DEF CellBegins, StartTurn, Complete, Unwind, SetDone, TaskStep,
              BindTask, TaskStarts, TaskParks, TaskPauses, TaskEnds
<1> QED BY <1>1, <1>2, <1>3, Quietly

LEMMA UserDelivers ==
  ASSUME TypeOK, CanceledIsKnown, NEW i \in Items,
         CancelCheck(i) \/ CancelWrite(i) \/ Age(i)
  PROVE  Delivery!Cancel(i) \/ UNCHANGED <<Place, Hand>>
<1>0. store \in [Items -> ItemRecords]  BY DEF TypeOK
<1>1. co' = co /\ steering' = steering /\ run' = run /\ life' = life
  BY DEF CancelCheck, CancelWrite, Age
<1>2. \A j : Held(j)' <=> Held(j)
  BY <1>1 DEF Held, Holds
<1>3. CASE CancelCheck(i) \/ Age(i)
  <2>1. \A j \in Items : store'[j].status = store[j].status
    BY <1>0, <1>3 DEF CancelCheck, Age, ItemRecords
  <2> QED BY <1>1, <1>2, <2>1, Quietly
<1>4. CASE CancelWrite(i)
  <2>1. store[i].status # "absent"
    BY <1>4 DEF CancelWrite, CanceledIsKnown
  <2>2. store' = UpdateItem(store, i, "canceled", store[i].ref)
    BY <1>4 DEF CancelWrite, MarkCanceled
  <2>4. \A j \in Items : store'[j].status = IF j = i THEN "canceled" ELSE store[j].status
    BY <1>0, <2>2, UpdatesOne
  <2>5. \A j \in Items : PlaceOf(j)' = IF j \in {i} THEN "settled" ELSE PlaceOf(j)
    BY <2>4 DEF PlaceOf
  <2>6. Place[i] # "out"
    BY <2>1 DEF Place, PlaceOf
  <2>7. UNCHANGED Hand
    BY <1>1, <1>2, SameGiven, SameHands
  <2> QED BY <2>5, <2>6, <2>7, PlaceMoves DEF Delivery!Cancel
<1> QED BY <1>3, <1>4

LEMMA RestartDelivers ==
  ASSUME TypeOK, RunInv, Restart
  PROVE  Delivery!Crash
<1>0. run \in [Runs -> RunRecords] /\ \A r \in Runs : run[r] \in RunRecords
  BY DEF TypeOK
<1>1. \A r \in Runs : run'[r].life = run[r].life
  BY DEF Restart, TypeOK, RunRecords
<1>2. \A r \in Runs : run[r].life \in Nat /\ run[r].life <= life
  BY <1>0, NaturalBounds DEF RunRecords, RunInv, RunAccounted
<1>3. life' = life + 1 /\ life \in Nat
  <2>1. life \in 0 .. MaxCrashes  BY DEF TypeOK
  <2>2. life' = life + 1  BY DEF Restart
  <2> QED BY <2>1, <2>2, NaturalBounds
<1>4. \A i : ~Given(i)'
  BY <1>1, <1>2, <1>3 DEF Given
<1>5. \A i : ~Held(i)'
  <2>1. \A d \in Coroutines : co'[d].pc \notin HoldingPcs
    BY DEF Restart, Idle, HoldingPcs
  <2>2. \A r \in Runs : steering'[r] = {}
    BY DEF Restart
  <2> QED BY <2>1, <2>2 DEF Held, Holds
<1>6. \A i \in Items : HandOf(i)' = IF i \in Items THEN "free" ELSE HandOf(i)
  BY <1>4, <1>5 DEF HandOf
<1>7. UNCHANGED Place
  BY SamePlaces DEF Restart
<1> QED BY <1>6, <1>7, HandPasses DEF Delivery!Crash

LEMMA DeliveryStep ==
  ASSUME TypeOK, ClaimInv, RunInv, SpawnedOnce, UnbornIsNew, CanceledIsKnown, [Next]_vars
  PROVE  Delivery!Next \/ UNCHANGED <<Place, Hand>>
<1>1. ASSUME NEW i \in Items,
             \/ PostQueued(i) \/ PostRunBusy(i) \/ PostRunFree(i) \/ HandlerStep(i)
      PROVE  Delivery!Next \/ UNCHANGED <<Place, Hand>>
  BY <1>1, HandlerDelivers DEF Delivery!Next
<1>2. ASSUME NEW i \in Items, CancelCheck(i) \/ CancelWrite(i) \/ Age(i)
      PROVE  Delivery!Next \/ UNCHANGED <<Place, Hand>>
  BY <1>2, UserDelivers DEF Delivery!Next
<1>3. ASSUME NEW d \in Coroutines, CoroutineStep(d)
      PROVE  Delivery!Next \/ UNCHANGED <<Place, Hand>>
  <2>1. CASE DoReset(d)
    <3>1. StaleItems(store) \in SUBSET Items  BY DEF StaleItems
    <3> QED BY <2>1, <3>1, ResetDelivers DEF Delivery!Next
  <2>2. CASE DoClaimAuto(d) \/ DoClaimSteer(d)
    <3>1. /\ ClaimNext(d, "auto", "start") \/ ClaimNext(d, "steer", "failSteer")
          /\ steering' = steering /\ run' = run /\ life' = life
          /\ co[d].pc \notin HoldingPcs
      BY <2>2 DEF DoClaimAuto, DoClaimSteer, HoldingPcs
    <3>2. \A i \in Items : {i} \in SUBSET Items  OBVIOUS
    <3> QED BY <3>1, <3>2, ClaimNextDelivers DEF Delivery!Next
  <2>3. CASE Start(d)
    BY <2>3, StartDelivers DEF Delivery!Next
  <2>4. CASE DoMark(d) \/ DoFail(d)
    BY <2>4, MarkDelivers DEF Delivery!Next
  <2>5. CASE DoList(d) \/ Decide(d) \/ DoRetarget(d)
    BY <2>5, DecideDelivers
  <2> QED BY <1>3, <2>1, <2>2, <2>3, <2>4, <2>5 DEF CoroutineStep
<1>4. ASSUME NEW r \in Runs, CellStep(r) \/ TaskStep(r) \/ AbandonSteers(r) \/ Interrupted(r)
      PROVE  Delivery!Next \/ UNCHANGED <<Place, Hand>>
  BY <1>4, CellDelivers, LoopDelivers DEF CellStep
<1>5. CASE Restart
  BY <1>5, RestartDelivers DEF Delivery!Next
<1>6. CASE UNCHANGED vars
  BY <1>6, Quietly DEF vars, Held, Holds
<1> QED BY <1>1, <1>2, <1>3, <1>4, <1>5, <1>6 DEF Next

(* No step of the abstract specification takes a message back from the     *)
(* queue's memory, so a cancel that has seen its message finds it again.   *)
LEMMA KnownStays ==
  ASSUME TypeOK, TypeOK', CanceledIsKnown, Delivery!Next \/ UNCHANGED <<Place, Hand>>,
         [Next]_vars
  PROVE  CanceledIsKnown'
<1>1. \A i \in Items : Place[i] # "out" => Place'[i] # "out"
  <2>1. ASSUME NEW S, NEW to \in {"waiting", "taken", "settled"}, Delivery!Moves(S, to)
        PROVE  \A i \in Items : Place[i] # "out" => Place'[i] # "out"
    BY <2>1 DEF Delivery!Moves
  <2> QED BY <2>1 DEF Delivery!Next, Delivery!Submit, Delivery!Give, Delivery!Settle,
               Delivery!Cancel, Delivery!Take, Delivery!Drop, Delivery!Return, Delivery!Crash
<1>2. \A i \in Items : /\ Place[i] = "out" <=> store[i].status = "absent"
                       /\ Place'[i] = "out" <=> store'[i].status = "absent"
  BY DEF Place, PlaceOf
<1>3. \A i \in canceling' : i \in canceling \/ (i \in Items /\ Cancelable(store, i))
  <2>1. ASSUME NEW i \in Items, CancelCheck(i) \/ CancelWrite(i)
        PROVE  \A j \in canceling' : j \in canceling \/ (j \in Items /\ Cancelable(store, j))
    BY <2>1 DEF CancelCheck, CancelWrite
  <2>2. ASSUME NEW i \in Items,
               PostQueued(i) \/ PostRunBusy(i) \/ PostRunFree(i) \/ HandlerStep(i) \/ Age(i)
        PROVE  canceling' = canceling
    BY <2>2 DEF PostQueued, PostRunBusy, PostRunFree, HandlerStep, DoEnqueue, Recheck, Age
  <2>3. ASSUME NEW d \in Coroutines, CoroutineStep(d)
        PROVE  canceling' = canceling
    BY <2>3 DEF CoroutineStep, DoReset, DoList, Decide, DoRetarget, DoClaimAuto,
                DoClaimSteer, Start, DoMark, DoFail
  <2>4. ASSUME NEW r \in Runs, CellStep(r) \/ AbandonSteers(r) \/ Interrupted(r)
        PROVE  canceling' = canceling
    BY <2>4 DEF CellStep, CellBegins, StartTurn, ClaimSteers, MarkSteer, Complete, Unwind,
                SetDone, OnDone, AbandonSteers, Interrupted
  <2>5. ASSUME NEW r \in Runs, TaskStep(r)
        PROVE  canceling' = canceling
    BY <2>5 DEF TaskStep, BindTask, TaskStarts, TaskParks, TaskPauses, TaskEnds
  <2>6. CASE Restart
    BY <2>6 DEF Restart
  <2>7. CASE UNCHANGED vars
    BY <2>7 DEF vars
  <2> QED BY <2>1, <2>2, <2>3, <2>4, <2>5, <2>6, <2>7 DEF Next
<1>4. \A i \in canceling' : i \in Items /\ store[i].status # "absent"
  BY <1>3 DEF CanceledIsKnown, Cancelable, TypeOK
<1> QED BY <1>1, <1>2, <1>4 DEF CanceledIsKnown

(* The session implements InputDelivery.                                   *)
THEOREM Refinement ==
  ASSUME SlowClaims = FALSE
  PROVE  Spec => DeliversInputs
<1>1. Init => Delivery!Init /\ CanceledIsKnown
  <2> SUFFICES ASSUME Init PROVE Delivery!Init /\ CanceledIsKnown
    OBVIOUS
  <2>1. \A i \in Items : PlaceOf(i) = "out"
    BY DEF Init, EmptyStore, Absent, PlaceOf
  <2>2. \A i \in Items : HandOf(i) = "free"
    BY NoneIsNoReference DEF Init, HandOf, Given, Held, Holds, Idle, NoRun, HoldingPcs
  <2> QED BY <2>1, <2>2 DEF Init, Delivery!Init, Place, Hand, CanceledIsKnown
<1>2. TypeOK /\ ClaimInv /\ RunInv /\ SpawnedOnce /\ UnbornIsNew /\ CanceledIsKnown
        /\ [Next]_vars => [Delivery!Next]_<<Place, Hand>>
  BY DeliveryStep
<1>3. TypeOK /\ TypeOK' /\ ClaimInv /\ RunInv /\ SpawnedOnce /\ UnbornIsNew
        /\ CanceledIsKnown /\ [Next]_vars => CanceledIsKnown'
  BY DeliveryStep, KnownStays
<1> QED BY <1>1, <1>2, <1>3, TypeCorrect, ClaimInvariant, RunInvariant, SpawnInvariant,
           UnbornInvariant,
           PTL DEF Spec, DeliversInputs, Delivery!Spec
=============================================================================
