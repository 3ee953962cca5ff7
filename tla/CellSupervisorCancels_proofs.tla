------------------- MODULE CellSupervisorCancels_proofs -------------------
(***************************************************************************)
(* Proof that a cancel is not lost between a caller and the worker.        *)
(*                                                                         *)
(* The caller stores the request and then looks for the task, inside the   *)
(* cell's lock; the worker stores its task and then looks for the request. *)
(* A cell is pending when its work runs, a cancel has been requested and   *)
(* none has been delivered.  Only LockCell makes a cell pending, and its   *)
(* caller holds the lock until it has delivered the cancel.                *)
(***************************************************************************)
EXTENDS CellSupervisor_proofs

Pending(c) == cell[c].phase = "working" /\ cell[c].requested /\ ~cell[c].delivered

OnItsWay == {"read", "deliver"}

(* No cell in use is put back, and no delivery is taken back.              *)
Steady ==
  \A d \in Cells :
    cell[d].phase # "none" =>
      /\ cell'[d].phase # "none"
      /\ cell[d].delivered => cell'[d].delivered

(* A caller's step does nothing to the other callers.                      *)
LEMMA OthersStay ==
  ASSUME TypeOK, NEW k \in Callers, NEW q, Become(k, q)
  PROVE  caller'[k] = q /\ \A p \in Callers \ {k} : caller'[p] = caller[p]
BY DEF TypeOK, Become

LEMMA RestIsIdle ==
  ASSUME TypeOK, NEW k \in Callers
  PROVE  Rest(k).pc = "idle"
BY RestIsSound

LEMMA ReturnFacts ==
  ASSUME TypeOK, NEW k \in Callers, Return(k)
  PROVE  \E q : /\ Become(k, q) /\ q.pc \in {"idle", "supervise"}
                /\ lock' = [lock EXCEPT ![caller[k].cell] = None]
<1> DEFINE q == [caller[k] EXCEPT !.pc = "supervise", !.cell = None, !.back = "idle"]
<1>1. q.pc = "supervise"  BY DEF TypeOK, CallerRecords
<1>2. Become(k, q) \/ Become(k, Rest(k))  BY DEF Return
<1>3. lock' = [lock EXCEPT ![caller[k].cell] = None]  BY DEF Return
<1> HIDE DEF q
<1> QED BY <1>1, <1>2, <1>3, RestIsIdle

-----------------------------------------------------------------------------
(* The lock of a cell and the caller inside its request_cancel.            *)

LEMMA HeldOutside ==
  ASSUME TypeOK, LockHeldInside, Steady, NEW k \in Callers, NEW q, Become(k, q),
         lock' = lock, caller[k].pc \notin InsideCancel, q.pc \notin InsideCancel,
         q.pc = "lock" => q.cell \in Cells /\ cell[q.cell].phase # "none"
  PROVE  LockHeldInside'
<1>1. caller'[k] = q /\ \A p \in Callers \ {k} : caller'[p] = caller[p]
  BY OthersStay
<1>2. \A p \in Callers : caller[p].pc \in {"lock"} \cup InsideCancel => caller[p].cell \in Cells
  BY DEF TypeOK, InsideCancel
<1>3. \A c \in Cells : lock[c] = k => FALSE
  BY DEF LockHeldInside
<1> QED BY <1>1, <1>2, <1>3 DEF LockHeldInside, Steady

LEMMA HeldWithin ==
  ASSUME TypeOK, LockHeldInside, Steady, NEW k \in Callers, NEW q, Become(k, q),
         lock' = lock, caller[k].pc \in InsideCancel, q.pc \in InsideCancel,
         q.cell = caller[k].cell
  PROVE  LockHeldInside'
<1>1. caller'[k] = q /\ \A p \in Callers \ {k} : caller'[p] = caller[p]
  BY OthersStay
<1>2. \A p \in Callers : caller[p].pc \in {"lock"} \cup InsideCancel => caller[p].cell \in Cells
  BY DEF TypeOK, InsideCancel
<1> QED BY <1>1, <1>2 DEF LockHeldInside, Steady

LEMMA HeldGivenUp ==
  ASSUME TypeOK, LockHeldInside, Steady, NEW k \in Callers, NEW q, Become(k, q),
         lock' = [lock EXCEPT ![caller[k].cell] = None],
         caller[k].pc \in InsideCancel, q.pc \in {"idle", "supervise"}
  PROVE  LockHeldInside'
<1>1. caller'[k] = q /\ \A p \in Callers \ {k} : caller'[p] = caller[p]
  BY OthersStay
<1>2. \A p \in Callers : caller[p].pc \in {"lock"} \cup InsideCancel => caller[p].cell \in Cells
  BY DEF TypeOK, InsideCancel
<1>3. /\ caller[k].cell \in Cells /\ lock[caller[k].cell] = k
      /\ \A c \in Cells : lock[c] = k => c = caller[k].cell
  BY <1>2 DEF LockHeldInside
<1>4. /\ lock'[caller[k].cell] = None
      /\ \A c \in Cells \ {caller[k].cell} : lock'[c] = lock[c]
  BY <1>3 DEF TypeOK
<1>5. None \notin Callers  BY NoneIsNoName
<1>6. \A c \in Cells : lock'[c] # k
  BY <1>3, <1>4, <1>5
<1>7. \A p \in Callers \ {k}, c \in Cells : lock'[c] = p <=> lock[c] = p
  BY <1>3, <1>4, <1>5
<1>8. q.pc \notin {"lock"} \cup InsideCancel  BY DEF InsideCancel
<1> QED BY <1>1, <1>2, <1>6, <1>7, <1>8 DEF LockHeldInside, Steady

LEMMA HeldTaken ==
  ASSUME TypeOK, LockHeldInside, NEW k \in Callers, LockCell(k), Steady
  PROVE  LockHeldInside'
<1> DEFINE c == caller[k].cell
           q == [caller[k] EXCEPT !.pc = "read"]
<1>1. c \in Cells /\ caller[k].pc = "lock"  BY DEF LockCell, TypeOK
<1>2. q.pc = "read" /\ q.cell = c  BY DEF TypeOK, CallerRecords
<1>3. Become(k, q)  BY DEF LockCell
<1> HIDE DEF q
<1>4. caller'[k] = q /\ \A p \in Callers \ {k} : caller'[p] = caller[p]
  BY <1>3, OthersStay
<1>5. lock'[c] = k /\ \A d \in Cells \ {c} : lock'[d] = lock[d]
  BY <1>1 DEF LockCell, TypeOK
<1>6. lock[c] = None /\ None \notin Callers  BY NoneIsNoName DEF LockCell
<1>7. \A p \in Callers : caller[p].pc \in {"lock"} \cup InsideCancel => caller[p].cell \in Cells
  BY DEF TypeOK, InsideCancel
<1>8. \A d \in Cells : lock[d] # k  BY <1>1 DEF LockHeldInside, InsideCancel
<1>9. \A p \in Callers \ {k}, d \in Cells : lock'[d] = p <=> lock[d] = p
  BY <1>5, <1>6
<1>10. cell'[c].phase # "none"  BY <1>1 DEF LockHeldInside, Steady
<1>11. \A d \in Cells : lock'[d] = k <=> d = c  BY <1>1, <1>5, <1>8
<1> QED BY <1>1, <1>2, <1>4, <1>7, <1>9, <1>10, <1>11 DEF LockHeldInside, Steady, InsideCancel

-----------------------------------------------------------------------------
(* The caller that has still to deliver.                                   *)

LEMMA WayKept ==
  ASSUME TypeOK, LockHeldInside, CancelOnItsWay, Steady,
         NEW k \in Callers, NEW q, Become(k, q),
         q.pc = "post" => /\ q.cell \in Cells /\ cell'[q.cell].delivered,
         \A c \in Cells : Pending(c)' =>
           \/ lock'[c] = k /\ q.pc \in OnItsWay
           \/ /\ Pending(c) /\ lock'[c] = lock[c]
              /\ ~(lock[c] = k /\ caller[k].pc \in OnItsWay)
  PROVE  CancelOnItsWay'
<1>1. caller'[k] = q /\ \A p \in Callers \ {k} : caller'[p] = caller[p]
  BY OthersStay
<1>2. \A p \in Callers : caller[p].pc = "post" =>
        caller[p].cell \in Cells /\ cell[caller[p].cell].phase # "none"
  BY DEF TypeOK, LockHeldInside, InsideCancel
<1>3. ASSUME NEW p \in Callers, caller'[p].pc = "post"
      PROVE  cell'[caller'[p].cell].delivered
  <2>1. CASE p = k  BY <1>1, <1>3, <2>1
  <2>2. CASE p # k  BY <1>1, <1>2, <1>3, <2>2 DEF CancelOnItsWay, Steady
  <2> QED BY <2>1, <2>2
<1>4. ASSUME NEW c \in Cells, Pending(c)'
      PROVE  \E p \in Callers : lock'[c] = p /\ caller'[p].pc \in OnItsWay
  <2>1. CASE lock'[c] = k /\ q.pc \in OnItsWay  BY <1>1, <2>1
  <2>2. CASE /\ Pending(c) /\ lock'[c] = lock[c]
             /\ ~(lock[c] = k /\ caller[k].pc \in OnItsWay)
    <3>1. PICK p \in Callers : lock[c] = p /\ caller[p].pc \in OnItsWay
      BY <2>2 DEF CancelOnItsWay, Pending, OnItsWay
    <3> QED BY <1>1, <2>2, <3>1
  <2> QED BY <1>4, <2>1, <2>2
<1> QED BY <1>3, <1>4 DEF CancelOnItsWay, Pending, OnItsWay

(* A step of a caller outside request_cancel that keeps locks and cells.   *)
LEMMA OutsideKeeps ==
  ASSUME TypeOK, LockHeldInside, CancelOnItsWay,
         NEW k \in Callers, NEW q, Become(k, q), lock' = lock, cell' = cell,
         caller[k].pc \notin InsideCancel, q.pc \notin InsideCancel,
         q.pc = "lock" => q.cell \in Cells /\ cell[q.cell].phase # "none"
  PROVE  LockHeldInside' /\ CancelOnItsWay'
<1>1. Steady  BY DEF Steady
<1>2. LockHeldInside'  BY <1>1, HeldOutside
<1>3. \A c \in Cells : Pending(c)' => Pending(c)  BY DEF Pending
<1>4. caller[k].pc \notin OnItsWay /\ q.pc # "post"  BY DEF OnItsWay, InsideCancel
<1>5. CancelOnItsWay'  BY <1>1, <1>3, <1>4, WayKept
<1> QED BY <1>2, <1>5

LEMMA CallerKeepsWay ==
  ASSUME TypeOK, RunningIsMapped, LockHeldInside, CancelOnItsWay,
         NEW k \in Callers, CallerStep(k)
  PROVE  LockHeldInside' /\ CancelOnItsWay'
<1>0. caller[k] \in CallerRecords /\ cell \in [Cells -> CellRecords]  BY DEF TypeOK
<1>1. CASE Enter(k)
  <2> DEFINE q == [caller[k] EXCEPT !.pc = "supervise", !.todo = {c \in Cells : Running(c)}]
  <2>1. q.pc = "supervise"  BY <1>0 DEF CallerRecords
  <2>2. Become(k, q) /\ lock' = lock /\ cell' = cell /\ caller[k].pc = "enter"
    BY <1>1 DEF Enter
  <2> HIDE DEF q
  <2> QED BY <2>1, <2>2, OutsideKeeps DEF InsideCancel
<1>2. CASE Supervise(k)
  <2>1. PICK c \in caller[k].todo :
          LET rest == [caller[k] EXCEPT !.todo = @ \ {c}]
          IN  IF ToBeCancelled(c)
              THEN Become(k, [rest EXCEPT !.pc = "lock", !.cell = c, !.back = "supervise"])
              ELSE Become(k, rest)
    BY <1>2 DEF Supervise
  <2> DEFINE rest == [caller[k] EXCEPT !.todo = @ \ {c}]
             q == [rest EXCEPT !.pc = "lock", !.cell = c, !.back = "supervise"]
  <2>2. caller[k].pc = "supervise" /\ lock' = lock /\ cell' = cell /\ c \in Cells
    BY <1>0, <1>2 DEF Supervise, CallerRecords
  <2>3. rest.pc = "supervise" /\ rest \in CallerRecords
    BY <1>0, <2>2 DEF CallerRecords
  <2>4. \/ ToBeCancelled(c) /\ Become(k, q)
        \/ Become(k, rest)
    BY <2>1
  <2> HIDE DEF rest
  <2>5. q.pc = "lock" /\ q.cell = c  BY <2>3 DEF CallerRecords
  <2> HIDE DEF q
  <2>6. ToBeCancelled(c) => cell[c].phase # "none"
    BY DEF ToBeCancelled, Running, RunningPhases
  <2>7. CASE Become(k, rest)
    BY <2>2, <2>3, <2>7, OutsideKeeps DEF InsideCancel
  <2>8. CASE ToBeCancelled(c) /\ Become(k, q)
    BY <2>2, <2>5, <2>6, <2>8, OutsideKeeps DEF InsideCancel
  <2> QED BY <2>4, <2>7, <2>8
<1>3. CASE Reject(k) \/ StartFails(k) \/ FailJob(k)
  <2> DEFINE q == [caller[k] EXCEPT !.pc = "failing"]
  <2>1. q.pc = "failing"  BY <1>0 DEF CallerRecords
  <2>2. /\ Become(k, q) \/ Become(k, Rest(k))
        /\ lock' = lock /\ cell' = cell /\ caller[k].pc \in {"supervise", "failing"}
    BY <1>3 DEF Reject, StartFails, FailJob
  <2> HIDE DEF q
  <2> QED BY <2>1, <2>2, RestIsIdle, OutsideKeeps DEF InsideCancel
<1>4. CASE Admit(k)
  <2>1. PICK c \in Cells :
          /\ cell[c].phase = "none"
          /\ cell'[c].phase = "starting"
          /\ \A d \in Cells \ {c} : cell'[d] = cell[d]
    BY <1>4, AdmitFacts
  <2>2. /\ Become(k, Rest(k)) /\ lock' = lock /\ caller[k].pc = "supervise"
        /\ Rest(k).pc = "idle"
    BY <1>4, RestIsIdle DEF Admit
  <2>3. Steady  BY <2>1 DEF Steady
  <2>4. LockHeldInside'  BY <2>2, <2>3, HeldOutside DEF InsideCancel
  <2>5. \A d \in Cells : Pending(d)' => Pending(d)  BY <2>1 DEF Pending
  <2>6. CancelOnItsWay'  BY <2>2, <2>3, <2>5, WayKept DEF OnItsWay
  <2> QED BY <2>4, <2>6
<1>5. CASE LockCell(k)
  <2> DEFINE c == caller[k].cell
             q == [caller[k] EXCEPT !.pc = "read"]
             x == [cell[c] EXCEPT !.status = "cancel_requested", !.requested = TRUE]
  <2>1. c \in Cells /\ cell[c] \in CellRecords  BY <1>5 DEF LockCell, TypeOK
  <2>2. q.pc = "read" /\ q.cell = c  BY <1>0 DEF CallerRecords
  <2>3. x.phase = cell[c].phase /\ x.delivered = cell[c].delivered
    BY <2>1 DEF CellRecords
  <2>4. /\ Become(k, q) /\ cell' = [cell EXCEPT ![c] = x]
        /\ lock' = [lock EXCEPT ![c] = k]
    BY <1>5 DEF LockCell
  <2> HIDE DEF q, x
  <2>5. cell'[c] = x /\ \A d \in Cells \ {c} : cell'[d] = cell[d]
    BY <1>0, <2>1, <2>4
  <2>6. Steady  BY <2>1, <2>3, <2>5 DEF Steady
  <2>7. lock'[c] = k /\ \A d \in Cells \ {c} : lock'[d] = lock[d]
    BY <2>1, <2>4 DEF TypeOK
  <2>8. caller[k].pc \notin OnItsWay  BY <1>5 DEF LockCell, OnItsWay
  <2>9. \A d \in Cells \ {c} : Pending(d)' => Pending(d)  BY <2>5 DEF Pending
  <2>10. CancelOnItsWay'
    BY <2>2, <2>4, <2>6, <2>7, <2>8, <2>9, WayKept DEF OnItsWay
  <2> QED BY <1>5, <2>6, <2>10, HeldTaken
<1>6. CASE ReadTask(k)
  <2> DEFINE c == caller[k].cell
             q == [caller[k] EXCEPT !.pc = "deliver"]
  <2>1. c \in Cells /\ caller[k].pc = "read" /\ cell' = cell
    BY <1>6 DEF ReadTask, TypeOK
  <2>2. q.pc = "deliver" /\ q.cell = c  BY <1>0 DEF CallerRecords
  <2>3. Steady  BY <2>1 DEF Steady
  <2>4. lock[c] = k /\ \A d \in Cells : lock[d] = k => d = c
    BY <2>1 DEF LockHeldInside, InsideCancel
  <2>5. \A d \in Cells : Pending(d)' => Pending(d)  BY <2>1 DEF Pending
  <2>6. CASE Become(k, q) /\ lock' = lock
    <3> HIDE DEF q
    <3>1. LockHeldInside'
      BY <2>1, <2>2, <2>3, <2>6, HeldWithin DEF InsideCancel
    <3>2. \A d \in Cells : Pending(d)' =>
            \/ lock'[d] = k /\ q.pc \in OnItsWay
            \/ /\ Pending(d) /\ lock'[d] = lock[d]
               /\ ~(lock[d] = k /\ caller[k].pc \in OnItsWay)
      BY <2>2, <2>5, <2>6 DEF OnItsWay
    <3>3. CancelOnItsWay'  BY <2>2, <2>3, <2>6, <3>2, WayKept
    <3> QED BY <3>1, <3>3
  <2>7. CASE Return(k) /\ cell[c].phase \notin {"ready", "working"}
    <3>1. PICK r : /\ Become(k, r) /\ r.pc \in {"idle", "supervise"}
                   /\ lock' = [lock EXCEPT ![c] = None]
      BY <2>7, ReturnFacts
    <3>2. LockHeldInside'
      BY <2>1, <2>3, <3>1, HeldGivenUp DEF InsideCancel
    <3>3. \A d \in Cells \ {c} : lock'[d] = lock[d] /\ lock[d] # k
      BY <2>1, <2>4, <3>1 DEF TypeOK
    <3>4. ~Pending(c)  BY <2>7 DEF Pending
    <3>5. CancelOnItsWay'
      BY <2>3, <2>5, <3>1, <3>3, <3>4, WayKept
    <3> QED BY <3>2, <3>5
  <2> QED BY <1>6, <2>6, <2>7 DEF ReadTask
<1>7. CASE Deliver(k)
  <2> DEFINE c == caller[k].cell
             q == [caller[k] EXCEPT !.pc = "post"]
             x == [cell[c] EXCEPT !.delivered = TRUE]
  <2>1. c \in Cells /\ cell[c] \in CellRecords /\ caller[k].pc = "deliver" /\ lock' = lock
    BY <1>7 DEF Deliver, TypeOK
  <2>2. q.pc = "post" /\ q.cell = c  BY <1>0 DEF CallerRecords
  <2>3. x.phase = cell[c].phase /\ x.delivered  BY <2>1 DEF CellRecords
  <2>4. Become(k, q) /\ cell' = [cell EXCEPT ![c] = x]  BY <1>7 DEF Deliver
  <2> HIDE DEF q, x
  <2>5. cell'[c] = x /\ \A d \in Cells \ {c} : cell'[d] = cell[d]
    BY <1>0, <2>1, <2>4
  <2>6. Steady  BY <2>1, <2>3, <2>5 DEF Steady
  <2>7. LockHeldInside'  BY <2>1, <2>2, <2>4, <2>6, HeldWithin DEF InsideCancel
  <2>8. \A d \in Cells : Pending(d)' => d # c /\ Pending(d)  BY <2>3, <2>5 DEF Pending
  <2>9. \A d \in Cells : lock[d] = k => d = c
    BY <2>1 DEF LockHeldInside, InsideCancel
  <2>10. CancelOnItsWay'
    BY <2>1, <2>2, <2>3, <2>4, <2>5, <2>6, <2>8, <2>9, WayKept
  <2> QED BY <2>7, <2>10
<1>8. CASE Post(k)
  <2> DEFINE c == caller[k].cell
             x == [cell[c] EXCEPT !.posted = TRUE]
  <2>1. c \in Cells /\ cell[c] \in CellRecords /\ caller[k].pc = "post"
    BY <1>8 DEF Post, TypeOK
  <2>2. x.phase = cell[c].phase /\ x.delivered = cell[c].delivered
    BY <2>1 DEF CellRecords
  <2>3. cell' = [cell EXCEPT ![c] = x]  BY <1>8 DEF Post
  <2> HIDE DEF x
  <2>4. cell'[c] = x /\ \A d \in Cells \ {c} : cell'[d] = cell[d]
    BY <1>0, <2>1, <2>3
  <2>5. Steady  BY <2>1, <2>2, <2>4 DEF Steady
  <2>6. PICK r : /\ Become(k, r) /\ r.pc \in {"idle", "supervise"}
                 /\ lock' = [lock EXCEPT ![c] = None]
    BY <1>8, ReturnFacts DEF Post
  <2>7. LockHeldInside'  BY <2>1, <2>5, <2>6, HeldGivenUp DEF InsideCancel
  <2>8. cell[c].delivered  BY <2>1 DEF CancelOnItsWay
  <2>9. \A d \in Cells : Pending(d)' => d # c /\ Pending(d) /\ lock'[d] = lock[d]
    BY <2>1, <2>2, <2>4, <2>6, <2>8 DEF TypeOK, Pending
  <2>10. caller[k].pc \notin OnItsWay  BY <2>1 DEF OnItsWay
  <2>11. CancelOnItsWay'  BY <2>5, <2>6, <2>9, <2>10, WayKept
  <2> QED BY <2>7, <2>11
<1>9. CASE PostRaises(k)
  <2> DEFINE c == caller[k].cell
  <2>1. /\ c \in Cells /\ caller[k].pc = "post" /\ cell' = cell
        /\ Become(k, Rest(k)) /\ Rest(k).pc = "idle"
        /\ lock' = [lock EXCEPT ![c] = None]
    BY <1>9, RestIsIdle DEF PostRaises, TypeOK
  <2>2. Steady  BY <2>1 DEF Steady
  <2>3. LockHeldInside'  BY <2>1, <2>2, HeldGivenUp DEF InsideCancel
  <2>4. cell[c].delivered  BY <2>1 DEF CancelOnItsWay
  <2>5. \A d \in Cells : Pending(d)' => Pending(d) /\ lock'[d] = lock[d]
    BY <2>1, <2>4 DEF TypeOK, Pending
  <2>6. caller[k].pc \notin OnItsWay  BY <2>1 DEF OnItsWay
  <2>7. CancelOnItsWay'  BY <2>1, <2>2, <2>5, <2>6, WayKept
  <2> QED BY <2>3, <2>7
<1> QED BY <1>1, <1>2, <1>3, <1>4, <1>5, <1>6, <1>7, <1>8, <1>9 DEF CallerStep

LEMMA WorkerKeepsWay ==
  ASSUME TypeOK, LockHeldInside, CancelOnItsWay, NEW c \in Cells, WorkerStep(c)
  PROVE  LockHeldInside' /\ CancelOnItsWay'
<1>1. /\ Steady /\ lock' = lock /\ caller' = caller
      /\ \A d \in Cells : Pending(d)' => Pending(d)
  BY WorkerMoves DEF Steady, Pending, RunningPhases
<1>2. \A k \in Callers : caller[k].pc \in {"lock"} \cup InsideCancel => caller[k].cell \in Cells
  BY DEF TypeOK, InsideCancel
<1>3. LockHeldInside'  BY <1>1, <1>2 DEF LockHeldInside, Steady
<1>4. \A k \in Callers : caller[k].pc = "post" => cell'[caller[k].cell].delivered
  BY <1>1, <1>2 DEF LockHeldInside, Steady, CancelOnItsWay, InsideCancel
<1>5. \A d \in Cells : Pending(d)' =>
        \E k \in Callers : lock[d] = k /\ caller[k].pc \in OnItsWay
  BY <1>1 DEF CancelOnItsWay, Pending, OnItsWay
<1>6. CancelOnItsWay'  BY <1>1, <1>4, <1>5 DEF CancelOnItsWay, Pending, OnItsWay
<1> QED BY <1>3, <1>6

LEMMA StepKeepsWay ==
  ASSUME TypeOK, RunningIsMapped, LockHeldInside, CancelOnItsWay, [Next]_vars
  PROVE  LockHeldInside' /\ CancelOnItsWay'
<1>1. ASSUME NEW k \in Callers, NEW j \in Jobs, Schedule(k, j)
      PROVE  LockHeldInside' /\ CancelOnItsWay'
  <2> DEFINE q == [Resting EXCEPT !.pc = "enter", !.job = j, !.calls = caller[k].calls + 1]
  <2>1. q.pc = "enter"  BY DEF Resting
  <2>2. Become(k, q) /\ lock' = lock /\ cell' = cell /\ caller[k].pc = "idle"
    BY <1>1 DEF Schedule
  <2> HIDE DEF q
  <2> QED BY <2>1, <2>2, OutsideKeeps DEF InsideCancel
<1>2. ASSUME NEW k \in Callers, NEW c \in Cells, Cancel(k, c)
      PROVE  LockHeldInside' /\ CancelOnItsWay'
  <2> DEFINE q == [Resting EXCEPT !.pc = "lock", !.cell = c, !.calls = caller[k].calls + 1]
  <2>1. q.pc = "lock" /\ q.cell = c  BY DEF Resting
  <2>2. /\ Become(k, q) /\ lock' = lock /\ cell' = cell /\ caller[k].pc = "idle"
        /\ cell[c].phase # "none"
    BY <1>2 DEF Cancel, ActiveCell, Running, RunningPhases
  <2> HIDE DEF q
  <2> QED BY <2>1, <2>2, OutsideKeeps DEF InsideCancel
<1>3. CASE UNCHANGED <<cell, lock, caller>>
  BY <1>3 DEF LockHeldInside, CancelOnItsWay
<1> QED BY <1>1, <1>2, <1>3, CallerKeepsWay, WorkerKeepsWay DEF Next, vars, EndJob

(* A cancel that meets the worker between storing its task and looking for *)
(* a cancel is delivered by one of the two: work that runs on after its    *)
(* cell's lock is free again has had every requested cancel delivered.     *)
THEOREM NoCancelLost == Spec => []CancelNotLost
<1>1. Init => LockHeldInside /\ CancelOnItsWay
  BY NoneIsNoName
     DEF Init, LockHeldInside, CancelOnItsWay, InsideCancel, NoCell, Resting
<1>2. /\ TypeOK /\ RunningIsMapped /\ LockHeldInside /\ CancelOnItsWay /\ [Next]_vars
      => LockHeldInside' /\ CancelOnItsWay'
  BY StepKeepsWay
<1>3. LockHeldInside /\ CancelOnItsWay => CancelNotLost
  BY NoneIsNoName DEF CancelOnItsWay, CancelNotLost
<1> QED BY <1>1, <1>2, <1>3, SupervisorTypeCorrect, RunningCellsAreMapped, PTL DEF Spec
============================================================================
