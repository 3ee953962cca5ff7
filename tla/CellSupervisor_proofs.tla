----------------------- MODULE CellSupervisor_proofs -----------------------
(***************************************************************************)
(* Proofs about the supervisor and its cells, for any number of cells,     *)
(* jobs and threads: type correctness, and that the supervisor executes no *)
(* job twice, lets primary work take turns and keeps its ceiling.          *)
(***************************************************************************)
EXTENDS CellSupervisor, FiniteSetTheorems, TLAPS

-----------------------------------------------------------------------------
(* Type correctness.                                                       *)

(* A caller's and a cell's record are sound: of the right type, and on a   *)
(* job or a cell when they need one.                                       *)
SoundCaller(q) ==
  /\ q \in CallerRecords
  /\ q.pc \in {"enter", "supervise", "failing"} \/ q.back = "supervise"
       => q.job \in Jobs
  /\ q.pc \in {"lock", "read", "deliver", "post"} => q.cell \in Cells

SoundCell(x) == x \in CellRecords /\ (x.phase # "none" => x.job \in Jobs)

LEMMA TypeIsSound ==
  TypeOK <=> /\ cell \in [Cells -> CellRecords]
             /\ map \in [Jobs -> Cells \cup {None}]
             /\ sup \in Callers \cup {None}
             /\ lock \in [Cells -> Callers \cup {None}]
             /\ terminal \subseteq Jobs
             /\ caller \in [Callers -> CallerRecords]
             /\ \A c \in Cells : SoundCell(cell[c])
             /\ \A k \in Callers : SoundCaller(caller[k])
BY DEF TypeOK, SoundCaller, SoundCell

LEMMA CallerMoves ==
  ASSUME TypeOK, NEW k \in Callers, NEW q, SoundCaller(q), Become(k, q)
  PROVE  /\ caller' \in [Callers -> CallerRecords]
         /\ \A p \in Callers : SoundCaller(caller'[p])
BY TypeIsSound DEF Become, SoundCaller

LEMMA CellMoves ==
  ASSUME TypeOK, NEW c \in Cells, NEW x, SoundCell(x),
         cell' = [cell EXCEPT ![c] = x]
  PROVE  /\ cell' \in [Cells -> CellRecords]
         /\ \A d \in Cells : SoundCell(cell'[d])
BY TypeIsSound DEF SoundCell

LEMMA RestingType == Resting \in CallerRecords /\ Resting.back = "idle"
BY CellBounds DEF Resting, CallerRecords

LEMMA RestIsSound ==
  ASSUME TypeOK, NEW k \in Callers
  PROVE  /\ SoundCaller(Rest(k))
         /\ Rest(k) = [pc |-> "idle", job |-> None, cell |-> None, todo |-> {},
                       back |-> "idle", calls |-> caller[k].calls]
<1>1. caller[k].calls \in 0 .. MaxCalls  BY DEF TypeOK, CallerRecords
<1>2. Rest(k) = [pc |-> "idle", job |-> None, cell |-> None, todo |-> {},
                 back |-> "idle", calls |-> caller[k].calls]
  BY DEF Rest, Resting
<1>3. SoundCaller(Rest(k))
  BY <1>1, <1>2 DEF SoundCaller, CallerRecords
<1> QED BY <1>2, <1>3

LEMMA InitType == Init => TypeOK
<1> SUFFICES ASSUME Init PROVE TypeOK
  OBVIOUS
<1>1. SoundCell(NoCell)  BY DEF SoundCell, NoCell, CellRecords, Phases, RunningPhases
<1>2. SoundCaller(Resting)
  BY CellBounds DEF SoundCaller, Resting, CallerRecords
<1>3. \A c \in Cells : SoundCell(cell[c])  BY <1>1 DEF Init
<1>4. \A k \in Callers : SoundCaller(caller[k])  BY <1>2 DEF Init
<1> QED BY <1>3, <1>4, <1>1, <1>2, TypeIsSound DEF Init, SoundCell, SoundCaller

LEMMA ReturnType ==
  ASSUME TypeOK, NEW k \in Callers, Return(k), caller[k].cell \in Cells
  PROVE  /\ lock' \in [Cells -> Callers \cup {None}]
         /\ caller' \in [Callers -> CallerRecords]
         /\ \A p \in Callers : SoundCaller(caller'[p])
<1> DEFINE q == [caller[k] EXCEPT !.pc = "supervise", !.cell = None, !.back = "idle"]
<1>0. SoundCaller(caller[k])  BY TypeIsSound
<1>1. lock' \in [Cells -> Callers \cup {None}]  BY DEF Return, TypeOK
<1>2. CASE caller[k].back = "supervise"
  <2>1. SoundCaller(q)  BY <1>0, <1>2 DEF SoundCaller, CallerRecords
  <2>2. Become(k, q)  BY <1>2 DEF Return
  <2> QED BY <1>1, <2>1, <2>2, CallerMoves
<1>3. CASE caller[k].back # "supervise"
  BY <1>1, <1>3, RestIsSound, CallerMoves DEF Return
<1> QED BY <1>2, <1>3

LEMMA ScheduleType ==
  ASSUME TypeOK, NEW k \in Callers, NEW j \in Jobs, Schedule(k, j)
  PROVE  TypeOK'
<1> DEFINE q == [Resting EXCEPT !.pc = "enter", !.job = j, !.calls = caller[k].calls + 1]
<1>1. caller[k].calls + 1 \in 0 .. MaxCalls
  BY CellBounds DEF Schedule, TypeOK, CallerRecords
<1>2. Resting \in CallerRecords /\ Resting.back = "idle"  BY RestingType
<1>3. SoundCaller(q)  BY <1>1, <1>2 DEF SoundCaller, CallerRecords
<1>4. Become(k, q)  BY DEF Schedule
<1> HIDE DEF q
<1> QED BY <1>3, <1>4, CallerMoves, TypeIsSound DEF Schedule, TypeOK, SoundCaller

LEMMA CancelType ==
  ASSUME TypeOK, NEW k \in Callers, NEW c \in Cells, Cancel(k, c)
  PROVE  TypeOK'
<1> DEFINE q == [Resting EXCEPT !.pc = "lock", !.cell = c, !.calls = caller[k].calls + 1]
<1>1. caller[k].calls + 1 \in 0 .. MaxCalls
  BY CellBounds DEF Cancel, TypeOK, CallerRecords
<1>2. Resting \in CallerRecords /\ Resting.back = "idle"  BY RestingType
<1>3. SoundCaller(q)  BY <1>1, <1>2 DEF SoundCaller, CallerRecords
<1>4. Become(k, q)  BY DEF Cancel
<1> HIDE DEF q
<1> QED BY <1>3, <1>4, CallerMoves DEF Cancel, TypeOK, SoundCaller

LEMMA CallerType ==
  ASSUME TypeOK, NEW k \in Callers, CallerStep(k)
  PROVE  TypeOK'
<1>0. SoundCaller(caller[k]) /\ SoundCaller(Rest(k))  BY TypeIsSound, RestIsSound
<1>1. CASE Enter(k)
  <2> DEFINE q == [caller[k] EXCEPT !.pc = "supervise", !.todo = {c \in Cells : Running(c)}]
  <2>1. SoundCaller(q)  BY <1>0, <1>1 DEF Enter, SoundCaller, CallerRecords
  <2>2. Become(k, q)  BY <1>1 DEF Enter
  <2> HIDE DEF q
  <2> QED BY <1>1, <2>1, <2>2, CallerMoves DEF Enter, TypeOK, SoundCaller
<1>2. CASE Supervise(k)
  <2>1. PICK c \in caller[k].todo :
          LET rest == [caller[k] EXCEPT !.todo = @ \ {c}]
          IN  IF ToBeCancelled(c)
              THEN Become(k, [rest EXCEPT !.pc = "lock", !.cell = c, !.back = "supervise"])
              ELSE Become(k, rest)
    BY <1>2 DEF Supervise
  <2> DEFINE rest == [caller[k] EXCEPT !.todo = @ \ {c}]
             q == [rest EXCEPT !.pc = "lock", !.cell = c, !.back = "supervise"]
  <2>2. c \in Cells  BY <1>0 DEF SoundCaller, CallerRecords
  <2>3. SoundCaller(rest) /\ rest.job \in Jobs
    BY <1>0, <1>2 DEF Supervise, SoundCaller, CallerRecords
  <2>4. Become(k, q) \/ Become(k, rest)  BY <2>1
  <2> HIDE DEF rest
  <2>5. SoundCaller(q)  BY <2>2, <2>3 DEF SoundCaller, CallerRecords
  <2> HIDE DEF q
  <2> QED BY <1>2, <2>3, <2>4, <2>5, CallerMoves DEF Supervise, TypeOK, SoundCaller
<1>3. CASE Reject(k)
  <2> DEFINE q == [caller[k] EXCEPT !.pc = "failing"]
  <2>1. SoundCaller(q)  BY <1>0, <1>3 DEF Reject, SoundCaller, CallerRecords
  <2>2. Become(k, q) \/ Become(k, Rest(k))  BY <1>3 DEF Reject
  <2> HIDE DEF q
  <2> QED BY <1>0, <1>3, <2>1, <2>2, CallerMoves DEF Reject, TypeOK, SoundCaller
<1>4. CASE Admit(k)
  <2>1. PICK c \in Unused :
          /\ cell' = [cell EXCEPT ![c] = [NoCell EXCEPT
               !.job = caller[k].job, !.phase = "starting", !.status = "running"]]
          /\ map' = [map EXCEPT ![caller[k].job] = c]
    BY <1>4 DEF Admit
  <2> DEFINE x == [NoCell EXCEPT
               !.job = caller[k].job, !.phase = "starting", !.status = "running"]
  <2>2. c \in Cells /\ caller[k].job \in Jobs
    BY <1>0, <1>4 DEF Admit, SoundCaller, Unused
  <2>3. NoCell \in CellRecords  BY DEF NoCell, CellRecords, Phases, RunningPhases
  <2>4. SoundCell(x)
    BY <2>2, <2>3 DEF SoundCell, CellRecords, Phases, RunningPhases
  <2>5. cell' = [cell EXCEPT ![c] = x]  BY <2>1
  <2> HIDE DEF x
  <2>6. /\ cell' \in [Cells -> CellRecords] /\ \A d \in Cells : SoundCell(cell'[d])
    BY <2>2, <2>4, <2>5, CellMoves
  <2>7. map' \in [Jobs -> Cells \cup {None}]  BY <2>1, <2>2 DEF TypeOK
  <2> QED BY <1>0, <1>4, <2>6, <2>7, CallerMoves DEF Admit, TypeOK, SoundCaller, SoundCell
<1>5. CASE StartFails(k)
  <2> DEFINE q == [caller[k] EXCEPT !.pc = "failing"]
  <2>1. SoundCaller(q)  BY <1>0, <1>5 DEF StartFails, SoundCaller, CallerRecords
  <2>2. Become(k, q)  BY <1>5 DEF StartFails
  <2>3. map' \in [Jobs -> Cells \cup {None}]  BY <1>5 DEF StartFails, TypeOK
  <2> HIDE DEF q
  <2> QED BY <1>5, <2>1, <2>2, <2>3, CallerMoves DEF StartFails, TypeOK, SoundCaller
<1>6. CASE FailJob(k)
  <2>1. caller[k].job \in Jobs  BY <1>0, <1>6 DEF FailJob, SoundCaller
  <2> QED BY <1>0, <1>6, <2>1, CallerMoves DEF FailJob, TypeOK, SoundCaller
<1>7. CASE LockCell(k)
  <2> DEFINE q == [caller[k] EXCEPT !.pc = "read"]
             c == caller[k].cell
             x == [cell[c] EXCEPT !.status = "cancel_requested", !.requested = TRUE]
  <2>1. c \in Cells /\ SoundCell(cell[c])
    BY <1>0, <1>7, TypeIsSound DEF LockCell, SoundCaller
  <2>2. SoundCaller(q)  BY <1>0, <1>7, <2>1 DEF LockCell, SoundCaller, CallerRecords
  <2>3. SoundCell(x)  BY <2>1 DEF SoundCell, CellRecords
  <2>4. Become(k, q) /\ cell' = [cell EXCEPT ![c] = x]  BY <1>7 DEF LockCell
  <2>5. lock' \in [Cells -> Callers \cup {None}]  BY <1>7, <2>1 DEF LockCell, TypeOK
  <2> HIDE DEF q, x
  <2> QED BY <1>7, <2>1, <2>2, <2>3, <2>4, <2>5, CallerMoves, CellMoves
          DEF LockCell, TypeOK, SoundCaller, SoundCell
<1>8. CASE ReadTask(k)
  <2> DEFINE q == [caller[k] EXCEPT !.pc = "deliver"]
  <2>1. caller[k].cell \in Cells  BY <1>0, <1>8 DEF ReadTask, SoundCaller
  <2>2. SoundCaller(q)  BY <1>0, <1>8, <2>1 DEF ReadTask, SoundCaller, CallerRecords
  <2>3. Return(k) \/ (Become(k, q) /\ UNCHANGED lock)  BY <1>8 DEF ReadTask
  <2> HIDE DEF q
  <2>4. /\ lock' \in [Cells -> Callers \cup {None}]
        /\ caller' \in [Callers -> CallerRecords]
        /\ \A p \in Callers : SoundCaller(caller'[p])
    <3>1. CASE Return(k)  BY <2>1, <3>1, ReturnType
    <3>2. CASE Become(k, q) /\ UNCHANGED lock
      BY <2>2, <3>2, CallerMoves DEF TypeOK
    <3> QED BY <2>3, <3>1, <3>2
  <2> QED BY <1>8, <2>4 DEF ReadTask, TypeOK, SoundCaller
<1>9. CASE Deliver(k)
  <2> DEFINE q == [caller[k] EXCEPT !.pc = "post"]
             c == caller[k].cell
             x == [cell[c] EXCEPT !.delivered = TRUE]
  <2>1. c \in Cells /\ SoundCell(cell[c])
    BY <1>0, <1>9, TypeIsSound DEF Deliver, SoundCaller
  <2>2. SoundCaller(q)  BY <1>0, <1>9, <2>1 DEF Deliver, SoundCaller, CallerRecords
  <2>3. SoundCell(x)  BY <2>1 DEF SoundCell, CellRecords
  <2>4. Become(k, q) /\ cell' = [cell EXCEPT ![c] = x]  BY <1>9 DEF Deliver
  <2> HIDE DEF q, x
  <2> QED BY <1>9, <2>1, <2>2, <2>3, <2>4, CallerMoves, CellMoves
          DEF Deliver, TypeOK, SoundCaller, SoundCell
<1>10. CASE Post(k)
  <2> DEFINE c == caller[k].cell
             x == [cell[c] EXCEPT !.posted = TRUE]
  <2>1. c \in Cells /\ SoundCell(cell[c])
    BY <1>0, <1>10, TypeIsSound DEF Post, SoundCaller
  <2>2. SoundCell(x)  BY <2>1 DEF SoundCell, CellRecords
  <2>3. Return(k) /\ cell' = [cell EXCEPT ![c] = x]  BY <1>10 DEF Post
  <2> HIDE DEF x
  <2> QED BY <1>10, <2>1, <2>2, <2>3, ReturnType, CellMoves
          DEF Post, TypeOK, SoundCaller, SoundCell
<1>11. CASE PostRaises(k)
  <2>1. lock' \in [Cells -> Callers \cup {None}] /\ sup' \in Callers \cup {None}
    BY <1>11 DEF PostRaises, TypeOK
  <2> QED BY <1>0, <1>11, <2>1, CallerMoves DEF PostRaises, TypeOK, SoundCaller
<1> QED BY <1>1, <1>2, <1>3, <1>4, <1>5, <1>6, <1>7, <1>8, <1>9, <1>10, <1>11
        DEF CallerStep

(* A worker's step, which moves its own cell on.                           *)
LEMMA AdvanceType ==
  ASSUME TypeOK, NEW c \in Cells, NEW from \in Phases \ {"none"}, NEW x,
         Advance(c, from, x), x \in CellRecords, x.job = cell[c].job
  PROVE  /\ cell' \in [Cells -> CellRecords]
         /\ \A d \in Cells : SoundCell(cell'[d])
<1>1. cell' = [cell EXCEPT ![c] = x] /\ cell[c].phase # "none"
  BY DEF Advance
<1>2. SoundCell(x)  BY <1>1, TypeIsSound DEF SoundCell
<1> QED BY <1>1, <1>2, CellMoves

LEMMA WorkerType ==
  ASSUME TypeOK, NEW c \in Cells, WorkerStep(c)
  PROVE  TypeOK'
<1>0. cell[c] \in CellRecords  BY DEF TypeOK
<1>1. /\ cell' \in [Cells -> CellRecords]
      /\ \A d \in Cells : SoundCell(cell'[d])
  <2> USE <1>0 DEF Phases, RunningPhases
  <2>1. CASE PublishTask(c)
    <3> DEFINE x == [cell[c] EXCEPT !.phase = "ready"]
    <3>1. x \in CellRecords /\ x.job = cell[c].job  BY DEF CellRecords
    <3>2. Advance(c, "starting", x)  BY <2>1 DEF PublishTask
    <3> HIDE DEF x
    <3> QED BY <3>1, <3>2, AdvanceType
  <2>2. CASE CheckCancel(c)
    <3> DEFINE x == [cell[c] EXCEPT
                       !.phase = "returned", !.delivered = TRUE, !.outcome = "cancelled"]
               y == [cell[c] EXCEPT !.phase = "working"]
    <3>1. /\ x \in CellRecords /\ x.job = cell[c].job
          /\ y \in CellRecords /\ y.job = cell[c].job
      BY DEF CellRecords
    <3>2. Advance(c, "ready", x) \/ Advance(c, "ready", y)  BY <2>2 DEF CheckCancel
    <3> HIDE DEF x, y
    <3> QED BY <3>1, <3>2, AdvanceType
  <2>3. CASE WorkEnds(c)
    <3>1. PICK outcome \in {"result", "error", "cancelled"} :
            Advance(c, "working", [cell[c] EXCEPT !.phase = "returned", !.outcome = outcome])
      BY <2>3 DEF WorkEnds
    <3> DEFINE x == [cell[c] EXCEPT !.phase = "returned", !.outcome = outcome]
    <3>2. x \in CellRecords /\ x.job = cell[c].job  BY DEF CellRecords
    <3>3. Advance(c, "working", x)  BY <3>1
    <3> HIDE DEF x
    <3> QED BY <3>2, <3>3, AdvanceType
  <2>4. CASE WorkGoesOn(c)
    <3> DEFINE x == [cell[c] EXCEPT !.posted = FALSE]
    <3>1. x \in CellRecords /\ x.job = cell[c].job  BY DEF CellRecords
    <3>2. Advance(c, "working", x)  BY <2>4 DEF WorkGoesOn
    <3> HIDE DEF x
    <3> QED BY <3>1, <3>2, AdvanceType
  <2>5. CASE CloseLoop(c)
    <3> DEFINE x == [cell[c] EXCEPT !.phase = "closed"]
    <3>1. x \in CellRecords /\ x.job = cell[c].job  BY DEF CellRecords
    <3>2. Advance(c, "returned", x)  BY <2>5 DEF CloseLoop
    <3> HIDE DEF x
    <3> QED BY <3>1, <3>2, AdvanceType
  <2>6. CASE SetDone(c)
    <3> DEFINE x == [cell[c] EXCEPT !.phase = "done"]
    <3>1. x \in CellRecords /\ x.job = cell[c].job  BY DEF CellRecords
    <3>2. Advance(c, "closed", x)  BY <2>6 DEF SetDone
    <3> HIDE DEF x
    <3> QED BY <3>1, <3>2, AdvanceType
  <2>7. CASE MarkDone(c)
    <3> DEFINE x == [cell[c] EXCEPT !.phase = "marked", !.status = FinalStatus(c)]
    <3>1. FinalStatus(c) \in {"cancelled", "failed", "completed"}  BY DEF FinalStatus
    <3>2. x \in CellRecords /\ x.job = cell[c].job  BY <3>1 DEF CellRecords
    <3>3. Advance(c, "done", x)  BY <2>7 DEF MarkDone
    <3> HIDE DEF x
    <3> QED BY <3>2, <3>3, AdvanceType
  <2>8. CASE Unmap(c)
    <3> DEFINE x == [cell[c] EXCEPT !.phase = "gone"]
    <3>1. x \in CellRecords /\ x.job = cell[c].job  BY DEF CellRecords
    <3>2. Advance(c, "marked", x)  BY <2>8 DEF Unmap
    <3> HIDE DEF x
    <3> QED BY <3>1, <3>2, AdvanceType
  <2> QED BY <2>1, <2>2, <2>3, <2>4, <2>5, <2>6, <2>7, <2>8 DEF WorkerStep
<1>2. map' \in [Jobs -> Cells \cup {None}]
  BY DEF WorkerStep, PublishTask, CheckCancel, WorkEnds, WorkGoesOn, CloseLoop,
         SetDone, MarkDone, Unmap, TypeOK
<1>3. terminal' \subseteq Jobs
  BY DEF WorkerStep, PublishTask, CheckCancel, WorkEnds, WorkGoesOn, CloseLoop,
         SetDone, MarkDone, Unmap, TypeOK
<1>4. UNCHANGED <<sup, lock, caller>>
  BY DEF WorkerStep, PublishTask, CheckCancel, WorkEnds, WorkGoesOn, CloseLoop,
         SetDone, MarkDone, Unmap
<1> QED BY <1>1, <1>2, <1>3, <1>4 DEF TypeOK, SoundCell

(* Whatever threads schedule, cancel and run, every record keeps its shape *)
(* and a caller inside the supervisor has a job or a cell.                 *)
THEOREM SupervisorTypeCorrect == Spec => []TypeOK
<1>1. TypeOK /\ [Next]_vars => TypeOK'
  <2> SUFFICES ASSUME TypeOK, [Next]_vars PROVE TypeOK'
    OBVIOUS
  <2>1. CASE UNCHANGED vars  BY <2>1 DEF vars, TypeOK
  <2>2. ASSUME NEW j \in Jobs, EndJob(j) PROVE TypeOK'
    BY <2>2 DEF EndJob, TypeOK
  <2> QED BY <2>1, <2>2, ScheduleType, CancelType, CallerType, WorkerType DEF Next
<1> QED BY <1>1, InitType, PTL DEF Spec
-----------------------------------------------------------------------------
(* The cells.  Only Admit starts one.  Every other step is calm: the cells *)
(* that run after it ran before it, on the same job, and none counts that  *)
(* did not.                                                                *)

Calm ==
  \A d \in Cells :
    cell'[d].phase \in RunningPhases =>
      /\ cell[d].phase \in RunningPhases
      /\ cell'[d].job = cell[d].job
      /\ cell'[d].status = "running" => cell[d].status = "running"

LEMMA CellCalm ==
  ASSUME TypeOK, NEW c \in Cells, NEW x,
         cell' = [cell EXCEPT ![c] = x],
         x.phase \in RunningPhases =>
           /\ cell[c].phase \in RunningPhases
           /\ x.job = cell[c].job
           /\ x.status = "running" => cell[c].status = "running"
  PROVE  Calm
BY DEF TypeOK, Calm

LEMMA SameCells == ASSUME cell' = cell PROVE Calm
BY DEF Calm

LEMMA CallerCalm ==
  ASSUME TypeOK, NEW k \in Callers, CallerStep(k), ~Admit(k)
  PROVE  Calm
<1>0. SoundCaller(caller[k])  BY TypeIsSound
<1> DEFINE c == caller[k].cell
<1>1. CASE LockCell(k)
  <2> DEFINE x == [cell[c] EXCEPT !.status = "cancel_requested", !.requested = TRUE]
  <2>1. c \in Cells  BY <1>0, <1>1 DEF LockCell, SoundCaller
  <2>2. x.phase = cell[c].phase /\ x.job = cell[c].job /\ x.status # "running"
    BY <2>1 DEF TypeOK, CellRecords
  <2>3. cell' = [cell EXCEPT ![c] = x]  BY <1>1 DEF LockCell
  <2> HIDE DEF x
  <2> QED BY <2>1, <2>2, <2>3, CellCalm
<1>2. CASE Deliver(k)
  <2> DEFINE x == [cell[c] EXCEPT !.delivered = TRUE]
  <2>1. c \in Cells  BY <1>0, <1>2 DEF Deliver, SoundCaller
  <2>2. x.phase = cell[c].phase /\ x.job = cell[c].job /\ x.status = cell[c].status
    BY <2>1 DEF TypeOK, CellRecords
  <2>3. cell' = [cell EXCEPT ![c] = x]  BY <1>2 DEF Deliver
  <2> HIDE DEF x
  <2> QED BY <2>1, <2>2, <2>3, CellCalm
<1>3. CASE Post(k)
  <2> DEFINE x == [cell[c] EXCEPT !.posted = TRUE]
  <2>1. c \in Cells  BY <1>0, <1>3 DEF Post, SoundCaller
  <2>2. x.phase = cell[c].phase /\ x.job = cell[c].job /\ x.status = cell[c].status
    BY <2>1 DEF TypeOK, CellRecords
  <2>3. cell' = [cell EXCEPT ![c] = x]  BY <1>3 DEF Post
  <2> HIDE DEF x
  <2> QED BY <2>1, <2>2, <2>3, CellCalm
<1>4. CASE \/ Enter(k) \/ Supervise(k) \/ Reject(k) \/ StartFails(k)
           \/ FailJob(k) \/ ReadTask(k) \/ PostRaises(k)
  <2>1. cell' = cell
    BY <1>4 DEF Enter, Supervise, Reject, StartFails, FailJob, ReadTask, PostRaises
  <2> QED BY <2>1, SameCells
<1> QED BY <1>1, <1>2, <1>3, <1>4 DEF CallerStep

(* A worker's step leaves the other cells alone, and its own job.          *)
LEMMA WorkerMoves ==
  ASSUME TypeOK, NEW c \in Cells, WorkerStep(c)
  PROVE  /\ \A d \in Cells \ {c} : cell'[d] = cell[d]
         /\ cell'[c].job = cell[c].job
         /\ cell[c].phase # "none" /\ cell'[c].phase # "none"
         /\ cell'[c].requested = cell[c].requested
         /\ cell[c].delivered => cell'[c].delivered
         /\ cell'[c].phase \in RunningPhases =>
              /\ cell[c].phase \in RunningPhases
              /\ cell'[c].status = cell[c].status
         /\ cell'[c].phase = "working" /\ cell[c].phase # "working"
              => ~cell[c].requested
         /\ UNCHANGED <<caller, lock, sup>>
<1> USE DEF Advance
<1>0. cell \in [Cells -> CellRecords] /\ cell[c] \in CellRecords  BY DEF TypeOK
<1>1. CASE PublishTask(c) \/ CloseLoop(c) \/ SetDone(c) \/ WorkGoesOn(c)
  BY <1>0, <1>1 DEF PublishTask, CloseLoop, SetDone, WorkGoesOn, CellRecords, RunningPhases
<1>2. CASE CheckCancel(c)
  <2>1. CASE cell[c].requested
    <3> DEFINE x == [cell[c] EXCEPT !.phase = "returned", !.delivered = TRUE, !.outcome = "cancelled"]
    <3>1. /\ x.job = cell[c].job /\ x.phase = "returned" /\ x.status = cell[c].status
          /\ x.requested = cell[c].requested /\ x.delivered
      BY <1>0 DEF CellRecords
    <3>2. /\ cell[c].phase = "ready" /\ cell' = [cell EXCEPT ![c] = x]
          /\ UNCHANGED <<caller, lock, sup>>
      BY <1>2, <2>1 DEF CheckCancel
    <3> HIDE DEF x
    <3> QED BY <1>0, <3>1, <3>2 DEF RunningPhases
  <2>2. CASE ~cell[c].requested
    BY <1>0, <1>2, <2>2 DEF CheckCancel, CellRecords, RunningPhases
  <2> QED BY <2>1, <2>2
<1>3. CASE WorkEnds(c)
  BY <1>0, <1>3 DEF WorkEnds, CellRecords, RunningPhases
<1>4. CASE MarkDone(c)
  BY <1>0, <1>4 DEF MarkDone, CellRecords, RunningPhases
<1>5. CASE Unmap(c)
  BY <1>0, <1>5 DEF Unmap, CellRecords, RunningPhases
<1> QED BY <1>1, <1>2, <1>3, <1>4, <1>5 DEF WorkerStep

LEMMA StepCalm ==
  ASSUME TypeOK, [Next]_vars, \A k \in Callers : ~Admit(k)
  PROVE  Calm
<1>1. ASSUME NEW k \in Callers, NEW j \in Jobs, Schedule(k, j) PROVE Calm
  BY <1>1, SameCells DEF Schedule
<1>2. ASSUME NEW k \in Callers, NEW c \in Cells, Cancel(k, c) PROVE Calm
  BY <1>2, SameCells DEF Cancel
<1>3. ASSUME NEW c \in Cells, WorkerStep(c) PROVE Calm
  BY <1>3, WorkerMoves DEF Calm
<1>4. ASSUME NEW j \in Jobs, EndJob(j) PROVE Calm
  BY <1>4, SameCells DEF EndJob
<1>5. CASE UNCHANGED vars
  BY <1>5, SameCells DEF vars
<1> QED BY <1>1, <1>2, <1>3, <1>4, <1>5, CallerCalm DEF Next

(* What Admit does: a new cell, beside no other on its job.                *)
LEMMA AdmitFacts ==
  ASSUME TypeOK, RunningIsMapped, NEW k \in Callers, Admit(k)
  PROVE  LET j == caller[k].job
         IN  \E c \in Cells :
               /\ j \in Jobs /\ Admissible(j)
               /\ cell[c].phase = "none"
               /\ cell'[c].job = j /\ cell'[c].phase = "starting"
               /\ cell'[c].status = "running" /\ ~cell'[c].requested
               /\ \A d \in Cells \ {c} : cell'[d] = cell[d]
               /\ map'[j] = c /\ \A i \in Jobs \ {j} : map'[i] = map[i]
               /\ \A d \in Cells : Running(d) => cell[d].job # j
<1> DEFINE j == caller[k].job
           x == [NoCell EXCEPT !.job = j, !.phase = "starting", !.status = "running"]
<1>1. PICK c \in Unused :
        /\ cell' = [cell EXCEPT ![c] = [NoCell EXCEPT
             !.job = caller[k].job, !.phase = "starting", !.status = "running"]]
        /\ map' = [map EXCEPT ![caller[k].job] = c]
  BY DEF Admit
<1>2. j \in Jobs  BY TypeIsSound DEF Admit, SoundCaller
<1>3. c \in Cells /\ cell[c].phase = "none"  BY DEF Unused
<1>4. NoCell \in CellRecords /\ ~NoCell.requested
  BY DEF NoCell, CellRecords, Phases, RunningPhases
<1>5. /\ x.job = j /\ x.phase = "starting" /\ x.status = "running"
      /\ ~x.requested
  BY <1>4 DEF CellRecords
<1>6. cell' = [cell EXCEPT ![c] = x]  BY <1>1
<1> HIDE DEF x
<1>7. cell'[c] = x /\ \A d \in Cells \ {c} : cell'[d] = cell[d]
  BY <1>3, <1>6 DEF TypeOK
<1>8. map'[j] = c /\ \A i \in Jobs \ {j} : map'[i] = map[i]
  BY <1>1, <1>2 DEF TypeOK
<1>9. Admissible(j)  BY DEF Admit
<1>10. \A d \in Cells : Running(d) => cell[d].job # j
  BY <1>9 DEF Admissible, ActiveCell, RunningIsMapped
<1> QED BY <1>2, <1>3, <1>5, <1>7, <1>8, <1>9, <1>10

-----------------------------------------------------------------------------
(* No job is executed twice.                                               *)

(* A calm step that unmaps no running cell.                                *)
LEMMA MapFrame ==
  ASSUME TypeOK, RunningIsMapped, Calm,
         \A d \in Cells : cell'[d].phase \in RunningPhases =>
                            map'[cell[d].job] = map[cell[d].job]
  PROVE  RunningIsMapped'
BY DEF RunningIsMapped, Running, Calm

LEMMA MapStep ==
  ASSUME TypeOK, RunningIsMapped, [Next]_vars
  PROVE  RunningIsMapped'
<1>1. ASSUME NEW k \in Callers, Admit(k) PROVE RunningIsMapped'
  BY <1>1, AdmitFacts, TypeIsSound
     DEF RunningIsMapped, Running, SoundCell, RunningPhases
<1>2. CASE \A k \in Callers : ~Admit(k)
  <2>0. Calm  BY <1>2, StepCalm
  <2>1. ASSUME NEW k \in Callers, StartFails(k) PROVE RunningIsMapped'
    <3>1. /\ Admissible(caller[k].job) /\ cell' = cell
          /\ map' = [map EXCEPT ![caller[k].job] = None]
      BY <2>1 DEF StartFails
    <3>2. \A d \in Cells : Running(d) => cell[d].job # caller[k].job
      BY <3>1 DEF Admissible, ActiveCell, RunningIsMapped
    <3>3. \A d \in Cells : Running(d) => cell[d].job \in Jobs
      BY TypeIsSound DEF SoundCell, Running, RunningPhases
    <3> QED BY <2>0, <3>1, <3>2, <3>3, MapFrame DEF Running, TypeOK
  <2>2. ASSUME NEW c \in Cells, Unmap(c) PROVE RunningIsMapped'
    <3>1. map' = [j \in Jobs |-> IF j = cell[c].job /\ map[j] = c THEN None ELSE map[j]]
      BY <2>2 DEF Unmap
    <3>2. cell'[c].phase \notin RunningPhases
      BY <2>2 DEF Unmap, Advance, TypeOK, CellRecords, RunningPhases
    <3>3. \A d \in Cells : Running(d) => cell[d].job \in Jobs
      BY TypeIsSound DEF SoundCell, Running, RunningPhases
    <3>4. \A d \in Cells : cell'[d].phase \in RunningPhases => d # c /\ Running(d)
      BY <2>0, <3>2 DEF Calm, Running
    <3> QED BY <2>0, <3>1, <3>3, <3>4, MapFrame DEF RunningIsMapped
  <2>3. CASE UNCHANGED map  BY <2>0, <2>3, MapFrame
  <2> QED BY <1>2, <2>1, <2>2, <2>3
          DEF Next, vars, Schedule, Cancel, EndJob, CallerStep, Enter, Supervise, Reject,
              FailJob, LockCell, ReadTask, Deliver, Post, PostRaises, WorkerStep,
              PublishTask, CheckCancel, WorkEnds, WorkGoesOn, CloseLoop, SetDone, MarkDone
<1> QED BY <1>1, <1>2

(* A running cell is always the one its job is mapped to: schedulings,     *)
(* failed starts and late unmappings never lose one.                       *)
THEOREM RunningCellsAreMapped == Spec => []RunningIsMapped
<1>1. Init => RunningIsMapped
  BY DEF Init, RunningIsMapped, Running, NoCell, RunningPhases
<1>2. TypeOK /\ RunningIsMapped /\ [Next]_vars => RunningIsMapped'
  BY MapStep
<1> QED BY <1>1, <1>2, SupervisorTypeCorrect, PTL DEF Spec

(* A job is never executed by two workers at a time, however often it is   *)
(* scheduled.                                                              *)
THEOREM JobsRunOnce == Spec => []OneCellPerJob
<1>1. RunningIsMapped => OneCellPerJob
  BY DEF RunningIsMapped, OneCellPerJob
<1> QED BY <1>1, RunningCellsAreMapped, PTL
-----------------------------------------------------------------------------
(* Primary work takes turns.                                               *)

LEMMA HandsOverToTask ==
  ASSUME NEW i \in Jobs, NEW j \in Jobs, HandsOver(i, j)
  PROVE  i \notin Tasks /\ j \in Tasks
BY JobKinds, NoneIsNoName DEF HandsOver

(* Whatever other primary cells run beside a job that may be admitted      *)
(* hand over to it: there are two at most, and the first one decides.      *)
LEMMA OthersHandOver ==
  ASSUME TypeOK, PrimaryAlone, NEW j \in Primary, ~PrimaryInTheWay(j),
         NEW d \in OtherPrimary(j)
  PROVE  HandsOver(cell[d].job, j)
<1>0. /\ \A e \in OtherPrimary(j) : /\ e \in Cells /\ cell[e].job \in Jobs \ {j}
                                    /\ Running(e) /\ cell[e].job \in Primary
      /\ j \in Jobs
  BY JobKinds, TypeIsSound DEF OtherPrimary, SoundCell, Running, RunningPhases
<1>1. \A e, f \in OtherPrimary(j) :
        e # f => \/ HandsOver(cell[e].job, cell[f].job)
                 \/ HandsOver(cell[f].job, cell[e].job)
  BY <1>0 DEF PrimaryAlone
<1>2. \A e \in OtherPrimary(j) :
        (\A f \in OtherPrimary(j) : e <= f) => HandsOver(cell[e].job, j)
  BY DEF PrimaryInTheWay
<1>3. \A e \in OtherPrimary(j) : e \in Nat  BY <1>0, CellBounds DEF Cells
<1>4. CASE \A f \in OtherPrimary(j) : d <= f
  BY <1>2, <1>4
<1>5. ASSUME NEW e \in OtherPrimary(j), ~(d <= e) PROVE FALSE
  <2>1. e # d /\ e <= d  BY <1>3, <1>5
  <2>2. ASSUME NEW f \in OtherPrimary(j), f # d, f # e PROVE FALSE
    BY <1>0, <1>1, <2>1, <2>2, HandsOverToTask
  <2>3. \A f \in OtherPrimary(j) : e <= f  BY <1>3, <2>1, <2>2
  <2>4. HandsOver(cell[e].job, j)  BY <1>2, <2>3
  <2>5. cell[e].job \notin Tasks  BY <1>0, <2>4, HandsOverToTask
  <2>6. HandsOver(cell[e].job, cell[d].job)
    BY <1>0, <1>1, <2>1, <2>5, HandsOverToTask
  <2>7. cell[d].job = j  BY <2>4, <2>6 DEF HandsOver
  <2> QED BY <1>0, <2>7
<1> QED BY <1>4, <1>5

LEMMA AloneStep ==
  ASSUME TypeOK, RunningIsMapped, PrimaryAlone, [Next]_vars
  PROVE  PrimaryAlone'
<1>1. ASSUME NEW k \in Callers, Admit(k) PROVE PrimaryAlone'
  <2> DEFINE j == caller[k].job
  <2>1. PICK c \in Cells :
          /\ Admissible(j)
          /\ cell'[c].job = j
          /\ \A d \in Cells \ {c} : cell'[d] = cell[d]
          /\ \A d \in Cells : Running(d) => cell[d].job # j
    BY <1>1, AdmitFacts
  <2>2. ASSUME j \in Primary, NEW d \in Cells, Running(d), cell[d].job \in Primary
        PROVE  HandsOver(cell[d].job, j)
    <3>1. d \in OtherPrimary(j)  BY <2>1, <2>2 DEF OtherPrimary
    <3> QED BY <2>1, <2>2, <3>1, OthersHandOver DEF Admissible
  <2> QED BY <2>1, <2>2 DEF PrimaryAlone, Running, HandsOver
<1>2. CASE \A k \in Callers : ~Admit(k)
  <2>1. Calm  BY <1>2, StepCalm
  <2> QED BY <2>1 DEF Calm, PrimaryAlone, Running, HandsOver
<1> QED BY <1>1, <1>2

(* Two primary cells of a session run together only when one is a turn and *)
(* the other the task it hands over to.                                    *)
THEOREM PrimaryTakesTurns == Spec => []PrimaryAlone
<1>1. Init => PrimaryAlone
  BY DEF Init, PrimaryAlone, Running, NoCell, RunningPhases
<1>2. TypeOK /\ RunningIsMapped /\ PrimaryAlone /\ [Next]_vars => PrimaryAlone'
  BY AloneStep
<1> QED BY <1>1, <1>2, SupervisorTypeCorrect, RunningCellsAreMapped, PTL DEF Spec

-----------------------------------------------------------------------------
(* The ceiling.                                                            *)

LEMMA CountedFinite ==
  /\ IsFiniteSet(Counted) /\ Cardinality(Counted) \in Nat
  /\ IsFiniteSet(Counted')
<1>1. IsFiniteSet(Cells)  BY CellBounds, FS_Interval DEF Cells
<1>2. Counted \subseteq Cells /\ Counted' \subseteq Cells  BY DEF Counted
<1> QED BY <1>1, <1>2, FS_Subset, FS_CardinalityType

LEMMA CeilingStep ==
  ASSUME TypeOK, RunningIsMapped, CeilingKept, [Next]_vars
  PROVE  CeilingKept'
<1>1. ASSUME NEW k \in Callers, Admit(k) PROVE CeilingKept'
  <2>1. PICK c \in Cells :
          /\ Cardinality(Counted) < MaxActive
          /\ \A d \in Cells \ {c} : cell'[d] = cell[d]
    BY <1>1, AdmitFacts DEF Admissible
  <2>2. Counted' \subseteq Counted \cup {c}
    BY <2>1 DEF Counted, Running
  <2>3. /\ IsFiniteSet(Counted \cup {c})
        /\ Cardinality(Counted \cup {c}) <= Cardinality(Counted) + 1
        /\ Cardinality(Counted \cup {c}) \in Nat
    <3>1. /\ IsFiniteSet(Counted \cup {c})
          /\ Cardinality(Counted \cup {c}) =
               IF c \in Counted THEN Cardinality(Counted) ELSE Cardinality(Counted) + 1
      BY CountedFinite, FS_AddElement
    <3>2. \/ Cardinality(Counted \cup {c}) = Cardinality(Counted)
          \/ Cardinality(Counted \cup {c}) = Cardinality(Counted) + 1
      BY <3>1
    <3> QED BY <3>1, <3>2, CountedFinite
  <2>4. Cardinality(Counted') <= Cardinality(Counted \cup {c}) /\ Cardinality(Counted') \in Nat
    BY <2>2, <2>3, FS_Subset, CountedFinite, FS_CardinalityType
  <2> QED BY <2>1, <2>3, <2>4, CountedFinite, CellBounds DEF CeilingKept
<1>2. CASE \A k \in Callers : ~Admit(k)
  <2>1. Counted' \subseteq Counted
    BY <1>2, StepCalm DEF Calm, Counted, Running
  <2>2. Cardinality(Counted') <= Cardinality(Counted) /\ Cardinality(Counted') \in Nat
    BY <2>1, CountedFinite, FS_Subset, FS_CardinalityType
  <2> QED BY <2>2, CountedFinite, CellBounds DEF CeilingKept
<1> QED BY <1>1, <1>2

(* No more cells of a session run undisturbed than the ceiling allows.     *)
THEOREM CeilingHolds == Spec => []CeilingKept
<1>1. Init => CeilingKept
  <2> SUFFICES ASSUME Init PROVE CeilingKept
    OBVIOUS
  <2>1. Counted = {}  BY DEF Init, Counted, Running, NoCell, RunningPhases
  <2> QED BY <2>1, FS_EmptySet, CellBounds DEF CeilingKept
<1>2. TypeOK /\ RunningIsMapped /\ CeilingKept /\ [Next]_vars => CeilingKept'
  BY CeilingStep
<1> QED BY <1>1, <1>2, SupervisorTypeCorrect, RunningCellsAreMapped, PTL DEF Spec

-----------------------------------------------------------------------------
(* The supervisor schedules as SessionWork does.                           *)

LEMMA WorkedOn ==
  /\ \A j : j \in Working <=> \E c \in Cells : Running(c) /\ cell[c].job = j
  /\ \A j : j \in Ending <=> \E c \in Cells : /\ Running(c) /\ cell[c].job = j
                                              /\ cell[c].status # "running"
BY DEF Working, Ending, Counted

(* The abstract specification counts as this one does.                     *)
LEMMA SameCount == \A S : Work!Cardinality(S) = Cardinality(S)
BY DEF Work!Cardinality, Cardinality, Work!IsFiniteSet, IsFiniteSet

(* Every job that is not asked to end has a cell that counts.              *)
LEMMA UndisturbedAreCounted ==
  Cardinality(Working \ Ending) <= Cardinality(Counted)
<1> DEFINE T == {cell[c].job : c \in Counted}
           f == [c \in Counted |-> cell[c].job]
<1>1. Working \ Ending \subseteq T
  BY WorkedOn DEF Counted
<1>2. f \in Surjection(Counted, T)
  BY DEF Surjection
<1>3. IsFiniteSet(T) /\ Cardinality(T) <= Cardinality(Counted)
  BY <1>2, CountedFinite, FS_Surjection
<1>4. Cardinality(Working \ Ending) <= Cardinality(T)
  BY <1>1, <1>3, FS_Subset
<1> QED BY <1>1, <1>3, <1>4, CountedFinite, FS_Subset, FS_CardinalityType

LEMMA SameWork ==
  ASSUME cell' = cell
  PROVE  UNCHANGED <<Working, Ending>>
BY DEF Working, Ending, Counted, Running

(* A step of one cell that keeps its job and starts nothing asks the job   *)
(* to end, ends it, or leaves the work alone.                              *)
LEMMA CellMovesWork ==
  ASSUME TypeOK, OneCellPerJob, NEW c \in Cells,
         \A d \in Cells \ {c} : cell'[d] = cell[d],
         cell'[c].job = cell[c].job,
         cell'[c].phase \in RunningPhases =>
           /\ cell[c].phase \in RunningPhases
           /\ cell'[c].status = "running" => cell[c].status = "running"
  PROVE  \/ UNCHANGED <<Working, Ending>>
         \/ \E j \in Jobs : Work!Ask(j) \/ Work!End(j)
<1> DEFINE j == cell[c].job
<1>1. \A d \in Cells \ {c} : /\ Running(d)' = Running(d)
                             /\ cell'[d].job = cell[d].job
                             /\ cell'[d].status = cell[d].status
  BY DEF Running
<1>2. Running(c)' => Running(c)
  BY DEF Running
<1>3. Running(c) => j \in Jobs /\ \A d \in Cells \ {c} : Running(d) => cell[d].job # j
  BY TypeIsSound DEF OneCellPerJob, SoundCell, Running, RunningPhases
<1>4. CASE Running(c) /\ ~Running(c)'
  <2>1. j \in Working /\ Working' = Working \ {j}
    BY <1>1, <1>3, <1>4, WorkedOn DEF Working
  <2>2. Ending' = Ending \ {j}
    BY <1>1, <1>3, <1>4, WorkedOn DEF Ending, Counted
  <2> QED BY <1>3, <1>4, <2>1, <2>2 DEF Work!End
<1>5. CASE Running(c)' /\ cell[c].status = "running" /\ cell'[c].status # "running"
  <2>1. j \in Working /\ j \notin Ending /\ Working' = Working
    BY <1>1, <1>2, <1>3, <1>5, WorkedOn DEF Working
  <2>2. Ending' = Ending \cup {j}
    BY <1>1, <1>2, <1>3, <1>5, WorkedOn DEF Ending, Counted
  <2> QED BY <1>2, <1>3, <1>5, <2>1, <2>2 DEF Work!Ask
<1>6. CASE /\ Running(c)' = Running(c)
           /\ Running(c) => (cell'[c].status = "running" <=> cell[c].status = "running")
  <2>1. Working' = Working
    BY <1>1, <1>6 DEF Working
  <2>2. Ending' = Ending
    BY <1>1, <1>6 DEF Ending, Counted
  <2> QED BY <2>1, <2>2
<1> QED BY <1>2, <1>4, <1>5, <1>6 DEF Running

LEMMA AdmitBegins ==
  ASSUME TypeOK, RunningIsMapped, PrimaryAlone, NEW k \in Callers, Admit(k)
  PROVE  Work!Begin(caller[k].job)
<1> DEFINE j == caller[k].job
<1>1. PICK c \in Cells :
        /\ j \in Jobs /\ Admissible(j)
        /\ cell[c].phase = "none"
        /\ cell'[c].job = j /\ cell'[c].phase = "starting"
        /\ cell'[c].status = "running"
        /\ \A d \in Cells \ {c} : cell'[d] = cell[d]
        /\ \A d \in Cells : Running(d) => cell[d].job # j
  BY AdmitFacts
<1>2. ~Running(c) /\ Running(c)' /\ \A d \in Cells \ {c} : Running(d)' = Running(d)
  BY <1>1 DEF Running, RunningPhases
<1>3. Working' = Working \cup {j} /\ j \notin Working
  BY <1>1, <1>2, WorkedOn DEF Working
<1>4. Ending' = Ending
  BY <1>1, <1>2 DEF Ending, Counted
<1>5. ASSUME j \in Primary, NEW i \in Working \cap Primary
      PROVE  i \in Jobs /\ HandsOver(i, j)
  <2>1. PICK d \in Cells : Running(d) /\ cell[d].job = i
    BY <1>5, WorkedOn
  <2>2. d \in OtherPrimary(j)
    BY <1>1, <1>5, <2>1 DEF OtherPrimary
  <2> QED BY <1>1, <1>5, <2>1, <2>2, OthersHandOver, JobKinds DEF Admissible
<1>6. Cardinality(Working \ Ending) < MaxActive
  <2>1. Cardinality(Working \ Ending) \in Nat
    <3>1. IsFiniteSet(Working)
      <4>1. IsFiniteSet({d \in Cells : Running(d)})
        <5>1. IsFiniteSet(Cells)  BY CellBounds, FS_Interval DEF Cells
        <5>2. {d \in Cells : Running(d)} \subseteq Cells  OBVIOUS
        <5> QED BY <5>1, <5>2, FS_Subset
      <4>2. [d \in {e \in Cells : Running(e)} |-> cell[d].job]
              \in Surjection({e \in Cells : Running(e)}, Working)
        BY DEF Surjection, Working
      <4> QED BY <4>1, <4>2, FS_Surjection
    <3> QED BY <3>1, FS_Subset, FS_CardinalityType
  <2>2. Cardinality(Counted) < MaxActive
    BY <1>1 DEF Admissible
  <2> QED BY <2>1, <2>2, UndisturbedAreCounted, CountedFinite, CellBounds
<1> QED BY <1>1, <1>3, <1>4, <1>5, <1>6, SameCount DEF Work!Begin, Work!MayBegin

LEMMA CallerWorks ==
  ASSUME TypeOK, RunningIsMapped, PrimaryAlone, OneCellPerJob,
         NEW k \in Callers, CallerStep(k)
  PROVE  \/ UNCHANGED <<Working, Ending>>
         \/ \E j \in Jobs : Work!Begin(j) \/ Work!Ask(j) \/ Work!End(j)
<1>1. CASE Admit(k)
  BY <1>1, AdmitFacts, AdmitBegins
<1>2. CASE LockCell(k) \/ Deliver(k) \/ Post(k)
  <2>1. SoundCaller(caller[k])
    BY TypeIsSound
  <2>2. PICK c \in Cells : c = caller[k].cell
    BY <1>2, <2>1 DEF SoundCaller, LockCell, Deliver, Post
  <2>3. cell[c] \in CellRecords /\ cell \in [Cells -> CellRecords]
    BY DEF TypeOK
  <2>4. PICK x : /\ cell' = [cell EXCEPT ![c] = x]
                 /\ x \in {[cell[c] EXCEPT !.status = "cancel_requested", !.requested = TRUE],
                          [cell[c] EXCEPT !.delivered = TRUE],
                          [cell[c] EXCEPT !.posted = TRUE]}
    BY <1>2, <2>2 DEF LockCell, Deliver, Post
  <2>5. /\ x.job = cell[c].job /\ x.phase = cell[c].phase
        /\ x.status \in {cell[c].status, "cancel_requested"}
    BY <2>3, <2>4 DEF CellRecords
  <2>6. /\ \A d \in Cells \ {c} : cell'[d] = cell[d]
        /\ cell'[c].job = cell[c].job /\ cell'[c].phase = cell[c].phase
        /\ cell'[c].status \in {cell[c].status, "cancel_requested"}
    BY <2>3, <2>4, <2>5
  <2> QED BY <2>6, CellMovesWork
<1>3. CASE \/ Enter(k) \/ Supervise(k) \/ Reject(k) \/ StartFails(k)
           \/ FailJob(k) \/ ReadTask(k) \/ PostRaises(k)
  BY <1>3, SameWork DEF Enter, Supervise, Reject, StartFails, FailJob, ReadTask, PostRaises
<1> QED BY <1>1, <1>2, <1>3 DEF CallerStep

LEMMA WorkStep ==
  ASSUME TypeOK, RunningIsMapped, PrimaryAlone, OneCellPerJob, [Next]_vars
  PROVE  Work!Next \/ UNCHANGED <<Working, Ending>>
<1>1. ASSUME NEW k \in Callers, NEW j \in Jobs, Schedule(k, j)
      PROVE  UNCHANGED <<Working, Ending>>
  BY <1>1, SameWork DEF Schedule
<1>2. ASSUME NEW k \in Callers, NEW c \in Cells, Cancel(k, c)
      PROVE  UNCHANGED <<Working, Ending>>
  BY <1>2, SameWork DEF Cancel
<1>3. ASSUME NEW c \in Cells, WorkerStep(c)
      PROVE  \/ UNCHANGED <<Working, Ending>>
             \/ \E j \in Jobs : Work!Ask(j) \/ Work!End(j)
  BY <1>3, WorkerMoves, CellMovesWork
<1>4. ASSUME NEW j \in Jobs, EndJob(j)
      PROVE  UNCHANGED <<Working, Ending>>
  BY <1>4, SameWork DEF EndJob
<1>5. CASE UNCHANGED vars
  BY <1>5, SameWork DEF vars
<1> QED BY <1>1, <1>2, <1>3, <1>4, <1>5, CallerWorks DEF Next, Work!Next

(* The supervisor and its threads implement SessionWork: a job begins only *)
(* beside primary work it follows and below the ceiling, on one worker,    *)
(* and cancels and ends of threads do no more than ask and end.            *)
THEOREM Refinement == Spec => SchedulesWork
<1>1. Init => Work!Init
  BY DEF Init, Work!Init, Working, Ending, Counted, Running, NoCell, RunningPhases
<1>2. TypeOK /\ RunningIsMapped /\ PrimaryAlone /\ OneCellPerJob /\ [Next]_vars
        => [Work!Next]_<<Working, Ending>>
  BY WorkStep
<1> QED BY <1>1, <1>2, SupervisorTypeCorrect, RunningCellsAreMapped, PrimaryTakesTurns,
           JobsRunOnce, PTL DEF Spec, SchedulesWork, Work!Spec
===========================================================================
