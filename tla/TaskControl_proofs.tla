------------------------- MODULE TaskControl_proofs -------------------------
(***************************************************************************)
(* For any number of callers, signals, cells and requests: the types, that *)
(* a signal is told once and the control implements ControlDelivery, that  *)
(* no boundary overlooks a signal of its cell, that a task ends as         *)
(* completed with no request open, that the registry entry of an executor  *)
(* that runs is its own and none outlives one that entered its try clause, *)
(* that a cancelled tool is not awaited, and that a restart leaves no task *)
(* running but one under control.                                          *)
(*                                                                         *)
(* The threads write back whole copies of the task's record, so what is    *)
(* proved of the record is proved of every copy that may be written.       *)
(***************************************************************************)
EXTENDS TaskControl, FiniteSetTheorems, SequenceTheorems, TLAPS

\* What every writer of the record keeps: a task that runs is marked so.
SoundTasks ==
  {t \in TaskRecords : t.status = "running" => t.exec \in {"scheduled", "running"} \/ t.lease}

\* What refers to a signal refers to one of those published, n of them.
Refs(n) == 1 .. n \cup {None}

SoundOp(q, n) == q \in RequestRecords /\ q.copy \in SoundTasks /\ q.sig \in Refs(n)
SoundExe(e, n) == e \in ExecutorRecords /\ e.copy \in SoundTasks /\ e.sig \in Refs(n)
SoundEntries(n) == [cell : Cells, epoch : Nat, sig : Refs(n), begun : BOOLEAN]
SoundReg(r, n) == r = None \/ r \in SoundEntries(n)

Types ==
  /\ task \in SoundTasks
  /\ signals \in Seq(SignalRecords) /\ Len(signals) <= MaxSignals
  /\ told \in Seq(Ids)
  /\ SoundReg(reg, Len(signals))
  /\ cell \in CellRecords
  /\ sup \in Callers \cup {None}
  /\ SoundExe(exe, Len(signals))
  /\ op \in [Callers -> RequestRecords] /\ \A c \in Callers : SoundOp(op[c], Len(signals))
  /\ count \in [requests : Nat, crashes : Nat]

\* Who may change what: the executor lives in a cell that has a number, only
\* the caller with the supervisor's lock makes one, and the try clause that
\* clears the registry entry is entered with the claim.
Places ==
  /\ exe.pc # "idle" => cell.alive
  /\ cell.alive => cell.id # 0
  /\ exe.pc = "claim" => ~reg.begun
  /\ exe.pc \in {"hear", "tell"} => exe.at # "step_budget"
  /\ \A c \in Callers :
       /\ op[c].pc \in {"mark", "start", "publish_handle"} => sup = c
       /\ op[c].pc \in {"mark", "start"} => ~cell.alive /\ cell.id # 0
       /\ op[c].pc = "publish" => op[c].kind # "resume"

\* A signal the executor is about to tell of is closed and was not told.
Telling == exe.pc = "tell" => /\ exe.sig # None
                              /\ signals[exe.sig].state = "observed"
                              /\ exe.sig \notin Told

-----------------------------------------------------------------------------
(* The records that are written.                                           *)

LEMMA TaskFields ==
  ASSUME NEW t \in SoundTasks
  PROVE  /\ t \in TaskRecords
         /\ t.status \in Statuses /\ t.ctl \in Controls /\ t.sig \in Ids \cup {None}
         /\ t.dlv \in Controls \cup {None} /\ t.exec \in {"none", "scheduled", "running", "rest"}
         /\ t.lease \in BOOLEAN /\ t.reco \in BOOLEAN /\ t.err \in BOOLEAN
         /\ t.epoch \in 0 .. MaxCells /\ t.scope \in Cells \cup {0}
  BY ZenonT(60) DEF SoundTasks, TaskRecords

LEMMA NewTaskSound == NewTask \in SoundTasks
  BY ControlBounds DEF NewTask, SoundTasks, TaskRecords, Statuses, Controls

LEMMA ControlledSound ==
  ASSUME NEW t \in SoundTasks, NEW ctl \in Controls, NEW s \in Ids \cup {None}
  PROVE  Controlled(t, ctl, s) \in SoundTasks
  BY DEF Controlled, SoundTasks, TaskRecords

LEMMA PausedSound == ASSUME NEW t \in SoundTasks PROVE PausedTask(t) \in SoundTasks
<1> DEFINE x == Controlled(t, "paused", None)
<1>1. x \in SoundTasks
  BY ControlledSound DEF Controls
<1> HIDE DEF x
<1>2. [x EXCEPT !.status = "waiting_executor", !.exec = "rest", !.reco = TRUE] \in SoundTasks
  BY <1>1, ZenonT(60) DEF SoundTasks, TaskRecords, Statuses
<1> QED BY <1>2 DEF PausedTask, x

LEMMA StoppedSound == ASSUME NEW t \in SoundTasks PROVE StoppedTask(t) \in SoundTasks
<1> DEFINE x == Controlled(t, "stopped", None)
<1>1. x \in SoundTasks
  BY ControlledSound DEF Controls
<1> HIDE DEF x
<1>2. [x EXCEPT !.status = "aborted", !.exec = "rest", !.reco = FALSE, !.err = FALSE] \in SoundTasks
  BY <1>1, ZenonT(60) DEF SoundTasks, TaskRecords, Statuses
<1> QED BY <1>2 DEF StoppedTask, x

LEMMA UnleasedSound == ASSUME NEW t \in SoundTasks PROVE Unleased(t) \in SoundTasks
<1>1. [t EXCEPT !.ctl = "none", !.sig = None, !.dlv = None] \in SoundTasks
  BY DEF SoundTasks, TaskRecords, Controls
<1> QED BY <1>1 DEF Unleased

LEMMA BlockedSound == ASSUME NEW t \in SoundTasks PROVE Blocked(t) \in SoundTasks
<1> DEFINE x == Unleased(t)
<1>1. x \in SoundTasks
  BY UnleasedSound
<1> HIDE DEF x
<1>2. \A s \in {"waiting_executor", "blocked"} :
        [x EXCEPT !.exec = "rest", !.status = s] \in SoundTasks
  BY <1>1, ZenonT(60) DEF SoundTasks, TaskRecords, Statuses
<1> QED BY <1>2 DEF Blocked, x

LEMMA AskedUserSound == ASSUME NEW t \in SoundTasks PROVE AskedUser(t) \in SoundTasks
<1>1. \A e \in BOOLEAN : [t EXCEPT !.err = e, !.reco = TRUE] \in SoundTasks
  BY ZenonT(60) DEF SoundTasks, TaskRecords
<1>2. (t.err \/ ~t.reco) \in BOOLEAN
  OBVIOUS
<1> QED BY <1>1, <1>2, BlockedSound DEF AskedUser

LEMMA ClosedOutSound ==
  ASSUME NEW t \in SoundTasks, NEW s
  PROVE  ClosedOut(t, s) \in SoundTasks
<1> DEFINE x == Controlled(t, "waiting_executor", None)
           y == PausedTask(t)
<1>1. x \in SoundTasks /\ y \in SoundTasks /\ StoppedTask(t) \in SoundTasks
  BY ControlledSound, PausedSound, StoppedSound DEF Controls
<1> HIDE DEF x, y
<1>2. [x EXCEPT !.status = "waiting_executor", !.exec = "rest", !.reco = TRUE, !.err = FALSE]
        \in SoundTasks
  <2>1. x \in SoundTasks
    BY <1>1
  <2> QED BY <2>1, ZenonT(60) DEF SoundTasks, TaskRecords, Statuses
<1>3. [y EXCEPT !.err = FALSE] \in SoundTasks
  BY <1>1, ZenonT(60) DEF SoundTasks, TaskRecords
<1> QED BY <1>1, <1>2, <1>3 DEF ClosedOut, x, y

-----------------------------------------------------------------------------
(* The signals.                                                            *)

LEMMA LeastElement ==
  ASSUME NEW n \in Nat, NEW T \in SUBSET (1 .. n), T # {}
  PROVE  \E x \in T : \A y \in T : x <= y
<1> DEFINE Below(x) == {y \in T : y <= x}
           Sets == {Below(x) : x \in T}
<1>0. T \subseteq Nat
  OBVIOUS
<1>1. IsFiniteSet(T)
  <2>1. IsFiniteSet(1 .. n)
    BY FS_Interval
  <2> QED BY <2>1, FS_Subset
<1>2. Sets \subseteq FiniteSubsetsOf(T) /\ Sets # {}
  <2>1. \A x \in T : IsFiniteSet(Below(x)) /\ Below(x) \subseteq T
    BY <1>1, FS_Subset
  <2> QED BY <2>1 DEF FiniteSubsetsOf
<1>3. PICK S \in Sets : \A R \in Sets : ~ (<<R, S>> \in StrictSubsetOrdering(T))
  <2> HIDE DEF Sets
  <2> QED BY <1>2, FS_StrictSubsetOrderingWellFounded, WFMin
<1>4. PICK x \in T : S = Below(x)
  OBVIOUS
<1>5. ASSUME NEW y \in T, y < x PROVE FALSE
  <2>0. x \in Nat /\ y \in Nat
    BY <1>0
  <2>1. \A z \in T : z <= y => z <= x
    BY <1>0, <1>5, <2>0
  <2>2. ~ (x <= y) /\ x <= x
    BY <1>5, <2>0
  <2>3. Below(y) \subseteq Below(x) /\ Below(x) # Below(y)
    BY <2>1, <2>2
  <2>4. Below(y) \in SUBSET T /\ Below(x) \in SUBSET T
    OBVIOUS
  <2>5. <<Below(y), S>> \in StrictSubsetOrdering(T)
    <3> HIDE DEF Below
    <3> QED BY <1>4, <2>3, <2>4 DEF StrictSubsetOrdering
  <2> QED BY <1>3, <2>5
<1> QED BY <1>0, <1>5

LEMMA LengthsAreNatural ==
  ASSUME Types
  PROVE  Len(signals) \in Nat /\ Len(told) \in Nat
  BY LenProperties DEF Types

LEMMA RefsAreSignals ==
  ASSUME Types
  PROVE  Refs(Len(signals)) \subseteq Ids \cup {None}
  BY LengthsAreNatural, ControlBounds DEF Refs, Ids, Types

LEMMA PeekSound ==
  ASSUME Types, NEW epoch
  PROVE  Peek(epoch) \in Refs(Len(signals))
  BY DEF Types, SoundReg, SoundEntries, Peek, Refs

LEMMA SignalForSound ==
  ASSUME Types, NEW t, NEW epoch
  PROVE  SignalFor(t, epoch) \in Refs(Len(signals))
<1> DEFINE P == Pending(t)
<1>1. Len(signals) \in Nat /\ P \subseteq 1 .. Len(signals)
  BY LengthsAreNatural DEF Pending
<1>2. CASE P = {}
  BY <1>2, PeekSound DEF SignalFor, FirstPending, Refs
<1>3. CASE P # {}
  <2> HIDE DEF P
  <2>1. \E s \in P : \A r \in P : s <= r
    BY <1>1, <1>3, LeastElement
  <2>2. FirstPending(t) \in P
    BY <1>3, <2>1 DEF FirstPending, P
  <2> QED BY <1>1, <2>2, PeekSound DEF SignalFor, Refs
<1> QED BY <1>2, <1>3

LEMMA HeardSound == ASSUME Types PROVE Heard \in Refs(Len(signals))
  BY SignalForSound DEF Types, SoundExe, Heard

LEMMA ClearedSound ==
  ASSUME Types, NEW s, NEW epoch, s # None
  PROVE  SoundReg(Cleared(s, epoch), Len(signals))
<1>1. CASE reg = None
  BY <1>1 DEF SoundReg, Cleared, Peek
<1>2. CASE reg # None
  <2>1. reg \in SoundEntries(Len(signals))
    BY <1>2 DEF Types, SoundReg
  <2>2. [reg EXCEPT !.sig = None] \in SoundEntries(Len(signals))
    BY <2>1 DEF SoundEntries, Refs
  <2> QED BY <2>1, <2>2 DEF SoundReg, Cleared
<1> QED BY <1>1, <1>2

LEMMA EntriesAreNotNone ==
  ASSUME Types
  PROVE  /\ SoundEntries(Len(signals)) \subseteq Entries
         /\ \A r \in SoundEntries(Len(signals)) : r # None
<1>1. SoundEntries(Len(signals)) \subseteq Entries
  BY RefsAreSignals DEF SoundEntries, Entries
<1> QED BY <1>1, NoneIsNoEntry

LEMMA HeldSignals ==
  ASSUME Types
  PROVE  /\ exe.sig \in Refs(Len(signals)) /\ (reg # None => reg.sig \in Refs(Len(signals)))
         /\ \A c \in Callers : op[c].sig \in Refs(Len(signals))
  BY DEF Types, SoundExe, SoundReg, SoundEntries, SoundOp

LEMMA UnregisteredSound ==
  ASSUME Types
  PROVE  SoundReg(Unregistered, Len(signals))
  BY DEF Types, SoundReg, Unregistered

\* What is sound stays so when signals are published.
LEMMA StillSound ==
  ASSUME NEW n \in Nat, NEW m \in Nat, n <= m
  PROVE  /\ \A q : SoundOp(q, n) => SoundOp(q, m)
         /\ \A e : SoundExe(e, n) => SoundExe(e, m)
         /\ \A r : SoundReg(r, n) => SoundReg(r, m)
<1>1. Refs(n) \subseteq Refs(m)
  BY DEF Refs
<1> QED BY <1>1 DEF SoundOp, SoundExe, SoundReg, SoundEntries

-----------------------------------------------------------------------------
(* The types.                                                              *)

Inv == Types /\ Places /\ Telling /\ ToldOnce /\ EntryOfLiveExecutor /\ ToolCancelArrives

LEMMA OpMoves ==
  ASSUME Types, NEW c \in Callers, NEW q, NEW n \in Nat, Len(signals) <= n, SoundOp(q, n), Do(c, q)
  PROVE  /\ op' \in [Callers -> RequestRecords]
         /\ \A d \in Callers : SoundOp(op'[d], n)
<1>1. \A d \in Callers : SoundOp(op[d], n)
  BY LengthsAreNatural, StillSound DEF Types
<1> QED BY <1>1 DEF Types, Do, SoundOp

LEMMA NoRequestSound == ASSUME NEW n \in Nat PROVE SoundOp(NoRequest, n)
  BY NewTaskSound DEF SoundOp, NoRequest, RequestRecords, RequestPcs, Refs, SoundTasks

LEMMA NoExecutorSound == ASSUME NEW n \in Nat PROVE SoundExe(NoExecutor, n)
  BY NewTaskSound, ControlBounds
     DEF SoundExe, NoExecutor, ExecutorRecords, ExecutorPcs, Boundaries, Refs, SoundTasks

\* The executor goes on with what it has, hears at a boundary, or reads a task.
LEMMA GoesSound ==
  ASSUME Types, NEW pc \in ExecutorPcs, NEW n \in Nat, Len(signals) <= n
  PROVE  SoundExe([exe EXCEPT !.pc = pc], n)
<1>1. SoundExe(exe, n)
  BY LengthsAreNatural, StillSound DEF Types
<1> QED BY <1>1 DEF SoundExe, ExecutorRecords

LEMMA HearsSound ==
  ASSUME Types, NEW at \in Boundaries, NEW t \in SoundTasks, NEW s \in Refs(Len(signals))
  PROVE  SoundExe([exe EXCEPT !.pc = "hear", !.at = at, !.copy = t, !.sig = s], Len(signals))
<1>1. t \in TaskRecords /\ s \in Ids \cup {None}
  BY RefsAreSignals DEF SoundTasks
<1>2. exe \in ExecutorRecords
  BY DEF Types, SoundExe
<1> QED BY <1>1, <1>2 DEF SoundExe, ExecutorRecords, ExecutorPcs

LEMMA ReadsSound ==
  ASSUME Types, NEW pc \in ExecutorPcs, NEW t \in SoundTasks, NEW s \in Refs(Len(signals))
  PROVE  SoundExe([exe EXCEPT !.pc = pc, !.sig = s, !.copy = t], Len(signals))
<1>1. t \in TaskRecords /\ s \in Ids \cup {None}
  BY RefsAreSignals DEF SoundTasks
<1>2. exe \in ExecutorRecords
  BY DEF Types, SoundExe
<1> QED BY <1>1, <1>2 DEF SoundExe, ExecutorRecords

\* A signal is closed, or one is published.
LEMMA ClosesSignal ==
  ASSUME Types, NEW s \in 1 .. Len(signals), NEW u \in {"observed", "consumed"},
         signals' = [signals EXCEPT ![s].state = u]
  PROVE  signals' \in Seq(SignalRecords) /\ Len(signals') = Len(signals)
<1>1. signals[s] \in SignalRecords
  BY ElementOfSeq DEF Types
<1>2. [signals[s] EXCEPT !.state = u] \in SignalRecords
  BY <1>1 DEF SignalRecords
<1>3. signals' = [signals EXCEPT ![s] = [signals[s] EXCEPT !.state = u]]
  OBVIOUS
<1> QED BY <1>2, <1>3, ExceptSeq DEF Types

LEMMA AppendsSignal ==
  ASSUME Types, NEW r \in SignalRecords, Len(signals) < MaxSignals, signals' = Append(signals, r)
  PROVE  /\ signals' \in Seq(SignalRecords)
         /\ Len(signals') = Len(signals) + 1 /\ Len(signals') <= MaxSignals
         /\ Len(signals') \in Ids
<1>1. signals' \in Seq(SignalRecords) /\ Len(signals') = Len(signals) + 1
  BY AppendProperties DEF Types
<1> QED BY <1>1, LengthsAreNatural, ControlBounds DEF Ids

\* What becomes of each signal when one is closed, or published.
LEMMA StatesClosed ==
  ASSUME Types, NEW s \in 1 .. Len(signals), NEW u \in {"observed", "consumed"},
         signals' = [signals EXCEPT ![s].state = u]
  PROVE  \A r \in 1 .. Len(signals) :
           signals'[r].state = IF r = s THEN u ELSE signals[r].state
<1> DEFINE x == [signals[s] EXCEPT !.state = u]
<1>1. signals[s] \in SignalRecords
  BY ElementOfSeq DEF Types
<1>2. x \in SignalRecords /\ x.state = u
  BY <1>1 DEF SignalRecords
<1>3. signals' = [signals EXCEPT ![s] = x]
  OBVIOUS
<1> HIDE DEF x
<1>4. \A r \in 1 .. Len(signals) : signals'[r] = IF r = s THEN x ELSE signals[r]
  BY <1>2, <1>3, ExceptSeq DEF Types
<1> QED BY <1>2, <1>4

LEMMA StatesAppended ==
  ASSUME Types, NEW r, signals' = Append(signals, r)
  PROVE  /\ Len(signals) \in Nat /\ Len(signals') = Len(signals) + 1
         /\ \A i \in 1 .. Len(signals) : signals'[i] = signals[i]
         /\ signals'[Len(signals) + 1] = r
<1>1. signals \in Seq(SignalRecords) /\ Len(signals) \in Nat
  BY LengthsAreNatural DEF Types
<1>2. signals \in Seq(SignalRecords \cup {r}) /\ r \in SignalRecords \cup {r}
  <2>1. \A i \in 1 .. Len(signals) : signals[i] \in SignalRecords
    BY <1>1, ElementOfSeq
  <2> QED BY <1>1, <2>1
<1> QED BY <1>1, <1>2, AppendProperties

\* Of the executor's actions: those that only move it, and those that write.
LEMMA MovesTypes ==
  ASSUME Types, NEW pc \in ExecutorPcs, Goes(pc),
         task' \in SoundTasks, cell' \in CellRecords,
         signals' = signals, told' = told, SoundReg(reg', Len(signals)),
         UNCHANGED <<sup, op, count>>
  PROVE  Types'
<1>1. SoundExe(exe', Len(signals'))
  BY GoesSound, LengthsAreNatural DEF Goes
<1>2. SoundReg(reg', Len(signals'))
  OBVIOUS
<1> QED BY <1>1, <1>2 DEF Types

LEMMA BecomesTypes ==
  ASSUME Types, SoundExe(exe', Len(signals)),
         task' \in SoundTasks, cell' \in CellRecords,
         signals' = signals, told' = told, SoundReg(reg', Len(signals)),
         UNCHANGED <<sup, op, count>>
  PROVE  Types'
<1>1. SoundExe(exe', Len(signals')) /\ SoundReg(reg', Len(signals'))
  OBVIOUS
<1> QED BY <1>1 DEF Types

LEMMA Kept ==
  ASSUME Types
  PROVE  task \in SoundTasks /\ cell \in CellRecords /\ SoundReg(reg, Len(signals))
         /\ exe.copy \in SoundTasks /\ exe \in ExecutorRecords /\ None \in Refs(Len(signals))
  BY DEF Types, SoundExe, Refs

LEMMA HearingTypes ==
  ASSUME Types, NEW at \in Boundaries, NEW t \in SoundTasks, NEW s \in Refs(Len(signals)),
         Hears(at, t, s), task' \in SoundTasks, cell' \in CellRecords,
         signals' = signals, told' = told, reg' = reg, UNCHANGED <<sup, op, count>>
  PROVE  Types'
  BY HearsSound, BecomesTypes, Kept DEF Hears

LEMMA ClaimedSound ==
  ASSUME Types
  PROVE  ClaimedTask \in SoundTasks
<1>1. task.ctl \in Controls /\ task \in SoundTasks /\ exe.epoch \in 0 .. MaxCells
  BY TaskFields, Kept DEF ExecutorRecords
<1>2. \A u \in Controls, e \in 0 .. MaxCells :
        [task EXCEPT !.status = "running", !.exec = "running", !.epoch = e,
           !.reco = FALSE, !.err = FALSE, !.ctl = u] \in SoundTasks
  BY <1>1, ZenonT(60) DEF SoundTasks, TaskRecords, Statuses
<1>3. (IF task.ctl = "resume_requested" THEN "running" ELSE task.ctl) \in Controls
  BY <1>1 DEF Controls
<1>4. ClaimedTask = [task EXCEPT !.status = "running", !.exec = "running",
                       !.epoch = exe.epoch, !.reco = FALSE, !.err = FALSE,
                       !.ctl = IF task.ctl = "resume_requested" THEN "running" ELSE task.ctl]
  BY DEF ClaimedTask
<1> QED BY <1>1, <1>2, <1>3, <1>4

LEMMA StartTypes ==
  ASSUME Inv, Begin \/ Claim \/ ClaimRaises \/ Step
  PROVE  Types'
<1>0. Types
  BY DEF Inv
<1>1. CASE Begin
  <2>1. CASE Goes("end") /\ UNCHANGED reg
    BY <1>0, <1>1, <2>1, MovesTypes, Kept DEF Begin, ExecutorPcs
  <2>2. CASE /\ task.epoch < MaxCells
             /\ reg' = [cell |-> cell.id, epoch |-> task.epoch + 1, sig |-> None, begun |-> FALSE]
             /\ Becomes([exe EXCEPT !.pc = "claim", !.epoch = task.epoch + 1])
    <3>1. task.epoch + 1 \in 0 .. MaxCells /\ task.epoch + 1 \in Nat
      BY <1>0, <2>2, TaskFields, Kept, ControlBounds
    <3>2. cell.id \in Cells
      BY <1>0, <1>1, Kept DEF Inv, Places, Begin, CellRecords
    <3>3. SoundReg(reg', Len(signals))
      BY <2>2, <3>1, <3>2 DEF SoundReg, SoundEntries, Refs
    <3>4. SoundExe(exe', Len(signals))
      BY <1>0, <2>2, <3>1, Kept DEF Types, SoundExe, ExecutorRecords, ExecutorPcs, Becomes
    <3> QED BY <1>0, <1>1, <3>3, <3>4, BecomesTypes, Kept DEF Begin
  <2> QED BY <1>1, <2>1, <2>2 DEF Begin
<1>2. CASE Claim
  <2>1. CASE Goes("end") /\ UNCHANGED <<task, reg>>
    BY <1>0, <1>2, <2>1, MovesTypes, Kept DEF Claim, ExecutorPcs
  <2>2. CASE ~Halts(task)
    <3>1. /\ task' = ClaimedTask /\ exe' = [exe EXCEPT !.pc = "step", !.copy = task']
          /\ reg' = [reg EXCEPT !.begun = TRUE] /\ exe.pc = "claim"
      BY <1>2, <2>2 DEF Claim, Becomes
    <3>2. task' \in SoundTasks
      BY <1>0, <3>1, ClaimedSound
    <3>3. SoundExe(exe', Len(signals))
      <4>1. task' \in TaskRecords
        BY <3>2 DEF SoundTasks
      <4>2. exe'.sig = exe.sig /\ exe'.copy = task' /\ exe' \in ExecutorRecords
        BY <1>0, <3>1, <4>1, Kept DEF ExecutorRecords, ExecutorPcs
      <4> QED BY <1>0, <3>2, <4>2 DEF Types, SoundExe
    <3>4. SoundReg(reg', Len(signals))
      <4>1. reg \in SoundEntries(Len(signals))
        BY <1>0, <3>1, Kept DEF Inv, EntryOfLiveExecutor, Registered, SoundReg
      <4> QED BY <3>1, <4>1 DEF SoundReg, SoundEntries
    <3> QED BY <1>0, <1>2, <3>2, <3>3, <3>4, BecomesTypes, Kept DEF Claim
  <2> QED BY <1>2, <2>1, <2>2 DEF Claim
<1>4. CASE ClaimRaises
  <2>1. task' \in SoundTasks
    BY <1>0, <1>4, ClaimedSound, Kept DEF ClaimRaises
  <2> QED BY <1>0, <1>4, <2>1, MovesTypes, Kept DEF ClaimRaises, ExecutorPcs
<1>3. CASE Step
  <2>1. CASE Goes("budget") \/ Goes("clear")
    BY <1>0, <1>3, <2>1, MovesTypes, Kept DEF Step, ExecutorPcs
  <2>2. CASE ~OutOfSteps /\ exe' = [exe EXCEPT !.pc = "hear", !.at = "step_start", !.steps = @ + 1]
    <3>1. exe.steps + 1 \in 0 .. MaxSteps
      BY <1>0, <2>2, Kept, ControlBounds DEF ExecutorRecords, OutOfSteps
    <3>2. SoundExe(exe', Len(signals))
      BY <1>0, <2>2, <3>1 DEF Types, SoundExe, ExecutorRecords, ExecutorPcs, Boundaries
    <3> QED BY <1>0, <1>3, <3>2, BecomesTypes, Kept DEF Step
  <2> QED BY <1>3, <2>1, <2>2 DEF Step, Becomes
<1> QED BY <1>1, <1>2, <1>3, <1>4

LEMMA SignalTypes ==
  ASSUME Inv, Hear \/ Tell \/ Interrupted \/ ToolInterrupted
  PROVE  Types'
<1>0. Types
  BY DEF Inv
<1>1. CASE Hear /\ Known(Heard)
  <2>1. After(exe.at) \in ExecutorPcs
    BY <1>0, <1>1, Kept
       DEF Inv, Places, Hear, After, ExecutorRecords, Boundaries, Interrupts, ExecutorPcs
  <2>2. SoundExe([exe EXCEPT !.pc = After(exe.at), !.sig = None], Len(signals))
    BY <1>0, <2>1, Kept DEF Types, SoundExe, ExecutorRecords, Refs
  <2>3. SoundReg(reg', Len(signals))
    BY <1>0, <1>1, ClearedSound, Kept DEF Hear
  <2> QED BY <1>0, <1>1, <2>2, <2>3, BecomesTypes, Kept DEF Hear, Becomes
<1>2. CASE Hear /\ ~Known(Heard)
  <2>1. Heard \in 1 .. Len(signals)
    BY <1>0, <1>2, HeardSound DEF Known, Refs
  <2>2. signals' = [signals EXCEPT ![Heard].state = "observed"]
        /\ exe' = [exe EXCEPT !.pc = "tell", !.sig = Heard, !.copy = task]
    BY <1>2 DEF Hear, Becomes
  <2>3. signals' \in Seq(SignalRecords) /\ Len(signals') = Len(signals)
    BY <1>0, <2>1, <2>2, ClosesSignal
  <2>4. SoundExe(exe', Len(signals))
    BY <1>0, <2>1, <2>2, ReadsSound, Kept DEF Refs, ExecutorPcs
  <2>5. UNCHANGED <<task, told, reg, cell, sup, op, count>>
    BY <1>2 DEF Hear
  <2> QED BY <1>0, <2>3, <2>4, <2>5 DEF Types
<1>3. CASE Tell
  <2> DEFINE ctl == IF signals[exe.sig].kind = "stop" THEN "stop_requested" ELSE "pause_requested"
             pc == IF exe.at = "step_start" THEN "prepare" ELSE "step"
  <2>1. exe.sig \in 1 .. Len(signals) /\ exe.sig \in Ids
    BY <1>0, <1>3, RefsAreSignals, NoneIsNoValue
       DEF Inv, Telling, Tell, Types, SoundExe, Refs
  <2>2. task' \in SoundTasks
    <3>1. ctl \in Controls /\ Visible(exe.copy) \in Controls
      BY <1>0, Kept, TaskFields DEF Controls, Visible
    <3>2. \A u, d \in Controls, r \in Ids :
            [exe.copy EXCEPT !.ctl = u, !.sig = r, !.dlv = d] \in SoundTasks
      <4> DEFINE x == exe.copy
      <4>1. x \in SoundTasks
        BY <1>0, Kept
      <4> HIDE DEF x
      <4>2. \A u, d \in Controls, r \in Ids : [x EXCEPT !.ctl = u, !.sig = r, !.dlv = d] \in SoundTasks
        BY <4>1, ZenonT(60) DEF SoundTasks, TaskRecords
      <4> QED BY <4>2 DEF x
    <3> QED BY <1>3, <2>1, <3>1, <3>2 DEF Tell
  <2>3. SoundExe(exe', Len(signals))
    <3>1. pc \in ExecutorPcs /\ exe' = [exe EXCEPT !.pc = pc, !.sig = None, !.copy = task']
      BY <1>3 DEF Tell, Becomes, ExecutorPcs
    <3> QED BY <1>0, <2>2, <3>1, ReadsSound, Kept
  <2>4. SoundReg(reg', Len(signals))
    BY <1>0, <1>3, ClearedSound DEF Inv, Telling, Tell
  <2>5. told' \in Seq(Ids)
    BY <1>0, <1>3, <2>1, AppendProperties DEF Tell, Types
  <2>6. UNCHANGED <<signals, cell, sup, op, count>>
    BY <1>3 DEF Tell
  <2> QED BY <1>0, <2>2, <2>3, <2>4, <2>5, <2>6 DEF Types
<1>4. CASE Interrupted
  <2>1. cell' \in CellRecords
    BY <1>0, <1>4, Kept DEF Interrupted, CellRecords
  <2> QED BY <1>0, <1>4, <2>1, HearingTypes, SignalForSound, Kept DEF Interrupted, Boundaries
<1>5. CASE ToolInterrupted
  BY <1>0, <1>5, HearingTypes, SignalForSound, Kept DEF ToolInterrupted, Boundaries
<1> QED BY <1>1, <1>2, <1>3, <1>4, <1>5

LEMMA ModelTypes ==
  ASSUME Inv, \/ Prepare \/ Cancelled \/ Compile \/ ModelCancelled \/ ModelFails \/ ModelAnswers
              \/ Recover \/ Acted
  PROVE  Types'
<1>0. Types
  BY DEF Inv
<1>1. CASE Prepare
  <2>1. exe' = [exe EXCEPT !.pc = "compile", !.copy = task]
    BY <1>1 DEF Prepare, Becomes
  <2>2. SoundExe(exe', Len(signals))
    <3>1. task \in TaskRecords
      BY <1>0, Kept DEF SoundTasks
    <3> QED BY <1>0, <2>1, <3>1, Kept DEF Types, SoundExe, ExecutorRecords, ExecutorPcs
  <2> QED BY <1>0, <1>1, <2>2, BecomesTypes, Kept DEF Prepare
<1>2. CASE Cancelled \/ ModelCancelled
  BY <1>0, <1>2, MovesTypes, Kept DEF Cancelled, ModelCancelled, ExecutorPcs
<1>3. CASE Compile
  <2> DEFINE x == exe.copy
  <2>1. x \in SoundTasks /\ exe.epoch \in 0 .. MaxCells
    BY <1>0, Kept DEF ExecutorRecords
  <2> HIDE DEF x
  <2>2. [x EXCEPT !.epoch = exe.epoch] \in SoundTasks
    BY <2>1, ZenonT(60) DEF SoundTasks, TaskRecords
  <2>3. task' \in SoundTasks
    BY <1>3, <2>2 DEF Compile, x
  <2> QED BY <1>0, <1>3, <2>3, HearingTypes, Kept DEF Compile, Boundaries
<1>4. CASE ModelFails
  BY <1>0, <1>4, MovesTypes, Kept DEF ModelFails, ExecutorPcs
<1>5. CASE ModelAnswers
  <2>1. PICK a \in Answers : exe' = [exe EXCEPT !.pc = "acted", !.answer = a]
    BY <1>5 DEF ModelAnswers, Becomes
  <2>2. SoundExe(exe', Len(signals))
    BY <1>0, <2>1 DEF Types, SoundExe, ExecutorRecords, ExecutorPcs
  <2> QED BY <1>0, <1>5, <2>2, BecomesTypes, Kept DEF ModelAnswers
<1>6. CASE Recover
  <2> DEFINE x == exe.copy
  <2>1. x \in SoundTasks
    BY <1>0, Kept
  <2> HIDE DEF x
  <2>2. [x EXCEPT !.status = "blocked", !.exec = "rest", !.reco = TRUE, !.err = TRUE] \in SoundTasks
    BY <2>1, ZenonT(60) DEF SoundTasks, TaskRecords, Statuses
  <2>3. task' \in SoundTasks
    BY <1>6, <2>2 DEF Recover, x
  <2> QED BY <1>0, <1>6, <2>3, MovesTypes, Kept DEF Recover, ExecutorPcs
<1>7. CASE Acted
  <2>1. CASE Halts(task)
    BY <1>0, <1>7, <2>1, MovesTypes, Kept DEF Acted, ExecutorPcs
  <2>2. CASE ~Halts(task)
    <3>1. BoundaryAfter \in Boundaries
      BY <1>7 DEF Acted, BoundaryAfter, Boundaries
    <3> QED BY <1>0, <1>7, <2>2, <3>1, HearingTypes, Kept DEF Acted
  <2> QED BY <2>1, <2>2
<1> QED BY <1>1, <1>2, <1>3, <1>4, <1>5, <1>6, <1>7

LEMMA ToolTypes ==
  ASSUME Inv, ToolAdmitted \/ ToolStarts \/ ToolAttaches \/ ToolEnds \/ ToolCancelled
  PROVE  Types'
<1>0. Types
  BY DEF Inv
<1>1. CASE ToolAdmitted
  <2> DEFINE pc == IF Halts(task) THEN "recover" ELSE "start"
  <2>1. pc \in ExecutorPcs /\ exe' = [exe EXCEPT !.pc = pc, !.copy = task]
    BY <1>1 DEF ToolAdmitted, Becomes, ExecutorPcs
  <2> HIDE DEF pc
  <2>2. SoundExe(exe', Len(signals))
    <3>1. task \in TaskRecords
      BY <1>0, Kept DEF SoundTasks
    <3> QED BY <1>0, <2>1, <3>1, Kept DEF Types, SoundExe, ExecutorRecords
  <2> QED BY <1>0, <1>1, <2>2, BecomesTypes, Kept DEF ToolAdmitted
<1>2. \A pc \in ExecutorPcs, t \in {"none", "running", "signalled", "cancelled"} :
        Tool(pc, t) => Types'
  BY <1>0, MovesTypes, Kept DEF Tool, CellRecords
<1>3. Attached \in {"none", "running", "signalled", "cancelled"}
  BY <1>0, Kept DEF Attached, CellRecords
<1>4. CASE ToolStarts \/ ToolAttaches \/ ToolEnds
  BY <1>2, <1>3, <1>4 DEF ToolStarts, ToolAttaches, ToolEnds, ExecutorPcs
<1>5. CASE ToolCancelled
  <2>1. \A left \in BOOLEAN : [cell EXCEPT !.tool = "none", !.cancel = left] \in CellRecords
    BY <1>0, Kept DEF CellRecords
  <2>2. (cell.cancel /\ cell.tool = "cancelled") \in BOOLEAN
    OBVIOUS
  <2>3. cell' \in CellRecords
    BY <1>5, <2>1, <2>2 DEF ToolCancelled
  <2> QED BY <1>0, <1>5, <2>3, MovesTypes, Kept DEF ToolCancelled, ExecutorPcs
<1> QED BY <1>1, <1>4, <1>5

LEMMA DecideTypes ==
  ASSUME Inv, Decide \/ CloseOut \/ Refused \/ Budget \/ Exhausted
  PROVE  Types'
<1>0. Types
  BY DEF Inv
<1> DEFINE x == exe.copy
<1>1. x \in SoundTasks
  BY <1>0, Kept
<1> HIDE DEF x
<1>2. CASE Decide
  <2>1. UNCHANGED <<told, reg, cell, sup, op, count>>
    BY <1>2 DEF Decide
  <2>2. \A t \in SoundTasks : Ends(t) /\ signals' = signals => Types'
    BY <1>0, <2>1, MovesTypes, Kept DEF Ends, ExecutorPcs
  <2>3. [x EXCEPT !.status = "completed"] \in SoundTasks
    BY <1>1, ZenonT(60) DEF SoundTasks, TaskRecords, Statuses
  <2>4. CASE /\ LastTold # None
             /\ signals' = [signals EXCEPT ![LastTold].state = "consumed"]
             /\ Goes("closing")
             /\ UNCHANGED task
    <3>1. LastTold \in 1 .. Len(signals)
      <4>1. Len(told) \in 1 .. Len(told)
        BY <1>0, <2>4, LengthsAreNatural, EmptySeq DEF LastTold, Types
      <4>2. LastTold \in Told /\ LastTold \in Ids
        BY <1>0, <2>4, <4>1, ElementOfSeq DEF LastTold, Told, Types
      <4> QED BY <4>2 DEF Inv, ToldOnce, Ids
    <3>2. signals' \in Seq(SignalRecords) /\ Len(signals') = Len(signals)
      BY <1>0, <2>4, <3>1, ClosesSignal
    <3>3. SoundExe(exe', Len(signals))
      <4>1. Len(signals) \in Nat /\ Len(signals) <= Len(signals)
        BY <1>0, LengthsAreNatural
      <4>2. SoundExe([exe EXCEPT !.pc = "closing"], Len(signals))
        BY <1>0, <4>1, GoesSound DEF ExecutorPcs
      <4> QED BY <2>4, <4>2 DEF Goes
    <3> QED BY <1>0, <2>1, <2>4, <3>2, <3>3 DEF Types
  <2>5. CASE Goes("refused") /\ UNCHANGED <<task, signals>>
    BY <1>0, <2>1, <2>5, MovesTypes, Kept DEF ExecutorPcs
  <2>6. CASE Ends(AskedUser(x)) /\ UNCHANGED signals
    BY <1>1, <2>2, <2>6, AskedUserSound
  <2>7. CASE Ends(Blocked(x)) /\ UNCHANGED signals
    BY <1>1, <2>2, <2>7, BlockedSound
  <2>8. CASE Ends([x EXCEPT !.status = "completed"]) /\ UNCHANGED signals
    BY <2>2, <2>3, <2>8
  <2> QED BY <1>2, <2>4, <2>5, <2>6, <2>7, <2>8 DEF Decide, x
<1>3. CASE CloseOut
  <2>1. ClosedOut(x, LastTold) \in SoundTasks
    BY <1>1, ClosedOutSound
  <2> QED BY <1>0, <1>3, <2>1, MovesTypes, Kept DEF CloseOut, Ends, ExecutorPcs, x
<1>4. CASE Refused
  BY <1>0, <1>4, MovesTypes, Kept DEF Refused, ExecutorPcs
<1>5. CASE Budget
  <2>1. [x EXCEPT !.status = "waiting_executor", !.exec = "rest", !.reco = TRUE, !.err = TRUE]
          \in SoundTasks
    BY <1>1, ZenonT(60) DEF SoundTasks, TaskRecords, Statuses
  <2>2. task' \in SoundTasks
    BY <1>5, <2>1 DEF Budget, x
  <2>3. exe' = [exe EXCEPT !.pc = "exhausted", !.at = "step_budget"]
    BY <1>5 DEF Budget, Becomes
  <2>4. SoundExe(exe', Len(signals))
    BY <1>0, <2>3 DEF Types, SoundExe, ExecutorRecords, ExecutorPcs, Boundaries
  <2> QED BY <1>0, <1>5, <2>2, <2>4, BecomesTypes, Kept DEF Budget
<1>6. CASE Exhausted
  <2>1. [kind |-> "budget_exhausted", state |-> "observed", scope |-> x.scope] \in SignalRecords
    BY <1>1, TaskFields DEF SignalRecords
  <2>2. /\ signals' \in Seq(SignalRecords)
        /\ Len(signals') = Len(signals) + 1 /\ Len(signals') <= MaxSignals
        /\ Len(signals') \in Ids
    BY <1>0, <1>6, <2>1, AppendsSignal DEF Exhausted, x
  <2>3. told' \in Seq(Ids)
    BY <1>0, <1>6, <2>2, AppendProperties DEF Exhausted, Types
  <2>4. Len(signals) \in Nat /\ Len(signals') \in Nat /\ Len(signals) <= Len(signals')
    BY <1>0, <2>2, LengthsAreNatural
  <2>5. SoundExe(exe', Len(signals'))
    BY <1>0, <1>6, <2>4, GoesSound DEF Exhausted, Goes, ExecutorPcs
  <2>6. SoundReg(reg, Len(signals')) /\ \A c \in Callers : SoundOp(op[c], Len(signals'))
    BY <1>0, <2>4, StillSound DEF Types
  <2>7. UNCHANGED <<task, reg, cell, sup, op, count>>
    BY <1>6 DEF Exhausted
  <2> QED BY <1>0, <2>2, <2>3, <2>5, <2>6, <2>7 DEF Types
<1> QED BY <1>2, <1>3, <1>4, <1>5, <1>6

LEMMA EndTypes ==
  ASSUME Inv, Raises \/ MarkFailed \/ Clear \/ End
  PROVE  Types'
<1>0. Types
  BY DEF Inv
<1>1. CASE Raises \/ Clear
  BY <1>0, <1>1, MovesTypes, UnregisteredSound, Kept DEF Raises, Clear, ExecutorPcs
<1>2. CASE MarkFailed
  <2>1. [task EXCEPT !.status = "executor_failed", !.exec = "rest", !.lease = FALSE,
                     !.reco = TRUE, !.err = TRUE, !.scope = 0] \in SoundTasks
    BY <1>0, Kept, ZenonT(60) DEF SoundTasks, TaskRecords, Statuses
  <2> QED BY <1>0, <1>2, <2>1, MovesTypes, Kept DEF MarkFailed, ExecutorPcs
<1>3. CASE End
  <2>1. cell' \in CellRecords
    BY <1>0, <1>3, Kept DEF End, CellRecords
  <2>2. SoundExe(exe', Len(signals))
    <3>1. SoundExe(NoExecutor, Len(signals)) /\ SoundExe([NoExecutor EXCEPT !.pc = "begin"], Len(signals))
      BY <1>0, LengthsAreNatural, NoExecutorSound DEF SoundExe, ExecutorRecords, ExecutorPcs
    <3> QED BY <1>3, <3>1 DEF End, Becomes
  <2> QED BY <1>0, <1>3, <2>1, <2>2, BecomesTypes, Kept DEF End
<1> QED BY <1>1, <1>2, <1>3

\* Of the requests: a step that publishes nothing leaves c with request q.
LEMMA RequestMoves ==
  ASSUME Types, NEW c \in Callers, NEW q, SoundOp(q, Len(signals)), Do(c, q),
         task' \in SoundTasks, cell' \in CellRecords, sup' \in Callers \cup {None},
         SoundReg(reg', Len(signals)), SoundExe(exe', Len(signals)),
         count' \in [requests : Nat, crashes : Nat],
         signals' = signals, told' = told
  PROVE  Types'
<1>1. Len(signals) \in Nat /\ Len(signals) <= Len(signals)
  BY LengthsAreNatural
<1>2. op' \in [Callers -> RequestRecords] /\ \A d \in Callers : SoundOp(op'[d], Len(signals))
  BY <1>1, OpMoves
<1>3. \A d \in Callers : SoundOp(op'[d], Len(signals'))
  BY <1>2
<1>4. SoundReg(reg', Len(signals')) /\ SoundExe(exe', Len(signals'))
  OBVIOUS
<1> QED BY <1>2, <1>3, <1>4 DEF Types

LEMMA OpSound ==
  ASSUME Types, NEW c \in Callers, NEW pc \in RequestPcs
  PROVE  /\ SoundOp(op[c], Len(signals)) /\ SoundOp([op[c] EXCEPT !.pc = pc], Len(signals))
         /\ SoundOp(NoRequest, Len(signals))
         /\ op[c].copy \in SoundTasks /\ op[c].sig \in Refs(Len(signals))
<1>1. SoundOp(op[c], Len(signals))
  BY DEF Types
<1>2. SoundOp([op[c] EXCEPT !.pc = pc], Len(signals))
  BY <1>1 DEF SoundOp, RequestRecords
<1> QED BY <1>1, <1>2, NoRequestSound, LengthsAreNatural DEF SoundOp

LEMMA Kept2 ==
  ASSUME Types
  PROVE  /\ sup \in Callers \cup {None} /\ SoundExe(exe, Len(signals))
         /\ count \in [requests : Nat, crashes : Nat]
  BY DEF Types

LEMMA RequestTypes ==
  ASSUME Inv, NEW c \in Callers, Pause(c) \/ Stop(c) \/ Resume(c) \/ Launch(c)
  PROVE  Types'
<1>0. Types
  BY DEF Inv
<1>1. /\ count' \in [requests : Nat, crashes : Nat]
      /\ UNCHANGED <<task, signals, told, reg, cell, sup, exe>>
  BY <1>0, Kept2 DEF Pause, Stop, Resume, Launch, Request
<1>2. \A pc \in RequestPcs, k \in {"pause", "stop", "resume"}, t \in SoundTasks :
        SoundOp([NoRequest EXCEPT !.pc = pc, !.kind = k, !.copy = t], Len(signals))
  BY DEF SoundOp, NoRequest, RequestRecords, SoundTasks, Refs
<1>3. \A q : SoundOp(q, Len(signals)) /\ Do(c, q) => Types'
  BY <1>0, <1>1, RequestMoves, Kept, Kept2
<1>4. CASE Pause(c)
  BY <1>0, <1>2, <1>3, <1>4, Kept, PausedSound DEF Pause, RequestPcs
<1>5. CASE Stop(c)
  BY <1>0, <1>2, <1>3, <1>5, Kept, StoppedSound DEF Stop, RequestPcs
<1>6. CASE Resume(c)
  <2> DEFINE x == Controlled(task, "resume_requested", None)
             y == [x EXCEPT !.status = "waiting_executor", !.exec = "rest", !.reco = TRUE,
                            !.err = @ \/ task.status = "blocked"]
  <2>1. x \in SoundTasks
    BY <1>0, Kept, ControlledSound DEF Controls
  <2> HIDE DEF x
  <2>2. \A e \in BOOLEAN : [x EXCEPT !.status = "waiting_executor", !.exec = "rest",
                              !.reco = TRUE, !.err = e] \in SoundTasks
    BY <2>1, ZenonT(60) DEF SoundTasks, TaskRecords, Statuses
  <2>3. (x.err \/ task.status = "blocked") \in BOOLEAN
    OBVIOUS
  <2>4. y \in SoundTasks
    BY <2>2, <2>3
  <2> HIDE DEF y
  <2>5. SoundOp([NoRequest EXCEPT !.pc = "write", !.copy = y], Len(signals))
    BY <2>4 DEF SoundOp, NoRequest, RequestRecords, RequestPcs, SoundTasks, Refs
  <2>6. Do(c, [NoRequest EXCEPT !.pc = "write", !.copy = y])
    BY <1>6 DEF Resume, x, y
  <2> QED BY <1>3, <2>5, <2>6
<1>7. CASE Launch(c)
  <2>1. SoundOp([NoRequest EXCEPT !.pc = "check"], Len(signals))
    BY <1>0, NoRequestSound, LengthsAreNatural DEF SoundOp, NoRequest, RequestRecords, RequestPcs
  <2> QED BY <1>3, <1>7, <2>1 DEF Launch
<1> QED BY <1>4, <1>5, <1>6, <1>7

LEMMA DeliveryTypes ==
  ASSUME Inv, NEW c \in Callers,
         Publish(c) \/ Signal(c) \/ CancelTools(c) \/ Cancel(c) \/ Finish(c) \/ Write(c)
  PROVE  Types'
<1>0. Types
  BY DEF Inv
<1>1. CASE Publish(c)
  <2> DEFINE scope == IF Claimed THEN cell.id ELSE task.scope
             r == [kind |-> op[c].kind, state |-> "pending", scope |-> scope]
             rec == IF reg = None THEN None ELSE reg.cell
             q == [op[c] EXCEPT !.pc = "signal", !.sig = Len(signals'), !.rec = rec]
  <2>0. /\ Len(signals) < MaxSignals /\ signals' = Append(signals, r)
        /\ Do(c, q) /\ UNCHANGED <<task, told, reg, cell, sup, exe, count>>
    BY <1>1 DEF Publish
  <2>1. scope \in Cells \cup {0}
    BY <1>0, Kept, TaskFields DEF CellRecords
  <2>2. rec \in Cells \cup {None}
    BY <1>0, Kept DEF SoundReg, SoundEntries
  <2> HIDE DEF scope, rec
  <2>3. r \in SignalRecords
    <3>1. op[c].kind \in {"pause", "stop"}
      BY <1>0, <1>1 DEF Inv, Places, Publish, Types, RequestRecords
    <3> QED BY <2>1, <3>1 DEF SignalRecords
  <2> HIDE DEF r
  <2>4. /\ signals' \in Seq(SignalRecords)
        /\ Len(signals') = Len(signals) + 1 /\ Len(signals') <= MaxSignals
        /\ Len(signals') \in Ids
    BY <1>0, <2>0, <2>3, AppendsSignal
  <2>5. Len(signals) \in Nat /\ Len(signals') \in Nat /\ Len(signals) <= Len(signals')
    BY <1>0, <2>4, LengthsAreNatural
  <2>6. SoundOp(q, Len(signals'))
    <3>1. op[c] \in RequestRecords /\ op[c].copy \in SoundTasks
      BY <1>0 DEF Types, SoundOp
    <3>2. Len(signals') \in Refs(Len(signals'))
      BY <2>5, <2>4 DEF Refs, Ids
    <3> QED BY <2>2, <2>4, <3>1, <3>2 DEF SoundOp, RequestRecords, RequestPcs
  <2> HIDE DEF q
  <2>7. op' \in [Callers -> RequestRecords] /\ \A d \in Callers : SoundOp(op'[d], Len(signals'))
    BY <1>0, <2>0, <2>5, <2>6, OpMoves
  <2>8. SoundReg(reg, Len(signals')) /\ SoundExe(exe, Len(signals'))
    BY <1>0, <2>5, StillSound DEF Types
  <2> QED BY <1>0, <2>0, <2>4, <2>7, <2>8 DEF Types
<1>2. CASE Signal(c)
  <2>1. SoundReg(reg', Len(signals))
    <3>1. CASE reg # None /\ reg' = [reg EXCEPT !.sig = op[c].sig]
      <4>1. reg \in SoundEntries(Len(signals))
        BY <1>0, <3>1, Kept DEF SoundReg
      <4>2. op[c].sig \in Refs(Len(signals))
        BY <1>0 DEF Types, SoundOp
      <4>3. reg' \in SoundEntries(Len(signals))
        BY <3>1, <4>1, <4>2 DEF SoundEntries
      <4> QED BY <4>3 DEF SoundReg
    <3>2. CASE reg' = reg
      BY <1>0, <3>2, Kept
    <3> QED BY <1>2, <3>1, <3>2 DEF Signal
  <2> QED BY <1>0, <1>2, <2>1, RequestMoves, OpSound, Kept, Kept2 DEF Signal, Then, RequestPcs
<1>3. /\ ToolsSignalled \in {"none", "running", "signalled", "cancelled"}
      /\ [cell EXCEPT !.tool = ToolsSignalled] \in CellRecords
      /\ [cell EXCEPT !.tool = ToolsSignalled, !.cancel = TRUE] \in CellRecords
  <2>1. ToolsSignalled \in {"none", "running", "signalled", "cancelled"}
    BY <1>0, Kept DEF ToolsSignalled, CellRecords
  <2> QED BY <1>0, <2>1, Kept DEF CellRecords
<1>4. CASE CancelTools(c)
  <2>1. cell' \in CellRecords
    BY <1>0, <1>3, <1>4, Kept DEF CancelTools
  <2>2. UNCHANGED <<task, signals, told, reg, sup, exe, count>>
    BY <1>4 DEF CancelTools
  <2>3. \A q : SoundOp(q, Len(signals)) /\ Do(c, q) => Types'
    BY <1>0, <2>1, <2>2, RequestMoves, Kept, Kept2
  <2>4. CASE Then(c, "cancel")
    BY <1>0, <2>3, <2>4, OpSound DEF Then, RequestPcs
  <2> DEFINE x == op[c].copy
  <2>5. CASE Do(c, [op[c] EXCEPT !.pc = "write", !.copy = Controlled(x, "pause_requested", op[c].sig)])
    <3>1. op[c] \in RequestRecords /\ x \in SoundTasks /\ op[c].sig \in Refs(Len(signals))
      BY <1>0 DEF Types, SoundOp
    <3>2. op[c].sig \in Ids \cup {None}
      BY <1>0, <3>1, RefsAreSignals
    <3> HIDE DEF x
    <3>3. Controlled(x, "pause_requested", op[c].sig) \in SoundTasks
      BY <3>1, <3>2, ControlledSound DEF Controls
    <3> DEFINE y == Controlled(x, "pause_requested", op[c].sig)
    <3> HIDE DEF y
    <3>4. SoundOp([op[c] EXCEPT !.pc = "write", !.copy = y], Len(signals))
      BY <3>1, <3>3 DEF SoundOp, RequestRecords, RequestPcs, SoundTasks, y
    <3> QED BY <2>3, <2>5, <3>4 DEF y
  <2> QED BY <1>4, <2>4, <2>5 DEF CancelTools
<1>5. CASE Cancel(c)
  <2>1. cell' \in CellRecords
    BY <1>0, <1>3, <1>5, Kept DEF Cancel
  <2> QED BY <1>0, <1>5, <2>1, RequestMoves, OpSound, Kept, Kept2 DEF Cancel, Then, RequestPcs
<1>6. CASE Finish(c)
  <2>1. task' \in SoundTasks
    BY <1>0, <1>6, Kept, StoppedSound DEF Finish
  <2> QED BY <1>0, <1>6, <2>1, RequestMoves, OpSound, Kept, Kept2 DEF Finish, Idle, RequestPcs
<1>7. CASE Write(c)
  <2>1. task' \in SoundTasks
    BY <1>0, <1>7, OpSound DEF Write, RequestPcs
  <2>2. \A q : SoundOp(q, Len(signals)) /\ Do(c, q) => Types'
    BY <1>0, <1>7, <2>1, RequestMoves, Kept, Kept2 DEF Write
  <2> QED BY <1>0, <1>7, <2>2, OpSound DEF Write, Idle, Then, RequestPcs
<1> QED BY <1>1, <1>2, <1>4, <1>5, <1>6, <1>7

LEMMA SchedulingTypes ==
  ASSUME Inv, NEW c \in Callers,
         Check(c) \/ Admit(c) \/ Mark(c) \/ Start(c) \/ PublishHandle(c) \/ StartFails(c)
  PROVE  Types'
<1>0. Types
  BY DEF Inv
<1>1. CASE Check(c)
  BY <1>0, <1>1, RequestMoves, OpSound, Kept, Kept2 DEF Check, Idle, Then, RequestPcs
<1>2. CASE Admit(c)
  <2>1. CASE Claimed
    BY <1>0, <1>2, <2>1, RequestMoves, OpSound, Kept, Kept2 DEF Admit, Idle, RequestPcs
  <2>2. CASE ~Claimed
    <3>1. cell.id + 1 \in Cells
      BY <1>0, <1>2, <2>2, Kept, ControlBounds DEF Admit, CellRecords, Cells
    <3>2. /\ cell' = [NoCell EXCEPT !.id = cell.id + 1] /\ task' = [task EXCEPT !.scope = cell'.id]
          /\ sup' = c /\ Do(c, [op[c] EXCEPT !.pc = "mark", !.copy = task'])
          /\ UNCHANGED <<signals, told, reg, exe, count>>
      BY <1>2, <2>2 DEF Admit
    <3>3. cell' \in CellRecords /\ cell'.id = cell.id + 1
      BY <3>1, <3>2 DEF NoCell, CellRecords
    <3>4. task' \in SoundTasks
      BY <1>0, <3>1, <3>2, <3>3, Kept, ZenonT(60) DEF SoundTasks, TaskRecords
    <3>5. SoundOp([op[c] EXCEPT !.pc = "mark", !.copy = task'], Len(signals))
      <4>1. op[c] \in RequestRecords /\ op[c].sig \in Refs(Len(signals)) /\ task' \in TaskRecords
        BY <1>0, <3>4 DEF Types, SoundOp, SoundTasks
      <4> QED BY <3>4, <4>1 DEF SoundOp, RequestRecords, RequestPcs
    <3> QED BY <1>0, <3>2, <3>3, <3>4, <3>5, RequestMoves, Kept, Kept2
  <2> QED BY <2>1, <2>2
<1>3. CASE Mark(c)
  <2> DEFINE x == op[c].copy
  <2>1. x \in SoundTasks
    BY <1>0, OpSound DEF RequestPcs
  <2> HIDE DEF x
  <2>2. [x EXCEPT !.status = "running", !.exec = "scheduled", !.lease = TRUE] \in SoundTasks
    BY <2>1, ZenonT(60) DEF SoundTasks, TaskRecords, Statuses
  <2>3. task' \in SoundTasks
    BY <1>3, <2>2 DEF Mark, x
  <2> QED BY <1>0, <1>3, <2>3, RequestMoves, OpSound, Kept, Kept2 DEF Mark, Then, RequestPcs
<1>4. CASE Start(c)
  <2>1. cell' \in CellRecords
    BY <1>0, <1>4, Kept DEF Start, CellRecords
  <2>2. SoundExe(exe', Len(signals))
    <3>1. SoundExe(NoExecutor, Len(signals))
      BY <1>0, LengthsAreNatural, NoExecutorSound
    <3> QED BY <1>4, <3>1 DEF Start, SoundExe, ExecutorRecords, ExecutorPcs
  <2> QED BY <1>0, <1>4, <2>1, <2>2, RequestMoves, OpSound, Kept, Kept2 DEF Start, Then, RequestPcs
<1>5. CASE PublishHandle(c)
  <2>1. cell' \in CellRecords
    BY <1>0, <1>5, Kept DEF PublishHandle, CellRecords
  <2> QED BY <1>0, <1>5, <2>1, RequestMoves, OpSound, Kept, Kept2 DEF PublishHandle, Idle, RequestPcs
<1>6. CASE StartFails(c)
  <2>1. [task EXCEPT !.status = "blocked", !.exec = "rest", !.lease = FALSE,
                     !.reco = TRUE, !.err = TRUE, !.scope = 0] \in SoundTasks
    BY <1>0, Kept, ZenonT(60) DEF SoundTasks, TaskRecords, Statuses
  <2> QED BY <1>0, <1>6, <2>1, RequestMoves, OpSound, Kept, Kept2 DEF StartFails, Idle, RequestPcs
<1> QED BY <1>1, <1>2, <1>3, <1>4, <1>5, <1>6

LEMMA RestartTypes ==
  ASSUME Inv, Restart
  PROVE  Types'
<1>0. Types /\ Len(signals) \in Nat /\ Len(signals') = Len(signals)
  BY LengthsAreNatural DEF Inv, Restart
<1>1. [task EXCEPT !.status = "waiting_executor", !.exec = "rest", !.reco = TRUE, !.err = TRUE]
        \in SoundTasks
  BY <1>0, Kept, ZenonT(60) DEF SoundTasks, TaskRecords, Statuses
<1>2. task' \in SoundTasks
  BY <1>0, <1>1, Kept DEF Restart
<1>3. cell' \in CellRecords
  BY <1>0, Kept DEF Restart, CellRecords, NoCell
<1>4. SoundExe(exe', Len(signals)) /\ SoundReg(reg', Len(signals))
  BY <1>0, NoExecutorSound DEF Restart, SoundReg
<1>5. op' \in [Callers -> RequestRecords] /\ \A c \in Callers : SoundOp(op'[c], Len(signals))
  BY <1>0, NoRequestSound DEF Restart, SoundOp
<1>6. count' \in [requests : Nat, crashes : Nat]
  BY <1>0, Kept2 DEF Restart
<1>7. sup' \in Callers \cup {None} /\ signals' = signals /\ told' = told
  BY DEF Restart
<1> QED BY <1>0, <1>2, <1>3, <1>4, <1>5, <1>6, <1>7 DEF Types

LEMMA InitInv == Init => Inv
<1> SUFFICES ASSUME Init PROVE Inv  OBVIOUS
<1>1. Len(signals) = 0 /\ signals \in Seq(SignalRecords) /\ told \in Seq(Ids) /\ Len(told) = 0
  BY EmptySeq DEF Init
<1>2. SoundExe(exe, Len(signals)) /\ SoundReg(reg, Len(signals))
  BY <1>1, NoExecutorSound DEF Init, SoundReg
<1>3. op \in [Callers -> RequestRecords] /\ \A c \in Callers : SoundOp(op[c], Len(signals))
  BY <1>1, NoRequestSound DEF Init, SoundOp
<1>4. task \in SoundTasks /\ cell \in CellRecords /\ sup \in Callers \cup {None}
        /\ count \in [requests : Nat, crashes : Nat]
  BY NewTaskSound DEF Init, CellRecords, NoCell
<1>5. Types
  BY <1>1, <1>2, <1>3, <1>4, ControlBounds DEF Types
<1>6. Places /\ Telling /\ EntryOfLiveExecutor /\ ToolCancelArrives
  BY DEF Init, Places, Telling, EntryOfLiveExecutor, Registered, ToolCancelArrives, NoExecutor, NoRequest, NoCell
<1>7. ToldOnce
  BY <1>1 DEF ToldOnce, Told
<1> QED BY <1>5, <1>6, <1>7 DEF Inv

LEMMA TypesStep ==
  ASSUME Inv, Next
  PROVE  Types'
<1>1. ASSUME ExecutorStep PROVE Types'
  BY <1>1, StartTypes, SignalTypes, ModelTypes, ToolTypes, DecideTypes, EndTypes DEF ExecutorStep
<1>2. ASSUME NEW c \in Callers, Pause(c) \/ Stop(c) \/ Resume(c) \/ Launch(c) \/ RequestStep(c)
      PROVE  Types'
  BY <1>2, RequestTypes, DeliveryTypes, SchedulingTypes DEF RequestStep
<1> QED BY <1>1, <1>2, RestartTypes DEF Next

-----------------------------------------------------------------------------
(* The executor, its cell and its registry entry.                          *)

Lives == Places /\ EntryOfLiveExecutor /\ ToolCancelArrives

\* An executor that runs goes on in its cell, with its entry.
LEMMA GoesOn ==
  ASSUME Inv, Registered, Registered', exe'.pc \notin {"claim", "await"}, exe'.epoch = exe.epoch,
         exe'.pc \in {"hear", "tell"} => exe'.at # "step_budget",
         reg' = reg \/ (reg' # None /\ reg'.cell = reg.cell /\ reg'.epoch = reg.epoch),
         cell'.id = cell.id, cell'.alive = cell.alive, UNCHANGED <<sup, op>>
  PROVE  Lives'
<1>1. Places'
  BY DEF Inv, Places, Registered
<1>2. EntryOfLiveExecutor'
  BY DEF Inv, EntryOfLiveExecutor
<1> QED BY <1>1, <1>2 DEF Lives, ToolCancelArrives

\* One that ends stays in its cell, and leaves an entry only if it never
\* entered its try clause.
LEMMA GoesOut ==
  ASSUME Inv, exe.pc # "idle", exe'.pc \in {"begin", "fail", "end"},
         reg' = None \/ (reg' = reg /\ ~reg.begun),
         cell'.id = cell.id, cell'.alive = cell.alive, UNCHANGED <<sup, op>>
  PROVE  Lives'
<1>1. Places'
  BY DEF Inv, Places
<1>2. EntryOfLiveExecutor' /\ ToolCancelArrives'
  BY DEF EntryOfLiveExecutor, Registered, ToolCancelArrives
<1> QED BY <1>1, <1>2 DEF Lives

LEMMA ClearedEntry ==
  ASSUME Inv, NEW s, NEW epoch, s # None
  PROVE  LET r == Cleared(s, epoch)
         IN  r = reg \/ (r # None /\ r.cell = reg.cell /\ r.epoch = reg.epoch)
<1>1. CASE reg = None
  BY <1>1 DEF Cleared, Peek
<1>2. CASE reg # None
  <2>1. reg \in SoundEntries(Len(signals))
    BY <1>2 DEF Inv, Types, SoundReg
  <2>2. [reg EXCEPT !.sig = None] \in SoundEntries(Len(signals))
    BY <2>1 DEF SoundEntries, Refs
  <2>3. [reg EXCEPT !.sig = None] # None
    BY <2>1, <2>2, EntriesAreNotNone DEF Inv
  <2> QED BY <2>1, <2>3 DEF Cleared, SoundEntries
<1> QED BY <1>1, <1>2

LEMMA ExecutorLives ==
  ASSUME Inv, ExecutorStep
  PROVE  Lives'
<1>0. /\ exe \in ExecutorRecords /\ cell \in CellRecords
      /\ Registered => reg # None /\ reg.cell = cell.id /\ reg.epoch = exe.epoch
      /\ reg # None /\ reg.begun => Registered
      /\ exe.pc = "claim" => ~reg.begun
      /\ exe.pc \in {"hear", "tell"} => exe.at # "step_budget"
  BY Kept DEF Inv, EntryOfLiveExecutor, Places
<1>1. CASE Begin
  <2>1. CASE exe' = [exe EXCEPT !.pc = "end"] /\ UNCHANGED reg
    <3>1. exe.pc = "begin" /\ exe'.pc = "end" /\ (reg' = None \/ (reg' = reg /\ ~reg.begun))
      BY <1>0, <1>1, <2>1 DEF Begin, Registered, ExecutorRecords
    <3> QED BY <1>1, <3>1, GoesOut DEF Begin
  <2>2. CASE /\ reg' = [cell |-> cell.id, epoch |-> task.epoch + 1, sig |-> None, begun |-> FALSE]
             /\ exe' = [exe EXCEPT !.pc = "claim", !.epoch = task.epoch + 1]
    <3>1. exe'.pc = "claim" /\ exe'.epoch = task.epoch + 1 /\ UNCHANGED <<cell, sup, op>>
          /\ exe.pc = "begin"
      BY <1>0, <1>1, <2>2 DEF Begin, ExecutorRecords
    <3>2. reg' # None /\ ~reg'.begun /\ reg'.cell = cell.id /\ reg'.epoch = task.epoch + 1
      <4>1. task.epoch + 1 \in Nat /\ cell.id \in Cells
        BY <1>0, <3>1, Kept, TaskFields DEF Inv, Places, CellRecords
      <4>2. reg' \in Entries
        BY <2>2, <4>1 DEF Entries
      <4> QED BY <2>2, <4>2, NoneIsNoEntry
    <3> QED BY <3>1, <3>2 DEF Inv, Lives, Places, EntryOfLiveExecutor, Registered, ToolCancelArrives
  <2> QED BY <1>1, <2>1, <2>2 DEF Begin, Goes, Becomes
<1>2. CASE Claim \/ ClaimRaises \/ Step
  <2>1. CASE ClaimRaises \/ (Claim /\ Halts(task))
    <3>1. exe.pc = "claim" /\ reg' = reg /\ exe'.pc \in {"end", "fail"} /\ UNCHANGED <<cell, sup, op>>
      BY <1>0, <2>1 DEF Claim, ClaimRaises, Goes, ExecutorRecords
    <3> QED BY <1>0, <3>1, GoesOut
  <2>2. CASE Claim /\ ~Halts(task)
    <3>1. /\ exe.pc = "claim" /\ reg' = [reg EXCEPT !.begun = TRUE] /\ exe'.pc = "step"
          /\ exe'.epoch = exe.epoch /\ UNCHANGED <<cell, sup, op>>
      BY <1>0, <2>2 DEF Claim, Becomes, ExecutorRecords
    <3>2. reg \in SoundEntries(Len(signals))
      BY <1>0, <3>1 DEF Inv, Types, SoundReg, Registered
    <3>3. reg' \in SoundEntries(Len(signals)) /\ reg'.cell = reg.cell /\ reg'.epoch = reg.epoch
      BY <3>1, <3>2 DEF SoundEntries
    <3> QED BY <3>1, <3>3, EntriesAreNotNone, GoesOn DEF Inv, Registered
  <2>3. CASE Step
    BY <1>0, <2>3, GoesOn DEF Step, Goes, Becomes, ExecutorRecords, Registered
  <2> QED BY <1>2, <2>1, <2>2, <2>3
<1>3. CASE Hear
  <2>1. CASE Known(Heard)
    <3>1. After(exe.at) \in ExecutorPcs \ {"idle", "begin", "claim", "end", "fail", "hear", "tell", "await"}
      BY <1>0, <1>3
         DEF Hear, After, ExecutorRecords, Boundaries, Interrupts, ExecutorPcs
    <3>2. reg' = reg \/ (reg' # None /\ reg'.cell = reg.cell /\ reg'.epoch = reg.epoch)
      BY <1>3, <2>1, ClearedEntry DEF Hear
    <3>3. exe' = [exe EXCEPT !.pc = After(exe.at), !.sig = None] /\ UNCHANGED <<cell, sup, op>>
      BY <1>3, <2>1 DEF Hear, Becomes
    <3>4. exe'.pc = After(exe.at) /\ exe'.epoch = exe.epoch
      BY <1>0, <3>3 DEF ExecutorRecords
    <3> QED BY <1>3, <3>1, <3>2, <3>3, <3>4, GoesOn DEF Hear, Registered
  <2>2. CASE ~Known(Heard)
    <3>1. exe' = [exe EXCEPT !.pc = "tell", !.sig = Heard, !.copy = task]
          /\ exe.pc = "hear" /\ UNCHANGED <<reg, cell, sup, op>>
      BY <1>3, <2>2 DEF Hear, Becomes
    <3>2. exe'.pc = "tell" /\ exe'.at = exe.at /\ exe'.epoch = exe.epoch
      BY <1>0, <3>1 DEF ExecutorRecords
    <3> QED BY <1>0, <3>1, <3>2, GoesOn DEF Registered
  <2> QED BY <2>1, <2>2
<1>4. CASE Tell
  <2>1. reg' = reg \/ (reg' # None /\ reg'.cell = reg.cell /\ reg'.epoch = reg.epoch)
    BY <1>4, ClearedEntry DEF Tell, Inv, Telling
  <2>2. exe'.pc \in {"prepare", "step"} /\ exe'.epoch = exe.epoch
    BY <1>0, <1>4 DEF Tell, Becomes, ExecutorRecords
  <2> QED BY <1>4, <2>1, <2>2, GoesOn DEF Tell, Registered
<1>5. CASE Prepare \/ Cancelled \/ Compile
  <2>1. CASE Prepare
    BY <1>0, <2>1, GoesOn DEF Prepare, Becomes, Goes, Hears, ExecutorRecords, Registered
  <2>2. CASE Cancelled
    BY <1>0, <2>2, GoesOn DEF Cancelled, Becomes, Goes, Hears, ExecutorRecords, Registered
  <2>3. CASE Compile
    BY <1>0, <2>3, GoesOn DEF Compile, Becomes, Goes, Hears, ExecutorRecords, Registered
  <2> QED BY <1>5, <2>1, <2>2, <2>3
<1>6. CASE Interrupted \/ ModelCancelled
  <2>1. CASE Interrupted
    BY <1>0, <2>1, GoesOn DEF Interrupted, Goes, Hears, ExecutorRecords, CellRecords, Registered
  <2>2. CASE ModelCancelled
    BY <1>0, <2>2, GoesOn DEF ModelCancelled, Goes, Hears, ExecutorRecords, CellRecords,
                              Registered
  <2> QED BY <1>6, <2>1, <2>2
<1>7. CASE ModelFails \/ Recover
  BY <1>0, <1>7, GoesOn DEF ModelFails, Recover, Goes, ExecutorRecords, Registered
<1>8. CASE ModelAnswers
  <2>1. PICK a \in Answers : exe' = [exe EXCEPT !.pc = "acted", !.answer = a]
    BY <1>8 DEF ModelAnswers, Becomes
  <2> QED BY <1>0, <1>8, <2>1, GoesOn DEF ModelAnswers, ExecutorRecords, Registered
<1>9. CASE Acted
  <2>1. BoundaryAfter # "step_budget"
    BY <1>9 DEF Acted, BoundaryAfter
  <2> QED BY <1>0, <1>9, <2>1, GoesOn DEF Acted, Goes, Hears, ExecutorRecords, Registered
<1>10. CASE ToolInterrupted \/ ToolAdmitted
  BY <1>0, <1>10, GoesOn DEF ToolInterrupted, ToolAdmitted, Hears, Becomes, ExecutorRecords,
                             Registered
<1>11. CASE ToolStarts \/ ToolEnds
  BY <1>0, <1>11, GoesOn DEF ToolStarts, ToolEnds, Tool, Goes, ExecutorRecords, CellRecords,
                             Registered
<1>12. CASE ToolAttaches
  <2>1. /\ exe' = [exe EXCEPT !.pc = "await"] /\ cell' = [cell EXCEPT !.tool = Attached]
        /\ exe.pc = "attach" /\ UNCHANGED <<reg, sup, op>>
    BY <1>12 DEF ToolAttaches, Tool, Goes
  <2>2. Attached # "signalled" /\ exe'.pc = "await" /\ exe'.epoch = exe.epoch
        /\ cell'.id = cell.id /\ cell'.alive = cell.alive /\ cell'.tool = Attached
    BY <1>0, <2>1 DEF Attached, ExecutorRecords, CellRecords
  <2> QED BY <2>1, <2>2 DEF Inv, Lives, Places, EntryOfLiveExecutor, Registered, ToolCancelArrives
<1>13. CASE ToolCancelled
  BY <1>0, <1>13, GoesOn DEF ToolCancelled, Goes, ExecutorRecords, CellRecords, Registered
<1>14. CASE Decide
  <2>1. exe' = [exe EXCEPT !.pc = "clear"] \/ exe' = [exe EXCEPT !.pc = "refused"]
        \/ exe' = [exe EXCEPT !.pc = "closing"]
    BY <1>14 DEF Decide, Ends, Goes
  <2> QED BY <1>0, <1>14, <2>1, GoesOn DEF Decide, ExecutorRecords, Registered
<1>15. CASE CloseOut \/ Refused \/ Budget \/ Exhausted
  BY <1>0, <1>15, GoesOn DEF CloseOut, Ends, Refused, Budget, Exhausted, Goes, Becomes,
                             ExecutorRecords, Registered
<1>16. CASE Raises \/ MarkFailed \/ Clear
  <2>1. /\ exe.pc # "idle" /\ exe'.pc \in {"fail", "end"} /\ UNCHANGED <<cell, sup, op>>
        /\ reg' = None \/ (reg' = reg /\ ~reg.begun)
    BY <1>0, <1>16 DEF Raises, MarkFailed, Clear, Unregistered, Goes, Registered, ExecutorRecords
  <2> QED BY <2>1, GoesOut
<1>17. CASE End
  <2>1. exe.pc = "end" /\ UNCHANGED <<reg, sup, op>> /\ (reg = None \/ ~reg.begun)
    BY <1>0, <1>17 DEF End, Registered
  <2>2. CASE exe' = [NoExecutor EXCEPT !.pc = "begin"] /\ UNCHANGED cell
    <3>1. exe'.pc = "begin"
      BY <2>2 DEF NoExecutor
    <3> QED BY <2>1, <2>2, <3>1, GoesOut
  <2>3. CASE exe' = NoExecutor /\ cell' = [cell EXCEPT !.alive = FALSE]
    <3>1. ~cell'.alive /\ cell'.id = cell.id /\ exe'.pc = "idle"
      BY <1>0, <2>3 DEF NoExecutor, CellRecords
    <3> QED BY <2>1, <3>1 DEF Inv, Lives, Places, EntryOfLiveExecutor, Registered, ToolCancelArrives
  <2> QED BY <1>17, <2>2, <2>3 DEF End, Becomes
<1> QED BY <1>1, <1>2, <1>3, <1>4, <1>5, <1>6, <1>7, <1>8, <1>9, <1>10, <1>11, <1>12,
           <1>13, <1>14, <1>15, <1>16, <1>17 DEF ExecutorStep

\* A request that does not have the supervisor's lock leaves them as they are.
LEMMA RequestLives ==
  ASSUME Inv, NEW c \in Callers, NEW q, Do(c, q),
         q.pc \notin {"mark", "start", "publish_handle"},
         q.pc = "publish" => q.kind # "resume",
         cell'.id = cell.id, cell'.alive = cell.alive,
         exe.pc = "await" => cell'.tool # "signalled",
         reg' = reg \/ (reg # None /\ reg' = [reg EXCEPT !.sig = op[c].sig]),
         UNCHANGED <<sup, exe>>
  PROVE  Lives'
<1>1. \A d \in Callers : op'[d] = IF d = c THEN q ELSE op[d]
  BY DEF Do, Inv, Types
<1>2. reg # None => reg \in SoundEntries(Len(signals))
  BY DEF Inv, Types, SoundReg
<1>3. \/ reg' = reg
      \/ /\ reg # None /\ reg' # None
         /\ reg'.cell = reg.cell /\ reg'.epoch = reg.epoch /\ reg'.begun = reg.begun
  <2>1. CASE reg # None /\ reg' = [reg EXCEPT !.sig = op[c].sig]
    <3>1. reg' \in SoundEntries(Len(signals))
      BY <1>2, <2>1, HeldSignals DEF Inv, SoundEntries
    <3> QED BY <1>2, <2>1, <3>1, EntriesAreNotNone DEF Inv, SoundEntries
  <2> QED BY <2>1
<1>4. Places'
  <2>1. exe.pc = "claim" => reg # None
    BY DEF Inv, EntryOfLiveExecutor, Registered
  <2> QED BY <1>1, <1>3, <2>1 DEF Inv, Places
<1>5. EntryOfLiveExecutor' /\ ToolCancelArrives'
  BY <1>3 DEF Inv, EntryOfLiveExecutor, Registered, ToolCancelArrives
<1> QED BY <1>4, <1>5 DEF Lives

LEMMA RequestsLive ==
  ASSUME Inv, NEW c \in Callers,
         \/ Pause(c) \/ Stop(c) \/ Resume(c) \/ Launch(c)
         \/ Publish(c) \/ Signal(c) \/ CancelTools(c) \/ Cancel(c) \/ Finish(c) \/ Write(c) \/ Check(c)
  PROVE  Lives'
<1>0. /\ op[c] \in RequestRecords /\ cell \in CellRecords
      /\ exe.pc = "await" => cell.tool # "signalled"
      /\ ToolsSignalled \in {"none", "running", "signalled", "cancelled"}
  BY Kept DEF Inv, Types, ToolCancelArrives, ToolsSignalled, CellRecords
<1>1. \A q : /\ Do(c, q) /\ q.pc \notin {"mark", "start", "publish_handle"}
             /\ q.pc = "publish" => q.kind # "resume"
             /\ UNCHANGED <<cell, reg, sup, exe>>
             => Lives'
  BY <1>0, RequestLives
<1>2. CASE Pause(c)
  BY <1>1, <1>2 DEF Pause, NoRequest
<1>3. CASE Stop(c)
  BY <1>1, <1>3 DEF Stop, NoRequest
<1>4. CASE Resume(c) \/ Launch(c)
  BY <1>1, <1>4 DEF Resume, Launch, NoRequest
<1>5. CASE Publish(c)
  BY <1>0, <1>1, <1>5 DEF Publish, RequestRecords
<1>6. CASE Signal(c)
  BY <1>0, <1>6, RequestLives DEF Signal, Then, RequestRecords
<1>7. CASE CancelTools(c)
  <2>1. cell'.id = cell.id /\ cell'.alive = cell.alive /\ (exe.pc = "await" => cell'.tool # "signalled")
    BY <1>0, <1>7 DEF CancelTools, CellRecords, ToolsSignalled
  <2> QED BY <1>0, <1>7, <2>1, RequestLives DEF CancelTools, Then, RequestRecords
<1>8. CASE Cancel(c)
  <2>1. cell'.id = cell.id /\ cell'.alive = cell.alive /\ (exe.pc = "await" => cell'.tool # "signalled")
    BY <1>0, <1>8 DEF Cancel, CellRecords, ToolsSignalled
  <2> QED BY <1>0, <1>8, <2>1, RequestLives DEF Cancel, Then, RequestRecords
<1>9. CASE Finish(c)
  BY <1>1, <1>9 DEF Finish, Idle, NoRequest
<1>10. CASE Write(c) \/ Check(c)
  BY <1>0, <1>1, <1>10 DEF Write, Check, Idle, Then, NoRequest, RequestRecords
<1> QED BY <1>2, <1>3, <1>4, <1>5, <1>6, <1>7, <1>8, <1>9, <1>10

LEMMA SchedulingLives ==
  ASSUME Inv, NEW c \in Callers, Admit(c) \/ Mark(c) \/ Start(c) \/ PublishHandle(c) \/ StartFails(c)
  PROVE  Lives'
<1>0. /\ op \in [Callers -> RequestRecords] /\ cell \in CellRecords
      /\ exe.pc # "idle" => cell.alive
      /\ exe.pc = "idle" /\ reg # None => ~reg.begun
      /\ \A d \in Callers :
           /\ op[d].pc \in {"mark", "start", "publish_handle"} => sup = d
           /\ op[d].pc \in {"mark", "start"} => ~cell.alive /\ cell.id # 0
  BY Kept DEF Inv, Types, Places, EntryOfLiveExecutor, Registered
<1>1. \A q : Do(c, q) => \A d \in Callers : op'[d] = IF d = c THEN q ELSE op[d]
  BY <1>0 DEF Do
<1>2. CASE Admit(c)
  <2>1. CASE Claimed
    BY <1>2, <2>1, RequestLives DEF Admit, Idle, NoRequest, Inv, ToolCancelArrives
  <2>2. CASE ~Claimed
    <3>1. /\ cell' = [NoCell EXCEPT !.id = cell.id + 1] /\ ~cell.alive /\ sup = None /\ sup' = c
          /\ Do(c, [op[c] EXCEPT !.pc = "mark", !.copy = task']) /\ UNCHANGED <<reg, exe>>
      BY <1>2, <2>2 DEF Admit
    <3>2. exe.pc = "idle" /\ (reg # None => ~reg.begun) /\ ~cell'.alive /\ cell'.id # 0
      BY <1>0, <3>1 DEF NoCell, CellRecords, Cells
    <3>3. \A d \in Callers : /\ op'[d].pc \in {"mark", "start", "publish_handle"} => d = c
                             /\ op'[d].pc = "publish" => op'[d].kind # "resume"
      <4>1. \A d \in Callers : op[d].pc \notin {"mark", "start", "publish_handle"}
        BY <1>0, <3>1, NoneIsNoValue
      <4>2. op'[c].pc = "mark"
        <5>1. op'[c] = [op[c] EXCEPT !.pc = "mark", !.copy = task']
          BY <1>1, <3>1
        <5>2. op[c] \in RequestRecords
          BY <1>0
        <5> QED BY <5>1, <5>2 DEF RequestRecords
      <4>3. \A d \in Callers : d # c => op'[d] = op[d]
        BY <1>1, <3>1
      <4> QED BY <4>1, <4>2, <4>3 DEF Inv, Places
    <3> QED BY <3>1, <3>2, <3>3
        DEF Lives, Places, EntryOfLiveExecutor, Registered, ToolCancelArrives
  <2> QED BY <2>1, <2>2
<1>3. CASE Mark(c)
  <2>1. \A d \in Callers : /\ op'[d].pc \in {"mark", "start", "publish_handle"} => sup = d
                           /\ op'[d].pc \in {"mark", "start"} => ~cell.alive /\ cell.id # 0
                           /\ op'[d].pc = "publish" => op'[d].kind # "resume"
    BY <1>0, <1>1, <1>3 DEF Inv, Places, RequestRecords, Mark, Then
  <2> QED BY <1>3, <2>1
      DEF Mark, Inv, Lives, Places, EntryOfLiveExecutor, Registered, ToolCancelArrives
<1>4. CASE Start(c)
  <2>1. \A d \in Callers : /\ op'[d].pc \in {"mark", "start", "publish_handle"} => sup = d
                           /\ op'[d].pc \notin {"mark", "start"}
                           /\ op'[d].pc = "publish" => op'[d].kind # "resume"
    BY <1>0, <1>1, <1>4 DEF Inv, Places, RequestRecords, Start, Then
  <2>2. /\ reg' = reg /\ (reg # None => ~reg.begun)
        /\ sup' = sup /\ cell'.alive /\ cell'.id # 0 /\ exe'.pc = "begin"
    BY <1>0, <1>4 DEF Start, CellRecords, NoExecutor
  <2> QED BY <2>1, <2>2 DEF Lives, Places, EntryOfLiveExecutor, Registered, ToolCancelArrives
<1>5. CASE PublishHandle(c) \/ StartFails(c)
  <2>1. \A d \in Callers : /\ op'[d].pc \notin {"mark", "start", "publish_handle"}
                           /\ op'[d].pc = "publish" => op'[d].kind # "resume"
    BY <1>0, <1>1, <1>5 DEF Inv, Places, RequestRecords, PublishHandle, StartFails, Idle, NoRequest
  <2>2. cell'.alive = cell.alive /\ cell'.id = cell.id /\ cell'.tool = cell.tool /\ UNCHANGED <<reg, exe>>
    BY <1>0, <1>5 DEF PublishHandle, StartFails, CellRecords
  <2> QED BY <2>1, <2>2
      DEF Inv, Lives, Places, EntryOfLiveExecutor, Registered, ToolCancelArrives
<1> QED BY <1>2, <1>3, <1>4, <1>5

LEMMA LivesStep ==
  ASSUME Inv, Next
  PROVE  Lives'
<1>1. ASSUME NEW c \in Callers, Pause(c) \/ Stop(c) \/ Resume(c) \/ Launch(c) \/ RequestStep(c)
      PROVE  Lives'
  BY <1>1, RequestsLive, SchedulingLives DEF RequestStep
<1>2. CASE Restart
  BY <1>2 DEF Restart, NoCell, NoExecutor, NoRequest, Lives, Places, EntryOfLiveExecutor,
              Registered, ToolCancelArrives
<1> QED BY <1>1, <1>2, ExecutorLives DEF Next

-----------------------------------------------------------------------------
(* What is told, and when.                                                 *)

Tells == ToldOnce /\ Telling

LEMMA ToldAreSignals ==
  ASSUME Inv
  PROVE  \A s \in Told : s \in 1 .. Len(signals)
<1> SUFFICES ASSUME NEW s \in Told PROVE s \in 1 .. Len(signals)
  OBVIOUS
<1>1. PICK i \in 1 .. Len(told) : s = told[i]
  BY DEF Told
<1>2. s \in Ids
  BY <1>1, ElementOfSeq DEF Inv, Types
<1> QED BY <1>2, LengthsAreNatural DEF Inv, ToldOnce, Ids

LEMMA ToldSame ==
  ASSUME Inv, told' = told, signals' = signals,
         exe'.pc = "tell" => exe.pc = "tell" /\ exe'.sig = exe.sig
  PROVE  Tells'
  BY DEF Inv, Tells, ToldOnce, Telling, Told

LEMMA TellsHear ==
  ASSUME Inv, Hear, ~Known(Heard)
  PROVE  Tells'
<1>1. Heard \in 1 .. Len(signals) /\ signals[Heard].state = "pending" /\ Heard # None
  BY HeardSound DEF Inv, Known, Refs
<1>2. /\ signals' = [signals EXCEPT ![Heard].state = "observed"] /\ told' = told
      /\ exe' = [exe EXCEPT !.pc = "tell", !.sig = Heard, !.copy = task]
  BY DEF Hear, Becomes
<1>3. Len(signals') = Len(signals)
  BY <1>1, <1>2, ClosesSignal DEF Inv
<1>4. \A s \in 1 .. Len(signals) :
        signals'[s].state = IF s = Heard THEN "observed" ELSE signals[s].state
  BY <1>1, <1>2, StatesClosed DEF Inv
<1>5. exe'.pc = "tell" /\ exe'.sig = Heard /\ signals'[Heard].state = "observed"
  <2>1. exe \in ExecutorRecords
    BY Kept DEF Inv
  <2> QED BY <1>1, <1>2, <1>4, <2>1 DEF ExecutorRecords
<1>6. Heard \notin Told
  BY <1>1 DEF Inv, ToldOnce
<1>7. Told' = Told
  BY <1>2 DEF Told
<1>8. \A s \in Told : s \in 1 .. Len(signals)
  BY ToldAreSignals
<1>9. ToldOnce'
  BY <1>2, <1>3, <1>4, <1>7, <1>8 DEF Inv, ToldOnce
<1> QED BY <1>1, <1>5, <1>6, <1>7, <1>9 DEF Tells, Telling

\* The log grows by a signal that is closed and not in it.
LEMMA ToldGrows ==
  ASSUME Inv, NEW s \in Ids, told' = Append(told, s), s \notin Told,
         s <= Len(signals'), signals'[s].state # "pending",
         Len(signals) <= Len(signals'), Len(signals') \in Nat,
         \A r \in 1 .. Len(signals) : signals'[r] = signals[r],
         \A r \in 1 .. Len(signals') : r > Len(signals) => signals'[r].state # "consumed",
         exe'.pc # "tell"
  PROVE  Tells'
<1>1. told \in Seq(Ids) /\ Len(told) \in Nat /\ Len(signals) \in Nat
  BY LengthsAreNatural DEF Inv, Types
<1>2. /\ Len(told') = Len(told) + 1 /\ told'[Len(told) + 1] = s
      /\ \A i \in 1 .. Len(told) : told'[i] = told[i]
  BY <1>1, AppendProperties
<1>3. Told' = Told \cup {s}
  BY <1>1, <1>2 DEF Told
<1>4. \A i, j \in 1 .. Len(told') : told'[i] = told'[j] => i = j
  <2>1. \A i \in 1 .. Len(told') : i \in 1 .. Len(told) \/ i = Len(told) + 1
    BY <1>1, <1>2
  <2>2. \A i \in 1 .. Len(told) : told'[i] = told[i] /\ told'[i] # s
    BY <1>2 DEF Told
  <2>3. \A i, j \in 1 .. Len(told) : told[i] = told[j] => i = j
    BY DEF Inv, ToldOnce
  <2> QED BY <1>2, <2>1, <2>2, <2>3
<1>5. \A r \in Told : r \in 1 .. Len(signals)
  BY ToldAreSignals
<1>6. \A r \in Told' : r <= Len(signals') /\ signals'[r].state # "pending"
  <2>1. \A r \in Told : r <= Len(signals') /\ signals'[r].state # "pending"
    BY <1>1, <1>5 DEF Inv, ToldOnce
  <2> QED BY <1>3, <2>1
<1>7. \A r \in 1 .. Len(signals') : signals'[r].state = "consumed" => r \in Told'
  <2>1. \A r \in 1 .. Len(signals) : signals[r].state = "consumed" => r \in Told
    BY DEF Inv, ToldOnce
  <2> QED BY <1>1, <1>3, <2>1
<1> QED BY <1>4, <1>6, <1>7 DEF Tells, ToldOnce, Telling

LEMMA TellsTell ==
  ASSUME Inv, Tell
  PROVE  Tells'
<1>1. /\ exe.sig \in 1 .. Len(signals) /\ exe.sig \in Ids /\ exe.sig \notin Told
      /\ signals[exe.sig].state = "observed"
  BY RefsAreSignals DEF Inv, Telling, Tell, Types, SoundExe, Refs
<1>2. exe'.pc # "tell"
  <2>1. exe \in ExecutorRecords
    BY Kept DEF Inv
  <2> QED BY <2>1 DEF Tell, Becomes, ExecutorRecords
<1>3. told' = Append(told, exe.sig) /\ signals' = signals /\ Len(signals) \in Nat
  BY LengthsAreNatural DEF Tell, Inv
<1> QED BY <1>1, <1>2, <1>3, ToldGrows

LEMMA TellsExhausted ==
  ASSUME Inv, Exhausted
  PROVE  Tells'
<1> DEFINE r == [kind |-> "budget_exhausted", state |-> "observed", scope |-> exe.copy.scope]
<1>1. r \in SignalRecords
  BY Kept, TaskFields DEF Inv, SignalRecords
<1>2. /\ signals' = Append(signals, r) /\ Len(signals) < MaxSignals
      /\ told' = Append(told, Len(signals')) /\ exe' = [exe EXCEPT !.pc = "clear"]
  BY DEF Exhausted, Goes
<1>3. r.state = "observed"
  OBVIOUS
<1> HIDE DEF r
<1>4. /\ Len(signals') = Len(signals) + 1 /\ Len(signals') \in Ids /\ Len(signals) \in Nat
      /\ \A i \in 1 .. Len(signals) : signals'[i] = signals[i]
      /\ signals'[Len(signals) + 1] = r
  <2>1. Len(signals') \in Ids
    BY <1>1, <1>2, AppendsSignal DEF Inv
  <2> QED BY <1>2, <2>1, StatesAppended DEF Inv
<1>5. Len(signals') \notin Told
  BY <1>4 DEF Inv, ToldOnce
<1>6. exe'.pc # "tell"
  BY <1>2, Kept DEF Inv, ExecutorRecords
<1>7. \A i \in 1 .. Len(signals') : i > Len(signals) => signals'[i].state # "consumed"
  BY <1>3, <1>4
<1> QED BY <1>2, <1>3, <1>4, <1>5, <1>6, <1>7, ToldGrows

LEMMA ToldBy ==
  ASSUME Types, NEW s \in Ids, told' = Append(told, s)
  PROVE  Told' = Told \cup {s}
<1>1. told \in Seq(Ids) /\ Len(told) \in Nat
  BY LengthsAreNatural DEF Types
<1>2. /\ Len(told') = Len(told) + 1 /\ told'[Len(told) + 1] = s
      /\ \A i \in 1 .. Len(told) : told'[i] = told[i]
  BY <1>1, AppendProperties
<1> QED BY <1>1, <1>2 DEF Told

LEMMA LastToldIsTold ==
  ASSUME Inv, LastTold # None
  PROVE  LastTold \in 1 .. Len(signals) /\ LastTold \in Told
<1>1. Len(told) \in 1 .. Len(told)
  BY LengthsAreNatural, EmptySeq DEF LastTold, Types, Inv
<1>2. LastTold \in Told /\ LastTold \in Ids
  BY <1>1, ElementOfSeq DEF LastTold, Told, Types, Inv
<1> QED BY <1>2 DEF Inv, ToldOnce, Ids

LEMMA TellsDecide ==
  ASSUME Inv, Decide
  PROVE  Tells'
<1>1. exe \in ExecutorRecords
  BY Kept DEF Inv
<1>2. CASE signals' = signals
  <2>1. exe' = [exe EXCEPT !.pc = "clear"] \/ exe' = [exe EXCEPT !.pc = "refused"]
        \/ exe' = [exe EXCEPT !.pc = "closing"]
    BY DEF Decide, Ends, Goes
  <2>2. exe'.pc # "tell"
    BY <1>1, <2>1 DEF ExecutorRecords
  <2> QED BY <1>2, <2>2, ToldSame DEF Decide
<1>3. CASE /\ LastTold # None
           /\ signals' = [signals EXCEPT ![LastTold].state = "consumed"]
           /\ Goes("closing")
  <2>1. LastTold \in 1 .. Len(signals) /\ LastTold \in Told
    BY <1>3, LastToldIsTold
  <2>2. Len(signals') = Len(signals)
    BY <1>3, <2>1, ClosesSignal DEF Inv
  <2>3. \A s \in 1 .. Len(signals) :
          signals'[s].state = IF s = LastTold THEN "consumed" ELSE signals[s].state
    BY <1>3, <2>1, StatesClosed DEF Inv
  <2>4. Told' = Told /\ exe'.pc # "tell"
    BY <1>1, <1>3 DEF Decide, Told, Goes, ExecutorRecords
  <2>5. \A s \in Told : s \in 1 .. Len(signals)
    BY ToldAreSignals
  <2>6. told' = told
    BY DEF Decide
  <2> QED BY <2>1, <2>2, <2>3, <2>4, <2>5, <2>6 DEF Inv, ToldOnce, Tells, Telling
<1> QED BY <1>2, <1>3 DEF Decide, Ends

LEMMA TellsPublish ==
  ASSUME Inv, NEW c \in Callers, Publish(c)
  PROVE  Tells'
<1> DEFINE scope == IF Claimed THEN cell.id ELSE task.scope
           r == [kind |-> op[c].kind, state |-> "pending", scope |-> scope]
<1>1. Types' /\ Types
  BY DeliveryTypes DEF Inv
<1>2. signals' = Append(signals, r) /\ told' = told /\ exe' = exe
  BY DEF Publish
<1>3. Len(signals) \in Nat /\ signals' \in Seq(SignalRecords) /\ signals \in Seq(SignalRecords)
  BY <1>1, LengthsAreNatural DEF Types
<1>4. /\ Len(signals') = Len(signals) + 1
      /\ \A i \in 1 .. Len(signals) : signals'[i] = signals[i]
      /\ signals'[Len(signals) + 1].state = "pending"
  <2>1. r.state = "pending"
    OBVIOUS
  <2> HIDE DEF r
  <2> QED BY <1>1, <1>2, <2>1, StatesAppended
<1>5. Told' = Told /\ \A s \in Told : s \in 1 .. Len(signals)
  BY <1>2, ToldAreSignals DEF Told
<1>6. ToldOnce'
  BY <1>2, <1>3, <1>4, <1>5 DEF Inv, ToldOnce
<1>7. Telling'
  <2>1. exe.pc = "tell" => exe.sig \in 1 .. Len(signals)
    BY <1>1 DEF Inv, Telling, Types, SoundExe, Refs
  <2> QED BY <1>2, <1>4, <1>5, <2>1 DEF Inv, Telling
<1> QED BY <1>6, <1>7 DEF Tells

\* Most steps tell nothing and close no signal.
LEMMA QuietExecutor ==
  ASSUME Inv, ExecutorStep, ~Hear, ~Tell, ~Decide, ~Exhausted
  PROVE  told' = told /\ signals' = signals /\ exe.pc # "tell" /\ exe'.pc # "tell"
<1>0. exe \in ExecutorRecords
  BY Kept DEF Inv
<1>1. told' = told /\ signals' = signals /\ exe.pc # "tell"
  BY DEF ExecutorStep, Begin, Claim, ClaimRaises, Step, Prepare, Cancelled, Compile, Interrupted,
     ModelCancelled, ModelFails, ModelAnswers, Recover, Acted, ToolInterrupted, ToolAdmitted,
     ToolStarts, ToolAttaches, ToolEnds, ToolCancelled, Tool, CloseOut, Refused, Budget,
     Raises, MarkFailed, Clear, End
<1>2. exe'.pc # "tell"
  <2>1. CASE Begin \/ Claim \/ ClaimRaises \/ Step \/ Prepare \/ Cancelled \/ Compile \/ Interrupted
    BY <1>0, <2>1 DEF Begin, Claim, ClaimRaises, Step, Prepare, Cancelled, Compile, Interrupted,
       Goes, Becomes, Hears, ExecutorRecords
  <2>2. CASE ModelCancelled \/ ModelFails \/ Recover \/ Acted \/ ToolInterrupted \/ ToolAdmitted
    BY <1>0, <2>2 DEF ModelCancelled, ModelFails, Recover, Acted, ToolInterrupted, ToolAdmitted,
       Goes, Becomes, Hears, ExecutorRecords
  <2>3. CASE ModelAnswers
    BY <1>0, <2>3 DEF ModelAnswers, Becomes, ExecutorRecords
  <2>4. CASE ToolStarts \/ ToolAttaches \/ ToolEnds \/ ToolCancelled \/ CloseOut \/ Refused
    BY <1>0, <2>4 DEF ToolStarts, ToolAttaches, ToolEnds, ToolCancelled, Tool, CloseOut, Refused,
       Ends, Goes, ExecutorRecords
  <2>5. CASE Budget \/ Raises \/ MarkFailed \/ Clear
    BY <1>0, <2>5 DEF Budget, Raises, MarkFailed, Clear, Goes, Becomes, ExecutorRecords
  <2>6. CASE End
    BY <2>6 DEF End, Becomes, NoExecutor
  <2> QED BY <2>1, <2>2, <2>3, <2>4, <2>5, <2>6 DEF ExecutorStep
<1> QED BY <1>1, <1>2

LEMMA HearsOn ==
  ASSUME Inv, Hear, Known(Heard)
  PROVE  exe'.pc # "tell"
<1>0. exe \in ExecutorRecords
  BY Kept DEF Inv
<1>1. After(exe.at) # "tell"
  BY <1>0 DEF Inv, Places, Hear, After, ExecutorRecords, Boundaries, Interrupts
<1> QED BY <1>0, <1>1 DEF Hear, Becomes, ExecutorRecords

LEMMA QuietRequests ==
  ASSUME Inv, NEW c \in Callers, ~Publish(c),
         Pause(c) \/ Stop(c) \/ Resume(c) \/ Launch(c) \/ RequestStep(c)
  PROVE  /\ told' = told /\ signals' = signals
         /\ exe' = exe \/ (exe.pc = "idle" /\ exe'.pc = "begin")
<1>1. CASE Start(c)
  BY <1>1 DEF Start, Inv, Places, NoExecutor
<1>2. CASE ~Start(c)
  BY <1>2 DEF Pause, Stop, Resume, Launch, RequestStep, Signal, CancelTools, Cancel, Finish,
     Write, Check, Admit, Mark, PublishHandle, StartFails
<1> QED BY <1>1, <1>2

LEMMA TellsStep ==
  ASSUME Inv, Next
  PROVE  Tells'
<1>1. ASSUME ExecutorStep, ~Hear, ~Tell, ~Decide, ~Exhausted PROVE Tells'
  BY <1>1, QuietExecutor, ToldSame
<1>2. ASSUME Hear, Known(Heard) PROVE Tells'
  BY <1>2, HearsOn, ToldSame DEF Hear
<1>3. ASSUME NEW c \in Callers, ~Publish(c),
             Pause(c) \/ Stop(c) \/ Resume(c) \/ Launch(c) \/ RequestStep(c)
      PROVE  Tells'
  <2>1. told' = told /\ signals' = signals /\ (exe' = exe \/ exe'.pc = "begin")
    BY <1>3, QuietRequests
  <2> QED BY <2>1, ToldSame
<1>4. ASSUME Restart PROVE Tells'
  BY <1>4, ToldSame DEF Restart, NoExecutor
<1> QED BY <1>1, <1>2, <1>3, <1>4, TellsHear, TellsTell, TellsDecide, TellsExhausted, TellsPublish
        DEF Next, RequestStep

-----------------------------------------------------------------------------
(* What the copies of the record say of the task's end and of what the     *)
(* agent was told, and what became of the signals they and others refer to.*)

\* A task ends as completed only when its agent was told of nothing, after its
\* executor's last write; no copy that will be written says so, but one that
\* an admitted cell writes as running.
Completes ==
  /\ exe.copy.status # "completed"
  /\ \A c \in Callers : op[c].copy.status = "completed" =>
       op[c].pc \in {"mark", "start", "publish_handle"}
  /\ task.status = "completed" => /\ told = <<>>
                                  /\ exe.pc \in {"idle", "clear", "end"}
                                  /\ \A c \in Callers : op[c].pc # "start"

\* What a record remembers as delivered was told.
Remembered(t) == t.dlv # None => t.sig \in Told

\* A signal someone holds is still to be told, is being told or was told.
Sure(s) == s = None \/ s \in Told \/ signals[s].state = "pending"
Accounted(s) == Sure(s) \/ (exe.pc = "tell" /\ exe.sig = s)

Deliveries ==
  /\ Remembered(task) /\ Remembered(exe.copy)
  /\ Accounted(exe.sig) /\ (reg # None => Accounted(reg.sig))
  /\ \A c \in Callers : Remembered(op[c].copy) /\ Accounted(op[c].sig)

Memory == Completes /\ Deliveries

\* What may be written over the record
Clean(t) == t.status # "completed" /\ Remembered(t)

LEMMA ControlledClean ==
  ASSUME NEW t \in SoundTasks, t.status # "completed", NEW ctl, NEW s
  PROVE  Clean(Controlled(t, ctl, s))
<1>1. t \in TaskRecords
  BY DEF SoundTasks
<1> QED BY <1>1 DEF Clean, Remembered, Controlled, TaskRecords

LEMMA PausedClean ==
  ASSUME NEW t \in SoundTasks
  PROVE  Clean(PausedTask(t)) /\ Clean([PausedTask(t) EXCEPT !.err = FALSE])
<1> DEFINE x == Controlled(t, "paused", None)
<1>1. x \in TaskRecords /\ x.dlv = None
  <2>1. t \in TaskRecords /\ x \in SoundTasks
    BY ControlledSound DEF SoundTasks, Controls
  <2> QED BY <2>1 DEF SoundTasks, Controlled, TaskRecords
<1> HIDE DEF x
<1> QED BY <1>1 DEF PausedTask, x, Clean, Remembered, TaskRecords

LEMMA StoppedClean ==
  ASSUME NEW t \in SoundTasks
  PROVE  Clean(StoppedTask(t))
<1> DEFINE x == Controlled(t, "stopped", None)
<1>1. x \in TaskRecords /\ x.dlv = None
  <2>1. t \in TaskRecords /\ x \in SoundTasks
    BY ControlledSound DEF SoundTasks, Controls
  <2> QED BY <2>1 DEF SoundTasks, Controlled, TaskRecords
<1> HIDE DEF x
<1> QED BY <1>1 DEF StoppedTask, x, Clean, Remembered, TaskRecords

LEMMA WaitingClean ==
  ASSUME NEW t \in SoundTasks, NEW ctl \in Controls, NEW e
  PROVE  Clean([Controlled(t, ctl, None) EXCEPT
                  !.status = "waiting_executor", !.exec = "rest", !.reco = TRUE, !.err = e])
<1> DEFINE x == Controlled(t, ctl, None)
<1>1. x \in TaskRecords /\ x.dlv = None
  <2>1. t \in TaskRecords
    BY DEF SoundTasks
  <2> QED BY <2>1, ControlledSound DEF SoundTasks, Controlled, TaskRecords
<1> HIDE DEF x
<1> QED BY <1>1 DEF x, Clean, Remembered, TaskRecords

LEMMA BlockedClean ==
  ASSUME NEW t \in SoundTasks, Clean(t)
  PROVE  Clean(Blocked(t))
<1> DEFINE x == Unleased(t)
<1>1. x \in TaskRecords /\ Remembered(x)
  <2>1. t \in TaskRecords
    BY DEF SoundTasks
  <2>2. x \in TaskRecords
    BY UnleasedSound DEF SoundTasks
  <2> QED BY <2>1, <2>2 DEF Unleased, TaskRecords, Clean, Remembered
<1> HIDE DEF x
<1> QED BY <1>1 DEF Blocked, x, Clean, Remembered, TaskRecords

LEMMA AskedUserClean ==
  ASSUME NEW t \in SoundTasks, Clean(t)
  PROVE  Clean(AskedUser(t))
<1> DEFINE e == t.err \/ ~t.reco
           x == [t EXCEPT !.err = e, !.reco = TRUE]
<1>1. e \in BOOLEAN
  OBVIOUS
<1>2. \A f \in BOOLEAN : [t EXCEPT !.err = f, !.reco = TRUE] \in SoundTasks
  BY ZenonT(60) DEF SoundTasks, TaskRecords
<1>3. t \in TaskRecords
  BY DEF SoundTasks
<1>4. x \in SoundTasks
  BY <1>1, <1>2
<1>5. Clean(x)
  BY <1>3 DEF Clean, Remembered, TaskRecords
<1>6. AskedUser(t) = Blocked(x)
  BY DEF AskedUser
<1> HIDE DEF x
<1> QED BY <1>4, <1>5, <1>6, BlockedClean

LEMMA ClosedOutClean ==
  ASSUME NEW t \in SoundTasks, NEW s
  PROVE  Clean(ClosedOut(t, s))
  BY PausedClean, StoppedClean, WaitingClean DEF ClosedOut, Controls

LEMMA CleanRecords ==
  ASSUME Inv, Memory
  PROVE  /\ task \in SoundTasks /\ task \in TaskRecords /\ exe \in ExecutorRecords
         /\ exe.copy \in SoundTasks /\ exe.copy \in TaskRecords /\ Clean(exe.copy)
         /\ Remembered(task)
         /\ exe.pc \notin {"idle", "clear", "end"} => Clean(task)
         /\ exe.pc # "tell" => Sure(exe.sig) /\ (reg # None => Sure(reg.sig))
  BY Kept DEF Inv, Memory, Completes, Deliveries, Clean, Accounted, SoundTasks

\* What the next boundary looks at was not told of, or is remembered so.
LEMMA FirstPendingIsPending ==
  ASSUME Types, NEW t, Pending(t) # {}
  PROVE  FirstPending(t) \in Pending(t)
<1>1. Len(signals) \in Nat /\ Pending(t) \subseteq 1 .. Len(signals)
  BY LengthsAreNatural DEF Pending
<1>2. \E s \in Pending(t) : \A r \in Pending(t) : s <= r
  BY <1>1, LeastElement
<1> QED BY <1>2 DEF FirstPending

LEMMA SignalForSure ==
  ASSUME Inv, Memory, exe.pc # "tell", NEW t, NEW epoch
  PROVE  Sure(SignalFor(t, epoch))
<1>1. Sure(Peek(epoch))
  BY CleanRecords DEF Peek, Sure
<1>2. Sure(FirstPending(t))
  BY FirstPendingIsPending DEF Inv, FirstPending, Pending, Sure
<1> QED BY <1>1, <1>2 DEF SignalFor

-----------------------------------------------------------------------------
(* What the executor writes.                                               *)

\* But for a telling, a hearing and the end as completed
WritesWell ==
  /\ Clean(task') \/ (task' = task /\ exe'.pc \in {"idle", "end"})
  /\ Clean(exe'.copy)
  /\ Sure(exe'.sig) /\ (reg' # None => Sure(reg'.sig))
  /\ exe'.pc # "tell" /\ op' = op

LEMMA MovesWell ==
  ASSUME Inv, Memory, exe.pc \notin {"idle", "clear", "end", "tell"},
         NEW pc \in ExecutorPcs \ {"tell"}, Goes(pc),
         task' = task \/ Clean(task'), reg' = reg \/ reg' = Unregistered, op' = op
  PROVE  WritesWell
<1>1. exe'.copy = exe.copy /\ exe'.sig = exe.sig /\ exe'.pc = pc
  BY CleanRecords DEF Goes, ExecutorRecords
<1> QED BY <1>1, CleanRecords DEF WritesWell, Unregistered

LEMMA HearsWell ==
  ASSUME Inv, Memory, exe.pc \notin {"idle", "clear", "end", "tell"},
         NEW at, NEW t, NEW s, Hears(at, t, s), Clean(t), Sure(s),
         task' = task \/ Clean(task'), reg' = reg, op' = op
  PROVE  WritesWell
<1>1. exe'.copy = t /\ exe'.sig = s /\ exe'.pc = "hear"
  BY CleanRecords DEF Hears, ExecutorRecords
<1> QED BY <1>1, CleanRecords DEF WritesWell

LEMMA BecomesWell ==
  ASSUME Inv, Memory, exe.pc \notin {"idle", "clear", "end", "tell"},
         Clean(exe'.copy), exe'.sig = exe.sig, exe'.pc # "tell",
         task' = task \/ Clean(task'), reg' = reg, op' = op
  PROVE  WritesWell
  BY CleanRecords DEF WritesWell

LEMMA ExecutorWritesWell ==
  ASSUME Inv, Memory, ExecutorStep, ~Hear, ~Tell, ~(Decide /\ task'.status = "completed")
  PROVE  WritesWell
<1>0. /\ task \in SoundTasks /\ task \in TaskRecords /\ exe \in ExecutorRecords
      /\ exe.copy \in SoundTasks /\ exe.copy \in TaskRecords /\ Clean(exe.copy)
  BY CleanRecords
<1>00. /\ exe.pc \notin {"idle", "clear", "end"} => Clean(task)
       /\ exe.pc # "tell" => Sure(exe.sig) /\ (reg # None => Sure(reg.sig))
  BY CleanRecords
<1>1. CASE Begin
  <2>1. CASE Goes("end") /\ UNCHANGED reg
    BY <1>1, <2>1, MovesWell DEF Begin, ExecutorPcs
  <2>2. CASE /\ reg' = [cell |-> cell.id, epoch |-> task.epoch + 1, sig |-> None, begun |-> FALSE]
             /\ exe' = [exe EXCEPT !.pc = "claim", !.epoch = task.epoch + 1]
    <3>1. exe'.copy = exe.copy /\ exe'.sig = exe.sig /\ exe'.pc = "claim"
      BY <1>0, <2>2 DEF ExecutorRecords
    <3>2. reg'.sig = None
      BY <2>2
    <3> QED BY <1>0, <1>00, <1>1, <3>1, <3>2 DEF Begin, WritesWell, Sure
  <2> QED BY <1>1, <2>1, <2>2 DEF Begin, Becomes
<1>2. CASE Claim \/ ClaimRaises
  <2>1. Clean(ClaimedTask)
    BY <1>0, <1>00, <1>2 DEF Claim, ClaimRaises, ClaimedTask, Clean, Remembered, TaskRecords
  <2>2. CASE Claim /\ Halts(task)
    BY <2>2, MovesWell DEF Claim, ExecutorPcs
  <2>3. CASE ClaimRaises
    <3>1. task' = task \/ Clean(task')
      BY <2>1, <2>3 DEF ClaimRaises
    <3> QED BY <2>3, <3>1, MovesWell DEF ClaimRaises, ExecutorPcs
  <2>4. CASE Claim /\ ~Halts(task)
    <3>1. /\ exe'.copy = task' /\ exe'.sig = exe.sig /\ exe'.pc = "step" /\ task' = ClaimedTask
          /\ exe.pc = "claim" /\ op' = op /\ reg' = [reg EXCEPT !.begun = TRUE]
      BY <1>0, <2>4 DEF Claim, Becomes, ExecutorRecords
    <3>2. reg # None /\ reg'.sig = reg.sig
      <4>1. reg # None
        BY <3>1 DEF Inv, EntryOfLiveExecutor, Registered
      <4> QED BY <3>1, <4>1 DEF Inv, Types, SoundReg, SoundEntries
    <3> QED BY <1>00, <2>1, <3>1, <3>2 DEF WritesWell
  <2> QED BY <1>2, <2>2, <2>3, <2>4
<1>3. CASE Step
  <2>1. CASE Goes("budget") \/ Goes("clear")
    BY <1>3, <2>1, MovesWell DEF Step, ExecutorPcs
  <2>2. CASE exe' = [exe EXCEPT !.pc = "hear", !.at = "step_start", !.steps = @ + 1]
    <3>1. exe'.copy = exe.copy /\ exe'.sig = exe.sig /\ exe'.pc = "hear"
      BY <1>0, <2>2 DEF ExecutorRecords
    <3> QED BY <1>0, <1>3, <3>1, BecomesWell DEF Step
  <2> QED BY <1>3, <2>1, <2>2 DEF Step, Becomes
<1>4. CASE Prepare
  <2>1. exe'.copy = task /\ exe'.sig = exe.sig /\ exe'.pc = "compile"
    BY <1>0, <1>4 DEF Prepare, Becomes, ExecutorRecords
  <2> QED BY <1>00, <1>4, <2>1, BecomesWell DEF Prepare
<1>5. CASE Cancelled \/ ModelCancelled \/ ModelFails \/ Refused
  BY <1>5, MovesWell DEF Cancelled, ModelCancelled, ModelFails, Refused, ExecutorPcs
<1>6. CASE Compile
  <2>1. Clean(task')
    BY <1>0, <1>6 DEF Compile, Clean, Remembered, TaskRecords
  <2> QED BY <1>6, <2>1, HearsWell DEF Compile, Sure
<1>7. CASE Interrupted
  <2>1. exe.pc = "model" /\ Hears("model_action_wait", task, SignalFor(task, exe.epoch))
        /\ UNCHANGED <<task, reg, op>>
    BY <1>7 DEF Interrupted
  <2>2. Sure(SignalFor(task, exe.epoch))
    BY <2>1, SignalForSure
  <2> QED BY <1>00, <2>1, <2>2, HearsWell
<1>8. CASE ModelAnswers
  <2>1. PICK a \in Answers : exe' = [exe EXCEPT !.pc = "acted", !.answer = a]
    BY <1>8 DEF ModelAnswers, Becomes
  <2>2. exe'.copy = exe.copy /\ exe'.sig = exe.sig /\ exe'.pc = "acted"
    BY <1>0, <2>1 DEF ExecutorRecords
  <2> QED BY <1>0, <1>8, <2>2, BecomesWell DEF ModelAnswers
<1>9. CASE Recover
  <2>1. Clean(task')
    BY <1>0, <1>9 DEF Recover, Clean, Remembered, TaskRecords
  <2> QED BY <1>9, <2>1, MovesWell DEF Recover, ExecutorPcs
<1>10. CASE Acted
  <2>1. CASE Goes("clear")
    BY <1>10, <2>1, MovesWell DEF Acted, ExecutorPcs
  <2>2. CASE Hears(BoundaryAfter, task, None)
    BY <1>00, <1>10, <2>2, HearsWell DEF Acted, Sure
  <2> QED BY <1>10, <2>1, <2>2 DEF Acted
<1>11. CASE ToolInterrupted
  <2>1. exe.pc = "tool" /\ Hears("tool_batch_execution", task, SignalFor(task, exe.copy.epoch))
        /\ UNCHANGED <<task, reg, op>>
    BY <1>11 DEF ToolInterrupted
  <2>2. Sure(SignalFor(task, exe.copy.epoch))
    BY <2>1, SignalForSure
  <2> QED BY <1>00, <2>1, <2>2, HearsWell
<1>12. CASE ToolAdmitted
  <2>1. exe'.copy = task /\ exe'.sig = exe.sig /\ exe'.pc \in {"recover", "start"}
    BY <1>0, <1>12 DEF ToolAdmitted, Becomes, ExecutorRecords
  <2> QED BY <1>00, <1>12, <2>1, BecomesWell DEF ToolAdmitted
<1>13. CASE ToolStarts \/ ToolAttaches \/ ToolEnds
  BY <1>13, MovesWell DEF ToolStarts, ToolAttaches, ToolEnds, Tool, ExecutorPcs
<1>14. CASE ToolCancelled
  BY <1>14, MovesWell DEF ToolCancelled, ExecutorPcs
<1>15. CASE Decide
  <2>1. /\ exe.pc = "decide" /\ reg' = reg /\ op' = op
        /\ Goes("clear") \/ Goes("refused") \/ Goes("closing")
    BY <1>15 DEF Decide, Ends
  <2>2. task' = task \/ Clean(task')
    <3>1. Clean(AskedUser(exe.copy)) /\ Clean(Blocked(exe.copy))
      BY <1>0, AskedUserClean, BlockedClean
    <3>2. [exe.copy EXCEPT !.status = "completed"].status = "completed"
      BY <1>0 DEF TaskRecords
    <3>3. task'.status # "completed"
      BY <1>15
    <3> QED BY <1>15, <3>1, <3>2, <3>3 DEF Decide, Ends
  <2> QED BY <2>1, <2>2, MovesWell DEF ExecutorPcs
<1>16. CASE CloseOut
  <2>1. Clean(task')
    BY <1>0, <1>16, ClosedOutClean DEF CloseOut, Ends
  <2> QED BY <1>16, <2>1, MovesWell DEF CloseOut, Ends, ExecutorPcs
<1>17. CASE Budget
  <2>1. Clean(task')
    BY <1>0, <1>17 DEF Budget, Clean, Remembered, TaskRecords
  <2>2. exe'.copy = exe.copy /\ exe'.sig = exe.sig /\ exe'.pc = "exhausted"
    BY <1>0, <1>17 DEF Budget, Becomes, ExecutorRecords
  <2> QED BY <1>0, <1>17, <2>1, <2>2, BecomesWell DEF Budget
<1>18. CASE Exhausted \/ Raises
  BY <1>18, MovesWell DEF Exhausted, Raises, ExecutorPcs
<1>19. CASE MarkFailed
  <2>1. Clean(task')
    BY <1>0, <1>00, <1>19 DEF MarkFailed, Clean, Remembered, TaskRecords
  <2> QED BY <1>19, <2>1, MovesWell DEF MarkFailed, ExecutorPcs
<1>20. CASE Clear
  <2>1. exe'.copy = exe.copy /\ exe'.sig = exe.sig /\ exe'.pc = "end"
    BY <1>0, <1>20 DEF Clear, Goes, ExecutorRecords
  <2> QED BY <1>0, <1>00, <1>20, <2>1 DEF Clear, WritesWell, Unregistered
<1>21. CASE End
  <2>1. exe'.copy = NewTask /\ exe'.sig = None /\ exe'.pc \in {"begin", "idle"}
        /\ (exe'.pc = "begin" => Executable(task))
    BY <1>21 DEF End, Becomes, NoExecutor
  <2>2. Clean(NewTask) /\ (Executable(task) => Clean(task))
    BY CleanRecords DEF Clean, Remembered, NewTask, Executable, Resumable
  <2> QED BY <1>00, <1>21, <2>1, <2>2 DEF End, WritesWell, Sure
<1> QED BY <1>1, <1>2, <1>3, <1>4, <1>5, <1>6, <1>7, <1>8, <1>9, <1>10, <1>11, <1>12, <1>13,
           <1>14, <1>15, <1>16, <1>17, <1>18, <1>19, <1>20, <1>21 DEF ExecutorStep

-----------------------------------------------------------------------------
(* What is remembered, and what is accounted for.                          *)

AccountedNext(s) == \/ s = None \/ s \in Told' \/ signals'[s].state = "pending"
                    \/ (exe'.pc = "tell" /\ exe'.sig = s)
AccountsStay == \A s \in Refs(Len(signals)) : Accounted(s) => AccountedNext(s)

LEMMA ExecutorMemory ==
  ASSUME Inv, Memory, WritesWell, exe.pc # "tell", AccountsStay, Told \subseteq Told',
         told' = told \/ exe'.pc = "clear",
         exe'.sig \in Refs(Len(signals)), reg' # None => reg'.sig \in Refs(Len(signals))
  PROVE  Memory'
<1>1. \A s : Sure(s) => Accounted(s)
  BY DEF Accounted
<1>2. AccountedNext(exe'.sig) /\ (reg' # None => AccountedNext(reg'.sig))
  BY <1>1 DEF WritesWell, AccountsStay
<1>3. \A c \in Callers : AccountedNext(op[c].sig)
  BY HeldSignals DEF Inv, Memory, Deliveries, AccountsStay
<1>4. Deliveries'
  BY <1>2, <1>3 DEF Memory, Deliveries, WritesWell, Clean, Remembered, Accounted, Sure, AccountedNext
<1>5. Completes'
  BY DEF Memory, Completes, WritesWell, Clean
<1> QED BY <1>4, <1>5 DEF Memory

LEMMA QuietAccounts ==
  ASSUME told' = told, signals' = signals,
         exe.pc = "tell" => exe'.pc = "tell" /\ exe'.sig = exe.sig
  PROVE  AccountsStay /\ Told' = Told
  BY DEF AccountsStay, Accounted, AccountedNext, Sure, Told

LEMMA HearMemory ==
  ASSUME Inv, Memory, Types', Hear
  PROVE  Memory'
<1>0. /\ exe \in ExecutorRecords /\ exe.pc = "hear" /\ Clean(exe.copy) /\ Clean(task)
      /\ Sure(exe.sig) /\ (reg # None => Sure(reg.sig))
  BY CleanRecords DEF Hear
<1>1. CASE Known(Heard)
  <2>1. exe'.pc = After(exe.at) /\ exe'.sig = None /\ exe'.copy = exe.copy
    BY <1>0, <1>1 DEF Hear, Becomes, ExecutorRecords
  <2>2. exe'.pc # "tell"
    BY <1>0, <2>1 DEF Inv, Places, After, ExecutorRecords, Boundaries, Interrupts
  <2>3. reg' # None => reg'.sig = None \/ (reg # None /\ reg'.sig = reg.sig)
    <3>1. CASE reg = None
      BY <1>1, <3>1 DEF Hear, Cleared, Peek
    <3>2. CASE reg # None
      <4>1. reg \in SoundEntries(Len(signals))
        BY <3>2 DEF Inv, Types, SoundReg
      <4> QED BY <1>1, <4>1 DEF Hear, Cleared, SoundEntries
    <3> QED BY <3>1, <3>2
  <2>4. WritesWell
    BY <1>0, <1>1, <2>1, <2>2, <2>3 DEF Hear, WritesWell, Sure
  <2>5. told' = told /\ signals' = signals
    BY <1>1 DEF Hear
  <2>6. exe'.sig \in Refs(Len(signals)) /\ (reg' # None => reg'.sig \in Refs(Len(signals)))
    BY <2>1, <2>3, HeldSignals DEF Inv, Refs
  <2> QED BY <1>0, <2>4, <2>5, <2>6, QuietAccounts, ExecutorMemory
<1>2. CASE ~Known(Heard)
  <2>1. Heard \in 1 .. Len(signals) /\ signals[Heard].state = "pending"
    BY <1>2, HeardSound DEF Inv, Known, Refs
  <2>2. /\ signals' = [signals EXCEPT ![Heard].state = "observed"] /\ told' = told
        /\ exe' = [exe EXCEPT !.pc = "tell", !.sig = Heard, !.copy = task]
        /\ UNCHANGED <<task, reg, op>>
    BY <1>2 DEF Hear, Becomes
  <2>3. \A s \in 1 .. Len(signals) :
          signals'[s].state = IF s = Heard THEN "observed" ELSE signals[s].state
    BY <2>1, <2>2, StatesClosed DEF Inv
  <2>4. exe'.pc = "tell" /\ exe'.sig = Heard /\ exe'.copy = task
    BY <1>0, <2>2 DEF ExecutorRecords
  <2>5. AccountsStay
    BY <1>0, <2>2, <2>3, <2>4 DEF AccountsStay, Accounted, AccountedNext, Sure, Told, Refs
  <2>6. \A s : Sure(s) => Accounted(s)
    BY DEF Accounted
  <2>7. /\ reg' # None => AccountedNext(reg'.sig)
        /\ \A c \in Callers : AccountedNext(op'[c].sig)
    BY <2>2, <2>5, HeldSignals DEF Inv, Memory, Deliveries, AccountsStay
  <2>8. Told' = Told
    BY <2>2 DEF Told
  <2>9. Deliveries'
    BY <1>0, <2>2, <2>4, <2>7, <2>8
       DEF Memory, Deliveries, Clean, Remembered, Accounted, Sure, AccountedNext
  <2>10. Completes'
    BY <1>0, <2>2, <2>4 DEF Memory, Completes, Clean
  <2> QED BY <2>9, <2>10 DEF Memory
<1> QED BY <1>1, <1>2

LEMMA TellMemory ==
  ASSUME Inv, Memory, Tell
  PROVE  Memory'
<1>0. /\ exe \in ExecutorRecords /\ exe.copy \in TaskRecords /\ Clean(exe.copy) /\ exe.pc = "tell"
      /\ exe.sig # None
  BY CleanRecords DEF Tell, Inv, Telling
<1>1. exe'.pc \in {"prepare", "step"} /\ exe'.sig = None /\ exe'.copy = task'
  BY <1>0 DEF Tell, Becomes, ExecutorRecords
<1>2. task'.status # "completed" /\ task'.sig = exe.sig
  BY <1>0 DEF Tell, Clean, TaskRecords
<1>3. told' = Append(told, exe.sig) /\ signals' = signals /\ op' = op
  BY DEF Tell
<1>4. Told' = Told \cup {exe.sig}
  <2>1. exe.sig \in Ids
    BY <1>0, Kept DEF Inv, ExecutorRecords
  <2> QED BY <1>3, <2>1, ToldBy DEF Inv
<1>5. AccountsStay
  BY <1>3, <1>4 DEF AccountsStay, Accounted, AccountedNext, Sure
<1>6. reg' # None => reg'.sig = None \/ (reg # None /\ reg'.sig = reg.sig)
  <2>1. CASE reg = None
    BY <2>1 DEF Tell, Cleared, Peek
  <2>2. CASE reg # None
    <3>1. reg \in SoundEntries(Len(signals))
      BY <2>2 DEF Inv, Types, SoundReg
    <3> QED BY <3>1 DEF Tell, Cleared
  <2> QED BY <2>1, <2>2
<1>7. /\ reg' # None => AccountedNext(reg'.sig)
      /\ \A c \in Callers : AccountedNext(op'[c].sig)
  BY <1>3, <1>5, <1>6, HeldSignals DEF Inv, Memory, Deliveries, AccountsStay, AccountedNext
<1>8. Deliveries'
  BY <1>1, <1>2, <1>3, <1>4, <1>7 DEF Memory, Deliveries, Remembered, Accounted, Sure, AccountedNext
<1>9. Completes'
  BY <1>1, <1>2, <1>3 DEF Memory, Completes
<1> QED BY <1>8, <1>9 DEF Memory

\* A task that ends as completed was told nothing.
LEMMA NothingToldYet ==
  ASSUME Inv, LastTold = None
  PROVE  told = <<>>
<1>1. told \in Seq(Ids)
  BY DEF Inv, Types
<1>2. ASSUME told # <<>> PROVE FALSE
  <2>1. told[Len(told)] \in Ids
    BY <1>1, <1>2, LengthsAreNatural, EmptySeq, ElementOfSeq DEF Inv
  <2>2. told[Len(told)] = None
    BY <1>2 DEF LastTold
  <2> QED BY <2>1, <2>2, NoneIsNoValue DEF Ids
<1> QED BY <1>2

LEMMA DecideMemory ==
  ASSUME Inv, Memory, Types', Decide
  PROVE  Memory'
<1>0. /\ exe \in ExecutorRecords /\ exe.pc = "decide" /\ exe.copy \in TaskRecords
      /\ Clean(exe.copy) /\ Clean(task)
      /\ UNCHANGED <<told, reg, op>> /\ Told' = Told
  BY CleanRecords DEF Decide, Told
<1>1. /\ exe'.pc \in {"clear", "refused", "closing"}
      /\ exe'.sig = exe.sig /\ exe'.copy = exe.copy
  BY <1>0 DEF Decide, Ends, Goes, ExecutorRecords
<1>2. AccountsStay
  <2>1. CASE signals' = signals
    BY <1>0, <2>1, QuietAccounts
  <2>2. CASE LastTold # None /\ signals' = [signals EXCEPT ![LastTold].state = "consumed"]
    <3>1. LastTold \in 1 .. Len(signals) /\ LastTold \in Told
      BY <2>2, LastToldIsTold
    <3>2. \A s \in 1 .. Len(signals) :
            signals'[s].state = IF s = LastTold THEN "consumed" ELSE signals[s].state
      BY <2>2, <3>1, StatesClosed DEF Inv
    <3> QED BY <1>0, <3>1, <3>2 DEF AccountsStay, Accounted, AccountedNext, Sure, Refs
  <2> QED BY <2>1, <2>2 DEF Decide, Ends
<1>3. exe'.sig \in Refs(Len(signals)) /\ (reg' # None => reg'.sig \in Refs(Len(signals)))
  BY <1>0, <1>1, HeldSignals DEF Inv
<1>4. CASE task'.status # "completed"
  <2>1. WritesWell
    BY <1>4, ExecutorWritesWell DEF ExecutorStep, Hear, Tell, Decide
  <2> QED BY <1>0, <1>2, <1>3, <2>1, ExecutorMemory
<1>5. CASE task'.status = "completed"
  <2>1. Clean(AskedUser(exe.copy)) /\ Clean(Blocked(exe.copy))
    BY <1>0, CleanRecords, AskedUserClean, BlockedClean
  <2>2. /\ LastTold = None
        /\ task' = [exe.copy EXCEPT !.status = "completed"] /\ exe' = [exe EXCEPT !.pc = "clear"]
    BY <1>0, <1>5, <2>1 DEF Decide, Ends, Goes, Clean
  <2>3. told = <<>>
    BY <2>2, NothingToldYet
  <2>4. exe'.pc = "clear" /\ Remembered(task')
    BY <1>0, <2>2 DEF ExecutorRecords, TaskRecords, Clean, Remembered
  <2>5. \A c \in Callers : op[c].pc # "start"
    BY <1>0 DEF Inv, Places
  <2>6. Completes'
    BY <1>0, <1>1, <2>3, <2>4, <2>5 DEF Memory, Completes, Clean
  <2>7. /\ AccountedNext(exe'.sig) /\ (reg' # None => AccountedNext(reg'.sig))
        /\ \A c \in Callers : AccountedNext(op'[c].sig)
    BY <1>0, <1>1, <1>2, HeldSignals DEF Inv, Memory, Deliveries, AccountsStay
  <2>8. Deliveries'
    BY <1>0, <1>1, <2>4, <2>7 DEF Memory, Deliveries, Clean, Remembered, Accounted, Sure, AccountedNext
  <2> QED BY <2>6, <2>8 DEF Memory
<1> QED BY <1>4, <1>5

LEMMA ExhaustedMemory ==
  ASSUME Inv, Memory, Exhausted
  PROVE  Memory'
<1> DEFINE r == [kind |-> "budget_exhausted", state |-> "observed", scope |-> exe.copy.scope]
<1>1. /\ signals' = Append(signals, r) /\ told' = Append(told, Len(signals'))
      /\ exe' = [exe EXCEPT !.pc = "clear"] /\ exe.pc = "exhausted" /\ UNCHANGED <<task, reg, op>>
  BY DEF Exhausted, Goes
<1> HIDE DEF r
<1>2. \A i \in 1 .. Len(signals) : signals'[i] = signals[i]
  BY <1>1, StatesAppended DEF Inv
<1>3. Told \subseteq Told'
  <2>1. Len(signals') \in Ids
    <3>1. r \in SignalRecords
      BY CleanRecords, TaskFields DEF r, SignalRecords
    <3> QED BY <1>1, <3>1, AppendsSignal DEF Inv, Exhausted
  <2> QED BY <1>1, <2>1, ToldBy DEF Inv
<1>4. AccountsStay
  BY <1>1, <1>2, <1>3 DEF AccountsStay, Accounted, AccountedNext, Sure, Refs
<1>5. exe'.pc = "clear" /\ exe'.sig = exe.sig
  BY <1>1, CleanRecords DEF ExecutorRecords
<1>6. WritesWell
  BY <1>1, ExecutorWritesWell DEF ExecutorStep, Hear, Tell, Decide
<1>7. exe'.sig \in Refs(Len(signals)) /\ (reg' # None => reg'.sig \in Refs(Len(signals)))
  BY <1>1, <1>5, HeldSignals DEF Inv
<1> QED BY <1>1, <1>3, <1>4, <1>5, <1>6, <1>7, ExecutorMemory

LEMMA ExecutorRemembers ==
  ASSUME Inv, Memory, Types', ExecutorStep
  PROVE  Memory'
<1>1. CASE Hear \/ Tell \/ Decide \/ Exhausted
  BY <1>1, HearMemory, TellMemory, DecideMemory, ExhaustedMemory
<1>2. CASE ~Hear /\ ~Tell /\ ~Decide /\ ~Exhausted
  <2>1. told' = told /\ signals' = signals /\ exe.pc # "tell"
    BY <1>2, QuietExecutor
  <2>2. WritesWell
    BY <1>2, ExecutorWritesWell
  <2>3. AccountsStay /\ Told' = Told
    BY <2>1, QuietAccounts
  <2>4. Refs(Len(signals')) = Refs(Len(signals))
    BY <2>1
  <2>5. exe'.sig \in Refs(Len(signals)) /\ (reg' # None => reg'.sig \in Refs(Len(signals)))
    BY <2>4 DEF Types, SoundExe, SoundReg, SoundEntries
  <2> QED BY <2>1, <2>2, <2>3, <2>5, ExecutorMemory
<1> QED BY <1>1, <1>2

-----------------------------------------------------------------------------
(* What the requests write.                                                *)

\* A request becomes q; the executor is as it was, or is started.
RequestKeeps(q) ==
  /\ Remembered(q.copy) /\ AccountedNext(q.sig)
  /\ q.copy.status = "completed" => q.pc \in {"mark", "start", "publish_handle"}
  /\ \/ Clean(task')
     \/ (task'.status = task.status /\ Remembered(task') /\ q.pc # "start" /\ exe' = exe)
  /\ exe' = exe \/ (exe'.pc = "begin" /\ exe'.sig = None /\ Clean(exe'.copy))
  /\ reg' # None => AccountedNext(reg'.sig)
  /\ told' = told /\ AccountsStay

LEMMA RequestMemory ==
  ASSUME Inv, Memory, NEW c \in Callers, NEW q, Do(c, q), RequestKeeps(q)
  PROVE  Memory'
<1>1. \A d \in Callers : op'[d] = IF d = c THEN q ELSE op[d]
  BY DEF Do, Inv, Types
<1>2. Told' = Told /\ AccountedNext(exe'.sig)
  BY HeldSignals DEF RequestKeeps, Told, Inv, Memory, Deliveries, AccountsStay, AccountedNext
<1>3. \A d \in Callers : AccountedNext(op'[d].sig) /\ Remembered(op'[d].copy)
  BY <1>1, HeldSignals DEF RequestKeeps, Inv, Memory, Deliveries, AccountsStay
<1>4. Remembered(task') /\ Remembered(exe'.copy) /\ exe'.copy.status # "completed"
  BY DEF RequestKeeps, Memory, Deliveries, Completes, Clean
<1>5. reg' # None => AccountedNext(reg'.sig)
  BY DEF RequestKeeps
<1>6. Deliveries'
  BY <1>2, <1>3, <1>4, <1>5 DEF Deliveries, Remembered, Accounted, Sure, AccountedNext
<1>7. Completes'
  BY <1>1, <1>4 DEF RequestKeeps, Memory, Completes, Clean
<1> QED BY <1>6, <1>7 DEF Memory

LEMMA RequestRecordsClean ==
  ASSUME Inv, Memory, NEW c \in Callers
  PROVE  /\ op[c] \in RequestRecords /\ op[c].copy \in SoundTasks /\ op[c].copy \in TaskRecords
         /\ Remembered(op[c].copy) /\ Accounted(op[c].sig)
         /\ op[c].pc \notin {"mark", "start", "publish_handle"} => Clean(op[c].copy)
         /\ op[c].pc = "start" => Clean(task)
  BY DEF Inv, Types, SoundOp, Memory, Completes, Deliveries, Clean, SoundTasks

LEMMA NoRequestClean ==
  /\ Clean(NewTask) /\ NoRequest.copy = NewTask /\ NoRequest.sig = None
  /\ NoRequest.pc = "idle"
  BY NoneIsNoValue DEF NoRequest, NewTask, Clean, Remembered

\* The frame of a request's step that writes no signal and starts nothing
LEMMA QuietRequest ==
  ASSUME Inv, Memory, NEW c \in Callers, NEW q, Do(c, q),
         Clean(q.copy) \/ (Remembered(q.copy) /\ q.pc \in {"mark", "start", "publish_handle"}),
         Accounted(q.sig),
         Clean(task') \/ (task' = task /\ q.pc # "start"),
         UNCHANGED <<signals, told, exe>>,
         reg' # None => Accounted(reg'.sig)
  PROVE  Memory'
<1>1. \A s : Accounted(s) => AccountedNext(s)
  BY DEF Accounted, AccountedNext, Sure, Told
<1>2. Remembered(task)
  BY DEF Memory, Deliveries
<1>3. RequestKeeps(q)
  BY <1>1, <1>2 DEF RequestKeeps, AccountsStay, Clean
<1> QED BY <1>3, RequestMemory

LEMMA RequestsRemember ==
  ASSUME Inv, Memory, NEW c \in Callers,
         \/ Pause(c) \/ Stop(c) \/ Resume(c) \/ Launch(c)
         \/ Signal(c) \/ CancelTools(c) \/ Cancel(c) \/ Finish(c) \/ Write(c) \/ Check(c)
  PROVE  Memory'
<1>0. /\ op[c] \in RequestRecords /\ op[c].copy \in SoundTasks /\ op[c].copy \in TaskRecords
      /\ task \in SoundTasks /\ Remembered(task) /\ Accounted(op[c].sig)
      /\ op[c].pc \notin {"mark", "start", "publish_handle"} => Clean(op[c].copy)
      /\ reg # None => Accounted(reg.sig)
  BY RequestRecordsClean, CleanRecords DEF Memory, Deliveries
<1>1. /\ Accounted(None) /\ Clean(NewTask) /\ NoRequest.copy = NewTask /\ NoRequest.sig = None
      /\ NoRequest.pc = "idle"
  BY NoRequestClean DEF Accounted, Sure
<1>2. \A q : /\ Do(c, q) /\ Clean(q.copy) /\ Accounted(q.sig) /\ q.pc # "start"
             /\ UNCHANGED <<signals, told, exe, task, reg>>
             => Memory'
  BY <1>0, QuietRequest
<1>3. ~Terminal(task) => task.status # "completed"
  BY DEF Terminal
<1>4. CASE Pause(c)
  <2>1. Clean(PausedTask(task)) /\ (~Terminal(task) => Clean(task))
    BY <1>0, <1>3, PausedClean DEF Clean
  <2> DEFINE q(pc, t) == [NoRequest EXCEPT !.pc = pc, !.kind = "pause", !.copy = t]
  <2>2. ~Terminal(task) /\ (Do(c, q("publish", task)) \/ Do(c, q("write", PausedTask(task))))
        /\ UNCHANGED <<signals, told, exe, task, reg>>
    BY <1>4 DEF Pause
  <2>3. \A pc, t : q(pc, t).sig = None /\ q(pc, t).pc = pc /\ q(pc, t).copy = t
    BY DEF NoRequest
  <2> HIDE DEF q
  <2>4. CASE Do(c, q("publish", task))
    BY <1>1, <1>2, <2>1, <2>2, <2>3, <2>4
  <2>5. CASE Do(c, q("write", PausedTask(task)))
    BY <1>1, <1>2, <2>1, <2>2, <2>3, <2>5
  <2> QED BY <2>2, <2>4, <2>5
<1>5. CASE Stop(c)
  <2>1. Clean(StoppedTask(task)) /\ (~Terminal(task) => Clean(task))
    BY <1>0, <1>3, StoppedClean DEF Clean
  <2> DEFINE q(pc, t) == [NoRequest EXCEPT !.pc = pc, !.kind = "stop", !.copy = t]
  <2>2. ~Terminal(task) /\ (Do(c, q("publish", task)) \/ Do(c, q("write", StoppedTask(task))))
        /\ UNCHANGED <<signals, told, exe, task, reg>>
    BY <1>5 DEF Stop
  <2>3. \A pc, t : q(pc, t).sig = None /\ q(pc, t).pc = pc /\ q(pc, t).copy = t
    BY DEF NoRequest
  <2> HIDE DEF q
  <2>4. CASE Do(c, q("publish", task))
    BY <1>1, <1>2, <2>1, <2>2, <2>3, <2>4
  <2>5. CASE Do(c, q("write", StoppedTask(task)))
    BY <1>1, <1>2, <2>1, <2>2, <2>3, <2>5
  <2> QED BY <2>2, <2>4, <2>5
<1>6. CASE Resume(c)
  <2> DEFINE e == task.err \/ task.status = "blocked"
             x == [Controlled(task, "resume_requested", None) EXCEPT
                     !.status = "waiting_executor", !.exec = "rest", !.reco = TRUE, !.err = e]
             y == [Controlled(task, "resume_requested", None) EXCEPT
                     !.status = "waiting_executor", !.exec = "rest", !.reco = TRUE,
                     !.err = @ \/ task.status = "blocked"]
  <2>1. \A f : Clean([Controlled(task, "resume_requested", None) EXCEPT
                     !.status = "waiting_executor", !.exec = "rest", !.reco = TRUE, !.err = f])
    BY <1>0, WaitingClean DEF Controls
  <2>2. Clean(x)
    BY <2>1
  <2>3. Controlled(task, "resume_requested", None).err = task.err
    BY <1>0 DEF Controlled, SoundTasks, TaskRecords
  <2>4. y = x
    <3>1. Controlled(task, "resume_requested", None) \in TaskRecords
      BY <1>0, ControlledSound DEF SoundTasks, Controls
    <3> QED BY <2>3, <3>1 DEF TaskRecords
  <2> DEFINE q == [NoRequest EXCEPT !.pc = "write", !.copy = y]
  <2>5. Do(c, q) /\ UNCHANGED <<signals, told, exe, task, reg>>
    BY <1>6 DEF Resume
  <2> HIDE DEF x, y
  <2>6. q.sig = None /\ q.pc = "write" /\ q.copy = y
    BY DEF NoRequest
  <2> HIDE DEF q
  <2> QED BY <1>1, <1>2, <2>2, <2>4, <2>5, <2>6
<1>7. CASE Launch(c)
  <2>1. PICK q : Do(c, q) /\ q.sig = None /\ q.pc = "check" /\ q.copy = NewTask
    BY <1>7 DEF Launch, NoRequest
  <2> QED BY <1>1, <1>2, <1>7, <2>1 DEF Launch
<1>8. CASE Signal(c)
  <2>1. PICK q : Do(c, q) /\ q.sig = op[c].sig /\ q.pc = "tools" /\ q.copy = op[c].copy
    BY <1>0, <1>8 DEF Signal, Then, RequestRecords
  <2>2. reg' # None => Accounted(reg'.sig)
    <3>1. CASE reg = None
      BY <1>8, <3>1 DEF Signal
    <3>2. CASE reg # None
      <4>1. reg \in SoundEntries(Len(signals))
        BY <3>2 DEF Inv, Types, SoundReg
      <4> QED BY <1>0, <1>8, <4>1 DEF Signal
    <3> QED BY <3>1, <3>2
  <2> QED BY <1>0, <1>8, <2>1, <2>2, QuietRequest DEF Signal
<1>9. CASE CancelTools(c)
  <2>1. Clean(Controlled(op[c].copy, "pause_requested", op[c].sig))
    BY <1>0, <1>9, ControlledClean DEF CancelTools, Clean
  <2> DEFINE t == Controlled(op[c].copy, "pause_requested", op[c].sig)
             q == [op[c] EXCEPT !.pc = "write", !.copy = t]
             r == [op[c] EXCEPT !.pc = "cancel"]
  <2>2. (Do(c, r) \/ Do(c, q)) /\ op[c].pc = "tools" /\ UNCHANGED <<signals, told, exe, task, reg>>
    BY <1>9 DEF CancelTools, Then
  <2> HIDE DEF t
  <2>3. /\ q.pc = "write" /\ q.sig = op[c].sig /\ q.copy = t
        /\ r.pc = "cancel" /\ r.sig = op[c].sig /\ r.copy = op[c].copy
    BY <1>0 DEF RequestRecords
  <2>4. Clean(t)
    BY <2>1 DEF t
  <2> HIDE DEF q, r
  <2> QED BY <1>0, <1>2, <2>2, <2>3, <2>4
<1>10. CASE Cancel(c) \/ Check(c)
  <2>1. PICK q : /\ Do(c, q) /\ Accounted(q.sig) /\ q.pc \in {"finish", "admit", "idle"}
                 /\ q.copy \in {op[c].copy, NewTask}
    BY <1>0, <1>1, <1>10 DEF Cancel, Check, Then, Idle, RequestRecords
  <2> QED BY <1>0, <1>1, <1>2, <1>10, <2>1 DEF Cancel, Check
<1>11. CASE Finish(c)
  <2>1. task' = task \/ Clean(task')
    BY <1>0, <1>11, StoppedClean DEF Finish
  <2> QED BY <1>0, <1>1, <1>11, <2>1, QuietRequest DEF Finish, Idle
<1>12. CASE Write(c)
  <2>1. Clean(task')
    BY <1>0, <1>12 DEF Write
  <2>2. PICK q : /\ Do(c, q) /\ Accounted(q.sig) /\ q.pc \in {"check", "idle"}
                 /\ q.copy \in {op[c].copy, NewTask}
    BY <1>0, <1>1, <1>12 DEF Write, Then, Idle, RequestRecords
  <2> QED BY <1>0, <1>1, <1>12, <2>1, <2>2, QuietRequest DEF Write
<1> QED BY <1>4, <1>5, <1>6, <1>7, <1>8, <1>9, <1>10, <1>11, <1>12

LEMMA PublishRemembers ==
  ASSUME Inv, Memory, NEW c \in Callers, Publish(c)
  PROVE  Memory'
<1> DEFINE scope == IF Claimed THEN cell.id ELSE task.scope
           r == [kind |-> op[c].kind, state |-> "pending", scope |-> scope]
           q == [op[c] EXCEPT !.pc = "signal", !.sig = Len(signals'),
                              !.rec = IF reg = None THEN None ELSE reg.cell]
<1>0. /\ op[c] \in RequestRecords /\ Clean(op[c].copy) /\ Remembered(task)
      /\ reg # None => Accounted(reg.sig)
  BY RequestRecordsClean DEF Publish, Memory, Deliveries
<1>1. signals' = Append(signals, r) /\ r.state = "pending" /\ Do(c, q)
      /\ UNCHANGED <<task, told, reg, exe>>
  BY DEF Publish
<1>2. q.pc = "signal" /\ q.sig = Len(signals') /\ q.copy = op[c].copy
  BY <1>0 DEF RequestRecords
<1> HIDE DEF r, q
<1>3. /\ Len(signals') = Len(signals) + 1
      /\ \A i \in 1 .. Len(signals) : signals'[i] = signals[i]
      /\ signals'[Len(signals) + 1] = r
  BY <1>1, StatesAppended DEF Inv
<1>4. AccountsStay
  BY <1>1, <1>3 DEF AccountsStay, Accounted, AccountedNext, Sure, Told, Refs
<1>5. AccountedNext(q.sig)
  BY <1>1, <1>2, <1>3 DEF AccountedNext
<1>6. reg' # None => AccountedNext(reg'.sig)
  BY <1>0, <1>1, <1>4, HeldSignals DEF Inv, AccountsStay
<1>7. RequestKeeps(q)
  BY <1>0, <1>1, <1>2, <1>4, <1>5, <1>6 DEF RequestKeeps, Clean
<1> QED BY <1>1, <1>7, RequestMemory

LEMMA SchedulingRemembers ==
  ASSUME Inv, Memory, NEW c \in Callers, Admit(c) \/ Mark(c) \/ Start(c) \/ PublishHandle(c) \/ StartFails(c)
  PROVE  Memory'
<1>0. /\ op[c] \in RequestRecords /\ op[c].copy \in TaskRecords /\ Remembered(op[c].copy)
      /\ task \in TaskRecords /\ Remembered(task) /\ Accounted(op[c].sig)
      /\ reg # None => Accounted(reg.sig)
      /\ op[c].pc = "start" => Clean(task)
  BY RequestRecordsClean, CleanRecords DEF Memory, Deliveries
<1>1. /\ Accounted(None) /\ Clean(NewTask) /\ NoRequest.copy = NewTask /\ NoRequest.sig = None
      /\ NoRequest.pc = "idle"
  BY NoRequestClean DEF Accounted, Sure
<1>2. ASSUME UNCHANGED <<signals, told>>,
             exe.pc = "tell" => exe'.pc = "tell" /\ exe'.sig = exe.sig
      PROVE  AccountsStay /\ \A s : Accounted(s) => AccountedNext(s)
  BY <1>2 DEF AccountsStay, Accounted, AccountedNext, Sure, Told
<1>3. CASE Admit(c)
  <2>1. CASE Claimed
    BY <1>0, <1>1, <1>3, <2>1, QuietRequest DEF Admit, Idle
  <2>2. CASE ~Claimed
    <3> DEFINE q == [op[c] EXCEPT !.pc = "mark", !.copy = task']
    <3>1. Do(c, q) /\ q.pc = "mark" /\ q.copy = task' /\ q.sig = op[c].sig
      <4>1. q.pc = "mark" /\ q.copy = task' /\ q.sig = op[c].sig
        BY <1>0 DEF RequestRecords
      <4> QED BY <1>3, <2>2, <4>1 DEF Admit
    <3> HIDE DEF q
    <3>2. task'.status = task.status /\ Remembered(task')
      BY <1>0, <1>3, <2>2 DEF Admit, Remembered, TaskRecords
    <3>3. AccountsStay /\ \A s : Accounted(s) => AccountedNext(s)
      BY <1>2, <1>3 DEF Admit
    <3>4. RequestKeeps(q)
      BY <1>0, <1>3, <3>1, <3>2, <3>3 DEF Admit, RequestKeeps
    <3> QED BY <3>1, <3>4, RequestMemory
  <2> QED BY <2>1, <2>2
<1>4. CASE Mark(c)
  <2>1. Clean(task')
    BY <1>0, <1>4 DEF Mark, Clean, Remembered, TaskRecords
  <2>2. PICK q : Do(c, q) /\ q.pc = "start" /\ q.copy = op[c].copy /\ q.sig = op[c].sig
    BY <1>0, <1>4 DEF Mark, Then, RequestRecords
  <2> QED BY <1>0, <1>4, <2>1, <2>2, QuietRequest DEF Mark
<1>5. CASE Start(c)
  <2>1. exe'.pc = "begin" /\ exe'.sig = None /\ exe'.copy = NewTask
    BY <1>5 DEF Start, NoExecutor
  <2>2. PICK q : Do(c, q) /\ q.pc = "publish_handle" /\ q.copy = op[c].copy /\ q.sig = op[c].sig
    BY <1>0, <1>5 DEF Start, Then, RequestRecords
  <2>3. exe.pc # "tell"
    BY <1>5 DEF Start, Inv, Places
  <2>4. AccountsStay /\ \A s : Accounted(s) => AccountedNext(s)
    BY <1>2, <1>5, <2>3 DEF Start
  <2>5. RequestKeeps(q)
    BY <1>0, <1>1, <1>5, <2>1, <2>2, <2>4 DEF Start, RequestKeeps
  <2> QED BY <2>2, <2>5, RequestMemory
<1>6. CASE PublishHandle(c)
  BY <1>0, <1>1, <1>6, QuietRequest DEF PublishHandle, Idle
<1>7. CASE StartFails(c)
  <2>1. Clean(task')
    BY <1>0, <1>7 DEF StartFails, Clean, Remembered, TaskRecords
  <2> QED BY <1>0, <1>1, <1>7, <2>1, QuietRequest DEF StartFails, Idle
<1> QED BY <1>3, <1>4, <1>5, <1>6, <1>7

LEMMA RestartRemembers ==
  ASSUME Inv, Memory, Restart
  PROVE  Memory'
<1>1. /\ exe' = NoExecutor /\ reg' = None /\ signals' = signals /\ told' = told
      /\ \A c \in Callers : op'[c] = NoRequest
  BY DEF Restart
<1>2. exe'.pc = "idle" /\ exe'.sig = None /\ exe'.copy = NewTask
  BY <1>1 DEF NoExecutor
<1>3. task \in TaskRecords /\ Remembered(task)
  BY CleanRecords
<1>4. Clean(task') \/ task' = task
  BY <1>3 DEF Restart, Clean, Remembered, TaskRecords
<1>5. Told' = Told
  BY <1>1 DEF Told
<1>6. Deliveries'
  BY <1>1, <1>2, <1>3, <1>4, <1>5, NoRequestClean DEF Deliveries, Clean, Remembered, Accounted, Sure
<1>7. Completes'
  BY <1>1, <1>2, <1>4, NoRequestClean DEF Memory, Completes, Clean
<1> QED BY <1>6, <1>7 DEF Memory

LEMMA InitMemory == Init => Memory
  BY NoneIsNoValue DEF Init, Memory, Completes, Deliveries, Remembered, Accounted, Sure,
     NewTask, NoExecutor, NoRequest

LEMMA MemoryStep ==
  ASSUME Inv, Inv', Memory, Next
  PROVE  Memory'
<1>1. ASSUME NEW c \in Callers, Pause(c) \/ Stop(c) \/ Resume(c) \/ Launch(c) \/ RequestStep(c)
      PROVE  Memory'
  BY <1>1, RequestsRemember, PublishRemembers, SchedulingRemembers DEF RequestStep
<1>2. CASE ExecutorStep
  BY <1>2, ExecutorRemembers DEF Inv
<1> QED BY <1>1, <1>2, RestartRemembers DEF Next

-----------------------------------------------------------------------------
(* The signals come as far as ControlDelivery lets them.                   *)

\* A step that leaves each signal where it is.
LEMMA StagesStay ==
  ASSUME told' = told, signals' = signals,
         (exe.pc # "tell" /\ exe'.pc # "tell") \/ exe' = exe
  PROVE  [s \in Ids |-> StageOf(s)]' = [s \in Ids |-> StageOf(s)]
<1>1. \A s \in Ids : StageOf(s)' = StageOf(s)
  BY DEF StageOf, Told
<1> QED BY <1>1

\* A step that takes signal s from one stage to the next.
LEMMA StageGoes ==
  ASSUME NEW s \in Ids, NEW from, NEW to,
         StageOf(s) = from, StageOf(s)' = to,
         \A r \in Ids : r # s => StageOf(r)' = StageOf(r)
  PROVE  Delivery!Goes(s, from, to)
<1>1. [r \in Ids |-> StageOf(r)]' = [[r \in Ids |-> StageOf(r)] EXCEPT ![s] = to]
  OBVIOUS
<1> QED BY <1>1 DEF Delivery!Goes

\* The executor tells of one signal at a time.
LEMMA TellsOfOne ==
  ASSUME exe.pc # "tell"
  PROVE  Delivery!Idle
  BY DEF Delivery!Idle, StageOf

LEMMA HearTakes ==
  ASSUME Inv, Hear, ~Known(Heard)
  PROVE  \E s \in Ids : Delivery!Take(s)
<1>1. Heard \in 1 .. Len(signals) /\ Heard \in Ids /\ signals[Heard].state = "pending"
  <2>1. Heard \in Refs(Len(signals)) /\ Heard # None /\ signals[Heard].state = "pending"
    BY HeardSound DEF Inv, Known
  <2> QED BY <2>1, RefsAreSignals DEF Inv, Refs
<1>0. PICK s \in Ids : s = Heard
  BY <1>1
<1>2. /\ signals' = [signals EXCEPT ![s].state = "observed"] /\ told' = told
      /\ exe' = [exe EXCEPT !.pc = "tell", !.sig = s, !.copy = task] /\ exe.pc = "hear"
  BY <1>0 DEF Hear, Becomes
<1>3. Len(signals') = Len(signals) /\ Len(signals) \in Nat
  BY <1>1, <1>0, <1>2, ClosesSignal, LengthsAreNatural DEF Inv
<1>4. \A r \in 1 .. Len(signals) :
        signals'[r].state = IF r = s THEN "observed" ELSE signals[r].state
  BY <1>1, <1>0, <1>2, StatesClosed DEF Inv
<1>5. exe'.pc = "tell" /\ exe'.sig = s
  BY <1>2, Kept DEF Inv, ExecutorRecords
<1>6. s \notin Told /\ Told' = Told
  BY <1>1, <1>0, <1>2 DEF Inv, ToldOnce, Told
<1>7. StageOf(s) = "pending" /\ StageOf(s)' = "telling"
  BY <1>1, <1>0, <1>3, <1>4, <1>5, <1>6 DEF StageOf
<1>8. \A r \in Ids : r # s => StageOf(r)' = StageOf(r)
  <2>1. \A r \in Ids : r > Len(signals) \/ r \in 1 .. Len(signals)
    BY <1>3 DEF Ids
  <2> QED BY <1>2, <1>3, <1>4, <1>5, <1>6, <2>1 DEF StageOf
<1>9. Delivery!Goes(s, "pending", "telling")
  BY <1>1, <1>0, <1>7, <1>8, StageGoes
<1> QED BY <1>1, <1>0, <1>2, <1>9, TellsOfOne DEF Delivery!Take

LEMMA TellSays ==
  ASSUME Inv, Tell
  PROVE  \E s \in Ids : Delivery!Say(s)
<1>0. PICK s \in Ids : s = exe.sig
  BY RefsAreSignals DEF Inv, Telling, Tell, Types, SoundExe, Refs
<1>1. s \in 1 .. Len(signals) /\ s \notin Told /\ signals[s].state = "observed"
  BY <1>0 DEF Inv, Telling, Tell, Types, SoundExe, Refs
<1>2. exe.pc = "tell" /\ exe'.pc # "tell"
  <2>1. exe \in ExecutorRecords
    BY Kept DEF Inv
  <2> QED BY <2>1 DEF Tell, Becomes, ExecutorRecords
<1>3. told' = Append(told, s) /\ signals' = signals /\ Len(signals) \in Nat
  BY <1>0, LengthsAreNatural DEF Tell, Inv
<1>4. Told' = Told \cup {s}
  BY <1>1, <1>3, ToldBy DEF Inv
<1>5. StageOf(s) = "telling" /\ StageOf(s)' = "told"
  BY <1>0, <1>1, <1>2, <1>3, <1>4 DEF StageOf
<1>6. \A r \in Ids : r # s => StageOf(r)' = StageOf(r)
  BY <1>0, <1>2, <1>3, <1>4 DEF StageOf
<1>7. Delivery!Goes(s, "telling", "told")
  BY <1>1, <1>5, <1>6, StageGoes
<1> QED BY <1>1, <1>3, <1>7 DEF Delivery!Say

LEMMA ExhaustedNotes ==
  ASSUME Inv, Exhausted
  PROVE  \E s \in Ids : Delivery!Note(s)
<1> DEFINE r == [kind |-> "budget_exhausted", state |-> "observed", scope |-> exe.copy.scope]
<1>1. r \in SignalRecords
  BY Kept, TaskFields DEF Inv, SignalRecords
<1>2. /\ signals' = Append(signals, r) /\ Len(signals) < MaxSignals
      /\ told' = Append(told, Len(signals')) /\ exe' = [exe EXCEPT !.pc = "clear"] /\ exe.pc = "exhausted"
      /\ r.state = "observed"
  BY DEF Exhausted, Goes
<1> HIDE DEF r
<1>0. PICK s \in Ids : s = Len(signals')
  BY <1>1, <1>2, AppendsSignal DEF Inv
<1>3. /\ s = Len(signals) + 1 /\ Len(signals) \in Nat
      /\ \A i \in 1 .. Len(signals) : signals'[i] = signals[i]
      /\ signals'[s] = r
  BY <1>0, <1>2, StatesAppended DEF Inv
<1>4. Told' = Told \cup {s} /\ exe'.pc # "tell"
  <2>1. Told' = Told \cup {s}
    BY <1>0, <1>2, ToldBy DEF Inv
  <2> QED BY <1>2, <2>1, Kept DEF Inv, ExecutorRecords
<1>5. StageOf(s) = "unsent" /\ StageOf(s)' = "told"
  BY <1>0, <1>2, <1>3, <1>4 DEF StageOf
<1>6. \A q \in Ids : q # s => StageOf(q)' = StageOf(q)
  <2>1. \A q \in Ids : q # s => (q > Len(signals) /\ q > Len(signals')) \/ q \in 1 .. Len(signals)
    BY <1>0, <1>3 DEF Ids
  <2>2. \A q \in 1 .. Len(signals) : ~(q > Len(signals)) /\ ~(q > Len(signals'))
    BY <1>0, <1>3
  <2> QED BY <1>0, <1>2, <1>3, <1>4, <2>1, <2>2 DEF StageOf
<1>7. Delivery!Goes(s, "unsent", "told")
  BY <1>5, <1>6, StageGoes
<1> QED BY <1>0, <1>2, <1>7, TellsOfOne DEF Delivery!Note

LEMMA DecideClosesOut ==
  ASSUME Inv, Decide, signals' # signals
  PROVE  \E s \in Ids : Delivery!CloseOut(s)
<1>0. LastTold # None
  BY DEF Decide, Ends
<1>1. PICK s \in Ids : s = LastTold /\ s \in 1 .. Len(signals) /\ s \in Told
  <2>1. LastTold \in 1 .. Len(signals) /\ LastTold \in Told
    BY <1>0, LastToldIsTold
  <2> QED BY <2>1, LengthsAreNatural, ControlBounds DEF Inv, Types, Ids
<1>2. /\ signals[s].state # "consumed" /\ Goes("closing") /\ exe.pc = "decide"
      /\ signals' = [signals EXCEPT ![s].state = "consumed"] /\ told' = told
  BY <1>1 DEF Decide, Ends
<1>3. Len(signals') = Len(signals) /\ Len(signals) \in Nat
  BY <1>2, <1>1, ClosesSignal, LengthsAreNatural DEF Inv
<1>4. \A r \in 1 .. Len(signals) :
        signals'[r].state = IF r = s THEN "consumed" ELSE signals[r].state
  BY <1>2, <1>1, StatesClosed DEF Inv
<1>5. exe'.pc # "tell" /\ exe.pc # "tell" /\ Told' = Told /\ signals[s].state # "pending"
  BY <1>2, <1>1, Kept DEF Inv, ToldOnce, Goes, ExecutorRecords, Told
<1>6. told # <<>> /\ s = told[Len(told)]
  BY <1>0, <1>1 DEF LastTold
<1>7. StageOf(s) = "told" /\ StageOf(s)' = "consumed"
  BY <1>2, <1>1, <1>3, <1>4, <1>5 DEF StageOf
<1>8. \A r \in Ids : r # s => StageOf(r)' = StageOf(r)
  <2>1. \A r \in Ids : r > Len(signals) \/ r \in 1 .. Len(signals)
    BY <1>3 DEF Ids
  <2> QED BY <1>3, <1>4, <1>5, <2>1 DEF StageOf
<1>9. Delivery!Goes(s, "told", "consumed")
  BY <1>1, <1>7, <1>8, StageGoes
<1> QED BY <1>1, <1>2, <1>6, <1>9 DEF Delivery!CloseOut

LEMMA PublishSends ==
  ASSUME Inv, NEW c \in Callers, Publish(c)
  PROVE  \E s \in Ids : Delivery!Send(s)
<1> DEFINE scope == IF Claimed THEN cell.id ELSE task.scope
           r == [kind |-> op[c].kind, state |-> "pending", scope |-> scope]
<1>1. Types' /\ Types
  BY DeliveryTypes DEF Inv
<1>2. signals' = Append(signals, r) /\ told' = told /\ exe' = exe /\ r.state = "pending"
  BY DEF Publish
<1> HIDE DEF r
<1>0. PICK s \in Ids : s = Len(signals')
  <2>1. Len(signals') = Len(signals) + 1 /\ Len(signals) \in Nat
    BY <1>1, <1>2, StatesAppended
  <2>2. Len(signals') \in Ids
    BY <1>1, <2>1, ControlBounds DEF Types, Ids
  <2> QED BY <2>2
<1>3. /\ s = Len(signals) + 1 /\ Len(signals) \in Nat
      /\ \A i \in 1 .. Len(signals) : signals'[i] = signals[i]
      /\ signals'[s] = r
  BY <1>0, <1>1, <1>2, StatesAppended
<1>4. Told' = Told
  BY <1>2 DEF Told
<1>5. StageOf(s) = "unsent" /\ StageOf(s)' = "pending"
  BY <1>0, <1>2, <1>3, <1>4 DEF StageOf
<1>6. \A q \in Ids : q # s => StageOf(q)' = StageOf(q)
  <2>1. \A q \in Ids : q # s => (q > Len(signals) /\ q > Len(signals')) \/ q \in 1 .. Len(signals)
    BY <1>0, <1>3 DEF Ids
  <2>2. \A q \in 1 .. Len(signals) : ~(q > Len(signals)) /\ ~(q > Len(signals'))
    BY <1>0, <1>3
  <2> QED BY <1>0, <1>2, <1>3, <1>4, <2>1, <2>2 DEF StageOf
<1>7. Delivery!Goes(s, "unsent", "pending")
  BY <1>5, <1>6, StageGoes
<1> QED BY <1>2, <1>7 DEF Delivery!Send

\* The process is lost: so is the signal the executor was telling of.
LEMMA RestartLoses ==
  ASSUME Inv, Restart
  PROVE  \/ \E s \in Ids : Delivery!Lose(s)
         \/ UNCHANGED <<[s \in Ids |-> StageOf(s)], told>>
<1>1. told' = told /\ signals' = signals /\ exe'.pc = "idle" /\ Told' = Told
  BY DEF Restart, NoExecutor, Told
<1>2. CASE exe.pc # "tell"
  BY <1>1, <1>2, StagesStay
<1>3. CASE exe.pc = "tell"
  <2>0. PICK s \in Ids : s = exe.sig
    BY <1>3, RefsAreSignals DEF Inv, Telling, Types, SoundExe, Refs
  <2>1. s \in 1 .. Len(signals) /\ s \notin Told /\ signals[s].state = "observed"
    BY <1>3, <2>0 DEF Inv, Telling, Types, SoundExe, Refs
  <2>2. StageOf(s) = "telling" /\ StageOf(s)' = "lost"
    BY <1>1, <1>3, <2>0, <2>1, LengthsAreNatural DEF StageOf, Inv
  <2>3. \A r \in Ids : r # s => StageOf(r)' = StageOf(r)
    BY <1>1, <1>3, <2>0 DEF StageOf
  <2>4. Delivery!Goes(s, "telling", "lost")
    BY <2>1, <2>2, <2>3, StageGoes
  <2> QED BY <1>1, <2>1, <2>4 DEF Delivery!Lose
<1> QED BY <1>2, <1>3

\* A signal that moves changes its stage, which makes it a step.
LEMMA MoveIsStep ==
  ASSUME NEW s \in Ids, Delivery!Moves(s)
  PROVE  Delivery!Next
<1> DEFINE stages == [r \in Ids |-> StageOf(r)]
<1>1. stages'[s] # stages[s]
  <2>1. PICK from \in Delivery!Stages, to \in Delivery!Stages :
          from # to /\ Delivery!Goes(s, from, to)
    BY DEF Delivery!Moves, Delivery!Send, Delivery!Take, Delivery!Say, Delivery!Lose,
           Delivery!Note, Delivery!CloseOut, Delivery!Stages
  <2>2. stages[s] = from /\ stages' = [stages EXCEPT ![s] = to]
    BY <2>1 DEF Delivery!Goes
  <2> QED BY <2>1, <2>2
<1> QED BY <1>1 DEF Delivery!Next

LEMMA DeliveryStep ==
  ASSUME Inv, [Next]_vars
  PROVE  Delivery!Next \/ UNCHANGED <<[s \in Ids |-> StageOf(s)], told>>
<1>0. exe \in ExecutorRecords
  BY Kept DEF Inv
<1>1. ASSUME ExecutorStep, ~Hear, ~Tell, ~Decide, ~Exhausted
      PROVE  UNCHANGED <<[s \in Ids |-> StageOf(s)], told>>
  BY <1>1, QuietExecutor, StagesStay
<1>2. ASSUME Hear, Known(Heard)
      PROVE  UNCHANGED <<[s \in Ids |-> StageOf(s)], told>>
  <2>1. exe'.pc # "tell" /\ exe.pc = "hear" /\ told' = told /\ signals' = signals
    BY <1>2, HearsOn DEF Hear
  <2> QED BY <2>1, StagesStay
<1>3. ASSUME Decide, signals' = signals
      PROVE  UNCHANGED <<[s \in Ids |-> StageOf(s)], told>>
  <2>1. exe.pc = "decide" /\ (Goes("clear") \/ Goes("refused") \/ Goes("closing")) /\ told' = told
    BY <1>3 DEF Decide, Ends
  <2>2. exe'.pc # "tell"
    BY <1>0, <2>1 DEF Goes, ExecutorRecords
  <2> QED BY <1>3, <2>1, <2>2, StagesStay
<1>4. ASSUME NEW c \in Callers, ~Publish(c),
             Pause(c) \/ Stop(c) \/ Resume(c) \/ Launch(c) \/ RequestStep(c)
      PROVE  UNCHANGED <<[s \in Ids |-> StageOf(s)], told>>
  <2>1. told' = told /\ signals' = signals /\ (exe' = exe \/ (exe.pc = "idle" /\ exe'.pc = "begin"))
    BY <1>4, QuietRequests
  <2> QED BY <2>1, StagesStay
<1>5. CASE UNCHANGED vars
  BY <1>5, StagesStay DEF vars
<1> QED BY <1>1, <1>2, <1>3, <1>4, <1>5, HearTakes, TellSays, ExhaustedNotes, DecideClosesOut,
           PublishSends, RestartLoses, MoveIsStep DEF Next, RequestStep, Delivery!Moves

-----------------------------------------------------------------------------
(* The theorems.                                                           *)

\* The parts of the invariant hold together in every state.
THEOREM Invariance == Spec => []Inv
<1>1. Init => Inv
  BY InitInv
<1>2. Inv /\ [Next]_vars => Inv'
  <2> SUFFICES ASSUME Inv, [Next]_vars PROVE Inv'
    OBVIOUS
  <2>1. CASE Next
    BY <2>1, TypesStep, LivesStep, TellsStep DEF Inv, Lives, Tells
  <2>2. CASE UNCHANGED vars
    BY <2>2 DEF vars, Inv, Types, Places, Telling, ToldOnce, Told, EntryOfLiveExecutor,
       Registered, ToolCancelArrives
  <2> QED BY <2>1, <2>2
<1> QED BY <1>1, <1>2, PTL DEF Spec

\* The variables have their types: whatever copies of the record the threads
\* write back over one another, the task is a task (task_executor.py).
THEOREM TypeCorrect == Spec => []TypeOK
<1>1. Inv => TypeOK
  <2> SUFFICES ASSUME Inv PROVE TypeOK
    OBVIOUS
  <2>1. Refs(Len(signals)) \subseteq Ids \cup {None}
    BY RefsAreSignals DEF Inv
  <2>2. reg \in Entries \cup {None}
    BY EntriesAreNotNone DEF Inv, Types, SoundReg
  <2>3. op \in [Callers -> RequestRecords]
    BY DEF Inv, Types
  <2> QED BY <2>2, <2>3 DEF Inv, Types, SoundTasks, SoundExe, TypeOK
<1> QED BY <1>1, Invariance, PTL

\* The agent is told of a signal at most once, and only a signal it was told
\* of is consumed (runtime_gateway.py, mark_observed_by_id and consume).
THEOREM AgentToldOnce == Spec => []ToldOnce
<1>1. Inv => ToldOnce
  BY DEF Inv
<1> QED BY <1>1, Invariance, PTL

\* The registry entry of an executor that runs is its own, and none is left
\* by an executor that entered the try clause which clears it
\* (task_executor.py:1361-1441, task_run_execution_control.py).
THEOREM RegistryIsLive == Spec => []EntryOfLiveExecutor
<1>1. Inv => EntryOfLiveExecutor
  BY DEF Inv
<1> QED BY <1>1, Invariance, PTL

\* An invocation that was signalled before its task was attached is not
\* awaited to its end (tool_invocation_control.py, attach_task).
THEOREM CancelArrives == Spec => []ToolCancelArrives
<1>1. Inv => ToolCancelArrives
  BY DEF Inv
<1> QED BY <1>1, Invariance, PTL

\* A restart leaves running only a task that is under a pause or a stop: every
\* writer of the record, of an old copy too, marks a running task as such
\* (recover_interrupted_executor_leases).
THEOREM RestartRecovers == Spec => RestartLeavesNoneRunning
<1>1. ASSUME Inv, [Next]_vars
      PROVE  [count'.crashes # count.crashes /\ task'.status = "running"
                => Paused(task) \/ Stopped(task)]_vars
  <2>1. CASE Restart
    <3>1. CASE Recovers(task)
      <4>1. task \in TaskRecords /\ task' = [task EXCEPT !.status = "waiting_executor",
                                               !.exec = "rest", !.reco = TRUE, !.err = TRUE]
        BY <1>1, <2>1, <3>1 DEF Inv, Types, SoundTasks, Restart
      <4>2. task'.status # "running"
        BY <4>1 DEF TaskRecords
      <4> QED BY <4>2
    <3>2. CASE ~Recovers(task)
      BY <1>1, <2>1, <3>2 DEF Inv, Types, SoundTasks, Restart, Recovers
    <3> QED BY <3>1, <3>2
  <2>2. CASE ExecutorStep
    <3>1. count' = count
      BY <2>2 DEF ExecutorStep, Begin, Claim, ClaimRaises, Step, Hear, Tell, Prepare, Cancelled, Compile,
         Interrupted, ModelCancelled, ModelFails, ModelAnswers, Recover, Acted, ToolInterrupted,
         ToolAdmitted, ToolStarts, ToolAttaches, ToolEnds, ToolCancelled, Tool, Decide, CloseOut,
         Refused, Budget, Exhausted, Raises, MarkFailed, Clear, End
    <3> QED BY <3>1
  <2>3. ASSUME NEW c \in Callers, Pause(c) \/ Stop(c) \/ Resume(c) \/ Launch(c) \/ RequestStep(c)
        PROVE  count'.crashes = count.crashes
    <3>1. count \in [requests : Nat, crashes : Nat]
      BY <1>1, Kept2 DEF Inv
    <3> QED BY <2>3, <3>1 DEF Pause, Stop, Resume, Launch, Request, RequestStep, Publish, Signal,
           CancelTools, Cancel, Finish, Write, Check, Admit, Mark, Start, PublishHandle, StartFails
  <2>4. CASE UNCHANGED vars
    BY <2>4
  <2> QED BY <1>1, <2>1, <2>2, <2>3, <2>4 DEF Next
<1> QED BY <1>1, Invariance, PTL DEF Spec, RestartLeavesNoneRunning

\* So does what the copies of the record remember.
LEMMA MemoryInvariance == Spec => [](Inv /\ Memory)
<1>1. Init => Memory
  BY InitMemory
<1>2. Inv /\ Inv' /\ Memory /\ [Next]_vars => Memory'
  <2> SUFFICES ASSUME Inv, Inv', Memory, [Next]_vars PROVE Memory'
    OBVIOUS
  <2>1. CASE UNCHANGED vars
    BY <2>1 DEF vars, Memory, Completes, Deliveries, Remembered, Accounted, Sure, Told
  <2> QED BY <2>1, MemoryStep
<1> QED BY <1>1, <1>2, Invariance, PTL DEF Spec

\* A task whose agent was told to pause or stop does not end as completed with
\* that request open: it ends so only when it was told nothing at all, and no
\* thread writes an old copy over that end (task_executor.py, closeout).
THEOREM CompletedClosed == Spec => []CompletedWithNoneOpen
<1>1. Memory => CompletedWithNoneOpen
  <2> SUFFICES ASSUME Memory, task.status = "completed" PROVE Told = {}
    BY DEF CompletedWithNoneOpen
  <2>1. told = <<>>
    BY DEF Memory, Completes
  <2>2. Len(told) = 0
    BY <2>1
  <2> QED BY <2>2 DEF Told
<1> QED BY <1>1, MemoryInvariance, PTL

\* The executor passes no boundary over a pending signal of its cell, unless
\* what it heard there first it has told already, or another thread's copy
\* has put the record's scope back (_record_pending_runtime_control_signal_for_agent).
THEOREM BoundariesHear == Spec => NothingOverlooked
<1> DEFINE Overlooked == /\ exe.pc = "hear" /\ exe'.pc \notin {"hear", "tell", "idle"}
                         /\ Pending([scope |-> cell.id]) # {}
                         /\ Heard \notin Told
                         /\ task.scope = cell.id
<1>1. ASSUME Inv, Memory, Next PROVE ~Overlooked
  <2> SUFFICES ASSUME Overlooked PROVE FALSE
    OBVIOUS
  <2>1. exe \in ExecutorRecords /\ Sure(exe.sig) /\ Remembered(task)
    BY <1>1, CleanRecords
  <2>2. CASE Hear
    <3>1. Known(Heard)
      <4>1. ~Known(Heard) => exe' = [exe EXCEPT !.pc = "tell", !.sig = Heard, !.copy = task]
        BY <2>2 DEF Hear, Becomes
      <4> QED BY <2>1, <4>1 DEF ExecutorRecords
    <3>2. Sure(Heard)
      BY <1>1, <2>1, SignalForSure DEF Heard
    <3>3. Heard # None
      <4>1. Pending(task) = Pending([scope |-> cell.id])
        BY DEF Pending
      <4>2. FirstPending(task) \in Pending(task)
        BY <1>1, <4>1, FirstPendingIsPending DEF Inv
      <4>3. FirstPending(task) # None
        BY <4>2, <1>1, NoneIsNoValue, LengthsAreNatural DEF Inv, Pending
      <4> QED BY <4>3 DEF Heard, SignalFor
    <3>4. ~Delivered(task, Heard)
      BY <2>1 DEF Delivered, Remembered
    <3> QED BY <3>1, <3>2, <3>3, <3>4 DEF Known, Sure
  <2>3. CASE ExecutorStep /\ ~Hear
    BY <2>3 DEF ExecutorStep, Begin, Claim, ClaimRaises, Step, Tell, Prepare, Cancelled, Compile, Interrupted,
       ModelCancelled, ModelFails, ModelAnswers, Recover, Acted, ToolInterrupted, ToolAdmitted,
       ToolStarts, ToolAttaches, ToolEnds, ToolCancelled, Decide, CloseOut, Refused, Budget,
       Exhausted, Raises, MarkFailed, Clear, End
  <2>4. CASE Restart
    BY <2>4 DEF Restart, NoExecutor
  <2>5. ASSUME NEW c \in Callers, Pause(c) \/ Stop(c) \/ Resume(c) \/ Launch(c) \/ RequestStep(c)
        PROVE  FALSE
    <3>1. exe' = exe
      BY <1>1, <2>5, QuietRequests DEF Publish
    <3> QED BY <3>1
  <2> QED BY <1>1, <2>2, <2>3, <2>4, <2>5 DEF Next
<1>2. ASSUME Inv, Memory, [Next]_vars
      PROVE  [exe.pc = "hear" /\ exe'.pc \notin {"hear", "tell", "idle"}
                => \/ Pending([scope |-> cell.id]) = {}
                   \/ Heard \in Told
                   \/ task.scope # cell.id]_vars
  BY <1>1, <1>2
<1> QED BY <1>2, MemoryInvariance, PTL DEF Spec, NothingOverlooked

\* The control of a task implements ControlDelivery: whatever is sent, found
\* twice, overwritten or restarted, each signal takes its stages in order.
THEOREM Refinement == Spec => DeliversControl
<1>1. Init => Delivery!Init
  <2> SUFFICES ASSUME Init PROVE Delivery!Init
    OBVIOUS
  <2>1. told = <<>> /\ \A s \in Ids : StageOf(s) = "unsent"
    BY DEF Init, StageOf, Ids
  <2> QED BY <2>1 DEF Delivery!Init
<1>2. Inv /\ [Next]_vars => [Delivery!Next]_<<[s \in Ids |-> StageOf(s)], told>>
  BY DeliveryStep
<1> QED BY <1>1, <1>2, Invariance, PTL DEF Spec, DeliversControl, Delivery!Spec

=============================================================================
