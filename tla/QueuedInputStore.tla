-------------------------- MODULE QueuedInputStore --------------------------
(***************************************************************************)
(* The per-session file of queued user inputs                              *)
(* (src/backend/runtime/shared/queued_user_input_store.py).  Every method  *)
(* reads the file, changes it and writes it back under _QUEUE_LOCK and the *)
(* file lock, so each is one function from the items stored before to the  *)
(* items stored after.  The interleavings of callers are in the modules    *)
(* that use this one.                                                      *)
(*                                                                         *)
(* A queued input is named by its client_message_id: the store keeps at    *)
(* most one item per id.  What an input is aimed at is abstracted to a     *)
(* turn, named by the run that starts it, and to whether the input also    *)
(* names the task that turn is bound to: a turn is bound to one at most.   *)
(***************************************************************************)
EXTENDS Naturals, FiniteSets

CONSTANTS Items,      \* the client_message_ids of one session
          Runs,       \* chat runs, and the turns they start
          None,       \* the empty reference ("" in the code)
          ClaimLimit  \* _ACTIVE_TURN_STEER_CLAIM_LIMIT

ASSUME NoneIsNoReference == None \notin Items \cup Runs
ASSUME FiniteSession == IsFiniteSet(Items) /\ IsFiniteSet(Runs)
ASSUME ClaimLimitIsPositive == ClaimLimit \in Nat \ {0}

Policies == {"auto", "steer"}
Settled == {"dispatched", "failed", "canceled"}
Statuses == {"absent", "queued", "dispatching"} \cup Settled

(***************************************************************************)
(* at: the place of the item in the file; old: updated_at lies at least    *)
(* max_age_seconds (300 s) back; ref: dispatch_stream_run_id.              *)
(***************************************************************************)
ItemRecords ==
  [status : Statuses, policy : Policies, turn : Runs \cup {None},
   bound : BOOLEAN, ref : Runs \cup {None}, at : Nat, old : BOOLEAN]

Absent == [status |-> "absent", policy |-> "auto", turn |-> None,
           bound |-> FALSE, ref |-> None, at |-> 0, old |-> FALSE]

EmptyStore == [i \in Items |-> Absent]

Queued(st) == {i \in Items : st[i].status = "queued"}
Present(st) == {i \in Items : st[i].status # "absent"}

\* The item of S that stands first in the file.
IsFirst(st, S, i) == i \in S /\ \A j \in S : st[i].at <= st[j].at

\* Mutant of Enqueue: a second submission starts over, whatever became of the
\* first.
EnqueueAgain(st, i, policy, turn, bound) ==
  [st EXCEPT ![i] =
     [status |-> "queued", policy |-> policy, turn |-> turn, bound |-> bound,
      ref |-> None, at |-> Cardinality(Present(st)) + 1, old |-> FALSE]]

\* enqueue: a second submission under the same id returns the stored item.
Enqueue(st, i, policy, turn, bound) ==
  IF st[i].status # "absent" THEN st
  ELSE [st EXCEPT ![i] =
          [status |-> "queued", policy |-> policy, turn |-> turn,
           bound |-> bound, ref |-> None, at |-> Cardinality(Present(st)) + 1,
           old |-> FALSE]]

\* What claim_next(policy) may pick, and what it does to its pick.
Claimable(st, policy) == {i \in Queued(st) : st[i].policy = policy}

\* Mutant of Claim: the pick is returned, but not written back.
ClaimUnsaved(st, i) == [st EXCEPT ![i] = [@ EXCEPT !.old = FALSE]]

Claim(st, i) ==
  [st EXCEPT ![i] = [@ EXCEPT !.status = "dispatching", !.old = FALSE]]

\* claim_for_active_turn: the inputs turn t (bound to a task or not) may take.
MatchesTurn(item, t, bound) ==
  /\ item.status = "queued"
  /\ item.turn \in {None, t}
  /\ item.bound => bound

ClaimedForTurn(st, t, bound) ==
  LET matching == {i \in Items : MatchesTurn(st[i], t, bound)}
  IN  {i \in matching :
         Cardinality({j \in matching : st[j].at < st[i].at}) < ClaimLimit}

\* Mutant of ClaimForActiveTurn: the claim does not record its turn.
ClaimUnaimed(st, t, bound) ==
  [i \in Items |-> IF i \in ClaimedForTurn(st, t, bound)
                   THEN [st[i] EXCEPT !.status = "dispatching", !.old = FALSE]
                   ELSE st[i]]

ClaimForActiveTurn(st, t, bound) ==
  [i \in Items |->
     IF i \in ClaimedForTurn(st, t, bound)
     THEN [st[i] EXCEPT !.status = "dispatching", !.policy = "steer",
                        !.turn = t, !.bound = bound \/ @, !.old = FALSE]
     ELSE st[i]]

\* retarget_for_dispatch changes an item only while it is still queued.
Retargetable(st, i) == st[i].status = "queued"

Retarget(st, i, policy, turn, bound) ==
  [st EXCEPT ![i] = [@ EXCEPT !.policy = policy, !.turn = turn,
                              !.bound = bound, !.old = FALSE]]

\* _update_item: the new status is written whatever the old one is.
UpdateItem(st, i, status, ref) ==
  [st EXCEPT ![i] = [@ EXCEPT !.status = status, !.ref = ref, !.old = FALSE]]

MarkDispatched(st, i, ref) == UpdateItem(st, i, "dispatched", ref)
MarkFailed(st, i) == UpdateItem(st, i, "failed", st[i].ref)

\* cancel: the status is read first, and written in a second critical section.
Cancelable(st, i) == st[i].status \in {"queued", "dispatching"}
MarkCanceled(st, i) == UpdateItem(st, i, "canceled", st[i].ref)

\* Mutant of StaleItems: whatever is claimed goes back to the queue.
StaleAny(st) == {i \in Items : st[i].status = "dispatching"}

\* reset_stale_dispatching
StaleItems(st) == {i \in Items : st[i].status = "dispatching" /\ st[i].old}

ResetStale(st) ==
  [i \in Items |-> IF i \in StaleItems(st)
                   THEN [st[i] EXCEPT !.status = "queued", !.old = FALSE]
                   ELSE st[i]]
=============================================================================
