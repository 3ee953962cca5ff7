--------------------------- MODULE ControlDelivery ---------------------------
(***************************************************************************)
(* What the control of a task promises for each signal, however many       *)
(* threads send, find and write it: it is told once at most, one at a      *)
(* time, in a log that is only added to, and an answer of the agent closes *)
(* out the one told last.  A signal may be lost only while it is told.     *)
(* TaskControl implements this specification.                              *)
(***************************************************************************)
EXTENDS Naturals, Sequences

CONSTANT Signals

VARIABLES stage,  \* of each signal: how far it has come
          log     \* what the agent was told, in order

Stages == {"unsent", "pending", "telling", "told", "consumed", "lost"}

Init == stage = [s \in Signals |-> "unsent"] /\ log = <<>>

\* Signal s goes from one stage to the next.
Goes(s, from, to) == stage[s] = from /\ stage' = [stage EXCEPT ![s] = to]

Idle == \A s \in Signals : stage[s] # "telling"

\* It is sent by another thread,
Send(s) == Goes(s, "unsent", "pending") /\ UNCHANGED log

\* found by the executor when it tells of no other,
Take(s) == Idle /\ Goes(s, "pending", "telling") /\ UNCHANGED log

\* and told; or the process is lost meanwhile.
Say(s) == Goes(s, "telling", "told") /\ log' = Append(log, s)
Lose(s) == Goes(s, "telling", "lost") /\ UNCHANGED log

\* A signal of the executor's own is told at once.
Note(s) == Idle /\ Goes(s, "unsent", "told") /\ log' = Append(log, s)

\* The answer to the last one closes it out.
CloseOut(s) == /\ log # <<>> /\ s = log[Len(log)]
               /\ Goes(s, "told", "consumed")
               /\ UNCHANGED log

Moves(s) == Send(s) \/ Take(s) \/ Say(s) \/ Lose(s) \/ Note(s) \/ CloseOut(s)

\* A step is of the signal whose stage it changes.
Next == \E s \in Signals : stage'[s] # stage[s] /\ Moves(s)

Spec == Init /\ [][Next]_<<stage, log>>
=============================================================================
