---------------------------- MODULE InputDelivery ----------------------------
(***************************************************************************)
(* What a session promises for each queued message, however many           *)
(* dispatchers, turns and cancel requests work on the queue: it is taken   *)
(* by one of them at a time, it is given a run at most once while the      *)
(* process lives, it comes back to the queue only when nobody has it, and  *)
(* once settled it is never waiting again.  SessionDispatch implements     *)
(* this specification.                                                     *)
(***************************************************************************)
CONSTANT Messages

VARIABLES place,  \* of each message: where the queue has it
          hand    \* who has it: nobody, an actor, or a run made for it

Places == {"out", "waiting", "taken", "settled"}
Hands == {"free", "held", "given"}

Init == /\ place = [m \in Messages |-> "out"]
        /\ hand = [m \in Messages |-> "free"]

\* The messages of S change their place, or their hand, to what is given.
Moves(S, to) == place' = [m \in Messages |-> IF m \in S THEN to ELSE place[m]]
Passes(S, to) == hand' = [m \in Messages |-> IF m \in S THEN to ELSE hand[m]]

\* A message is submitted,
Submit(m) == place[m] = "out" /\ Moves({m}, "waiting") /\ UNCHANGED hand

\* taken with others that wait and that nobody has,
Take(S) == /\ \A m \in S : place[m] = "waiting" /\ hand[m] = "free"
           /\ Moves(S, "taken") /\ Passes(S, "held")

\* given a run of its own by the one who took it,
Give(m) == hand[m] = "held" /\ Passes({m}, "given") /\ UNCHANGED place

\* and settled by the one who has it, who so lets go of it unless it has a
\* run; or by a cancel, which takes it out of nobody's hand.
Settle(m) == /\ hand[m] # "free" /\ place[m] \in {"taken", "settled"}
             /\ Moves({m}, "settled")
             /\ \/ hand[m] = "held" /\ Passes({m}, "free")
                \/ hand[m] = "given" /\ UNCHANGED hand
Cancel(m) == place[m] # "out" /\ Moves({m}, "settled") /\ UNCHANGED hand

\* Those who hold messages may drop them, all of them when the process ends;
\* what was taken and nobody has goes back to the queue.
Drop(S) == /\ \A m \in S : hand[m] = "held"
           /\ Passes(S, "free") /\ UNCHANGED place
Crash == Passes(Messages, "free") /\ UNCHANGED place
Return(S) == /\ \A m \in S : place[m] = "taken" /\ hand[m] = "free"
             /\ Moves(S, "waiting") /\ UNCHANGED hand

Next == \/ \E m \in Messages : Submit(m) \/ Give(m) \/ Settle(m) \/ Cancel(m)
        \/ \E S \in SUBSET Messages : Take(S) \/ Drop(S) \/ Return(S)
        \/ Crash

Spec == Init /\ [][Next]_<<place, hand>>
=============================================================================
