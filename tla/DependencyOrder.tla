--------------------------- MODULE DependencyOrder ---------------------------
(***************************************************************************)
(* What a graph run promises of the order of its work, whatever way the    *)
(* work is driven: a node begins only when all it depends on is done, on   *)
(* what is done now, and work is undone together with all that depends on  *)
(* it, unless a client asks for the work of single nodes to be redone.     *)
(* What depended on them then keeps its stage, and is known to be out of   *)
(* date.  GraphRun implements this specification.                          *)
(***************************************************************************)
EXTENDS Naturals

CONSTANTS Nodes, Edges   \* <<m, n>> \in Edges: n depends on m

VARIABLES stage,  \* of each node: still to do, in progress or done
          kept    \* the edges <<m, n>> where m was undone and n was not

Stages == {"todo", "doing", "done"}

Init == /\ stage = [n \in Nodes |-> "todo"]
        /\ kept = {}

\* The nodes S may begin when the stages are st.
MayBegin(st, S) ==
  \A n \in S : st[n] = "todo" /\ \A m \in Nodes : <<m, n>> \in Edges => st[m] = "done"

Begun(st, S) == [n \in Nodes |-> IF n \in S THEN "doing" ELSE st[n]]

\* The edges that are left of K when the stages are st: what is to be done
\* again will be done on what there is then.
Left(K, st) == {e \in K : st[e[2]] # "todo"}

\* Some nodes begin.
Begin == \E S \in SUBSET Nodes : /\ MayBegin(stage, S)
                                 /\ stage' = Begun(stage, S)
                                 /\ UNCHANGED kept

\* A node ends, done or to be done again, and others begin with its result.
Advance ==
  \E n \in Nodes, end \in {"done", "todo"}, S \in SUBSET Nodes :
    LET ended == [stage EXCEPT ![n] = end]
    IN  /\ stage[n] = "doing"
        /\ MayBegin(ended, S)
        /\ stage' = Begun(ended, S)
        /\ kept' = Left(kept, ended)

Undone(S) == [n \in Nodes |-> IF n \in S THEN "todo" ELSE stage[n]]

\* Nodes are to be done again, and with each of them all that depends on it.
Redo ==
  \E S \in SUBSET Nodes :
    /\ \A m \in S, n \in Nodes : <<m, n>> \in Edges => n \in S
    /\ stage' = Undone(S)
    /\ kept' = Left(kept, Undone(S))

\* Nodes are to be done again, and what depends on them is left as it is.
RedoAlone ==
  \E S \in SUBSET Nodes :
    /\ stage' = Undone(S)
    /\ kept' = Left(kept \cup {e \in Edges : e[1] \in S}, Undone(S))

Next == Begin \/ Advance \/ Redo \/ RedoAlone

Spec == Init /\ [][Next]_<<stage, kept>>

\* What follows from it: no node is in progress or done while one it depends
\* on is not done, but for the edges that are kept.
Ordered ==
  \A m, n \in Nodes :
    <<m, n>> \in Edges \ kept /\ stage[n] # "todo" => stage[m] = "done"
==============================================================================
