----------------------------- MODULE SessionWork -----------------------------
(***************************************************************************)
(* The work of one session: a job is worked on by one worker at a time;    *)
(* primary work begins only beside the work it follows, a task beside the  *)
(* turn that hands over to it; and no job begins while as many as the      *)
(* ceiling allows run undisturbed.  CellSupervisor implements this         *)
(* specification.                                                          *)
(***************************************************************************)
EXTENDS Naturals, FiniteSets

CONSTANTS Jobs,
          Primary,  \* the jobs that take turns
          Follows,  \* <<i, j>> \in Follows: i hands over to j
          Ceiling

VARIABLES working,  \* the jobs that are worked on
          ending    \* those of them that were asked to end

Init == working = {} /\ ending = {}

MayBegin(j) == /\ j \notin working
               /\ j \in Primary => \A i \in working \cap Primary : <<i, j>> \in Follows
               /\ Cardinality(working \ ending) < Ceiling

Begin(j) == MayBegin(j) /\ working' = working \cup {j} /\ UNCHANGED ending

\* A job is asked to end once; it may go on, or end without being asked.
Ask(j) == j \in working \ ending /\ ending' = ending \cup {j} /\ UNCHANGED working
End(j) == j \in working /\ working' = working \ {j} /\ ending' = ending \ {j}

\* A step changes what is worked on.
Next == /\ <<working, ending>>' # <<working, ending>>
        /\ \E j \in Jobs : Begin(j) \/ Ask(j) \/ End(j)

Spec == Init /\ [][Next]_<<working, ending>>
=============================================================================
