------------------------ MODULE MCCellSupervisor ------------------------
(* Instances of CellSupervisor for TLC: a chat turn that may hand over to *)
(* a task of its session, another turn, and a task that is not primary (a *)
(* subagent's).                                                           *)
EXTENDS CellSupervisor, TLC

CONSTANTS turn, later, task, subagent, k1, k2

NoTurns == [j \in {} |-> None]
TaskOfTurn == [j \in {turn} |-> task]
TaskOfTurns == [j \in {turn, later} |-> IF j = turn THEN task ELSE None]

Symmetry == Permutations({k1, k2})
=========================================================================
