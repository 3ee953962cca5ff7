\* Two turns, the task of one of them and a subagent, with room for two cells.
CONSTANTS
  turn = turn
  later = later
  task = task
  subagent = subagent
  k1 = k1
  k2 = k2
  None = None
  MaxCells = 3
  Jobs = {turn, later, task, subagent}
  Callers = {k1}
  Tasks = {task, subagent}
  Primary = {turn, later, task}
  TaskOf <- TaskOfTurns
  MaxActive = 2
  MaxCalls = 3
  Faults = FALSE
  Stubborn = FALSE
SPECIFICATION Spec
INVARIANTS PrimaryAlone CeilingKept
CHECK_DEADLOCK FALSE
