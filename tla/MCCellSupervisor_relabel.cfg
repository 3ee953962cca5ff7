\* A cancel against the end of the work it cancels.
CONSTANTS
  turn = turn
  later = later
  task = task
  subagent = subagent
  k1 = k1
  k2 = k2
  None = None
  MaxCells = 1
  Jobs = {turn, task}
  Callers = {k1, k2}
  Tasks = {task}
  Primary = {turn, task}
  TaskOf <- TaskOfTurn
  MaxActive = 2
  MaxCalls = 1
  Faults = FALSE
  Stubborn = FALSE
SPECIFICATION Spec
PROPERTIES DoneIsNotRelabelled
CHECK_DEADLOCK FALSE
