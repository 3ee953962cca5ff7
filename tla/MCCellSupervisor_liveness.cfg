\* Cancels of a task scheduled again are delivered, and callers come back.
CONSTANTS
  turn = turn
  later = later
  task = task
  subagent = subagent
  k1 = k1
  k2 = k2
  None = None
  MaxCells = 2
  Jobs = {task}
  Callers = {k1, k2}
  Tasks = {task}
  Primary = {task}
  TaskOf <- NoTurns
  MaxActive = 2
  MaxCalls = 2
  Faults = FALSE
  Stubborn = FALSE
SPECIFICATION FairSpec
PROPERTIES CancelEnds CallersReturn
CHECK_DEADLOCK FALSE
