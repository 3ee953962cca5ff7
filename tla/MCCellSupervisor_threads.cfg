\* Two callers against the workers of a turn and of a task scheduled again.
CONSTANTS
  turn = turn
  later = later
  task = task
  subagent = subagent
  k1 = k1
  k2 = k2
  None = None
  MaxCells = 2
  Jobs = {turn, task}
  Callers = {k1, k2}
  Tasks = {task}
  Primary = {turn, task}
  TaskOf <- TaskOfTurn
  MaxActive = 2
  MaxCalls = 3
  Faults = TRUE
  Stubborn = TRUE
SPECIFICATION Spec
SYMMETRY Symmetry
INVARIANTS TypeOK RunningIsMapped OneCellPerJob CancelNotLost
PROPERTIES SchedulesWork
CHECK_DEADLOCK FALSE
