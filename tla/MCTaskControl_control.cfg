\* Two callers pause, stop, resume and launch one task, with faults, a worker
\* that outruns its handle and a restart.
CONSTANTS
  Callers = {c1, c2}
  None = None
  Answers = {"tool", "respond", "ask_user", "block"}
  MaxSignals = 3
  MaxCells = 2
  MaxSteps = 1
  MaxRequests = 3
  MaxCrashes = 1
  Stops = TRUE
  Faults = TRUE
  Outrun = TRUE
  SlowModel = FALSE
SPECIFICATION Spec
SYMMETRY Symmetry
INVARIANTS TypeOK ToldOnce CompletedWithNoneOpen EntryOfLiveExecutor ToolCancelArrives
PROPERTIES NothingOverlooked RestartLeavesNoneRunning DeliversControl
CHECK_DEADLOCK FALSE
