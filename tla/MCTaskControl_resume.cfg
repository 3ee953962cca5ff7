\* One caller, one request at a time, none of them overtaken by the model.
CONSTANTS
  Callers = {c1}
  None = None
  Answers = {"respond"}
  MaxSignals = 2
  MaxCells = 2
  MaxSteps = 3
  MaxRequests = 3
  MaxCrashes = 0
  Stops = FALSE
  Faults = FALSE
  Outrun = FALSE
  SlowModel = TRUE
SPECIFICATION Spec
INVARIANTS ResumedAnswerIsTaken
CHECK_DEADLOCK FALSE
