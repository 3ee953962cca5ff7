\* Two nodes, their join and a node behind it, with requests, faults and a restart.
CONSTANTS
  a = a
  b = b
  c = c
  d = d
  Nodes <- GraphNodes
  Edges <- GraphEdges
  Terminals <- GraphTerminals
  Limit = 2
  Budget = 3
  MaxDispatches = 5
  MaxRequests = 3
  MaxCrashes = 1
  Faults = TRUE
SPECIFICATION Spec
SYMMETRY Symmetry
INVARIANTS TypeOK OneTaskPerOrder RunningHasOrder CompletedOnPresentInputs
  ClosedHasNoOrder NoSilentStall RootCompletedIsTrue
PROPERTIES KeepsDependencyOrder
CHECK_DEADLOCK FALSE
