\* A cancel that raced a dispatcher.
CONSTANTS
  Items = {i1}
  Runs = {r1}
  None = None
  ClaimLimit = 1
  MaxAttempts = 1
  MaxPosts = 1
  MaxCrashes = 0
  Faults = FALSE
  HandOffs = FALSE
  Cancels = TRUE
  SlowClaims = FALSE
SPECIFICATION Spec
PROPERTIES TerminalIsFinal
CHECK_DEADLOCK FALSE
