\* A claimed message whose session became busy meanwhile.
CONSTANTS
  Items = {i1, i2}
  Runs = {r1, r2}
  None = None
  ClaimLimit = 1
  MaxAttempts = 2
  MaxPosts = 1
  MaxCrashes = 0
  Faults = FALSE
  HandOffs = FALSE
  Cancels = FALSE
  SlowClaims = FALSE
SPECIFICATION Spec
PROPERTIES NoRunWhileBusy
CHECK_DEADLOCK FALSE
