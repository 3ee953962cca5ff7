\* One restart, and clients that submit a message again.
CONSTANTS
  Items = {i1}
  Runs = {r1, r2, r3, r4}
  None = None
  ClaimLimit = 1
  MaxAttempts = 2
  MaxPosts = 2
  MaxCrashes = 1
  Faults = TRUE
  HandOffs = TRUE
  Cancels = TRUE
  SlowClaims = FALSE
SPECIFICATION Spec
SYMMETRY Symmetry
INVARIANTS ClaimExclusive OneRunPerInput DispatchedWhereItSays
PROPERTIES DeliversInputs
CHECK_DEADLOCK FALSE
