\* Two messages against dispatchers, turns, hand-offs and faults.
CONSTANTS
  Items = {i1, i2}
  Runs = {r1, r2}
  None = None
  ClaimLimit = 1
  MaxAttempts = 3
  MaxPosts = 1
  MaxCrashes = 0
  Faults = TRUE
  HandOffs = TRUE
  Cancels = FALSE
  SlowClaims = FALSE
SPECIFICATION Spec
SYMMETRY Symmetry
INVARIANTS TypeOK ClaimExclusive OneRunPerInput OnePrimaryCell
  DispatchedWhereItSays NoInputStranded
PROPERTIES DeliversInputs
CHECK_DEADLOCK FALSE
