\* Every message is settled, whatever is cancelled: nothing fails and no turn hands its work off.
CONSTANTS
  Items = {i1, i2}
  Runs = {r1, r2}
  None = None
  ClaimLimit = 1
  MaxAttempts = 3
  MaxPosts = 1
  MaxCrashes = 0
  Faults = FALSE
  HandOffs = FALSE
  Cancels = TRUE
  SlowClaims = FALSE
SPECIFICATION FairSpec
INVARIANTS ClaimExclusive OneRunPerInput
PROPERTIES EveryInputSettled
CHECK_DEADLOCK FALSE
