\* A crash during the very first start.
SPECIFICATION Spec
CONSTANTS
  None = None
  k1 = k1
  k2 = k2
  Keys <- MCKeys
  Touches <- MCTouches
  MaxBlock = 2
  Projectors = {"p"}
  Writers = {"late"}
  MaxClock = 3
  MaxTx = 1
  Overlap = 2
  MaxRevision = 1
  MaxFailures = 1
  StartCrashes = TRUE
INVARIANTS NothingForgotten
