\* Two backends on one schema.
SPECIFICATION Spec
CONSTANTS
  None = None
  k1 = k1
  k2 = k2
  Keys <- MCKeys
  Touches <- MCTouches
  MaxBlock = 2
  Projectors = {"p", "q"}
  Writers = {}
  MaxClock = 1
  MaxTx = 0
  Overlap = 1
  MaxRevision = 1
  MaxFailures = 0
  StartCrashes = FALSE
INVARIANTS NothingForgotten
