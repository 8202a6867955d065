\* What answers requests; room for two of the cached responses and four bytes.
SPECIFICATION AllFairSpec
CONSTANTS
  Parts = {"caches", "ring", "projector"}
  None = None
  k1 = k1
  k2 = k2
  c1 = c1
  c2 = c2
  Keys <- MCKeys
  Clients = {c1, c2}
  Scopes <- MCScopes
  Size <- MCSize
  MaxEntries = 2
  MaxBytes = 4
  TTL = 2
  JoinsStale = FALSE
  MaxVersion = 2
  RingSize = 3
  Owners = {o1, o2}
  Entities <- MCKeys
  MaxBlock = 2
  Touches <- MCTouches
  LateWriters = {"late"}
  MaxClock = 2
  MaxTx = 1
  Overlap = 2
  MaxRevision = 1
  MaxProjectorFailures = 1
INVARIANTS NothingStaleCached AnswersFresh WithinBudget FoldedOrDue
PROPERTIES SelfHeals KeysUsedFairly ProgressAdvances EventuallyFolded
CHECK_DEADLOCK FALSE
