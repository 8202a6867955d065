\* One scanner that backfills a slice and then catches up, with a gap filler; the loops beside it.
SPECIFICATION AllFairSpec
CONSTANTS
  Parts = {"ingest", "aggregator", "precomputed", "pool"}
  w1 = w1
  w2 = w2
  c1 = c1
  c2 = c2
  c3 = c3
  None = None
  Sizes <- MCSizes
  MaxBlock = 5
  MaxSweepFailures = 1
  MaxVersion = 3
  MaxComputeFailures = 1
  Workers = {w1, w2}
  Calls = {c1, c2, c3}
  workerOf <- MCWorkerOf
  MaxMintFailures = 2
  MaxRestarts = 1
  MaxHead = 3
  OldestBlock = 1
  ConfirmationDepth = 1
  ReorgDepth = 1
  NodeLag = 0
  NearBackfills = TRUE
  BackfillProcess = FALSE
  MaxBlocksPerCycle = 2
  MaxRetries = 2
  MaxCrashes = 2
INVARIANTS NoLostBlock WindowsComplete PrecomputeSound MintsKept
PROPERTIES EveryBlockStored BackgroundCatchesUp
CHECK_DEADLOCK FALSE
