\* The compose stack: forward scanner, backfill scanner and gap filler.
SPECIFICATION Spec
CONSTANTS
  None = None
  MaxHead = 4
  OldestBlock = 0
  ConfirmationDepth = 1
  ReorgDepth = 1
  NodeLag = 1
  NearBackfills = FALSE
  BackfillProcess = TRUE
  MaxBlocksPerCycle = 1
  MaxRetries = 1
  MaxCrashes = 1
INVARIANTS TypeOK ForwardContiguous StoredIsFinal NoLostBlock RecordedAtMostOnce
PROPERTIES CursorsAdvance ImplementsIndexedChain
