\* A cap of 13 between the base fees; two tasks, two batches, one fault of each kind.
SPECIFICATION AllFairSpec
CONSTANTS
  Parts = {"worker", "faucet"}
  Floor = 2
  Ceiling = 4
  Drip = 2
  Cooldown = 3
  PollInterval = 1
  MineTime = 1
  Latency = 1
  MaxSpend = 3
  MaxLost = 2
  None = None
  Cap = 13
  Tip = 2
  MaxBumps = 2
  BaseFees = {4, 12, 14}
  MaxTasks = 2
  MaxBatches = 2
  MaxMoves = 1
  MaxFaults = 1
INVARIANTS FeesHold BatchesAccounted
PROPERTIES WaitEnds 
CHECK_DEADLOCK FALSE
