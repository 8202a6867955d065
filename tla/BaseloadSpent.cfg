\* The same instance, against the comment on the end of a wait.
SPECIFICATION AllFairSpec
CONSTANTS
  Parts = {"worker"}
  Floor = 2
  Ceiling = 4
  Drip = 2
  Cooldown = 3
  PollInterval = 1
  MineTime = 1
  Latency = 1
  MaxSpend = 3
  MaxLost = 0
  None = None
  Cap = 13
  Tip = 2
  MaxBumps = 2
  BaseFees = {4, 12, 14}
  MaxTasks = 2
  MaxBatches = 2
  MaxMoves = 1
  MaxFaults = 1
INVARIANTS SpentElsewhere
CHECK_DEADLOCK FALSE
