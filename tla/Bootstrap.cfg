\* Import: three entities in batches of two, two backends, two importers, one fault.
\* Download: three parts, two requests at a time, an object that is replaced by another
\* version, one crash of the pod.
SPECIFICATION AllFairSpec
CONSTANTS
  Moving = {"import", "download"}
  None = None
  Hole = Hole
  Torn = Torn
  Versions = {good, other}
  Wanted = good
  PartCount = 3
  Workers = {worker1, worker2}
  Lead = worker1
  PartAttempts = 2
  MaxReplaced = 2
  MaxBroken = 2
  MaxCrashes = 1
  Backends = {b1, b2}
  Importers = {i1, i2}
  Total = 3
  Batch = 2
  RestartLimit = 1
  MaxBlock = 1
  MaxFaults = 1
INVARIANTS EntitiesInPlace ImportComplete DumpOfOneVersion
PROPERTIES DownloadKeepsProgress BootstrapEnds
CHECK_DEADLOCK FALSE
