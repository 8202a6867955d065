\* What is kept for the readers; one fault of each kind.
SPECIFICATION ReadersSpec
CONSTANTS
  Parts = {"endpoint", "relay", "lists", "reads", "top", "guzzlers", "sync", "sessions", "queries"}
  None = None
  Confirmations = 1
  Oldest = 0
  MaxHeight = 3
  LogBlocks = {1, 2, 3}
  SentBlocks = {0, 2, 3}
  ReadBlocks = {1, 3}
  Requests <- MCRequests
  Span = 3
  FeeSpan = 2
  Callers = {s1, s2}
  Limit = 2
  Window = 2
  RelayTime = 7
  MaxAccepted = 7
  TTL = 2
  MaxLoad = 1
  MaxVersion = 2
  MaxFailures = 1
  g = g
  k = k
  a = a
  alice = alice
  bob = bob
  Keys = {g, k}
  Names = {a}
  Owners = {alice, bob}
  AttributeValues = {1, 2}
  Queries = {None, a}
  Genesis <- MCGenesis
  Contents <- MCContents
  PageSize = 1
  MaxExpiry = 5
  MaxBlock = 3
  Gone = Gone
  Rejected = Rejected
  Writers = {w1, w2}
  RecordBlocks = {0, 1, 2}
  Positions = {0, 1}
  recordValue <- MCValue
  MaxRecords = 2
  MaxSaves = 2
  Senders = {s1, s2}
  Spans <- MCSpans
  BucketWidth = 2
  BoardTime = 5
  MaxBlocks = 3
  MaxBoardFaults = 1
  FirstBlock = 2
  BlockTime = 1
  SyncTime = 3
  SampleLimit = 3
  SyncedLag = 1
  StallSpan = 3
  MaxRestored = 1
  t1 = t1
  t2 = t2
  Tabs = {t1, t2}
  MaxLogins = 2
  MaxFaults = 1
  MaxDepth = 2
  MaxPredicates = 3
  TopByte = 1
  I64Max = 1
  Vocabularies <- MCVocabularies
  Entities <- MCEntities
INVARIANTS EndpointSound RelayCapped ListsServedFresh QueriesAnswered FoldTrue ReadsConsistent TopRecordsExact GuzzlersHonest SyncStateTrue SessionsShown
VIEW View
SYMMETRY Symmetry
CHECK_DEADLOCK FALSE
