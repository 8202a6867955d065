------------------------------ MODULE Records ------------------------------
(***************************************************************************)
(* What the database and the memory keep for the readers: the blocks that  *)
(* the JSON-RPC endpoint answers from or relays a call beyond, the lists   *)
(* of the API, entity versions, the tables of top transactions, the        *)
(* guzzler board, the scan samples behind /sync, and the browser's         *)
(* sessions.  They share no state: a behaviour moves one of them, chosen   *)
(* in the initial state, and leaves the others as they started.            *)
(***************************************************************************)

CONSTANTS
  None,
  Parts,                                            \* the components that may move
  Confirmations, Oldest, LogBlocks, SentBlocks, ReadBlocks, Requests, Span, FeeSpan,
  MaxHeight,                                        \* of the endpoint
  Callers, Limit, Window, RelayTime, MaxAccepted,   \* of the relay
  TTL, MaxLoad, MaxVersion, MaxFailures,            \* of the lists
  Keys, Names, Owners, AttributeValues, Queries, Genesis, Contents, PageSize,
  MaxExpiry, MaxBlock,
  Gone, Rejected,                                   \* of the reads
  Writers, RecordBlocks, Positions, recordValue, MaxRecords,
  MaxSaves,                                         \* of the top transactions
  Senders, Spans, BucketWidth, BoardTime, MaxBlocks, MaxBoardFaults,  \* of the guzzlers
  FirstBlock, BlockTime, SyncTime, SampleLimit, SyncedLag, StallSpan,
  MaxRestored,                                      \* of the sync status
  Tabs, MaxLogins, MaxFaults                        \* of the sessions

VARIABLES
  part,   \* the component that moves
  height, indexed, forward, backfill, rpcCall, before, heard,
  relayNow, recorded, windowStart, windowCount, resolvedUrl, relayed, accepted,
  data, notices, notified, entries, inflight, loads, queries, answer, failures,
  head, txs, node, versions, projected, call, cursor, walk, asOf, versionShown,
  stored, records, saving, step, version, mine, deleted, minimum, saves,
  boardNow, tracker, redis, wire, removing, doubtful, boardFaults, seen,
  syncNow, scanned, last, observed, request, restored, report, cursorAt,
  sessions, expired, created, jar, shown, probe, flow, mail, faults, left

endpointVars == <<height, indexed, forward, backfill, rpcCall, before, heard>>
relayVars == <<relayNow, recorded, windowStart, windowCount, resolvedUrl, relayed, accepted>>
listVars == <<data, notices, notified, entries, inflight, loads, queries, answer, failures>>
readVars ==
  <<head, txs, node, versions, projected, call, cursor, walk, asOf, versionShown>>
topVars == <<stored, records, saving, step, version, mine, deleted, minimum, saves>>
boardVars == <<boardNow, tracker, redis, wire, removing, doubtful, boardFaults, seen>>
syncVars == <<syncNow, scanned, last, observed, request, restored, report, cursorAt>>
sessionVars ==
  <<sessions, expired, created, jar, shown, probe, flow, mail, faults, left>>

allVars ==
  <<part, endpointVars, relayVars, listVars, readVars, topVars, boardVars, syncVars,
    sessionVars>>

Endpoint == INSTANCE ShadowRpc WITH call <- rpcCall

Relay == INSTANCE Passthrough WITH
  MaxTime <- RelayTime, now <- relayNow, forward <- relayed

Lists == INSTANCE ListCache

Reads == INSTANCE EntityReads WITH shown <- versionShown

TopTransactions == INSTANCE TransactionRecords WITH
  Blocks <- RecordBlocks, value <- recordValue

Guzzling == INSTANCE Guzzlers WITH
  MaxTime <- BoardTime, MaxFaults <- MaxBoardFaults, now <- boardNow,
  faults <- boardFaults

Sync == INSTANCE SyncStatus WITH MaxTime <- SyncTime, now <- syncNow

Browser == INSTANCE Sessions

ASSUME EndpointBounds == Endpoint!ShadowRpcAssumption
ASSUME RelayBounds == Relay!PassthroughAssumption
ASSUME ListBounds == Lists!ListAssumption
ASSUME ReadsBounds == Reads!ReadsAssumption
ASSUME TopBounds == TopTransactions!RecordsAssumption
ASSUME GuzzlerBounds == Guzzling!GuzzlersAssumption
ASSUME SyncBounds == Sync!SyncAssumption
ASSUME SessionBounds == Browser!SessionsAssumption

AllInit ==
  /\ part \in Parts
  /\ Endpoint!Init /\ Relay!Init /\ Lists!Init /\ Reads!Init
  /\ TopTransactions!Init /\ Guzzling!Init /\ Sync!Init /\ Browser!Init

EndpointStep ==
  /\ part = "endpoint" /\ Endpoint!Next
  /\ UNCHANGED <<part, relayVars, listVars, readVars, topVars, boardVars, syncVars,
                  sessionVars>>

RelayStep ==
  /\ part = "relay" /\ Relay!Next
  /\ UNCHANGED <<part, endpointVars, listVars, readVars, topVars, boardVars, syncVars,
                  sessionVars>>

ListsStep ==
  /\ part = "lists" /\ Lists!Next
  /\ UNCHANGED <<part, endpointVars, relayVars, readVars, topVars, boardVars, syncVars,
                  sessionVars>>

ReadStep ==
  /\ part = "reads" /\ Reads!Next
  /\ UNCHANGED <<part, endpointVars, relayVars, listVars, topVars, boardVars, syncVars,
                  sessionVars>>

TopStep ==
  /\ part = "top" /\ TopTransactions!Next
  /\ UNCHANGED <<part, endpointVars, relayVars, listVars, readVars, boardVars, syncVars,
                  sessionVars>>

GuzzlerStep ==
  /\ part = "guzzlers" /\ Guzzling!Next
  /\ UNCHANGED <<part, endpointVars, relayVars, listVars, readVars, topVars, syncVars,
                  sessionVars>>

SyncStep ==
  /\ part = "sync" /\ Sync!Next
  /\ UNCHANGED <<part, endpointVars, relayVars, listVars, readVars, topVars, boardVars,
                  sessionVars>>

SessionStep ==
  /\ part = "sessions" /\ Browser!Next
  /\ UNCHANGED <<part, endpointVars, relayVars, listVars, readVars, topVars, boardVars,
                  syncVars>>

AllNext ==
  EndpointStep \/ RelayStep \/ ListsStep \/ ReadStep \/ TopStep \/ GuzzlerStep
    \/ SyncStep \/ SessionStep

AllSpec == AllInit /\ [][AllNext]_allVars

-----------------------------------------------------------------------------
\* A call is a few statements between which blocks are stored: logs are complete
\* up to the head of when it came, a nonce, a balance or a block is never behind
\* what was stored then, a head that was told is found by the next call, and the
\* entries of a fee history stand for the blocks a caller takes them for (ShadowRpc).
EndpointSound == part = "endpoint" =>
  /\ Endpoint!TypeOK /\ Endpoint!LogsComplete /\ Endpoint!ReadsNotBehind
  /\ Endpoint!HeadHolds /\ Endpoint!FeesAligned

\* "Only accepted calls consume the window, so a flood cannot hold it open past
\* the minute it started in"; no interval sees more relayed calls than its windows
\* allow; and the node is found once it is recorded, although a call that looked
\* before stores what it found after (Passthrough).
RelayCapped == part = "relay" =>
  Relay!TypeOK /\ Relay!CapHolds /\ Relay!FloodPasses /\ Relay!NodeFound

\* A list, plain or compressed, is never served with less than what had been
\* notified when it was asked for; with notifications lost the TTLs of the two
\* caches add up and no more; and "the storage query runs at most once per key
\* per cache lifetime no matter which encodings clients ask for" (ListCache).
ListsServedFresh == part = "lists" =>
  Lists!TypeOK /\ Lists!ListFresh /\ Lists!AgeBounded /\ Lists!OneQuery

\* The fold is the node's state, wherever it is cut: an operation before its
\* create, a patch after a delete, an event of another entity (EntityFold).
FoldTrue ==
  part = "reads" => Reads!TypeOK /\ Reads!FoldIsNode /\ Reads!EventsFound

\* A reader sees one state: pages of a pinned query neither leak a version that
\* was not alive at their block nor lose or repeat an entity, and an entity is
\* not behind the head its answer names, while folds commit between the
\* statements of a request (EntityReads).
ReadsConsistent ==
  part = "reads" =>
    Reads!NothingLeaks /\ Reads!PinnedComplete /\ Reads!StateNotBehind

\* With two writers merging blocks, saving them again and waiting for each
\* other's locks, the table of a category holds rows of stored blocks, loses no
\* transaction that belongs in it and keeps its bound (TransactionRecords).
TopRecordsExact == part = "top" =>
  /\ TopTransactions!TypeOK /\ TopTransactions!RecordsAreOfStoredBlocks
  /\ TopTransactions!NoRecordLost /\ TopTransactions!TableBounded

\* The board counts what was recorded within the window and no more; and a
\* sender the sweep has removed does not come back with a restart (Guzzlers).
GuzzlersHonest ==
  part = "guzzlers" => Guzzling!TypeOK /\ Guzzling!BoardHonest /\ Guzzling!NoGhosts

\* What /sync says is true of the scanner, although the samples mix the rows of
\* both scans and are read after the cursors: "catching up", "falling behind"
\* and "synced"; and the backfill's blocks are not taken for progress (SyncStatus).
SyncStateTrue == part = "sync" =>
  /\ Sync!TypeOK /\ Sync!BackfillNotMeasured
  /\ Sync!CatchingUpTrue /\ Sync!FallingBehindTrue /\ Sync!SyncedTrue

\* A tab never shows a session again that it has signed out of, has ended the
\* session it showed, and agrees with the other tabs once nothing is under way,
\* in whatever order tabs sign in and out and answers come (Sessions).
SessionsShown == part = "sessions" =>
  /\ Browser!TypeOK /\ Browser!NoStaleRole /\ Browser!LogoutEndsShown
  /\ Browser!SettledTabsAgree

\* "`blockNumber` in every reply says which block answered": a query for the head
\* is answered with all that was alive at that block (EntityReads).
HeadComplete == part = "reads" => Reads!HeadComplete

\* "Stored logs matching `fromBlock`/`toBlock` (default `latest`, ...)": a call
\* without a range answers with the logs of a block that was the head while it ran
\* (ShadowRpc).
LatestLogs == part = "endpoint" => Endpoint!LatestLogs

\* "Mirrored into Redis ... so the data survives a restart": when no command is under
\* way, Redis holds what the memory does (Guzzlers).
MirrorComplete == part = "guzzlers" => Guzzling!MirrorComplete
=============================================================================
