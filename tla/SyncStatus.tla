----------------------------- MODULE SyncStatus -----------------------------
(***************************************************************************)
(* What /sync says of the scanner: synced, catching up, falling behind,    *)
(* holding, stalled or unknown, from the stored progress and the newest    *)
(* stored blocks, which two statements read one after the other while the  *)
(* forward scanner, the backfill and the gap filler store more.            *)
(*                                                                         *)
(* The chain has a constant block time.  A rate is a pair of a count and a *)
(* span, and two rates are compared by the spans of one count.             *)
(***************************************************************************)
EXTENDS Integers, FiniteSetsExt

CONSTANTS
  None,
  FirstBlock,     \* where the forward scan starts: the head at time 0
  BlockTime,
  MaxTime,        \* bound
  SampleLimit,    \* newest stored blocks that are read
  SyncedLag, StallSpan,
  MaxRestored     \* bound: blocks stored a second time

SyncAssumption ==
  /\ {FirstBlock, MaxTime, SyncedLag, StallSpan, MaxRestored} \subseteq Nat
  /\ {BlockTime, SampleLimit} \subseteq Nat \ {0}
  /\ None \notin Int

VARIABLES
  now,
  scanned,        \* when each stored block was stored, None if it is not
  last,           \* lastSuccessfulBlock
  observed,       \* the head the scanner saw, and when
  request,        \* a request to /sync: when it came and what it has read
  restored,
  report,         \* the last answer; lag: how far behind the chain the scanner really was
  cursorAt        \* history: the forward cursor at the end of each time unit

scanner == <<scanned, last, observed, cursorAt, restored>>
vars == <<now, scanner, request, report>>

Times == 0..MaxTime
head(t) == FirstBlock + t \div BlockTime
dateOf(b) == (b - FirstBlock) * BlockTime
Blocks == 0..head(MaxTime)
Stored == {b \in Blocks : scanned[b] # None}
Idle == [at |-> None, progress |-> None, samples |-> None]
Nothing == [state |-> "none", tip |-> 0, start |-> 0, since |-> 0, until |-> 0, lag |-> 0]

Init ==
  /\ now = 0
  /\ scanned = [b \in Blocks |-> None]
  /\ last = None /\ observed = None
  /\ request = Idle /\ report = Nothing /\ restored = 0
  /\ cursorAt = [t \in Times |-> None]

Tick ==
  /\ now < MaxTime
  /\ now' = now + 1
  /\ cursorAt' = [cursorAt EXCEPT ![now'] = last]
  /\ UNCHANGED <<scanned, last, observed, request, report, restored>>

Observe ==
  /\ observed # None => observed.at < now
  /\ observed' = [block |-> head(now), at |-> now]
  /\ UNCHANGED <<now, scanned, last, request, report, cursorAt, restored>>

\* The forward scanner stores the block after its cursor.
StoreForward ==
  /\ observed # None
  /\ LET b == IF last = None THEN FirstBlock ELSE last + 1 IN
       /\ b <= observed.block
       /\ scanned' = [scanned EXCEPT ![b] = now]
       /\ last' = b
  /\ cursorAt' = [cursorAt EXCEPT ![now] = last']
  /\ UNCHANGED <<now, observed, request, report, restored>>

\* The backfill stores downwards, below everything stored.
StoreBackward ==
  /\ last # None /\ Min(Stored) > 0
  /\ scanned' = [scanned EXCEPT ![Min(Stored) - 1] = now]
  /\ UNCHANGED <<now, last, observed, request, report, cursorAt, restored>>

\* A block below the cursor stored again: scanned_at is the time of the last write.
Restore ==
  /\ restored < MaxRestored /\ restored' = restored + 1
  /\ \E b \in Stored : b < last /\ scanned' = [scanned EXCEPT ![b] = now]
  /\ UNCHANGED <<now, last, observed, request, report, cursorAt>>

(***************************************************************************)
(* measureRates                                                            *)
(***************************************************************************)
newest(rows) == {b \in rows : Cardinality({c \in rows : c > b}) < SampleLimit}

\* Mutant of inRun: the rows of the backfill count as well.
inRunAnyOrder(rows, b, tip) == TRUE

\* Walking down from the tip, a block stored no later than the one above it belongs to the run.
inRun(rows, b, tip) ==
  \A c, d \in {x \in DOMAIN rows : b <= x /\ x <= tip} :
     c < d /\ (~\E e \in DOMAIN rows : c < e /\ e < d) => rows[c] <= rows[d]

measured(rows, lastBlock, at) ==
  LET forward == {b \in DOMAIN rows : lastBlock # None => b <= lastBlock}
      tip == Max(forward)
      start == Min({b \in forward : inRun(rows, b, tip)})
  IN IF forward = {} THEN Nothing
     ELSE [Nothing EXCEPT !.tip = tip, !.start = start, !.since = rows[start],
                          !.until = Max({rows[tip], at})]
known(m) == m.tip > m.start /\ m.until > m.since

(***************************************************************************)
(* computeSyncStatus and decideState.                                      *)
(***************************************************************************)
\* The observed head, carried on by the measured block time.
estimate(seen, m, at) ==
  seen.block + (IF known(m) THEN Max({0, at - seen.at}) \div BlockTime ELSE 0)

stateOf(p, m, at) ==
  IF p.last = None \/ p.observed = None THEN "unknown"
  ELSE LET lag == Max({0, estimate(p.observed, m, at) - p.last})
           window == m.until - m.since
           span == dateOf(m.tip) - dateOf(m.start)
       IN CASE lag <= SyncedLag -> "synced"
            [] lag > SyncedLag /\ at - p.scannedAt > StallSpan -> "stalled"
            [] lag > SyncedLag /\ at - p.scannedAt <= StallSpan ->
                 CASE ~known(m) -> "unknown"
                   [] known(m) /\ window < span -> "catching-up"
                   [] known(m) /\ window > span -> "falling-behind"
                   [] known(m) /\ window = span -> "holding"

Ask ==
  /\ request = Idle
  /\ request' = [Idle EXCEPT !.at = now]
  /\ UNCHANGED <<now, scanner, report>>

ReadProgress ==
  /\ request.at # None /\ request.progress = None
  /\ request' = [request EXCEPT !.progress =
       [last |-> last, observed |-> observed,
        scannedAt |-> IF last = None THEN None ELSE scanned[last]]]
  /\ UNCHANGED <<now, scanner, report>>

ReadSamples ==
  /\ request.at # None /\ request.samples = None
  /\ request' = [request EXCEPT !.samples = [b \in newest(Stored) |-> scanned[b]]]
  /\ UNCHANGED <<now, scanner, report>>

Answer ==
  /\ request.progress # None /\ request.samples # None
  /\ LET m == measured(request.samples, request.progress.last, request.at)
     IN report' = [m EXCEPT !.state = stateOf(request.progress, m, request.at),
                            !.lag = IF request.progress.last = None THEN 0
                                    ELSE head(request.at) - request.progress.last]
  /\ request' = Idle
  /\ UNCHANGED <<now, scanner>>

\* Bound: one request per behaviour, and nothing after its answer.
Next ==
  /\ report.state = "none"
  /\ \/ Tick \/ Observe \/ StoreForward \/ StoreBackward \/ Restore
     \/ Ask \/ ReadProgress \/ ReadSamples \/ Answer

Spec == Init /\ [][Next]_vars

-----------------------------------------------------------------------------

cursorBefore(t) == IF t = 0 \/ cursorAt[Max({0, t - 1})] = None THEN FirstBlock - 1
                   ELSE cursorAt[t - 1]

TypeOK ==
  /\ now \in Times /\ scanned \in [Blocks -> Times \union {None}]
  /\ last \in Blocks \union {None}
  \* The cursor never points at a block that is not stored.
  /\ last # None => last \in Stored
  /\ report.start <= report.tip /\ report.since <= report.until

\* "Only the run of blocks at the tip whose store times increase with the block number counts:
\* the backfill scanner writes blocks in descending order": unless a block was stored again,
\* one of the backfill is measured only if it was stored at the time of the block above it.
BackfillNotMeasured ==
  restored = 0 /\ report.start < FirstBlock /\ FirstBlock <= report.tip
    => scanned[FirstBlock - 1] = scanned[FirstBlock]

\* "catching-up" is said only if the scanner is no further behind the chain at the end of the
\* measured window than it was when the window began.  A block stored again goes unnoticed,
\* unless a second one, or the backfill, joins it to the run.
CatchingUpTrue ==
  report.state = "catching-up" /\ restored <= 1 /\ report.start >= FirstBlock
    => head(report.until) - report.tip <= head(report.since) - cursorBefore(report.since)

\* "falling-behind" is said only if it is no closer.
FallingBehindTrue ==
  report.state = "falling-behind"
    => head(report.until) - report.tip >= head(report.since) - cursorAt[report.since]

\* "synced" is not read off an old observation of the head once a block time is measured: the
\* scanner is within the lag, up to the block that came since the observation.
SyncedTrue ==
  report.state = "synced" /\ known(report) => report.lag <= SyncedLag + 1
=============================================================================
