------------------------------ MODULE Guzzlers ------------------------------
(***************************************************************************)
(* The activity of senders over sliding windows, folded into one-minute    *)
(* buckets in the near-head scanner's memory and mirrored into Redis: the  *)
(* scanner writes the senders of each block, a timer evicts what has aged  *)
(* out of the largest window.  Both await Redis and so interleave; their   *)
(* commands travel over one connection, in the order they are issued.      *)
(***************************************************************************)
EXTENDS Integers, Sequences, FiniteSets, SequencesExt

CONSTANTS
  Senders,
  Spans,         \* GUZZLER_WINDOWS, ascending; the last is the retention
  BucketWidth,   \* GUZZLER_BUCKET_MS
  MaxTime,       \* bound: the clock
  MaxBlocks,     \* bound: blocks recorded
  MaxFaults      \* bound: restarts and broken connections

Retention == Spans[Len(Spans)]

GuzzlersAssumption ==
  /\ IsFiniteSet(Senders)
  /\ Spans \in Seq(Nat \ {0}) /\ Spans # << >>
  /\ \A i, j \in DOMAIN Spans : i < j => Spans[i] < Spans[j]
  /\ BucketWidth \in Nat \ {0}
  /\ MaxTime \in Nat /\ MaxBlocks \in Nat /\ MaxFaults \in Nat

Times == 0..MaxTime
minuteOf(t) == t \div BucketWidth
Minutes == {minuteOf(t) : t \in Times}

VARIABLES
  now,
  tracker,    \* memory: sender -> minute -> bucket
  redis,      \* the hash, the same
  wire,       \* commands under way to Redis
  removing,   \* senders the sweep removes once its puts are answered
  doubtful,   \* has a command failed since the start of the process?
  faults,
  seen        \* history: the blocks recorded, as <<time, senders>>

vars == <<now, tracker, redis, wire, removing, doubtful, faults, seen>>

\* A bucket counts transactions and knows the newest; an absent one is empty.
Empty == [count |-> 0, lastMs |-> -1]
NoBuckets == [m \in Minutes |-> Empty]
Absent(buckets) == \A m \in Minutes : buckets[m].count = 0

\* Mutant of Expired: by the start of the minute.
ExpiredByStart(m, b) == m * BucketWidth <= now - Retention /\ b.lastMs <= now

\* evictExpired: the newest transaction is out of every window.
Expired(m, b) == b.lastMs <= now - Retention

Evict(buckets) ==
  [m \in Minutes |-> IF Expired(m, buckets[m]) THEN Empty ELSE buckets[m]]

-----------------------------------------------------------------------------
Init ==
  /\ now = 0
  /\ tracker = [s \in Senders |-> NoBuckets] /\ redis = tracker
  /\ wire = << >>
  /\ removing = {}
  /\ doubtful = FALSE /\ faults = 0
  /\ seen = << >>

Tick ==
  /\ now < MaxTime /\ now' = now + 1
  /\ UNCHANGED <<tracker, redis, wire, removing, doubtful, faults, seen>>

\* Commands of the scanner and of the sweep, one for each of a set of senders.
Puts(by, senders, t) ==
  SetToSeq({[by |-> by, put |-> {s}, to |-> t[s]] : s \in senders})
Removal(by, senders) ==
  IF senders = {} THEN << >> ELSE <<[by |-> by, put |-> {}, to |-> senders]>>

\* record, without its eviction.
Folded(buckets, ts) ==
  [buckets EXCEPT ![minuteOf(ts)] =
     [count |-> @.count + 1, lastMs |-> IF ts > @.lastMs THEN ts ELSE @.lastMs]]

\* recordBlock: a block of one transaction of each sender; the scanner waits
\* for the answers, so that it has one block under way.
RecordBlock(ts, senders) ==
  /\ Len(seen) < MaxBlocks
  /\ ~ \E i \in DOMAIN wire : wire[i].by = "scanner"
  /\ ts <= now /\ (seen # << >> => ts >= Last(seen)[1])
  /\ seen' = Append(seen, <<ts, senders>>)
  /\ IF ts <= now - Retention THEN UNCHANGED <<tracker, wire>>
     ELSE /\ tracker' = [s \in Senders |->
                 IF s \in senders THEN Evict(Folded(tracker[s], ts)) ELSE tracker[s]]
          /\ wire' = wire \o Puts("scanner", senders, tracker')
  /\ UNCHANGED <<now, redis, removing, doubtful, faults>>

\* The senders an eviction empties, and those it leaves with less.
Removed == {s \in Senders : ~Absent(tracker[s]) /\ Absent(Evict(tracker[s]))}
Updated == {s \in Senders : Evict(tracker[s]) # tracker[s]} \ Removed

\* sweep and persist, up to the answers of the puts.
Sweep ==
  /\ removing = {} /\ ~ \E i \in DOMAIN wire : wire[i].by = "sweep"
  /\ Removed \cup Updated # {}
  /\ tracker' = [s \in Senders |-> Evict(tracker[s])]
  /\ wire' = wire \o Puts("sweep", Updated, tracker')
                  \o (IF Updated = {} THEN Removal("sweep", Removed) ELSE << >>)
  /\ removing' = IF Updated = {} THEN {} ELSE Removed
  /\ UNCHANGED <<now, redis, doubtful, faults, seen>>

\* The rest of persist: removeSenders.
RemoveSenders ==
  /\ removing # {} /\ ~ \E i \in DOMAIN wire : wire[i].by = "sweep"
  /\ wire' = wire \o Removal("sweep", removing)
  /\ removing' = {}
  /\ UNCHANGED <<now, tracker, redis, doubtful, faults, seen>>

\* HSET or HDEL.
RedisExecutes ==
  /\ wire # << >>
  /\ LET c == Head(wire)
     IN  redis' = [s \in Senders |->
           IF s \in c.put THEN c.to
           ELSE IF c.put = {} /\ s \in c.to THEN NoBuckets ELSE redis[s]]
  /\ wire' = Tail(wire)
  /\ UNCHANGED <<now, tracker, removing, doubtful, faults, seen>>

\* The connection breaks: what is under way fails, and a sweep that waits
\* for it removes nothing.  The scanner and the timer go on.
ConnectionBreaks ==
  /\ faults < MaxFaults /\ faults' = faults + 1
  /\ wire # << >>
  /\ wire' = << >> /\ removing' = {}
  /\ doubtful' = TRUE
  /\ UNCHANGED <<now, tracker, redis, seen>>

\* start: what Redis holds, swept.
Loaded == [s \in Senders |-> Evict(redis[s])]

\* The process dies and its container starts it again; the scanner waits until
\* what was evicted while it was away is gone from Redis.
Restart ==
  /\ faults < MaxFaults /\ faults' = faults + 1
  /\ tracker' = Loaded
  /\ LET gone == {s \in Senders : ~Absent(redis[s]) /\ Absent(Loaded[s])}
         less == {s \in Senders : Loaded[s] # redis[s]} \ gone
     IN  wire' = Puts("scanner", less, Loaded) \o Removal("scanner", gone)
  /\ removing' = {}
  /\ doubtful' = FALSE
  /\ UNCHANGED <<now, redis, seen>>

Next ==
  \/ Tick \/ Sweep \/ RemoveSenders \/ RedisExecutes
  \/ \E ts \in Times, senders \in SUBSET Senders \ {{}} : RecordBlock(ts, senders)
  \/ ConnectionBreaks \/ Restart

Spec == Init /\ [][Next]_vars

-----------------------------------------------------------------------------
\* getLeaderboards: the smallest window a bucket counts in; Len(Spans)+1: none.
FirstWindow(b) ==
  CHOOSE i \in 1..(Len(Spans) + 1) :
    /\ i = Len(Spans) + 1 \/ Spans[i] > now - b.lastMs
    /\ \A j \in 1..(i - 1) : Spans[j] <= now - b.lastMs

\* The transactions sender s has on the board of window w, counted.
OnBoard(w, s) ==
  {m \in Minutes : tracker[s][m].count > 0 /\ FirstWindow(tracker[s][m]) <= w}
Counted(w, s) ==
  Cardinality(UNION {{m} \X (1..tracker[s][m].count) : m \in OnBoard(w, s)})

\* The transactions of sender s that are younger than age.
Younger(age, s) ==
  Cardinality({i \in DOMAIN seen : s \in seen[i][2] /\ now - seen[i][1] < age})

-----------------------------------------------------------------------------
Commands == [by : {"scanner", "sweep"}, put : SUBSET Senders]

\* Types of the variables.
TypeOK ==
  /\ now \in Times
  /\ \A t \in {tracker, redis} : \A s \in Senders, m \in Minutes :
       /\ t[s][m].count \in 0..MaxBlocks
       /\ t[s][m].count > 0 => minuteOf(t[s][m].lastMs) = m
       /\ t[s][m].count = 0 => t[s][m] = Empty
  /\ \A i \in DOMAIN wire : [by |-> wire[i].by, put |-> wire[i].put] \in Commands
  /\ removing \subseteq Senders
  /\ doubtful \in BOOLEAN /\ faults \in 0..MaxFaults

\* A window's board counts no transaction that is older than the window by a
\* bucket or more, and none twice, whatever was reloaded; and as long as the
\* process lives it misses none that lies within the window.
BoardHonest ==
  \A w \in DOMAIN Spans, s \in Senders :
    /\ Counted(w, s) <= Younger(Spans[w] + BucketWidth, s)
    /\ faults = 0 => Counted(w, s) >= Younger(Spans[w], s)

\* "A sender is dropped once its buckets are out of the window", in Redis too:
\* unless a command failed, nothing is left there of a sender that memory has
\* forgotten, and a restart clears what a failure left.
NoGhosts ==
  wire = << >> /\ removing = {} /\ ~doubtful =>
    \A s \in Senders : Absent(tracker[s]) => Absent(redis[s])

\* "Mirrored into Redis ... so the data survives a restart": once every command
\* is answered and none failed, Redis holds what memory holds.
MirrorComplete ==
  wire = << >> /\ removing = {} /\ ~doubtful => redis = tracker
=============================================================================
