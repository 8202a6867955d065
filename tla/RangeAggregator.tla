-------------------------- MODULE RangeAggregator --------------------------
(***************************************************************************)
(* The aggregator loop: sweep after sweep, size by size, it computes the   *)
(* aggregate of every window of blocks that is completely stored.  It      *)
(* resumes behind the windows it has finished and stops at the first one   *)
(* that is incomplete.  Meanwhile the scanners store blocks above, below   *)
(* and between those it has looked at.                                     *)
(*                                                                         *)
(* An aggregate is abstracted to the fact that its row is in block_ranges: *)
(* the numbers in it are sums over the blocks of one query.                *)
(***************************************************************************)
EXTENDS Integers, Sequences, FiniteSets

CONSTANTS
  None,
  MaxBlock,     \* bound: the highest block number
  Sizes,        \* SUPPORTED_RANGE_SIZES, in the order of a sweep
  MaxFailures   \* bound: sweeps that fail

Blocks == 0..MaxBlock
SizeIndex == 1..Len(Sizes)

AggregatorAssumption ==
  /\ MaxBlock \in Nat /\ MaxFailures \in Nat
  /\ Sizes \in Seq(Nat \ {0}) /\ Sizes # << >>
  /\ None \notin Int

VARIABLES
  stored,      \* database: the block numbers of `blocks'
  ranges,      \* database: block_ranges, the starts of each size's rows
  pc, size,    \* the loop, and the size it is at
  minBlock, maxBlock, first, last, at,   \* the locals of aggregateRanges
  failures

locals == <<minBlock, maxBlock, first, last, at>>
vars == <<stored, ranges, pc, size, minBlock, maxBlock, first, last, at,
          failures>>

rangeStartFor(b, s) == b - (b % s)
Window(start, s) == start..(start + s - 1)

\* The windows of size s lie at the multiples of s.
Starts(s) == {b \in Blocks : b % s = 0}

\* The first window that lies wholly above the lowest stored block.
FirstStart(min, s) ==
  IF rangeStartFor(min, s) < min THEN rangeStartFor(min, s) + s
                                 ELSE rangeStartFor(min, s)

\* getLatestCompleteRangeStart: the end of the unbroken run of complete
\* windows that begins at f; the sweep goes on behind it.
ResumeAfter(f, i) ==
  CHOOSE r \in {f + k * Sizes[i] : k \in 0..(MaxBlock + 1)} :
    /\ r \notin ranges[i]
    /\ \A q \in Starts(Sizes[i]) : f <= q /\ q < r => q \in ranges[i]

-----------------------------------------------------------------------------
Init ==
  /\ stored = {}
  /\ ranges = [i \in SizeIndex |-> {}]
  /\ pc = "idle" /\ size = 1
  /\ minBlock = None /\ maxBlock = None /\ first = None /\ last = None
  /\ at = None
  /\ failures = 0

\* A scanner stores a block (see Ingest).
StoreBlock(b) ==
  /\ b \notin stored
  /\ stored' = stored \cup {b}
  /\ UNCHANGED <<ranges, pc, size, locals, failures>>

Forget ==
  minBlock' = None /\ maxBlock' = None /\ first' = None /\ last' = None /\ at' = None

\* On to the next size, or to the pause between two sweeps.
NextSize ==
  /\ Forget
  /\ IF size < Len(Sizes) THEN pc' = "min" /\ size' = size + 1
                          ELSE pc' = "idle" /\ size' = 1

\* runSweep: nothing to do on an empty database.
BeginSweep ==
  /\ pc = "idle" /\ stored # {}
  /\ pc' = "min"
  /\ UNCHANGED <<stored, ranges, size, locals, failures>>

ReadMin ==
  /\ pc = "min"
  /\ minBlock' \in stored /\ \A b \in stored : minBlock' <= b
  /\ pc' = "max"
  /\ UNCHANGED <<stored, ranges, size, maxBlock, first, last, at, failures>>

\* aggregateRanges, up to its second query.
ReadMax ==
  /\ pc = "max"
  /\ \E max \in stored :
       /\ \A b \in stored : b <= max
       /\ IF FirstStart(minBlock, Sizes[size]) > rangeStartFor(max, Sizes[size])
          THEN NextSize
          ELSE /\ maxBlock' = max
               /\ first' = FirstStart(minBlock, Sizes[size])
               /\ last' = rangeStartFor(max, Sizes[size])
               /\ pc' = "resume"
               /\ UNCHANGED <<size, minBlock, at>>
  /\ UNCHANGED <<stored, ranges, failures>>

\* skipCompleted.
Resume ==
  /\ pc = "resume"
  /\ at' = ResumeAfter(first, size)
  /\ pc' = "window"
  /\ UNCHANGED <<stored, ranges, size, minBlock, maxBlock, first, last,
                 failures>>

\* Mutant of ReadWindow: one block too few is enough.
ReadWindowShort ==
  /\ pc = "window" /\ at <= last
  /\ Cardinality(Window(at, Sizes[size]) \cap stored) >= Sizes[size] - 1
  /\ pc' = "save"
  /\ UNCHANGED <<stored, ranges, size, locals, failures>>

\* aggregateRangeIfComplete, its query: as many blocks as the window is long.
ReadWindow ==
  /\ pc = "window" /\ at <= last
  /\ Cardinality(Window(at, Sizes[size]) \cap stored) = Sizes[size]
  /\ pc' = "save"
  /\ UNCHANGED <<stored, ranges, size, locals, failures>>

\* stopAfterIncomplete, or the end of the loop.
EndWindows ==
  /\ pc = "window"
  /\ at > last \/ Cardinality(Window(at, Sizes[size]) \cap stored) # Sizes[size]
  /\ NextSize
  /\ UNCHANGED <<stored, ranges, failures>>

\* aggregateRangeIfComplete, its upsert.
SaveRange ==
  /\ pc = "save"
  /\ ranges' = [ranges EXCEPT ![size] = @ \cup {at}]
  /\ at' = at + Sizes[size]
  /\ pc' = "window"
  /\ UNCHANGED <<stored, size, minBlock, maxBlock, first, last, failures>>

\* The sweep throws, or the container restarts: the next one starts over.
SweepFails ==
  /\ pc # "idle" /\ failures < MaxFailures
  /\ failures' = failures + 1
  /\ pc' = "idle" /\ size' = 1
  /\ Forget
  /\ UNCHANGED <<stored, ranges>>

-----------------------------------------------------------------------------
SweepStep ==
  \/ BeginSweep \/ ReadMin \/ ReadMax \/ Resume
  \/ ReadWindow \/ EndWindows \/ SaveRange

Next == SweepStep \/ SweepFails \/ \E b \in Blocks : StoreBlock(b)

Spec == Init /\ [][Next]_vars

\* The loop sweeps every interval.
FairSpec == Spec /\ WF_vars(SweepStep)

-----------------------------------------------------------------------------
\* Types of the variables.
TypeOK ==
  /\ stored \subseteq Blocks
  /\ ranges \in [SizeIndex -> SUBSET Blocks]
  /\ \A i \in SizeIndex : ranges[i] \subseteq Starts(Sizes[i])
  /\ pc \in {"idle", "min", "max", "resume", "window", "save"}
  /\ size \in SizeIndex
  /\ minBlock \in Blocks \cup {None} /\ maxBlock \in Blocks \cup {None}
  /\ first \in Blocks \cup {None} /\ last \in Blocks \cup {None}
  /\ at \in Nat \cup {None}
  /\ failures \in 0..MaxFailures

\* "is_complete marks rows whose full block window was present": no row of
\* block_ranges covers a block that is not stored, although the window was
\* counted in one statement and written in another.
CompleteOnly ==
  \A i \in SizeIndex : \A r \in ranges[i] : Window(r, Sizes[i]) \subseteq stored

\* A sweep leaves no window behind: every window between the first one and the
\* one it works on has its row, so that stopping at an incomplete window and
\* resuming behind the finished ones never jumps over a hole.
NoWindowLeftBehind ==
  pc \in {"window", "save"} =>
    \A r \in Starts(Sizes[size]) : first <= r /\ r < at => r \in ranges[size]

\* Everything from the lowest stored block to the end of window r is stored.
Reachable(r, s) ==
  /\ r + s - 1 \in stored
  /\ \A b \in Blocks :
       (\E c \in stored : c <= b) /\ b < r + s => b \in stored
  /\ \E c \in stored : c <= r

\* A window with no hole below it is aggregated in the end, also while the
\* backfill lowers the first window and new blocks keep arriving.
EventuallyAggregated ==
  \A i \in SizeIndex, r \in Blocks :
    r \in Starts(Sizes[i]) =>
      (<>[]Reachable(r, Sizes[i]) => <>(r \in ranges[i]))
=============================================================================
