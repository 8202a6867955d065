---------------------------- MODULE IndexedChain ----------------------------
(***************************************************************************)
(* What the block ingest promises to everything that reads its tables: a   *)
(* set of indexed blocks that only grows, by one final block at a time,    *)
(* and two cursors that move together with the block they stand for.       *)
(* How many processes write, in which order they read the node and what    *)
(* fails on the way is left to the implementation (see Ingest).            *)
(***************************************************************************)
EXTENDS Integers

CONSTANTS
  None,
  Confirmations,  \* a block this deep is final
  Oldest          \* the backfill goes down to this block

VARIABLES
  height,    \* of the chain
  indexed,   \* the blocks a reader finds, each as the canonical chain has it
  forward,   \* the highest block of the forward scan
  backfill   \* the next block of the backfill

vars == <<height, indexed, forward, backfill>>

Final(b) == b >= 0 /\ (b = 0 \/ b + Confirmations <= height)

Internal(b) == \E lo, hi \in indexed : lo < b /\ b < hi

Init ==
  /\ height \in Nat
  /\ indexed = {} /\ forward = None /\ backfill = None

Grow ==
  /\ height' = height + 1
  /\ UNCHANGED <<indexed, forward, backfill>>

\* The forward scan starts anywhere, and leaves out no block from there on.
IndexForward ==
  \E b \in {forward'} :
    /\ b # None
    /\ Final(b)
    /\ forward # None => b = forward + 1
    /\ indexed' = indexed \cup {b}
    /\ UNCHANGED <<height, backfill>>

\* The backfill never turns back; where it jumps it leaves a hole.
IndexBackward ==
  /\ backfill' # None
  /\ Final(backfill' + 1) /\ backfill' + 1 >= Oldest
  /\ backfill # None => backfill' < backfill
  /\ indexed' = indexed \cup {backfill' + 1}
  /\ UNCHANGED <<height, forward>>

\* A hole is filled; no cursor moves.
FillHole ==
  \E b \in indexed' :
    /\ Internal(b) /\ Final(b)
    /\ indexed' = indexed \cup {b}
    /\ UNCHANGED <<height, forward, backfill>>

Next == Grow \/ IndexForward \/ IndexBackward \/ FillHole

Spec == Init /\ [][Next]_vars
=============================================================================
