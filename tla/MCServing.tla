----------------------------- MODULE MCServing -----------------------------
(***************************************************************************)
(* TLC instance of Serving.                                                *)
(*                                                                         *)
(* Caches: two keys whose responses grow with their data, notifications    *)
(* that name one key or all of them.                                       *)
(*                                                                         *)
(* Projector: two entities on a chain of three blocks.  One is created in  *)
(* the middle and changed last, so that a fold of its latest operation     *)
(* needs an older row; the other is created last.  Block 0 has no          *)
(* operations: the floor may follow a create down, or drop to 0.           *)
(***************************************************************************)
EXTENDS Serving

CONSTANTS k1, k2

MCKeys == {k1, k2}
MCScopes == {{k1}, {k1, k2}}
MCSize == [k \in Keys |-> [v \in Versions |-> v + 1]]
MCTouches == [b \in 0..2 |-> CASE b = 0 -> {} [] b = 1 -> {k1} [] OTHER -> {k1, k2}]
=============================================================================
