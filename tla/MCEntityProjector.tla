------------------------- MODULE MCEntityProjector -------------------------
(***************************************************************************)
(* TLC instances of EntityProjector: two entities on a chain of three      *)
(* blocks.  One is created in the middle and changed last, so that a fold  *)
(* of its latest operation needs an older row; the other is created last.  *)
(* Block 0 has no operations: the floor may follow a create down, or drop  *)
(* to 0 when all is stored.                                                *)
(***************************************************************************)
EXTENDS EntityProjector

CONSTANTS k1, k2

MCKeys == {k1, k2}
MCTouches == [b \in Blocks |-> CASE b = 0 -> {} [] b = 1 -> {k1} [] OTHER -> MCKeys]
=============================================================================
