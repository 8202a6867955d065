---------------------------- MODULE MCBackground ----------------------------
(***************************************************************************)
(* TLC instance of Background: two range sizes, neither a multiple of the  *)
(* other, as 20 and 50 are; two workers of the load generator, and two     *)
(* callers that ask for the key of the first.                              *)
(***************************************************************************)
EXTENDS Background

CONSTANTS w1, w2, c1, c2, c3

MCSizes == <<2, 3>>
MCWorkerOf == [c \in Calls |-> IF c = c3 THEN w2 ELSE w1]
=============================================================================
