--------------------------- MODULE MCVelocityWindow ---------------------------
(***************************************************************************)
(* A small instance of VelocityWindow: calls of one or two tokens, a cap   *)
(* of two tokens in two seconds or none.                                   *)
(***************************************************************************)
EXTENDS VelocityWindow, TLC

Symmetry == Permutations(Threads)
=============================================================================
