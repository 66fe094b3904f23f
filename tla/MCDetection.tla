---------------------------- MODULE MCDetection ----------------------------
(***************************************************************************)
(* A small instance of Detection: a tool loop, a retrieval thrash and a    *)
(* third kind of event, a window of one second, a horizon of four.         *)
(***************************************************************************)
EXTENDS Detection, TLC

CONSTANTS toolLoop, thrash, bloat

InOrder == <<toolLoop, bloat, thrash>>

\* Of all three, thrash hushes the tool loop and leaves the other.
SomeFire == {{toolLoop}, {bloat}, {toolLoop, bloat, thrash}}

Symmetry == Permutations(Threads)
=============================================================================
