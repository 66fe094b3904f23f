----------------------------- MODULE MCCloudSink -----------------------------
(***************************************************************************)
(* Instances of CloudSink for TLC.  The producers are interchangeable.     *)
(***************************************************************************)
EXTENDS CloudSink, TLC

Symmetry == Permutations(Producers)
=============================================================================
