----------------------------- MODULE MCSessions -----------------------------
(***************************************************************************)
(* Instances of Sessions for TLC: each call at a replica of its own, the   *)
(* worst case for what a replica keeps for itself.                         *)
(***************************************************************************)
EXTENDS Sessions, TLC

CONSTANTS p1, p2

MCProcessOf == [p \in Handlers |-> p]

Alike == Permutations(Processes)
=============================================================================
