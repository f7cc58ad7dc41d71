------------------------------ MODULE MCLogins ------------------------------
(***************************************************************************)
(* Instances of Logins for TLC: one replica serves two calls at a time,    *)
(* the other serves one.                                                   *)
(***************************************************************************)
EXTENDS Logins, TLC

CONSTANTS p1, p2, h1, h2, h3

MCProcessOf == [h \in Handlers |-> IF h = h3 THEN p2 ELSE p1]

Alike == Permutations({h1, h2})
=============================================================================
