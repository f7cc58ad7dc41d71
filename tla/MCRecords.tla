----------------------------- MODULE MCRecords -----------------------------
(***************************************************************************)
(* An instance of Records for TLC: three members and codes that serve      *)
(* once, a list of two bank accounts, three completed orders, and three    *)
(* files.                                                                  *)
(***************************************************************************)
EXTENDS Records, TLC

CONSTANTS h1, h2, ann, bob, cid, n1, n2, n3

Alike == Permutations({h1, h2}) \cup Permutations({n1, n2, n3})
=============================================================================
