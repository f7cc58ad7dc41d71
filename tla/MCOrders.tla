------------------------------ MODULE MCOrders ------------------------------
(***************************************************************************)
(* Instances of Orders for TLC.                                            *)
(***************************************************************************)
EXTENDS Orders, TLC

CONSTANTS alice, bob, carol, o1, o2, h1, h2

\* alice buys: o1 is her own, o2 is bob's offer.
MCInitiator == [o \in Orders |-> IF o = o1 THEN alice ELSE bob]
MCRole == [o \in Orders |-> IF o = o1 THEN "BUYER" ELSE "SELLER"]
MCOpening == [u \in Users |-> IF u = alice THEN 12 ELSE 0]

\* alice bears the fee of her own order; of bob's, each a half.
MCFeePayer == [o \in Orders |-> IF o = o1 THEN "BUYER" ELSE "SPLIT"]
Split == [o \in Orders |-> "SPLIT"]

Priced == {[amount |-> 3, fee |-> 1], [amount |-> 4, fee |-> 2]}

Alike == Permutations(Handlers)
=============================================================================
