------------------------------ MODULE MCEscrow ------------------------------
(***************************************************************************)
(* Instances of Escrow for TLC.                                            *)
(***************************************************************************)
EXTENDS EscrowCustody, TLC

CONSTANTS alice, bob, o1, o2, o3, r1, r2, r3, r4, k1, k2

MCBuyer == [o \in Orders |-> alice]
MCSeller == [o \in Orders |-> bob]

\* Two orders can be paid, and the third cannot.
MCOpening == [u \in Users |-> IF u = alice THEN 4 ELSE 0]

\* Every call has a twin with its key, as a call and its retry.
MCKeyOf == [r \in Requests |-> IF r \in {r1, r2} THEN k1 ELSE k2]

\* Twins are interchangeable, and so are the pairs of them together with their keys,
\* and the orders.
Twins ==
    {k \in Permutations(Requests \cup Keys) :
        \A r \in Requests : k[r] \in Requests /\ k[MCKeyOf[r]] = MCKeyOf[k[r]]}

Alike == {p @@ q : p \in Permutations(Orders), q \in Twins}
=============================================================================
