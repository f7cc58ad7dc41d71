------------------------------ MODULE MCLedger ------------------------------
(***************************************************************************)
(* An instance of Ledger for TLC: the holds of two orders of one buyer, a  *)
(* retry of the first, and the release and the refund that follow.         *)
(***************************************************************************)
EXTENDS Ledger, TLC

CONSTANTS hold1, retry1, hold2, release1

MCOwners == {"buyer", "seller", "ESCROW_HOLDING", "PLATFORM_FEES"}

MCLines == [j \in Journals |->
    CASE j \in {hold1, retry1} -> <<[owner |-> "buyer", amount |-> -3],
                                    [owner |-> "ESCROW_HOLDING", amount |-> 3]>>
      [] j = hold2             -> <<[owner |-> "buyer", amount |-> -5],
                                    [owner |-> "ESCROW_HOLDING", amount |-> 5]>>
      [] OTHER                 -> <<[owner |-> "ESCROW_HOLDING", amount |-> -3],
                                    [owner |-> "seller", amount |-> 2],
                                    [owner |-> "PLATFORM_FEES", amount |-> 1]>>]

MCKeyOf == [j \in Journals |-> CASE j = hold2 -> 2 [] j = release1 -> 3 [] OTHER -> 1]

Alike == Permutations({hold1, retry1})
=============================================================================
