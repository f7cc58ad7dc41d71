---------------------------- MODULE MCWithdrawal ----------------------------
(***************************************************************************)
(* Instances of Withdrawal for TLC.                                        *)
(***************************************************************************)
EXTENDS Withdrawal, TLC

CONSTANTS r1, r2, r3, r4, r5

\* Every call carries a key of its own, named after the call ...
MCOwnKeys == [r \in Requests |-> r]

\* ... or r2 is the retry of r1.
MCRetry == [r \in Requests |-> IF r = r2 THEN r1 ELSE r]

Alike == Permutations(Requests)

AlikeButRetry == Permutations(Requests \ {r1, r2})
=============================================================================
