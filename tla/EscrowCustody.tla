--------------------------- MODULE EscrowCustody ---------------------------
(***************************************************************************)
(* How Escrow keeps the promise of Custody.  What a user may spend is what *)
(* getBalance shows as available; a hold that is open, disputed or not, is *)
(* money in custody; the fees are those taken, whether or not a journal    *)
(* posted them to the ledger's PLATFORM_FEES.                              *)
(***************************************************************************)
EXTENDS Escrow

State ==
    [s \in HoldStatus |->
        CASE s = "NONE"                           -> "none"
          [] s \in {"ACTIVE", "HELD", "DISPUTED"} -> "kept"
          [] s = "RELEASED"                       -> "paid out"
          [] s = "REFUNDED"                       -> "given back"
          [] s = "ADJUSTED"                       -> "divided"]

Spendable == [u \in Users |-> Available(wallet[u])]

Deal ==
    [o \in Orders |-> [state |-> State[hold[o].status], payer |-> hold[o].buyer,
                       payee |-> hold[o].seller, amount |-> hold[o].amount]]

FeesTaken == feeAcct + unposted.fees

Promise == INSTANCE Custody WITH
    Nobody <- Null, Savings <- Opening,
    funds <- Spendable, deal <- Deal, earned <- FeesTaken

\* Every call, however it reads, retries, fails and is interrupted, keeps what is
\* promised: money enters custody only if it was there to spend and leaves it
\* once, whole, for the seller and the fee or back to the buyer.
KeepsPromise == Promise!Spec

\* A commit that comes to a hold already settled: its call validated the hold
\* before the hold was settled by another.
Late ==
    \E r \in Requests :
        /\ pc[r] \in Settling
        /\ pc'[r] = "done"
        /\ hold[arg[r].order].status \in Settled

\* Whatever calls overlap on an order, and whatever keys they repeat, a late commit
\* is the only step that breaks what is promised.
OnlyLateBreaks == Promise!Init /\ [][Late \/ [Promise!Next]_<<Spendable, Deal, FeesTaken>>]_vars

\* A call that is about to settle a hold knows its terms, and the buyer has
\* something to lock or the seller something to gain.
KnowsTerms(r) ==
    LET h == hold[arg[r].order] IN
    /\ pc[r] \in {"release", "releaseCommit", "refund", "refundCommit"} =>
           arg[r].buyer = h.buyer /\ arg[r].amount = h.amount
    /\ pc[r] \in {"release", "releaseCommit"} => arg[r].seller = h.seller
    /\ pc[r] = "releaseCommit" => arg[r].fee < arg[r].amount
    /\ pc[r] = "cas" => arg[r].amount > 0

TermsKnown == \A r \in Requests : KnowsTerms(r)
=============================================================================
