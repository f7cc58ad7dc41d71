---------------------------- MODULE MCCallbacks ----------------------------
(***************************************************************************)
(* Instances of Callbacks for TLC.                                         *)
(***************************************************************************)
EXTENDS Callbacks, TLC

CONSTANTS topUp, invoice, payout, p1, p2, h1, h2

MCKind ==
    [p \in Payments |-> CASE p = topUp -> "topup" [] p = invoice -> "order" [] OTHER -> "withdrawal"]

\* Xendit settles an invoice after it was paid; an order's charge expires and is
\* paid at the last moment, and both are reported; a disbursement fails.
MCReports ==
    [p \in Payments |->
        CASE p = topUp   -> <<"PAID", "SETTLED">>
          [] p = invoice -> <<"EXPIRED", "PAID">>
          [] OTHER       -> <<"FAILED">>]

Alike == Permutations(Handlers) \cup Permutations(Processes)
=============================================================================
