------------------------------ MODULE Custody ------------------------------
(***************************************************************************)
(* What an escrow promises to buyers and sellers, without requests,        *)
(* transactions, locks, versions or a ledger: money a buyer could spend is *)
(* kept for one order, and leaves custody once, whole, either for the      *)
(* seller, less the platform's fee, or back to the buyer.                  *)
(***************************************************************************)
EXTENDS Integers

CONSTANTS
    Users, Orders,
    Nobody,   \* the seller of an order that names none
    Savings   \* what each user has to spend at first

VARIABLES
    funds,   \* what each user may spend
    deal,    \* what is kept for each order
    earned   \* the platform's fees

NoDeal == [state |-> "none", payer |-> Nobody, payee |-> Nobody, amount |-> 0]

Init ==
    /\ funds = Savings
    /\ deal = [o \in Orders |-> NoDeal]
    /\ earned = 0

Keep(o, payer, payee, amount) ==
    /\ deal[o].state = "none"
    /\ amount \in 1..funds[payer]
    /\ funds' = [funds EXCEPT ![payer] = @ - amount]
    /\ deal' = [deal EXCEPT ![o] = [state |-> "kept", payer |-> payer,
                                    payee |-> payee, amount |-> amount]]
    /\ UNCHANGED earned

PayOut(o, fee) ==
    /\ deal[o].state = "kept"
    /\ deal[o].payee # Nobody
    /\ fee \in 0..(deal[o].amount - 1)
    /\ funds' = [funds EXCEPT ![deal[o].payee] = @ + (deal[o].amount - fee)]
    /\ deal' = [deal EXCEPT ![o].state = "paid out"]
    /\ earned' = earned + fee

GiveBack(o) ==
    /\ deal[o].state = "kept"
    /\ funds' = [funds EXCEPT ![deal[o].payer] = @ + deal[o].amount]
    /\ deal' = [deal EXCEPT ![o].state = "given back"]
    /\ UNCHANGED earned

Next ==
    \E o \in Orders :
        \/ \E payer \in Users, payee \in Users \cup {Nobody} :
               \E amount \in 1..funds[payer] : Keep(o, payer, payee, amount)
        \/ \E fee \in 0..(deal[o].amount - 1) : PayOut(o, fee)
        \/ GiveBack(o)

Spec == Init /\ [][Next]_<<funds, deal, earned>>
=============================================================================
