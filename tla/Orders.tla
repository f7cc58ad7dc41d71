------------------------------- MODULE Orders -------------------------------
(***************************************************************************)
(* The life of an order, from its creation to its completion.  Two         *)
(* services share the orders table: TransactionService (core/transaction/  *)
(* transaction.service.ts, the one the web client uses) and OrderService   *)
(* (core/order/order.service.ts), joined by DisputeService                 *)
(* (core/dispute/dispute.service.ts), the confirmation of a delivery       *)
(* (core/delivery/delivery.controller.ts) and the administrator's          *)
(* overrides (core/admin/admin.controller.ts).  Titles, descriptions and   *)
(* dates of an order are left out; what seller and buyer do about proofs   *)
(* and evidence is in Fulfilment.                                          *)
(*                                                                         *)
(* Every method reads the order, checks its status, and then makes its     *)
(* writes one after the other, each committed on its own and none of them  *)
(* looking at the status again.  A handler below is at the next write of   *)
(* the call it serves; other handlers, and a crash, may come between any   *)
(* two writes.  WalletService.lockBalance, whose update compares the       *)
(* version it read, and EscrowService.createEscrow, a transaction, are one *)
(* step each: Escrow looks inside them.                                    *)
(***************************************************************************)
EXTENDS Wallet, FiniteSets

CONSTANTS
    Users, Orders,
    Handlers,    \* calls served at the same time
    MaxCalls,    \* bound: calls served altogether
    Initiator,   \* of each order: the user who creates it ...
    Role,        \* ... as "BUYER" or as "SELLER"
    FeePayer,    \* ... and who bears the platform fee
    Terms,       \* amounts an order may be about, each with its platform fee
    Routes,      \* controllers that are used
    Opening,     \* balances before the first order
    Rupiah,      \* minor units of one rupiah: 100 in the code
    Null,        \* no counterparty
    Serialised,  \* whether calls on one order are kept from overlapping
    Reliable     \* whether a call makes all its writes unless a check fails

ASSUME OrdersAssumption ==
    /\ IsFiniteSet(Users) /\ IsFiniteSet(Orders)
    /\ IsFiniteSet(Handlers) /\ Handlers # {}
    /\ MaxCalls \in Nat
    /\ Null \notin Users
    /\ Initiator \in [Orders -> Users]
    /\ Role \in [Orders -> {"BUYER", "SELLER"}]
    /\ FeePayer \in [Orders -> {"BUYER", "SELLER", "SPLIT", "FIFTY_FIFTY"}]
    /\ Terms \subseteq [amount : Nat \ {0}, fee : Nat]
    /\ \A t \in Terms : t.fee < t.amount
    /\ Routes \subseteq {"transactions", "orders", "deliveries", "disputes", "admin"}
    /\ Opening \in [Users -> Nat]
    /\ Rupiah \in Nat \ {0}
    /\ Serialised \in BOOLEAN
    /\ Reliable \in BOOLEAN

VARIABLES
    wallet,   \* wallets: one row per user
    order,    \* orders
    hold,     \* escrow_holds: at most one row per order
    dispute,  \* whether disputes has a row for the order
    fees,     \* platform fees collected
    call,     \* what each handler is doing
    calls,    \* how many calls there were
    revised,  \* how often counterparty, amount or fee of an order changed after
              \* somebody had joined it ...
    left      \* ... and what confirmReceipt did not pay out of its hold: nothing
              \* reads these two

history == <<revised, left>>

vars == <<wallet, order, hold, dispute, fees, call, calls, history>>

----------------------------------------------------------------------------
OrderStatus == {"NONE", "WAITING_COUNTERPARTY", "PENDING_ACCEPT", "ACCEPTED", "PAID",
                "COMPLETED", "CANCELLED", "DISPUTED", "REFUNDED"}

MaybeUser == Users \cup {Null}

NoOrder == [status |-> "NONE", counterparty |-> Null, amount |-> 0, fee |-> 0]

NoHold == [status |-> "NONE", buyer |-> Null, seller |-> Null, amount |-> 0]

\* The next write of a call.
Label == {"idle", "update", "accept", "agree", "cancel",
          "lock", "insertHold", "escrow", "setPaid",
          "transfer", "debit", "credit", "resolveHold",
          "release", "releaseCommit", "setCompleted",
          "disputeRow", "setDisputed", "dispute"}

\* order and row: the order a call is about and its row when the call read it;
\* user and terms: what the caller asked for.
Idle == [at |-> "idle", order |-> Null, row |-> NoOrder, user |-> Null,
         terms |-> [amount |-> 0, fee |-> 0]]

BuyerOf(o, row) == IF Role[o] = "BUYER" THEN Initiator[o] ELSE row.counterparty

SellerOf(o, row) == IF Role[o] = "SELLER" THEN Initiator[o] ELSE row.counterparty

\* TransactionService.pay: what the buyer's wallet locks.
TotalToPay(o, row) ==
    row.amount + CASE FeePayer[o] = "BUYER" -> row.fee
                   [] FeePayer[o] = "SPLIT" -> row.fee \div 2
                   [] OTHER                 -> 0

\* TransactionService.confirmReceipt: what the seller gets.
SellerAmount(o, row) ==
    row.amount - CASE FeePayer[o] = "SELLER" -> row.fee
                   [] FeePayer[o] = "SPLIT"  -> row.fee \div 2
                   [] OTHER                  -> 0

\* OrderService.payOrder: what the buyer must have, though only the amount is held.
TotalAmount(o, row) ==
    row.amount + CASE FeePayer[o] = "BUYER"       -> row.fee
                   [] FeePayer[o] = "FIFTY_FIFTY" -> row.fee \div 2
                   [] OTHER                       -> 0

Open == {"ACTIVE", "HELD", "DISPUTED"}

Init ==
    /\ wallet = [u \in Users |-> Opened(Opening[u])]
    /\ order = [o \in Orders |-> NoOrder]
    /\ hold = [o \in Orders |-> NoHold]
    /\ dispute = [o \in Orders |-> FALSE]
    /\ fees = 0
    /\ call = [h \in Handlers |-> Idle]
    /\ calls = 0
    /\ revised = [o \in Orders |-> 0]
    /\ left = [o \in Orders |-> 0]

\* A call arrives, reads the order and passes its checks.
Begin(h, o, at, user, terms) ==
    /\ call[h] = Idle
    /\ calls < MaxCalls
    /\ order[o].status # "NONE"
    /\ Serialised => \A g \in Handlers : call[g].order # o
    /\ call' = [call EXCEPT ![h] = [at |-> at, order |-> o, row |-> order[o],
                                    user |-> user, terms |-> terms]]
    /\ calls' = calls + 1
    /\ UNCHANGED <<wallet, order, hold, dispute, fees, history>>

Start(h, o, at) == Begin(h, o, at, Null, Idle.terms)

HoldUnchecked(o) == TRUE

\* escrow_holds.order_id is unique, and createEscrow looks the order up.
HoldFree(o) == hold[o].status = "NONE"

\* What is checked together with the next write; if it does not hold, the call
\* throws.
Allowed(h) ==
    LET o == call[h].order  row == call[h].row IN
    CASE call[h].at = "lock"       -> CanLock(wallet[BuyerOf(o, row)], TotalToPay(o, row))
      [] call[h].at = "insertHold" -> HoldFree(o)
      [] call[h].at = "escrow"     -> \/ ~HoldFree(o)
                                      \/ CanLock(wallet[BuyerOf(o, row)], row.amount)
      [] call[h].at = "transfer"   -> CanUnlock(wallet[BuyerOf(o, row)], SellerAmount(o, row))
      [] call[h].at = "release"    -> /\ hold[o].status \in Open
                                      /\ hold[o].seller # Null
                                      /\ CanUnlock(wallet[hold[o].buyer],
                                                   hold[o].amount - row.fee)
      [] call[h].at \in {"disputeRow", "dispute"} -> ~dispute[o]
      [] OTHER -> TRUE

\* The next write is made; the call goes on to another one, or ends.
Proceed(h, at, next) ==
    /\ call[h].at = at
    /\ Allowed(h)
    /\ call' = [call EXCEPT ![h] = IF next = "idle" THEN Idle ELSE [@ EXCEPT !.at = next]]
    /\ UNCHANGED calls

----------------------------------------------------------------------------
(* Creation: POST transactions (whose counterparty may be known) and POST orders *)

Create(o, counterparty, t) ==
    /\ order[o].status = "NONE"
    /\ counterparty # Initiator[o]
    /\ counterparty # Null => "transactions" \in Routes
    /\ order' = [order EXCEPT
                    ![o] = [status |-> IF counterparty = Null THEN "WAITING_COUNTERPARTY"
                                                              ELSE "PENDING_ACCEPT",
                            counterparty |-> counterparty, amount |-> t.amount, fee |-> t.fee]]
    /\ UNCHANGED <<wallet, hold, dispute, fees, call, calls, history>>

----------------------------------------------------------------------------
(* PUT orders/:id and POST orders/accept *)

Editable(o) == order[o].status \in {"WAITING_COUNTERPARTY", "PENDING_ACCEPT"}

UpdateOrder(h, o, t) ==
    /\ "orders" \in Routes
    /\ Editable(o)
    /\ Begin(h, o, "update", Null, t)

\* The order's row becomes new; if somebody had joined it, that is a revision.
Revise(o, new) ==
    /\ order' = [order EXCEPT ![o] = new]
    /\ revised' = IF order[o].counterparty = Null \/ new = [order[o] EXCEPT !.status = new.status]
                  THEN revised ELSE [revised EXCEPT ![o] = @ + 1]

\* Amount and fee change only if nobody had joined when the call read the order:
\* later it changes the description.
UpdateCommit(h) ==
    LET o == call[h].order IN
    /\ Proceed(h, "update", "idle")
    /\ IF call[h].row.status = "WAITING_COUNTERPARTY"
       THEN Revise(o, [order[o] EXCEPT !.amount = call[h].terms.amount,
                                       !.fee = call[h].terms.fee])
       ELSE UNCHANGED <<order, revised>>
    /\ UNCHANGED <<wallet, hold, dispute, fees, left>>

AcceptAgain(o) == order[o].status # "NONE"

\* The invitation's check: nobody has accepted it yet.
InviteOpen(o) == order[o].status = "WAITING_COUNTERPARTY"

AcceptOrder(h, o, user) ==
    /\ "orders" \in Routes
    /\ InviteOpen(o)
    /\ user # Initiator[o]
    /\ Begin(h, o, "accept", user, Idle.terms)

AcceptCommit(h) ==
    LET o == call[h].order IN
    /\ Proceed(h, "accept", "idle")
    /\ Revise(o, [order[o] EXCEPT !.status = "PENDING_ACCEPT", !.counterparty = call[h].user])
    /\ UNCHANGED <<wallet, hold, dispute, fees, left>>

----------------------------------------------------------------------------
(* POST transactions/:id/accept, reject and cancel, DELETE orders/:id *)

Accept(h, o) ==
    /\ "transactions" \in Routes
    /\ order[o].status = "PENDING_ACCEPT"
    /\ Start(h, o, "agree")

Reject(h, o) ==
    /\ "transactions" \in Routes
    /\ order[o].status = "PENDING_ACCEPT"
    /\ Start(h, o, "cancel")

\* Both services refuse only what is paid or completed.
Cancel(h, o) ==
    /\ Routes \cap {"transactions", "orders"} # {}
    /\ order[o].status \notin {"PAID", "COMPLETED"}
    /\ Start(h, o, "cancel")

\* The last write of most calls: the new status, whatever the status is by now.
SetStatus(h, at, status) ==
    /\ Proceed(h, at, "idle")
    /\ order' = [order EXCEPT ![call[h].order].status = status]
    /\ UNCHANGED <<wallet, hold, dispute, fees, history>>

----------------------------------------------------------------------------
(* POST transactions/:id/pay *)

Pay(h, o) ==
    /\ "transactions" \in Routes
    /\ order[o].status = "ACCEPTED"
    /\ Start(h, o, "lock")

PayLock(h) ==
    LET o == call[h].order  row == call[h].row IN
    /\ Proceed(h, "lock", "insertHold")
    /\ wallet' = [wallet EXCEPT ![BuyerOf(o, row)] = LockBalance(@, TotalToPay(o, row))]
    /\ UNCHANGED <<order, hold, dispute, fees, history>>

HoldOf(o, row, status, amount) ==
    [status |-> status, buyer |-> BuyerOf(o, row), seller |-> SellerOf(o, row),
     amount |-> amount]

PaidFirst(h) == SetStatus(h, "insertHold", "PAID")

PayHold(h) ==
    LET o == call[h].order  row == call[h].row IN
    /\ Proceed(h, "insertHold", "setPaid")
    /\ hold' = [hold EXCEPT ![o] = HoldOf(o, row, "HELD", TotalToPay(o, row))]
    /\ UNCHANGED <<wallet, order, dispute, fees, history>>

----------------------------------------------------------------------------
(* POST orders/:id/pay *)

\* getBalance answers in rupiah, and payOrder takes the answer for minor units: a
\* balance that is no whole number of rupiah is no BigInt, and throws.
RupiahOf(w) == Available(w) \div Rupiah

PayOrder(h, o) ==
    LET buyer == wallet[BuyerOf(o, order[o])] IN
    /\ "orders" \in Routes
    /\ order[o].status \in {"PENDING_ACCEPT", "ACCEPTED"}
    /\ Available(buyer) % Rupiah = 0
    /\ RupiahOf(buyer) >= TotalAmount(o, order[o])
    /\ Start(h, o, "escrow")

\* createEscrow returns the hold the order has, or locks the money, inserts a
\* hold and marks the order PAID together.
PayEscrow(h) ==
    LET o == call[h].order  row == call[h].row IN
    /\ Proceed(h, "escrow", "setPaid")
    /\ IF ~HoldFree(o)
       THEN UNCHANGED <<wallet, order, hold, history>>
       ELSE /\ wallet' = [wallet EXCEPT ![BuyerOf(o, row)] = LockBalance(@, row.amount)]
            /\ hold' = [hold EXCEPT ![o] = HoldOf(o, row, "ACTIVE", row.amount)]
            /\ order' = [order EXCEPT ![o].status = "PAID"]
    /\ UNCHANGED <<dispute, fees, history>>

----------------------------------------------------------------------------
(* POST transactions/:id/complete: confirmReceipt *)

ConfirmReceipt(h, o) ==
    /\ "transactions" \in Routes
    /\ order[o].status = "PAID"
    /\ SellerOf(o, order[o]) # Null
    /\ Start(h, o, "transfer")

\* transferLockedBalance, outside any transaction here: it reads and checks the
\* buyer's wallet, ...
TransferRead(h) ==
    /\ Proceed(h, "transfer", "debit")
    /\ UNCHANGED <<wallet, order, hold, dispute, fees, history>>

\* ... takes the money from it without checking again, ...
TransferDebit(h) ==
    LET o == call[h].order  row == call[h].row IN
    /\ Proceed(h, "debit", "credit")
    /\ wallet' = [wallet EXCEPT ![BuyerOf(o, row)] = TransferOut(@, SellerAmount(o, row))]
    /\ UNCHANGED <<order, hold, dispute, fees, history>>

\* ... and gives it to the seller.
TransferCredit(h) ==
    LET o == call[h].order  row == call[h].row IN
    /\ Proceed(h, "credit", "resolveHold")
    /\ wallet' = [wallet EXCEPT ![SellerOf(o, row)] = TransferIn(@, SellerAmount(o, row))]
    /\ UNCHANGED <<order, hold, dispute, fees, history>>

HoldForgotten(h) ==
    /\ Proceed(h, "resolveHold", "setCompleted")
    /\ UNCHANGED <<wallet, order, hold, dispute, fees, history>>

ResolveHold(h) ==
    LET o == call[h].order  rest == hold[o].amount - SellerAmount(o, call[h].row) IN
    /\ Proceed(h, "resolveHold", "setCompleted")
    /\ IF hold[o].status = "NONE"
       THEN UNCHANGED <<hold, left>>
       ELSE /\ hold' = [hold EXCEPT ![o].status = "RELEASED"]
            /\ left' = [left EXCEPT ![o] = rest]
    /\ UNCHANGED <<wallet, order, dispute, fees, revised>>

----------------------------------------------------------------------------
(* POST orders/:id/confirm-delivery *)

ConfirmDelivery(h, o) ==
    /\ "orders" \in Routes
    /\ order[o].status = "PAID"
    /\ hold[o].status # "NONE"
    /\ Start(h, o, "release")

\* releaseEscrow validates the hold and checks the buyer's lock ...
ReleaseRead(h) ==
    /\ Proceed(h, "release", "releaseCommit")
    /\ UNCHANGED <<wallet, order, hold, dispute, fees, history>>

\* ... and pays out share and fee, releases the hold and completes the order.
ReleaseCommit(h) ==
    LET o == call[h].order  b == hold[o].buyer  s == hold[o].seller
        fee == call[h].row.fee  share == hold[o].amount - fee
        debited == [wallet EXCEPT ![b] = TransferOut(@, share)]
        paid == [debited EXCEPT ![s] = TransferIn(@, share)]
    IN
    /\ Proceed(h, "releaseCommit", "setCompleted")
    /\ wallet' = [paid EXCEPT ![b] = TakeLocked(@, fee)]
    /\ fees' = fees + fee
    /\ hold' = [hold EXCEPT ![o].status = "RELEASED"]
    /\ order' = [order EXCEPT ![o].status = "COMPLETED"]
    /\ UNCHANGED <<dispute, history>>

----------------------------------------------------------------------------
(* POST delivery/:orderId/confirm: once the seller has sent a proof, the order is
   completed, and nothing else. *)

ConfirmDelivered(h, o) ==
    /\ "deliveries" \in Routes
    /\ order[o].status = "PAID"
    /\ Start(h, o, "setCompleted")

----------------------------------------------------------------------------
(* Disputes *)

\* POST transactions/:id/dispute: the dispute's row, then the status.
Dispute(h, o) ==
    /\ "transactions" \in Routes
    /\ order[o].status = "PAID"
    /\ Start(h, o, "disputeRow")

DisputeRow(h) ==
    /\ Proceed(h, "disputeRow", "setDisputed")
    /\ dispute' = [dispute EXCEPT ![call[h].order] = TRUE]
    /\ UNCHANGED <<wallet, order, hold, fees, history>>

\* POST orders/:id/dispute: the status only.
OpenDispute(h, o) ==
    /\ "orders" \in Routes
    /\ order[o].status = "PAID"
    /\ Start(h, o, "setDisputed")

\* POST disputes: row and status together, for whatever is not over.
CreateDispute(h, o) ==
    /\ "disputes" \in Routes
    /\ order[o].status \notin {"COMPLETED", "CANCELLED"}
    /\ ~dispute[o]
    /\ Start(h, o, "dispute")

CreateDisputeCommit(h) ==
    LET o == call[h].order IN
    /\ Proceed(h, "dispute", "idle")
    /\ dispute' = [dispute EXCEPT ![o] = TRUE]
    /\ order' = [order EXCEPT ![o].status = "DISPUTED"]
    /\ UNCHANGED <<wallet, hold, fees, history>>

\* PUT disputes/:id/resolve.  The decision sets the order's status; neither the
\* hold nor a wallet is touched.
Resolve(o, status) ==
    /\ "admin" \in Routes
    /\ dispute[o]
    /\ status \in {"COMPLETED", "REFUNDED", "CANCELLED"}
    /\ order' = [order EXCEPT ![o].status = status]
    /\ UNCHANGED <<wallet, hold, dispute, fees, call, calls, history>>

\* POST admin/transactions/:id/force-cancel.  (Its sibling force-complete writes
\* adminNotes, which the orders model does not have: Prisma refuses the update.)
ForceCancel(o) ==
    /\ "admin" \in Routes
    /\ order[o].status # "NONE"
    /\ order' = [order EXCEPT ![o].status = "CANCELLED"]
    /\ UNCHANGED <<wallet, hold, dispute, fees, call, calls, history>>

----------------------------------------------------------------------------
\* A call ends before its next write: the check of that write fails or, when
\* calls are not reliable, the process dies or the database refuses.
Abort(h) ==
    /\ call[h] # Idle
    /\ Reliable => ~Allowed(h)
    /\ call' = [call EXCEPT ![h] = Idle]
    /\ UNCHANGED <<wallet, order, hold, dispute, fees, calls, history>>

Arrival(h, o) ==
    \/ \E t \in Terms : UpdateOrder(h, o, t)
    \/ \E user \in Users : AcceptOrder(h, o, user)
    \/ Accept(h, o) \/ Reject(h, o) \/ Cancel(h, o)
    \/ Pay(h, o) \/ PayOrder(h, o)
    \/ ConfirmReceipt(h, o) \/ ConfirmDelivery(h, o) \/ ConfirmDelivered(h, o)
    \/ Dispute(h, o) \/ OpenDispute(h, o) \/ CreateDispute(h, o)

Write(h) ==
    \/ UpdateCommit(h) \/ AcceptCommit(h)
    \/ SetStatus(h, "agree", "ACCEPTED") \/ SetStatus(h, "cancel", "CANCELLED")
    \/ PayLock(h) \/ PayHold(h) \/ PayEscrow(h) \/ SetStatus(h, "setPaid", "PAID")
    \/ TransferRead(h) \/ TransferDebit(h) \/ TransferCredit(h) \/ ResolveHold(h)
    \/ ReleaseRead(h) \/ ReleaseCommit(h) \/ SetStatus(h, "setCompleted", "COMPLETED")
    \/ DisputeRow(h) \/ CreateDisputeCommit(h) \/ SetStatus(h, "setDisputed", "DISPUTED")

Administration(o) == ForceCancel(o) \/ \E status \in OrderStatus : Resolve(o, status)

Next ==
    \/ \E o \in Orders, c \in MaybeUser, t \in Terms : Create(o, c, t)
    \/ \E h \in Handlers : Write(h) \/ Abort(h) \/ \E o \in Orders : Arrival(h, o)
    \/ \E o \in Orders : Administration(o)

Spec == Init /\ [][Next]_vars

----------------------------------------------------------------------------
(* Properties *)

TypeOK ==
    /\ wallet \in [Users -> Row]
    /\ order \in [Orders -> [status : OrderStatus, counterparty : MaybeUser,
                             amount : Nat, fee : Nat]]
    /\ hold \in [Orders -> [status : {"NONE", "ACTIVE", "HELD", "RELEASED"},
                            buyer : MaybeUser, seller : MaybeUser, amount : Nat]]
    /\ dispute \in [Orders -> BOOLEAN]
    /\ fees \in Nat
    /\ call \in [Handlers -> [at : Label, order : Orders \cup {Null},
                              row : [status : OrderStatus, counterparty : MaybeUser,
                                     amount : Nat, fee : Nat],
                              user : MaybeUser, terms : [amount : Nat, fee : Nat]]]
    /\ calls \in 0..MaxCalls
    /\ revised \in [Orders -> Nat]
    /\ left \in [Orders -> Int]

\* An order that says PAID has a hold, wherever calls overlap and wherever one
\* of them is cut short: the hold is always written before the status.
PaidMeansHeld == \A o \in Orders : order[o].status = "PAID" => hold[o].status # "NONE"

\* A hold is written once: whoever else pays the same order, by whichever of the
\* two routes, never replaces its parties or its amount.
HoldWrittenOnce ==
    [][\A o \in Orders :
          hold[o].status # "NONE" => hold'[o] = [hold[o] EXCEPT !.status = hold'[o].status]]_vars

\* How many calls may have read an order before one of them writes.
Overlap == IF Serialised THEN 1 ELSE Cardinality(Handlers)

\* Once somebody has joined an order, by its invitation or by name, counterparty, amount
\* and fee change only by calls that had read the order before, fewer than are
\* served at a time: never if calls on one order do not overlap.  (Its description
\* may be edited until both agree.)
AgreementHolds == \A o \in Orders : revised[o] < Overlap

\* No call is between two of its writes.
Quiet == \A h \in Handlers : call[h] = Idle

Released(o) == hold[o].status = "RELEASED"

\* As long as deliveries are not confirmed by their own controller, a completed order's
\* hold was released to the seller, or the order has a dispute, whose decision
\* moves no money: wherever calls of both services overlap and are cut short.
CompletedMeansReleased ==
    \A o \in Orders : order[o].status = "COMPLETED" => Released(o) \/ dispute[o]

----------------------------------------------------------------------------
(* The sums of the books *)

\* What a call has taken from the buyer and not yet given to the seller.
InTransit(c) == IF c.at = "credit" THEN SellerAmount(c.order, c.row) ELSE 0

Money == Held(wallet) + SumFunction([h \in Handlers |-> InTransit(call[h])]) + fees

Capital == SumFunction(Opening)

\* No money is made, wherever calls overlap and wherever one is cut short.
NoMoneyMade == Money <= Capital

\* What the holds for which u has paid keep locked: their amounts while they are open,
\* and afterwards what confirmReceipt has left.
KeptLocked(u) ==
    SumFunctionOnSet([o \in Orders |-> IF hold[o].status \in Open THEN hold[o].amount
                                                               ELSE left[o]],
                     {o \in Orders : hold[o].buyer = u})

\* Nor is any lost, if calls on one order take turns and are not cut short: between
\* calls, what is locked in a wallet is what its owner's open holds add up to, and
\* for each order completed through confirmReceipt at most its fee, which nobody
\* collects.  Nothing is paid out of another order's money, and nothing else stays
\* locked.
BooksBalance ==
    /\ Money = Capital
    /\ \A o \in Orders : left[o] \in 0..order[o].fee
    /\ Quiet => \A u \in Users : wallet[u].locked = KeptLocked(u)
=============================================================================
