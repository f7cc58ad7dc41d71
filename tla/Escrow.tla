------------------------------- MODULE Escrow -------------------------------
(***************************************************************************)
(* EscrowService (core/escrow/escrow.service.ts) over the wallets, escrow  *)
(* holds, orders, disputes and ledger tables.                              *)
(*                                                                         *)
(* A request is an HTTP call that one of the service's methods serves.     *)
(* Every method first reads and validates OUTSIDE the transaction, then    *)
(* runs an interactive transaction at PostgreSQL's default READ COMMITTED  *)
(* level: each read inside it sees what is committed at that moment, its   *)
(* first UPDATE of a row locks that row until the end, and its writes      *)
(* become visible together.  So a request is three steps here: the         *)
(* validation, the last unlocked read of the wallet, and the commit, which *)
(* applies all writes to the rows as they are then.  Between two steps any *)
(* other request may commit.                                               *)
(***************************************************************************)
EXTENDS Wallet, FiniteSets

CONSTANTS
    Users,      \* owners of a wallet
    Orders,     \* orders both parties accepted
    Requests,   \* HTTP calls; each one is served once
    Keys,       \* values of the x-idempotency-key header, which retries repeat
    Amounts,    \* amountMinor a caller may ask to hold
    Fees,       \* platformFeeMinor a caller may ask to deduct
    MaxRetries, \* MAX_RETRIES of WalletService
    Null,       \* an absent user or order; sellerUserId left out
    System,     \* actorId of the cron job
    Opening,    \* balances before the first request
    Buyer,      \* the buyer of each order ...
    Seller,     \* ... and its seller
    KeyOf,      \* the header each call carries
    Serialised  \* whether calls on the same order are kept from overlapping

ASSUME EscrowAssumption ==
    /\ IsFiniteSet(Users) /\ IsFiniteSet(Orders)
    /\ Amounts \subseteq Nat
    /\ Fees \subseteq Nat
    /\ MaxRetries \in Nat \ {0}
    /\ Null \notin Users \cup Orders
    /\ System \notin Users
    /\ Opening \in [Users -> Nat]
    /\ Buyer \in [Orders -> Users]
    /\ Seller \in [Orders -> Users]
    /\ KeyOf \in [Requests -> Keys]
    /\ Serialised \in BOOLEAN

VARIABLES
    wallet,     \* wallets: one row per user
    hold,       \* escrow_holds: at most one row per order (unique order_id)
    order,      \* status column of orders
    dispute,    \* whether disputes has a row for the order (unique order_id)
    account,    \* ledger: balance of each user's ASSET account
    escrowAcct, \* ledger: balance of the platform's ESCROW_HOLDING account
    feeAcct,    \* ledger: balance of the platform's PLATFORM_FEES account
    journals,   \* the type of the journal written under each key
    unposted,   \* history: what calls that found their key moved without a journal
    pc,         \* where each request is
    arg         \* what each request read or was given

ledger == <<account, escrowAcct, feeAcct, journals>>
vars == <<wallet, hold, order, dispute, ledger, unposted, pc, arg>>

----------------------------------------------------------------------------
HoldStatus == {"NONE", "ACTIVE", "HELD", "DISPUTED", "RELEASED", "REFUNDED", "ADJUSTED"}

OrderStatus == {"ACCEPTED", "PAID", "COMPLETED", "REFUNDED", "DISPUTED"}

ReleaseAfterRefund ==
    [s \in HoldStatus |->
        IF s \in {"RELEASED", "ADJUSTED"} THEN {} ELSE {"RELEASED", "REFUNDED", "DISPUTED"}]

\* ESCROW_STATE_MACHINE; an order without hold ("NONE") allows nothing.
EscrowStateMachine ==
    [s \in HoldStatus |->
        CASE s \in {"ACTIVE", "HELD"} -> {"RELEASED", "REFUNDED", "DISPUTED"}
          [] s = "DISPUTED"           -> {"ADJUSTED", "RELEASED", "REFUNDED"}
          [] OTHER                    -> {}]

\* validateActorPermission.  RELEASE has no exception for the cron job.
ValidateActorPermission(o, actor, action) ==
    CASE action = "RELEASE" -> actor = Buyer[o]
      [] action = "REFUND"  -> actor = Seller[o]
      [] action = "DISPUTE" -> actor \in {Buyer[o], Seller[o]}
      [] action = "RESOLVE" -> TRUE

NoHold == [status |-> "NONE", buyer |-> Null, seller |-> Null, amount |-> 0]

MaybeUser == Users \cup {Null}

Hold == [status : HoldStatus, buyer : MaybeUser, seller : MaybeUser, amount : Nat]

\* "lock" and "cas" are the two halves of lockBalance inside createEscrow; the
\* other labels name the step a validated request takes next, up to its answer:
\* the result of its transaction, or an error.
Label == {"idle", "lock", "cas", "release", "releaseCommit",
          "refund", "refundCommit", "disputeCommit", "done", "failed"}

Arg == [order : Orders \cup {Null}, buyer : MaybeUser, seller : MaybeUser,
        amount : Nat, fee : Nat, version : Nat, retries : Nat, seen : BOOLEAN]

\* The arguments of a call, and of a request that has not arrived.
Call(o, b, s, a, f) ==
    [order |-> o, buyer |-> b, seller |-> s, amount |-> a, fee |-> f,
     version |-> 0, retries |-> 0, seen |-> FALSE]

Blank == Call(Null, Null, Null, 0, 0)

InFlight(r) == pc[r] \notin {"idle", "done", "failed"}

JournalKind == {"NONE", "ESCROW_LOCK", "ESCROW_RELEASE", "REFUND"}

\* There is a journal under the key (unique index).
Posted(k) == journals[k] # "NONE"

Entries == [account : [Users -> Int], escrow : Int, fees : Int]

NoEntries == [account |-> [u \in Users |-> 0], escrow |-> 0, fees |-> 0]

Init ==
    /\ wallet = [u \in Users |-> Opened(Opening[u])]
    /\ hold = [o \in Orders |-> NoHold]
    /\ order = [o \in Orders |-> "ACCEPTED"]
    /\ dispute = [o \in Orders |-> FALSE]
    /\ account = [u \in Users |-> 0]
    /\ escrowAcct = 0
    /\ feeAcct = 0
    /\ journals = [k \in Keys |-> "NONE"]
    /\ unposted = NoEntries
    /\ pc = [r \in Requests |-> "idle"]
    /\ arg = [r \in Requests |-> Blank]

Goto(r, label) == pc' = [pc EXCEPT ![r] = label]

\* A call is answered and its local state is gone.
Answer(r, label) ==
    /\ Goto(r, label)
    /\ arg' = [arg EXCEPT ![r] = Blank]

Finish(r) == Answer(r, "done")

\* A call arrives.  When calls on one order are serialised, none is in flight.
Arrive(r, o, label) ==
    /\ pc[r] = "idle"
    /\ Serialised => \A q \in Requests : InFlight(q) => arg[q].order # o
    /\ Goto(r, label)

\* createJournal with a key that was already used returns the journal it finds
\* and writes nothing; otherwise the entries, whose sum is zero, are posted: one
\* on a user's account, the others on the platform's.
CreateJournal(r, type, u, amount, toEscrow, toFees) ==
    IF Posted(KeyOf[r])
    THEN /\ unposted' = [account |-> [unposted.account EXCEPT ![u] = @ + amount],
                         escrow |-> unposted.escrow + toEscrow,
                         fees |-> unposted.fees + toFees]
         /\ UNCHANGED ledger
    ELSE /\ account' = [account EXCEPT ![u] = @ + amount]
         /\ escrowAcct' = escrowAcct + toEscrow
         /\ feeAcct' = feeAcct + toFees
         /\ journals' = [journals EXCEPT ![KeyOf[r]] = type]
         /\ UNCHANGED unposted

SetHoldOnly(o, holdStatus, orderStatus) ==
    /\ hold' = [hold EXCEPT ![o].status = holdStatus]
    /\ UNCHANGED order

\* The hold's row and the order's row are updated together.
SetStatus(o, holdStatus, orderStatus) ==
    /\ hold' = [hold EXCEPT ![o].status = holdStatus]
    /\ order' = [order EXCEPT ![o] = orderStatus]

----------------------------------------------------------------------------
(* createEscrow *)

\* Validation: no hold for the order yet.  (A hold that exists is returned and
\* nothing changes.)
CreateEscrow(r, u, o, s, a) ==
    /\ Arrive(r, o, "lock")
    /\ hold[o].status = "NONE"
    /\ arg' = [arg EXCEPT ![r] = Call(o, u, s, a, 0)]
    /\ UNCHANGED <<wallet, hold, order, dispute, ledger, unposted>>

\* lockBalance reads the wallet and checks what is available.
LockRead(r) ==
    /\ pc[r] = "lock"
    /\ CanLock(wallet[arg[r].buyer], arg[r].amount)
    /\ arg' = [arg EXCEPT ![r].version = wallet[arg[r].buyer].version]
    /\ Goto(r, "cas")
    /\ UNCHANGED <<wallet, hold, order, dispute, ledger, unposted>>

\* The version moved: OptimisticLockError, and another round while any is left.
LockConflict(r) ==
    /\ pc[r] = "cas"
    /\ ~SameVersion(wallet[arg[r].buyer], arg[r].version)
    /\ arg[r].retries + 1 < MaxRetries
    /\ arg' = [arg EXCEPT ![r].retries = @ + 1]
    /\ Goto(r, "lock")
    /\ UNCHANGED <<wallet, hold, order, dispute, ledger, unposted>>

OrderIdUnchecked(o) == TRUE

\* The unique index on escrow_holds.order_id admits a row for the order.
OrderIdFree(o) == hold[o].status = "NONE"

\* The version still matches: lock, insert the hold (unique order_id), post the
\* journal and mark the order PAID, whatever its status was.
CreateCommit(r) ==
    LET b == arg[r].buyer  o == arg[r].order  a == arg[r].amount IN
    /\ pc[r] = "cas"
    /\ SameVersion(wallet[b], arg[r].version)
    /\ OrderIdFree(o)
    /\ wallet' = [wallet EXCEPT ![b] = LockBalance(@, a)]
    /\ hold' = [hold EXCEPT ![o] = [status |-> "ACTIVE", buyer |-> b,
                                    seller |-> arg[r].seller, amount |-> a]]
    /\ CreateJournal(r, "ESCROW_LOCK", b, -a, a, 0)
    /\ order' = [order EXCEPT ![o] = "PAID"]
    /\ Finish(r)
    /\ UNCHANGED dispute

----------------------------------------------------------------------------
(* releaseEscrow *)

\* Validation of a hold read before the transaction begins.
ReleaseEscrow(r, actor, o, f) ==
    /\ Arrive(r, o, "release")
    /\ "RELEASED" \in EscrowStateMachine[hold[o].status]
    /\ ValidateActorPermission(o, actor, "RELEASE")
    /\ hold[o].seller # Null
    /\ arg' = [arg EXCEPT ![r] = Call(o, hold[o].buyer, hold[o].seller, hold[o].amount, f)]
    /\ UNCHANGED <<wallet, hold, order, dispute, ledger, unposted>>

\* Inside the transaction: the look-up of the journal's key, then the check of
\* transferLockedBalance, which covers the seller's share only.
ReleaseRead(r) ==
    /\ pc[r] = "release"
    /\ CanUnlock(wallet[arg[r].buyer], arg[r].amount - arg[r].fee)
    /\ arg' = [arg EXCEPT ![r].seen = Posted(KeyOf[r])]
    /\ Goto(r, "releaseCommit")
    /\ UNCHANGED <<wallet, hold, order, dispute, ledger, unposted>>

PaidGross(W, b, s, share, fee) ==
    LET paid == [[W EXCEPT ![b] = TransferOut(@, share)]
                      EXCEPT ![s] = TransferIn(@, share + fee)]
    IN  [paid EXCEPT ![b] = TakeLocked(@, fee)]

\* The movements of a release: transferLockedBalance of the seller's share, then
\* the platform's fee out of the buyer's wallet.
PayOut(W, b, s, share, fee) ==
    LET paid == [[W EXCEPT ![b] = TransferOut(@, share)]
                      EXCEPT ![s] = TransferIn(@, share)]
    IN  [paid EXCEPT ![b] = TakeLocked(@, fee)]

\* The writes.  They are unconditional: neither the hold's status nor the locked
\* amount is looked at again.  A journal inserted under a key that was free at
\* the look-up and is taken now violates the unique index.
ReleaseCommit(r) ==
    LET b == arg[r].buyer  s == arg[r].seller  f == arg[r].fee
        o == arg[r].order  sellerAmount == arg[r].amount - f
    IN
    /\ pc[r] = "releaseCommit"
    /\ arg[r].seen \/ ~Posted(KeyOf[r])
    /\ wallet' = PayOut(wallet, b, s, sellerAmount, f)
    /\ CreateJournal(r, "ESCROW_RELEASE", s, sellerAmount, -arg[r].amount, f)
    /\ SetStatus(o, "RELEASED", "COMPLETED")
    /\ Finish(r)
    /\ UNCHANGED dispute

----------------------------------------------------------------------------
(* refundEscrow *)

RefundEscrow(r, actor, o) ==
    /\ Arrive(r, o, "refund")
    /\ "REFUNDED" \in EscrowStateMachine[hold[o].status]
    /\ actor = System \/ ValidateActorPermission(o, actor, "REFUND")
    /\ arg' = [arg EXCEPT ![r] = Call(o, hold[o].buyer, Null, hold[o].amount, 0)]
    /\ UNCHANGED <<wallet, hold, order, dispute, ledger, unposted>>

RefundRead(r) ==
    /\ pc[r] = "refund"
    /\ CanUnlock(wallet[arg[r].buyer], arg[r].amount)
    /\ arg' = [arg EXCEPT ![r].seen = Posted(KeyOf[r])]
    /\ Goto(r, "refundCommit")
    /\ UNCHANGED <<wallet, hold, order, dispute, ledger, unposted>>

RefundCommit(r) ==
    LET b == arg[r].buyer  o == arg[r].order  a == arg[r].amount IN
    /\ pc[r] = "refundCommit"
    /\ arg[r].seen \/ ~Posted(KeyOf[r])
    /\ wallet' = [wallet EXCEPT ![b] = UnlockBalance(@, a)]
    /\ CreateJournal(r, "REFUND", b, a, -a, 0)
    /\ SetStatus(o, "REFUNDED", "REFUNDED")
    /\ Finish(r)
    /\ UNCHANGED dispute

----------------------------------------------------------------------------
(* initiateDispute *)

InitiateDispute(r, actor, o) ==
    /\ Arrive(r, o, "disputeCommit")
    /\ "DISPUTED" \in EscrowStateMachine[hold[o].status]
    /\ ValidateActorPermission(o, actor, "DISPUTE")
    /\ arg' = [arg EXCEPT ![r] = Call(o, Null, Null, 0, 0)]
    /\ UNCHANGED <<wallet, hold, order, dispute, ledger, unposted>>

DisputeCommit(r) ==
    LET o == arg[r].order IN
    /\ pc[r] = "disputeCommit"
    /\ ~dispute[o]
    /\ SetStatus(o, "DISPUTED", "DISPUTED")
    /\ dispute' = [dispute EXCEPT ![o] = TRUE]
    /\ Finish(r)
    /\ UNCHANGED <<wallet, ledger, unposted>>

----------------------------------------------------------------------------
\* A check fails, a unique index is violated, the retries run out, PostgreSQL
\* breaks a deadlock, the transaction times out or the process dies: the
\* transaction is rolled back and the caller gets an error.
Abort(r) ==
    /\ InFlight(r)
    /\ Answer(r, "failed")
    /\ UNCHANGED <<wallet, hold, order, dispute, ledger, unposted>>

Step(r) ==
    \/ \E u \in Users, o \in Orders, s \in MaybeUser, a \in Amounts :
           CreateEscrow(r, u, o, s, a)
    \/ LockRead(r) \/ LockConflict(r) \/ CreateCommit(r)
    \/ \E actor \in Users \cup {System}, o \in Orders, f \in Fees :
           ReleaseEscrow(r, actor, o, f)
    \/ ReleaseRead(r) \/ ReleaseCommit(r)
    \/ \E actor \in Users \cup {System}, o \in Orders : RefundEscrow(r, actor, o)
    \/ RefundRead(r) \/ RefundCommit(r)
    \/ \E actor \in Users, o \in Orders : InitiateDispute(r, actor, o)
    \/ DisputeCommit(r)
    \/ Abort(r)

Next == \E r \in Requests : Step(r)

Spec == Init /\ [][Next]_vars

----------------------------------------------------------------------------
(* Properties *)

TypeOK ==
    /\ wallet \in [Users -> Row]
    /\ hold \in [Orders -> Hold]
    /\ order \in [Orders -> OrderStatus]
    /\ dispute \in [Orders -> BOOLEAN]
    /\ account \in [Users -> Int]
    /\ escrowAcct \in Int
    /\ feeAcct \in Int
    /\ journals \in [Keys -> JournalKind]
    /\ unposted \in Entries
    /\ pc \in [Requests -> Label]
    /\ arg \in [Requests -> Arg]

\* No wallet has more locked than it holds, so what getBalance shows as
\* available is never negative.  It rests on the version check of lockBalance:
\* two createEscrow calls that both saw enough money cannot both lock it.
NoOverdraft == \A u \in Users : wallet[u].locked <= wallet[u].balance

\* Two calls that both committed carried the same key.
RepeatedKey ==
    \E q, r \in Requests :
        q # r /\ KeyOf[q] = KeyOf[r] /\ pc[q] = "done" /\ pc[r] = "done"

\* The cached wallet agrees with the immutable ledger, whatever overlaps and
\* whatever keys are repeated: what is available in a wallet has moved from its
\* opening balance by what was posted to the owner's ledger account and by what
\* calls moved that found a journal of their key, and there is nothing of the
\* latter before two calls with one key have committed.
LedgerAgrees ==
    /\ \A u \in Users : Available(wallet[u]) = Opening[u] + account[u] + unposted.account[u]
    /\ unposted # NoEntries => RepeatedKey

\* In every interleaving of creations, releases and refunds, no money is made or
\* lost: wallets and the fees taken, posted or not, add up to what there was.  And
\* the money locked in all the wallets is the balance of the platform's
\* ESCROW_HOLDING account, but for what a repeated key kept from being posted
\* (LedgerAgrees says when there can be any of it).
BooksBalance ==
    /\ Held(wallet) + feeAcct + unposted.fees = SumFunction(Opening)
    /\ escrowAcct + unposted.escrow = LockedIn(wallet)

OpenHoldsOf(u) ==
    {o \in Orders : hold[o].buyer = u /\ hold[o].status \in {"ACTIVE", "HELD", "DISPUTED"}}

\* What is locked in a wallet is what its owner's open holds add up to: no
\* hold is paid out of another hold's money, and nothing stays locked.
LocksMatchOpenHolds ==
    \A u \in Users :
        wallet[u].locked = SumFunctionOnSet([o \in Orders |-> hold[o].amount], OpenHoldsOf(u))

\* Order and hold say the same.
OrderFollowsHold ==
    \A o \in Orders :
        order[o] = CASE hold[o].status = "NONE"     -> "ACCEPTED"
                     [] hold[o].status = "ACTIVE"   -> "PAID"
                     [] hold[o].status = "DISPUTED" -> "DISPUTED"
                     [] hold[o].status = "RELEASED" -> "COMPLETED"
                     [] hold[o].status = "REFUNDED" -> "REFUNDED"

\* Wallet, hold and order tell one story of every payment.
OneStory == LocksMatchOpenHolds /\ OrderFollowsHold

\* Once inserted, the terms of a hold (who paid, who is to be paid, how much)
\* never change: createEscrow never replaces a hold.
TermsKept ==
    \A o \in Orders :
        hold[o].status # "NONE" =>
            /\ hold'[o].status # "NONE"
            /\ hold'[o].buyer = hold[o].buyer
            /\ hold'[o].seller = hold[o].seller
            /\ hold'[o].amount = hold[o].amount

HoldTermsNeverChange == [][TermsKept]_vars

Settled == {"RELEASED", "REFUNDED", "ADJUSTED"}

Settling == {"release", "releaseCommit", "refund", "refundCommit", "disputeCommit"}

\* Calls that validated the hold of an order and have not been answered.
Stragglers(o) == {r \in Requests : pc[r] \in Settling /\ arg[r].order = o}

\* The statuses ESCROW_STATE_MACHINE marks terminal are terminal, but for the
\* calls that had validated the hold before it was settled: none joins them, each
\* writes hold and order once at most, and when they are answered the hold and
\* the order stay as they are for good.
SettledKept ==
    \A o \in Orders :
        hold[o].status \in Settled =>
            /\ Stragglers(o)' \subseteq Stragglers(o)
            /\ hold'[o] # hold[o] \/ order'[o] # order[o] => Stragglers(o)' # Stragglers(o)

SettledHoldsAreFinal == [][SettledKept]_vars

----------------------------------------------------------------------------
(* Strengthenings that make the properties inductive *)

\* What validation established about the arguments a request carries.
Validated(r) ==
    /\ InFlight(r) => arg[r].order \in Orders
    /\ InFlight(r) /\ pc[r] # "disputeCommit" => arg[r].buyer \in Users
    /\ pc[r] \in {"release", "releaseCommit"} => arg[r].seller \in Users
    /\ pc[r] = "releaseCommit" => arg[r].fee <= arg[r].amount
    /\ pc[r] \in Settling => hold[arg[r].order].status # "NONE"

ArgsValidated == \A r \in Requests : Validated(r)

HoldsHaveBuyers == \A o \in Orders : hold[o].status # "NONE" => hold[o].buyer \in Users

\* A request between lockBalance's read and its update: if the version is still
\* the one it read, the money it saw available is still available.
ReadGuarded(r) ==
    LET w == wallet[arg[r].buyer] IN
    pc[r] = "cas" =>
        /\ arg[r].version <= w.version
        /\ arg[r].version = w.version => Available(w) >= arg[r].amount

VersionGuardsRead == \A r \in Requests : ReadGuarded(r)

OverdraftInv ==
    TypeOK /\ ArgsValidated /\ HoldsHaveBuyers /\ VersionGuardsRead /\ NoOverdraft

\* A journal was posted by a call that committed.
JournalsHaveCalls ==
    \A k \in Keys : Posted(k) => \E r \in Requests : KeyOf[r] = k /\ pc[r] = "done"

\* With serialised calls a validated call is alone on its order, and the hold
\* it validated is still open.
AloneOnOrder ==
    \A q, r \in Requests :
        InFlight(q) /\ InFlight(r) /\ arg[q].order = arg[r].order => q = r

StillOpen ==
    \A r \in Requests :
        pc[r] \in Settling => hold[arg[r].order].status \notin Settled
=============================================================================
