----------------------------- MODULE Withdrawal -----------------------------
(***************************************************************************)
(* The withdrawals of one user: WalletService.withdraw and                 *)
(* cancelPendingWithdrawal, WithdrawalService.createWithdrawal, the        *)
(* administrator's approve and reject (core/admin/admin.controller.ts) and *)
(* the provider's disbursement callback (core/payment/                     *)
(* webhook.controller.ts), on the user's wallet.                           *)
(*                                                                         *)
(* As in Escrow, a call validates outside its transaction and writes in a  *)
(* later step, to the rows as they are then.  A withdrawal is named after  *)
(* the request that creates it.                                            *)
(***************************************************************************)
EXTENDS Wallet, FiniteSets

CONSTANTS
    Requests,      \* HTTP calls; each one is served once
    Keys,          \* values of the x-idempotency-key header
    KeyOf,         \* the header each call carries
    Amounts,       \* amounts asked for
    Opening,       \* the wallet's opening balance
    Routes,        \* which of POST wallet/withdraw and POST withdrawals is used
    Outcomes,      \* what the provider may report of a disbursement
    MaxRetries,    \* MAX_RETRIES of WalletService
    Day, Month,    \* their lengths on the clock
    MaxTime,       \* bound of the clock
    Cooling,       \* coolingPeriodMinutes
    MaxDailyCount, DailyLimit, MonthlyLimit,
    Null,          \* no withdrawal
    Serialised     \* whether calls are kept from overlapping

ASSUME WithdrawalAssumption ==
    /\ IsFiniteSet(Requests)
    /\ KeyOf \in [Requests -> Keys]
    /\ Amounts \subseteq Nat \ {0}
    /\ Opening \in Nat
    /\ Routes \subseteq {"wallet", "withdrawals"}
    /\ Outcomes \subseteq {"COMPLETED", "FAILED"}
    /\ {MaxRetries, Day, Month, MaxDailyCount, DailyLimit, MonthlyLimit} \subseteq Nat \ {0}
    /\ {MaxTime, Cooling} \subseteq Nat
    /\ Null \notin Requests
    /\ Serialised \in BOOLEAN

VARIABLES
    wallet,      \* the user's row
    withdrawal,  \* withdrawals: the row each request created, if any
    answered,    \* withdrawals whose disbursement the provider has reported on
    clock,
    pc,          \* where each request is
    arg,         \* what each request read or was given
    overtaken,   \* history: calls that had checked their withdrawal when another was written
    twice        \* history: the amounts of the withdrawals such calls then wrote again

vars == <<wallet, withdrawal, answered, clock, pc, arg, overtaken, twice>>

Status == {"NONE", "PENDING", "APPROVED", "COMPLETED", "REJECTED", "FAILED"}

NoWithdrawal == [status |-> "NONE", amount |-> 0, at |-> 0, keyed |-> FALSE]

Label == {"idle", "withdraw", "lock", "cas", "cancel", "approve", "reject", "failed", "done"}

\* target: the withdrawal a call is about; the other fields are createWithdrawal's.
Blank == [target |-> Null, amount |-> 0, version |-> 0, retries |-> 0]

InFlight(r) == pc[r] \notin {"idle", "done"}

Init ==
    /\ wallet = Opened(Opening)
    /\ withdrawal = [r \in Requests |-> NoWithdrawal]
    /\ answered = {}
    /\ clock = 0
    /\ pc = [r \in Requests |-> "idle"]
    /\ arg = [r \in Requests |-> Blank]
    /\ overtaken = {}
    /\ twice = 0

Goto(r, label) == pc' = [pc EXCEPT ![r] = label]

Finish(r) ==
    /\ Goto(r, "done")
    /\ arg' = [arg EXCEPT ![r] = Blank]

Arrive(r, label) ==
    /\ pc[r] = "idle"
    /\ Serialised => \A q \in Requests : ~InFlight(q)
    /\ Goto(r, label)

AmountOf(W) == SumFunctionOnSet([w \in Requests |-> withdrawal[w].amount], W)

WithStatus(S) == {w \in Requests : withdrawal[w].status \in S}

\* The statuses the limits count.
Counted == WithStatus({"PENDING", "APPROVED", "COMPLETED"})

\* The withdrawals counted since the start of the period the clock is in.
Since(length, now) == {w \in Counted : withdrawal[w].at >= now - (now % length)}

CountOffByOne(a) ==
    /\ Cardinality(Since(Day, clock)) <= MaxDailyCount
    /\ AmountOf(Since(Month, clock)) + a <= MonthlyLimit
    /\ \A w \in Requests \ WithStatus({"NONE"}) : clock - withdrawal[w].at >= Cooling

\* validateWithdrawalLimits.  The cooling period runs from the last withdrawal,
\* whatever became of it.
WithinLimits(a) ==
    /\ Cardinality(Since(Day, clock)) < MaxDailyCount
    /\ AmountOf(Since(Day, clock)) + a <= DailyLimit
    /\ AmountOf(Since(Month, clock)) + a <= MonthlyLimit
    /\ \A w \in Requests \ WithStatus({"NONE"}) : clock - withdrawal[w].at >= Cooling

KeyUnchecked(r) == TRUE

\* The unique index on withdrawals.idempotency_key, which WalletService.withdraw
\* leaves null.
KeyFree(r) ==
    \A w \in Requests \ WithStatus({"NONE"}) : withdrawal[w].keyed => KeyOf[w] # KeyOf[r]

Insert(r, a, keyed) ==
    withdrawal' = [withdrawal EXCEPT
                      ![r] = [status |-> "PENDING", amount |-> a, at |-> clock, keyed |-> keyed]]

----------------------------------------------------------------------------
(* POST wallet/withdraw: WalletService.withdraw *)

Withdraw(r, a) ==
    /\ "wallet" \in Routes
    /\ Arrive(r, "withdraw")
    /\ Available(wallet) >= a
    /\ arg' = [arg EXCEPT ![r].amount = a]
    /\ UNCHANGED <<wallet, withdrawal, answered, clock, overtaken, twice>>

\* The lock is taken without looking at the wallet again.
WithdrawCommit(r) ==
    /\ pc[r] = "withdraw"
    /\ wallet' = LockBalance(wallet, arg[r].amount)
    /\ Insert(r, arg[r].amount, FALSE)
    /\ Finish(r)
    /\ UNCHANGED <<answered, clock, overtaken, twice>>

----------------------------------------------------------------------------
(* POST withdrawals: WithdrawalService.createWithdrawal *)

\* (A key that was used returns the withdrawal it finds and changes nothing.)
CreateWithdrawal(r, a) ==
    /\ "withdrawals" \in Routes
    /\ Arrive(r, "lock")
    /\ KeyFree(r)
    /\ Available(wallet) >= a
    /\ WithinLimits(a)
    /\ arg' = [arg EXCEPT ![r].amount = a]
    /\ UNCHANGED <<wallet, withdrawal, answered, clock, overtaken, twice>>

LockRead(r) ==
    /\ pc[r] = "lock"
    /\ CanLock(wallet, arg[r].amount)
    /\ arg' = [arg EXCEPT ![r].version = wallet.version]
    /\ Goto(r, "cas")
    /\ UNCHANGED <<wallet, withdrawal, answered, clock, overtaken, twice>>

LockConflict(r) ==
    /\ pc[r] = "cas"
    /\ ~SameVersion(wallet, arg[r].version)
    /\ arg[r].retries + 1 < MaxRetries
    /\ arg' = [arg EXCEPT ![r].retries = @ + 1]
    /\ Goto(r, "lock")
    /\ UNCHANGED <<wallet, withdrawal, answered, clock, overtaken, twice>>

CreateCommit(r) ==
    /\ pc[r] = "cas"
    /\ SameVersion(wallet, arg[r].version)
    /\ KeyFree(r)
    /\ wallet' = LockBalance(wallet, arg[r].amount)
    /\ Insert(r, arg[r].amount, TRUE)
    /\ Finish(r)
    /\ UNCHANGED <<answered, clock, overtaken, twice>>

----------------------------------------------------------------------------
(* Calls about a withdrawal that exists *)

StatusIgnored(w) == withdrawal[w].status # "NONE"

\* The check cancel, approve and reject make before their transaction.
StillPending(w) == withdrawal[w].status = "PENDING"

\* A user's cancel, an administrator's approve or reject: the check ...
Act(r, w, label) ==
    /\ label \in {"cancel", "approve", "reject"}
    /\ Arrive(r, label)
    /\ StillPending(w)
    /\ arg' = [arg EXCEPT ![r].target = w]
    /\ UNCHANGED <<wallet, withdrawal, answered, clock, overtaken, twice>>

SetStatus(r, status) == withdrawal' = [withdrawal EXCEPT ![arg[r].target].status = status]

\* The other calls about this withdrawal have checked a status it no longer has.
Overtake(r) ==
    LET w == arg[r].target IN
    /\ overtaken' = overtaken \cup {q \in Requests \ {r} : InFlight(q) /\ arg[q].target = w}
    /\ twice' = IF r \in overtaken THEN twice + withdrawal[w].amount ELSE twice

\* ... and the writes, which do not make it again.
CancelCommit(r) ==
    /\ pc[r] = "cancel"
    /\ SetStatus(r, "REJECTED")
    /\ wallet' = UnlockBalance(wallet, withdrawal[arg[r].target].amount)
    /\ Finish(r)
    /\ Overtake(r)
    /\ UNCHANGED <<answered, clock>>

ApproveCommit(r) ==
    /\ pc[r] = "approve"
    /\ SetStatus(r, "APPROVED")
    /\ wallet' = TakeLocked(wallet, withdrawal[arg[r].target].amount)
    /\ Finish(r)
    /\ Overtake(r)
    /\ UNCHANGED <<answered, clock>>

RejectCommit(r) ==
    /\ pc[r] = "reject"
    /\ SetStatus(r, "REJECTED")
    /\ wallet' = DropLock(wallet, withdrawal[arg[r].target].amount)
    /\ Finish(r)
    /\ Overtake(r)
    /\ UNCHANGED <<answered, clock>>

\* The provider reports once on a disbursement, and there is one only for a
\* withdrawal that was approved; deliveries of one report exclude each other.
Reportable(w) ==
    /\ withdrawal[w].status = "APPROVED"
    /\ w \notin answered
    /\ \A q \in Requests : pc[q] = "failed" => arg[q].target # w

\* processXenditDisbursement, COMPLETED: the status is written, whatever it was.
Disbursed(r, w) ==
    /\ "COMPLETED" \in Outcomes
    /\ Arrive(r, "done")
    /\ Reportable(w)
    /\ withdrawal' = [withdrawal EXCEPT ![w].status = "COMPLETED"]
    /\ answered' = answered \cup {w}
    /\ UNCHANGED <<wallet, clock, arg, overtaken, twice>>

\* FAILED: the amount is read, then status and wallet are written.
DisbursementFailed(r, w) ==
    /\ "FAILED" \in Outcomes
    /\ Arrive(r, "failed")
    /\ Reportable(w)
    /\ arg' = [arg EXCEPT ![r].target = w]
    /\ UNCHANGED <<wallet, withdrawal, answered, clock, overtaken, twice>>

FailedCommit(r) ==
    /\ pc[r] = "failed"
    /\ SetStatus(r, "FAILED")
    /\ wallet' = DropLock(wallet, withdrawal[arg[r].target].amount)
    /\ answered' = answered \cup {arg[r].target}
    /\ Finish(r)
    /\ Overtake(r)
    /\ UNCHANGED clock

----------------------------------------------------------------------------
\* The transaction is rolled back: a failed check, a unique index, no retries
\* left, a timeout or a crash.
Abort(r) ==
    /\ InFlight(r)
    /\ Finish(r)
    /\ UNCHANGED <<wallet, withdrawal, answered, clock, overtaken, twice>>

Tick ==
    /\ clock < MaxTime
    /\ clock' = clock + 1
    /\ UNCHANGED <<wallet, withdrawal, answered, pc, arg, overtaken, twice>>

Step(r) ==
    \/ \E a \in Amounts : Withdraw(r, a) \/ CreateWithdrawal(r, a)
    \/ WithdrawCommit(r) \/ LockRead(r) \/ LockConflict(r) \/ CreateCommit(r)
    \/ \E w \in Requests :
           \/ \E label \in Label : Act(r, w, label)
           \/ Disbursed(r, w)
           \/ DisbursementFailed(r, w)
    \/ CancelCommit(r) \/ ApproveCommit(r) \/ RejectCommit(r) \/ FailedCommit(r)
    \/ Abort(r)

Next == Tick \/ \E r \in Requests : Step(r)

Spec == Init /\ [][Next]_vars

----------------------------------------------------------------------------
(* Properties *)

TypeOK ==
    /\ wallet \in Row
    /\ withdrawal \in [Requests -> [status : Status, amount : Amounts \cup {0},
                                    at : 0..MaxTime, keyed : BOOLEAN]]
    /\ answered \subseteq Requests
    /\ clock \in 0..MaxTime
    /\ pc \in [Requests -> Label]
    /\ arg \in [Requests -> [target : Requests \cup {Null}, amount : Amounts \cup {0},
                             version : 0..wallet.version, retries : 0..MaxRetries]]
    /\ overtaken \subseteq Requests
    /\ twice \in Nat

\* The wallet never locks more than it holds: a withdrawal only locks money that
\* is there, whatever else is being withdrawn, cancelled, approved or rejected.
NoOverdraft == wallet.locked <= wallet.balance

\* A withdrawal that is neither counted nor paid leaves the owner's money
\* available: calls that overlap never cost the owner anything.
OwnerNeverLoses == Available(wallet) >= Opening - AmountOf(Counted)

\* ... and gains nothing but by calls that overlap: what is available beyond what the
\* table says was given by calls that checked a withdrawal's status before another
\* call's decision on it and wrote after that decision.
GainsOnlyByOverlap == Available(wallet) <= Opening - AmountOf(Counted) + twice

\* The wallet agrees with the withdrawals table: pending amounts are locked,
\* approved and completed ones are gone, rejected ones are back.  A failed one is
\* gone as well, and its lock, which the approval took, is given back once more.
WalletAgrees ==
    /\ wallet.locked = AmountOf(WithStatus({"PENDING"})) - AmountOf(WithStatus({"FAILED"}))
    /\ wallet.balance = Opening - AmountOf(WithStatus({"APPROVED", "COMPLETED", "FAILED"}))

\* A retried POST withdrawals, which carries the key of the first try, locks the
\* money once.
OneWithdrawalPerKey ==
    \A v, w \in Requests \ WithStatus({"NONE"}) :
        withdrawal[v].keyed /\ withdrawal[w].keyed /\ KeyOf[v] = KeyOf[w] => v = w

\* The withdrawals POST withdrawals made; POST wallet/withdraw looks at no limit.
Limited == {w \in Requests : withdrawal[w].keyed}

\* No day holds more of its withdrawals, or more money of them, than the limits
\* allow, and no month more money, wherever the period starts and whatever else
\* is withdrawn, cancelled or rejected in it; and two of them are at least a
\* cooling period apart.
LimitsHold ==
    /\ \A now \in 0..MaxTime :
          LET within(length) == {w \in Limited \cap Since(length, now) :
                                     withdrawal[w].at < now - (now % length) + length}
          IN  /\ Cardinality(within(Day)) <= MaxDailyCount
              /\ AmountOf(within(Day)) <= DailyLimit
              /\ AmountOf(within(Month)) <= MonthlyLimit
    /\ \A v, w \in Limited :
          v = w \/ withdrawal[v].at - withdrawal[w].at >= Cooling
                \/ withdrawal[w].at - withdrawal[v].at >= Cooling
=============================================================================
