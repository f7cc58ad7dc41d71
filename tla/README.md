# Kahade in TLA+

Kahade is an escrow marketplace: a buyer pays an order, the platform keeps the money, and the seller gets it, less a
fee, once the buyer has confirmed. The backend (`src/kahade-backend`, NestJS, Prisma, PostgreSQL, optionally Redis)
moves that money between wallets, escrow holds, withdrawals and a ledger, and keeps what goes with it: sessions,
disputes, proofs of delivery, ratings, rewards, bank accounts. These modules model the parts where money, an order or
such a row can go wrong, TLC checks them on small instances, and TLAPS proves what matters most for all of them.

Paths below are relative to `src/kahade-backend/src` unless they begin with `src/`.

## 1. How the system works, and what the models make of it

**Requests.** Every service is a set of async methods served by HTTP controllers, in several processes (three replicas
in `deploy/kubernetes/deployment.yaml`, a cluster in `deploy/pm2.config.js`). A method reads rows and validates them;
then it writes, in an interactive transaction or in single updates. Nothing takes `FOR UPDATE` and nothing that runs
sets an isolation level, so transactions run at PostgreSQL's READ COMMITTED: what was read before the transaction, or
before the last await, may be out of date when the write is made. An `UPDATE` with `increment` works on the row as it
is then.

**So a request in a model** is a few steps: the validation, each later read whose result is used after another request
may have committed, and the commit, whose writes apply to the rows as they are at that moment. Any other request may
take steps in between. A request may be cut short before any of its steps (`Abort`, `Cut`), which stands for a failed
check, a violated unique index, a timeout, PostgreSQL breaking a deadlock, or the death of the process: what is inside
a transaction is then lost as a whole, what was written outside of one stays.

**Overlaps and failures are conditions of properties.** Much of this code is right only if calls about one thing do not
overlap, or are not cut short, and it does nothing to bring that about. Where that is so, the constants `Serialised`
and `Reliable`, or the variables `serial` and `reliable` that are chosen once in the initial state, keep the two cases
apart. A property then says what holds in each of them, and how far it is exceeded when calls overlap: never by more
than the calls that had passed the check together (`Passes`).

**History variables** (`unposted`, `tried`, `revised`, `left`, `late`, `reopened`, `overtaken`, `twice`, `missed`, `mishap`,
`failed`) record what the code does not keep and no guard reads. They let a property say exactly which steps spoil what the
code means to promise, where forbidding these steps would leave out the interesting part.

**The database** is the one of the only applied migration (`prisma/migrations/20260129191625_init`), with its unique
indexes and no CHECK constraints. `prisma/migration-constraints.sql` and `-enhanced.sql` are run by nothing in the
repository, and the code could not run under them (`updateRunningBalance` updates ledger entries, which they forbid).
An index that `schema.prisma` names and the migration lacks does not exist.

### Inventory

| Part | State | Operations | What is hard | What makes it correct |
|---|---|---|---|---|
| Wallets (`core/wallet`) | a row per user: balance, locked, version | lock, unlock, transfer of locked money, top-up, withdrawal | checks on rows read earlier; three update styles, of which one compares the version | never more locked than there is; locks equal open holds and pending withdrawals |
| Escrow (`core/escrow`) | a hold per order, its status machine | create, release, refund, dispute, expire | status validated before the transaction; four tables per call | terminal statuses are final; wallet, hold, ledger and order tell one story |
| Auto-release job (`jobs/cron`) | `isRunning`, the holds it found | every five minutes: find, release one by one | errors, restarts, the flag | it keeps coming back; releaseEscrow is called for every expired hold, and releases it |
| Ledger (`core/ledger`) | accounts, journals, entries, running balances | createJournal and the escrow journals | keys, sums over rows of others not yet committed, accounts created on demand | a key is posted once, whoever repeats it; balances count what was posted; one account per owner; agrees with the wallets |
| Orders and transactions (`core/order`, `core/transaction`) | order status, counterparty, terms | two controllers for one table: create, edit, accept, reject, cancel, pay, confirm, dispute | single writes by id, unconditional; two sets of rules | paid means held; completed means released; what was agreed does not change |
| Delivery and disputes (`core/delivery`, `core/dispute`) | proof and files; dispute, evidence, decision | send a proof, confirm, open, respond, add evidence, assign, decide | a list read, extended and written back; three ways to open a dispute; every status written by id | what was sent stays listed; evidence comes before the decision; the order follows its dispute |
| Withdrawals (`core/withdrawal`, `core/wallet`, `core/admin`) | a row per withdrawal | two routes to create, cancel, approve, reject, provider's report | limits counted before the transaction; four actors decide on one row | limits hold; the owner never loses money, and gains none |
| Callbacks (`core/payment/webhook.controller.ts`) | an idempotency key per payment, in Redis or in the process | three handlers | repeated, reordered, overlapping reports; restarts; the fallback | each payment counts once |
| Sessions and tokens (`core/auth`) | rows; tokens in Redis or in the process; the user's set of tokens | login, refresh, logout, logout everywhere, end a session, change the password | two stores, written one after the other; a replica may lose Redis; tokens of one second are equal | a session is exchanged once; none outlives its password; the stores agree |
| Login throttling (`core/auth/brute-force.service.ts`) | count, last attempt, lock, in Redis or in the process | failure, success, check | read, increment, write; every command may end in Redis or in a replica's memory | attempts are bounded; a lock runs its time |
| Second factor (`core/auth`) | secret, whether enabled | set up, verify, disable | each reads the member, then writes | what a login asks for was confirmed |
| Referrals (`core/referral`) | codes, uses, rewards | create, apply, claim | limits and statuses checked before the transaction | limits hold; a reward is paid once |
| Bank accounts (`core/bank`) | rows, one of them the default | add, delete, set default; a withdrawal adds one | count, then insert; two updates for one default | limit, no duplicates, one default |
| Identity (`core/kyc`, `core/user`) | the member's status, submissions | two ways to submit, two decisions | submissions never leave PENDING; a decision is about the member | a decision stands |
| Ratings (`core/rating`, `core/transaction`) | scores, the reputation | two ways to rate, delete | a sum read, then stored | the reputation is that of the ratings |
| Vouchers, payment requests, notifications, audit, users' data, metrics, the web client | | | | not modelled: section 5 |

Interactions: OrderService pays and completes through EscrowService; TransactionService writes holds and wallets itself,
through WalletService only for the lock and the transfer; DisputeService and AdminController write the order's status;
EscrowService, in one transaction, calls WalletService and LedgerService; the callbacks write wallets, orders and
withdrawals directly; the job calls EscrowService. AuthService asks the throttling before it looks at a password and
the second factor after it, and writes sessions and tokens last.

`PROJECT.json` lists every part with its sources and the hazards with the lines where they bite.

## 2. Modules

| Module | Models | Built on |
|---|---|---|
| `Wallet` | one wallet row and each balance movement as an operator | |
| `Escrow` | EscrowService's requests over wallets, holds, orders, disputes and ledger | `Wallet` |
| `Custody` | what an escrow promises, with no requests, locks or ledger | |
| `EscrowCustody` | the refinement mapping from `Escrow` to `Custody` | `Escrow`, `Custody` |
| `AutoRelease` | the cron job running among the requests of `Escrow` | `Escrow` |
| `Ledger` | createJournal: accounts, entries and running balances of transactions that overlap | |
| `Withdrawal` | one user's withdrawals: both routes, cancel, approve, reject, the provider's reports, the clock | `Wallet` |
| `Orders` | the life of an order through its two services, disputes and the administrator | `Wallet` |
| `Callbacks` | providers' reports, idempotency keys, failures and restarts | |
| `Replicas` | what the next two share: replicas, the calls each serves, whether calls overlap | |
| `Sessions` | sessions as rows and as tokens, at replicas that may lose Redis | `Replicas` |
| `Logins` | failed attempts, their count and the lock | `Replicas` |
| `Calls` | handlers that serve calls side by side | |
| `Referrals`, `BankAccounts`, `Identity`, `SecondFactor`, `Ratings`, `Fulfilment` | what the server keeps beside money, an area each | `Calls` |
| `Records` | the six areas as one specification | the six |
| `MCEscrow`, `MCAutoRelease`, `MCLedger`, `MCWithdrawal`, `MCOrders`, `MCCallbacks`, `MCSessions`, `MCLogins`, `MCRecords` | instances for TLC | |
| `Lemmas` | what balance movements and sums over finite sets give, for all the proofs about money | `Wallet`, TLAPS |
| `EscrowProofs`, `LedgerProofs`, `OrdersProofs`, `WithdrawalProofs`, `CallbackProofs`, `RecordsProofs` | theorems about the module they are named after; `EscrowProofs` also about the refinement and about `AutoRelease` | `Lemmas`, TLAPS |
| `AuthProofs` | theorems about `Sessions` and about `Logins` | `Lemmas`, TLAPS |

In several modules a definition is preceded by a variant with a telling name (`OrderIdUnchecked`, `PaidGross`,
`KeyForgotten`, ...) that no specification uses: the definition as it would be with a plausible mistake in the code.
`PROJECT.json` ("mutants") says which property breaks when the variant takes the definition's place.

### Escrow

A request goes through the labels of `pc`. `CreateEscrow` is the look-up before the transaction; `LockRead` and
`CreateCommit` are the two halves of `lockBalance` (the version read, and the update whose WHERE clause compares it),
`LockConflict` its retry. `CreateCommit` is the whole rest of `createEscrow`: lock, hold, journal, order. `ReleaseEscrow`
and `RefundEscrow` validate status and actor; `ReleaseRead` and `RefundRead` are the check on the wallet and the
look-up of the journal's key inside the transaction; the commits are unconditional, as in the code. The ledger is the
balances of three kinds of accounts.

`KeyOf` is the caller's `x-idempotency-key` header, and calls may carry the same: the header is meant for retries, of the
same call or, since the controller checks nothing, of any other. A journal is posted with that key. A call whose key was
used before its look-up finds the old journal, posts nothing and moves the wallets all the same; `unposted` adds up what
was moved so. A key used between look-up and insertion violates the unique index, and the call fails.

`Serialised` makes calls about one order wait for each other, which the code does not. `SettledHoldsAreFinal`,
`LedgerAgrees`, `BooksBalance` and `OnlyLateBreaks` do without it.

### Custody

Money a buyer could spend is kept for one order and leaves once, whole: `Keep`, `PayOut`, `GiveBack`. The mapping
(`EscrowCustody`) reads `getBalance`'s available amount as what a user may spend, any open or disputed hold as kept, and
the fees taken, posted or not, as earned. It hides requests, retries, versions, locks and the journals; disputes are
stutters. `KeepsPromise` says that every step is one of `Custody`. `OnlyLateBreaks` says so of every step but one: the
commit of a call that validated a hold which another call has settled since (`Late`).

### AutoRelease

`job` is where the cron's handler is, `running` is `isRunning`, `batch` the holds still to be tried, in the order the
query gave them, `tried` those `releaseEscrow` was called for in this run. `JobRelease` calls it for the next one with
actor SYSTEM and swallows its error, as the loop does. `Restart` rolls back all requests, forgets the loop and lowers
the flag; if holds of the batch were left, it has cut the run short (`CutShort`).

### Ledger

Where `Escrow` has the ledger as balances, this module looks inside one `createJournal`: `FindOrCreate` takes the
accounts of the journal's lines one by one and creates those its query does not find, `CheckKey` is the look-up of the
key, `Insert` writes the entries, and `UpdateRunningBalance`, entry by entry, stores the sum of the entries the
transaction can see. `Visible(j)` is what READ
COMMITTED shows it: what was committed by now, and its own rows. A violated unique index rolls the transaction back.
Entries are ordered by insertion. The code orders them by `created_at`, which is the same as long as no two replicas
insert entries of one account in the same millisecond or with clocks that differ: such ties are left out.

### Withdrawal

`WalletService.withdraw` (POST wallet/withdraw) checks the balance, then locks unconditionally; `createWithdrawal`
(POST withdrawals) checks key, balance and limits, then uses `lockBalance`. Cancel, approve and reject share `Act`, the
check, and differ in their commits. `Disbursed` and `DisbursementFailed` are `processXenditDisbursement`, for the
disbursement of an approved withdrawal, reported once. A decision marks the calls in flight about the same withdrawal as
`overtaken`; what such a call then gives the owner is added to `twice`. The clock counts units of which `Day` and `Month`
are multiples; `Since` is the start-of-day and start-of-month query.

### Orders

`call[h].at` names the next write of the call that handler `h` serves; `row` is the order as it was read. Each write is
an action; its check, where the code makes one together with it, is in `Allowed`. `lockBalance` and `createEscrow` are
single steps here, because `Escrow` looks inside them. `Reliable` says that a call makes all its writes unless a check
fails. Who confirms a delivery through the delivery controller (route "deliveries") completes the order and moves no
money; that the seller has sent a proof is left to `Fulfilment`. An order may be edited until both agree, but once
somebody has joined it, only its description, which is not modelled: `UpdateCommit` then writes nothing. `revised` counts
the changes of counterparty, amount or fee after somebody had joined, `left` is what `confirmReceipt` does not pay out of
a hold. `payOrder` compares `getBalance`'s rupiah with minor units (`RupiahOf`). `force-complete` is left out: it writes a
column the orders table does not have and always fails.

### Callbacks

`Send` delivers the next report of a payment, or an earlier one again, to any process. `Claim` and `Duplicate` are the
two results of `setnx`; `Handle` is the body of the three handlers, whose effect on the payment is `moved` (added to a
balance or taken off a lock) and `status` (of its order or withdrawal); `Release` and `Mark` are `del` and `set`. The
writes of a handler are a step that fails or happens: each handler makes them in one transaction or in one update.
`HandleRefuses` is the error of an invalid payload, thrown after the key is set and outside the `try`.

A key is in a store: Redis, or the Map of a process. `useRedis` is `REDIS_ENABLED`, chosen in the
initial state. With it, each command of Redis may
fail, carried out or not: `setnx` then asks and sets the process's Map, `set` writes there, and `del` is only logged.
Without it there are the Maps alone. Keys expire, and a process dies with its Map. `missed` counts how often a payment's
key was set somewhere but not where a callback sought it, `mishap` the payments with a callback that ended without taking
its key back.

### Sessions

A token is a signature over the user and the second of its issue, so it is named after that second. `session` is the
table; `refresh` and `members` are the two Redis structures of TokenBlacklistService, `memory` what a replica keeps once
its client has failed (`LoseRedis`), `online` whether it has. `call[h].then` is where a call goes after
`revokeRefreshToken`, which three operations share. A refresh is validated against the cache, finds its row, forgets the
token, revokes the row, inserts the next one and stores it, each step a write of its own. A call that finds no row ends.

### Logins

`CheckAccountLock` (with `Unlock` and `UnlockFails`), `Wrong` or `ReadAttempts` and `RecordFailedAttempt`, and
`ClearFailedAttempts` are the three methods of BruteForceService. A record is in a store: the hash in Redis, or a
replica's Map. A replica has a client of Redis (`connected`) or, after a connection that failed at its start, none. With
a client each command is served by Redis or, if it fails, by the replica's memory, command by command: `Reach` is where
one may end up. A command that fails may have been carried out, so a failure may be counted in Redis, in memory, in both
or, as a pipeline that answers with errors throws nothing, in neither. In Redis the record is read and written in two
steps, in memory in one. `failed` counts, per store, the wrong passwords of the calls it let in and counted.

### Calls and Records

`Begin` is what a call does until its last read before it writes, `Proceed` a step that goes on, `End` the last one. The
six areas say what these steps do to their rows. Their rows have nothing in common, so a behaviour of `Records` is about
one `area`, fixed from the start: interleaving two of them would show nothing. `Fulfilment` begins with an order that is
accepted, which the seller may already deliver, or paid; `Orders` has what came before and the money.

## 3. What is checked

| Run | Question | Bounds | Result |
|---|---|---|---|
| `escrow_race` | Overlapping freely, and with keys that are repeated: is a wallet ever overdrawn or a hold replaced, how far may ledger, escrow account and wallets be apart, what may still touch a settled hold, and which step breaks `Custody`? | 2 users, 3 orders, 4 requests, two and two with one key, amount 2 of 4, fee 1 | holds |
| `escrow_serialised` | If calls on one order do not overlap: does Escrow implement Custody, do wallet, hold and order tell one story, and does the job call `releaseEscrow` for every expired hold? | 2 orders, 3 requests of which 2 carry one key, fees 0 and 1, the job, expiry, restarts | holds |
| `job_release` | Does the job release expired holds? | 1 request and the job | violated: see findings |
| `ledger` | Is a key posted once, and what do running balances leave out? | 4 journals (two holds, a retry, a release), 4 owners | holds |
| `withdrawal_race` | Do POST withdrawals, a retry under the same key, cancellations, decisions and reports that overlap ever overdraw the wallet, lock twice, or cost the owner money? When does the owner gain any? | 5 requests, amounts 2 and 3 of 5, both outcomes | holds |
| `withdrawal_serialised` | Without overlap: is the wallet what the table says, do limits and cooling hold over days and months? | 4 requests, amounts 1 and 2 of 6, 6 time units (2 days of a month), cooling 1, both routes, both outcomes | holds |
| `order_race` | With calls of four controllers overlapping and cut short: does paid mean held, are holds written once, is no money made, does completed mean released or disputed, when does what was agreed change? | 1 order, 2 handlers, 5 calls, fee split | holds |
| `order_serialised` | Without overlap and crashes, with confirmed deliveries too: is any money lost, and what stays locked? | 2 orders with different payers of the fee, 8 calls, amounts with and without fee | holds |
| `callbacks` | Without Redis, as the repository is configured, or with one whose commands may fail: how often does a payment move money, is its outcome final, and is what is refused as a duplicate done? | 3 payments with 1 or 2 reports, 2 processes, 2 handlers, 3 calls, 2 restarts or expiries | holds |
| `sessions` | How often is a session exchanged, does one outlive its password, do the two stores agree? | 2 replicas, a call at each, 4 calls, 2 seconds | holds |
| `logins` | How many of the passwords a store counts does it let be tried, and what ends a lock? | 2 replicas, 2 calls at one and 1 at the other, 4 calls, 2 attempts (5 in the code), window 1, lockout 3, time 4 | holds |
| `records` | Do the six areas keep their promises when calls do not overlap, and how far are they off when they do? | 2 handlers, 5 calls, 3 members, codes that serve once, 2 bank accounts of 3 names, 3 orders with scores 1 and 5, 3 files | holds |

**What the properties say that one would not expect.** Several are bounds rather than prohibitions, because the code
allows more than it means to. `LedgerAgrees` and `BooksBalance`: wallets and ledger differ by what calls moved whose key
had a journal, and by nothing before a key is repeated. `SettledHoldsAreFinal`: a settled hold is touched only by calls
that had validated it before, once each. `GainsOnlyByOverlap`: the owner of a withdrawal has more than the table says only
by what calls gave that another had overtaken. `AgreementHolds`: what was agreed is revised fewer times than calls are
served at a time, so never if they take turns. `BooksBalance` of orders: what stays locked is at most the fee of each
order completed through `confirmReceipt`, which collects none. `MovedOncePerMiss`: a payment counts once, and once more
at most each time its key was set but not where a callback looked. `AttemptsBounded`: each store lets as many passwords be
tried in a window as the maximum, of those it counts: Redis if calls do not overlap, a replica up to the overlapping
calls. What one store lets in and another counts, or none, nothing bounds. `ExchangedOnce`: a session gives one pair of
tokens, or one to each of the calls that overlap; also at a replica that has lost Redis, because the row is
asked too. `RunningBalancesRight`: a balance leaves out nothing but entries of transactions that ran together with its
own. `ReputationRight` excepts the ratings of the route that computes nothing, `DecisionStands` the route that undoes
decisions, `AccountsInOrder` the accounts a withdrawal adds. `DisputeInOrder` says nothing of evidence that comes after a
decided dispute was opened again by another assignment or a late response.

**Why the bounds are enough.** Overlaps that matter are of two calls on a row, with a third that changes what one of
them relies on, and a fourth that had to set the scene (a hold that exists, a withdrawal that is approved). Balances are
chosen so that some amounts fit and one more does not, and a second order's money is there to be taken by mistake. The
retries of `lockBalance` (3) fit into four requests. In `escrow_race` any two with one key may be a call and its retry,
overlapping or in turn. In `callbacks` three calls set a key, miss it in another store and come back to it. In
`withdrawal_serialised` the clock crosses a day boundary and reaches the start of the next month with limits that two
withdrawals exhaust. In `ledger` a release debits the account that two holds have credited, and the retry carries the
key of the first. In `sessions` two logins fall into one second or into two, and four calls are a login, a second one, a
refresh or change of the password, and the call it meets. In `logins` four calls lock the account in Redis or at one
replica and leave two to be let in by the other store; the clock reaches the end of a lock and the call that deletes it.
The limits of `records` are reached with one call left to exceed them. Requests are served once and are interchangeable,
hence the symmetry sets; runs with liveness have none.

**Where deadlock is not checked**, requests are bounded and all may be answered: the system stops because its callers
do. It is checked in the two runs with the job, which never stops.

**Fairness** is assumed in `JobSpec` only. `WF(JobStep)`: `@Cron` fires every five minutes and Node's event loop goes
on with a run that has begun. `SF(JobFind)`: the query does not fail for ever. `<>[][~CutShort]`: some day no crash comes
while holds of a batch are still to be tried; without it a hold late in every batch might never have its turn. Nothing
is assumed of a single hold: that its turn comes, past the failures of those before it, is what `ExpiredHoldsTried`
shows. Callers owe nothing, and `Expire` need not happen. `ExpiredHoldsReleased` is violated under these assumptions, so
its counterexample is not a system that merely stopped. No other part promises that something eventually happens: a call
answers or is cut short, and nobody retries it.

### Findings

`ExpiredHoldsReleased`: the job calls `releaseEscrow` as SYSTEM, whom `validateActorPermission` refuses. The error is
logged; no hold is ever auto-released (`core/escrow/escrow.service.ts:777`), although the job's comment says it will be
(`jobs/cron/auto-release-escrow.cron.ts:19`).

Also seen while modelling: what follows is behaviour of the code that the properties are worded around, or that the
models leave out because it cannot happen.

Money:

- a release repeated with its key while the first is still running has validated the hold as open. The first commits;
  the second finds the journal under its key, posts nothing, and takes the money from the buyer and pays the seller again
  (`core/escrow/escrow.service.ts:412`), although the controller asks for the key as "Idempotency key for safe retries"
  (`core/escrow/escrow.controller.ts:77`): hence `unposted` in `LedgerAgrees` and `BooksBalance`;
- `releaseEscrow`, `refundEscrow` and `initiateDispute` check the hold's status before the transaction and not in it:
  two calls that overlap settle one hold twice, and the second takes money locked for another order
  (`core/escrow/escrow.service.ts:371`); hence `Late` in `OnlyLateBreaks`, and `Serialised` in `escrow_serialised`;
- a call without idempotency key has `undefined` for a key, and its journals are always posted, like those of a call
  whose key nobody repeats;
- approval takes a withdrawal out of balance and lock; if the provider then reports FAILED, the callback takes it out
  of the lock again and does not restore the balance (`core/payment/webhook.controller.ts:377`): `WalletAgrees` says so;
- POST wallet/withdraw locks without looking again and knows no limits (`core/wallet/wallet.service.ts:370`): hence
  POST withdrawals only in `withdrawal_race`, and limits only of its rows in `withdrawal_serialised`;
- cancel and approve of one withdrawal may both take effect (`core/wallet/wallet.service.ts:994`): hence
  `GainsOnlyByOverlap`; and overlapping calls each pass the limits (`core/withdrawal/withdrawal.service.ts:202`): hence
  `Serialised` in `withdrawal_serialised`;
- two journals at the same time create an owner's account twice, and their running balances leave each other out
  (`core/ledger/ledger.service.ts:406`, `:549`);
- outside a transaction, a crash between the two updates of `transferLockedBalance` loses the money
  (`core/wallet/wallet.service.ts:764`): hence `NoMoneyMade`, and not `BooksBalance`, in `order_race`;
- `confirmReceipt` collects no fee; what it leaves stays locked (`core/transaction/transaction.service.ts:510`): `left`
  in `BooksBalance`;
- `payOrder` compares the amount in minor units with a balance in rupiah, and throws if that is no whole number
  (`core/order/order.service.ts:377`): a buyer needs a hundred times the price.

Orders and disputes:

- confirming a delivery sets the order's status to COMPLETED and nothing else; the hold stays open and the money locked
  (`core/delivery/delivery.controller.ts:350`), although the comment says "triggers escrow release": hence no
  `"deliveries"` among the routes of `order_race`, whose `CompletedMeansReleased` it breaks;
- a decision for the seller sets the order COMPLETED and leaves hold and money where they are;
  `EscrowService.resolveDispute` has no caller (`core/dispute/dispute.service.ts:391`): hence "or after a dispute" in
  `CompletedMeansReleased`;
- acceptances of one invitation that overlap, or amount and fee edited while it is accepted, replace what was agreed
  (`core/order/order.service.ts:310`, `:279`): `AgreementHolds` says how often; title, description and terms in words may
  be edited after the invitation was accepted, until both agree (`core/order/order.service.ts:254`);
- the services step outside ORDER_STATE_MACHINE in several places, e.g. a dispute for an order that was never paid
  (`core/dispute/dispute.service.ts:69`); an order whose DISPUTED hold is open may be cancelled;
- a dispute that was decided and is assigned again is open again, with its decision, and takes evidence; an order that is
  accepted and not paid takes a proof of delivery (`core/delivery/delivery.controller.ts:180`);
- `startReview` of the administrator writes `assignedTo`, which disputes do not have, and always fails.

Callbacks:

- without `REDIS_ENABLED`, which no file of the repository sets, each replica keeps its own keys, and a callback
  repeated at another replica credits the wallet again (`core/payment/webhook.controller.ts:102`): `missed`;
- with it, a Redis error inside `setnx` falls back to the process's Map for that call, with the same effect
  (`infrastructure/cache/cache.service.ts:124`), and one inside `del` leaves the key of a callback that failed
  (`infrastructure/cache/cache.service.ts:51`), as an invalid payload does (`core/payment/webhook.controller.ts:112`);
- `processOrderPayment` marks an order PAID with no hold, whatever its status (`core/payment/webhook.controller.ts:322`).
  No code of the repository asks a provider for the payment of an order, so `Orders` does without it;
- a Midtrans report `pending` sets the payment's key, and `settlement` within a day is refused as a duplicate
  (`core/payment/webhook.controller.ts:225`); an invoice PAID and, more than a day later, SETTLED is credited twice;
  `Decisive` and the reports of the instance keep to payments whose every report counts;
- a duplicate is answered with 200 while the first is still being handled and may yet fail;
- whether the Redis client that `cache-manager-redis-store` brings accepts the arguments `setnx` passes depends on the library's version;
- the reference `topUp` hands out never matches the one the invoice callback looks for.

Sessions and logins:

- two logins within one second have one token, and ending one session ends both; overlapping refreshes of one session
  each get a pair (`core/auth/auth.service.ts:254`); a replica that has lost Redis knows no token of before;
- a login let in by Redis may be counted in memory, where the count starts anew, and a lock set in Redis is not seen by
  a check that fell back (`core/auth/brute-force.service.ts:133`, `:214`); in Redis a check that read an old lock may
  delete the next one (`core/auth/brute-force.service.ts:127`);
- the web client's refresh posts no body, and `RefreshTokenDto` demands one: it is answered with 400
  (`src/kahade-frontend/client/src/lib/api.ts:177`); a 401 would make its interceptor refresh again;
- the tokens of a password reset and of an address to be verified are stored and never sent
  (`core/auth/auth.service.ts:409`, `:518`): nobody can complete either;
- backup codes have nine characters and every call that takes one demands six (`login.dto.ts:45`, `mfa-verify.dto.ts:22`
  in `core/auth/dto`): none is ever accepted. A wrong code of the second factor is not counted as a failed attempt;
- setting up the second factor again turns it off until it is confirmed; overlapping calls may enable a secret nobody
  confirmed, or none at all (`core/auth/auth.service.ts:568`).

Other rows:

- `applyVoucher`'s raw SQL names a table `"Voucher"`, which the migration calls `vouchers`: every call fails;
- identity submissions never leave PENDING, so that POST kyc/submit works once; POST users/kyc undoes a decision; an
  approval needs no submission. The client's administration screens call routes for this that the server does not have;
- POST transactions/:id/rate never computes the reputation; a withdrawal adds bank accounts beyond the limit;
- overlapping submissions of a proof of delivery lose a file from the list (`core/delivery/delivery.controller.ts:216`).

## 4. What is proved

All proofs are for any sets of users, orders, requests, payments, journals, handlers and processes, and any amounts,
under the named assumptions on constants of each module. A condition in the last column is a hypothesis of the theorem;
a property that is conditional itself (on `serial`, say) is proved as it stands. `Serialised` and `Reliable` are not
brought about by anything in the code: where a theorem assumes them, the case left out is the finding or the hazard that
names it, and where the property can be said without them, as an exact bound on what overlaps may spoil, it is.

| Theorem | Says | Assumes |
|---|---|---|
| `EscrowProofs!TypeCorrect` | `[]TypeOK` | |
| `EscrowProofs!NeverOverdrawn` | `[]NoOverdraft` | |
| `EscrowProofs!TermsNeverChange` | `HoldTermsNeverChange` | |
| `EscrowProofs!LedgerAgreement` | `[]LedgerAgrees` | |
| `EscrowProofs!SettledFinal` | `SettledHoldsAreFinal` | |
| `EscrowProofs!BooksAlwaysBalance` | `[]BooksBalance` | |
| `EscrowProofs!OnlyLateCommitsBreak` | `OnlyLateBreaks`: `Escrow` implements `Custody`, but for late commits | |
| `EscrowProofs!OneStoryOnly` | `[]OneStory` | `Serialised` |
| `EscrowProofs!PromiseIsSound` | whoever implements `Custody` makes and loses no money, and nobody owes anything | |
| `EscrowProofs!JobKeepsBooks` | `JobSpec`: `[](NoOverdraft /\ LedgerAgrees /\ BooksBalance)` | |
| `EscrowProofs!JobKeepsOneStory` | `JobSpec`: `[]OneStory` | `Serialised` |
| `EscrowProofs!JobKeepsSettled` | `JobSpec`: `SettledHoldsAreFinal` | |
| `EscrowProofs!JobOnlyLateBreaks` | `JobSpec`: `OnlyLateBreaks` | |
| `EscrowProofs!JobKeepsPromise` | its corollary: `AutoRelease` implements `Custody` | `Serialised` |
| `EscrowProofs!JobCanRunAgain` | `JobSpec`: types, and `isRunning` is up exactly while a run is at work | |
| `EscrowProofs!JobReleasesNothing` | `JobSpec`: a release by the job writes nothing | |
| `LedgerProofs!TypeCorrect` | `[]TypeOK` | |
| `LedgerProofs!KeyPostedOnce` | `[]PostedOnce` | |
| `LedgerProofs!OwnersHaveOneAccount` | `[]OneAccountPerOwner` | |
| `LedgerProofs!RunningBalancesAreRight` | `[]RunningBalancesRight` | |
| `OrdersProofs!TypeCorrect` | `[]TypeOK` | |
| `OrdersProofs!HoldStaysAsWritten` | `HoldWrittenOnce` | |
| `OrdersProofs!PaidIsHeld` | `[]PaidMeansHeld` | |
| `OrdersProofs!CompletedIsReleased` | `[]CompletedMeansReleased` | `"deliveries"` is not among the routes |
| `OrdersProofs!AgreementStays` | `[]AgreementHolds` | |
| `OrdersProofs!NoMoneyIsMade` | `[]NoMoneyMade` | |
| `OrdersProofs!BooksAlwaysBalance` | `[]BooksBalance` | `Serialised`, `Reliable` |
| `WithdrawalProofs!TypeCorrect` | `[]TypeOK` | |
| `WithdrawalProofs!NothingOverdrawn` | `[]NoOverdraft` | `"wallet"` is not among the routes |
| `WithdrawalProofs!KeyWithdrawsOnce` | `[]OneWithdrawalPerKey` | |
| `WithdrawalProofs!OwnerKeepsMoney` | `[]OwnerNeverLoses` | |
| `WithdrawalProofs!OwnerGainsByOverlap` | `[]GainsOnlyByOverlap` | |
| `WithdrawalProofs!WalletAlwaysAgrees` | `[]WalletAgrees` | `Serialised` |
| `WithdrawalProofs!LimitsAlwaysHold` | `[]LimitsHold` | `Serialised` |
| `CallbackProofs!TypeCorrect` | `[]TypeOK` | |
| `CallbackProofs!PaymentMovedOnce` | `[]MovedOncePerMiss` | |
| `CallbackProofs!OutcomeStays` | `OutcomeFixed` | |
| `CallbackProofs!KeysAreHonest` | `[]KeyMeansTaken` | |
| `RecordsProofs!TypeCorrect` | `[]TypeOK` | |
| `RecordsProofs!RewardCreditedOnce` | `[]RewardPaidOnce` | |
| `RecordsProofs!DecisionIsKept` | `DecisionStands` | |
| `RecordsProofs!FactorIsConfirmed` | `[]FactorConfirmed` | |
| `RecordsProofs!ProofIsKept` | `[]ProofKept` | |
| `RecordsProofs!DisputeGoesItsWay` | `[]DisputeInOrder` | |
| `RecordsProofs!UsageIsBounded` | `[]UsageBounded` | |
| `RecordsProofs!AccountsAreInOrder` | `[]AccountsInOrder` | |
| `RecordsProofs!ReputationIsRight` | `[]ReputationRight` | |
| `AuthProofs!SessionsTypeCorrect` | `[]TypeOK` of `Sessions` | |
| `AuthProofs!SessionsExchangedOnce` | `[]ExchangedOnce` | |
| `AuthProofs!OldPasswordIsGone` | `[]OldPasswordGone` | |
| `AuthProofs!StoresAlwaysAgree` | `[]StoresAgree` | |
| `AuthProofs!LoginsTypeCorrect` | `[]LoginsTypeOK` | |
| `AuthProofs!AttemptsAreBounded` | `[]AttemptsBounded` | |
| `AuthProofs!LocksRunTheirTime` | `LockRunsItsTime` | |

`LoginsAssumption` asks for a limit of more than one attempt (the code has five) and for a lockout that is longer than
the window. With a limit of one, `recordFailedAttempt` would lock at the first failure in Redis only: in memory the
first failure returns before the limit is looked at (`core/auth/brute-force.service.ts:193`, against `:222`). Its
theorems speak of `LoginsSpec`, those about sessions of `Spec` of `Sessions`.

**No overdraft.** `NoOverdraft` is not inductive: it says nothing of a request between `lockBalance`'s read and its
update. `VersionGuardsRead` does: if the version is still the one read, the money seen is still available. It is kept
because every commit either raises the version of the row or does not lower what is available (`WalletsGuarded`). The
fees and the approvals that leave the version alone are harmless for that reason. `ArgsValidated` (what validation
established about the arguments) and `HoldsHaveBuyers` complete `OverdraftInv`. The same argument, for the one wallet
of `Withdrawal`, is `Covered`.

**Ledger.** Every commit moves one wallet's available amount by a sum, and by the same sum either its owner's account,
or, if it finds a journal of its key, what is `unposted` of the owner. `KeysTold` says when the second may happen: a
journal has an answered call behind it, so a commit that finds one is the second to commit with its key. In
`Ledger`, `InsertedOnce` extends `PostedOnce` to journals that are inserted and not committed: the unique index
refuses the second of them. `Owned` rests on one transaction at a time, on every line before the one in hand having
its account, and on every account found being that of a row that exists.

**Settled holds.** `Stragglers(o)` are the calls that validated the hold of order `o` and have not been answered. None
joins them once the hold is settled, because each validation refuses a settled hold; a step that writes the hold or the
order is the commit of one of them, which leaves the set by it. `ArgsValidated` says that such a call's order has a hold.

**Custody.** The commits are `Keep`, `PayOut` and `GiveBack`, provided the hold they come to is still open; a commit that
comes to a settled hold is `Late`, and nothing else breaks the promise (`StepKeepsPromise`). `VersionGuardsRead` gives
Keep's guard, and `TermsKnown` that what the call read of the hold is what the hold says. The fee is taken whether or
not its journal is posted: `FeesTaken` counts both. When calls on an order take turns there is no late commit
(`AloneOnOrder` and, with it, `StillOpen`), hence the corollary `JobKeepsPromise`. What the refinement is worth is a
theorem about `Custody` alone (`PromiseIsSound`): each of its three steps moves an amount between what users may spend,
what is kept and what was earned, and a deal that is kept has a payer among the users.

**The job.** A step of `AutoRelease` is a step of `Escrow`, a step of the job that touches no row, or a crash. The
job's own calls touch none because `releaseEscrow` refuses SYSTEM before it writes (`JobReleasesNothing`), which is the
finding about `ExpiredHoldsReleased` for every instance. A crash rolls back to the state between requests, and every
invariant above holds of it (`RollBackKeeps`): what a request knows is forgotten with it, and what it wrote was one
transaction. `JobCanRunAgain` is the safety half of `ExpiredHoldsTried`: nothing keeps the next run from starting.

**Orders.** `PaidMeansHeld` needs to know of calls that are about to write PAID: they have seen the hold, or written it
(`CallsHold`), and no call takes a hold away. Likewise a call about to write COMPLETED has released the hold
(`CallsReleased`), or the order has a dispute, whose row stays (`AllReleased`). For `AgreementHolds`, the stragglers of an
order are the calls that read it before anybody had joined it and may still revise it. An order that waits for its
counterparty has none (`WaitingIsOpen`, `ReadsOpen`), so no call joins the stragglers afterwards; the call that brings the
counterparty was one of them, and each revision uses one up: `revised` and stragglers together stay below the calls
served at a time (`RevisionsBound`).

**Withdrawals.** A call about a withdrawal finds it in the status it was checked in, or was `overtaken` since (`Warned`).
What a call that was overtaken gives the owner is counted (`twice`), what any other gives is what the table says, hence
`GainsOnlyByOverlap`. Without overlap no other call is at work (`Alone`) and none is overtaken (`InTime`). A key makes one
withdrawal because each insertion asks the unique index.

**Callbacks.** `Accounted` counts admissions: how often a payment was moved, and the callbacks at work on it, are no more
than its key admits, one, and the times the key was set but not where it was sought (`missed`). A callback that succeeds
turns its work into a use, one that fails gives its place back with the key. `OutcomeFixed` follows: with no miss, a
payment that has an outcome has used up its place. `Honest` adds to `KeyMeansTaken` that a callback about to mark the key
has written what its report says (`MarkedTaken`); a key's callback is at work, or has done so, or has taken the key
back, or it is one of the mishaps.

**Records.** All areas share `Served`: calls are well-formed, and alone if `serial`. `Moves` is what a step of a handler
does to the calls, proved once for `Begin`, `Proceed`, `End` and `Cut`, so that each area's proof is about its rows.
`Rewards` adds the calls that have passed the check to those that have paid: together never more than `Passes`.
`NothingSubmitted` and `CodeShown` say what a call knows that is about to write: that there is no submission, that the
secret is the one whose code was shown. `Delivered` adds that the list a call has read is the row's (`ProofSeen`).
`Disputed` adds what each step of a dispute relies on: that what is answered is open and undecided (`Heard`), and that the
order still follows its dispute (`Follows`). `Evidenced`: after a decision that is not reopened, evidence comes only from
calls that were there before it (`Givers`), all but the one that decided.

**Sums.** A table's sum is `SumFunctionOnSet` of the library, a fold over a set, and `Lemmas` has what the proofs need
of it: that it is a number, what adding or removing an element does, that it depends on its elements' values only,
that it is monotone, that it is zero if they are, and what becomes of it if one or two of them change. The prover has
no induction over a set. In its place `Least` says that a family of subsets of a finite set has a smallest one (strict
inclusion is well founded), from which follow that the fold adds up one element at a time (`AddingAdds`) and that a
family which is closed under adding an element has the whole set (`GrowsToAll`). With them, the books are a matter of
one step each:

- `Escrow`: every commit moves two wallets, the escrow account and the fees by amounts that cancel, once the journal is
  posted or counted as unposted (`KeysTold`); for `OneStory` the hold the commit is about changes its weight in the sum
  of its buyer's holds by what the wallet's lock changes (`StillOpen` and `TermsKnown` say that both read the same hold);
- `Orders`: money between the two updates of a transfer is `InTransit` with its call. `NoMoneyMade` needs that a fee
  is less than its amount and that a call moves money between the parties the order has (`Fair`). For `BooksBalance`,
  `Course` says, of an order and the only call about it, what hold, lock and what is `left` are at each label: a hold is
  open exactly as long as its amount is locked, but for the steps between the two, and what a released hold leaves locked
  is at most the order's fee (`LeftFits`). `LocksMatch` is the sum of both over a user's orders;
- `Withdrawal`: each decision moves an amount from one of the two sums to the other, and `Decided` says that the
  withdrawal is still where the call saw it;
- `LimitsHold` is about all periods, the code about the one the clock is in. `Dated` says that nothing is dated later
  than the clock, `RoomForAll` that a call which has passed the check finds room in every period that is not over: in
  the one it checked because it is alone, and in a later one because that is empty yet. `SameMultiple` is the arithmetic:
  two periods that share an instant are one.

**Running balances.** `Stamped`: a journal is numbered when it is inserted, later than all before it. `Met`:
transactions that are in flight together know of each other. `Summed`: each balance that was computed is the sum over
a set of journals that has its own, none that came later, and lacks only journals it has met.

**Codes and bank accounts.** `Within` is one invariant for four limits: a number is below its limit, or exceeds it by no
more than the calls that have yet to write leave room for. `Used` has the count of a code, which is that of its uses,
and the uses of a member; `Banked` the defaults, the listed accounts, and that what a call has counted is still so if
calls do not overlap. **Reputation.** `Reputed`: stale only while a call is about to store it, and what it will store is
the average of the ratings there are.

**Sessions.** `Does` is what each of the steps does to the calls, proved once for each kind of step. `Exchanged` counts,
for a row, the pairs that were issued and the calls that have found it and will issue one (`Claims`): never more than
calls at a time, because a row for which a pair was issued is not live, so that nobody finds it. The other two
theorems are about the one call that is served (`Current`) if calls do not overlap. `PasswordKept`: only between the two
writes of a change do live rows carry an earlier password, and a refresh hands on the one it found, which is the one
there is. `StoresKept` says at each label how far list, tokens and rows may be apart (`Listed`, `Backed`, `Reachable`):
that no replica has lost Redis is enough, as Redis is never found again while no replica restarts.

**Logins.** `StoresTell` is about each store by itself, as a call asks one and may be counted in another: about a
replica's memory always, about Redis as long as calls do not overlap. `failed` says how often a password was tried at
each time, the record only how often and when last. `Tells` relates the two: no window that reaches the record's last
attempt or beyond holds more failures than it counts. A record whose last attempt is out of the window starts again at
one, when all that it counted is out of the window too. `Past` says that a lock outlasts the failures before it, and
`Within` that the failures of a full record and the calls the store has let in and not answered are within the bound.
`Marked` says that a record which has reached the limit carries its lock, set at its last attempt; in Redis a lock may
stay when the count has begun anew, as a failure in another store does not see it. In Redis a call about to write has
seen the record that is there (`Reads`). In memory a count may still grow by the calls the replica has let in, all of
which began before the failure that locked the account (`Begun`); as a call takes no longer than a unit of the clock
(`Timed`) and a lock more, all of them are answered before the lock has run out and the count starts again.

**Types.** They are theorems where they take more than the code's declarations. In `Withdrawal` what a call read of the
wallet is a version it has had, so versions may never go back. In `Sessions` the number of a password is bounded by the
calls, of which those that are still to write one have to be counted (`Setting`). In `Ledger` a committed journal has
its accounts and balances (`Written`). In `Records` what a call carries follows from the step it is at (`Apt`), and the
average of scores from one to five is at most five, rounded as it is (`AverageInRange`).

**Only model-checked**: liveness under fairness (`ExpiredHoldsTried`, and `ExpiredHoldsReleased`, which is violated).
Every other property of the runs is stated by a theorem; `OneAccountPerOwner` is proved only. Most of the invariants above were checked by TLC on an instance
before they were proved.

## 5. What is not modelled

Without a caller, or never successful:

- EscrowService.resolveDispute, the ledger's verify methods, approve, reject and complete of WithdrawalService, escalate,
  appeal and closeAppealWindow of DisputeService, acceptByInvite and updateStatus of TransactionService, creditBalance
  and deductBalance of WalletService, account-lockout.service.ts;
- IdempotencyInterceptor and MFAGuard (used by no controller), the controllers under `api/webhooks` and
  EscrowTimeoutJob (registered in no module);
- vouchers, `force-complete` and `startReview` (every call fails before it writes anything), the reset of a password and
  the verification of an address (the token is never sent), backup codes (none is accepted), and the list of revoked
  access tokens (nothing reads it).

With no state, or with nothing to get wrong beyond one row:

- payment requests (PaymentController answers with invented references), notifications, mails, audit rows, activity,
  messages and comments: rows that are added and that no other call depends on;
- users' own data, the administrator's settings, lists and suspensions: single updates of a row;
- formats, pagination, metrics, request validation, signatures, rate limits, health checks;
- database scripts and deployment.

The web client (`src/kahade-frontend`): its screens hold forms and copies of what the server answered. Any caller may
make any call the server accepts, so the models already contain whatever the client does. With the screens, DTOs,
guards, the schema and the tests this is most of the repository's lines, which is why the share of lines that the map
covers stays small although nearly every service that moves money or keeps a protocol is modelled.

Assumed: a user has a wallet (it is created when first needed); a call takes no more than a unit of the clock in
`Logins`; rewards, codes, tokens and sessions do not expire (after days or months) while calls overlap, nor do the keys
escrow calls carry (they are rows of `journals` and stay), while those of providers, which live for a day, do (`Expire`).
A command of Redis that fails was carried out or was not, at the server; a replica whose client could not connect at its
start stays without. Entries of `Ledger` are in the order of their insertion: entries whose `created_at` are the same
millisecond, or were stamped by clocks that differ, may be read in another order.

## 6. Plan

What could be added:

1. The release of the hold by the delivery controller, and of the fee that `confirmReceipt` and a decision leave locked,
   once the code does them; `CompletedMeansReleased` and `BooksBalance` should then be kept without their exceptions.
2. `Orders` composed with `Callbacks`, once the repository asks a provider for the payment of an order.

## 7. Running it

    tlc -workers 2 -config escrow_race.cfg MCEscrow
    tlapm EscrowProofs.tla

The module of each run is in `PROJECT.json`. The largest are `ledger` (1.8 million distinct states, half a minute),
`order_serialised` (1.4 million, a minute), `logins` (a million, a minute and a half) and `callbacks` (720,000);
`escrow_race` (300,000) takes two minutes because of its symmetry. The proofs take a few minutes a module.
