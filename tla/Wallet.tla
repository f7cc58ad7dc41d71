------------------------------- MODULE Wallet -------------------------------
(***************************************************************************)
(* One row of the wallets table and the balance movements of               *)
(* WalletService (core/wallet/wallet.service.ts).  A movement is a pure    *)
(* function from a row to a row; the services decide in which step, and    *)
(* after which checks, it is applied.                                      *)
(*                                                                         *)
(* The columns are signed BIGINTs without CHECK constraint, so nothing in  *)
(* the database itself keeps them non-negative.                            *)
(***************************************************************************)
EXTENDS Integers, Functions

Row == [balance : Int, locked : Int, version : Nat]

\* The row createWallet inserts, topped up to the given opening balance.
Opened(b) == [balance |-> b, locked |-> 0, version |-> 0]

\* What the owner may still spend: balanceMinor - lockedMinor.
Available(w) == w.balance - w.locked

\* What the rows of a table of wallets hold, and have locked, together.
Held(W) == SumFunction([u \in DOMAIN W |-> W[u].balance])

LockedIn(W) == SumFunction([u \in DOMAIN W |-> W[u].locked])

\* An UPDATE of the row: each column is incremented or decremented in place.
Add(w, balance, locked, version) ==
    [balance |-> w.balance + balance, locked |-> w.locked + locked,
     version |-> w.version + version]

\* lockBalance: the checks made on the row just read ...
CanLock(w, amount) == amount > 0 /\ Available(w) >= amount

VersionIgnored(w, read) == TRUE

\* ... the WHERE clause of the update, which compares the version read ...
SameVersion(w, read) == w.version = read

LockBackwards(w, amount) == Add(w, 0, amount, -1)

\* ... and its SET clause.
LockBalance(w, amount) == Add(w, 0, amount, 1)

\* unlockBalance: the check on the row read, then an unconditional update.
CanUnlock(w, amount) == amount > 0 /\ w.locked >= amount

UnlockTakes(w, amount) == Add(w, -amount, -amount, 1)

UnlockBalance(w, amount) == Add(w, 0, -amount, 1)

TransferKeepsBalance(w, amount) == Add(w, 0, -amount, 1)

\* transferLockedBalance: its check is CanUnlock on the payer's row; then the
\* payer's row and the payee's row are updated, unconditionally.
TransferOut(w, amount) == Add(w, -amount, -amount, 1)

TransferIn(w, amount) == Add(w, amount, 0, 1)

TakeKeepsLock(w, amount) == Add(w, -amount, 0, 0)

\* A locked amount leaves the wallet without touching the version: the platform
\* fee of a release, and an approved or completed withdrawal.
TakeLocked(w, amount) == Add(w, -amount, -amount, 0)

DropLockTwice(w, amount) == Add(w, 0, -2 * amount, 0)

\* A locked amount is given back without touching the version: a withdrawal the
\* administrator rejects or the provider fails.
DropLock(w, amount) == Add(w, 0, -amount, 0)
=============================================================================
