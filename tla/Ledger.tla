------------------------------- MODULE Ledger -------------------------------
(***************************************************************************)
(* The entries of the ledger: LedgerService.createJournal and the accounts *)
(* it is given (core/ledger/ledger.service.ts), inside the transactions of *)
(* EscrowService.  Escrow has the journals as balances of four accounts;   *)
(* here are the accounts' rows, the entries and the balance each entry     *)
(* says the account had.                                                   *)
(*                                                                         *)
(* Transactions are READ COMMITTED: a query sees what was committed before *)
(* it, and the transaction's own rows.  Each journal below is posted by a  *)
(* transaction of its own, and both have one name.  An account is named    *)
(* after the transaction that created it.                                  *)
(***************************************************************************)
EXTENDS Integers, Sequences, FiniteSets, Functions

CONSTANTS
    Owners,    \* wallets and platform keys
    Journals,
    Lines,     \* of each journal: its entries' owners and amounts, in order
    KeyOf,     \* the idempotency key of each
    Null       \* no account yet, no running balance yet

ASSUME LedgerAssumption ==
    /\ \A j \in Journals :
          /\ Lines[j] \in Seq([owner : Owners, amount : Int]) \ {<<>>}
          /\ \A k, l \in DOMAIN Lines[j] : Lines[j][k].owner = Lines[j][l].owner => k = l
    /\ Null \notin Journals \cup Int \cup (Owners \X Journals)
    /\ IsFiniteSet(Journals)

VARIABLES
    serial,    \* whether transactions are kept from overlapping, fixed from the start
    state,     \* where each transaction is
    next,      \* the line it is at
    account,   \* the account of each line
    running,   \* entries: running_balance_minor
    stamp,     \* entries: created_at
    overlaps   \* transactions each ran together with (nothing reads it)

vars == <<serial, state, next, account, running, stamp, overlaps>>

----------------------------------------------------------------------------
Inserted == {"balance", "commit", "committed"}

InFlight(j) == state[j] \in {"accounts", "check", "insert", "balance", "commit"}

Committed == {j \in Journals : state[j] = "committed"}

\* Transactions whose rows are there to stay.
Done == Committed \cup {j \in Journals : state[j] = "answered"}

\* Whose accounts and entries a query of j finds.
Visible(j) == Done \cup {j}

Lengths(j) == DOMAIN Lines[j]

Init ==
    /\ serial \in BOOLEAN
    /\ state = [j \in Journals |-> "idle"]
    /\ next = [j \in Journals |-> 1]
    /\ account = [j \in Journals |-> [k \in Lengths(j) |-> Null]]
    /\ running = [j \in Journals |-> [k \in Lengths(j) |-> Null]]
    /\ stamp = [j \in Journals |-> 0]
    /\ overlaps = [j \in Journals |-> {}]

Goto(j, s) == state' = [state EXCEPT ![j] = s]

\* On to the next line, or past the last one to the next part.
Advance(j, s) ==
    IF next[j] < Len(Lines[j])
    THEN next' = [next EXCEPT ![j] = @ + 1] /\ UNCHANGED state
    ELSE next' = [next EXCEPT ![j] = 1] /\ Goto(j, s)

\* Is transaction i's line k about the account a?
On(i, k, a) == state[i] \in Inserted /\ account[i][k] = a

----------------------------------------------------------------------------
Begin(j) ==
    LET others == {i \in Journals \ {j} : InFlight(i)} IN
    /\ state[j] = "idle"
    /\ serial => others = {}
    /\ Goto(j, "accounts")
    /\ overlaps' = [i \in Journals |->
                       IF i = j THEN others
                       ELSE IF i \in others THEN overlaps[i] \cup {j} ELSE overlaps[i]]
    /\ UNCHANGED <<serial, next, account, running, stamp>>

\* Accounts an owner has, as j sees them.
AccountsOf(o, j) ==
    {<<o, i>> : i \in {i \in Visible(j) : \E k \in Lengths(i) : account[i][k] = <<o, i>>}}

\* getOrCreateUserAccount and getOrCreatePlatformAccount: findFirst, in no
\* particular order, and a new row if there is none.
FindOrCreate(j) ==
    LET o == Lines[j][next[j]].owner  found == AccountsOf(o, j) IN
    /\ state[j] = "accounts"
    /\ \E a \in IF found = {} THEN {<<o, j>>} ELSE found :
          account' = [account EXCEPT ![j][next[j]] = a]
    /\ Advance(j, "check")
    /\ UNCHANGED <<serial, running, stamp, overlaps>>

\* A journal that was posted with the key is the answer, and the transaction
\* ends without entries of its own; its new accounts stay.
CheckKey(j) ==
    /\ state[j] = "check"
    /\ Goto(j, IF \E i \in Committed : KeyOf[i] = KeyOf[j] THEN "answered" ELSE "insert")
    /\ UNCHANGED <<serial, next, account, running, stamp, overlaps>>

KeyNotUnique(j) == TRUE

\* The unique index on ledger_journals.idempotency_key: an insert waits for a
\* transaction that has inserted the key, and fails once that has committed.
KeyFree(j) ==
    \A i \in Journals \ {j} : KeyOf[i] = KeyOf[j] => state[i] \notin Inserted

Insert(j) ==
    /\ state[j] = "insert"
    /\ KeyFree(j)
    /\ Goto(j, "balance")
    /\ stamp' = [stamp EXCEPT ![j] = Cardinality({i \in Journals : stamp[i] # 0}) + 1]
    /\ UNCHANGED <<serial, next, account, running, overlaps>>

\* What the entries of i, and what those of all of J, on an account add up to.
Posted(i, a) == SumFunction([k \in Lengths(i) |-> IF On(i, k, a) THEN Lines[i][k].amount ELSE 0])

Total(J, a) == SumFunctionOnSet([i \in J |-> Posted(i, a)], J)

EntriesBefore(j) ==
    Total({i \in Visible(j) : stamp[i] < stamp[j]}, account[j][next[j]])

\* Entries in the order of created_at, up to and with the entry itself.
EntriesUpTo(j) ==
    Total({i \in Visible(j) : stamp[i] <= stamp[j]}, account[j][next[j]])

\* One turn of the loop, for the entry of the next line.
UpdateRunningBalance(j) ==
    /\ state[j] = "balance"
    /\ running' = [running EXCEPT ![j][next[j]] = EntriesUpTo(j)]
    /\ Advance(j, "commit")
    /\ UNCHANGED <<serial, account, stamp, overlaps>>

Commit(j) ==
    /\ state[j] = "commit"
    /\ Goto(j, "committed")
    /\ UNCHANGED <<serial, next, account, running, stamp, overlaps>>

\* A failing query, or a check of the caller, rolls everything back.
Rollback(j) ==
    /\ InFlight(j)
    /\ Goto(j, "rolledBack")
    /\ account' = [account EXCEPT ![j] = [k \in Lengths(j) |-> Null]]
    /\ UNCHANGED <<serial, next, running, stamp, overlaps>>

CreateJournal(j) ==
    \/ Begin(j) \/ FindOrCreate(j) \/ CheckKey(j) \/ Insert(j)
    \/ UpdateRunningBalance(j) \/ Commit(j) \/ Rollback(j)

Next == \E j \in Journals : CreateJournal(j)

Spec == Init /\ [][Next]_vars

----------------------------------------------------------------------------
(* Properties *)

TypeOK ==
    /\ serial \in BOOLEAN
    /\ state \in [Journals -> {"idle", "accounts", "check", "insert", "balance", "commit",
                               "committed", "answered", "rolledBack"}]
    /\ stamp \in [Journals -> 0..Cardinality(Journals)]
    /\ overlaps \in [Journals -> SUBSET Journals]
    /\ \A j \in Journals :
          /\ next[j] \in Lengths(j)
          /\ \A k \in Lengths(j) :
                /\ account[j][k] \in (Owners \X Journals) \cup {Null}
                /\ running[j][k] \in Int \cup {Null}
                /\ state[j] \in Inserted => account[j][k] # Null
                /\ state[j] = "committed" => running[j][k] # Null

\* A key is posted once, even when the retry overlaps the first try: the check
\* before the insert misses it, and the unique index does not.
PostedOnce ==
    \A i, j \in Committed : KeyOf[i] = KeyOf[j] => i = j

Earlier(j, k) ==
    {i \in Committed : stamp[i] <= stamp[j] /\ \E l \in Lengths(i) : On(i, l, account[j][k])}

\* The balance an entry shows leaves out at most entries of transactions that ran
\* together with its own: whatever was posted before it began, it counts, and
\* nothing that was inserted later.  If transactions do not overlap, that is the sum
\* of the account's entries so far.
RunningBalancesRight ==
    \A j \in Committed : \A k \in Lengths(j) :
        \E missing \in SUBSET (Earlier(j, k) \cap overlaps[j]) :
            running[j][k] = Total(Earlier(j, k) \ missing, account[j][k])

\* If transactions do not overlap, an owner has one account, as the schema asks for
\* and no index of the database sees to.
OneAccountPerOwner ==
    serial => \A i, j \in Done : \A k \in Lengths(i), l \in Lengths(j) :
        Lines[i][k].owner = Lines[j][l].owner => account[i][k] = account[j][l]
=============================================================================
