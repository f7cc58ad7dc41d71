---------------------------- MODULE BankAccounts ----------------------------
(***************************************************************************)
(* The bank accounts of one member (core/bank), and the one a withdrawal   *)
(* adds when it names an account that is not listed                        *)
(* (WalletService.withdraw).                                               *)
(***************************************************************************)
EXTENDS Calls

CONSTANTS
    Names,        \* bank and last four digits: what duplicates are told by
    MaxAccounts   \* MAX_BANK_ACCOUNTS

ASSUME BankAccountsAssumption == MaxAccounts \in Nat \ {0} /\ Null \notin Names

\* Rows of bank_accounts.  live: deleted_at is null, and is_active set; listed:
\* the row was added by POST bank/accounts (nothing reads it).
VARIABLE accounts

AccountRow == [name : Names, live : BOOLEAN, isDefault : BOOLEAN, listed : BOOLEAN]

----------------------------------------------------------------------------
BankAccountsInit == accounts = <<>>

LiveAccounts == {i \in DOMAIN accounts : accounts[i].live}

Defaults == {i \in LiveAccounts : accounts[i].isDefault}

NewAccount(n, isDefault, listed) ==
    [name |-> n, live |-> TRUE, isDefault |-> isDefault, listed |-> listed]

\* POST bank/accounts: the list must have room and no account of that name ...
AddBankAccount(h, n) ==
    /\ Cardinality(LiveAccounts) < MaxAccounts
    /\ \A i \in LiveAccounts : accounts[i].name # n
    /\ Begin(h, "count", n, Null)
    /\ UNCHANGED accounts

\* ... then the accounts are counted, and the first becomes the default.
CountAccounts(h) ==
    /\ Proceed(h, "count", "create", LiveAccounts = {})
    /\ UNCHANGED accounts

CreateDefault(h) ==
    /\ End(h, "create")
    /\ accounts' = Append(accounts, NewAccount(call[h].on, TRUE, TRUE))

CreateAccount(h) ==
    /\ End(h, "create")
    /\ accounts' = Append(accounts, NewAccount(call[h].on, call[h].seen, TRUE))

\* POST wallet/withdraw with an account that is not found: it is added, whatever
\* the number of accounts.
WithdrawToNewAccount(h, n) ==
    /\ \A i \in LiveAccounts : accounts[i].name # n
    /\ Begin(h, "createUnlisted", n, Null)
    /\ UNCHANGED accounts

CreateUnlisted(h) ==
    /\ End(h, "createUnlisted")
    /\ accounts' = Append(accounts, NewAccount(call[h].on, FALSE, FALSE))

\* PATCH bank/accounts/:id/default: all accounts are reset, then one is set.
SetAsDefault(h, i) ==
    /\ i \in LiveAccounts
    /\ Begin(h, "unset", i, Null)
    /\ UNCHANGED accounts

UnsetDefaults(h) ==
    /\ Proceed(h, "unset", "set", Null)
    /\ accounts' = [i \in DOMAIN accounts |->
                       [accounts[i] EXCEPT !.isDefault = @ /\ i \notin LiveAccounts]]

SetDefault(h) ==
    /\ End(h, "set")
    /\ accounts' = [accounts EXCEPT ![call[h].on].isDefault = @ \/ call[h].on \in LiveAccounts]

\* DELETE bank/accounts/:id; is_default stays as it is.
DeleteBankAccount(h, i) ==
    /\ i \in LiveAccounts
    /\ Begin(h, "delete", i, Null)
    /\ UNCHANGED accounts

SoftDelete(h) ==
    /\ End(h, "delete")
    /\ accounts' = [accounts EXCEPT ![call[h].on].live = FALSE]

BankCall(h) ==
    \/ \E n \in Names : AddBankAccount(h, n) \/ WithdrawToNewAccount(h, n)
    \/ \E i \in DOMAIN accounts : SetAsDefault(h, i) \/ DeleteBankAccount(h, i)
    \/ CountAccounts(h) \/ CreateAccount(h) \/ CreateUnlisted(h)
    \/ UnsetDefaults(h) \/ SetDefault(h) \/ SoftDelete(h)

----------------------------------------------------------------------------
(* Properties *)

\* Even when calls are cut short, a member has no two default accounts, and none
\* twice, as long as calls do not overlap.  When they do, there is at most one
\* default for each of them.  The limit holds for the accounts added to the list, up
\* to calls that overlap: a withdrawal adds its own beyond it.
AccountsInOrder ==
    /\ Cardinality(Defaults) <= Passes
    /\ serial => \A i, j \in LiveAccounts : accounts[i].name = accounts[j].name => i = j
    /\ Cardinality({i \in LiveAccounts : accounts[i].listed}) <= MaxAccounts - 1 + Passes
=============================================================================
