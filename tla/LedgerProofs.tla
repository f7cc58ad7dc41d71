---------------------------- MODULE LedgerProofs ----------------------------
(***************************************************************************)
(* Theorems about Ledger, for any owners, journals and keys.               *)
(***************************************************************************)
EXTENDS Ledger, Lemmas

States == {"idle", "accounts", "check", "insert", "balance", "commit", "committed",
           "answered", "rolledBack"}

Accounts(j) == [Lengths(j) -> (Owners \X Journals) \cup {Null}]

\* The types these proofs need.
Typed ==
    /\ serial \in BOOLEAN
    /\ state \in [Journals -> States]
    /\ next = [j \in Journals |-> next[j]]
    /\ account = [j \in Journals |-> account[j]]
    /\ \A j \in Journals : next[j] \in Lengths(j) /\ account[j] \in Accounts(j)

LEMMA LinesAre ==
  ASSUME NEW j \in Journals
  PROVE  /\ Len(Lines[j]) \in Nat \ {0}
         /\ Lengths(j) = 1..Len(Lines[j])
         /\ \A k \in Lengths(j) : Lines[j][k].owner \in Owners /\ Lines[j][k].amount \in Int
         /\ Null \notin Owners \X Journals
  <1>1. Lines[j] \in Seq([owner : Owners, amount : Int]) /\ Lines[j] # <<>>
        /\ Null \notin Owners \X Journals
    BY LedgerAssumption DEF LedgerAssumption
  <1> DEFINE l == Lines[j]  Line == [owner : Owners, amount : Int]
  <1>2. l \in Seq(Line) /\ l # <<>>
    BY <1>1
  <1>3. \A x \in Line : x.owner \in Owners /\ x.amount \in Int
    OBVIOUS
  <1> HIDE DEF l, Line
  <1>4. Len(l) \in Nat \ {0} /\ DOMAIN l = 1..Len(l) /\ \A k \in DOMAIN l : l[k] \in Line
    BY <1>2
  <1> QED
    BY <1>1, <1>3, <1>4 DEF Lengths, l

LEMMA TypedInit == Init => Typed
  <1> SUFFICES ASSUME Init PROVE Typed
    OBVIOUS
  <1>1. ASSUME NEW j \in Journals
        PROVE  next[j] = 1 /\ account[j] = [k \in Lengths(j) |-> Null]
    <2>1. next = [i \in Journals |-> 1]
          /\ account = [i \in Journals |-> [k \in Lengths(i) |-> Null]]
      BY DEF Init
    <2> QED
      BY <2>1
  <1>2. ASSUME NEW j \in Journals PROVE next[j] \in Lengths(j) /\ account[j] \in Accounts(j)
    <2>1. 1 \in Lengths(j)
      BY LinesAre
    <2>2. [k \in Lengths(j) |-> Null] \in Accounts(j)
      BY DEF Accounts
    <2> QED
      BY <1>1, <2>1, <2>2
  <1>3. next = [j \in Journals |-> next[j]]
    BY DEF Init
  <1>4. account = [j \in Journals |-> account[j]]
    <2> DEFINE empty(j) == [k \in Lengths(j) |-> Null]
    <2>1. account = [j \in Journals |-> empty(j)]
      BY DEF Init
    <2> HIDE DEF empty
    <2> QED
      BY <2>1
  <1>5. serial \in BOOLEAN /\ state \in [Journals -> States]
    BY DEF Init, States
  <1> QED
    BY <1>2, <1>3, <1>4, <1>5 DEF Typed

\* A loop over the lines goes to the next one, or past the last.
LEMMA AdvanceGives ==
  ASSUME Typed, NEW j \in Journals, NEW s \in States, Advance(j, s)
  PROVE  /\ state' \in [Journals -> States]
         /\ next' = [i \in Journals |-> next'[i]]
         /\ \A i \in Journals : next'[i] \in Lengths(i)
         /\ \A i \in Journals : i # j => state'[i] = state[i] /\ next'[i] = next[i]
         /\ \/ state'[j] = state[j] /\ next'[j] = next[j] + 1
            \/ state'[j] = s /\ next[j] = Len(Lines[j]) /\ next'[j] = 1
  <1>1. next[j] \in 1..Len(Lines[j]) /\ Len(Lines[j]) \in Nat \ {0}
        /\ Lengths(j) = 1..Len(Lines[j])
    BY LinesAre DEF Typed
  <1>2. CASE next[j] < Len(Lines[j])
    BY <1>1, <1>2 DEF Advance, Typed
  <1>3. CASE ~ (next[j] < Len(Lines[j]))
    BY <1>1, <1>3 DEF Advance, Typed, Goto
  <1> QED
    BY <1>2, <1>3

LEMMA GotoGives ==
  ASSUME Typed, NEW j \in Journals, NEW s \in States, Goto(j, s)
  PROVE  /\ state' \in [Journals -> States]
         /\ state'[j] = s
         /\ \A i \in Journals : i # j => state'[i] = state[i]
  BY DEF Goto, Typed

\* The account a line is given is the owner's, and one j sees, or a new one.
LEMMA AccountGiven ==
  ASSUME Typed, NEW j \in Journals, FindOrCreate(j)
  PROVE  \E x \in Journals :
            LET o == Lines[j][next[j]].owner IN
            /\ account'[j] = [account[j] EXCEPT ![next[j]] = <<o, x>>]
            /\ \A i \in Journals : i # j => account'[i] = account[i]
            /\ account' = [i \in Journals |-> account'[i]]
            /\ \/ x = j /\ AccountsOf(o, j) = {}
               \/ /\ x \in Visible(j)
                  /\ \E k \in Lengths(x) : account[x][k] = <<o, x>>
  <1> DEFINE o == Lines[j][next[j]].owner
  <1>1. PICK a \in IF AccountsOf(o, j) = {} THEN {<<o, j>>} ELSE AccountsOf(o, j) :
             account' = [account EXCEPT ![j][next[j]] = a]
    BY DEF FindOrCreate
  <1>2. Visible(j) \subseteq Journals
    BY DEF Visible, Done, Committed
  <1>3. PICK x \in Journals : /\ a = <<o, x>>
                              /\ \/ x = j /\ AccountsOf(o, j) = {}
                                 \/ /\ x \in Visible(j)
                                    /\ \E k \in Lengths(x) : account[x][k] = <<o, x>>
    BY <1>1, <1>2 DEF AccountsOf
  <1> HIDE DEF o
  <1>4. /\ account'[j] = [account[j] EXCEPT ![next[j]] = <<o, x>>]
        /\ \A i \in Journals : i # j => account'[i] = account[i]
        /\ account' = [i \in Journals |-> account'[i]]
    BY <1>1, <1>3 DEF Typed
  <1> QED
    BY <1>3, <1>4 DEF o

LEMMA TypedStep == Typed /\ [Next]_vars => Typed'
  <1> SUFFICES ASSUME Typed, [Next]_vars PROVE Typed'
    OBVIOUS
  <1>1. ASSUME NEW j \in Journals, Begin(j) \/ CheckKey(j) \/ Insert(j) \/ Commit(j)
        PROVE  Typed'
    <2>1. UNCHANGED <<serial, next, account>>
      BY <1>1 DEF Begin, CheckKey, Insert, Commit
    <2>2. \E s \in States : Goto(j, s)
      BY <1>1 DEF Begin, CheckKey, Insert, Commit, States
    <2> QED
      BY <2>1, <2>2, GotoGives DEF Typed, Accounts
  <1>2. ASSUME NEW j \in Journals, FindOrCreate(j) PROVE Typed'
    <2>1. /\ state' \in [Journals -> States]
          /\ next' = [i \in Journals |-> next'[i]]
          /\ \A i \in Journals : next'[i] \in Lengths(i)
          /\ serial' = serial
      BY <1>2, AdvanceGives DEF FindOrCreate, States
    <2>2. PICK x \in Journals :
            /\ account'[j] = [account[j] EXCEPT ![next[j]] = <<Lines[j][next[j]].owner, x>>]
            /\ \A i \in Journals : i # j => account'[i] = account[i]
            /\ account' = [i \in Journals |-> account'[i]]
      BY <1>2, AccountGiven
    <2>3. next[j] \in Lengths(j) /\ Lines[j][next[j]].owner \in Owners
      BY LinesAre DEF Typed
    <2>4. \A i \in Journals : account'[i] \in Accounts(i)
      BY <2>2, <2>3 DEF Typed, Accounts
    <2> QED
      BY <2>1, <2>2, <2>4 DEF Typed, Accounts
  <1>3. ASSUME NEW j \in Journals, UpdateRunningBalance(j) PROVE Typed'
    <2>1. Advance(j, "commit") /\ UNCHANGED <<serial, account>>
      BY <1>3 DEF UpdateRunningBalance
    <2> QED
      BY <2>1, AdvanceGives DEF Typed, Accounts, States
  <1>4. ASSUME NEW j \in Journals, Rollback(j) PROVE Typed'
    <2>1. state' \in [Journals -> States] /\ UNCHANGED <<serial, next>>
      BY <1>4, GotoGives DEF Rollback, States
    <2>2. /\ account' = [i \in Journals |-> account'[i]]
          /\ \A i \in Journals : account'[i] \in Accounts(i)
      BY <1>4 DEF Rollback, Typed, Accounts
    <2> QED
      BY <2>1, <2>2 DEF Typed, Accounts
  <1>5. CASE UNCHANGED vars
    BY <1>5 DEF vars, Typed, Accounts
  <1> QED
    BY <1>1, <1>2, <1>3, <1>4, <1>5 DEF Next, CreateJournal

----------------------------------------------------------------------------
(* A key is posted once.                                                   *)

\* Of the transactions with one key, one at most has inserted its journal.
InsertedOnce ==
    \A i, j \in Journals :
        state[i] \in Inserted /\ state[j] \in Inserted /\ KeyOf[i] = KeyOf[j] => i = j

LEMMA InsertedOnceStep == Typed /\ InsertedOnce /\ [Next]_vars => InsertedOnce'
  <1> SUFFICES ASSUME Typed, InsertedOnce, [Next]_vars PROVE InsertedOnce'
    OBVIOUS
  <1>1. ASSUME NEW j \in Journals, Insert(j) PROVE InsertedOnce'
    <2>1. \A i \in Journals : i # j => state'[i] = state[i]
      BY <1>1, GotoGives DEF Insert, States
    <2>2. \A i \in Journals : i # j /\ KeyOf[i] = KeyOf[j] => state[i] \notin Inserted
      BY <1>1 DEF Insert, KeyFree
    <2> QED
      BY <2>1, <2>2 DEF InsertedOnce
  <1>2. ASSUME NEW j \in Journals, \/ Begin(j) \/ FindOrCreate(j) \/ CheckKey(j)
                                   \/ UpdateRunningBalance(j) \/ Commit(j) \/ Rollback(j)
        PROVE  InsertedOnce'
    <2>1. /\ \A i \in Journals : i # j => state'[i] = state[i]
          /\ state'[j] \in Inserted => state[j] \in Inserted
      <3>1. CASE Begin(j) \/ CheckKey(j) \/ Rollback(j)
        BY <3>1, GotoGives DEF Begin, CheckKey, Rollback, States, Inserted
      <3>2. CASE Commit(j)
        BY <3>2, GotoGives DEF Commit, States, Inserted
      <3>3. CASE FindOrCreate(j)
        BY <3>3, AdvanceGives DEF FindOrCreate, States, Inserted
      <3>4. CASE UpdateRunningBalance(j)
        BY <3>4, AdvanceGives DEF UpdateRunningBalance, States, Inserted
      <3> QED
        BY <1>2, <3>1, <3>2, <3>3, <3>4
    <2> QED
      BY <2>1 DEF InsertedOnce
  <1>3. CASE UNCHANGED vars
    BY <1>3 DEF vars, InsertedOnce
  <1> QED
    BY <1>1, <1>2, <1>3 DEF Next, CreateJournal

\* A key is posted once, however many transactions post it at the same time: what the
\* check misses, the unique index refuses.
THEOREM KeyPostedOnce == Spec => []PostedOnce
  <1>1. Init => InsertedOnce
    BY DEF Init, InsertedOnce, Inserted
  <1>2. Spec => [](Typed /\ InsertedOnce)
    BY <1>1, TypedInit, TypedStep, InsertedOnceStep, PTL DEF Spec
  <1>3. InsertedOnce => PostedOnce
    BY DEF InsertedOnce, PostedOnce, Committed, Inserted
  <1> QED
    BY <1>2, <1>3, PTL

----------------------------------------------------------------------------
(* An owner has one account.                                               *)

\* If transactions do not overlap, one is in flight at a time.
Alone == serial => \A i, j \in Journals : InFlight(i) /\ InFlight(j) => i = j

\* A transaction that has not begun, or was rolled back, has left no account; one
\* past its accounts has one for each line.
Filled ==
    \A j \in Journals :
        /\ state[j] \in {"idle", "rolledBack"} =>
               \A k \in Lengths(j) : account[j][k] = Null
        /\ state[j] = "idle" => next[j] = 1
        /\ state[j] = "accounts" =>
               \A k \in Lengths(j) : account[j][k] # Null <=> k < next[j]
        /\ state[j] \in {"check", "insert", "balance", "commit", "committed", "answered"} =>
               \A k \in Lengths(j) : account[j][k] # Null

\* A line's account is its owner's, and was created by the line's own transaction
\* or by one that is done.
Rooted ==
    \A j \in Journals : \A k \in Lengths(j) : account[j][k] # Null =>
        /\ account[j][k][1] = Lines[j][k].owner
        /\ account[j][k][2] \in Done \cup {j}
        /\ \E l \in Lengths(account[j][k][2]) : account[account[j][k][2]][l] = account[j][k]

\* If transactions do not overlap, lines with one owner have one account.
Single ==
    serial => \A i, j \in Journals : \A k \in Lengths(i), l \in Lengths(j) :
        /\ account[i][k] # Null /\ account[j][l] # Null
        /\ Lines[i][k].owner = Lines[j][l].owner
        => account[i][k] = account[j][l]

Owned == Alone /\ Filled /\ Rooted /\ Single

LEMMA OwnedInit == Init => Owned
  <1> SUFFICES ASSUME Init PROVE Owned
    OBVIOUS
  <1>1. \A j \in Journals : state[j] = "idle"
    BY DEF Init
  <1>2. ASSUME NEW j \in Journals PROVE \A k \in Lengths(j) : account[j][k] = Null
    <2>1. account = [i \in Journals |-> [k \in Lengths(i) |-> Null]]
      BY DEF Init
    <2> QED
      BY <2>1
  <1>3. Alone
    BY <1>1 DEF Alone, InFlight
  <1>4. Filled
    <2>1. \A j \in Journals : next[j] = 1
      BY DEF Init
    <2> QED
      BY <1>1, <1>2, <2>1 DEF Filled
  <1>5. Rooted /\ Single
    BY <1>2 DEF Rooted, Single
  <1> QED
    BY <1>3, <1>4, <1>5 DEF Owned

\* A step past the accounts keeps Owned.
LEMMA OwnedKept ==
  ASSUME Typed, Owned, NEW j \in Journals, UNCHANGED <<serial, account>>,
         \A i \in Journals : i # j => state'[i] = state[i] /\ next'[i] = next[i],
         state[j] \in {"check", "insert", "balance", "commit"},
         state'[j] \in {"insert", "balance", "commit", "committed", "answered"}
  PROVE  Owned'
  <1>1. Alone'
    BY DEF Owned, Alone, InFlight
  <1>2. Filled'
    <2>1. ASSUME NEW i \in Journals, i # j
          PROVE  state'[i] = state[i] /\ next'[i] = next[i] /\ account'[i] = account[i]
      BY <2>1
    <2>2. \A k \in Lengths(j) : account'[j][k] # Null
      BY DEF Owned, Filled
    <2> QED
      BY <2>1, <2>2 DEF Owned, Filled
  <1>3. Done \subseteq Done'
    BY DEF Done, Committed
  <1>4. Rooted'
    BY <1>3 DEF Owned, Rooted
  <1>5. Single'
    BY DEF Owned, Single
  <1> QED
    BY <1>1, <1>2, <1>4, <1>5 DEF Owned

LEMMA OwnedStep == Typed /\ Owned /\ [Next]_vars => Owned'
  <1> SUFFICES ASSUME Typed, Owned, [Next]_vars PROVE Owned'
    OBVIOUS
  <1>1. ASSUME NEW j \in Journals, Begin(j) PROVE Owned'
    <2>1. /\ state[j] = "idle" /\ state'[j] = "accounts"
          /\ \A i \in Journals : i # j => state'[i] = state[i]
          /\ UNCHANGED <<serial, next, account>>
      BY <1>1, GotoGives DEF Begin, States
    <2>2. serial => \A i \in Journals : ~ InFlight(i)
      BY <1>1, <2>1 DEF Begin, InFlight
    <2>3. Alone'
      BY <2>1, <2>2 DEF Alone, InFlight
    <2>4. Filled'
      <3>1. \A i \in Journals :
               i # j => state'[i] = state[i] /\ next'[i] = next[i] /\ account'[i] = account[i]
        BY <2>1
      <3>2. \A k \in Lengths(j) : account'[j][k] = Null /\ ~ (k < next'[j])
        <4>1. next'[j] = 1 /\ \A k \in Lengths(j) : account'[j][k] = Null
          BY <2>1 DEF Owned, Filled
        <4>2. \A k \in Lengths(j) : ~ (k < 1)
          BY LinesAre
        <4> QED
          BY <4>1, <4>2
      <3> QED
        BY <2>1, <3>1, <3>2 DEF Owned, Filled
    <2>5. Done' = Done
      BY <2>1 DEF Done, Committed
    <2>6. Rooted' /\ Single'
      BY <2>1, <2>5 DEF Owned, Rooted, Single
    <2> QED
      BY <2>3, <2>4, <2>6 DEF Owned
  <1>2. ASSUME NEW j \in Journals, FindOrCreate(j) PROVE Owned'
    <2> DEFINE n == next[j]  o == Lines[j][n].owner
    <2>1. /\ state[j] = "accounts" /\ serial' = serial
          /\ \A i \in Journals : i # j => state'[i] = state[i] /\ next'[i] = next[i]
          /\ \/ state'[j] = "accounts" /\ next'[j] = n + 1
             \/ state'[j] = "check" /\ n = Len(Lines[j])
      BY <1>2, AdvanceGives DEF FindOrCreate, States
    <2>2. PICK x \in Journals :
            /\ account'[j] = [account[j] EXCEPT ![n] = <<o, x>>]
            /\ \A i \in Journals : i # j => account'[i] = account[i]
            /\ \/ x = j /\ AccountsOf(o, j) = {}
               \/ x \in Visible(j) /\ \E k \in Lengths(x) : account[x][k] = <<o, x>>
      BY <1>2, AccountGiven
    <2>3. n \in Lengths(j) /\ Lengths(j) = 1..Len(Lines[j]) /\ o \in Owners
          /\ Null \notin Owners \X Journals
      BY LinesAre DEF Typed
    <2>4. /\ account'[j][n] = <<o, x>> /\ account'[j][n] # Null
          /\ \A k \in Lengths(j) : k # n => account'[j][k] = account[j][k]
      BY <2>2, <2>3 DEF Typed, Accounts
    <2>5. Done' = Done /\ j \notin Done
      BY <2>1 DEF Done, Committed
    <2>6. Alone'
      BY <2>1 DEF Owned, Alone, InFlight
    <2>7. Filled'
      <3> HIDE DEF n, o
      <3>1. \A k \in Lengths(j) : account[j][k] # Null <=> k < n
        BY <2>1 DEF Owned, Filled, n
      <3>2. \A k \in Lengths(j) : account'[j][k] # Null <=> k < n + 1
        <4>1. n \in Int /\ \A k \in Lengths(j) : k \in Int
          BY <2>3, LinesAre
        <4>2. \A k \in Lengths(j) : k < n + 1 <=> k < n \/ k = n
          BY <4>1
        <4>3. \A k \in Lengths(j) : account'[j][k] # Null <=> account[j][k] # Null \/ k = n
          BY <2>4
        <4> QED
          BY <3>1, <4>2, <4>3
      <3>3. n = Len(Lines[j]) => \A k \in Lengths(j) : account'[j][k] # Null
        BY <2>3, <3>2
      <3>4. \A i \in Journals :
               i # j => state'[i] = state[i] /\ next'[i] = next[i] /\ account'[i] = account[i]
        BY <2>1, <2>2
      <3> QED
        BY <2>1, <3>2, <3>3, <3>4 DEF Owned, Filled
    <2> HIDE DEF n, o
    <2>8. \E l \in Lengths(x) : account'[x][l] = <<o, x>>
      <3>1. CASE x = j
        BY <2>3, <2>4, <3>1
      <3>2. CASE x # j
        BY <2>2, <3>2
      <3> QED
        BY <3>1, <3>2
    <2>9. x \in Done \cup {j}
      BY <2>2 DEF Visible
    <2>10. Rooted'
      <3> SUFFICES ASSUME NEW i \in Journals, NEW k \in Lengths(i), account'[i][k] # Null
                   PROVE  /\ account'[i][k][1] = Lines[i][k].owner
                          /\ account'[i][k][2] \in Done \cup {i}
                          /\ \E l \in Lengths(account'[i][k][2]) :
                                account'[account'[i][k][2]][l] = account'[i][k]
        BY <2>5 DEF Rooted
      <3>1. CASE i = j /\ k = n
        BY <2>4, <2>8, <2>9, <3>1 DEF o
      <3>2. CASE i # j \/ k # n
        <4> DEFINE a == account[i][k]
        <4>1. account'[i][k] = a
          BY <2>2, <2>4, <3>2
        <4>2. /\ a[1] = Lines[i][k].owner /\ a[2] \in Done \cup {i}
              /\ \E l \in Lengths(a[2]) : account[a[2]][l] = a
          BY <4>1 DEF Owned, Rooted
        <4> HIDE DEF a
        <4>3. PICK l \in Lengths(a[2]) : account[a[2]][l] = a
          BY <4>2
        <4>4. account[j][n] = Null
          BY <2>1, <2>3 DEF Owned, Filled, n
        <4>5. account'[a[2]][l] = a
          <5>1. CASE a[2] = j
            <6>1. l # n
              BY <4>1, <4>3, <4>4, <5>1
            <6> QED
              BY <2>4, <4>3, <5>1, <6>1
          <5>2. CASE a[2] # j
            <6>1. a[2] \in Journals
              BY <4>2 DEF Done, Committed
            <6> QED
              BY <2>2, <4>3, <5>2, <6>1
          <5> QED
            BY <5>1, <5>2
        <4> QED
          BY <4>1, <4>2, <4>5
      <3> QED
        BY <3>1, <3>2
    <2>11. ASSUME serial, NEW i \in Journals, NEW k \in Lengths(i), i # j \/ k # n,
                  account[i][k] # Null, Lines[i][k].owner = o
           PROVE  account[i][k] = <<o, x>>
      <3> DEFINE a == account[i][k]
      <3>1. /\ a[1] = o /\ a[2] \in Done \cup {i}
            /\ \E l \in Lengths(a[2]) : account[a[2]][l] = a
        BY <2>11 DEF Owned, Rooted
      <3>2. a \in Owners \X Journals
        BY <2>11 DEF Typed, Accounts
      <3>3. i \in Done \cup {j}
        <4>1. ~ InFlight(i) \/ i = j
          BY <2>1, <2>11 DEF Owned, Alone, InFlight
        <4>2. state[i] \notin {"idle", "rolledBack"}
          BY <2>11 DEF Owned, Filled
        <4> QED
          BY <4>1, <4>2 DEF Done, Committed, InFlight, Typed, States
      <3>4. a = <<o, a[2]>>
        BY <3>1, <3>2
      <3> HIDE DEF a
      <3>5. a[2] \in Visible(j)
        BY <3>1, <3>3 DEF Visible
      <3>6. a \in AccountsOf(o, j)
        BY <3>1, <3>4, <3>5 DEF AccountsOf
      <3>7. PICK l \in Lengths(x) : x \in Journals /\ account[x][l] = <<o, x>>
        BY <2>2, <3>6
      <3>8. account[x][l] # Null
        BY <2>3, <3>7
      <3>9. Lines[x][l].owner = o
        <4>1. account[x][l][1] = Lines[x][l].owner
          BY <3>7, <3>8 DEF Owned, Rooted
        <4> QED
          BY <3>7, <4>1
      <3>10. account[i][k] = account[x][l]
        <4>1. Lines[i][k].owner = Lines[x][l].owner
          BY <2>11, <3>9
        <4>2. serial /\ i \in Journals /\ k \in Lengths(i) /\ account[i][k] # Null
          BY <2>11
        <4>3. Single
          BY DEF Owned
        <4> QED
          BY <3>7, <3>8, <4>1, <4>2, <4>3 DEF Single
      <3> QED
        BY <3>7, <3>10
    <2>12. Single'
      <3> SUFFICES ASSUME serial, NEW i \in Journals, NEW k \in Lengths(i),
                          NEW g \in Journals, NEW l \in Lengths(g),
                          account'[i][k] # Null, account'[g][l] # Null,
                          Lines[i][k].owner = Lines[g][l].owner
                   PROVE  account'[i][k] = account'[g][l]
        BY <2>1 DEF Single
      <3>1. CASE i = j /\ k = n /\ g = j /\ l = n
        BY <3>1
      <3>2. CASE i = j /\ k = n /\ (g # j \/ l # n)
        <4>1. account'[g][l] = account[g][l]
          BY <2>2, <2>4, <3>2
        <4> QED
          BY <2>4, <2>11, <3>2, <4>1 DEF o
      <3>3. CASE g = j /\ l = n /\ (i # j \/ k # n)
        <4>1. account'[i][k] = account[i][k]
          BY <2>2, <2>4, <3>3
        <4> QED
          BY <2>4, <2>11, <3>3, <4>1 DEF o
      <3>4. CASE (i # j \/ k # n) /\ (g # j \/ l # n)
        <4>1. account'[g][l] = account[g][l] /\ account'[i][k] = account[i][k]
          BY <2>2, <2>4, <3>4
        <4> QED
          BY <4>1 DEF Owned, Single
      <3> QED
        BY <3>1, <3>2, <3>3, <3>4
    <2> QED
      BY <2>6, <2>7, <2>10, <2>12 DEF Owned
  <1>3. ASSUME NEW j \in Journals, CheckKey(j) \/ Insert(j) \/ Commit(j) PROVE Owned'
    <2>1. /\ state[j] \in {"check", "insert", "commit"}
          /\ state'[j] \in {"answered", "insert", "balance", "committed"}
          /\ \A i \in Journals : i # j => state'[i] = state[i]
          /\ UNCHANGED <<serial, next, account>>
      BY <1>3, GotoGives DEF CheckKey, Insert, Commit, States
    <2> QED
      BY <2>1, OwnedKept DEF InFlight, Done, Committed
  <1>4. ASSUME NEW j \in Journals, UpdateRunningBalance(j) PROVE Owned'
    <2>1. /\ state[j] = "balance" /\ state'[j] \in {"balance", "commit"}
          /\ \A i \in Journals : i # j => state'[i] = state[i] /\ next'[i] = next[i]
          /\ UNCHANGED <<serial, account>>
      BY <1>4, AdvanceGives DEF UpdateRunningBalance, States
    <2> QED
      BY <2>1, OwnedKept DEF InFlight, Done, Committed
  <1>5. ASSUME NEW j \in Journals, Rollback(j) PROVE Owned'
    <2>1. /\ InFlight(j) /\ state'[j] = "rolledBack"
          /\ \A i \in Journals : i # j => state'[i] = state[i] /\ account'[i] = account[i]
          /\ \A k \in Lengths(j) : account'[j][k] = Null
          /\ UNCHANGED <<serial, next>>
      BY <1>5, GotoGives DEF Rollback, States, Typed
    <2>2. Done' = Done /\ j \notin Done
      BY <2>1 DEF Done, Committed, InFlight
    <2>3. Alone'
      BY <2>1 DEF Owned, Alone, InFlight
    <2>4. Filled'
      <3>1. \A i \in Journals :
               i # j => state'[i] = state[i] /\ next'[i] = next[i] /\ account'[i] = account[i]
        BY <2>1
      <3> QED
        BY <2>1, <3>1 DEF Owned, Filled
    <2>5. Rooted'
      <3> SUFFICES ASSUME NEW i \in Journals, i # j, NEW k \in Lengths(i), account[i][k] # Null
                   PROVE  /\ account[i][k][1] = Lines[i][k].owner
                          /\ account[i][k][2] \in Done \cup {i}
                          /\ \E l \in Lengths(account[i][k][2]) :
                                account'[account[i][k][2]][l] = account[i][k]
        BY <2>1, <2>2 DEF Rooted
      <3> DEFINE x == account[i][k][2]
      <3>1. /\ account[i][k][1] = Lines[i][k].owner /\ x \in Done \cup {i}
            /\ \E l \in Lengths(x) : account[x][l] = account[i][k]
        BY DEF Owned, Rooted
      <3>2. x \in Journals /\ x # j
        BY <2>2, <3>1 DEF Done, Committed
      <3>3. account'[x] = account[x]
        BY <2>1, <3>2
      <3> HIDE DEF x
      <3>4. \E l \in Lengths(x) : account'[x][l] = account[i][k]
        BY <3>1, <3>3
      <3> QED
        BY <3>1, <3>4 DEF x
    <2>6. Single'
      BY <2>1 DEF Owned, Single
    <2> QED
      BY <2>3, <2>4, <2>5, <2>6 DEF Owned
  <1>6. CASE UNCHANGED vars
    <2>1. Done' = Done
      BY <1>6 DEF vars, Done, Committed
    <2> QED
      BY <1>6, <2>1 DEF vars, Owned, Alone, Filled, Rooted, Single, InFlight
  <1> QED
    BY <1>1, <1>2, <1>3, <1>4, <1>5, <1>6 DEF Next, CreateJournal

\* If transactions do not overlap, an owner has one account, whatever journals are
\* posted, repeated or rolled back.
THEOREM OwnersHaveOneAccount == Spec => []OneAccountPerOwner
  <1>1. Spec => [](Typed /\ Owned)
    BY TypedInit, TypedStep, OwnedInit, OwnedStep, PTL DEF Spec
  <1>2. Owned => OneAccountPerOwner
    <2> SUFFICES ASSUME Owned, serial, NEW i \in Done, NEW j \in Done,
                        NEW k \in Lengths(i), NEW l \in Lengths(j),
                        Lines[i][k].owner = Lines[j][l].owner
                 PROVE  account[i][k] = account[j][l]
      BY DEF OneAccountPerOwner
    <2>1. /\ i \in Journals /\ state[i] \in {"committed", "answered"}
          /\ j \in Journals /\ state[j] \in {"committed", "answered"}
      BY DEF Done, Committed
    <2>2. account[i][k] # Null /\ account[j][l] # Null
      BY <2>1 DEF Owned, Filled
    <2> QED
      BY <2>1, <2>2 DEF Owned, Single
  <1> QED
    BY <1>1, <1>2, PTL

----------------------------------------------------------------------------
(* What the entries of an account add up to                                *)

LEMMA PostedType ==
  ASSUME NEW i \in Journals, NEW a
  PROVE  /\ Posted(i, a) \in Int
         /\ (\A k \in Lengths(i) : ~ On(i, k, a)) => Posted(i, a) = 0
  <1> DEFINE f == [k \in Lengths(i) |-> IF On(i, k, a) THEN Lines[i][k].amount ELSE 0]
  <1>1. Posted(i, a) = SumFunctionOnSet(f, Lengths(i))
    BY DEF Posted, SumFunction
  <1>2. IsFiniteSet(Lengths(i))
    BY LinesAre, FS_Interval
  <1>3. Ints(f, Lengths(i))
    BY LinesAre DEF Ints
  <1>4. (\A k \in Lengths(i) : ~ On(i, k, a)) => \A k \in Lengths(i) : f[k] = 0
    OBVIOUS
  <1> HIDE DEF f
  <1> QED
    BY <1>1, <1>2, <1>3, <1>4, SumType, SumZero

\* Journals that have nothing on the account do not count.
LEMMA TotalOfPart ==
  ASSUME NEW S \in SUBSET Journals, NEW U \in SUBSET S, NEW a,
         \A i \in S \ U : \A k \in Lengths(i) : ~ On(i, k, a)
  PROVE  Total(U, a) = Total(S, a)
  <1> DEFINE post(i) == Posted(i, a)
             f == [i \in Journals |-> post(i)]
             g == [i \in S |-> IF i \in U THEN f[i] ELSE 0]
  <1>1. IsFiniteSet(S) /\ IsFiniteSet(U)
    BY LedgerAssumption, FS_Subset DEF LedgerAssumption
  <1>2. \A i \in Journals : post(i) \in Int
    BY PostedType
  <1>3. \A i \in S \ U : post(i) = 0
    BY PostedType
  <1>4. Total(S, a) = SumFunctionOnSet([i \in S |-> post(i)], S)
        /\ Total(U, a) = SumFunctionOnSet([i \in U |-> post(i)], U)
    BY DEF Total
  <1> HIDE DEF post
  <1>5. Ints(f, S)
    BY <1>2 DEF Ints
  <1>6. \A i \in S : g[i] = [x \in S |-> post(x)][i]
    BY <1>3
  <1>7. \A i \in U : f[i] = [x \in U |-> post(x)][i]
    OBVIOUS
  <1>8. SumFunctionOnSet(f, U) = SumFunctionOnSet(g, S)
    BY <1>1, <1>5, SumWhere
  <1> HIDE DEF f, g
  <1>9. SumFunctionOnSet(g, S) = SumFunctionOnSet([x \in S |-> post(x)], S)
    BY <1>1, <1>6, SumSame
  <1>10. SumFunctionOnSet(f, U) = SumFunctionOnSet([x \in U |-> post(x)], U)
    BY <1>1, <1>7, SumSame
  <1> QED
    BY <1>4, <1>8, <1>9, <1>10

\* Journals whose entries are as they were add up to what they did.
LEMMA TotalKept ==
  ASSUME NEW S, NEW a,
         \A i \in S : account'[i] = account[i] /\ (state'[i] \in Inserted <=> state[i] \in Inserted)
  PROVE  Total(S, a)' = Total(S, a)
  <1>1. ASSUME NEW i \in S PROVE Posted(i, a)' = Posted(i, a)
    <2> DEFINE one(k) == IF On(i, k, a) THEN Lines[i][k].amount ELSE 0
               two(k) == IF On(i, k, a)' THEN Lines[i][k].amount ELSE 0
    <2>1. \A k \in Lengths(i) : one(k) = two(k)
      BY <1>1 DEF On, Inserted
    <2>2. Posted(i, a) = SumFunction([k \in Lengths(i) |-> one(k)])
          /\ Posted(i, a)' = SumFunction([k \in Lengths(i) |-> two(k)])
      BY DEF Posted
    <2> HIDE DEF one, two
    <2>3. [k \in Lengths(i) |-> one(k)] = [k \in Lengths(i) |-> two(k)]
      BY <2>1
    <2> QED
      BY <2>2, <2>3
  <1> DEFINE one(i) == Posted(i, a)
             two(i) == Posted(i, a)'
  <1>2. Total(S, a) = SumFunctionOnSet([i \in S |-> one(i)], S)
        /\ Total(S, a)' = SumFunctionOnSet([i \in S |-> two(i)], S)
    BY DEF Total
  <1>3. \A i \in S : one(i) = two(i)
    BY <1>1
  <1> HIDE DEF one, two
  <1>4. [i \in S |-> one(i)] = [i \in S |-> two(i)]
    BY <1>3
  <1> QED
    BY <1>2, <1>4

----------------------------------------------------------------------------
(* What an entry's running balance has counted.                            *)

StampedJournals == {i \in Journals : stamp[i] # 0}

\* A journal is stamped when its row is inserted, later than all before it.
Stamped ==
    /\ stamp = [j \in Journals |-> stamp[j]]
    /\ \A j \in Journals :
          /\ stamp[j] \in 0..Cardinality(StampedJournals)
          /\ state[j] \in Inserted => stamp[j] # 0
          /\ state[j] \in {"idle", "accounts", "check", "insert"} => stamp[j] = 0
          /\ state[j] \in {"check", "insert"} => next[j] = 1

\* Transactions in flight together have met.
Met == \A i, j \in Journals : i # j /\ InFlight(i) /\ InFlight(j) => i \in overlaps[j]

\* The running balance of j's line k has been stored.
Looped(j, k) ==
    \/ state[j] \in {"commit", "committed"}
    \/ state[j] = "balance" /\ k < next[j]

\* Counting S, j counts what was done when it asked, and itself; what it leaves out of
\* the journals up to its own had met it.
Counts(j, S) ==
    /\ j \in S /\ S \subseteq Done \cup {j}
    /\ \A i \in S : stamp[i] <= stamp[j]
    /\ \A i \in Journals \ S : state[i] \in Inserted /\ stamp[i] <= stamp[j] => i \in overlaps[j]

Summed ==
    /\ running = [j \in Journals |-> running[j]]
    /\ \A j \in Journals : running[j] = [k \in Lengths(j) |-> running[j][k]]
    /\ \A j \in Journals : \A k \in Lengths(j) : Looped(j, k) =>
          \A a \in {account[j][k]} :
             \E S \in SUBSET Journals : Counts(j, S) /\ running[j][k] = Total(S, a)

Balanced == Stamped /\ Met /\ Summed

LEMMA BalancedInit == Init => Balanced
  <1> SUFFICES ASSUME Init PROVE Balanced
    OBVIOUS
  <1>1. \A j \in Journals : state[j] = "idle" /\ stamp[j] = 0
    BY DEF Init
  <1>2. Stamped
    <2>1. IsFiniteSet(StampedJournals)
      BY LedgerAssumption, FS_Subset DEF LedgerAssumption, StampedJournals
    <2>2. Cardinality(StampedJournals) \in Nat
      BY <2>1, FS_CardinalityType
    <2>3. stamp = [j \in Journals |-> stamp[j]]
      BY DEF Init
    <2> QED
      BY <1>1, <2>2, <2>3 DEF Stamped, Inserted
  <1>3. Met
    BY <1>1 DEF Met, InFlight
  <1>4. Summed
    <2> DEFINE empty(j) == [k \in Lengths(j) |-> Null]
    <2>1. running = [j \in Journals |-> empty(j)]
      BY DEF Init
    <2>2. \A j \in Journals : empty(j) = [k \in Lengths(j) |-> empty(j)[k]]
      OBVIOUS
    <2> HIDE DEF empty
    <2>3. running = [j \in Journals |-> running[j]]
          /\ \A j \in Journals : running[j] = [k \in Lengths(j) |-> running[j][k]]
      BY <2>1, <2>2
    <2> QED
      BY <1>1, <2>3 DEF Summed, Looped
  <1> QED
    BY <1>2, <1>3, <1>4 DEF Balanced

\* A step of j that stamps nothing and stores no running balance.
LEMMA BalancedKept ==
  ASSUME Typed, Balanced, NEW j \in Journals, UNCHANGED <<running, stamp>>,
         \A i \in Journals : i # j => state'[i] = state[i] /\ next'[i] = next[i]
                                      /\ account'[i] = account[i],
         j \notin Done,
         state'[j] \in Inserted => state[j] \in Inserted /\ account'[j] = account[j],
         \A k \in Lengths(j) : Looped(j, k)' => Looped(j, k),
         state'[j] \in {"idle", "accounts", "check", "insert"} => stamp[j] = 0,
         state'[j] \in {"check", "insert"} => next'[j] = 1,
         \A i \in Journals : state'[i] \in Inserted => overlaps[i] \subseteq overlaps'[i],
         Met'
  PROVE  Balanced'
  <1>1. Stamped'
    BY DEF Balanced, Stamped, StampedJournals
  <1>2. Done \subseteq Done'
    BY DEF Done, Committed
  <1>3. Summed'
    <2>1. running' = [i \in Journals |-> running'[i]]
          /\ \A i \in Journals : running'[i] = [k \in Lengths(i) |-> running'[i][k]]
      BY DEF Balanced, Summed
    <2>2. ASSUME NEW i \in Journals, NEW k \in Lengths(i), Looped(i, k)',
                 NEW a \in {account'[i][k]}
          PROVE  \E S \in SUBSET Journals : Counts(i, S)' /\ running[i][k] = Total(S, a)'
      <3>1. account'[i] = account[i] /\ Looped(i, k)
        BY <2>2 DEF Looped, Inserted
      <3>2. PICK S \in SUBSET Journals : Counts(i, S) /\ running[i][k] = Total(S, a)
        BY <2>2, <3>1 DEF Balanced, Summed
      <3>3. \A g \in S : account'[g] = account[g]
                         /\ (state'[g] \in Inserted <=> state[g] \in Inserted)
        <4>1. i = j => state'[j] \in Inserted /\ state[j] \in Inserted
          BY <2>2, <3>1 DEF Looped, Inserted
        <4> QED
          BY <3>1, <3>2, <4>1 DEF Counts
      <3>4. Total(S, a)' = Total(S, a)
        BY <3>3, TotalKept
      <3>5. Counts(i, S)'
        <4>1. overlaps[i] \subseteq overlaps'[i]
          BY <2>2 DEF Looped, Inserted
        <4>2. \A g \in Journals : state'[g] \in Inserted => state[g] \in Inserted
          OBVIOUS
        <4>3. UNCHANGED stamp
          OBVIOUS
        <4> QED
          BY <1>2, <3>2, <4>1, <4>2, <4>3 DEF Counts
      <3> QED
        BY <3>2, <3>4, <3>5
    <2> QED
      BY <2>1, <2>2 DEF Summed
  <1> QED
    BY <1>1, <1>3 DEF Balanced

LEMMA MetKept ==
  ASSUME Balanced, NEW j \in Journals, UNCHANGED overlaps,
         \A i \in Journals : i # j => state'[i] = state[i],
         InFlight(j)' => InFlight(j)
  PROVE  Met'
  BY DEF Balanced, Met, InFlight

\* A new journal is stamped later than all there are.
LEMMA InsertBalanced ==
  ASSUME Typed, Balanced, NEW j \in Journals, Insert(j)
  PROVE  Balanced'
  <1>1. /\ state[j] = "insert" /\ state'[j] = "balance"
        /\ \A i \in Journals : i # j => state'[i] = state[i]
        /\ UNCHANGED <<next, account, running, overlaps>>
    BY GotoGives DEF Insert, States
  <1> DEFINE n == Cardinality(StampedJournals)
  <1>2. IsFiniteSet(StampedJournals) /\ n \in Nat
    <2>1. IsFiniteSet(StampedJournals)
      BY LedgerAssumption, FS_Subset DEF LedgerAssumption, StampedJournals
    <2> QED
      BY <2>1, FS_CardinalityType
  <1>3. stamp[j] = 0 /\ next[j] = 1 /\ stamp = [i \in Journals |-> stamp[i]]
        /\ \A i \in Journals : stamp[i] \in 0..n
    BY <1>1 DEF Balanced, Stamped
  <1>4. stamp' = [stamp EXCEPT ![j] = n + 1]
    BY DEF Insert, StampedJournals
  <1> HIDE DEF n
  <1>5. /\ stamp'[j] = n + 1 /\ stamp' = [i \in Journals |-> stamp'[i]]
        /\ \A i \in Journals : i # j => stamp'[i] = stamp[i]
    BY <1>3, <1>4
  <1>6. StampedJournals' = StampedJournals \cup {j} /\ j \notin StampedJournals
    BY <1>2, <1>3, <1>5 DEF StampedJournals
  <1>7. Cardinality(StampedJournals') = n + 1
    BY <1>2, <1>6, FS_AddElement DEF n
  <1>8. Stamped'
    <2>1. \A i \in Journals : stamp'[i] \in 0..(n + 1)
      BY <1>2, <1>3, <1>5
    <2>2. stamp'[j] # 0
      BY <1>2, <1>5
    <2> QED
      BY <1>1, <1>5, <1>7, <2>1, <2>2 DEF Balanced, Stamped, Inserted
  <1>9. Met'
    BY <1>1, MetKept DEF InFlight
  <1>10. Summed'
    <2>1. running' = [i \in Journals |-> running'[i]]
          /\ \A i \in Journals : running'[i] = [k \in Lengths(i) |-> running'[i][k]]
      BY <1>1 DEF Balanced, Summed
    <2>2. ASSUME NEW i \in Journals, NEW k \in Lengths(i), Looped(i, k)',
                 NEW a \in {account'[i][k]}
          PROVE  \E S \in SUBSET Journals : Counts(i, S)' /\ running'[i][k] = Total(S, a)'
      <3>1. i # j
        <4>1. ~ (k < 1)
          BY <2>2, LinesAre
        <4> QED
          BY <1>1, <1>3, <2>2, <4>1 DEF Looped
      <3>2. Looped(i, k) /\ a \in {account[i][k]}
        BY <1>1, <2>2, <3>1 DEF Looped
      <3>3. PICK S \in SUBSET Journals : Counts(i, S) /\ running[i][k] = Total(S, a)
        BY <3>2 DEF Balanced, Summed
      <3>4. j \notin S
        BY <1>1, <3>1, <3>3 DEF Counts, Done, Committed
      <3>5. Total(S, a)' = Total(S, a)
        <4>1. \A g \in S : account'[g] = account[g]
                           /\ (state'[g] \in Inserted <=> state[g] \in Inserted)
          BY <1>1, <3>4
        <4> QED
          BY <4>1, TotalKept
      <3>6. Counts(i, S)'
        <4>1. S \subseteq Done' \cup {i}
          BY <1>1, <3>3 DEF Counts, Done, Committed
        <4>2. \A g \in S : stamp'[g] <= stamp'[i]
          BY <1>5, <3>1, <3>3, <3>4 DEF Counts
        <4>3. ~ (stamp'[j] <= stamp'[i])
          <5>1. stamp'[i] \in 0..n
            BY <1>3, <1>5, <3>1
          <5> QED
            BY <1>2, <1>5, <5>1
        <4>4. ASSUME NEW g \in Journals \ S, state'[g] \in Inserted, stamp'[g] <= stamp'[i]
              PROVE  g \in overlaps'[i]
          <5>1. g # j
            BY <4>3, <4>4
          <5>2. state[g] \in Inserted /\ stamp[g] <= stamp[i]
            BY <1>1, <1>5, <3>1, <4>4, <5>1
          <5> QED
            BY <1>1, <3>3, <5>2 DEF Counts
        <4> QED
          BY <3>3, <4>1, <4>2, <4>4 DEF Counts
      <3> QED
        BY <1>1, <3>3, <3>5, <3>6
    <2> QED
      BY <2>1, <2>2 DEF Summed
  <1> QED
    BY <1>8, <1>9, <1>10 DEF Balanced

\* What a transaction sees of the journals up to its own leaves out only such as are
\* in flight, with it.
LEMMA VisibleCounts ==
  ASSUME Typed, Balanced, NEW j \in Journals, state[j] = "balance"
  PROVE  Counts(j, {i \in Visible(j) : stamp[i] <= stamp[j]})
  <1> DEFINE S == {i \in Visible(j) : stamp[i] <= stamp[j]}
  <1>1. stamp[j] \in Nat
    <2>1. stamp[j] \in 0..Cardinality(StampedJournals)
      BY DEF Balanced, Stamped
    <2> QED
      BY <2>1
  <1>2. j \in S
    BY <1>1 DEF Visible
  <1>3. S \subseteq Done \cup {j} /\ \A i \in S : stamp[i] <= stamp[j]
    BY DEF Visible
  <1>4. ASSUME NEW i \in Journals \ S, state[i] \in Inserted, stamp[i] <= stamp[j]
        PROVE  i \in overlaps[j]
    <2>1. i \notin Done /\ i # j
      BY <1>2, <1>4 DEF Visible
    <2>2. InFlight(i) /\ InFlight(j)
      BY <1>4, <2>1 DEF InFlight, Inserted, Done, Committed
    <2> QED
      BY <2>1, <2>2 DEF Balanced, Met
  <1> HIDE DEF S
  <1>5. Counts(j, S)
    BY <1>2, <1>3, <1>4 DEF Counts
  <1> QED
    BY <1>5 DEF S

LEMMA UpdateBalanced ==
  ASSUME Typed, Balanced, NEW j \in Journals, UpdateRunningBalance(j)
  PROVE  Balanced'
  <1> DEFINE n == next[j]  V == {i \in Visible(j) : stamp[i] <= stamp[j]}
  <1>1. /\ state[j] = "balance"
        /\ \A i \in Journals : i # j => state'[i] = state[i] /\ next'[i] = next[i]
        /\ (state'[j] = "balance" /\ next'[j] = n + 1) \/ (state'[j] = "commit" /\ n = Len(Lines[j]))
        /\ UNCHANGED <<account, stamp, overlaps>>
        /\ running' = [running EXCEPT ![j][n] = EntriesUpTo(j)]
    BY AdvanceGives DEF UpdateRunningBalance, States
  <1>2. n \in Lengths(j) /\ Lengths(j) = 1..Len(Lines[j]) /\ Len(Lines[j]) \in Nat
    BY LinesAre DEF Typed
  <1>3. /\ running = [i \in Journals |-> running[i]]
        /\ \A i \in Journals : running[i] = [k \in Lengths(i) |-> running[i][k]]
    BY DEF Balanced, Summed
  <1>4. /\ running' = [i \in Journals |-> running'[i]]
        /\ \A i \in Journals : running'[i] = [k \in Lengths(i) |-> running'[i][k]]
        /\ \A i \in Journals : i # j => running'[i] = running[i]
        /\ \A k \in Lengths(j) : k # n => running'[j][k] = running[j][k]
        /\ running'[j][n] = EntriesUpTo(j)
    <2> DEFINE e == EntriesUpTo(j)
    <2> HIDE DEF e, n
    <2>1. running' = [running EXCEPT ![j] = [running[j] EXCEPT ![n] = e]]
      BY <1>1 DEF e, n
    <2>2. running'[j] = [running[j] EXCEPT ![n] = e]
          /\ \A i \in Journals : i # j => running'[i] = running[i]
      BY <1>3, <2>1
    <2>3. /\ running'[j] = [k \in Lengths(j) |-> running'[j][k]]
          /\ \A k \in Lengths(j) : k # n => running'[j][k] = running[j][k]
          /\ running'[j][n] = e
      BY <1>2, <1>3, <2>2
    <2>4. running' = [i \in Journals |-> running'[i]]
      BY <1>3, <2>1
    <2>5. \A i \in Journals : running'[i] = [k \in Lengths(i) |-> running'[i][k]]
      BY <1>3, <2>2, <2>3
    <2> QED
      BY <2>2, <2>3, <2>4, <2>5 DEF e
  <1>5. Done' = Done /\ \A i \in Journals : state'[i] \in Inserted <=> state[i] \in Inserted
    BY <1>1 DEF Done, Committed, Inserted
  <1>6. Stamped'
    BY <1>1, <1>5 DEF Balanced, Stamped, StampedJournals
  <1>7. Met'
    BY <1>1, MetKept DEF InFlight
  <1>8. ASSUME NEW i \in Journals, NEW S \in SUBSET Journals, Counts(i, S) PROVE Counts(i, S)'
    BY <1>1, <1>5, <1>8 DEF Counts
  <1>9. ASSUME NEW S \in SUBSET Journals, NEW a PROVE Total(S, a)' = Total(S, a)
    <2>1. \A i \in S : account'[i] = account[i] /\ (state'[i] \in Inserted <=> state[i] \in Inserted)
      BY <1>1, <1>5
    <2> QED
      BY <2>1, TotalKept
  <1>10. ASSUME NEW i \in Journals, NEW k \in Lengths(i), Looped(i, k)',
                NEW a \in {account'[i][k]}
         PROVE  \E S \in SUBSET Journals : Counts(i, S)' /\ running'[i][k] = Total(S, a)'
    <2>1. CASE i = j /\ k = n
      <3>1. V \in SUBSET Journals
        BY DEF Visible, Done, Committed
      <3>2. Counts(j, V)
        BY <1>1, VisibleCounts
      <3>3. running'[j][n] = Total(V, a)
        BY <1>1, <1>4, <1>10, <2>1 DEF EntriesUpTo
      <3> HIDE DEF V, n
      <3> QED
        BY <1>8, <1>9, <2>1, <3>1, <3>2, <3>3
    <2>2. CASE i # j \/ k # n
      <3>1. Looped(i, k)
        <4>1. CASE i # j
          BY <1>1, <1>10, <4>1 DEF Looped
        <4>2. CASE i = j
          BY <1>1, <1>2, <1>10, <2>2, <4>2 DEF Looped
        <4> QED
          BY <4>1, <4>2
      <3>2. PICK S \in SUBSET Journals : Counts(i, S) /\ running[i][k] = Total(S, a)
        BY <1>1, <1>10, <3>1 DEF Balanced, Summed
      <3>3. running'[i][k] = running[i][k]
        BY <1>4, <2>2
      <3> QED
        BY <1>8, <1>9, <3>2, <3>3
    <2> QED
      BY <2>1, <2>2
  <1>11. Summed'
    BY <1>4, <1>10 DEF Summed
  <1> QED
    BY <1>6, <1>7, <1>11 DEF Balanced

LEMMA BalancedStep == Typed /\ Balanced /\ [Next]_vars => Balanced'
  <1> SUFFICES ASSUME Typed, Balanced, [Next]_vars PROVE Balanced'
    OBVIOUS
  <1>1. ASSUME NEW j \in Journals, Begin(j) PROVE Balanced'
    <2> DEFINE others == {i \in Journals \ {j} : InFlight(i)}
    <2>1. /\ state[j] = "idle" /\ state'[j] = "accounts"
          /\ \A i \in Journals : i # j => state'[i] = state[i]
          /\ UNCHANGED <<next, account, running, stamp>>
      BY <1>1, GotoGives DEF Begin, States
    <2>2. \A i \in Journals : overlaps'[i] = IF i = j THEN others
                                ELSE IF i \in others THEN overlaps[i] \cup {j} ELSE overlaps[i]
      BY <1>1 DEF Begin
    <2>3. Met'
      BY <2>1, <2>2 DEF Balanced, Met, InFlight
    <2>4. stamp[j] = 0
      BY <2>1 DEF Balanced, Stamped
    <2> QED
      BY <2>1, <2>2, <2>3, <2>4, BalancedKept DEF Done, Committed, Inserted, Looped
  <1>2. ASSUME NEW j \in Journals, FindOrCreate(j) PROVE Balanced'
    <2>1. /\ state[j] = "accounts"
          /\ \A i \in Journals : i # j => state'[i] = state[i] /\ next'[i] = next[i]
          /\ state'[j] = "accounts" \/ (state'[j] = "check" /\ next'[j] = 1)
          /\ UNCHANGED <<running, stamp, overlaps>>
      BY <1>2, AdvanceGives DEF FindOrCreate, States
    <2>2. \A i \in Journals : i # j => account'[i] = account[i]
      BY <1>2, AccountGiven
    <2>3. Met'
      BY <2>1, MetKept DEF InFlight
    <2>4. stamp[j] = 0
      BY <2>1 DEF Balanced, Stamped
    <2> QED
      BY <2>1, <2>2, <2>3, <2>4, BalancedKept DEF Done, Committed, Inserted, Looped
  <1>3. ASSUME NEW j \in Journals, CheckKey(j) PROVE Balanced'
    <2>1. /\ state[j] = "check" /\ state'[j] \in {"answered", "insert"}
          /\ \A i \in Journals : i # j => state'[i] = state[i]
          /\ UNCHANGED <<next, account, running, stamp, overlaps>>
      BY <1>3, GotoGives DEF CheckKey, States
    <2>2. Met'
      BY <2>1, MetKept DEF InFlight
    <2>3. stamp[j] = 0 /\ next[j] = 1
      BY <2>1 DEF Balanced, Stamped
    <2> QED
      BY <2>1, <2>2, <2>3, BalancedKept DEF Done, Committed, Inserted, Looped
  <1>4. ASSUME NEW j \in Journals, Commit(j) PROVE Balanced'
    <2>1. /\ state[j] = "commit" /\ state'[j] = "committed"
          /\ \A i \in Journals : i # j => state'[i] = state[i]
          /\ UNCHANGED <<next, account, running, stamp, overlaps>>
      BY <1>4, GotoGives DEF Commit, States
    <2>2. Met'
      BY <2>1, MetKept DEF InFlight
    <2> QED
      BY <2>1, <2>2, BalancedKept DEF Done, Committed, Inserted, Looped
  <1>5. ASSUME NEW j \in Journals, Rollback(j) PROVE Balanced'
    <2>1. /\ InFlight(j) /\ state'[j] = "rolledBack"
          /\ \A i \in Journals : i # j => state'[i] = state[i] /\ account'[i] = account[i]
          /\ UNCHANGED <<next, running, stamp, overlaps>>
      BY <1>5, GotoGives DEF Rollback, States, Typed
    <2>2. Met'
      BY <2>1, MetKept DEF InFlight
    <2> QED
      BY <2>1, <2>2, BalancedKept DEF Done, Committed, Inserted, Looped, InFlight
  <1>6. CASE UNCHANGED vars
    <2>1. Done' = Done /\ StampedJournals' = StampedJournals
      BY <1>6 DEF vars, Done, Committed, StampedJournals
    <2>2. Stamped' /\ Met'
      BY <1>6, <2>1 DEF vars, Balanced, Stamped, Met, InFlight
    <2>3. ASSUME NEW i \in Journals, NEW k \in Lengths(i), Looped(i, k)',
                 NEW a \in {account'[i][k]}
          PROVE  \E S \in SUBSET Journals : Counts(i, S)' /\ running'[i][k] = Total(S, a)'
      <3>1. PICK S \in SUBSET Journals : Counts(i, S) /\ running[i][k] = Total(S, a)
        BY <1>6, <2>3 DEF vars, Looped, Balanced, Summed
      <3>2. Total(S, a)' = Total(S, a)
        BY <1>6, TotalKept DEF vars
      <3> QED
        BY <1>6, <2>1, <3>1, <3>2 DEF vars, Counts
    <2>4. Summed'
      BY <1>6, <2>3 DEF vars, Balanced, Summed
    <2> QED
      BY <2>2, <2>4 DEF Balanced
  <1> QED
    BY <1>1, <1>2, <1>3, <1>4, <1>5, <1>6, InsertBalanced, UpdateBalanced DEF Next, CreateJournal

\* The balance an entry shows leaves out at most entries of transactions that ran
\* together with its own, however many there are: what was posted before it began is
\* counted, and nothing that was inserted later.
THEOREM RunningBalancesAreRight == Spec => []RunningBalancesRight
  <1>1. Spec => [](Typed /\ Balanced)
    BY TypedInit, TypedStep, BalancedInit, BalancedStep, PTL DEF Spec
  <1>2. Typed /\ Balanced => RunningBalancesRight
    <2> SUFFICES ASSUME Typed, Balanced, NEW j \in Committed, NEW k \in Lengths(j)
                 PROVE  \E missing \in SUBSET (Earlier(j, k) \cap overlaps[j]) :
                           running[j][k] = Total(Earlier(j, k) \ missing, account[j][k])
      BY DEF RunningBalancesRight
    <2> DEFINE a == account[j][k]  E == Earlier(j, k)
    <2>1. j \in Journals /\ Looped(j, k)
      BY DEF Committed, Looped
    <2>2. PICK S \in SUBSET Journals : Counts(j, S) /\ running[j][k] = Total(S, a)
      BY <2>1 DEF Balanced, Summed
    <2>3. E \subseteq Journals /\ S \subseteq Done
      BY <2>2 DEF Earlier, Committed, Counts, Done
    <2>4. E \ S \subseteq overlaps[j]
      BY <2>2, <2>3 DEF Earlier, Committed, Inserted, Counts
    <2>5. \A i \in S \ E : \A l \in Lengths(i) : ~ On(i, l, a)
      <3>1. \A i \in S : state[i] \in Inserted => i \in Committed
        BY <2>3 DEF Done, Committed, Inserted
      <3> QED
        BY <2>2, <3>1 DEF Earlier, On, Counts
    <2> DEFINE U == S \cap E  M == E \ S
    <2>6. U \in SUBSET S /\ E \ M = U /\ M \in SUBSET (E \cap overlaps[j])
      BY <2>4
    <2>7. \A i \in S \ U : \A l \in Lengths(i) : ~ On(i, l, a)
      BY <2>5
    <2> HIDE DEF E, U, M, a
    <2>8. Total(U, a) = Total(S, a)
      BY <2>6, <2>7, TotalOfPart
    <2>9. running[j][k] = Total(E \ M, a)
      BY <2>2, <2>6, <2>8
    <2> QED
      BY <2>6, <2>9 DEF E, a
  <1> QED
    BY <1>1, <1>2, PTL
----------------------------------------------------------------------------
(* The exact types.                                                        *)

LEMMA TotalType ==
  ASSUME NEW S \in SUBSET Journals, NEW a
  PROVE  Total(S, a) \in Int
  <1> DEFINE one(i) == Posted(i, a)
  <1>1. PICK f : f = [i \in S |-> one(i)]
    OBVIOUS
  <1>2. IsFiniteSet(S) /\ Ints(f, S)
    BY <1>1, PostedType, LedgerAssumption, FS_Subset DEF Ints
  <1>3. SumFunctionOnSet(f, S) \in Int
    BY <1>2, SumType
  <1> QED BY <1>1, <1>3 DEF Total

Written ==
    /\ overlaps \in [Journals -> SUBSET Journals]
    /\ \A j \in Journals : \A k \in Lengths(j) : running[j][k] \in Int \cup {Null}

LEMMA WrittenInit == Init => Written
  <1> SUFFICES ASSUME Init PROVE Written
    OBVIOUS
  <1> DEFINE empty(j) == [k \in Lengths(j) |-> Null]
  <1>1. running = [j \in Journals |-> empty(j)] /\ overlaps = [j \in Journals |-> {}]
    BY DEF Init
  <1>2. \A j \in Journals : \A k \in Lengths(j) : empty(j)[k] = Null
    OBVIOUS
  <1> HIDE DEF empty
  <1> QED BY <1>1, <1>2 DEF Written

LEMMA WrittenStep == Typed /\ Balanced /\ Written /\ [Next]_vars => Written'
  <1> SUFFICES ASSUME Typed, Balanced, Written, [Next]_vars PROVE Written'
    OBVIOUS
  <1>1. ASSUME NEW j \in Journals, Begin(j) PROVE Written'
    <2>1. running' = running
      BY <1>1 DEF Begin
    <2>2. PICK others \in SUBSET Journals :
             overlaps' = [i \in Journals |->
                             IF i = j THEN others
                             ELSE IF i \in others THEN overlaps[i] \cup {j} ELSE overlaps[i]]
      BY <1>1 DEF Begin
    <2>3. overlaps' \in [Journals -> SUBSET Journals]
      BY <2>2 DEF Written
    <2> QED BY <2>1, <2>3 DEF Written
  <1>2. ASSUME NEW j \in Journals, UpdateRunningBalance(j) PROVE Written'
    <2>1. PICK t : t = EntriesUpTo(j)
      OBVIOUS
    <2>2. t \in Int
      <3>1. {i \in Visible(j) : stamp[i] <= stamp[j]} \in SUBSET Journals
        BY DEF Visible, Done, Committed
      <3> QED BY <2>1, <3>1, TotalType DEF EntriesUpTo
    <2>3. running' = [running EXCEPT ![j][next[j]] = t] /\ overlaps' = overlaps
      BY <1>2, <2>1 DEF UpdateRunningBalance
    <2>4. ASSUME NEW i \in Journals, NEW k \in Lengths(i)
          PROVE  running'[i][k] \in Int \cup {Null}
      <3>1. /\ running = [l \in Journals |-> running[l]]
            /\ running[i] = [l \in Lengths(i) |-> running[i][l]]
            /\ running[i][k] \in Int \cup {Null}
        BY DEF Balanced, Summed, Written
      <3>2. CASE i # j
        BY <2>3, <3>1, <3>2
      <3>3. CASE i = j
        <4>1. running'[i] = [running[i] EXCEPT ![next[j]] = t]
          BY <2>3, <3>1, <3>3
        <4> QED BY <2>2, <3>1, <4>1
      <3> QED BY <3>2, <3>3
    <2> QED BY <2>3, <2>4 DEF Written
  <1>3. ASSUME NEW j \in Journals,
               FindOrCreate(j) \/ CheckKey(j) \/ Insert(j) \/ Commit(j) \/ Rollback(j)
        PROVE  Written'
    <2>1. UNCHANGED <<running, overlaps>>
      BY <1>3 DEF FindOrCreate, CheckKey, Insert, Commit, Rollback
    <2> QED BY <2>1 DEF Written
  <1>4. CASE UNCHANGED vars
    BY <1>4 DEF vars, Written
  <1> QED BY <1>1, <1>2, <1>3, <1>4 DEF Next, CreateJournal

\* Every variable keeps its type: a journal that is posted has an account for each of
\* its lines, and one that is committed a running balance; there are as many stamps as
\* journals at most.
THEOREM TypeCorrect == Spec => []TypeOK
  <1>1. Spec => [](Typed /\ Owned /\ Balanced /\ Written)
    BY TypedInit, TypedStep, OwnedInit, OwnedStep, BalancedInit, BalancedStep, WrittenInit,
       WrittenStep, PTL DEF Spec
  <1>2. Typed /\ Owned /\ Balanced /\ Written => TypeOK
    <2> SUFFICES ASSUME Typed, Owned, Balanced, Written PROVE TypeOK
      OBVIOUS
    <2>1. /\ serial \in BOOLEAN /\ overlaps \in [Journals -> SUBSET Journals]
          /\ state \in [Journals -> {"idle", "accounts", "check", "insert", "balance", "commit",
                                     "committed", "answered", "rolledBack"}]
      BY DEF Typed, States, Written
    <2>2. stamp \in [Journals -> 0..Cardinality(Journals)]
      <3>1. /\ IsFiniteSet(StampedJournals) /\ IsFiniteSet(Journals)
            /\ Cardinality(StampedJournals) <= Cardinality(Journals)
        BY LedgerAssumption, FS_Subset DEF StampedJournals
      <3>2. Cardinality(StampedJournals) \in Nat /\ Cardinality(Journals) \in Nat
        BY <3>1, FS_CardinalityType
      <3>3. \A j \in Journals : stamp[j] \in 0..Cardinality(StampedJournals)
        BY DEF Balanced, Stamped
      <3>4. \A j \in Journals : stamp[j] \in 0..Cardinality(Journals)
        BY <3>1, <3>2, <3>3
      <3> QED BY <3>4 DEF Balanced, Stamped
    <2>3. ASSUME NEW j \in Journals, NEW k \in Lengths(j)
          PROVE  /\ account[j][k] \in (Owners \X Journals) \cup {Null}
                 /\ running[j][k] \in Int \cup {Null}
                 /\ state[j] \in Inserted => account[j][k] # Null
      BY DEF Typed, Accounts, Written, Owned, Filled, Inserted
    <2>4. ASSUME NEW j \in Journals, NEW k \in Lengths(j), state[j] = "committed"
          PROVE  running[j][k] # Null
      <3>1. \E S \in SUBSET Journals : running[j][k] = Total(S, account[j][k])
        BY <2>4 DEF Balanced, Summed, Looped
      <3>2. running[j][k] \in Int
        BY <3>1, TotalType
      <3> QED BY <3>2, LedgerAssumption
    <2> QED BY <2>1, <2>2, <2>3, <2>4 DEF TypeOK, Typed
  <1> QED BY <1>1, <1>2, PTL
=============================================================================
