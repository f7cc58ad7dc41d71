---------------------------- MODULE EscrowProofs ----------------------------
(***************************************************************************)
(* Theorems about Escrow, for every set of users, orders and requests.     *)
(***************************************************************************)
EXTENDS EscrowCustody, AutoRelease, Lemmas

USE DEF SetStatus

LEMMA InitType == Init => TypeOK /\ ArgsValidated /\ HoldsHaveBuyers
  BY EscrowAssumption
  DEF Init, TypeOK, ArgsValidated, Validated, HoldsHaveBuyers, Opened, Row, Hold, HoldStatus,
      OrderStatus, Label, Arg, MaybeUser, NoHold, Blank, Call, InFlight, Settling,
      JournalKind, Entries, NoEntries

\* The journal of a commit, whether it is posted or found: the accounts keep their
\* types, and what was posted and what was not move together by its entries.
LEMMA JournalMoves ==
    ASSUME TypeOK, NEW r \in Requests, NEW t \in JournalKind, NEW u \in Users,
           NEW n \in Int, NEW x \in Int, NEW y \in Int, CreateJournal(r, t, u, n, x, y)
    PROVE  /\ account' \in [Users -> Int] /\ escrowAcct' \in Int /\ feeAcct' \in Int
           /\ journals' \in [Keys -> JournalKind]
           /\ unposted' \in Entries
           /\ \A v \in Users :
                 account'[v] + unposted'.account[v]
                     = account[v] + unposted.account[v] + (IF v = u THEN n ELSE 0)
           /\ escrowAcct' + unposted'.escrow = escrowAcct + unposted.escrow + x
           /\ feeAcct' + unposted'.fees = feeAcct + unposted.fees + y
           /\ ~Posted(KeyOf[r]) => unposted' = unposted
           /\ \A k \in Keys : Posted(k)' => Posted(k) \/ k = KeyOf[r]
  <1>1. /\ account \in [Users -> Int] /\ escrowAcct \in Int /\ feeAcct \in Int
        /\ journals \in [Keys -> JournalKind] /\ KeyOf[r] \in Keys
        /\ unposted \in Entries /\ unposted.account \in [Users -> Int]
        /\ unposted.escrow \in Int /\ unposted.fees \in Int
    BY EscrowAssumption DEF TypeOK, Entries
  <1>2. CASE Posted(KeyOf[r])
    <2>1. /\ account' = account /\ escrowAcct' = escrowAcct /\ feeAcct' = feeAcct
          /\ journals' = journals
          /\ unposted' = [account |-> [unposted.account EXCEPT ![u] = @ + n],
                          escrow |-> unposted.escrow + x, fees |-> unposted.fees + y]
      BY <1>2 DEF CreateJournal, ledger
    <2>2. unposted' \in Entries
      BY <1>1, <2>1 DEF Entries
    <2>3. /\ \A v \in Users : unposted'.account[v] = unposted.account[v] + (IF v = u THEN n ELSE 0)
          /\ unposted'.escrow = unposted.escrow + x /\ unposted'.fees = unposted.fees + y
      BY <1>1, <2>1
    <2>4. \A v \in Users : unposted.account[v] \in Int /\ account[v] \in Int
      BY <1>1
    <2> QED BY <1>1, <1>2, <2>1, <2>2, <2>3, <2>4 DEF Posted
  <1>3. CASE ~Posted(KeyOf[r])
    <2>1. /\ account' = [account EXCEPT ![u] = @ + n]
          /\ escrowAcct' = escrowAcct + x /\ feeAcct' = feeAcct + y
          /\ journals' = [journals EXCEPT ![KeyOf[r]] = t]
          /\ unposted' = unposted
      BY <1>3 DEF CreateJournal
    <2>2. \A v \in Users : unposted.account[v] \in Int /\ account[v] \in Int
      BY <1>1
    <2>3. \A v \in Users : account'[v] = account[v] + (IF v = u THEN n ELSE 0)
      BY <1>1, <2>1
    <2> QED BY <1>1, <1>3, <2>1, <2>2, <2>3 DEF Posted
  <1> QED BY <1>2, <1>3

\* Writing one field of a request's arguments, or the status of a hold.
LEMMA FieldUpdates ==
    /\ \A x \in Arg, n \in Nat : [x EXCEPT !.version = n] \in Arg
    /\ \A x \in Arg : [x EXCEPT !.retries = @ + 1] \in Arg
    /\ \A x \in Arg, k \in Keys : [x EXCEPT !.seen = Posted(k)] \in Arg
    /\ \A x \in Hold, t \in HoldStatus : [x EXCEPT !.status = t] \in Hold
  <1>1. \A x \in Arg, n \in Nat : [x EXCEPT !.version = n] \in Arg
    BY DEF Arg
  <1>2. \A x \in Arg : [x EXCEPT !.retries = @ + 1] \in Arg
    BY DEF Arg
  <1>3. \A x \in Arg, k \in Keys : [x EXCEPT !.seen = Posted(k)] \in Arg
    <2>1. \A x \in Arg, t \in BOOLEAN : [x EXCEPT !.seen = t] \in Arg
      BY DEF Arg
    <2> SUFFICES ASSUME NEW x \in Arg, NEW k \in Keys
                 PROVE  [x EXCEPT !.seen = Posted(k)] \in Arg
      OBVIOUS
    <2>2. CASE Posted(k)
      <3>1. Posted(k) = TRUE
        BY <2>2, Zenon
      <3>2. [x EXCEPT !.seen = Posted(k)] = [x EXCEPT !.seen = TRUE]
        BY <3>1, Zenon
      <3> QED BY <3>2, <2>1
    <2>3. CASE ~Posted(k)
      <3>1. Posted(k) = FALSE
        BY <2>3, SMT
      <3>2. [x EXCEPT !.seen = Posted(k)] = [x EXCEPT !.seen = FALSE]
        BY <3>1, Zenon
      <3> QED BY <3>2, <2>1
    <2> QED BY <2>2, <2>3
  <1>4. \A x \in Hold, t \in HoldStatus : [x EXCEPT !.status = t] \in Hold
    BY DEF Hold
  <1> QED BY <1>1, <1>2, <1>3, <1>4

LEMMA BlankType == Blank \in Arg
  BY DEF Blank, Call, Arg, MaybeUser

\* A call that is answered leaves no trace in the control state.
LEMMA AnswerType ==
    ASSUME TypeOK, NEW r \in Requests, NEW l \in {"done", "failed"}, Answer(r, l)
    PROVE  /\ pc' \in [Requests -> Label] /\ arg' \in [Requests -> Arg]
           /\ pc'[r] = l /\ arg'[r] = Blank
  BY BlankType DEF TypeOK, Answer, Goto, Label

LEMMA FinishType ==
    ASSUME TypeOK, NEW r \in Requests, Finish(r)
    PROVE  /\ pc' \in [Requests -> Label] /\ arg' \in [Requests -> Arg]
           /\ pc'[r] = "done" /\ arg'[r] = Blank
  BY AnswerType DEF Finish

\* What the prover needs to know of a request's arguments, field by field.
LEMMA ArgFields ==
    ASSUME TypeOK, NEW r \in Requests
    PROVE  /\ arg[r] \in Arg
           /\ arg[r].order \in Orders \cup {Null}
           /\ arg[r].buyer \in MaybeUser
           /\ arg[r].seller \in MaybeUser
           /\ arg[r].amount \in Nat
           /\ arg[r].fee \in Nat
           /\ arg[r].version \in Nat
           /\ arg[r].retries \in Nat
  BY DEF TypeOK, Arg

\* The wallets after a release: every row keeps its type, no version goes back,
\* and only the seller's available money changes.
LEMMA PayOutMoves ==
    ASSUME NEW W \in [Users -> Row], NEW b \in Users, NEW s \in Users,
           NEW a \in Nat, NEW f \in Nat
    PROVE  /\ PayOut(W, b, s, a, f) \in [Users -> Row]
           /\ \A u \in Users :
                 /\ PayOut(W, b, s, a, f)[u].version >= W[u].version
                 /\ Available(PayOut(W, b, s, a, f)[u])
                        = Available(W[u]) + (IF u = s THEN a ELSE 0)
  <1> DEFINE W1 == [W EXCEPT ![b] = TransferOut(@, a)]
             W2 == [W1 EXCEPT ![s] = TransferIn(@, a)]
             V == [W2 EXCEPT ![b] = TakeLocked(@, f)]
  <1>1. W1 \in [Users -> Row] /\ \A u \in Users :
            /\ W1[u].version >= W[u].version
            /\ Available(W1[u]) = Available(W[u])
    <2>1. TransferOut(W[b], a) \in Row /\ TransferOut(W[b], a).version = W[b].version + 1
              /\ Available(TransferOut(W[b], a)) = Available(W[b])
      BY RowMoves
    <2>2. \A u \in Users : W[u].version \in Nat
      BY DEF Row
    <2> QED BY <2>1, <2>2
  <1>2. W2 \in [Users -> Row] /\ \A u \in Users :
            /\ W2[u].version >= W1[u].version
            /\ Available(W2[u]) = Available(W1[u]) + (IF u = s THEN a ELSE 0)
    <2> HIDE DEF W1
    <2>1. TransferIn(W1[s], a) \in Row /\ TransferIn(W1[s], a).version = W1[s].version + 1
              /\ Available(TransferIn(W1[s], a)) = Available(W1[s]) + a
      BY <1>1, RowMoves
    <2>2. \A u \in Users : W1[u].version \in Nat /\ Available(W1[u]) \in Int
      BY <1>1 DEF Row, Available
    <2> QED BY <1>1, <2>1, <2>2
  <1>3. V \in [Users -> Row] /\ \A u \in Users :
            /\ V[u].version >= W2[u].version
            /\ Available(V[u]) = Available(W2[u])
    <2> HIDE DEF W1, W2
    <2>1. TakeLocked(W2[b], f) \in Row /\ TakeLocked(W2[b], f).version = W2[b].version
              /\ Available(TakeLocked(W2[b], f)) = Available(W2[b])
      <3>1. W2[b] \in Row /\ f \in Int
        BY <1>2
      <3> QED BY <3>1, RowMoves
    <2>2. \A u \in Users : W2[u].version \in Nat
      BY <1>2 DEF Row
    <2> QED BY <1>2, <2>1, <2>2
  <1>4. \A u \in Users : W[u].version \in Nat /\ W1[u].version \in Nat /\ W2[u].version \in Nat
                         /\ V[u].version \in Nat
    <2> HIDE DEF W1, W2
    <2> QED BY <1>1, <1>2, <1>3 DEF Row
  <1> HIDE DEF W1, W2, V
  <1>5. /\ V \in [Users -> Row]
        /\ \A u \in Users :
              /\ V[u].version >= W[u].version
              /\ Available(V[u]) = Available(W[u]) + (IF u = s THEN a ELSE 0)
    BY <1>1, <1>2, <1>3, <1>4
  <1>6. PayOut(W, b, s, a, f) = V
    BY DEF PayOut, V, W2, W1
  <1> QED BY <1>5, <1>6

LedgerType ==
    /\ account \in [Users -> Int] /\ escrowAcct \in Int /\ feeAcct \in Int
    /\ journals \in [Keys -> JournalKind]
    /\ unposted \in Entries

LEMMA NextType ==
    ASSUME TypeOK, ArgsValidated, HoldsHaveBuyers, [Next]_vars
    PROVE  TypeOK'
  <1> USE EscrowAssumption
  <1>1. ASSUME NEW r \in Requests, NEW u \in Users, NEW o \in Orders,
               NEW s \in MaybeUser, NEW a \in Amounts, CreateEscrow(r, u, o, s, a)
        PROVE  TypeOK'
    BY <1>1 DEF TypeOK, CreateEscrow, Arrive, Goto, Label, Arg, MaybeUser, Call, ledger
  <1>2. ASSUME NEW r \in Requests, LockRead(r)
        PROVE  TypeOK'
    <2>1. wallet[arg[r].buyer].version \in Nat
      BY <1>2 DEF TypeOK, ArgsValidated, Validated, LockRead, InFlight, Row
    <2>2. arg' \in [Requests -> Arg]
      BY <1>2, <2>1, FieldUpdates DEF TypeOK, LockRead
    <2> QED BY <1>2, <2>2 DEF TypeOK, LockRead, Goto, Label, ledger
  <1>3. ASSUME NEW r \in Requests, LockConflict(r)
        PROVE  TypeOK'
    <2>1. arg' \in [Requests -> Arg]
      BY <1>3, FieldUpdates DEF TypeOK, LockConflict
    <2> QED BY <1>3, <2>1 DEF TypeOK, LockConflict, Goto, Label, ledger
  <1>4. ASSUME NEW r \in Requests, CreateCommit(r)
        PROVE  TypeOK'
    <2> DEFINE b == arg[r].buyer  o == arg[r].order  a == arg[r].amount
    <2>1. b \in Users /\ o \in Orders /\ a \in Nat /\ arg[r].seller \in MaybeUser
      BY <1>4, ArgFields DEF ArgsValidated, Validated, CreateCommit, InFlight
    <2>2. wallet' \in [Users -> Row]
      <3>1. wallet[b] \in Row /\ a \in Int
        BY <2>1 DEF TypeOK
      <3>2. LockBalance(wallet[b], a) \in Row
        BY <3>1, RowMoves
      <3> QED BY <1>4, <2>1, <3>2 DEF TypeOK, CreateCommit
    <2>3. hold' \in [Orders -> Hold]
      <3>1. [status |-> "ACTIVE", buyer |-> b, seller |-> arg[r].seller, amount |-> a] \in Hold
        BY <2>1 DEF Hold, HoldStatus, MaybeUser
      <3> QED BY <1>4, <2>1, <3>1 DEF TypeOK, CreateCommit
    <2>4. CreateJournal(r, "ESCROW_LOCK", b, -a, a, 0)
      BY <1>4 DEF CreateCommit
    <2>6. LedgerType'
      <3>1. a \in Int /\ -a \in Int /\ 0 \in Int /\ "ESCROW_LOCK" \in JournalKind
        BY <2>1 DEF JournalKind
      <3> HIDE DEF a, b
      <3> QED BY <2>1, <2>4, <3>1, JournalMoves DEF LedgerType
    <2>7. pc' \in [Requests -> Label] /\ arg' \in [Requests -> Arg]
      BY <1>4, FinishType DEF CreateCommit
    <2>8. order' \in [Orders -> OrderStatus] /\ dispute' \in [Orders -> BOOLEAN]
      BY <1>4 DEF TypeOK, CreateCommit, OrderStatus
    <2> QED BY <2>2, <2>3, <2>6, <2>7, <2>8 DEF TypeOK, LedgerType
  <1>5. ASSUME NEW r \in Requests, NEW actor \in Users \cup {System}, NEW o \in Orders,
               NEW f \in Fees, ReleaseEscrow(r, actor, o, f)
        PROVE  TypeOK'
    <2>1. Call(o, hold[o].buyer, hold[o].seller, hold[o].amount, f) \in Arg
      BY DEF TypeOK, Hold, Call, Arg
    <2> QED BY <1>5, <2>1 DEF TypeOK, ReleaseEscrow, Arrive, Goto, Label, ledger
  <1>6. ASSUME NEW r \in Requests, ReleaseRead(r)
        PROVE  TypeOK'
    <2>1. KeyOf[r] \in Keys /\ arg \in [Requests -> Arg]
      BY DEF TypeOK
    <2>2. arg' = [arg EXCEPT ![r] = [arg[r] EXCEPT !.seen = Posted(KeyOf[r])]]
      BY <1>6 DEF ReleaseRead
    <2>3. [arg[r] EXCEPT !.seen = Posted(KeyOf[r])] \in Arg
      BY <2>1, FieldUpdates
    <2>4. arg' \in [Requests -> Arg]
      BY <2>1, <2>2, <2>3
    <2> QED BY <1>6, <2>4 DEF TypeOK, ReleaseRead, Goto, Label, ledger
  <1>7. ASSUME NEW r \in Requests, ReleaseCommit(r)
        PROVE  TypeOK'
    <2> DEFINE b == arg[r].buyer  s == arg[r].seller  f == arg[r].fee
               o == arg[r].order  a == arg[r].amount - f
    <2>1. b \in Users /\ s \in Users /\ o \in Orders /\ f \in Nat /\ a \in Nat
      BY <1>7, ArgFields DEF ArgsValidated, Validated, ReleaseCommit, InFlight
    <2>2. wallet' \in [Users -> Row]
      <3>1. wallet' = PayOut(wallet, b, s, a, f)
        BY <1>7 DEF ReleaseCommit
      <3>2. wallet \in [Users -> Row]
        BY DEF TypeOK
      <3> HIDE DEF a, b, s, f
      <3> QED BY <2>1, <3>1, <3>2, PayOutMoves
    <2>3. hold' \in [Orders -> Hold]
      BY <1>7, <2>1, FieldUpdates DEF TypeOK, ReleaseCommit, HoldStatus
    <2>4. CreateJournal(r, "ESCROW_RELEASE", s, a, -arg[r].amount, f)
      BY <1>7 DEF ReleaseCommit
    <2>6. LedgerType'
      <3>1. a \in Int /\ -arg[r].amount \in Int /\ f \in Int /\ "ESCROW_RELEASE" \in JournalKind
        BY <2>1, ArgFields DEF JournalKind
      <3> HIDE DEF a, s, f
      <3> QED BY <2>1, <2>4, <3>1, JournalMoves DEF LedgerType
    <2>7. pc' \in [Requests -> Label] /\ arg' \in [Requests -> Arg]
      BY <1>7, FinishType DEF ReleaseCommit
    <2>8. order' \in [Orders -> OrderStatus] /\ dispute' \in [Orders -> BOOLEAN]
      BY <1>7 DEF TypeOK, ReleaseCommit, OrderStatus
    <2> QED BY <2>2, <2>3, <2>6, <2>7, <2>8 DEF TypeOK, LedgerType
  <1>8. ASSUME NEW r \in Requests, NEW actor \in Users \cup {System}, NEW o \in Orders,
               RefundEscrow(r, actor, o)
        PROVE  TypeOK'
    <2>1. Call(o, hold[o].buyer, Null, hold[o].amount, 0) \in Arg
      BY DEF TypeOK, Hold, Call, Arg, MaybeUser
    <2> QED BY <1>8, <2>1 DEF TypeOK, RefundEscrow, Arrive, Goto, Label, ledger
  <1>9. ASSUME NEW r \in Requests, RefundRead(r)
        PROVE  TypeOK'
    <2>1. KeyOf[r] \in Keys /\ arg \in [Requests -> Arg]
      BY DEF TypeOK
    <2>2. arg' = [arg EXCEPT ![r] = [arg[r] EXCEPT !.seen = Posted(KeyOf[r])]]
      BY <1>9 DEF RefundRead
    <2>3. [arg[r] EXCEPT !.seen = Posted(KeyOf[r])] \in Arg
      BY <2>1, FieldUpdates
    <2>4. arg' \in [Requests -> Arg]
      BY <2>1, <2>2, <2>3
    <2> QED BY <1>9, <2>4 DEF TypeOK, RefundRead, Goto, Label, ledger
  <1>10. ASSUME NEW r \in Requests, RefundCommit(r)
         PROVE  TypeOK'
    <2> DEFINE b == arg[r].buyer  o == arg[r].order  a == arg[r].amount
    <2>1. b \in Users /\ o \in Orders /\ a \in Nat
      BY <1>10, ArgFields DEF ArgsValidated, Validated, RefundCommit, InFlight
    <2>2. wallet' \in [Users -> Row]
      <3>1. wallet[b] \in Row /\ a \in Int
        BY <2>1 DEF TypeOK
      <3>2. UnlockBalance(wallet[b], a) \in Row
        BY <3>1, RowMoves
      <3> QED BY <1>10, <2>1, <3>2 DEF TypeOK, RefundCommit
    <2>3. hold' \in [Orders -> Hold]
      BY <1>10, <2>1, FieldUpdates DEF TypeOK, RefundCommit, HoldStatus
    <2>4. CreateJournal(r, "REFUND", b, a, -a, 0)
      BY <1>10 DEF RefundCommit
    <2>6. LedgerType'
      <3>1. a \in Int /\ -a \in Int /\ 0 \in Int /\ "REFUND" \in JournalKind
        BY <2>1 DEF JournalKind
      <3> HIDE DEF a, b
      <3> QED BY <2>1, <2>4, <3>1, JournalMoves DEF LedgerType
    <2>7. pc' \in [Requests -> Label] /\ arg' \in [Requests -> Arg]
      BY <1>10, FinishType DEF RefundCommit
    <2>8. order' \in [Orders -> OrderStatus] /\ dispute' \in [Orders -> BOOLEAN]
      BY <1>10 DEF TypeOK, RefundCommit, OrderStatus
    <2> QED BY <2>2, <2>3, <2>6, <2>7, <2>8 DEF TypeOK, LedgerType
  <1>11. ASSUME NEW r \in Requests, NEW actor \in Users, NEW o \in Orders,
                InitiateDispute(r, actor, o)
         PROVE  TypeOK'
    <2>1. Call(o, Null, Null, 0, 0) \in Arg
      BY DEF Call, Arg, MaybeUser
    <2> QED BY <1>11, <2>1 DEF TypeOK, InitiateDispute, Arrive, Goto, Label, ledger
  <1>12. ASSUME NEW r \in Requests, DisputeCommit(r)
         PROVE  TypeOK'
    <2>1. arg[r].order \in Orders
      BY <1>12 DEF ArgsValidated, Validated, DisputeCommit, InFlight
    <2>2. hold' \in [Orders -> Hold]
      BY <1>12, <2>1, FieldUpdates DEF TypeOK, DisputeCommit, HoldStatus
    <2>3. pc' \in [Requests -> Label] /\ arg' \in [Requests -> Arg]
      BY <1>12, FinishType DEF DisputeCommit
    <2> QED BY <1>12, <2>2, <2>3 DEF TypeOK, DisputeCommit, OrderStatus, ledger
  <1>13. ASSUME NEW r \in Requests, Abort(r)
         PROVE  TypeOK'
    <2>1. pc' \in [Requests -> Label] /\ arg' \in [Requests -> Arg]
      BY <1>13, AnswerType DEF Abort
    <2> QED BY <1>13, <2>1 DEF TypeOK, Abort, ledger
  <1>14. CASE UNCHANGED vars
    BY <1>14 DEF TypeOK, vars, ledger
  <1> QED BY <1>1, <1>2, <1>3, <1>4, <1>5, <1>6, <1>7, <1>8, <1>9, <1>10, <1>11, <1>12,
             <1>13, <1>14 DEF Next, Step

\* A step of one request changes nothing that is local to another.
LEMMA OthersStay ==
    ASSUME TypeOK, NEW r \in Requests, Step(r)
    PROVE  \A q \in Requests \ {r} : pc'[q] = pc[q] /\ arg'[q] = arg[q]
  BY DEF TypeOK, Step, CreateEscrow, LockRead, LockConflict, CreateCommit,
         ReleaseEscrow, ReleaseRead, ReleaseCommit, RefundEscrow, RefundRead,
         RefundCommit, InitiateDispute, DisputeCommit, Abort, Arrive, Finish, Answer, Goto

\* Only three commits write a hold that exists, and only its status.
LEMMA TermsStay ==
    ASSUME TypeOK, ArgsValidated, [Next]_vars
    PROVE  TermsKept
  <1>1. ASSUME NEW r \in Requests, CreateCommit(r)
        PROVE  TermsKept
    BY <1>1 DEF TypeOK, CreateCommit, TermsKept, OrderIdFree
  <1>2. ASSUME NEW o \in Orders, NEW t \in Settled \cup {"DISPUTED"},
               hold' = [hold EXCEPT ![o].status = t]
        PROVE  TermsKept
    BY <1>2 DEF TypeOK, TermsKept, Hold, Settled
  <1>3. ASSUME NEW r \in Requests, ReleaseCommit(r) \/ RefundCommit(r) \/ DisputeCommit(r)
        PROVE  TermsKept
    <2>1. arg[r].order \in Orders
      BY <1>3 DEF ArgsValidated, Validated, ReleaseCommit, RefundCommit, DisputeCommit, InFlight
    <2> QED BY <1>2, <1>3, <2>1 DEF ReleaseCommit, RefundCommit, DisputeCommit, Settled
  <1>4. CASE hold' = hold
    BY <1>4 DEF TermsKept
  <1> QED BY <1>1, <1>3, <1>4 DEF Next, Step, CreateEscrow, LockRead, LockConflict,
             ReleaseEscrow, ReleaseRead, RefundEscrow, RefundRead, InitiateDispute, Abort,
             vars

\* What validation established stays true of a request until it is answered.
LEMMA ArgsStay ==
    ASSUME TypeOK, ArgsValidated, HoldsHaveBuyers, [Next]_vars
    PROVE  ArgsValidated' /\ HoldsHaveBuyers'
  <1> USE EscrowAssumption
  <1>1. TermsKept
    BY TermsStay
  <1>2. ASSUME NEW r \in Requests, Step(r), Validated(r)'
        PROVE  ArgsValidated'
    <2> SUFFICES ASSUME NEW q \in Requests, q # r
                 PROVE  Validated(q)'
      BY <1>2 DEF ArgsValidated
    <2>1. pc'[q] = pc[q] /\ arg'[q] = arg[q]
      BY <1>2, OthersStay
    <2>2. Validated(q)
      BY DEF ArgsValidated
    <2> QED BY <1>1, <2>1, <2>2 DEF TermsKept, Validated, InFlight, Settling
  <1>3. ASSUME NEW r \in Requests, Step(r)
        PROVE  Validated(r)'
    <2> USE DEF Validated, InFlight, Settling, Goto, Arrive
    <2>1. ASSUME NEW u \in Users, NEW o \in Orders, NEW s \in MaybeUser,
                 NEW a \in Amounts, CreateEscrow(r, u, o, s, a)
          PROVE  Validated(r)'
      BY <2>1 DEF TypeOK, CreateEscrow, Call
    <2>2. CASE LockRead(r)
      BY <2>2 DEF TypeOK, ArgsValidated, LockRead, Arg
    <2>3. CASE LockConflict(r)
      BY <2>3 DEF TypeOK, ArgsValidated, LockConflict, Arg
    <2>4. ASSUME NEW actor \in Users \cup {System}, NEW o \in Orders, NEW f \in Fees,
                 ReleaseEscrow(r, actor, o, f)
          PROVE  Validated(r)'
      <3>1. hold[o].buyer \in Users /\ hold[o].seller \in Users /\ hold[o].status # "NONE"
        BY <2>4 DEF TypeOK, Hold, MaybeUser, HoldsHaveBuyers, ReleaseEscrow,
                    EscrowStateMachine, HoldStatus
      <3> QED BY <2>4, <3>1 DEF TypeOK, ReleaseEscrow, Call
    <2>5. CASE ReleaseRead(r)
      <3>1. arg[r].fee <= arg[r].amount
        BY <2>5, ArgFields DEF ReleaseRead, CanUnlock
      <3> QED BY <2>5, <3>1 DEF TypeOK, ArgsValidated, ReleaseRead, Arg
    <2>6. ASSUME NEW actor \in Users \cup {System}, NEW o \in Orders,
                 RefundEscrow(r, actor, o)
          PROVE  Validated(r)'
      <3>1. hold[o].buyer \in Users /\ hold[o].status # "NONE"
        BY <2>6 DEF TypeOK, Hold, HoldsHaveBuyers, RefundEscrow, EscrowStateMachine, HoldStatus
      <3> QED BY <2>6, <3>1 DEF TypeOK, RefundEscrow, Call
    <2>7. CASE RefundRead(r)
      <3>1. /\ arg'[r].order = arg[r].order /\ arg'[r].buyer = arg[r].buyer
            /\ pc'[r] = "refundCommit" /\ pc[r] = "refund" /\ hold' = hold
        BY <2>7 DEF TypeOK, RefundRead, Arg
      <3> QED BY <3>1 DEF ArgsValidated
    <2>8. ASSUME NEW actor \in Users, NEW o \in Orders, InitiateDispute(r, actor, o)
          PROVE  Validated(r)'
      <3>1. hold[o].status # "NONE"
        BY <2>8 DEF TypeOK, Hold, InitiateDispute, EscrowStateMachine, HoldStatus
      <3> QED BY <2>8, <3>1 DEF TypeOK, InitiateDispute, Call
    <2>9. CASE CreateCommit(r) \/ ReleaseCommit(r) \/ RefundCommit(r) \/ DisputeCommit(r)
               \/ Abort(r)
      <3>1. pc'[r] \in {"done", "failed"}
        BY <2>9, FinishType, AnswerType
        DEF CreateCommit, ReleaseCommit, RefundCommit, DisputeCommit, Abort
      <3> QED BY <3>1
    <2> QED BY <1>3, <2>1, <2>2, <2>3, <2>4, <2>5, <2>6, <2>7, <2>8, <2>9 DEF Step
  <1>4. ASSUME UNCHANGED vars
        PROVE  ArgsValidated'
    BY <1>4 DEF ArgsValidated, Validated, InFlight, vars
  <1>5. ArgsValidated'
    BY <1>2, <1>3, <1>4 DEF Next
  <1>6. HoldsHaveBuyers'
    <2>1. ASSUME NEW r \in Requests, CreateCommit(r)
          PROVE  HoldsHaveBuyers'
      <3>1. arg[r].buyer \in Users
        BY <2>1 DEF ArgsValidated, Validated, InFlight, CreateCommit
      <3> QED BY <2>1, <3>1 DEF TypeOK, HoldsHaveBuyers, CreateCommit
    <2>2. CASE \A o \in Orders : hold[o].status = "NONE" => hold'[o].status = "NONE"
      BY <1>1, <2>2 DEF HoldsHaveBuyers, TermsKept
    <2>3. ASSUME NEW r \in Requests, ReleaseCommit(r) \/ RefundCommit(r) \/ DisputeCommit(r)
          PROVE  \A o \in Orders : hold[o].status = "NONE" => hold'[o].status = "NONE"
      BY <2>3 DEF TypeOK, ArgsValidated, Validated, Settling, ReleaseCommit, RefundCommit,
                  DisputeCommit
    <2>4. CASE hold' = hold
      BY <2>2, <2>4
    <2> QED BY <2>1, <2>2, <2>3, <2>4 DEF Next, Step, CreateEscrow, LockRead, LockConflict,
               ReleaseEscrow, ReleaseRead, RefundEscrow, RefundRead, InitiateDispute, Abort,
               vars
  <1> QED BY <1>5, <1>6

\* Every commit raises the version of a row whose available money it lowers.
WalletGuarded ==
    \A u \in Users :
        /\ wallet'[u].version >= wallet[u].version
        /\ wallet'[u].version = wallet[u].version
               => Available(wallet'[u]) >= Available(wallet[u])

LEMMA WalletsGuarded ==
    ASSUME TypeOK, ArgsValidated, HoldsHaveBuyers, [Next]_vars
    PROVE  WalletGuarded
  <1>1. ASSUME NEW b \in Users, NEW row \in Row, row.version = wallet[b].version + 1,
               wallet' = [wallet EXCEPT ![b] = row]
        PROVE  WalletGuarded
    BY <1>1 DEF TypeOK, Row, WalletGuarded, Available
  <1>2. ASSUME NEW r \in Requests, CreateCommit(r)
        PROVE  WalletGuarded
    <2>1. arg[r].buyer \in Users /\ arg[r].amount \in Int
      BY <1>2, ArgFields DEF ArgsValidated, Validated, InFlight, CreateCommit
    <2>2. wallet[arg[r].buyer] \in Row
      BY <2>1 DEF TypeOK
    <2>3. /\ LockBalance(wallet[arg[r].buyer], arg[r].amount) \in Row
          /\ LockBalance(wallet[arg[r].buyer], arg[r].amount).version
                 = wallet[arg[r].buyer].version + 1
      BY <2>1, <2>2, RowMoves
    <2> QED BY <1>1, <1>2, <2>1, <2>3 DEF CreateCommit
  <1>3. ASSUME NEW r \in Requests, RefundCommit(r)
        PROVE  WalletGuarded
    <2>1. arg[r].buyer \in Users /\ arg[r].amount \in Int
      BY <1>3, ArgFields DEF ArgsValidated, Validated, InFlight, RefundCommit
    <2>2. wallet[arg[r].buyer] \in Row
      BY <2>1 DEF TypeOK
    <2>3. /\ UnlockBalance(wallet[arg[r].buyer], arg[r].amount) \in Row
          /\ UnlockBalance(wallet[arg[r].buyer], arg[r].amount).version
                 = wallet[arg[r].buyer].version + 1
      BY <2>1, <2>2, RowMoves
    <2> QED BY <1>1, <1>3, <2>1, <2>3 DEF RefundCommit
  <1>4. ASSUME NEW r \in Requests, ReleaseCommit(r)
        PROVE  WalletGuarded
    <2> DEFINE a == arg[r].amount - arg[r].fee
    <2>1. arg[r].buyer \in Users /\ arg[r].seller \in Users /\ arg[r].fee \in Nat /\ a \in Nat
      BY <1>4, ArgFields DEF ArgsValidated, Validated, InFlight, ReleaseCommit
    <2>2. wallet \in [Users -> Row] /\ \A u \in Users : Available(wallet[u]) \in Int
      BY DEF TypeOK, Row, Available
    <2>3. wallet' = PayOut(wallet, arg[r].buyer, arg[r].seller, a, arg[r].fee)
      BY <1>4 DEF ReleaseCommit
    <2> HIDE DEF a
    <2>4. \A u \in Users :
              /\ wallet'[u].version >= wallet[u].version
              /\ Available(wallet'[u])
                     = Available(wallet[u]) + (IF u = arg[r].seller THEN a ELSE 0)
      <3> DEFINE b == arg[r].buyer  s == arg[r].seller  f == arg[r].fee
      <3>1. b \in Users /\ s \in Users /\ f \in Nat /\ a \in Nat /\ wallet \in [Users -> Row]
        BY <2>1, <2>2
      <3>4. wallet' = PayOut(wallet, b, s, a, f)
        BY <2>3
      <3> HIDE DEF b, s, f
      <3>2. \A u \in Users :
                /\ PayOut(wallet, b, s, a, f)[u].version >= wallet[u].version
                /\ Available(PayOut(wallet, b, s, a, f)[u])
                       = Available(wallet[u]) + (IF u = s THEN a ELSE 0)
        BY <3>1, PayOutMoves
      <3>3. \A u \in Users :
                /\ wallet'[u].version >= wallet[u].version
                /\ Available(wallet'[u]) = Available(wallet[u]) + (IF u = s THEN a ELSE 0)
        BY <3>2, <3>4
      <3> QED BY <3>3 DEF s
    <2> QED BY <2>1, <2>2, <2>4 DEF WalletGuarded
  <1>5. CASE wallet' = wallet
    BY <1>5 DEF TypeOK, Row, Available, WalletGuarded
  <1> QED BY <1>2, <1>3, <1>4, <1>5 DEF Next, Step, CreateEscrow, LockRead, LockConflict,
             ReleaseEscrow, ReleaseRead, RefundEscrow, RefundRead, InitiateDispute,
             DisputeCommit, Abort, vars

\* A version that has not moved since lockBalance's read still vouches for the
\* money that was available then.
LEMMA ReadsStayGuarded ==
    ASSUME TypeOK, ArgsValidated, HoldsHaveBuyers, VersionGuardsRead, [Next]_vars
    PROVE  VersionGuardsRead'
  <1>1. WalletGuarded
    BY WalletsGuarded
  <1>2. \A u \in Users : /\ wallet[u].version \in Nat /\ Available(wallet[u]) \in Int
                         /\ wallet'[u].version \in Nat /\ Available(wallet'[u]) \in Int
    BY NextType DEF TypeOK, Row, Available
  <1>3. ASSUME NEW q \in Requests, pc'[q] = pc[q], arg'[q] = arg[q]
        PROVE  ReadGuarded(q)'
    <2> SUFFICES ASSUME pc[q] = "cas"
                 PROVE  ReadGuarded(q)'
      BY <1>3 DEF ReadGuarded
    <2>1. /\ arg[q].buyer \in Users /\ arg[q].version \in Nat /\ arg[q].amount \in Nat
      BY ArgFields DEF ArgsValidated, Validated, InFlight
    <2>2. ReadGuarded(q)
      BY DEF VersionGuardsRead
    <2> QED BY <1>1, <1>2, <1>3, <2>1, <2>2 DEF ReadGuarded, WalletGuarded
  <1>4. ASSUME NEW r \in Requests, Step(r)
        PROVE  ReadGuarded(r)'
    <2>1. CASE LockRead(r)
      <3>1. arg'[r].buyer = arg[r].buyer /\ arg'[r].amount = arg[r].amount
            /\ arg'[r].version = wallet[arg[r].buyer].version /\ wallet' = wallet
        BY <2>1 DEF TypeOK, LockRead, Arg
      <3>2. Available(wallet[arg[r].buyer]) >= arg[r].amount /\ arg[r].buyer \in Users
        BY <2>1 DEF LockRead, CanLock, ArgsValidated, Validated, InFlight
      <3> QED BY <1>2, <3>1, <3>2 DEF ReadGuarded
    <2>2. CASE ~LockRead(r)
      <3>1. pc'[r] # "cas"
        BY <1>4, <2>2 DEF TypeOK, Step, CreateEscrow, LockConflict, CreateCommit,
              ReleaseEscrow, ReleaseRead, ReleaseCommit, RefundEscrow, RefundRead,
              RefundCommit, InitiateDispute, DisputeCommit, Abort, Arrive, Finish, Answer, Goto
      <3> QED BY <3>1 DEF ReadGuarded
    <2> QED BY <2>1, <2>2
  <1>5. ASSUME NEW r \in Requests, Step(r)
        PROVE  VersionGuardsRead'
    BY <1>3, <1>4, <1>5, OthersStay DEF VersionGuardsRead
  <1>6. ASSUME UNCHANGED vars
        PROVE  VersionGuardsRead'
    BY <1>6 DEF VersionGuardsRead, ReadGuarded, vars
  <1> QED BY <1>5, <1>6 DEF Next

\* Only createEscrow lowers what is available, by an amount its version check
\* shows to be there.
LEMMA OverdraftStays ==
    ASSUME TypeOK, ArgsValidated, HoldsHaveBuyers, VersionGuardsRead, NoOverdraft, [Next]_vars
    PROVE  NoOverdraft'
  <1> USE DEF NoOverdraft
  <1>1. \A u \in Users : wallet[u] \in Row /\ wallet'[u] \in Row
    BY NextType DEF TypeOK
  <1>2. ASSUME \A u \in Users : Available(wallet'[u]) >= 0
        PROVE  NoOverdraft'
    BY <1>1, <1>2 DEF Row, Available
  <1>3. \A u \in Users : Available(wallet[u]) \in Int /\ Available(wallet[u]) >= 0
    BY <1>1 DEF Row, Available
  <1>4. ASSUME NEW r \in Requests, CreateCommit(r)
        PROVE  NoOverdraft'
    <2> DEFINE b == arg[r].buyer  a == arg[r].amount
    <2>1. b \in Users /\ a \in Int
      BY <1>4, ArgFields DEF ArgsValidated, Validated, InFlight, CreateCommit
    <2>2. Available(wallet[b]) >= a
      BY <1>4 DEF VersionGuardsRead, ReadGuarded, CreateCommit, SameVersion
    <2>3. Available(LockBalance(wallet[b], a)) = Available(wallet[b]) - a
      BY <1>1, <2>1, RowMoves
    <2>4. wallet' = [wallet EXCEPT ![b] = LockBalance(wallet[b], a)] /\ wallet \in [Users -> Row]
      BY <1>4 DEF CreateCommit, TypeOK
    <2> HIDE DEF a, b
    <2>5. \A u \in Users : Available(wallet'[u]) >= 0
      BY <1>3, <2>1, <2>2, <2>3, <2>4
    <2> QED BY <1>2, <2>5
  <1>5. ASSUME NEW r \in Requests, RefundCommit(r)
        PROVE  NoOverdraft'
    <2> DEFINE b == arg[r].buyer  a == arg[r].amount
    <2>1. b \in Users /\ a \in Nat /\ a \in Int
      BY <1>5, ArgFields DEF ArgsValidated, Validated, InFlight, RefundCommit
    <2>2. Available(UnlockBalance(wallet[b], a)) = Available(wallet[b]) + a
      BY <1>1, <2>1, RowMoves
    <2>3. wallet' = [wallet EXCEPT ![b] = UnlockBalance(wallet[b], a)] /\ wallet \in [Users -> Row]
      BY <1>5 DEF RefundCommit, TypeOK
    <2> HIDE DEF a, b
    <2>4. \A u \in Users : Available(wallet'[u]) >= 0
      BY <1>3, <2>1, <2>2, <2>3
    <2> QED BY <1>2, <2>4
  <1>6. ASSUME NEW r \in Requests, ReleaseCommit(r)
        PROVE  NoOverdraft'
    <2> DEFINE b == arg[r].buyer  s == arg[r].seller  f == arg[r].fee
               a == arg[r].amount - f
    <2>1. b \in Users /\ s \in Users /\ f \in Nat /\ a \in Nat
      BY <1>6, ArgFields DEF ArgsValidated, Validated, InFlight, ReleaseCommit
    <2>2. wallet' = PayOut(wallet, b, s, a, f) /\ wallet \in [Users -> Row]
      BY <1>6 DEF ReleaseCommit, TypeOK
    <2> HIDE DEF a, b, s, f
    <2>3. \A u \in Users : Available(PayOut(wallet, b, s, a, f)[u])
                               = Available(wallet[u]) + (IF u = s THEN a ELSE 0)
      BY <2>1, <2>2, PayOutMoves
    <2>4. \A u \in Users : Available(wallet'[u]) >= 0
      BY <1>3, <2>1, <2>2, <2>3
    <2> QED BY <1>2, <2>4
  <1>7. CASE wallet' = wallet
    BY <1>7
  <1> QED BY <1>4, <1>5, <1>6, <1>7 DEF Next, Step, CreateEscrow, LockRead, LockConflict,
             ReleaseEscrow, ReleaseRead, RefundEscrow, RefundRead, InitiateDispute,
             DisputeCommit, Abort, vars

----------------------------------------------------------------------------
LEMMA InitOverdraft == Init => OverdraftInv
  <1>1. ASSUME Init PROVE VersionGuardsRead /\ NoOverdraft
    BY <1>1, EscrowAssumption DEF Init, VersionGuardsRead, ReadGuarded, NoOverdraft, Opened
  <1> QED BY <1>1, InitType DEF OverdraftInv

LEMMA NextOverdraft == OverdraftInv /\ [Next]_vars => OverdraftInv'
  BY NextType, ArgsStay, ReadsStayGuarded, OverdraftStays DEF OverdraftInv

\* The strengthened invariant holds in every reachable state.
LEMMA Inductive == Spec => []OverdraftInv
  BY InitOverdraft, NextOverdraft, PTL DEF Spec

\* Every reachable state is well typed: in particular a release never credits a
\* negative share, though nothing compares the fee with the amount.
THEOREM TypeCorrect == Spec => []TypeOK
  <1>1. OverdraftInv => TypeOK
    BY DEF OverdraftInv
  <1> QED BY <1>1, Inductive, PTL

\* No wallet locks more than it holds, for any number of users, orders and
\* overlapping calls, whatever keys and fees they carry.
THEOREM NeverOverdrawn == Spec => []NoOverdraft
  <1>1. OverdraftInv => NoOverdraft
    BY DEF OverdraftInv
  <1> QED BY <1>1, Inductive, PTL

\* The terms of a hold never change, whatever overlaps.
THEOREM TermsNeverChange == Spec => HoldTermsNeverChange
  <1>1. OverdraftInv /\ [Next]_vars => [TermsKept]_vars
    BY TermsStay DEF OverdraftInv
  <1> QED BY <1>1, Inductive, PTL DEF Spec, HoldTermsNeverChange

----------------------------------------------------------------------------
(* Wallets and ledger, whatever keys are repeated *)

\* Journals have calls behind them, and what went unposted had a repeated key.
KeysTold == JournalsHaveCalls /\ (unposted # NoEntries => RepeatedKey)

\* The steps that write no journal.
LEMMA NoJournal ==
    ASSUME NEW r \in Requests, Step(r), ~CreateCommit(r), ~ReleaseCommit(r), ~RefundCommit(r)
    PROVE  UNCHANGED <<wallet, account, escrowAcct, feeAcct, journals, unposted>>
  BY DEF Step, CreateEscrow, LockRead, LockConflict, ReleaseEscrow, ReleaseRead, RefundEscrow,
         RefundRead, InitiateDispute, DisputeCommit, Abort, ledger

\* A call that committed stays so.
LEMMA DoneStays ==
    ASSUME TypeOK, NEW r \in Requests, Step(r), NEW q \in Requests, pc[q] = "done"
    PROVE  q # r /\ pc'[q] = "done"
  <1>1. pc[r] # "done"
    BY DEF Step, CreateEscrow, LockRead, LockConflict, CreateCommit, ReleaseEscrow,
           ReleaseRead, ReleaseCommit, RefundEscrow, RefundRead, RefundCommit,
           InitiateDispute, DisputeCommit, Abort, Arrive, InFlight
  <1> QED BY <1>1, OthersStay

\* A commit finds a journal of its key only after another call committed with it.
LEMMA KeysStayTold ==
    ASSUME TypeOK, ArgsValidated, KeysTold, [Next]_vars
    PROVE  KeysTold'
  <1>1. ASSUME NEW r \in Requests, Step(r), UNCHANGED <<journals, unposted>>
        PROVE  KeysTold'
    <2>1. JournalsHaveCalls'
      BY <1>1, DoneStays DEF KeysTold, JournalsHaveCalls, Posted
    <2>2. ASSUME RepeatedKey
          PROVE  RepeatedKey'
      BY <1>1, <2>2, DoneStays DEF RepeatedKey
    <2> QED BY <1>1, <2>1, <2>2 DEF KeysTold, NoEntries
  <1>2. ASSUME NEW r \in Requests, Step(r), pc'[r] = "done", NEW t \in JournalKind,
               NEW u \in Users, NEW n \in Int, NEW x \in Int, NEW y \in Int,
               CreateJournal(r, t, u, n, x, y)
        PROVE  KeysTold'
    <2>1. /\ ~Posted(KeyOf[r]) => unposted' = unposted
          /\ \A k \in Keys : Posted(k)' => Posted(k) \/ k = KeyOf[r]
      BY <1>2, JournalMoves
    <2>2. JournalsHaveCalls'
      BY <1>2, <2>1, DoneStays DEF KeysTold, JournalsHaveCalls
    <2>3. ASSUME RepeatedKey
          PROVE  RepeatedKey'
      BY <1>2, <2>3, DoneStays DEF RepeatedKey
    <2>4. CASE Posted(KeyOf[r])
      <3>1. PICK q \in Requests : KeyOf[q] = KeyOf[r] /\ pc[q] = "done"
        BY <2>4, EscrowAssumption DEF KeysTold, JournalsHaveCalls
      <3>2. RepeatedKey'
        BY <1>2, <3>1, DoneStays DEF RepeatedKey
      <3> QED BY <2>2, <3>2 DEF KeysTold
    <2>5. CASE ~Posted(KeyOf[r])
      BY <2>1, <2>2, <2>3, <2>5 DEF KeysTold, NoEntries
    <2> QED BY <2>4, <2>5
  <1>3. ASSUME NEW r \in Requests, CreateCommit(r), Step(r)
        PROVE  KeysTold'
    <2> DEFINE b == arg[r].buyer  a == arg[r].amount
    <2>1. b \in Users /\ a \in Int /\ -a \in Int /\ 0 \in Int /\ "ESCROW_LOCK" \in JournalKind
      BY <1>3, ArgFields DEF ArgsValidated, Validated, InFlight, CreateCommit, JournalKind
    <2>2. CreateJournal(r, "ESCROW_LOCK", b, -a, a, 0) /\ pc'[r] = "done"
      BY <1>3, FinishType DEF CreateCommit
    <2> HIDE DEF a, b
    <2> QED BY <1>2, <1>3, <2>1, <2>2
  <1>4. ASSUME NEW r \in Requests, RefundCommit(r), Step(r)
        PROVE  KeysTold'
    <2> DEFINE b == arg[r].buyer  a == arg[r].amount
    <2>1. b \in Users /\ a \in Int /\ -a \in Int /\ 0 \in Int /\ "REFUND" \in JournalKind
      BY <1>4, ArgFields DEF ArgsValidated, Validated, InFlight, RefundCommit, JournalKind
    <2>2. CreateJournal(r, "REFUND", b, a, -a, 0) /\ pc'[r] = "done"
      BY <1>4, FinishType DEF RefundCommit
    <2> HIDE DEF a, b
    <2> QED BY <1>2, <1>4, <2>1, <2>2
  <1>5. ASSUME NEW r \in Requests, ReleaseCommit(r), Step(r)
        PROVE  KeysTold'
    <2> DEFINE s == arg[r].seller  f == arg[r].fee  a == arg[r].amount - f  x == -arg[r].amount
    <2>1. s \in Users /\ a \in Int /\ x \in Int /\ f \in Int /\ "ESCROW_RELEASE" \in JournalKind
      BY <1>5, ArgFields DEF ArgsValidated, Validated, InFlight, ReleaseCommit, JournalKind
    <2>2. CreateJournal(r, "ESCROW_RELEASE", s, a, x, f) /\ pc'[r] = "done"
      BY <1>5, FinishType DEF ReleaseCommit
    <2> HIDE DEF a, s, f, x
    <2> QED BY <1>2, <1>5, <2>1, <2>2
  <1>6. CASE UNCHANGED vars
    BY <1>6 DEF KeysTold, JournalsHaveCalls, Posted, RepeatedKey, NoEntries, vars, ledger
  <1> QED BY <1>1, <1>3, <1>4, <1>5, <1>6, NoJournal DEF Next

\* Every commit moves one wallet's available money by what it posts to the owner's
\* ledger account, or leaves unposted.
LEMMA LedgerStays ==
    ASSUME TypeOK, ArgsValidated, HoldsHaveBuyers, KeysTold, LedgerAgrees, [Next]_vars
    PROVE  LedgerAgrees'
  <1> DEFINE Told(u) == account[u] + unposted.account[u]
  <1>1. \A u \in Users : Available(wallet[u]) = Opening[u] + Told(u)
    <2>1. \A u \in Users : Opening[u] \in Int /\ account[u] \in Int /\ unposted.account[u] \in Int
      BY EscrowAssumption DEF TypeOK, Entries
    <2> QED BY <2>1 DEF LedgerAgrees
  <1>2. \A u \in Users : wallet[u] \in Row /\ Told(u) \in Int /\ Opening[u] \in Int
    BY EscrowAssumption DEF TypeOK, Entries
  <1>3. wallet \in [Users -> Row]
    BY DEF TypeOK
  <1>4. /\ \A u \in Users : account'[u] \in Int /\ unposted'.account[u] \in Int
        /\ unposted' # NoEntries => RepeatedKey'
    BY NextType, KeysStayTold DEF TypeOK, Entries, KeysTold, NoEntries
  <1>5. ASSUME \A u \in Users : Available(wallet'[u]) = Opening[u] + Told(u)'
        PROVE  LedgerAgrees'
    BY <1>2, <1>4, <1>5 DEF LedgerAgrees, NoEntries
  <1> HIDE DEF Told
  <1>6. ASSUME NEW r \in Requests, CreateCommit(r)
        PROVE  LedgerAgrees'
    <2> DEFINE b == arg[r].buyer  a == arg[r].amount
    <2>1. b \in Users /\ a \in Int /\ -a \in Int /\ 0 \in Int /\ "ESCROW_LOCK" \in JournalKind
      BY <1>6, ArgFields DEF ArgsValidated, Validated, CreateCommit, InFlight, JournalKind
    <2>2. wallet' = [wallet EXCEPT ![b] = LockBalance(wallet[b], a)]
          /\ CreateJournal(r, "ESCROW_LOCK", b, -a, a, 0)
      BY <1>6 DEF CreateCommit
    <2> HIDE DEF a, b
    <2>3. \A u \in Users : Told(u)' = Told(u) + (IF u = b THEN -a ELSE 0)
      BY <2>1, <2>2, JournalMoves DEF Told
    <2>4. Available(LockBalance(wallet[b], a)) = Available(wallet[b]) - a
      BY <1>2, <2>1, RowMoves
    <2> QED BY <1>1, <1>2, <1>3, <1>5, <2>1, <2>2, <2>3, <2>4
  <1>7. ASSUME NEW r \in Requests, RefundCommit(r)
        PROVE  LedgerAgrees'
    <2> DEFINE b == arg[r].buyer  a == arg[r].amount
    <2>1. b \in Users /\ a \in Int /\ -a \in Int /\ 0 \in Int /\ "REFUND" \in JournalKind
      BY <1>7, ArgFields DEF ArgsValidated, Validated, RefundCommit, InFlight, JournalKind
    <2>2. wallet' = [wallet EXCEPT ![b] = UnlockBalance(wallet[b], a)]
          /\ CreateJournal(r, "REFUND", b, a, -a, 0)
      BY <1>7 DEF RefundCommit
    <2> HIDE DEF a, b
    <2>3. \A u \in Users : Told(u)' = Told(u) + (IF u = b THEN a ELSE 0)
      BY <2>1, <2>2, JournalMoves DEF Told
    <2>4. Available(UnlockBalance(wallet[b], a)) = Available(wallet[b]) + a
      BY <1>2, <2>1, RowMoves
    <2> QED BY <1>1, <1>2, <1>3, <1>5, <2>1, <2>2, <2>3, <2>4
  <1>8. ASSUME NEW r \in Requests, ReleaseCommit(r)
        PROVE  LedgerAgrees'
    <2> DEFINE b == arg[r].buyer  s == arg[r].seller  f == arg[r].fee
               a == arg[r].amount - f  x == -arg[r].amount
    <2>1. /\ b \in Users /\ s \in Users /\ f \in Nat /\ a \in Nat
          /\ f \in Int /\ a \in Int /\ x \in Int /\ "ESCROW_RELEASE" \in JournalKind
      BY <1>8, ArgFields DEF ArgsValidated, Validated, ReleaseCommit, InFlight, JournalKind
    <2>2. wallet' = PayOut(wallet, b, s, a, f) /\ CreateJournal(r, "ESCROW_RELEASE", s, a, x, f)
      BY <1>8 DEF ReleaseCommit
    <2> HIDE DEF a, b, s, f, x
    <2>3. \A u \in Users : Told(u)' = Told(u) + (IF u = s THEN a ELSE 0)
      <3>1. s \in Users /\ a \in Int /\ x \in Int /\ f \in Int /\ "ESCROW_RELEASE" \in JournalKind
        BY <2>1
      <3>2. CreateJournal(r, "ESCROW_RELEASE", s, a, x, f)
        BY <2>2
      <3>3. \A v \in Users : account'[v] + unposted'.account[v]
                = account[v] + unposted.account[v] + (IF v = s THEN a ELSE 0)
        BY <3>1, <3>2, JournalMoves
      <3> QED BY <3>3 DEF Told
    <2>4. \A u \in Users : Available(PayOut(wallet, b, s, a, f)[u])
                               = Available(wallet[u]) + (IF u = s THEN a ELSE 0)
      BY <1>3, <2>1, PayOutMoves
    <2> QED BY <1>1, <1>2, <1>5, <2>1, <2>2, <2>3, <2>4
  <1>9. CASE UNCHANGED <<wallet, account, escrowAcct, feeAcct, journals, unposted>>
    BY <1>1, <1>5, <1>9 DEF Told
  <1> QED BY <1>6, <1>7, <1>8, <1>9, NoJournal DEF Next, vars, ledger

LEMMA InitLedger == Init => KeysTold /\ LedgerAgrees
  <1> SUFFICES ASSUME Init PROVE KeysTold /\ LedgerAgrees
    OBVIOUS
  <1>1. KeysTold
    BY DEF Init, KeysTold, JournalsHaveCalls, Posted
  <1>2. \A u \in Users : NoEntries.account[u] = 0
    BY DEF NoEntries
  <1>3. LedgerAgrees
    BY <1>1, <1>2, EscrowAssumption DEF Init, KeysTold, LedgerAgrees, Opened, Available
  <1> QED BY <1>1, <1>3

\* What is available in each wallet has moved from its opening balance by what the
\* ledger says, but for what calls moved that found a journal of their key.
THEOREM LedgerAgreement == Spec => []LedgerAgrees
  <1> DEFINE LedgerInv == KeysTold /\ LedgerAgrees
  <1>1. Init => LedgerInv
    BY InitLedger
  <1>2. OverdraftInv /\ LedgerInv /\ [Next]_vars => LedgerInv'
    BY KeysStayTold, LedgerStays DEF OverdraftInv
  <1>3. LedgerInv => LedgerAgrees
    OBVIOUS
  <1> HIDE DEF LedgerInv
  <1> QED BY <1>1, <1>2, <1>3, Inductive, PTL DEF Spec

----------------------------------------------------------------------------
(* The terminal statuses *)

\* A call whose next step is to settle a hold was already about to, or has just found
\* its hold open; it writes nothing then.
LEMMA OpenWhenValidated ==
    ASSUME TypeOK, NEW r \in Requests, Step(r), pc'[r] \in Settling
    PROVE  /\ hold' = hold
           /\ \/ pc[r] \in Settling /\ arg'[r].order = arg[r].order
              \/ arg'[r].order \in Orders /\ hold[arg'[r].order].status \notin Settled
  <1> USE DEF Settling
  <1>1. ASSUME NEW o \in Orders, EscrowStateMachine[hold[o].status] # {}
        PROVE  hold[o].status \notin Settled
    BY <1>1 DEF TypeOK, Hold, HoldStatus, EscrowStateMachine, Settled
  <1>2. ASSUME NEW actor \in Users \cup {System}, NEW o \in Orders, NEW f \in Fees,
               ReleaseEscrow(r, actor, o, f)
        PROVE  hold' = hold /\ arg'[r].order \in Orders
               /\ hold[arg'[r].order].status \notin Settled
    BY <1>1, <1>2 DEF TypeOK, ReleaseEscrow, Call
  <1>3. ASSUME NEW actor \in Users \cup {System}, NEW o \in Orders,
               RefundEscrow(r, actor, o)
        PROVE  hold' = hold /\ arg'[r].order \in Orders
               /\ hold[arg'[r].order].status \notin Settled
    BY <1>1, <1>3 DEF TypeOK, RefundEscrow, Call
  <1>4. ASSUME NEW actor \in Users, NEW o \in Orders, InitiateDispute(r, actor, o)
        PROVE  hold' = hold /\ arg'[r].order \in Orders
               /\ hold[arg'[r].order].status \notin Settled
    BY <1>1, <1>4 DEF TypeOK, InitiateDispute, Call
  <1>5. ASSUME ReleaseRead(r) \/ RefundRead(r)
        PROVE  hold' = hold /\ pc[r] \in Settling /\ arg'[r].order = arg[r].order
    BY <1>5 DEF TypeOK, Arg, ReleaseRead, RefundRead
  <1>6. ASSUME NEW l \in {"lock", "cas", "done", "failed"}, Goto(r, l)
        PROVE  FALSE
    BY <1>6 DEF TypeOK, Goto
  <1>7. ASSUME NEW u \in Users, NEW o \in Orders, NEW s \in MaybeUser,
               NEW a \in Amounts, CreateEscrow(r, u, o, s, a)
        PROVE  FALSE
    BY <1>6, <1>7 DEF CreateEscrow, Arrive
  <1>8. CASE LockRead(r) \/ LockConflict(r) \/ CreateCommit(r) \/ ReleaseCommit(r)
             \/ RefundCommit(r) \/ DisputeCommit(r) \/ Abort(r)
    BY <1>6, <1>8 DEF LockRead, LockConflict, CreateCommit, ReleaseCommit, RefundCommit,
                      DisputeCommit, Abort, Finish, Answer
  <1> QED BY <1>2, <1>3, <1>4, <1>5, <1>7, <1>8 DEF Step

\* A settled hold is written only by a call that had validated it, and the call is
\* answered with that.
LEMMA SettledStay ==
    ASSUME TypeOK, ArgsValidated, [Next]_vars
    PROVE  SettledKept
  <1> SUFFICES ASSUME NEW o \in Orders, hold[o].status \in Settled
               PROVE  /\ Stragglers(o)' \subseteq Stragglers(o)
                      /\ hold'[o] # hold[o] \/ order'[o] # order[o] =>
                             Stragglers(o)' # Stragglers(o)
    BY DEF SettledKept
  <1>1. ASSUME NEW r \in Requests, Step(r)
        PROVE  Stragglers(o)' \subseteq Stragglers(o)
    <2> SUFFICES ASSUME NEW q \in Stragglers(o)'
                 PROVE  q \in Stragglers(o)
      OBVIOUS
    <2>1. q \in Requests /\ pc'[q] \in Settling /\ arg'[q].order = o
      BY DEF Stragglers
    <2>2. CASE q # r
      BY <1>1, <2>1, <2>2, OthersStay DEF Stragglers
    <2>3. CASE q = r
      BY <1>1, <2>1, <2>3, OpenWhenValidated DEF Stragglers
    <2> QED BY <2>2, <2>3
  <1>2. ASSUME NEW r \in Requests, pc[r] \in Settling, pc'[r] = "done", NEW h, NEW t,
               hold' = [hold EXCEPT ![arg[r].order] = h],
               order' = [order EXCEPT ![arg[r].order] = t]
        PROVE  hold'[o] # hold[o] \/ order'[o] # order[o] => Stragglers(o)' # Stragglers(o)
    <2>1. CASE arg[r].order = o
      <3>1. r \in Stragglers(o)
        BY <1>2, <2>1 DEF Stragglers
      <3>2. r \notin Stragglers(o)'
        BY <1>2 DEF Stragglers, Settling
      <3> QED BY <3>1, <3>2
    <2>2. CASE arg[r].order # o
      BY <1>2, <2>2 DEF TypeOK
    <2> QED BY <2>1, <2>2
  <1>3. ASSUME NEW r \in Requests, ReleaseCommit(r) \/ RefundCommit(r) \/ DisputeCommit(r)
        PROVE  hold'[o] # hold[o] \/ order'[o] # order[o] => Stragglers(o)' # Stragglers(o)
    <2>1. pc[r] \in Settling /\ pc'[r] = "done"
      BY <1>3, FinishType DEF ReleaseCommit, RefundCommit, DisputeCommit, Settling
    <2> QED BY <1>2, <1>3, <2>1 DEF ReleaseCommit, RefundCommit, DisputeCommit
  <1>4. ASSUME NEW r \in Requests, CreateCommit(r)
        PROVE  hold'[o] = hold[o] /\ order'[o] = order[o]
    <2>1. arg[r].order # o
      BY <1>4 DEF CreateCommit, OrderIdFree, Settled
    <2> QED BY <1>4, <2>1 DEF TypeOK, CreateCommit
  <1>5. ASSUME NEW r \in Requests, Step(r), hold' = hold, order' = order
        PROVE  hold'[o] = hold[o] /\ order'[o] = order[o]
    BY <1>5
  <1>6. CASE UNCHANGED vars
    BY <1>6 DEF vars, Stragglers
  <1> QED BY <1>1, <1>3, <1>4, <1>5, <1>6 DEF Next, Step, CreateEscrow, LockRead,
             LockConflict, ReleaseEscrow, ReleaseRead, RefundEscrow, RefundRead,
             InitiateDispute, Abort

\* The statuses the state machine calls terminal are terminal, whatever overlaps, but
\* for the calls that validated the hold before it was settled: no call joins them,
\* and each of them writes once at most.
THEOREM SettledFinal == Spec => SettledHoldsAreFinal
  <1>1. OverdraftInv /\ [Next]_vars => [SettledKept]_vars
    BY SettledStay DEF OverdraftInv
  <1> QED BY <1>1, Inductive, PTL DEF Spec, SettledHoldsAreFinal

----------------------------------------------------------------------------
(* Calls that take turns on an order *)

LEMMA StaysAlone ==
    ASSUME TypeOK, ArgsValidated, Serialised, AloneOnOrder, [Next]_vars
    PROVE  AloneOnOrder'
  <1>1. ASSUME NEW r \in Requests, Step(r)
        PROVE  AloneOnOrder'
    <2> SUFFICES ASSUME NEW q \in Requests, q # r, InFlight(q)', InFlight(r)'
                 PROVE  arg'[q].order # arg'[r].order
      BY <1>1, OthersStay DEF AloneOnOrder, InFlight
    <2>1. pc'[q] = pc[q] /\ arg'[q] = arg[q] /\ InFlight(q)
      BY <1>1, OthersStay DEF InFlight
    <2>2. ASSUME NEW o \in Orders, NEW l \in Label, Arrive(r, o, l), arg'[r].order = o
          PROVE  arg'[q].order # arg'[r].order
      BY <2>1, <2>2 DEF Arrive
    <2>3. ASSUME InFlight(r), arg'[r].order = arg[r].order
          PROVE  arg'[q].order # arg'[r].order
      BY <2>1, <2>3 DEF AloneOnOrder
    <2>4. CASE LockRead(r) \/ LockConflict(r) \/ ReleaseRead(r) \/ RefundRead(r)
      <3>1. InFlight(r)
        BY <2>4 DEF LockRead, LockConflict, ReleaseRead, RefundRead, InFlight
      <3>2. arg'[r].order = arg[r].order
        BY <2>4 DEF TypeOK, Arg, LockRead, LockConflict, ReleaseRead, RefundRead
      <3> QED BY <2>3, <3>1, <3>2
    <2>5. ASSUME NEW u \in Users, NEW o \in Orders, NEW s \in MaybeUser,
                 NEW a \in Amounts, CreateEscrow(r, u, o, s, a)
          PROVE  arg'[q].order # arg'[r].order
      BY <2>2, <2>5 DEF TypeOK, CreateEscrow, Call, Label
    <2>6. ASSUME NEW actor \in Users \cup {System}, NEW o \in Orders, NEW f \in Fees,
                 ReleaseEscrow(r, actor, o, f)
          PROVE  arg'[q].order # arg'[r].order
      BY <2>2, <2>6 DEF TypeOK, ReleaseEscrow, Call, Label
    <2>7. ASSUME NEW actor \in Users \cup {System}, NEW o \in Orders,
                 RefundEscrow(r, actor, o)
          PROVE  arg'[q].order # arg'[r].order
      BY <2>2, <2>7 DEF TypeOK, RefundEscrow, Call, Label
    <2>8. ASSUME NEW actor \in Users, NEW o \in Orders, InitiateDispute(r, actor, o)
          PROVE  arg'[q].order # arg'[r].order
      BY <2>2, <2>8 DEF TypeOK, InitiateDispute, Call, Label
    <2>9. CASE CreateCommit(r) \/ ReleaseCommit(r) \/ RefundCommit(r) \/ DisputeCommit(r)
               \/ Abort(r)
      BY <2>9, FinishType, AnswerType
      DEF CreateCommit, ReleaseCommit, RefundCommit, DisputeCommit, Abort, InFlight
    <2> QED BY <1>1, <2>4, <2>5, <2>6, <2>7, <2>8, <2>9 DEF Step
  <1>2. CASE UNCHANGED vars
    BY <1>2 DEF AloneOnOrder, InFlight, vars
  <1> QED BY <1>1, <1>2 DEF Next

LEMMA StaysOpen ==
    ASSUME TypeOK, ArgsValidated, Serialised, AloneOnOrder, StillOpen, [Next]_vars
    PROVE  StillOpen'
  <1>1. ASSUME NEW r \in Requests, Step(r)
        PROVE  StillOpen'
    <2>1. ASSUME NEW q \in Requests, q # r, pc'[q] \in Settling
          PROVE  hold'[arg'[q].order].status \notin Settled
      <3>1. pc'[q] = pc[q] /\ arg'[q] = arg[q]
        BY <1>1, <2>1, OthersStay
      <3>2. InFlight(q) /\ arg[q].order \in Orders /\ hold[arg[q].order].status \notin Settled
        BY <2>1, <3>1 DEF StillOpen, ArgsValidated, Validated, InFlight, Settling
      <3>3. CASE hold' = hold
        BY <3>1, <3>2, <3>3
      <3>4. ASSUME InFlight(r), NEW h, hold' = [hold EXCEPT ![arg[r].order] = h]
            PROVE  hold'[arg'[q].order].status \notin Settled
        <4>1. arg[r].order # arg[q].order
          BY <2>1, <3>2, <3>4 DEF AloneOnOrder
        <4> QED BY <3>1, <3>2, <3>4, <4>1 DEF TypeOK
      <3>5. CASE CreateCommit(r)
        BY <3>4, <3>5 DEF CreateCommit, InFlight
      <3>6. CASE ReleaseCommit(r)
        BY <3>4, <3>6 DEF ReleaseCommit, InFlight
      <3>7. CASE RefundCommit(r)
        BY <3>4, <3>7 DEF RefundCommit, InFlight
      <3>8. CASE DisputeCommit(r)
        BY <3>4, <3>8 DEF DisputeCommit, InFlight
      <3> QED BY <1>1, <3>3, <3>5, <3>6, <3>7, <3>8 DEF Step, CreateEscrow, LockRead,
                 LockConflict, ReleaseEscrow, ReleaseRead, RefundEscrow, RefundRead,
                 InitiateDispute, Abort
    <2>2. ASSUME pc'[r] \in Settling
          PROVE  hold'[arg'[r].order].status \notin Settled
      BY <1>1, <2>2, OpenWhenValidated DEF StillOpen
    <2> QED BY <2>1, <2>2 DEF StillOpen
  <1>2. CASE UNCHANGED vars
    BY <1>2 DEF StillOpen, vars
  <1> QED BY <1>1, <1>2 DEF Next

----------------------------------------------------------------------------
(* What is locked is what the open holds add up to *)

\* A release takes share and fee out of the buyer's lock; what all the wallets
\* hold goes down by the fee alone.
LEMMA PayOutBooks ==
    ASSUME NEW W \in [Users -> Row], NEW b \in Users, NEW s \in Users,
           NEW a \in Nat, NEW f \in Nat
    PROVE  /\ Held(PayOut(W, b, s, a, f)) = Held(W) - f
           /\ LockedIn(PayOut(W, b, s, a, f)) = LockedIn(W) - (a + f)
  <1> DEFINE W1 == [W EXCEPT ![b] = TransferOut(W[b], a)]
             W2 == [W1 EXCEPT ![s] = TransferIn(W1[s], a)]
             W3 == [W2 EXCEPT ![b] = TakeLocked(W2[b], f)]
  <1> USE EscrowAssumption
  <1>1. /\ W1 \in [Users -> Row]
        /\ Held(W1) = Held(W) - a /\ LockedIn(W1) = LockedIn(W) - a
        /\ \A u \in Users : W1[u].locked = W[u].locked - (IF u = b THEN a ELSE 0)
    <2>1. W[b] \in Row /\ a \in Int /\ \A u \in Users : W[u].locked \in Int /\ W[u].balance \in Int
      BY DEF Row
    <2>2. /\ TransferOut(W[b], a) \in Row
          /\ TransferOut(W[b], a).balance = W[b].balance - a
          /\ TransferOut(W[b], a).locked = W[b].locked - a
      BY <2>1, RowMoves, Columns
    <2>3. Held(W) \in Int /\ LockedIn(W) \in Int
      BY HeldType
    <2>4. W1 \in [Users -> Row] /\ W1[b] = TransferOut(W[b], a) /\ \A u \in Users \ {b} : W1[u] = W[u]
      BY <2>2
    <2>5. /\ Held(W1) = Held(W) + W1[b].balance - W[b].balance
          /\ LockedIn(W1) = LockedIn(W) + W1[b].locked - W[b].locked
      <3> HIDE DEF W1
      <3> QED BY <2>4, OneRowDiffers
    <2> QED BY <2>1, <2>2, <2>3, <2>4, <2>5
  <1>2. /\ W2 \in [Users -> Row]
        /\ Held(W2) = Held(W1) + a /\ LockedIn(W2) = LockedIn(W1)
        /\ \A u \in Users : W2[u].locked = W1[u].locked
    <2> HIDE DEF W1
    <2>1. /\ W1[s] \in Row /\ a \in Int
          /\ \A u \in Users : W1[u].locked \in Int /\ W1[u].balance \in Int
      BY <1>1 DEF Row
    <2>2. /\ TransferIn(W1[s], a) \in Row
          /\ TransferIn(W1[s], a).balance = W1[s].balance + a
          /\ TransferIn(W1[s], a).locked = W1[s].locked
      BY <2>1, RowMoves, Columns
    <2>3. Held(W1) \in Int /\ LockedIn(W1) \in Int
      BY <1>1, HeldType
    <2>4. W2 \in [Users -> Row] /\ W2[s] = TransferIn(W1[s], a) /\ \A u \in Users \ {s} : W2[u] = W1[u]
      BY <1>1, <2>2
    <2>5. /\ Held(W2) = Held(W1) + W2[s].balance - W1[s].balance
          /\ LockedIn(W2) = LockedIn(W1) + W2[s].locked - W1[s].locked
      <3> HIDE DEF W2
      <3> QED BY <1>1, <2>4, OneRowDiffers
    <2> QED BY <1>1, <2>1, <2>2, <2>3, <2>4, <2>5
  <1>3. /\ W3 \in [Users -> Row]
        /\ Held(W3) = Held(W2) - f /\ LockedIn(W3) = LockedIn(W2) - f
        /\ \A u \in Users : W3[u].locked = W2[u].locked - (IF u = b THEN f ELSE 0)
    <2> HIDE DEF W2
    <2>1. /\ W2[b] \in Row /\ f \in Int
          /\ \A u \in Users : W2[u].locked \in Int /\ W2[u].balance \in Int
      BY <1>2 DEF Row
    <2>2. /\ TakeLocked(W2[b], f) \in Row
          /\ TakeLocked(W2[b], f).balance = W2[b].balance - f
          /\ TakeLocked(W2[b], f).locked = W2[b].locked - f
      BY <2>1, RowMoves, Columns
    <2>3. Held(W2) \in Int /\ LockedIn(W2) \in Int
      BY <1>2, HeldType
    <2>4. W3 \in [Users -> Row] /\ W3[b] = TakeLocked(W2[b], f) /\ \A u \in Users \ {b} : W3[u] = W2[u]
      BY <1>2, <2>2
    <2>5. /\ Held(W3) = Held(W2) + W3[b].balance - W2[b].balance
          /\ LockedIn(W3) = LockedIn(W2) + W3[b].locked - W2[b].locked
      <3> HIDE DEF W1, W2, W3
      <3> QED BY <1>2, <2>4, OneRowDiffers
    <2> QED BY <1>2, <2>1, <2>2, <2>3, <2>4, <2>5
  <1>4. PayOut(W, b, s, a, f) = W3
    BY DEF PayOut
  <1> HIDE DEF W1, W2, W3
  <1>5. Held(W) \in Int /\ LockedIn(W) \in Int
    BY HeldType
  <1>6. \A u \in Users : W[u].locked \in Int /\ W1[u].locked \in Int
    BY <1>1 DEF Row
  <1>7. Held(W3) = Held(W) - f /\ LockedIn(W3) = LockedIn(W) - (a + f)
    BY <1>1, <1>2, <1>3, <1>5
  <1>8. \A u \in Users : W3[u].locked = W[u].locked - (IF u = b THEN a + f ELSE 0)
    BY <1>1, <1>2, <1>3, <1>6
  <1> QED BY <1>4, <1>7

\* Only the buyer's lock goes down.
LEMMA PayOutLocks ==
    ASSUME NEW W \in [Users -> Row], NEW b \in Users, NEW s \in Users,
           NEW a \in Nat, NEW f \in Nat, NEW u \in Users
    PROVE  PayOut(W, b, s, a, f)[u].locked = W[u].locked - (IF u = b THEN a + f ELSE 0)
  <1>1. W[u] \in Row /\ W[b] \in Row /\ W[s] \in Row /\ W[u].locked \in Int
    BY DEF Row
  <1> QED BY <1>1 DEF PayOut, TransferOut, TransferIn, TakeLocked, Add, Row

\* What was taken out of escrow's account, posted or not.
EscrowKept == escrowAcct + unposted.escrow

LEMMA TotalsMove ==
    ASSUME TypeOK, ArgsValidated, NEW r \in Requests
    PROVE  /\ EscrowKept \in Int /\ FeesTaken \in Int
           /\ CreateCommit(r) => EscrowKept' = EscrowKept + arg[r].amount /\ FeesTaken' = FeesTaken
           /\ RefundCommit(r) => EscrowKept' = EscrowKept - arg[r].amount /\ FeesTaken' = FeesTaken
           /\ ReleaseCommit(r) => /\ EscrowKept' = EscrowKept - arg[r].amount
                                  /\ FeesTaken' = FeesTaken + arg[r].fee
  <1>1. EscrowKept \in Int /\ FeesTaken \in Int
    BY DEF TypeOK, Entries, EscrowKept, FeesTaken
  <1>2. ASSUME NEW t \in JournalKind, NEW u \in Users, NEW n \in Int, NEW x \in Int,
               NEW y \in Int, CreateJournal(r, t, u, n, x, y)
        PROVE  EscrowKept' = EscrowKept + x /\ FeesTaken' = FeesTaken + y
    BY <1>2, JournalMoves DEF EscrowKept, FeesTaken
  <1>3. ASSUME CreateCommit(r)
        PROVE  EscrowKept' = EscrowKept + arg[r].amount /\ FeesTaken' = FeesTaken
    <2> DEFINE b == arg[r].buyer  a == arg[r].amount
    <2>1. b \in Users /\ a \in Int /\ -a \in Int /\ 0 \in Int /\ "ESCROW_LOCK" \in JournalKind
      BY <1>3, ArgFields DEF ArgsValidated, Validated, InFlight, CreateCommit, JournalKind
    <2>2. CreateJournal(r, "ESCROW_LOCK", b, -a, a, 0)
      BY <1>3 DEF CreateCommit
    <2>3. EscrowKept' = EscrowKept + a /\ FeesTaken' = FeesTaken + 0
      <3> HIDE DEF a, b
      <3> QED BY <1>2, <2>1, <2>2
    <2> QED BY <1>1, <2>3
  <1>4. ASSUME RefundCommit(r)
        PROVE  EscrowKept' = EscrowKept - arg[r].amount /\ FeesTaken' = FeesTaken
    <2> DEFINE b == arg[r].buyer  a == arg[r].amount  x == -a
    <2>1. b \in Users /\ a \in Int /\ x \in Int /\ 0 \in Int /\ "REFUND" \in JournalKind
      BY <1>4, ArgFields DEF ArgsValidated, Validated, InFlight, RefundCommit, JournalKind
    <2>2. CreateJournal(r, "REFUND", b, a, x, 0)
      BY <1>4 DEF RefundCommit
    <2>3. EscrowKept' = EscrowKept + x /\ FeesTaken' = FeesTaken + 0
      <3> HIDE DEF a, b, x
      <3> QED BY <1>2, <2>1, <2>2
    <2> QED BY <1>1, <2>1, <2>3
  <1>5. ASSUME ReleaseCommit(r)
        PROVE  EscrowKept' = EscrowKept - arg[r].amount /\ FeesTaken' = FeesTaken + arg[r].fee
    <2> DEFINE s == arg[r].seller  f == arg[r].fee  n == arg[r].amount - f  x == -arg[r].amount
    <2>1. s \in Users /\ n \in Int /\ x \in Int /\ f \in Int /\ "ESCROW_RELEASE" \in JournalKind
      BY <1>5, ArgFields DEF ArgsValidated, Validated, InFlight, ReleaseCommit, JournalKind
    <2>2. CreateJournal(r, "ESCROW_RELEASE", s, n, x, f)
      BY <1>5 DEF ReleaseCommit
    <2>3. EscrowKept' = EscrowKept + x /\ FeesTaken' = FeesTaken + f
      <3> HIDE DEF s, f, n, x
      <3> QED BY <1>2, <2>1, <2>2
    <2> QED BY <1>1, <2>3, ArgFields
  <1> QED BY <1>1, <1>3, <1>4, <1>5

\* Every commit moves what the wallets hold, what they lock, the fees and the
\* ESCROW_HOLDING account together, posted or not.
LEMMA BooksStay ==
    ASSUME TypeOK, ArgsValidated, HoldsHaveBuyers, BooksBalance, [Next]_vars
    PROVE  BooksBalance'
  <1> USE EscrowAssumption
  <1>1. wallet \in [Users -> Row] /\ EscrowKept \in Int /\ FeesTaken \in Int
    BY DEF TypeOK, Entries, EscrowKept, FeesTaken
  <1>2. Held(wallet) \in Int /\ LockedIn(wallet) \in Int
    BY <1>1, HeldType
  <1>3. Held(wallet) + FeesTaken = SumFunction(Opening) /\ EscrowKept = LockedIn(wallet)
    <2>1. feeAcct \in Int /\ unposted.fees \in Int
      BY DEF TypeOK, Entries
    <2> QED BY <1>2, <2>1 DEF BooksBalance, EscrowKept, FeesTaken
  <1>9. ASSUME Held(wallet') + FeesTaken' = SumFunction(Opening), EscrowKept' = LockedIn(wallet'),
               Held(wallet') \in Int
        PROVE  BooksBalance'
    <2>1. feeAcct' \in Int /\ unposted'.fees \in Int
      BY NextType DEF TypeOK, Entries
    <2> QED BY <1>9, <2>1 DEF BooksBalance, EscrowKept, FeesTaken
  <1>4. \A u \in Users : wallet[u] \in Row /\ wallet[u].balance \in Int /\ wallet[u].locked \in Int
    BY <1>1 DEF Row
  <1>5. ASSUME NEW r \in Requests, CreateCommit(r)
        PROVE  BooksBalance'
    <2> DEFINE b == arg[r].buyer  a == arg[r].amount
    <2>1. b \in Users /\ a \in Int
      BY <1>5, ArgFields DEF ArgsValidated, Validated, InFlight, CreateCommit
    <2>2. wallet' = [wallet EXCEPT ![b] = LockBalance(wallet[b], a)]
      BY <1>5 DEF CreateCommit
    <2>3. EscrowKept' = EscrowKept + a /\ FeesTaken' = FeesTaken
      BY <1>5, TotalsMove
    <2> HIDE DEF a, b
    <2>4. /\ LockBalance(wallet[b], a) \in Row
          /\ LockBalance(wallet[b], a).balance = wallet[b].balance
          /\ LockBalance(wallet[b], a).locked = wallet[b].locked + a
      BY <1>4, <2>1, RowMoves, Columns
    <2>5. /\ wallet' \in [Users -> Row] /\ wallet'[b] = LockBalance(wallet[b], a)
          /\ \A u \in Users \ {b} : wallet'[u] = wallet[u]
      BY <1>1, <2>1, <2>2, <2>4
    <2>6. /\ Held(wallet') = Held(wallet) + wallet'[b].balance - wallet[b].balance
          /\ LockedIn(wallet') = LockedIn(wallet) + wallet'[b].locked - wallet[b].locked
      BY <1>1, <2>1, <2>5, OneRowDiffers
    <2>7. Held(wallet') = Held(wallet) /\ LockedIn(wallet') = LockedIn(wallet) + a
      BY <1>2, <1>4, <2>1, <2>4, <2>5, <2>6
    <2> QED BY <1>1, <1>2, <1>3, <1>9, <2>1, <2>3, <2>7
  <1>6. ASSUME NEW r \in Requests, RefundCommit(r)
        PROVE  BooksBalance'
    <2> DEFINE b == arg[r].buyer  a == arg[r].amount
    <2>0. pc[r] = "refundCommit" /\ a \in Nat
      BY <1>6, ArgFields DEF RefundCommit
    <2>1. b \in Users /\ a \in Int
      BY <2>0 DEF ArgsValidated, Validated, InFlight
    <2>2. wallet' = [wallet EXCEPT ![b] = UnlockBalance(wallet[b], a)]
      BY <1>6 DEF RefundCommit
    <2>3. EscrowKept' = EscrowKept - a /\ FeesTaken' = FeesTaken
      BY <1>6, TotalsMove
    <2> HIDE DEF a, b
    <2>4. /\ UnlockBalance(wallet[b], a) \in Row
          /\ UnlockBalance(wallet[b], a).balance = wallet[b].balance
          /\ UnlockBalance(wallet[b], a).locked = wallet[b].locked - a
      BY <1>4, <2>1, RowMoves, Columns
    <2>5. /\ wallet' \in [Users -> Row] /\ wallet'[b] = UnlockBalance(wallet[b], a)
          /\ \A u \in Users \ {b} : wallet'[u] = wallet[u]
      BY <1>1, <2>1, <2>2, <2>4
    <2>6. /\ Held(wallet') = Held(wallet) + wallet'[b].balance - wallet[b].balance
          /\ LockedIn(wallet') = LockedIn(wallet) + wallet'[b].locked - wallet[b].locked
      BY <1>1, <2>1, <2>5, OneRowDiffers
    <2>7. Held(wallet') = Held(wallet) /\ LockedIn(wallet') = LockedIn(wallet) - a
      BY <1>2, <1>4, <2>1, <2>4, <2>5, <2>6
    <2> QED BY <1>1, <1>2, <1>3, <1>9, <2>1, <2>3, <2>7
  <1>7. ASSUME NEW r \in Requests, ReleaseCommit(r)
        PROVE  BooksBalance'
    <2> DEFINE b == arg[r].buyer  s == arg[r].seller  f == arg[r].fee
               a == arg[r].amount - f
    <2>1. b \in Users /\ s \in Users /\ f \in Nat /\ a \in Nat /\ arg[r].amount = a + f
      BY <1>7, ArgFields DEF ArgsValidated, Validated, InFlight, ReleaseCommit
    <2>2. wallet' = PayOut(wallet, b, s, a, f)
      BY <1>7 DEF ReleaseCommit
    <2>3. EscrowKept' = EscrowKept - arg[r].amount /\ FeesTaken' = FeesTaken + f
      BY <1>7, TotalsMove
    <2> HIDE DEF a, b, s, f
    <2>4. Held(wallet') = Held(wallet) - f /\ LockedIn(wallet') = LockedIn(wallet) - (a + f)
      BY <1>1, <2>1, <2>2, PayOutBooks
    <2> QED BY <1>1, <1>2, <1>3, <1>9, <2>1, <2>3, <2>4
  <1>8. CASE UNCHANGED <<wallet, account, escrowAcct, feeAcct, journals, unposted>>
    BY <1>8 DEF BooksBalance
  <1> QED BY <1>5, <1>6, <1>7, <1>8, NoJournal DEF Next, vars, ledger

LEMMA InitBooks == Init => BooksBalance
  <1> SUFFICES ASSUME Init PROVE BooksBalance
    OBVIOUS
  <1> USE EscrowAssumption
  <1> DEFINE bal == [u \in Users |-> wallet[u].balance]
             loc == [u \in Users |-> wallet[u].locked]
  <1>1. \A u \in Users : wallet[u] = Opened(Opening[u])
    BY DEF Init
  <1>2. DOMAIN wallet = Users /\ DOMAIN Opening = Users /\ escrowAcct = 0 /\ feeAcct = 0
        /\ unposted.escrow = 0 /\ unposted.fees = 0
    BY DEF Init, NoEntries
  <1>3. \A u \in Users : bal[u] = Opening[u] /\ loc[u] = 0
    <2>1. \A u \in Users : wallet[u].balance = Opening[u] /\ wallet[u].locked = 0
      <3>1. \A b : Opened(b).balance = b /\ Opened(b).locked = 0
        BY DEF Opened
      <3> QED BY <1>1, <3>1
    <2> QED BY <2>1
  <1>4. Held(wallet) = SumFunctionOnSet(bal, Users) /\ LockedIn(wallet) = SumFunctionOnSet(loc, Users)
    BY <1>2 DEF Held, LockedIn, SumFunction
  <1> HIDE DEF bal, loc
  <1>5. SumFunctionOnSet(bal, Users) = SumFunctionOnSet(Opening, Users)
    BY <1>3, SumSame
  <1>6. SumFunctionOnSet(loc, Users) = 0
    BY <1>3, SumZero
  <1>7. SumFunctionOnSet(Opening, Users) \in Int
    BY SumType DEF Ints
  <1>8. SumFunction(Opening) = SumFunctionOnSet(Opening, Users)
    BY <1>2 DEF SumFunction
  <1> QED BY <1>2, <1>4, <1>5, <1>6, <1>7, <1>8 DEF BooksBalance

\* Wallets and fees add up to what there was, and ESCROW_HOLDING is what all the
\* wallets have locked but for what repeated keys left unposted, for any number of
\* users and whatever calls overlap.
THEOREM BooksAlwaysBalance == Spec => []BooksBalance
  <1>1. OverdraftInv /\ BooksBalance /\ [Next]_vars => BooksBalance'
    BY BooksStay DEF OverdraftInv
  <1> QED BY <1>1, InitBooks, Inductive, PTL DEF Spec

----------------------------------------------------------------------------
(* Escrow implements Custody *)

\* How the statuses of a hold are seen.
LEMMA States ==
    /\ State["NONE"] = "none"
    /\ \A t \in HoldStatus \ ({"NONE"} \cup Settled) : State[t] = "kept"
    /\ State["RELEASED"] = "paid out"
    /\ State["REFUNDED"] = "given back"
  <1>1. \A t \in HoldStatus \ ({"NONE"} \cup Settled) : t \in {"ACTIVE", "HELD", "DISPUTED"}
    BY DEF HoldStatus, Settled
  <1>2. "NONE" \in HoldStatus /\ "RELEASED" \in HoldStatus /\ "REFUNDED" \in HoldStatus
    BY DEF HoldStatus
  <1>3. State["NONE"] = "none" /\ State["RELEASED"] = "paid out" /\ State["REFUNDED"] = "given back"
    BY <1>2 DEF State
  <1>4. \A t \in HoldStatus \ ({"NONE"} \cup Settled) : State[t] = "kept"
    BY <1>1 DEF State
  <1> QED BY <1>3, <1>4

\* What a call knows of its hold's terms stays true until it is answered.
LEMMA TermsStayKnown ==
    ASSUME TypeOK, ArgsValidated, TermsKnown, [Next]_vars
    PROVE  TermsKnown'
  <1>1. TermsKept
    BY TermsStay
  <1>2. ASSUME NEW r \in Requests, Step(r), NEW q \in Requests, q # r
        PROVE  KnowsTerms(q)'
    <2>1. pc'[q] = pc[q] /\ arg'[q] = arg[q]
      BY <1>2, OthersStay
    <2>2. KnowsTerms(q) /\ Validated(q)
      BY DEF TermsKnown, ArgsValidated
    <2> QED BY <1>1, <2>1, <2>2 DEF TermsKept, Validated, InFlight, Settling, KnowsTerms
  <1>3. ASSUME NEW r \in Requests, Step(r)
        PROVE  KnowsTerms(r)'
    <2> USE DEF KnowsTerms, Goto, Arrive
    <2>1. ASSUME NEW u \in Users, NEW o \in Orders, NEW s \in MaybeUser,
                 NEW a \in Amounts, CreateEscrow(r, u, o, s, a)
          PROVE  KnowsTerms(r)'
      BY <2>1 DEF TypeOK, CreateEscrow
    <2>2. CASE LockRead(r)
      BY <2>2 DEF TypeOK, LockRead, CanLock, Arg
    <2>3. CASE LockConflict(r)
      BY <2>3 DEF TypeOK, LockConflict
    <2>4. ASSUME NEW actor \in Users \cup {System}, NEW o \in Orders, NEW f \in Fees,
                 ReleaseEscrow(r, actor, o, f)
          PROVE  KnowsTerms(r)'
      BY <2>4 DEF TypeOK, ReleaseEscrow, Call
    <2>5. CASE ReleaseRead(r)
      <3>1. arg[r].fee < arg[r].amount
        BY <2>5, ArgFields DEF ReleaseRead, CanUnlock
      <3>2. /\ arg'[r].order = arg[r].order /\ arg'[r].buyer = arg[r].buyer
            /\ arg'[r].seller = arg[r].seller /\ arg'[r].amount = arg[r].amount
            /\ arg'[r].fee = arg[r].fee
        BY <2>5 DEF TypeOK, ReleaseRead, Arg
      <3> QED BY <2>5, <3>1, <3>2 DEF TypeOK, TermsKnown, ReleaseRead
    <2>6. ASSUME NEW actor \in Users \cup {System}, NEW o \in Orders,
                 RefundEscrow(r, actor, o)
          PROVE  KnowsTerms(r)'
      BY <2>6 DEF TypeOK, RefundEscrow, Call
    <2>7. CASE RefundRead(r)
      <3>1. /\ arg'[r].order = arg[r].order /\ arg'[r].buyer = arg[r].buyer
            /\ arg'[r].amount = arg[r].amount
        BY <2>7 DEF TypeOK, RefundRead, Arg
      <3> QED BY <2>7, <3>1 DEF TypeOK, TermsKnown, RefundRead
    <2>8. ASSUME NEW actor \in Users, NEW o \in Orders, InitiateDispute(r, actor, o)
          PROVE  KnowsTerms(r)'
      BY <2>8 DEF TypeOK, InitiateDispute
    <2>9. CASE CreateCommit(r) \/ ReleaseCommit(r) \/ RefundCommit(r) \/ DisputeCommit(r)
               \/ Abort(r)
      <3>1. pc'[r] \in {"done", "failed"}
        BY <2>9, FinishType, AnswerType
        DEF CreateCommit, ReleaseCommit, RefundCommit, DisputeCommit, Abort
      <3> QED BY <3>1
    <2> QED BY <1>3, <2>1, <2>2, <2>3, <2>4, <2>5, <2>6, <2>7, <2>8, <2>9 DEF Step
  <1>4. CASE UNCHANGED vars
    BY <1>4 DEF TermsKnown, KnowsTerms, vars
  <1> QED BY <1>2, <1>3, <1>4 DEF TermsKnown, Next

\* A new status of a hold, seen as a deal.
LEMMA DealMoves ==
    ASSUME TypeOK, NEW o \in Orders, NEW t \in HoldStatus,
           hold' = [hold EXCEPT ![o].status = t]
    PROVE  Deal' = [Deal EXCEPT ![o].state = State[t]]
  <1>1. \A p \in Orders : hold[p] \in Hold
    BY DEF TypeOK
  <1>2. \A p \in Orders : hold'[p] = IF p = o THEN [hold[o] EXCEPT !.status = t] ELSE hold[p]
    BY DEF TypeOK
  <1>3. \A p \in Orders : Deal'[p] = IF p = o THEN [Deal[o] EXCEPT !.state = State[t]] ELSE Deal[p]
    <2> SUFFICES ASSUME NEW p \in Orders
                 PROVE  Deal'[p] = IF p = o THEN [Deal[o] EXCEPT !.state = State[t]] ELSE Deal[p]
      OBVIOUS
    <2>1. /\ Deal'[p] = [state |-> State[hold'[p].status], payer |-> hold'[p].buyer,
                         payee |-> hold'[p].seller, amount |-> hold'[p].amount]
          /\ Deal[p] = [state |-> State[hold[p].status], payer |-> hold[p].buyer,
                        payee |-> hold[p].seller, amount |-> hold[p].amount]
      BY DEF Deal
    <2>2. CASE p = o
      <3>1. /\ hold'[p].status = t /\ hold'[p].buyer = hold[p].buyer
            /\ hold'[p].seller = hold[p].seller /\ hold'[p].amount = hold[p].amount
        BY <1>1, <1>2, <2>2 DEF Hold
      <3> QED BY <2>1, <2>2, <3>1
    <2>3. CASE p # o
      BY <1>2, <2>1, <2>3
    <2> QED BY <2>2, <2>3
  <1>4. Deal' = [p \in Orders |-> Deal'[p]] /\ Deal = [p \in Orders |-> Deal[p]]
    BY DEF Deal
  <1> QED BY <1>3, <1>4

CustodyInv == OverdraftInv /\ TermsKnown

\* The commits are the steps of Custody, if they come to an open hold; the other
\* steps, and disputes, leave everything that was promised as it is.
LEMMA StepKeepsPromise ==
    ASSUME CustodyInv, [Next]_vars
    PROVE  Late \/ [Promise!Next]_<<Spendable, Deal, FeesTaken>>
  <1> SUFFICES ASSUME ~Late
               PROVE  [Promise!Next]_<<Spendable, Deal, FeesTaken>>
    OBVIOUS
  <1> USE DEF CustodyInv, OverdraftInv
  <1>0. ASSUME NEW r \in Requests, pc[r] \in Settling, Finish(r)
        PROVE  hold[arg[r].order].status \in HoldStatus \ ({"NONE"} \cup Settled)
    <2>1. pc'[r] = "done" /\ arg[r].order \in Orders /\ hold[arg[r].order].status # "NONE"
      BY <1>0, FinishType DEF ArgsValidated, Validated, InFlight, Settling
    <2> QED BY <1>0, <2>1 DEF Late, TypeOK, Hold
  <1>1. \A u \in Users : wallet[u] \in Row /\ Available(wallet[u]) \in Int
    BY DEF TypeOK, Row, Available
  <1>2. FeesTaken \in Int /\ wallet \in [Users -> Row]
    BY DEF TypeOK, Entries, FeesTaken
  <1>3. \A o \in Orders : /\ Deal[o].state = State[hold[o].status]
                           /\ Deal[o].payer = hold[o].buyer
                           /\ Deal[o].payee = hold[o].seller
                           /\ Deal[o].amount = hold[o].amount
    BY DEF Deal
  <1>4. ASSUME NEW r \in Requests, CreateCommit(r)
        PROVE  Promise!Next
    <2> DEFINE b == arg[r].buyer  o == arg[r].order  a == arg[r].amount  s == arg[r].seller
    <2>1. b \in Users /\ o \in Orders /\ a \in Nat /\ a \in Int /\ a > 0 /\ s \in Users \cup {Null}
      BY <1>4, ArgFields
      DEF ArgsValidated, Validated, CreateCommit, InFlight, TermsKnown, KnowsTerms, MaybeUser
    <2>2. Available(wallet[b]) >= a
      BY <1>4 DEF VersionGuardsRead, ReadGuarded, CreateCommit, SameVersion
    <2>3. Deal[o].state = "none"
      BY <1>3, <1>4, <2>1, States DEF CreateCommit, OrderIdFree
    <2>4. wallet' = [wallet EXCEPT ![b] = LockBalance(wallet[b], a)]
      BY <1>4 DEF CreateCommit
    <2>5. hold' = [hold EXCEPT ![o] = [status |-> "ACTIVE", buyer |-> b, seller |-> s,
                                       amount |-> a]]
      BY <1>4 DEF CreateCommit
    <2>6. FeesTaken' = FeesTaken
      BY <1>4, TotalsMove
    <2> HIDE DEF a, b, o, s
    <2>7. Available(LockBalance(wallet[b], a)) = Available(wallet[b]) - a
      BY <1>1, <2>1, RowMoves
    <2>8. Spendable' = [Spendable EXCEPT ![b] = Spendable[b] - a]
      BY <1>1, <1>2, <2>1, <2>4, <2>7 DEF Spendable
    <2>9. Deal' = [Deal EXCEPT ![o] = [state |-> "kept", payer |-> b, payee |-> s, amount |-> a]]
      BY <2>1, <2>5 DEF TypeOK, Deal, State, HoldStatus
    <2>10. a \in 1..Spendable[b]
      BY <1>1, <2>1, <2>2 DEF Spendable
    <2>11. Promise!Keep(o, b, s, a)
      BY <2>3, <2>6, <2>8, <2>9, <2>10 DEF Promise!Keep
    <2> QED BY <2>1, <2>10, <2>11 DEF Promise!Next
  <1>5. ASSUME NEW r \in Requests, ReleaseCommit(r)
        PROVE  Promise!Next
    <2> DEFINE b == arg[r].buyer  o == arg[r].order  s == arg[r].seller  f == arg[r].fee
               a == arg[r].amount - f
    <2>1. /\ b \in Users /\ s \in Users /\ o \in Orders /\ f \in Nat /\ a \in Nat
          /\ f < arg[r].amount /\ arg[r].amount \in Nat
      BY <1>5, ArgFields
      DEF ArgsValidated, Validated, InFlight, ReleaseCommit, TermsKnown, KnowsTerms
    <2>2. hold[o].seller = s /\ hold[o].amount = arg[r].amount
      BY <1>5 DEF ReleaseCommit, TermsKnown, KnowsTerms
    <2>3. hold[o].status \in HoldStatus \ ({"NONE"} \cup Settled)
      BY <1>0, <1>5 DEF ReleaseCommit, Settling
    <2>4. wallet' = PayOut(wallet, b, s, a, f)
      BY <1>5 DEF ReleaseCommit
    <2>5. hold' = [hold EXCEPT ![o].status = "RELEASED"]
      BY <1>5 DEF ReleaseCommit
    <2>6. FeesTaken' = FeesTaken + f
      BY <1>5, TotalsMove
    <2> HIDE DEF a, b, o, s, f
    <2>7. \A u \in Users : Available(wallet'[u]) = Available(wallet[u]) + (IF u = s THEN a ELSE 0)
      <3> HIDE DEF CustodyInv, OverdraftInv
      <3>1. wallet \in [Users -> Row]
        BY <1>2
      <3>2. \A u \in Users : Available(PayOut(wallet, b, s, a, f)[u])
                                 = Available(wallet[u]) + (IF u = s THEN a ELSE 0)
        BY <2>1, <3>1, PayOutMoves
      <3> QED BY <2>4, <3>2
    <2>8. Deal[o].state = "kept" /\ Deal[o].payee = s /\ Deal[o].amount = arg[r].amount
      BY <1>3, <2>1, <2>2, <2>3, States
    <2>9. Spendable' = [Spendable EXCEPT ![s] = Spendable[s] + a]
      <3>1. \A u \in Users : /\ Spendable[u] = Available(wallet[u])
                             /\ Spendable'[u] = Available(wallet'[u])
        BY DEF Spendable
      <3>2. Spendable = [u \in Users |-> Spendable[u]] /\ Spendable' = [u \in Users |-> Spendable'[u]]
        BY DEF Spendable
      <3>3. \A u \in Users : Spendable'[u] = IF u = s THEN Spendable[s] + a ELSE Spendable[u]
        BY <1>1, <2>1, <2>7, <3>1
      <3> QED BY <2>1, <3>2, <3>3
    <2>10. Deal' = [Deal EXCEPT ![o].state = "paid out"]
      BY <2>1, <2>5, DealMoves, States DEF HoldStatus
    <2>11. a = Deal[o].amount - f /\ f \in 0..(Deal[o].amount - 1) /\ Deal[o].payee # Null
      BY <2>1, <2>8, EscrowAssumption DEF EscrowAssumption, a
    <2>12. Promise!PayOut(o, f)
      BY <2>6, <2>8, <2>9, <2>10, <2>11 DEF Promise!PayOut
    <2> QED BY <2>1, <2>11, <2>12 DEF Promise!Next
  <1>6. ASSUME NEW r \in Requests, RefundCommit(r)
        PROVE  Promise!Next
    <2> DEFINE b == arg[r].buyer  o == arg[r].order  a == arg[r].amount
    <2>1. b \in Users /\ o \in Orders /\ a \in Nat /\ a \in Int
      BY <1>6, ArgFields DEF ArgsValidated, Validated, InFlight, RefundCommit
    <2>2. hold[o].buyer = b /\ hold[o].amount = a
      BY <1>6 DEF RefundCommit, TermsKnown, KnowsTerms
    <2>3. hold[o].status \in HoldStatus \ ({"NONE"} \cup Settled)
      BY <1>0, <1>6 DEF RefundCommit, Settling
    <2>4. wallet' = [wallet EXCEPT ![b] = UnlockBalance(wallet[b], a)]
      BY <1>6 DEF RefundCommit
    <2>5. hold' = [hold EXCEPT ![o].status = "REFUNDED"]
      BY <1>6 DEF RefundCommit
    <2>6. FeesTaken' = FeesTaken
      BY <1>6, TotalsMove
    <2> HIDE DEF a, b, o
    <2>7. Available(UnlockBalance(wallet[b], a)) = Available(wallet[b]) + a
      BY <1>1, <2>1, RowMoves
    <2>8. Deal[o].state = "kept" /\ Deal[o].payer = b /\ Deal[o].amount = a
      BY <1>3, <2>1, <2>2, <2>3, States
    <2>9. Spendable' = [Spendable EXCEPT ![b] = Spendable[b] + a]
      BY <1>1, <1>2, <2>1, <2>4, <2>7 DEF Spendable
    <2>10. Deal' = [Deal EXCEPT ![o].state = "given back"]
      BY <2>1, <2>5, DealMoves, States DEF HoldStatus, Settled
    <2>11. Promise!GiveBack(o)
      BY <2>6, <2>8, <2>9, <2>10 DEF Promise!GiveBack
    <2> QED BY <2>1, <2>11 DEF Promise!Next
  <1>7. ASSUME NEW r \in Requests, DisputeCommit(r)
        PROVE  UNCHANGED <<Spendable, Deal, FeesTaken>>
    <2> DEFINE o == arg[r].order
    <2>1. o \in Orders /\ hold[o].status \in HoldStatus \ ({"NONE"} \cup Settled)
      BY <1>0, <1>7 DEF DisputeCommit, ArgsValidated, Validated, InFlight, Settling
    <2>2. hold' = [hold EXCEPT ![o].status = "DISPUTED"]
      BY <1>7 DEF DisputeCommit
    <2>3. wallet' = wallet /\ FeesTaken' = FeesTaken
      BY <1>7 DEF DisputeCommit, ledger, FeesTaken
    <2> HIDE DEF o
    <2>4. Deal' = [Deal EXCEPT ![o].state = "kept"]
      BY <2>1, <2>2, DealMoves, States DEF HoldStatus, Settled
    <2>5. Deal[o].state = "kept"
      BY <1>3, <2>1, States
    <2>6. Deal' = Deal
      <3>1. Deal = [p \in Orders |-> Deal[p]] /\ \A p \in Orders : Deal[p] = [Deal[p] EXCEPT !.state = @]
        BY DEF Deal
      <3> QED BY <2>1, <2>4, <2>5, <3>1
    <2> QED BY <2>3, <2>6 DEF Spendable
  <1>8. ASSUME UNCHANGED <<wallet, hold, feeAcct, unposted>>
        PROVE  UNCHANGED <<Spendable, Deal, FeesTaken>>
    BY <1>8 DEF Spendable, Deal, FeesTaken
  <1> QED BY <1>4, <1>5, <1>6, <1>7, <1>8 DEF Next, Step, CreateEscrow, LockRead,
             LockConflict, ReleaseEscrow, ReleaseRead, RefundEscrow, RefundRead,
             InitiateDispute, Abort, vars, ledger

LEMMA InitKeepsPromise == Init => Promise!Init
  BY EscrowAssumption
  DEF EscrowAssumption, Init, Promise!Init, Promise!NoDeal, Spendable, Deal, State, HoldStatus,
      NoHold, Opened, Available, FeesTaken, NoEntries

LEMMA InitCustody == Init => CustodyInv
  <1>1. Init => TermsKnown
    BY DEF Init, TermsKnown, KnowsTerms
  <1> QED BY <1>1, InitOverdraft DEF CustodyInv

LEMMA NextCustody == CustodyInv /\ [Next]_vars => CustodyInv'
  BY NextOverdraft, TermsStayKnown DEF CustodyInv, OverdraftInv

\* What an escrow promises is kept by every step but a commit that comes to a hold
\* settled since its call validated it, for any number of users and orders, whatever
\* calls overlap and whatever keys they repeat.
THEOREM OnlyLateCommitsBreak == Spec => OnlyLateBreaks
  <1>1. CustodyInv /\ [Next]_vars => [Late \/ [Promise!Next]_<<Spendable, Deal, FeesTaken>>]_vars
    BY StepKeepsPromise
  <1> QED BY <1>1, InitCustody, NextCustody, InitKeepsPromise, PTL DEF Spec, OnlyLateBreaks

----------------------------------------------------------------------------
(* What the promise is worth *)

DealState == {"none", "kept", "paid out", "given back", "divided"}

DealType == [state : DealState, payer : MaybeUser, payee : MaybeUser, amount : Nat]

\* What one deal keeps, and what all of them do.
KeptOf(d) == IF d.state = "kept" THEN d.amount ELSE 0

KeptBy(D) == SumFunctionOnSet([o \in Orders |-> KeptOf(D[o])], Orders)

\* Users have F, deals are D and e is earned: nobody owes anything, a deal that is kept
\* has a payer, and nothing was made or lost.
Sound(F, D, e) ==
    /\ F \in [Users -> Nat] /\ D \in [Orders -> DealType] /\ e \in Nat
    /\ \A o \in Orders : D[o].state = "kept" => D[o].payer \in Users
    /\ SumFunctionOnSet(F, Users) + KeptBy(D) + e = SumFunctionOnSet(Opening, Users)

LEMMA FundsMove ==
    ASSUME NEW F \in [Users -> Nat], NEW G \in [Users -> Nat], NEW u \in Users,
           \A v \in Users \ {u} : G[v] = F[v]
    PROVE  /\ SumFunctionOnSet(F, Users) \in Int
           /\ SumFunctionOnSet(G, Users) = SumFunctionOnSet(F, Users) + G[u] - F[u]
  <1>1. IsFiniteSet(Users) /\ Ints(F, Users) /\ G[u] \in Int
    BY EscrowAssumption DEF Ints
  <1> QED BY <1>1, SumType, SumChanges

LEMMA DealMovesKept ==
    ASSUME NEW D \in [Orders -> DealType], NEW E \in [Orders -> DealType], NEW o \in Orders,
           \A p \in Orders \ {o} : E[p] = D[p]
    PROVE  /\ KeptBy(D) \in Int
           /\ KeptBy(E) = KeptBy(D) + KeptOf(E[o]) - KeptOf(D[o])
  <1>1. PICK k, l : /\ k = [p \in Orders |-> KeptOf(D[p])]
                    /\ l = [p \in Orders |-> KeptOf(E[p])]
    OBVIOUS
  <1>2. KeptBy(D) = SumFunctionOnSet(k, Orders) /\ KeptBy(E) = SumFunctionOnSet(l, Orders)
    BY <1>1 DEF KeptBy
  <1>3. k[o] = KeptOf(D[o]) /\ l[o] = KeptOf(E[o]) /\ \A p \in Orders \ {o} : l[p] = k[p]
    BY <1>1
  <1>4. IsFiniteSet(Orders) /\ Ints(k, Orders) /\ l[o] \in Int
    BY <1>1, EscrowAssumption DEF Ints, KeptOf, DealType
  <1>5. /\ SumFunctionOnSet(k, Orders) \in Int
        /\ SumFunctionOnSet(l, Orders) = SumFunctionOnSet(k, Orders) + l[o] - k[o]
    BY <1>3, <1>4, SumType, SumChanges
  <1> QED BY <1>2, <1>3, <1>5

\* Keep, PayOut and GiveBack: a deal that is kept or ends, one user who pays or gains,
\* and a fee; together they cancel.
LEMMA SoundMoves ==
    ASSUME NEW F, NEW D, NEW e, Sound(F, D, e),
           NEW G \in [Users -> Nat], NEW E \in [Orders -> DealType], NEW f \in Nat,
           NEW o \in Orders, NEW u \in Users,
           \A v \in Users \ {u} : G[v] = F[v],
           \A p \in Orders \ {o} : E[p] = D[p],
           G[u] - F[u] + KeptOf(E[o]) - KeptOf(D[o]) + f = 0,
           E[o].state = "kept" => E[o].payer \in Users
    PROVE  Sound(G, E, e + f)
  <1>1. /\ F \in [Users -> Nat] /\ D \in [Orders -> DealType] /\ e \in Nat
        /\ SumFunctionOnSet(F, Users) + KeptBy(D) + e = SumFunctionOnSet(Opening, Users)
    BY DEF Sound
  <1>2. /\ SumFunctionOnSet(F, Users) \in Int
        /\ SumFunctionOnSet(G, Users) = SumFunctionOnSet(F, Users) + G[u] - F[u]
    BY <1>1, FundsMove
  <1>3. KeptBy(D) \in Int /\ KeptBy(E) = KeptBy(D) + KeptOf(E[o]) - KeptOf(D[o])
    BY <1>1, DealMovesKept
  <1>4. /\ KeptOf(E[o]) \in Int /\ KeptOf(D[o]) \in Int
        /\ G[u] \in Int /\ F[u] \in Int /\ e + f \in Nat
    BY <1>1 DEF KeptOf, DealType
  <1>5. SumFunctionOnSet(G, Users) + KeptBy(E) + (e + f)
            = SumFunctionOnSet(F, Users) + KeptBy(D) + e
    BY <1>1, <1>2, <1>3, <1>4
  <1>6. \A p \in Orders : E[p].state = "kept" => E[p].payer \in Users
    BY DEF Sound
  <1> QED BY <1>1, <1>4, <1>5, <1>6 DEF Sound

Worth == Sound(Spendable, Deal, FeesTaken)

LEMMA WorthInit == Promise!Init => Worth
  <1> SUFFICES ASSUME Promise!Init PROVE Worth
    OBVIOUS
  <1>1. PICK F, D, e : F = Spendable /\ D = Deal /\ e = FeesTaken
    OBVIOUS
  <1>2. F = Opening /\ e = 0 /\ D = [o \in Orders |-> Promise!NoDeal]
    BY <1>1 DEF Promise!Init
  <1>3. Promise!NoDeal \in DealType /\ Promise!NoDeal.state = "none"
    BY DEF Promise!NoDeal, DealType, DealState, MaybeUser
  <1>4. D \in [Orders -> DealType] /\ F \in [Users -> Nat]
        /\ \A o \in Orders : KeptOf(D[o]) = 0 /\ D[o].state # "kept"
    BY <1>2, <1>3, EscrowAssumption DEF KeptOf
  <1>5. KeptBy(D) = 0
    <2> DEFINE k == [o \in Orders |-> KeptOf(D[o])]
    <2>1. \A o \in Orders : k[o] = 0
      BY <1>4
    <2>2. SumFunctionOnSet(k, Orders) = 0
      <3> HIDE DEF k
      <3> QED BY <2>1, EscrowAssumption, SumZero
    <2> QED BY <2>2 DEF KeptBy
  <1>6. SumFunctionOnSet(Opening, Users) \in Int
    <2>1. IsFiniteSet(Users) /\ Ints(Opening, Users)
      BY EscrowAssumption DEF Ints
    <2> QED BY <2>1, SumType
  <1> QED BY <1>1, <1>2, <1>4, <1>5, <1>6 DEF Worth, Sound

LEMMA WorthStep == Worth /\ [Promise!Next]_<<Spendable, Deal, FeesTaken>> => Worth'
  <1> SUFFICES ASSUME Worth, [Promise!Next]_<<Spendable, Deal, FeesTaken>> PROVE Worth'
    OBVIOUS
  <1>1. PICK F, D, e : F = Spendable /\ D = Deal /\ e = FeesTaken
    OBVIOUS
  <1>2. PICK G, E, g : G = Spendable' /\ E = Deal' /\ g = FeesTaken'
    OBVIOUS
  <1>3. /\ Sound(F, D, e) /\ F \in [Users -> Nat] /\ D \in [Orders -> DealType] /\ e \in Nat
        /\ \A o \in Orders : D[o].state = "kept" => D[o].payer \in Users
    BY <1>1 DEF Worth, Sound
  <1> SUFFICES Sound(G, E, g)
    BY <1>2 DEF Worth
  <1>4. ASSUME NEW o \in Orders, NEW payer \in Users, NEW payee \in Users \cup {Null},
               NEW amount \in 1..F[payer], Promise!Keep(o, payer, payee, amount)
        PROVE  Sound(G, E, g)
    <2>1. PICK d : d = [state |-> "kept", payer |-> payer, payee |-> payee, amount |-> amount]
      OBVIOUS
    <2>2. /\ D[o].state = "none" /\ G = [F EXCEPT ![payer] = F[payer] - amount]
          /\ E = [D EXCEPT ![o] = d] /\ g = e
      BY <1>1, <1>2, <1>4, <2>1 DEF Promise!Keep
    <2>3. F[payer] \in Nat /\ amount \in Nat /\ F[payer] - amount \in Nat
      BY <1>3
    <2>4. d \in DealType /\ d.state = "kept" /\ d.payer \in Users
          /\ KeptOf(d) = amount /\ KeptOf(D[o]) = 0
      BY <2>1, <2>2, <2>3 DEF DealType, DealState, MaybeUser, KeptOf
    <2>5. /\ G \in [Users -> Nat] /\ G[payer] = F[payer] - amount
          /\ \A v \in Users \ {payer} : G[v] = F[v]
      BY <1>3, <2>2, <2>3
    <2>6. E \in [Orders -> DealType] /\ E[o] = d /\ \A p \in Orders \ {o} : E[p] = D[p]
      BY <1>3, <2>2, <2>4
    <2>7. G[payer] - F[payer] + KeptOf(E[o]) - KeptOf(D[o]) + 0 = 0
      BY <2>3, <2>4, <2>5, <2>6
    <2>8. Sound(G, E, e + 0)
      BY <1>3, <2>4, <2>5, <2>6, <2>7, SoundMoves
    <2> QED BY <1>3, <2>2, <2>8
  <1>5. ASSUME NEW o \in Orders, NEW fee \in 0..(D[o].amount - 1), Promise!PayOut(o, fee)
        PROVE  Sound(G, E, g)
    <2>1. PICK u, a, d : u = D[o].payee /\ a = D[o].amount /\ d = [D[o] EXCEPT !.state = "paid out"]
      OBVIOUS
    <2>2. /\ D[o].state = "kept" /\ u # Null
          /\ G = [F EXCEPT ![u] = F[u] + (a - fee)]
          /\ E = [D EXCEPT ![o] = d] /\ g = e + fee
      BY <1>1, <1>2, <1>3, <1>5, <2>1 DEF Promise!PayOut
    <2>3. u \in Users /\ a \in Nat /\ D[o] \in DealType /\ fee \in 0..(a - 1)
      BY <1>3, <2>1, <2>2 DEF DealType, MaybeUser
    <2>4. fee \in Nat /\ a - fee \in Nat /\ F[u] \in Nat
      BY <1>3, <2>3
    <2>5. d \in DealType /\ d.state = "paid out" /\ KeptOf(d) = 0 /\ KeptOf(D[o]) = a
      BY <2>1, <2>2, <2>3 DEF DealType, DealState, KeptOf
    <2>6. /\ G \in [Users -> Nat] /\ G[u] = F[u] + (a - fee)
          /\ \A v \in Users \ {u} : G[v] = F[v]
      BY <1>3, <2>2, <2>3, <2>4
    <2>7. E \in [Orders -> DealType] /\ E[o] = d /\ \A p \in Orders \ {o} : E[p] = D[p]
      BY <1>3, <2>2, <2>5
    <2>8. G[u] - F[u] + KeptOf(E[o]) - KeptOf(D[o]) + fee = 0
      <3>1. KeptOf(E[o]) = 0 /\ KeptOf(D[o]) = a
        BY <2>5, <2>7
      <3>2. G[u] - F[u] = a - fee
        BY <2>3, <2>4, <2>6
      <3> QED BY <2>3, <2>4, <3>1, <3>2
    <2>9. /\ Sound(F, D, e) /\ u \in Users /\ fee \in Nat
          /\ G \in [Users -> Nat] /\ \A v \in Users \ {u} : G[v] = F[v]
          /\ E \in [Orders -> DealType] /\ \A p \in Orders \ {o} : E[p] = D[p]
          /\ E[o].state = "kept" => E[o].payer \in Users
      BY <1>3, <2>3, <2>4, <2>5, <2>6, <2>7
    <2>10. Sound(G, E, e + fee)
      BY <2>8, <2>9, SoundMoves
    <2> QED BY <2>2, <2>10
  <1>6. ASSUME NEW o \in Orders, Promise!GiveBack(o)
        PROVE  Sound(G, E, g)
    <2>1. PICK u, a, d : u = D[o].payer /\ a = D[o].amount
                         /\ d = [D[o] EXCEPT !.state = "given back"]
      OBVIOUS
    <2>2. /\ D[o].state = "kept"
          /\ G = [F EXCEPT ![u] = F[u] + a]
          /\ E = [D EXCEPT ![o] = d] /\ g = e
      BY <1>1, <1>2, <1>3, <1>6, <2>1 DEF Promise!GiveBack
    <2>3. u \in Users /\ a \in Nat /\ D[o] \in DealType /\ F[u] \in Nat
      BY <1>3, <2>1, <2>2 DEF DealType
    <2>4. d \in DealType /\ d.state = "given back" /\ KeptOf(d) = 0 /\ KeptOf(D[o]) = a
      BY <2>1, <2>2, <2>3 DEF DealType, DealState, KeptOf
    <2>5. /\ G \in [Users -> Nat] /\ G[u] = F[u] + a
          /\ \A v \in Users \ {u} : G[v] = F[v]
      BY <1>3, <2>2, <2>3
    <2>6. E \in [Orders -> DealType] /\ E[o] = d /\ \A p \in Orders \ {o} : E[p] = D[p]
      BY <1>3, <2>2, <2>4
    <2>7. G[u] - F[u] + KeptOf(E[o]) - KeptOf(D[o]) + 0 = 0
      <3>1. KeptOf(E[o]) = 0 /\ KeptOf(D[o]) = a
        BY <2>4, <2>6
      <3>2. G[u] - F[u] = a
        BY <2>3, <2>5
      <3> QED BY <2>3, <3>1, <3>2
    <2>8. /\ Sound(F, D, e) /\ u \in Users /\ 0 \in Nat
          /\ G \in [Users -> Nat] /\ \A v \in Users \ {u} : G[v] = F[v]
          /\ E \in [Orders -> DealType] /\ \A p \in Orders \ {o} : E[p] = D[p]
          /\ E[o].state = "kept" => E[o].payer \in Users
      BY <1>3, <2>3, <2>4, <2>5, <2>6
    <2>9. Sound(G, E, e + 0)
      BY <2>7, <2>8, SoundMoves
    <2> QED BY <1>3, <2>2, <2>9
  <1>7. CASE UNCHANGED <<Spendable, Deal, FeesTaken>>
    BY <1>1, <1>2, <1>3, <1>7
  <1>8. CASE Promise!Next
    BY <1>1, <1>4, <1>5, <1>6, <1>8 DEF Promise!Next
  <1> QED BY <1>7, <1>8

\* Whoever keeps the promise of Custody makes and loses no money: what users may spend,
\* what is kept for orders and what was earned add up to what there was, and nobody
\* owes anything.  It is a theorem about Custody alone, and says that the refinement
\* shows what it is meant to show.
THEOREM PromiseIsSound ==
    KeepsPromise => [](SumFunctionOnSet(Spendable, Users) + KeptBy(Deal) + FeesTaken
                            = SumFunctionOnSet(Opening, Users)
                       /\ \A u \in Users : Spendable[u] >= 0)
  <1>1. Worth => /\ SumFunctionOnSet(Spendable, Users) + KeptBy(Deal) + FeesTaken
                          = SumFunctionOnSet(Opening, Users)
                 /\ \A u \in Users : Spendable[u] >= 0
    BY DEF Worth, Sound
  <1> QED BY <1>1, WorthInit, WorthStep, PTL DEF KeepsPromise, Promise!Spec

----------------------------------------------------------------------------
(* One story of every payment, when calls on one order do not overlap *)

\* What a hold adds to what must be locked in the wallet of u.
Weight(h, u) ==
    IF h.buyer = u /\ h.status \in {"ACTIVE", "HELD", "DISPUTED"} THEN h.amount ELSE 0

Weights(H, u) == [o \in Orders |-> Weight(H[o], u)]

\* No method writes HELD or ADJUSTED.
PlainStatuses == \A o \in Orders : hold[o].status \notin {"HELD", "ADJUSTED"}

StoryInv == OverdraftInv /\ AloneOnOrder /\ StillOpen /\ TermsKnown /\ PlainStatuses /\ OneStory

\* The sum over the open holds is the sum of the weights.
LEMMA OpenSum ==
    ASSUME NEW H \in [Orders -> Hold], NEW u \in Users
    PROVE  SumFunctionOnSet([o \in Orders |-> H[o].amount],
                            {o \in Orders : H[o].buyer = u /\ H[o].status \in {"ACTIVE", "HELD", "DISPUTED"}})
           = SumFunctionOnSet(Weights(H, u), Orders)
  <1> USE EscrowAssumption
  <1> DEFINE amount == [o \in Orders |-> H[o].amount]
             open == {o \in Orders : H[o].buyer = u /\ H[o].status \in {"ACTIVE", "HELD", "DISPUTED"}}
             part == [o \in Orders |-> IF o \in open THEN amount[o] ELSE 0]
  <1>1. Ints(amount, Orders)
    BY DEF Ints, Hold
  <1>2. \A o \in Orders : part[o] = Weights(H, u)[o]
    BY DEF Weights, Weight
  <1>3. open \in SUBSET Orders
    OBVIOUS
  <1>4. SumFunctionOnSet(amount, open) = SumFunctionOnSet(part, Orders)
    <2> HIDE DEF amount, open
    <2> QED BY <1>1, <1>3, SumWhere
  <1>5. SumFunctionOnSet(part, Orders) = SumFunctionOnSet(Weights(H, u), Orders)
    <2> HIDE DEF part
    <2> QED BY <1>2, SumSame
  <1> QED BY <1>4, <1>5

\* One hold is written, and every wallet's lock moves by what the hold's weight
\* moves.
LEMMA LocksFollow ==
    ASSUME TypeOK, TypeOK', LocksMatchOpenHolds, NEW o \in Orders,
           \A p \in Orders \ {o} : hold'[p] = hold[p],
           \A u \in Users :
               wallet'[u].locked = wallet[u].locked + Weight(hold'[o], u) - Weight(hold[o], u)
    PROVE  LocksMatchOpenHolds'
  <1> USE EscrowAssumption
  <1>1. hold \in [Orders -> Hold] /\ hold' \in [Orders -> Hold]
    BY DEF TypeOK
  <1>2. ASSUME NEW u \in Users
        PROVE  wallet'[u].locked
                   = SumFunctionOnSet([p \in Orders |-> hold'[p].amount], OpenHoldsOf(u)')
    <2>1. wallet[u].locked = SumFunctionOnSet(Weights(hold, u), Orders)
      BY <1>1, OpenSum DEF LocksMatchOpenHolds, OpenHoldsOf
    <2>2. Ints(Weights(hold, u), Orders) /\ Weights(hold', u)[o] \in Int
      BY <1>1 DEF Ints, Hold, Weights, Weight
    <2>3. \A p \in Orders \ {o} : Weights(hold', u)[p] = Weights(hold, u)[p]
      BY DEF Weights, Weight
    <2>4. SumFunctionOnSet(Weights(hold', u), Orders)
              = SumFunctionOnSet(Weights(hold, u), Orders) + Weights(hold', u)[o] - Weights(hold, u)[o]
      BY <2>2, <2>3, SumChanges
    <2>5. /\ Weights(hold', u)[o] = Weight(hold'[o], u)
          /\ Weights(hold, u)[o] = Weight(hold[o], u)
      BY DEF Weights
    <2>6. SumFunctionOnSet([p \in Orders |-> hold'[p].amount], OpenHoldsOf(u)')
              = SumFunctionOnSet(Weights(hold', u), Orders)
      BY <1>1, OpenSum DEF OpenHoldsOf
    <2> QED BY <2>1, <2>4, <2>5, <2>6
  <1> QED BY <1>2 DEF LocksMatchOpenHolds

LEMMA StoryStays ==
    ASSUME StoryInv, TypeOK', [Next]_vars
    PROVE  PlainStatuses' /\ OneStory'
  <1>1. /\ TypeOK /\ ArgsValidated /\ HoldsHaveBuyers /\ LocksMatchOpenHolds /\ OrderFollowsHold
        /\ PlainStatuses
    BY DEF StoryInv, OverdraftInv, OneStory
  <1>2. \A u \in Users : wallet[u] \in Row /\ wallet[u].locked \in Int
    BY <1>1 DEF TypeOK, Row
  <1>3. \A p \in Orders : hold[p] \in Hold /\ hold[p].amount \in Nat /\ hold[p].status \in HoldStatus
    BY <1>1 DEF TypeOK, Hold
  <1>4. ASSUME NEW r \in Requests, CreateCommit(r)
        PROVE  PlainStatuses' /\ OneStory'
    <2> DEFINE b == arg[r].buyer  o == arg[r].order  a == arg[r].amount
    <2>1. b \in Users /\ o \in Orders /\ a \in Nat /\ hold[o].status = "NONE"
      BY <1>1, <1>4, ArgFields DEF ArgsValidated, Validated, CreateCommit, OrderIdFree, InFlight
    <2>2. /\ wallet' = [wallet EXCEPT ![b] = LockBalance(wallet[b], a)]
          /\ hold' = [hold EXCEPT ![o] = [status |-> "ACTIVE", buyer |-> b,
                                          seller |-> arg[r].seller, amount |-> a]]
          /\ order' = [order EXCEPT ![o] = "PAID"]
      BY <1>4 DEF CreateCommit
    <2> HIDE DEF a, b, o
    <2>3. /\ hold'[o].status = "ACTIVE" /\ hold'[o].buyer = b /\ hold'[o].amount = a
          /\ order'[o] = "PAID"
          /\ \A p \in Orders \ {o} : hold'[p] = hold[p] /\ order'[p] = order[p]
      BY <1>1, <2>1, <2>2 DEF TypeOK
    <2>4. LockBalance(wallet[b], a).locked = wallet[b].locked + a
      BY <1>2, <2>1, Columns
    <2>5. \A u \in Users : wallet'[u].locked = wallet[u].locked + (IF u = b THEN a ELSE 0)
      BY <1>1, <1>2, <2>1, <2>2, <2>4 DEF TypeOK
    <2>6. \A u \in Users : Weight(hold[o], u) = 0 /\ Weight(hold'[o], u) = IF u = b THEN a ELSE 0
      BY <2>1, <2>3 DEF Weight
    <2>7. \A u \in Users : wallet'[u].locked = wallet[u].locked + Weight(hold'[o], u) - Weight(hold[o], u)
      BY <1>2, <2>1, <2>5, <2>6
    <2>8. LocksMatchOpenHolds'
      BY <1>1, <2>1, <2>3, <2>7, LocksFollow
    <2>9. OrderFollowsHold' /\ PlainStatuses'
      BY <1>1, <2>3 DEF OrderFollowsHold, PlainStatuses
    <2> QED BY <2>8, <2>9 DEF OneStory
  <1>5. ASSUME NEW r \in Requests, ReleaseCommit(r)
        PROVE  PlainStatuses' /\ OneStory'
    <2> DEFINE b == arg[r].buyer  s == arg[r].seller  f == arg[r].fee  o == arg[r].order
               a == arg[r].amount - f
    <2>1. b \in Users /\ s \in Users /\ f \in Nat /\ a \in Nat /\ arg[r].amount = a + f /\ o \in Orders
      BY <1>1, <1>5, ArgFields DEF ArgsValidated, Validated, ReleaseCommit, InFlight
    <2>2. /\ hold[o].status \in {"ACTIVE", "DISPUTED"}
          /\ hold[o].buyer = b /\ hold[o].amount = a + f
      BY <1>1, <1>3, <1>5, <2>1 DEF StoryInv, StillOpen, TermsKnown, KnowsTerms, ArgsValidated,
             Validated, Settling, Settled, ReleaseCommit, PlainStatuses, HoldStatus
    <2>3. /\ wallet' = PayOut(wallet, b, s, a, f)
          /\ hold' = [hold EXCEPT ![o].status = "RELEASED"]
          /\ order' = [order EXCEPT ![o] = "COMPLETED"]
      BY <1>5 DEF ReleaseCommit
    <2> HIDE DEF a, b, s, f, o
    <2>4. /\ hold'[o].status = "RELEASED" /\ order'[o] = "COMPLETED"
          /\ \A p \in Orders \ {o} : hold'[p] = hold[p] /\ order'[p] = order[p]
      BY <1>1, <1>3, <2>1, <2>3 DEF TypeOK, Hold
    <2>5. wallet \in [Users -> Row]
      BY <1>1 DEF TypeOK
    <2>6. \A u \in Users : wallet'[u].locked = wallet[u].locked - (IF u = b THEN a + f ELSE 0)
      <3>1. wallet \in [Users -> Row] /\ b \in Users /\ s \in Users /\ a \in Nat /\ f \in Nat
        BY <2>1, <2>5
      <3>2. \A u \in Users : PayOut(wallet, b, s, a, f)[u].locked
                                  = wallet[u].locked - (IF u = b THEN a + f ELSE 0)
        BY <3>1, PayOutLocks
      <3> QED BY <2>3, <3>2
    <2>7. \A u \in Users : Weight(hold'[o], u) = 0 /\ Weight(hold[o], u) = IF u = b THEN a + f ELSE 0
      BY <2>2, <2>4 DEF Weight
    <2>8. \A u \in Users : wallet'[u].locked = wallet[u].locked + Weight(hold'[o], u) - Weight(hold[o], u)
      BY <1>2, <2>1, <2>6, <2>7
    <2>9. LocksMatchOpenHolds'
      BY <1>1, <2>1, <2>4, <2>8, LocksFollow
    <2>10. OrderFollowsHold' /\ PlainStatuses'
      BY <1>1, <2>4 DEF OrderFollowsHold, PlainStatuses
    <2> QED BY <2>9, <2>10 DEF OneStory
  <1>6. ASSUME NEW r \in Requests, RefundCommit(r)
        PROVE  PlainStatuses' /\ OneStory'
    <2> DEFINE b == arg[r].buyer  o == arg[r].order  a == arg[r].amount
    <2>0. pc[r] = "refundCommit" /\ a \in Nat
      BY <1>1, <1>6, ArgFields DEF RefundCommit
    <2>1. b \in Users /\ o \in Orders /\ a \in Nat
      BY <1>1, <2>0 DEF ArgsValidated, Validated, InFlight
    <2>2. hold[o].status \in {"ACTIVE", "DISPUTED"} /\ hold[o].buyer = b /\ hold[o].amount = a
      BY <1>1, <1>3, <2>0, <2>1 DEF StoryInv, StillOpen, TermsKnown, KnowsTerms, ArgsValidated,
             Validated, Settling, Settled, PlainStatuses, HoldStatus
    <2>3. /\ wallet' = [wallet EXCEPT ![b] = UnlockBalance(wallet[b], a)]
          /\ hold' = [hold EXCEPT ![o].status = "REFUNDED"]
          /\ order' = [order EXCEPT ![o] = "REFUNDED"]
      BY <1>6 DEF RefundCommit
    <2> HIDE DEF a, b, o
    <2>4. /\ hold'[o].status = "REFUNDED" /\ order'[o] = "REFUNDED"
          /\ \A p \in Orders \ {o} : hold'[p] = hold[p] /\ order'[p] = order[p]
      BY <1>1, <1>3, <2>1, <2>3 DEF TypeOK, Hold
    <2>5. UnlockBalance(wallet[b], a).locked = wallet[b].locked - a
      BY <1>2, <2>1, Columns
    <2>6. \A u \in Users : wallet'[u].locked = wallet[u].locked - (IF u = b THEN a ELSE 0)
      BY <1>1, <1>2, <2>1, <2>3, <2>5 DEF TypeOK
    <2>7. \A u \in Users : Weight(hold'[o], u) = 0 /\ Weight(hold[o], u) = IF u = b THEN a ELSE 0
      BY <2>2, <2>4 DEF Weight
    <2>8. \A u \in Users : wallet'[u].locked = wallet[u].locked + Weight(hold'[o], u) - Weight(hold[o], u)
      BY <1>2, <2>1, <2>6, <2>7
    <2>9. LocksMatchOpenHolds'
      BY <1>1, <2>1, <2>4, <2>8, LocksFollow
    <2>10. OrderFollowsHold' /\ PlainStatuses'
      BY <1>1, <2>4 DEF OrderFollowsHold, PlainStatuses
    <2> QED BY <2>9, <2>10 DEF OneStory
  <1>7. ASSUME NEW r \in Requests, DisputeCommit(r)
        PROVE  PlainStatuses' /\ OneStory'
    <2> DEFINE o == arg[r].order
    <2>0. pc[r] = "disputeCommit"
      BY <1>7 DEF DisputeCommit
    <2>1. o \in Orders
      BY <1>1, <2>0 DEF ArgsValidated, Validated, InFlight
    <2>2. hold[o].status \in {"ACTIVE", "DISPUTED"}
      BY <1>1, <1>3, <2>0, <2>1 DEF StoryInv, StillOpen, ArgsValidated, Validated, Settling,
             Settled, PlainStatuses, HoldStatus
    <2>3. /\ wallet' = wallet
          /\ hold' = [hold EXCEPT ![o].status = "DISPUTED"]
          /\ order' = [order EXCEPT ![o] = "DISPUTED"]
      BY <1>7 DEF DisputeCommit
    <2> HIDE DEF o
    <2>4. /\ hold'[o].status = "DISPUTED" /\ order'[o] = "DISPUTED"
          /\ hold'[o].buyer = hold[o].buyer /\ hold'[o].amount = hold[o].amount
          /\ \A p \in Orders \ {o} : hold'[p] = hold[p] /\ order'[p] = order[p]
      BY <1>1, <1>3, <2>1, <2>3 DEF TypeOK, Hold
    <2>5. \A u \in Users : Weight(hold'[o], u) = Weight(hold[o], u) /\ Weight(hold[o], u) \in Int
      BY <1>3, <2>1, <2>2, <2>4 DEF Weight
    <2>6. \A u \in Users : wallet'[u].locked = wallet[u].locked + Weight(hold'[o], u) - Weight(hold[o], u)
      BY <1>2, <2>3, <2>5
    <2>7. LocksMatchOpenHolds'
      BY <1>1, <2>1, <2>4, <2>6, LocksFollow
    <2>8. OrderFollowsHold' /\ PlainStatuses'
      BY <1>1, <2>4 DEF OrderFollowsHold, PlainStatuses
    <2> QED BY <2>7, <2>8 DEF OneStory
  <1>8. CASE UNCHANGED <<wallet, hold, order>>
    BY <1>1, <1>8 DEF PlainStatuses, OneStory, LocksMatchOpenHolds, OpenHoldsOf, OrderFollowsHold
  <1> QED BY <1>4, <1>5, <1>6, <1>7, <1>8 DEF Next, Step, CreateEscrow, LockRead, LockConflict,
             ReleaseEscrow, ReleaseRead, RefundEscrow, RefundRead, InitiateDispute, Abort, vars

LEMMA InitStory == Init => PlainStatuses /\ OneStory
  <1> SUFFICES ASSUME Init PROVE PlainStatuses /\ OneStory
    OBVIOUS
  <1> USE EscrowAssumption
  <1>1. TypeOK
    BY InitType
  <1>2. \A o \in Orders : hold[o] = NoHold /\ order[o] = "ACCEPTED"
    BY DEF Init
  <1>3. PlainStatuses /\ OrderFollowsHold
    BY <1>2 DEF NoHold, PlainStatuses, OrderFollowsHold
  <1>4. hold \in [Orders -> Hold]
    BY <1>1 DEF TypeOK
  <1>5. ASSUME NEW u \in Users
        PROVE  wallet[u].locked = SumFunctionOnSet([o \in Orders |-> hold[o].amount], OpenHoldsOf(u))
    <2>1. \A o \in Orders : Weights(hold, u)[o] = 0
      BY <1>2 DEF NoHold, Weights, Weight
    <2>2. SumFunctionOnSet(Weights(hold, u), Orders) = 0
      BY <2>1, SumZero
    <2>3. wallet[u].locked = 0
      BY DEF Init, Opened
    <2> QED BY <1>4, <2>2, <2>3, OpenSum DEF OpenHoldsOf
  <1> QED BY <1>3, <1>5 DEF OneStory, LocksMatchOpenHolds

\* Wallet, hold and order tell one story of every payment, for any number of users
\* and orders, when no two calls on one order overlap.
THEOREM OneStoryOnly == ASSUME Serialised PROVE Spec => []OneStory
  <1>1. Init => StoryInv
    <2>1. Init => AloneOnOrder /\ StillOpen /\ TermsKnown
      BY DEF Init, AloneOnOrder, StillOpen, TermsKnown, KnowsTerms, InFlight, Settling
    <2> QED BY <2>1, InitOverdraft, InitStory DEF StoryInv
  <1>2. StoryInv /\ [Next]_vars => StoryInv'
    <2>1. OverdraftInv /\ [Next]_vars => OverdraftInv'
      BY NextOverdraft
    <2>2. OverdraftInv' => TypeOK'
      BY DEF OverdraftInv
    <2> QED BY Serialised, <2>1, <2>2, StaysAlone, StaysOpen, TermsStayKnown, StoryStays
            DEF StoryInv, OverdraftInv
  <1>3. StoryInv => OneStory
    BY DEF StoryInv
  <1> QED BY <1>1, <1>2, <1>3, PTL DEF Spec

----------------------------------------------------------------------------
(* The job and the crashes of its process *)

\* What a crash does to the requests: those in flight are rolled back.
RollBack ==
    /\ pc' = [r \in Requests |-> IF InFlight(r) THEN "failed" ELSE pc[r]]
    /\ arg' = [r \in Requests |-> Blank]
    /\ UNCHANGED <<wallet, hold, order, dispute, ledger, unposted>>

\* The job's actor is not the buyer, whom alone validateActorPermission lets release.
LEMMA JobMayNotRelease ==
    ASSUME NEW o \in Orders, NEW fee
    PROVE  ~Releasable(o, System, fee)
  BY EscrowAssumption DEF Releasable, ValidateActorPermission

LEMMA JobReleaseGives ==
    ASSUME NEW o \in Orders, JobRelease(o)
    PROVE  /\ UNCHANGED vars /\ expired' = expired
           /\ job = "loop" /\ job' = "loop" /\ running' = running
           /\ batch # <<>> /\ batch' = Tail(batch) /\ tried' = tried \cup {o}
  BY JobMayNotRelease DEF JobRelease, Goes

\* To the requests, a step of the job or of time is nothing, and a crash a roll-back.
LEMMA JobSteps ==
    ASSUME [JobNext]_allVars
    PROVE  [Next]_vars \/ RollBack
  <1>1. CASE JobStep
    BY <1>1, JobReleaseGives DEF JobStep, JobStart, JobFind, JobFail, JobEnd
  <1>2. CASE RequestStep
    BY <1>2 DEF RequestStep
  <1>3. CASE Restart
    BY <1>3 DEF Restart, RollBack
  <1>4. CASE \E o \in Orders : Expire(o)
    BY <1>4 DEF Expire
  <1>5. CASE UNCHANGED allVars
    BY <1>5 DEF allVars
  <1> QED BY <1>1, <1>2, <1>3, <1>4, <1>5 DEF JobNext

LEMMA RolledBack ==
    ASSUME TypeOK, RollBack
    PROVE  /\ \A r \in Requests : pc'[r] \in {"idle", "done", "failed"} /\ arg'[r] = Blank
           /\ \A r \in Requests : pc[r] = "done" => pc'[r] = "done"
           /\ wallet' = wallet /\ hold' = hold /\ order' = order /\ dispute' = dispute
           /\ account' = account /\ escrowAcct' = escrowAcct /\ feeAcct' = feeAcct
           /\ journals' = journals /\ unposted' = unposted
  BY DEF RollBack, InFlight, ledger

\* What a request knew is gone with it, and the rows are as they were.
LEMMA RollBackKeeps ==
    ASSUME OverdraftInv, RollBack
    PROVE  /\ OverdraftInv' /\ AloneOnOrder' /\ StillOpen' /\ TermsKnown'
           /\ KeysTold => KeysTold'
           /\ LedgerAgrees => LedgerAgrees'
           /\ BooksBalance => BooksBalance'
           /\ PlainStatuses /\ OneStory => PlainStatuses' /\ OneStory'
           /\ TermsKept /\ SettledKept
           /\ UNCHANGED <<Spendable, Deal, FeesTaken>>
  <1> USE RolledBack DEF OverdraftInv
  <1>1. TypeOK'
    <2>1. pc' \in [Requests -> Label] /\ arg' \in [Requests -> Arg]
      BY BlankType DEF RollBack, TypeOK, Label
    <2> QED BY <2>1 DEF TypeOK
  <1>2. ArgsValidated' /\ VersionGuardsRead'
    BY DEF ArgsValidated, Validated, VersionGuardsRead, ReadGuarded, InFlight, Settling
  <1>3. HoldsHaveBuyers' /\ NoOverdraft'
    BY DEF HoldsHaveBuyers, NoOverdraft
  <1>4. AloneOnOrder' /\ StillOpen' /\ TermsKnown'
    BY DEF AloneOnOrder, StillOpen, TermsKnown, KnowsTerms, InFlight, Settling
  <1>5. RepeatedKey => RepeatedKey'
    BY DEF RepeatedKey
  <1>10. KeysTold => KeysTold'
    BY <1>5 DEF KeysTold, JournalsHaveCalls, Posted, NoEntries
  <1>6. /\ LedgerAgrees => LedgerAgrees'
        /\ BooksBalance => BooksBalance'
    BY <1>5 DEF LedgerAgrees, BooksBalance, NoEntries
  <1>7. PlainStatuses /\ OneStory => PlainStatuses' /\ OneStory'
    <2>1. wallet' = wallet /\ hold' = hold /\ order' = order
      OBVIOUS
    <2> QED BY ONLY <2>1 DEF PlainStatuses, OneStory, LocksMatchOpenHolds, OpenHoldsOf,
                              OrderFollowsHold
  <1>8. TermsKept /\ SettledKept
    <2>1. \A o \in Orders : Stragglers(o)' = {}
      BY DEF Stragglers, Settling
    <2> QED BY <2>1 DEF TermsKept, SettledKept
  <1>9. UNCHANGED <<Spendable, Deal, FeesTaken>>
    BY DEF Spendable, Deal, FeesTaken
  <1> QED BY <1>1, <1>2, <1>3, <1>4, <1>6, <1>7, <1>8, <1>9, <1>10

LEMMA JobStays == JobSpec => JobInit /\ [][JobNext]_allVars
  BY PTL DEF JobSpec

LEMMA JobInductive == JobSpec => []OverdraftInv
  <1>1. JobInit => OverdraftInv
    BY InitOverdraft DEF JobInit
  <1>2. OverdraftInv /\ [JobNext]_allVars => OverdraftInv'
    BY JobSteps, NextOverdraft, RollBackKeeps
  <1> QED BY <1>1, <1>2, JobStays, PTL

\* With the job at work and its process dying at any moment, no wallet locks more than
\* it holds, and wallets, fees and ledger agree, but for what repeated keys leave
\* unposted.
THEOREM JobKeepsBooks == JobSpec => [](NoOverdraft /\ LedgerAgrees /\ BooksBalance)
  <1> DEFINE Inv == KeysTold /\ LedgerAgrees /\ BooksBalance
  <1>1. JobInit => Inv
    BY InitBooks, InitLedger DEF JobInit
  <1>2. OverdraftInv /\ Inv /\ [JobNext]_allVars => Inv'
    <2>1. OverdraftInv /\ Inv /\ [Next]_vars => Inv'
      BY KeysStayTold, LedgerStays, BooksStay DEF OverdraftInv
    <2>2. OverdraftInv /\ Inv /\ RollBack => Inv'
      BY RollBackKeeps
    <2> QED BY <2>1, <2>2, JobSteps
  <1>3. OverdraftInv /\ Inv => NoOverdraft /\ LedgerAgrees /\ BooksBalance
    BY DEF OverdraftInv
  <1> HIDE DEF Inv
  <1> QED BY <1>1, <1>2, <1>3, JobStays, JobInductive, PTL

LEMMA JobStory ==
    ASSUME Serialised
    PROVE  JobSpec => []StoryInv
  <1>1. JobInit => StoryInv
    <2>1. Init => AloneOnOrder /\ StillOpen /\ TermsKnown
      BY DEF Init, AloneOnOrder, StillOpen, TermsKnown, KnowsTerms, InFlight, Settling
    <2> QED BY <2>1, InitOverdraft, InitStory DEF StoryInv, JobInit
  <1>2. StoryInv /\ [JobNext]_allVars => StoryInv'
    <2>1. StoryInv /\ [Next]_vars => StoryInv'
      <3>1. OverdraftInv' => TypeOK'
        BY DEF OverdraftInv
      <3> QED BY Serialised, <3>1, NextOverdraft, StaysAlone, StaysOpen, TermsStayKnown, StoryStays
              DEF StoryInv, OverdraftInv
    <2>2. StoryInv /\ RollBack => StoryInv'
      BY RollBackKeeps DEF StoryInv
    <2> QED BY <2>1, <2>2, JobSteps
  <1> QED BY <1>1, <1>2, JobStays, PTL

\* With the job at work and its process dying at any moment, wallet, hold and order
\* tell one story, if calls on one order do not overlap: the crash rolls back whole
\* transactions only.
THEOREM JobKeepsOneStory ==
    ASSUME Serialised
    PROVE  JobSpec => []OneStory
  <1>1. StoryInv => OneStory
    BY DEF StoryInv
  <1> QED BY <1>1, JobStory, PTL

\* Neither the job nor a crash brings a settled hold back or settles it again: only the
\* calls that had validated it can.
THEOREM JobKeepsSettled == JobSpec => SettledHoldsAreFinal
  <1>1. OverdraftInv /\ [JobNext]_allVars => [SettledKept]_vars
    <2>1. OverdraftInv /\ [Next]_vars => [SettledKept]_vars
      BY SettledStay DEF OverdraftInv
    <2>2. OverdraftInv /\ RollBack => SettledKept
      BY RollBackKeeps
    <2> QED BY <2>1, <2>2, JobSteps
  <1> QED BY <1>1, JobInductive, JobStays, PTL DEF SettledHoldsAreFinal

\* With the job at work and its process dying at any moment, a commit that comes to a
\* settled hold is still the only step that breaks what is promised of a payment.
THEOREM JobOnlyLateBreaks == JobSpec => OnlyLateBreaks
  <1>1. JobInit => CustodyInv /\ Promise!Init
    BY InitCustody, InitKeepsPromise DEF JobInit
  <1>2. CustodyInv /\ [JobNext]_allVars => CustodyInv'
    BY NextCustody, RollBackKeeps, JobSteps DEF CustodyInv
  <1>3. CustodyInv /\ [JobNext]_allVars => [Late \/ [Promise!Next]_<<Spendable, Deal, FeesTaken>>]_vars
    <2>1. CustodyInv /\ RollBack => UNCHANGED <<Spendable, Deal, FeesTaken>>
      BY RollBackKeeps DEF CustodyInv
    <2> QED BY <2>1, StepKeepsPromise, JobSteps
  <1> QED BY <1>1, <1>2, <1>3, JobStays, PTL DEF OnlyLateBreaks

\* Calls that take turns on an order are never late, and so keep the whole promise.
COROLLARY JobKeepsPromise ==
    ASSUME Serialised
    PROVE  JobSpec => KeepsPromise
  <1>1. JobInit => Promise!Init
    BY InitKeepsPromise DEF JobInit
  <1>2. StoryInv /\ [JobNext]_allVars => [Promise!Next]_<<Spendable, Deal, FeesTaken>>
    <2>1. StoryInv /\ [Next]_vars => [Promise!Next]_<<Spendable, Deal, FeesTaken>>
      <3>1. StoryInv /\ [Next]_vars => ~Late
        BY DEF StoryInv, StillOpen, Late
      <3> QED BY <3>1, StepKeepsPromise DEF StoryInv, CustodyInv
    <2>2. StoryInv /\ RollBack => UNCHANGED <<Spendable, Deal, FeesTaken>>
      BY RollBackKeeps DEF StoryInv
    <2> QED BY <2>1, <2>2, JobSteps
  <1> QED BY <1>1, <1>2, JobStory, JobStays, PTL DEF KeepsPromise, Promise!Spec

\* isRunning is up exactly while a run of the job is at work, so that no failure and
\* no crash keeps the next run from starting; a run only has holds in hand that expired.
FlagIsRight ==
    /\ running <=> job # "idle"
    /\ batch # <<>> => job = "loop"
    /\ \A i \in 1..Len(batch) : batch[i] \in expired
    /\ \A o \in expired : hold[o].status # "NONE"

THEOREM JobCanRunAgain == JobSpec => [](JobTypeOK /\ FlagIsRight)
  <1> DEFINE Inv == JobTypeOK /\ FlagIsRight
  <1>1. JobInit => Inv
    <2> SUFFICES ASSUME JobInit PROVE Inv
      OBVIOUS
    <2>1. batch = <<>> /\ batch \in Seq(Orders) /\ \A i \in 1..Len(batch) : batch[i] \in expired
      BY DEF JobInit
    <2>2. TypeOK
      BY InitType DEF JobInit
    <2> QED BY <2>1, <2>2 DEF JobInit, JobTypeOK, FlagIsRight
  <1>2. OverdraftInv /\ OverdraftInv' /\ Inv /\ [JobNext]_allVars => Inv'
    <2> SUFFICES ASSUME OverdraftInv, OverdraftInv', Inv, [JobNext]_allVars PROVE Inv'
      OBVIOUS
    <2>1. TypeOK' /\ TermsKept
      BY JobSteps, TermsStay, RollBackKeeps DEF OverdraftInv, vars, TermsKept
    <2>2. \A o \in expired : hold[o].status # "NONE" /\ hold'[o].status # "NONE"
      BY <2>1 DEF TermsKept, JobTypeOK, FlagIsRight
    <2>3. CASE JobStart
      BY <2>1, <2>2, <2>3 DEF JobStart, Goes, JobTypeOK, FlagIsRight
    <2>4. CASE JobFind
      <3>1. PICK holds \in InAnyOrder(ExpiredHolds) : Goes("loop", running, holds)
        BY <2>4 DEF JobFind
      <3>2. ExpiredHolds \subseteq Orders /\ ExpiredHolds \subseteq expired
        BY DEF ExpiredHolds, JobTypeOK
      <3>3. Cardinality(ExpiredHolds) \in Nat
        BY <3>2, EscrowAssumption, FS_Subset, FS_CardinalityType
      <3>4. PICK n \in Nat : holds \in [1..n -> ExpiredHolds]
        BY <3>3 DEF InAnyOrder
      <3>5. holds \in Seq(Orders) /\ \A i \in 1..Len(holds) : holds[i] \in expired
        BY <3>2, <3>4
      <3> QED BY <2>1, <2>2, <2>4, <3>1, <3>5 DEF JobFind, Goes, JobTypeOK, FlagIsRight
    <2>5. CASE JobFail
      BY <2>1, <2>2, <2>5 DEF JobFail, Goes, JobTypeOK, FlagIsRight
    <2>6. CASE \E o \in Orders : JobRelease(o)
      <3>1. PICK o \in Orders : JobRelease(o)
        BY <2>6
      <3>2. Tail(batch) \in Seq(Orders)
            /\ \A i \in 1..Len(Tail(batch)) : Tail(batch)[i] \in expired
        BY <3>1, JobReleaseGives DEF JobTypeOK, FlagIsRight
      <3> QED BY <2>1, <2>2, <3>1, <3>2, JobReleaseGives DEF JobTypeOK, FlagIsRight
    <2>7. CASE JobEnd
      BY <2>1, <2>2, <2>7 DEF JobEnd, Goes, JobTypeOK, FlagIsRight
    <2>8. CASE RequestStep
      BY <2>1, <2>2, <2>8 DEF RequestStep, jobVars, JobTypeOK, FlagIsRight
    <2>9. CASE Restart
      <3>1. batch' = <<>> /\ batch' \in Seq(Orders)
            /\ \A i \in 1..Len(batch') : batch'[i] \in expired'
        BY <2>9 DEF Restart, Goes
      <3> QED BY <2>1, <2>2, <2>9, <3>1 DEF Restart, Goes, JobTypeOK, FlagIsRight
    <2>10. ASSUME NEW o \in Orders, Expire(o) PROVE Inv'
      BY <2>1, <2>2, <2>10 DEF Expire, vars, jobVars, JobTypeOK, FlagIsRight
    <2>11. CASE UNCHANGED allVars
      BY <2>1, <2>2, <2>11 DEF allVars, jobVars, JobTypeOK, FlagIsRight
    <2> QED BY <2>3, <2>4, <2>5, <2>6, <2>7, <2>8, <2>9, <2>10, <2>11 DEF JobNext, JobStep
  <1> HIDE DEF Inv
  <1>3. Inv => JobTypeOK /\ FlagIsRight
    BY DEF Inv
  <1> QED BY <1>1, <1>2, <1>3, JobStays, JobInductive, PTL

\* releaseEscrow refuses the job every hold: whatever its state, whoever its parties
\* and however often the job tries, a release by the job writes nothing.
THEOREM JobReleasesNothing ==
    JobSpec => [][\A o \in Orders : JobRelease(o) => UNCHANGED vars]_allVars
  <1>1. [JobNext]_allVars => [\A o \in Orders : JobRelease(o) => UNCHANGED vars]_allVars
    BY JobReleaseGives
  <1> QED BY <1>1, JobStays, PTL
=============================================================================
