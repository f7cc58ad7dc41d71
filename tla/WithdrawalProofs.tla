-------------------------- MODULE WithdrawalProofs --------------------------
(***************************************************************************)
(* Theorems about Withdrawal, for any requests, keys, amounts and limits.  *)
(***************************************************************************)
EXTENDS Withdrawal, Lemmas

WithdrawalRow == [status : Status, amount : Nat, at : Nat, keyed : BOOLEAN]

ArgType == [target : Requests \cup {Null}, amount : Nat, version : Int, retries : Int]

Deciding == {"cancel", "approve", "reject"}

\* The types these proofs need; a call about a withdrawal names one.
Typed ==
    /\ wallet \in Row
    /\ withdrawal \in [Requests -> WithdrawalRow]
    /\ clock \in Nat
    /\ pc \in [Requests -> Label]
    /\ arg \in [Requests -> ArgType]
    /\ \A r \in Requests : pc[r] \in Deciding \cup {"failed"} => arg[r].target \in Requests

LEMMA TypedInit == Init => Typed
  <1> SUFFICES ASSUME Init PROVE Typed
    OBVIOUS
  <1>1. wallet \in Row
    BY WithdrawalAssumption DEF WithdrawalAssumption, Init, Opened, Row
  <1>2. withdrawal \in [Requests -> WithdrawalRow]
    BY DEF Init, NoWithdrawal, WithdrawalRow, Status
  <1>3. pc \in [Requests -> Label] /\ \A r \in Requests : pc[r] = "idle"
    BY DEF Init, Label
  <1>4. arg \in [Requests -> ArgType]
    BY DEF Init, Blank, ArgType
  <1> QED
    BY <1>1, <1>2, <1>3, <1>4 DEF Init, Typed, Deciding

\* A call that is done names nothing; the others are left alone.
LEMMA FinishGives ==
  ASSUME Typed, NEW r \in Requests, Finish(r)
  PROVE  /\ pc' \in [Requests -> Label] /\ arg' \in [Requests -> ArgType]
         /\ pc'[r] = "done"
         /\ \A q \in Requests : q # r => pc'[q] = pc[q] /\ arg'[q] = arg[q]
  BY DEF Typed, Finish, Goto, Label, Blank, ArgType

\* A call that arrives is the first step of its request, and alone if calls do not
\* overlap.
LEMMA ArriveGives ==
  ASSUME Typed, NEW r \in Requests, NEW label \in Label, Arrive(r, label)
  PROVE  /\ pc' \in [Requests -> Label]
         /\ pc[r] = "idle" /\ pc'[r] = label
         /\ \A q \in Requests : q # r => pc'[q] = pc[q]
         /\ Serialised => \A q \in Requests : ~ InFlight(q)
  BY DEF Typed, Arrive, Goto

\* The row of a withdrawal that is inserted, and of one whose status is set.
LEMMA InsertGives ==
  ASSUME Typed, NEW r \in Requests, NEW a \in Nat, NEW keyed \in BOOLEAN, Insert(r, a, keyed)
  PROVE  /\ withdrawal' \in [Requests -> WithdrawalRow]
         /\ withdrawal'[r].status = "PENDING" /\ withdrawal'[r].keyed = keyed
         /\ \A w \in Requests : w # r => withdrawal'[w] = withdrawal[w]
  BY DEF Typed, Insert, WithdrawalRow, Status

LEMMA StatusGives ==
  ASSUME Typed, NEW w \in Requests, NEW s \in Status,
         withdrawal' = [withdrawal EXCEPT ![w].status = s]
  PROVE  /\ withdrawal' \in [Requests -> WithdrawalRow]
         /\ withdrawal'[w].status = s /\ withdrawal'[w].keyed = withdrawal[w].keyed
         /\ \A v \in Requests : v # w => withdrawal'[v] = withdrawal[v]
  BY DEF Typed, WithdrawalRow

LEMMA TypedStep == Typed /\ [Next]_vars => Typed'
  <1> SUFFICES ASSUME Typed, [Next]_vars PROVE Typed'
    OBVIOUS
  <1>1. ASSUME NEW r \in Requests, NEW a \in Amounts, Withdraw(r, a) \/ CreateWithdrawal(r, a)
        PROVE  Typed'
    <2>1. a \in Nat
      BY WithdrawalAssumption DEF WithdrawalAssumption
    <2>2. /\ pc' \in [Requests -> Label] /\ pc'[r] \in {"withdraw", "lock"}
          /\ \A q \in Requests : q # r => pc'[q] = pc[q]
      BY <1>1, ArriveGives DEF Withdraw, CreateWithdrawal, Label
    <2>3. /\ arg' \in [Requests -> ArgType] /\ UNCHANGED <<wallet, withdrawal, clock>>
          /\ \A q \in Requests : q # r => arg'[q] = arg[q]
      BY <1>1, <2>1 DEF Withdraw, CreateWithdrawal, Typed, ArgType
    <2> QED
      BY <2>2, <2>3 DEF Typed, Deciding
  <1>2. ASSUME NEW r \in Requests, WithdrawCommit(r) \/ CreateCommit(r) PROVE Typed'
    <2>1. arg[r].amount \in Nat
      BY DEF Typed, ArgType
    <2>2. withdrawal' \in [Requests -> WithdrawalRow] /\ wallet' \in Row /\ clock' = clock
      <3>1. /\ wallet' = LockBalance(wallet, arg[r].amount) /\ clock' = clock
            /\ Insert(r, arg[r].amount, TRUE) \/ Insert(r, arg[r].amount, FALSE)
        BY <1>2 DEF WithdrawCommit, CreateCommit
      <3>2. wallet \in Row /\ arg[r].amount \in Int
        BY <2>1 DEF Typed
      <3>3. wallet' \in Row
        BY <3>1, <3>2, RowMoves
      <3> QED
        BY <2>1, <3>1, <3>3, InsertGives
    <2>3. Finish(r)
      BY <1>2 DEF WithdrawCommit, CreateCommit
    <2> QED
      BY <2>2, <2>3, FinishGives DEF Typed, Deciding
  <1>3. ASSUME NEW r \in Requests, LockRead(r) \/ LockConflict(r) PROVE Typed'
    <2>1. /\ pc' \in [Requests -> Label] /\ pc'[r] \in {"cas", "lock"}
          /\ \A q \in Requests : q # r => pc'[q] = pc[q]
      BY <1>3 DEF LockRead, LockConflict, Goto, Label, Typed
    <2>2. /\ arg' \in [Requests -> ArgType] /\ UNCHANGED <<wallet, withdrawal, clock>>
          /\ \A q \in Requests : q # r => arg'[q] = arg[q]
      <3>1. wallet.version \in Int
        BY DEF Typed, Row
      <3> QED
        BY <1>3, <3>1 DEF LockRead, LockConflict, Typed, ArgType
    <2> QED
      BY <2>1, <2>2 DEF Typed, Deciding
  <1>4. ASSUME NEW r \in Requests, NEW w \in Requests,
               (\E label \in Label : Act(r, w, label)) \/ DisbursementFailed(r, w)
        PROVE  Typed'
    <2>1. /\ pc' \in [Requests -> Label]
          /\ \A q \in Requests : q # r => pc'[q] = pc[q]
      BY <1>4, ArriveGives DEF Act, DisbursementFailed, Label
    <2>2. /\ arg' \in [Requests -> ArgType] /\ UNCHANGED <<wallet, withdrawal, clock>>
          /\ arg'[r].target = w
          /\ \A q \in Requests : q # r => arg'[q] = arg[q]
      BY <1>4 DEF Act, DisbursementFailed, Typed, ArgType
    <2> QED
      BY <2>1, <2>2 DEF Typed
  <1>5. ASSUME NEW r \in Requests, NEW w \in Requests, Disbursed(r, w) PROVE Typed'
    <2>1. /\ pc' \in [Requests -> Label] /\ pc'[r] = "done"
          /\ \A q \in Requests : q # r => pc'[q] = pc[q]
      BY <1>5, ArriveGives DEF Disbursed, Label
    <2>2. withdrawal' \in [Requests -> WithdrawalRow] /\ UNCHANGED <<wallet, clock, arg>>
      BY <1>5, StatusGives DEF Disbursed, Status
    <2> QED
      BY <2>1, <2>2 DEF Typed, Deciding
  <1>6. ASSUME NEW r \in Requests,
               CancelCommit(r) \/ ApproveCommit(r) \/ RejectCommit(r) \/ FailedCommit(r)
        PROVE  Typed'
    <2>1. /\ arg[r].target \in Requests
          /\ \E s \in Status : SetStatus(r, s)
          /\ Finish(r) /\ clock' = clock
      BY <1>6 DEF CancelCommit, ApproveCommit, RejectCommit, FailedCommit, Typed, Deciding, Status
    <2>2. withdrawal' \in [Requests -> WithdrawalRow]
      BY <2>1, StatusGives DEF SetStatus
    <2>3. withdrawal[arg[r].target].amount \in Int
      BY <2>1 DEF Typed, WithdrawalRow
    <2>4. wallet' \in Row
      <3> DEFINE a == withdrawal[arg[r].target].amount
      <3>1. wallet' \in {UnlockBalance(wallet, a), TakeLocked(wallet, a), DropLock(wallet, a)}
        BY <1>6 DEF CancelCommit, ApproveCommit, RejectCommit, FailedCommit
      <3>2. a \in Int /\ wallet \in Row
        BY <2>3 DEF Typed
      <3> HIDE DEF a
      <3>3. /\ UnlockBalance(wallet, a) \in Row /\ TakeLocked(wallet, a) \in Row
            /\ DropLock(wallet, a) \in Row
        BY <3>2, RowMoves
      <3> QED
        BY <3>1, <3>3
    <2> QED
      BY <2>1, <2>2, <2>4, FinishGives DEF Typed, Deciding
  <1>7. ASSUME NEW r \in Requests, Abort(r) PROVE Typed'
    BY <1>7, FinishGives DEF Abort, Typed, Deciding
  <1>8. CASE Tick
    BY <1>8 DEF Tick, Typed
  <1>9. CASE UNCHANGED vars
    BY <1>9 DEF vars, Typed
  <1> QED
    BY <1>1, <1>2, <1>3, <1>4, <1>5, <1>6, <1>7, <1>8, <1>9 DEF Next, Step

----------------------------------------------------------------------------
(* The exact types: amounts that were asked for, times that have been, a   *)
(* version the wallet has had.                                             *)

RowExact(row) == row.amount \in Amounts \cup {0} /\ row.at \in 0..MaxTime

ArgExact(a, version) ==
    a.amount \in Amounts \cup {0} /\ a.version \in 0..version /\ a.retries \in 0..MaxRetries

Exact ==
    /\ answered \subseteq Requests
    /\ clock \in 0..MaxTime
    /\ overtaken \subseteq Requests
    /\ twice \in Nat
    /\ \A r \in Requests : RowExact(withdrawal[r]) /\ ArgExact(arg[r], wallet.version)

\* No movement takes the version back.
LEMMA VersionGrows ==
  ASSUME Typed, Typed', [Next]_vars
  PROVE  /\ wallet.version \in Nat /\ wallet'.version \in Nat
         /\ wallet.version <= wallet'.version
  <1>1. wallet \in Row /\ wallet' \in Row
    BY DEF Typed
  <1>2. wallet.version \in Nat /\ wallet'.version \in Nat
    BY <1>1 DEF Row
  <1>3. \/ wallet' = wallet
        \/ \E a \in Int : wallet' \in {LockBalance(wallet, a), UnlockBalance(wallet, a),
                                       TakeLocked(wallet, a), DropLock(wallet, a)}
    <2>1. ASSUME NEW r \in Requests, WithdrawCommit(r) \/ CreateCommit(r)
          PROVE  \E a \in Int : wallet' = LockBalance(wallet, a)
      <3>1. arg[r].amount \in Int
        BY DEF Typed, ArgType
      <3> QED BY <2>1, <3>1 DEF WithdrawCommit, CreateCommit
    <2>2. ASSUME NEW r \in Requests,
                 CancelCommit(r) \/ ApproveCommit(r) \/ RejectCommit(r) \/ FailedCommit(r)
          PROVE  \E a \in Int : wallet' \in {UnlockBalance(wallet, a), TakeLocked(wallet, a),
                                             DropLock(wallet, a)}
      <3>1. arg[r].target \in Requests
        BY <2>2 DEF CancelCommit, ApproveCommit, RejectCommit, FailedCommit, Typed, Deciding
      <3>2. withdrawal[arg[r].target].amount \in Int
        BY <3>1 DEF Typed, WithdrawalRow
      <3> QED
        BY <2>2, <3>2 DEF CancelCommit, ApproveCommit, RejectCommit, FailedCommit
    <2>3. ASSUME NEW r \in Requests, Step(r)
          PROVE  \/ wallet' = wallet
                 \/ WithdrawCommit(r) \/ CreateCommit(r)
                 \/ CancelCommit(r) \/ ApproveCommit(r) \/ RejectCommit(r) \/ FailedCommit(r)
      BY <2>3 DEF Step, Withdraw, CreateWithdrawal, LockRead, LockConflict, Act, Disbursed,
                  DisbursementFailed, Abort
    <2>4. CASE Tick
      BY <2>4 DEF Tick
    <2>5. CASE UNCHANGED vars
      BY <2>5 DEF vars
    <2> QED BY <2>1, <2>2, <2>3, <2>4, <2>5 DEF Next
  <1>4. ASSUME NEW a \in Int,
               wallet' \in {LockBalance(wallet, a), UnlockBalance(wallet, a),
                            TakeLocked(wallet, a), DropLock(wallet, a)}
        PROVE  wallet'.version \in {wallet.version, wallet.version + 1}
    <2>1. PICK w : w = wallet
      OBVIOUS
    <2>2. /\ LockBalance(w, a).version = w.version + 1
          /\ UnlockBalance(w, a).version = w.version + 1
          /\ TakeLocked(w, a).version = w.version
          /\ DropLock(w, a).version = w.version
      BY <1>1, <2>1, RowMoves
    <2> QED BY <1>4, <2>1, <2>2
  <1> QED BY <1>2, <1>3, <1>4

\* What a step does to what a call knows.
LEMMA ArgMoves ==
  ASSUME Typed, Exact, [Next]_vars, NEW q \in Requests
  PROVE  ArgExact(arg'[q], wallet.version)
  <1> USE DEF ArgExact
  <1>1. /\ ArgExact(arg[q], wallet.version) /\ arg \in [Requests -> ArgType]
        /\ wallet.version \in Nat /\ MaxRetries \in Nat \ {0} /\ 0 \notin Amounts
    BY WithdrawalAssumption DEF Exact, Typed, Row
  <1>2. ArgExact(Blank, wallet.version)
    BY <1>1 DEF Blank
  <1>3. ASSUME NEW r \in Requests, Finish(r) \/ arg' = arg
        PROVE  ArgExact(arg'[q], wallet.version)
    BY <1>1, <1>2, <1>3 DEF Finish
  <1>4. ASSUME NEW r \in Requests, NEW a \in Amounts, Withdraw(r, a) \/ CreateWithdrawal(r, a)
        PROVE  ArgExact(arg'[q], wallet.version)
    BY <1>1, <1>4 DEF Withdraw, CreateWithdrawal, ArgType
  <1>5. ASSUME NEW r \in Requests, LockRead(r) \/ LockConflict(r)
        PROVE  ArgExact(arg'[q], wallet.version)
    <2>1. CASE LockRead(r)
      BY <1>1, <2>1 DEF LockRead, ArgType
    <2>2. CASE LockConflict(r)
      BY <1>1, <2>2 DEF LockConflict, ArgType
    <2> QED BY <1>5, <2>1, <2>2
  <1>6. ASSUME NEW r \in Requests, NEW w \in Requests,
               (\E label \in Label : Act(r, w, label)) \/ DisbursementFailed(r, w)
        PROVE  ArgExact(arg'[q], wallet.version)
    <2>1. arg' = [arg EXCEPT ![r].target = w]
      BY <1>6 DEF Act, DisbursementFailed
    <2> QED BY <1>1, <2>1 DEF ArgType
  <1>7. ASSUME NEW r \in Requests, Step(r)
        PROVE  \/ Finish(r) \/ arg' = arg
               \/ \E a \in Amounts : Withdraw(r, a) \/ CreateWithdrawal(r, a)
               \/ LockRead(r) \/ LockConflict(r)
               \/ \E w \in Requests : \/ \E label \in Label : Act(r, w, label)
                                      \/ DisbursementFailed(r, w)
    BY <1>7 DEF Step, WithdrawCommit, CreateCommit, Disbursed, CancelCommit, ApproveCommit,
                RejectCommit, FailedCommit, Abort
  <1>8. CASE Tick \/ UNCHANGED vars
    BY <1>1, <1>8 DEF Tick, vars
  <1> QED BY <1>3, <1>4, <1>5, <1>6, <1>7, <1>8 DEF Next

\* A withdrawal is inserted with what its call was given, at the time there is;
\* later only its status changes.
LEMMA RowStaysExact ==
  ASSUME Typed, Exact, [Next]_vars, NEW v \in Requests
  PROVE  RowExact(withdrawal'[v])
  <1> USE DEF RowExact
  <1>1. RowExact(withdrawal[v]) /\ withdrawal \in [Requests -> WithdrawalRow] /\ clock \in 0..MaxTime
    BY DEF Exact, Typed
  <1>2. ASSUME NEW r \in Requests, WithdrawCommit(r) \/ CreateCommit(r)
        PROVE  RowExact(withdrawal'[v])
    <2>1. arg[r].amount \in Amounts \cup {0}
      BY DEF Exact, ArgExact
    <2> QED BY <1>1, <1>2, <2>1 DEF WithdrawCommit, CreateCommit, Insert
  <1>3. ASSUME NEW r \in Requests, NEW w, NEW s, withdrawal' = [withdrawal EXCEPT ![w].status = s]
        PROVE  RowExact(withdrawal'[v])
    BY <1>1, <1>3 DEF WithdrawalRow
  <1>4. ASSUME NEW r \in Requests, Step(r)
        PROVE  \/ withdrawal' = withdrawal
               \/ WithdrawCommit(r) \/ CreateCommit(r)
               \/ \E w, s : withdrawal' = [withdrawal EXCEPT ![w].status = s]
    BY <1>4 DEF Step, Withdraw, CreateWithdrawal, LockRead, LockConflict, Act, Disbursed,
                DisbursementFailed, Abort, CancelCommit, ApproveCommit, RejectCommit, FailedCommit,
                SetStatus
  <1>5. CASE Tick \/ UNCHANGED vars
    BY <1>1, <1>5 DEF Tick, vars
  <1> QED BY <1>1, <1>2, <1>3, <1>4, <1>5 DEF Next

\* Only a decision overtakes other calls.
LEMMA OvertakeMoves ==
  ASSUME [Next]_vars
  PROVE  \/ UNCHANGED <<overtaken, twice>>
         \/ \E r \in Requests :
               /\ CancelCommit(r) \/ ApproveCommit(r) \/ RejectCommit(r) \/ FailedCommit(r)
               /\ Overtake(r)
  BY DEF Next, Step, Withdraw, CreateWithdrawal, LockRead, LockConflict, Act, Disbursed,
         DisbursementFailed, Abort, CancelCommit, ApproveCommit, RejectCommit, FailedCommit,
         WithdrawCommit, CreateCommit, Tick, vars

LEMMA ExactStep == Typed /\ Exact /\ [Next]_vars => Exact'
  <1> SUFFICES ASSUME Typed, Exact, [Next]_vars PROVE Exact'
    OBVIOUS
  <1>1. /\ wallet.version \in Nat /\ wallet'.version \in Nat
        /\ wallet.version <= wallet'.version
    BY TypedStep, VersionGrows
  <1>2. ASSUME NEW q \in Requests PROVE ArgExact(arg'[q], wallet'.version)
    <2>1. ArgExact(arg'[q], wallet.version)
      BY ArgMoves
    <2> QED BY <1>1, <2>1 DEF ArgExact
  <1>3. \A q \in Requests : RowExact(withdrawal'[q])
    BY RowStaysExact
  <1>4. clock' \in 0..MaxTime
    <2>1. clock \in 0..MaxTime /\ MaxTime \in Nat
      BY WithdrawalAssumption DEF Exact
    <2>2. clock' = clock \/ Tick
      BY DEF Next, Step, Withdraw, CreateWithdrawal, LockRead, LockConflict, Act, Disbursed,
             DisbursementFailed, Abort, CancelCommit, ApproveCommit, RejectCommit, FailedCommit,
             WithdrawCommit, CreateCommit, vars
    <2> QED BY <2>1, <2>2 DEF Tick
  <1>5. answered' \subseteq Requests
    <2>1. ASSUME NEW r \in Requests, Step(r)
          PROVE  \/ answered' = answered
                 \/ \E w \in Requests : answered' = answered \cup {w}
      <3>1. CASE FailedCommit(r)
        BY <3>1 DEF FailedCommit, Typed, Deciding
      <3>2. CASE ~FailedCommit(r)
        BY <2>1, <3>2 DEF Step, Withdraw, CreateWithdrawal, LockRead, LockConflict, Act, Disbursed,
               DisbursementFailed, Abort, CancelCommit, ApproveCommit, RejectCommit,
               WithdrawCommit, CreateCommit
      <3> QED BY <3>1, <3>2
    <2>2. CASE Tick \/ UNCHANGED vars
      BY <2>2 DEF Tick, vars, Exact
    <2> QED BY <2>1, <2>2 DEF Next, Exact
  <1>6. overtaken' \subseteq Requests /\ twice' \in Nat
    <2>1. CASE UNCHANGED <<overtaken, twice>>
      BY <2>1 DEF Exact
    <2>2. ASSUME NEW r \in Requests,
                 CancelCommit(r) \/ ApproveCommit(r) \/ RejectCommit(r) \/ FailedCommit(r),
                 Overtake(r)
          PROVE  overtaken' \subseteq Requests /\ twice' \in Nat
      <3>1. PICK w \in Requests : w = arg[r].target
        BY <2>2 DEF Typed, Deciding, CancelCommit, ApproveCommit, RejectCommit, FailedCommit
      <3>2. withdrawal[w].amount \in Nat
        BY DEF Typed, WithdrawalRow
      <3> QED
        BY <2>2, <3>1, <3>2 DEF Overtake, Exact
    <2> QED
      BY <2>1, <2>2, OvertakeMoves
  <1> QED BY <1>2, <1>3, <1>4, <1>5, <1>6 DEF Exact

\* Every variable keeps its type: a row is of an amount somebody asked for and of a
\* time that has been, and what a call read of the wallet is a version it has had.
THEOREM TypeCorrect == Spec => []TypeOK
  <1>1. Init => Exact
    BY WithdrawalAssumption DEF Init, Exact, RowExact, ArgExact, NoWithdrawal, Blank, Opened
  <1>2. Typed /\ Exact => TypeOK
    BY DEF Typed, Exact, RowExact, ArgExact, TypeOK, WithdrawalRow, ArgType
  <1> QED BY <1>1, <1>2, TypedInit, TypedStep, ExactStep, PTL DEF Spec

----------------------------------------------------------------------------
(* The wallet is not overdrawn.                                            *)

\* There is no debt, and who is about to lock an amount finds it available if the
\* version is still the one that was read.
Covered ==
    /\ Available(wallet) >= 0
    /\ \A r \in Requests :
          /\ pc[r] # "withdraw"
          /\ pc[r] = "cas" => /\ arg[r].version <= wallet.version
                              /\ arg[r].version = wallet.version =>
                                     Available(wallet) >= arg[r].amount

LEMMA CoveredInit == Init => Covered
  <1> SUFFICES ASSUME Init PROVE Covered
    OBVIOUS
  <1>1. Available(wallet) = Opening /\ Opening \in Nat
    BY WithdrawalAssumption DEF WithdrawalAssumption, Init, Opened, Available
  <1> QED
    BY <1>1 DEF Init, Covered

\* A step that leaves the version and takes nothing from what is available, or
\* moves the version on and leaves no debt, keeps Covered, if no call goes on to
\* the lock.
LEMMA CoveredKept ==
  ASSUME Typed, Typed', Covered,
         \/ wallet'.version = wallet.version /\ Available(wallet') >= Available(wallet)
         \/ wallet'.version = wallet.version + 1 /\ Available(wallet') >= 0,
         \A r \in Requests :
            /\ pc'[r] # "withdraw"
            /\ pc'[r] = "cas" => pc[r] = "cas" /\ arg'[r] = arg[r]
  PROVE  Covered'
  <1>1. /\ wallet.version \in Nat /\ wallet'.version \in Nat
        /\ Available(wallet) \in Int /\ Available(wallet') \in Int
    BY DEF Typed, Row, Available
  <1>2. Available(wallet') >= 0
    BY <1>1 DEF Covered
  <1>3. ASSUME NEW r \in Requests, pc'[r] = "cas"
        PROVE  /\ arg'[r].version <= wallet'.version
               /\ arg'[r].version = wallet'.version => Available(wallet') >= arg'[r].amount
    <2>1. /\ arg'[r] = arg[r] /\ arg[r].version \in Int /\ arg[r].amount \in Nat
          /\ arg[r].version <= wallet.version
          /\ arg[r].version = wallet.version => Available(wallet) >= arg[r].amount
      BY <1>3 DEF Typed, ArgType, Covered
    <2> QED
      BY <1>1, <2>1
  <1> QED
    BY <1>2, <1>3 DEF Covered, Available

LEMMA CoveredStep ==
  ASSUME "wallet" \notin Routes
  PROVE  Typed /\ Covered /\ [Next]_vars => Covered'
  <1> SUFFICES ASSUME Typed, Covered, [Next]_vars PROVE Covered'
    OBVIOUS
  <1>0. Typed'
    BY TypedStep
  <1>1. ASSUME NEW r \in Requests, NEW a \in Amounts, Withdraw(r, a) \/ CreateWithdrawal(r, a)
        PROVE  Covered'
    <2>1. CreateWithdrawal(r, a)
      BY <1>1 DEF Withdraw
    <2>2. /\ pc'[r] = "lock" /\ \A q \in Requests : q # r => pc'[q] = pc[q] /\ arg'[q] = arg[q]
          /\ wallet' = wallet
      BY <2>1, ArriveGives DEF CreateWithdrawal, Label, Typed
    <2> QED
      BY <1>0, <2>2, CoveredKept DEF Covered, Typed, Row, Available
  <1>2. ASSUME NEW r \in Requests, WithdrawCommit(r) \/ CreateCommit(r) PROVE Covered'
    <2>1. CreateCommit(r) /\ pc[r] = "cas" /\ arg[r].version = wallet.version
      BY <1>2 DEF WithdrawCommit, CreateCommit, Covered, SameVersion
    <2>2. arg[r].amount \in Nat /\ Available(wallet) >= arg[r].amount /\ Available(wallet) \in Int
      BY <2>1 DEF Covered, Typed, ArgType, Row, Available
    <2>3. wallet'.version = wallet.version + 1 /\ Available(wallet') >= 0
      <3> DEFINE a == arg[r].amount  w == LockBalance(wallet, a)
      <3>1. wallet' = w /\ wallet \in Row /\ a \in Int
        BY <2>1, <2>2 DEF CreateCommit, Typed
      <3> HIDE DEF a, w
      <3>2. w.version = wallet.version + 1 /\ Available(w) = Available(wallet) - a
        BY <3>1, RowMoves DEF w
      <3>3. Available(wallet') = Available(w)
        BY <3>1 DEF Available
      <3> QED
        BY <2>2, <3>1, <3>2, <3>3 DEF a
    <2>4. /\ pc'[r] = "done"
          /\ \A q \in Requests : q # r => pc'[q] = pc[q] /\ arg'[q] = arg[q]
      BY <2>1, FinishGives DEF CreateCommit
    <2> QED
      BY <1>0, <2>3, <2>4, CoveredKept DEF Covered
  <1>3. ASSUME NEW r \in Requests, LockRead(r) PROVE Covered'
    <2>1. /\ pc'[r] = "cas" /\ arg'[r].version = wallet.version /\ arg'[r].amount = arg[r].amount
          /\ Available(wallet) >= arg[r].amount
          /\ \A q \in Requests : q # r => pc'[q] = pc[q] /\ arg'[q] = arg[q]
          /\ wallet' = wallet
      BY <1>3 DEF LockRead, CanLock, Goto, Typed, ArgType
    <2>2. wallet.version <= wallet.version
      BY DEF Typed, Row
    <2> QED
      BY <2>1, <2>2 DEF Covered, Available
  <1>4. ASSUME NEW r \in Requests, LockConflict(r) PROVE Covered'
    <2>1. /\ pc'[r] = "lock" /\ \A q \in Requests : q # r => pc'[q] = pc[q] /\ arg'[q] = arg[q]
          /\ wallet' = wallet
      BY <1>4 DEF LockConflict, Goto, Typed
    <2> QED
      BY <1>0, <2>1, CoveredKept DEF Covered, Typed, Row, Available
  <1>5. ASSUME NEW r \in Requests, NEW w \in Requests,
               \/ \E label \in Label : Act(r, w, label)
               \/ Disbursed(r, w) \/ DisbursementFailed(r, w)
        PROVE  Covered'
    <2>1. /\ pc'[r] \notin {"withdraw", "cas"} /\ \A q \in Requests : q # r => pc'[q] = pc[q]
      BY <1>5, ArriveGives DEF Act, Disbursed, DisbursementFailed, Label
    <2>2. /\ \A q \in Requests : q # r => arg'[q] = arg[q]
          /\ wallet' = wallet
      BY <1>5 DEF Act, Disbursed, DisbursementFailed, Typed
    <2> QED
      BY <1>0, <2>1, <2>2, CoveredKept DEF Covered, Typed, Row, Available
  <1>6. ASSUME NEW r \in Requests,
               CancelCommit(r) \/ ApproveCommit(r) \/ RejectCommit(r) \/ FailedCommit(r)
        PROVE  Covered'
    <2> DEFINE a == withdrawal[arg[r].target].amount
    <2>1. arg[r].target \in Requests /\ Finish(r)
      BY <1>6 DEF CancelCommit, ApproveCommit, RejectCommit, FailedCommit, Typed, Deciding
    <2>2. a \in Nat /\ Available(wallet) \in Int /\ Available(wallet) >= 0
      BY <2>1 DEF Typed, WithdrawalRow, Row, Available, Covered
    <2>3. wallet' \in {UnlockBalance(wallet, a), TakeLocked(wallet, a), DropLock(wallet, a)}
      BY <1>6 DEF CancelCommit, ApproveCommit, RejectCommit, FailedCommit
    <2> HIDE DEF a
    <2>4. \/ wallet'.version = wallet.version /\ Available(wallet') >= Available(wallet)
          \/ wallet'.version = wallet.version + 1 /\ Available(wallet') >= 0
      <3>1. wallet \in Row /\ a \in Int
        BY <2>2 DEF Typed
      <3>2. /\ UnlockBalance(wallet, a).version = wallet.version + 1
            /\ Available(UnlockBalance(wallet, a)) = Available(wallet) + a
            /\ TakeLocked(wallet, a).version = wallet.version
            /\ Available(TakeLocked(wallet, a)) = Available(wallet)
            /\ DropLock(wallet, a).version = wallet.version
            /\ Available(DropLock(wallet, a)) = Available(wallet) + a
        BY <3>1, RowMoves
      <3>3. CASE wallet' = UnlockBalance(wallet, a)
        <4>1. Available(wallet') = Available(wallet) + a
          BY <3>2, <3>3 DEF Available
        <4> QED
          BY <2>2, <3>2, <3>3, <4>1
      <3>4. CASE wallet' = TakeLocked(wallet, a)
        <4>1. Available(wallet') = Available(wallet)
          BY <3>2, <3>4 DEF Available
        <4> QED
          BY <2>2, <3>2, <3>4, <4>1
      <3>5. CASE wallet' = DropLock(wallet, a)
        <4>1. Available(wallet') = Available(wallet) + a
          BY <3>2, <3>5 DEF Available
        <4> QED
          BY <2>2, <3>2, <3>5, <4>1
      <3> QED
        BY <2>3, <3>3, <3>4, <3>5
    <2> QED
      BY <1>0, <2>1, <2>4, FinishGives, CoveredKept DEF Covered
  <1>7. ASSUME NEW r \in Requests, Abort(r) PROVE Covered'
    <2>1. Finish(r) /\ wallet' = wallet
      BY <1>7 DEF Abort
    <2> QED
      BY <1>0, <2>1, FinishGives, CoveredKept DEF Covered, Typed, Row, Available
  <1>8. CASE Tick \/ UNCHANGED vars
    BY <1>8 DEF Tick, vars, Covered, Available
  <1> QED
    BY <1>1, <1>2, <1>3, <1>4, <1>5, <1>6, <1>7, <1>8 DEF Next, Step

\* Where withdrawals are made by POST withdrawals, the wallet never locks more than it
\* holds, whatever calls overlap, fail or are repeated.
THEOREM NothingOverdrawn ==
  ASSUME "wallet" \notin Routes
  PROVE  Spec => []NoOverdraft
  <1>1. Spec => [](Typed /\ Covered)
    BY TypedInit, TypedStep, CoveredInit, CoveredStep, PTL DEF Spec
  <1>2. Typed /\ Covered => NoOverdraft
    BY DEF Typed, Row, Covered, Available, NoOverdraft
  <1> QED
    BY <1>1, <1>2, PTL

----------------------------------------------------------------------------
(* A withdrawal is decided once.                                           *)

\* A request that has not written yet has made no withdrawal, and a call about a
\* withdrawal is about one that was made.
Recorded ==
    \A r \in Requests :
        /\ pc[r] \in {"idle", "withdraw", "lock", "cas"} => withdrawal[r].status = "NONE"
        /\ pc[r] \in Deciding \cup {"failed"} => withdrawal[arg[r].target].status # "NONE"

\* If calls do not overlap, one is served at a time, ...
Alone == Serialised => \A q, r \in Requests : InFlight(q) /\ InFlight(r) => q = r

\* ... and finds its withdrawal as it was when it was checked.
InTime ==
    Serialised => \A r \in Requests :
        /\ pc[r] \in Deciding => withdrawal[arg[r].target].status = "PENDING"
        /\ pc[r] = "failed" => withdrawal[arg[r].target].status = "APPROVED"

Decided == Recorded /\ Alone /\ InTime

LEMMA DecidedInit == Init => Decided
  BY DEF Init, Decided, Recorded, Alone, InTime, InFlight, NoWithdrawal, Deciding

\* A step that writes no withdrawal keeps Decided, if a call that goes on to write
\* one has checked it.
LEMMA DecidedKept ==
  ASSUME Typed, Decided, NEW r \in Requests, withdrawal' = withdrawal,
         \A q \in Requests : q # r => pc'[q] = pc[q] /\ arg'[q] = arg[q],
         pc'[r] \in {"withdraw", "lock", "cas"} => pc[r] \in {"idle", "withdraw", "lock", "cas"},
         pc'[r] # "idle",
         pc'[r] \in Deciding => withdrawal[arg'[r].target].status = "PENDING",
         pc'[r] = "failed" => withdrawal[arg'[r].target].status = "APPROVED",
         InFlight(r) \/ pc'[r] = "done" \/ (Serialised => \A q \in Requests : ~ InFlight(q))
  PROVE  Decided'
  <1>1. Recorded'
    BY DEF Decided, Recorded
  <1>2. Alone'
    BY DEF Decided, Alone, InFlight
  <1>3. InTime'
    BY DEF Decided, InTime
  <1> QED
    BY <1>1, <1>2, <1>3 DEF Decided

\* A call that writes is done, and if calls do not overlap, was the only one.
LEMMA DecidedWritten ==
  ASSUME Typed, Decided, NEW r \in Requests, NEW w \in Requests,
         \A v \in Requests : v # w => withdrawal'[v] = withdrawal[v],
         withdrawal'[w].status # "NONE",
         withdrawal[w].status # "NONE" \/ w = r,
         pc'[r] = "done",
         \A q \in Requests : q # r => pc'[q] = pc[q] /\ arg'[q] = arg[q],
         Serialised => \A q \in Requests : q # r => ~ InFlight(q)
  PROVE  Decided'
  <1>1. Recorded'
    <2> SUFFICES ASSUME NEW q \in Requests
                 PROVE  /\ pc'[q] \in {"idle", "withdraw", "lock", "cas"} =>
                               withdrawal'[q].status = "NONE"
                        /\ pc'[q] \in Deciding \cup {"failed"} =>
                               withdrawal'[arg'[q].target].status # "NONE"
      BY DEF Recorded
    <2>1. CASE q = r
      BY <2>1 DEF Deciding
    <2>2. CASE q # r
      <3>1. pc[q] \in {"idle", "withdraw", "lock", "cas"} => withdrawal[q].status = "NONE" /\ q # w
        BY <2>2 DEF Decided, Recorded
      <3>2. pc[q] \in Deciding \cup {"failed"} =>
               arg[q].target \in Requests /\ withdrawal[arg[q].target].status # "NONE"
        BY DEF Decided, Recorded, Typed
      <3> QED
        BY <2>2, <3>1, <3>2
    <2> QED
      BY <2>1, <2>2
  <1>2. Alone'
    BY DEF Decided, Alone, InFlight
  <1>3. InTime'
    BY DEF InTime, InFlight, Deciding
  <1> QED
    BY <1>1, <1>2, <1>3 DEF Decided

LEMMA DecidedStep == Typed /\ Decided /\ [Next]_vars => Decided'
  <1> SUFFICES ASSUME Typed, Decided, [Next]_vars PROVE Decided'
    OBVIOUS
  <1> DEFINE Goal == Decided'
  <1>1. ASSUME NEW r \in Requests, NEW a \in Amounts, Withdraw(r, a) \/ CreateWithdrawal(r, a)
        PROVE  Goal
    <2>1. /\ pc[r] = "idle" /\ pc'[r] \in {"withdraw", "lock"}
          /\ \A q \in Requests : q # r => pc'[q] = pc[q]
          /\ Serialised => \A q \in Requests : ~ InFlight(q)
      BY <1>1, ArriveGives DEF Withdraw, CreateWithdrawal, Label
    <2>2. withdrawal' = withdrawal /\ \A q \in Requests : q # r => arg'[q] = arg[q]
      BY <1>1 DEF Withdraw, CreateWithdrawal, Typed
    <2> QED
      BY <2>1, <2>2, DecidedKept DEF Deciding
  <1>2. ASSUME NEW r \in Requests, LockRead(r) \/ LockConflict(r) PROVE Goal
    <2>1. /\ pc[r] \in {"lock", "cas"} /\ pc'[r] \in {"lock", "cas"}
          /\ \A q \in Requests : q # r => pc'[q] = pc[q] /\ arg'[q] = arg[q]
          /\ withdrawal' = withdrawal
      BY <1>2 DEF LockRead, LockConflict, Goto, Typed
    <2> QED
      BY <2>1, DecidedKept DEF Deciding, InFlight
  <1>3. ASSUME NEW r \in Requests, NEW w \in Requests, NEW label \in Label, Act(r, w, label)
        PROVE  Goal
    <2>1. /\ label \in Deciding /\ pc'[r] = label
          /\ \A q \in Requests : q # r => pc'[q] = pc[q]
          /\ Serialised => \A q \in Requests : ~ InFlight(q)
      BY <1>3, ArriveGives DEF Act, Deciding
    <2>2. /\ withdrawal' = withdrawal /\ withdrawal[w].status = "PENDING"
          /\ arg'[r].target = w /\ \A q \in Requests : q # r => arg'[q] = arg[q]
      BY <1>3 DEF Act, StillPending, Typed, ArgType
    <2> QED
      BY <2>1, <2>2, DecidedKept DEF Deciding
  <1>4. ASSUME NEW r \in Requests, NEW w \in Requests, DisbursementFailed(r, w) PROVE Goal
    <2>1. /\ pc'[r] = "failed"
          /\ \A q \in Requests : q # r => pc'[q] = pc[q]
          /\ Serialised => \A q \in Requests : ~ InFlight(q)
      BY <1>4, ArriveGives DEF DisbursementFailed, Label
    <2>2. /\ withdrawal' = withdrawal /\ withdrawal[w].status = "APPROVED"
          /\ arg'[r].target = w /\ \A q \in Requests : q # r => arg'[q] = arg[q]
      BY <1>4 DEF DisbursementFailed, Reportable, Typed, ArgType
    <2> QED
      BY <2>1, <2>2, DecidedKept DEF Deciding
  <1>5. ASSUME NEW r \in Requests, NEW w \in Requests, Disbursed(r, w) PROVE Goal
    <2>1. /\ pc[r] = "idle" /\ pc'[r] = "done"
          /\ \A q \in Requests : q # r => pc'[q] = pc[q]
          /\ Serialised => \A q \in Requests : ~ InFlight(q)
      BY <1>5, ArriveGives DEF Disbursed, Label
    <2>2. /\ withdrawal[w].status = "APPROVED" /\ withdrawal'[w].status = "COMPLETED"
          /\ \A v \in Requests : v # w => withdrawal'[v] = withdrawal[v]
          /\ arg' = arg
      BY <1>5, StatusGives DEF Disbursed, Reportable, Status
    <2> QED
      BY <2>1, <2>2, DecidedWritten
  <1>6. ASSUME NEW r \in Requests, WithdrawCommit(r) \/ CreateCommit(r) PROVE Goal
    <2>1. /\ pc[r] \in {"withdraw", "cas"} /\ Finish(r) /\ arg[r].amount \in Nat
          /\ Insert(r, arg[r].amount, TRUE) \/ Insert(r, arg[r].amount, FALSE)
      BY <1>6 DEF WithdrawCommit, CreateCommit, Typed, ArgType
    <2>2. /\ withdrawal[r].status = "NONE" /\ withdrawal'[r].status = "PENDING"
          /\ \A v \in Requests : v # r => withdrawal'[v] = withdrawal[v]
      BY <2>1, InsertGives DEF Decided, Recorded
    <2>3. Serialised => \A q \in Requests : q # r => ~ InFlight(q)
      BY <2>1 DEF Decided, Alone, InFlight
    <2> QED
      BY <2>1, <2>2, <2>3, FinishGives, DecidedWritten
  <1>7. ASSUME NEW r \in Requests,
               CancelCommit(r) \/ ApproveCommit(r) \/ RejectCommit(r) \/ FailedCommit(r)
        PROVE  Goal
    <2>1. /\ Finish(r) /\ arg[r].target \in Requests /\ InFlight(r)
          /\ withdrawal[arg[r].target].status # "NONE"
      BY <1>7 DEF CancelCommit, ApproveCommit, RejectCommit, FailedCommit, Typed, Deciding,
                  Decided, Recorded, InFlight
    <2>2. \/ pc[r] \in Deciding /\ \E s \in {"APPROVED", "REJECTED"} : SetStatus(r, s)
          \/ pc[r] = "failed" /\ SetStatus(r, "FAILED")
      BY <1>7 DEF CancelCommit, ApproveCommit, RejectCommit, FailedCommit, Deciding
    <2>3. PICK s \in {"APPROVED", "REJECTED", "FAILED"} : SetStatus(r, s)
      BY <2>2
    <2>4. /\ withdrawal'[arg[r].target].status = s
          /\ \A v \in Requests : v # arg[r].target => withdrawal'[v] = withdrawal[v]
      BY <2>1, <2>3, StatusGives DEF SetStatus, Status
    <2>5. Serialised => \A q \in Requests : q # r => ~ InFlight(q)
      BY <2>1 DEF Decided, Alone
    <2>6. /\ pc'[r] = "done" /\ \A q \in Requests : q # r => pc'[q] = pc[q] /\ arg'[q] = arg[q]
      BY <2>1, FinishGives
    <2> QED
      BY <2>1, <2>4, <2>5, <2>6, DecidedWritten
  <1>8. ASSUME NEW r \in Requests, Abort(r) PROVE Goal
    <2>1. Finish(r) /\ withdrawal' = withdrawal
      BY <1>8 DEF Abort
    <2> QED
      BY <2>1, FinishGives, DecidedKept DEF Deciding
  <1>9. CASE Tick \/ UNCHANGED vars
    BY <1>9 DEF Tick, vars, Decided, Recorded, Alone, InTime, InFlight
  <1> QED
    BY <1>1, <1>2, <1>3, <1>4, <1>5, <1>6, <1>7, <1>8, <1>9 DEF Next, Step

----------------------------------------------------------------------------
(* A key makes one withdrawal.                                             *)

LEMMA OneWithdrawalStep ==
  Typed /\ Decided /\ OneWithdrawalPerKey /\ [Next]_vars => OneWithdrawalPerKey'
  <1> SUFFICES ASSUME Typed, Decided, OneWithdrawalPerKey, [Next]_vars
               PROVE  OneWithdrawalPerKey'
    OBVIOUS
  <1>1. ASSUME NEW r \in Requests, WithdrawCommit(r) PROVE OneWithdrawalPerKey'
    <2>1. arg[r].amount \in Nat
      BY DEF Typed, ArgType
    <2>2. /\ withdrawal'[r].keyed = FALSE
          /\ \A w \in Requests : w # r => withdrawal'[w] = withdrawal[w]
      BY <1>1, <2>1, InsertGives DEF WithdrawCommit
    <2> QED
      BY <2>2 DEF OneWithdrawalPerKey, WithStatus
  <1>2. ASSUME NEW r \in Requests, CreateCommit(r) PROVE OneWithdrawalPerKey'
    <2>1. arg[r].amount \in Nat
      BY DEF Typed, ArgType
    <2>2. \A w \in Requests : w # r => withdrawal'[w] = withdrawal[w]
      BY <1>2, <2>1, InsertGives DEF CreateCommit
    <2>3. \A w \in Requests :
             withdrawal[w].status # "NONE" /\ withdrawal[w].keyed => KeyOf[w] # KeyOf[r]
      BY <1>2 DEF CreateCommit, KeyFree, WithStatus
    <2> QED
      BY <2>2, <2>3 DEF OneWithdrawalPerKey, WithStatus
  <1>3. ASSUME NEW w \in Requests, NEW s \in Status, withdrawal[w].status # "NONE",
               withdrawal' = [withdrawal EXCEPT ![w].status = s]
        PROVE  OneWithdrawalPerKey'
    BY <1>3, StatusGives DEF OneWithdrawalPerKey, WithStatus
  <1>4. CASE withdrawal' = withdrawal
    BY <1>4 DEF OneWithdrawalPerKey, WithStatus
  <1>5. ASSUME NEW r \in Requests, NEW w \in Requests, Disbursed(r, w)
        PROVE  OneWithdrawalPerKey'
    BY <1>3, <1>5 DEF Disbursed, Reportable, Status
  <1>6. ASSUME NEW r \in Requests,
               CancelCommit(r) \/ ApproveCommit(r) \/ RejectCommit(r) \/ FailedCommit(r)
        PROVE  OneWithdrawalPerKey'
    <2>1. /\ arg[r].target \in Requests /\ withdrawal[arg[r].target].status # "NONE"
          /\ \E s \in Status : SetStatus(r, s)
      BY <1>6 DEF CancelCommit, ApproveCommit, RejectCommit, FailedCommit, Typed, Deciding,
                  Decided, Recorded, Status
    <2> QED
      BY <1>3, <2>1 DEF SetStatus
  <1>7. \/ withdrawal' = withdrawal
        \/ \E r \in Requests :
              \/ WithdrawCommit(r) \/ CreateCommit(r)
              \/ CancelCommit(r) \/ ApproveCommit(r) \/ RejectCommit(r) \/ FailedCommit(r)
              \/ \E w \in Requests : Disbursed(r, w)
    BY DEF Next, Step, vars, Withdraw, CreateWithdrawal, LockRead, LockConflict, Act,
           DisbursementFailed, Abort, Tick
  <1> QED
    BY <1>1, <1>2, <1>4, <1>5, <1>6, <1>7

\* A key makes one withdrawal, even if the retry overlaps the first try.
THEOREM KeyWithdrawsOnce == Spec => []OneWithdrawalPerKey
  <1>1. Init => OneWithdrawalPerKey
    BY DEF Init, NoWithdrawal, OneWithdrawalPerKey
  <1>2. Spec => [](Typed /\ Decided /\ OneWithdrawalPerKey)
    BY <1>1, TypedInit, TypedStep, DecidedInit, DecidedStep, OneWithdrawalStep, PTL DEF Spec
  <1> QED
    BY <1>2, PTL

----------------------------------------------------------------------------
(* The wallet and the withdrawals table.                                   *)

\* What a withdrawal adds to the amounts of those with a status in S.
Part(h, S) == IF h.status \in S THEN h.amount ELSE 0

LEMMA AmountType ==
  ASSUME Typed, NEW W \in SUBSET Requests
  PROVE  AmountOf(W) \in Nat
  <1> DEFINE amount == [w \in Requests |-> withdrawal[w].amount]
  <1>1. \A w \in W : amount[w] \in Nat
    BY DEF Typed, WithdrawalRow
  <1>2. IsFiniteSet(W)
    BY WithdrawalAssumption, FS_Subset
  <1> HIDE DEF amount
  <1>3. SumFunctionOnSet(amount, W) \in Nat
    BY <1>1, <1>2, SumNat
  <1> QED
    BY <1>3 DEF AmountOf, amount

\* One withdrawal is written: what the withdrawals with a status in S add up to
\* moves by what its part moves.
LEMMA AmountMoves ==
  ASSUME Typed, Typed', NEW w \in Requests, NEW S,
         \A v \in Requests : v # w => withdrawal'[v] = withdrawal[v]
  PROVE  AmountOf(WithStatus(S))'
             = AmountOf(WithStatus(S)) + Part(withdrawal'[w], S) - Part(withdrawal[w], S)
  <1> DEFINE f == [v \in Requests |-> withdrawal[v].amount]
             g == [v \in Requests |-> withdrawal'[v].amount]
             U == {v \in Requests : withdrawal[v].status \in S}
             V == {v \in Requests : withdrawal'[v].status \in S}
  <1>1. Ints(f, Requests) /\ Ints(g, Requests)
    BY DEF Typed, WithdrawalRow, Ints
  <1>2. \A y \in Requests \ {w} : f[y] = g[y] /\ (y \in U <=> y \in V)
    OBVIOUS
  <1>3. U \in SUBSET Requests /\ V \in SUBSET Requests
    OBVIOUS
  <1>4. /\ (IF w \in V THEN g[w] ELSE 0) = Part(withdrawal'[w], S)
        /\ (IF w \in U THEN f[w] ELSE 0) = Part(withdrawal[w], S)
    BY DEF Part
  <1>5. SumFunctionOnSet(g, V) = AmountOf(WithStatus(S))' /\ SumFunctionOnSet(f, U) = AmountOf(WithStatus(S))
    BY DEF AmountOf, WithStatus
  <1>6. IsFiniteSet(Requests)
    BY WithdrawalAssumption
  <1> HIDE DEF f, g, U, V
  <1>7. SumFunctionOnSet(g, V)
            = SumFunctionOnSet(f, U) + (IF w \in V THEN g[w] ELSE 0) - (IF w \in U THEN f[w] ELSE 0)
    BY <1>1, <1>2, <1>3, <1>6, SumMoves
  <1> QED
    BY <1>4, <1>5, <1>7

\* The withdrawal a commit inserts, and the wallet it leaves.
LEMMA CommitMoves ==
  ASSUME Typed, Recorded, NEW r \in Requests, WithdrawCommit(r) \/ CreateCommit(r)
  PROVE  /\ arg[r].amount \in Nat
         /\ withdrawal[r].status = "NONE"
         /\ withdrawal'[r].status = "PENDING" /\ withdrawal'[r].amount = arg[r].amount
         /\ \A w \in Requests : w # r => withdrawal'[w] = withdrawal[w]
         /\ wallet'.balance = wallet.balance /\ wallet'.locked = wallet.locked + arg[r].amount
  <1>1. arg[r].amount \in Nat /\ wallet \in Row
    BY DEF Typed, ArgType
  <1>2. withdrawal[r].status = "NONE"
    BY DEF WithdrawCommit, CreateCommit, Recorded
  <1>3. /\ wallet' = LockBalance(wallet, arg[r].amount)
        /\ \E keyed \in BOOLEAN : Insert(r, arg[r].amount, keyed)
    BY DEF WithdrawCommit, CreateCommit
  <1>4. /\ withdrawal'[r].status = "PENDING" /\ withdrawal'[r].amount = arg[r].amount
        /\ \A w \in Requests : w # r => withdrawal'[w] = withdrawal[w]
    BY <1>3 DEF Typed, Insert
  <1>5. /\ LockBalance(wallet, arg[r].amount).balance = wallet.balance
        /\ LockBalance(wallet, arg[r].amount).locked = wallet.locked + arg[r].amount
    BY <1>1, Columns
  <1> QED
    BY <1>1, <1>2, <1>3, <1>4, <1>5

\* What a decision writes: the status of the withdrawal it is about, and to the wallet
\* that withdrawal's amount.
LEMMA DecisionMoves ==
  ASSUME Typed, NEW r \in Requests,
         CancelCommit(r) \/ ApproveCommit(r) \/ RejectCommit(r) \/ FailedCommit(r),
         NEW w, w = arg[r].target, NEW a, a = withdrawal[w].amount
  PROVE  /\ w \in Requests /\ a \in Nat
         /\ withdrawal'[w].amount = a
         /\ \A v \in Requests : v # w => withdrawal'[v] = withdrawal[v]
         /\ wallet'.locked = wallet.locked - a
         /\ \/ /\ pc[r] = "approve" /\ withdrawal'[w].status = "APPROVED"
               /\ wallet'.balance = wallet.balance - a
            \/ /\ pc[r] \in {"cancel", "reject"} /\ withdrawal'[w].status = "REJECTED"
               /\ wallet'.balance = wallet.balance
            \/ /\ pc[r] = "failed" /\ withdrawal'[w].status = "FAILED"
               /\ wallet'.balance = wallet.balance
  <1>1. w \in Requests
    BY DEF Typed, Deciding, CancelCommit, ApproveCommit, RejectCommit, FailedCommit
  <1>2. a \in Nat /\ a \in Int /\ wallet \in Row
    BY <1>1 DEF Typed, WithdrawalRow
  <1>3. PICK s \in Status :
           /\ withdrawal' = [withdrawal EXCEPT ![w].status = s]
           /\ \/ pc[r] = "approve" /\ s = "APPROVED" /\ wallet' = TakeLocked(wallet, a)
              \/ pc[r] = "cancel" /\ s = "REJECTED" /\ wallet' = UnlockBalance(wallet, a)
              \/ pc[r] = "reject" /\ s = "REJECTED" /\ wallet' = DropLock(wallet, a)
              \/ pc[r] = "failed" /\ s = "FAILED" /\ wallet' = DropLock(wallet, a)
    BY DEF CancelCommit, ApproveCommit, RejectCommit, FailedCommit, SetStatus, Status
  <1>4. /\ withdrawal'[w].amount = a /\ withdrawal'[w].status = s
        /\ \A v \in Requests : v # w => withdrawal'[v] = withdrawal[v]
    BY <1>1, <1>3 DEF Typed, WithdrawalRow
  <1>5. /\ TakeLocked(wallet, a).locked = wallet.locked - a
        /\ TakeLocked(wallet, a).balance = wallet.balance - a
        /\ UnlockBalance(wallet, a).locked = wallet.locked - a
        /\ UnlockBalance(wallet, a).balance = wallet.balance
        /\ DropLock(wallet, a).locked = wallet.locked - a
        /\ DropLock(wallet, a).balance = wallet.balance
    BY <1>2, Columns
  <1> QED
    BY <1>1, <1>2, <1>3, <1>4, <1>5

\* A report that a disbursement is through.
LEMMA DisbursedMoves ==
  ASSUME Typed, NEW r \in Requests, NEW w \in Requests, Disbursed(r, w)
  PROVE  /\ withdrawal[w].status = "APPROVED" /\ withdrawal'[w].status = "COMPLETED"
         /\ withdrawal'[w].amount = withdrawal[w].amount
         /\ \A v \in Requests : v # w => withdrawal'[v] = withdrawal[v]
         /\ wallet' = wallet
  BY DEF Typed, WithdrawalRow, Disbursed, Reportable

\* The other steps write neither.
LEMMA OthersWriteNothing ==
  ASSUME [Next]_vars
  PROVE  \/ wallet' = wallet /\ withdrawal' = withdrawal
         \/ \E r \in Requests :
               \/ WithdrawCommit(r) \/ CreateCommit(r)
               \/ CancelCommit(r) \/ ApproveCommit(r) \/ RejectCommit(r) \/ FailedCommit(r)
               \/ \E w \in Requests : Disbursed(r, w)
  BY DEF Next, Step, vars, Withdraw, CreateWithdrawal, LockRead, LockConflict, Act,
         DisbursementFailed, Abort, Tick

LEMMA OwnerStep == Typed /\ Decided /\ OwnerNeverLoses /\ [Next]_vars => OwnerNeverLoses'
  <1> SUFFICES ASSUME Typed, Decided, OwnerNeverLoses, [Next]_vars PROVE OwnerNeverLoses'
    OBVIOUS
  <1> DEFINE S == {"PENDING", "APPROVED", "COMPLETED"}
  <1>1. Typed' /\ Recorded
    BY TypedStep DEF Decided
  <1>2. wallet.balance - wallet.locked >= Opening - AmountOf(WithStatus(S))
    BY DEF OwnerNeverLoses, Available, Counted
  <1>3. AmountOf(WithStatus(S)) \in Nat /\ AmountOf(WithStatus(S))' \in Nat
    <2>1. WithStatus(S) \in SUBSET Requests /\ WithStatus(S)' \in SUBSET Requests
      BY DEF WithStatus
    <2>2. \A v \in Requests : withdrawal[v].amount \in Nat /\ withdrawal'[v].amount \in Nat
      BY <1>1 DEF Typed, WithdrawalRow
    <2>3. IsFiniteSet(WithStatus(S)) /\ IsFiniteSet(WithStatus(S)')
      BY <2>1, WithdrawalAssumption, FS_Subset
    <2> DEFINE f == [v \in Requests |-> withdrawal[v].amount]
               g == [v \in Requests |-> withdrawal'[v].amount]
    <2>4. /\ \A v \in WithStatus(S) : f[v] \in Nat
          /\ \A v \in WithStatus(S)' : g[v] \in Nat
      BY <2>1, <2>2
    <2> HIDE DEF f, g
    <2>5. SumFunctionOnSet(f, WithStatus(S)) \in Nat /\ SumFunctionOnSet(g, WithStatus(S)') \in Nat
      BY <2>3, <2>4, SumNat
    <2> QED
      BY <2>5 DEF AmountOf, f, g
  <1>4. /\ Opening \in Nat /\ wallet.balance \in Int /\ wallet.locked \in Int
        /\ wallet'.balance \in Int /\ wallet'.locked \in Int
    BY <1>1, WithdrawalAssumption DEF Typed, Row
  <1>5. ASSUME wallet'.balance - wallet'.locked >= Opening - AmountOf(WithStatus(S))'
        PROVE  OwnerNeverLoses'
    BY <1>5 DEF OwnerNeverLoses, Available, Counted
  <1>6. ASSUME NEW r \in Requests, WithdrawCommit(r) \/ CreateCommit(r) PROVE OwnerNeverLoses'
    <2>1. AmountOf(WithStatus(S))'
              = AmountOf(WithStatus(S)) + Part(withdrawal'[r], S) - Part(withdrawal[r], S)
      BY <1>1, <1>6, CommitMoves, AmountMoves
    <2>2. Part(withdrawal'[r], S) = arg[r].amount /\ Part(withdrawal[r], S) = 0 /\ arg[r].amount \in Nat
      BY <1>1, <1>6, CommitMoves DEF Part
    <2>3. wallet'.balance = wallet.balance /\ wallet'.locked = wallet.locked + arg[r].amount
      BY <1>1, <1>6, CommitMoves
    <2> HIDE DEF S
    <2> QED
      BY <1>2, <1>3, <1>4, <1>5, <2>1, <2>2, <2>3
  <1>7. ASSUME NEW r \in Requests,
               CancelCommit(r) \/ ApproveCommit(r) \/ RejectCommit(r) \/ FailedCommit(r)
        PROVE  OwnerNeverLoses'
    <2> DEFINE w == arg[r].target  a == withdrawal[w].amount
    <2>1. /\ w \in Requests /\ a \in Nat
          /\ withdrawal'[w].amount = a
          /\ \A v \in Requests : v # w => withdrawal'[v] = withdrawal[v]
          /\ wallet'.locked = wallet.locked - a
          /\ \/ withdrawal'[w].status = "APPROVED" /\ wallet'.balance = wallet.balance - a
             \/ withdrawal'[w].status \in {"REJECTED", "FAILED"} /\ wallet'.balance = wallet.balance
      BY <1>7, DecisionMoves
    <2>2. a = withdrawal[w].amount
      OBVIOUS
    <2> HIDE DEF w, a
    <2>3. AmountOf(WithStatus(S))'
              = AmountOf(WithStatus(S)) + Part(withdrawal'[w], S) - Part(withdrawal[w], S)
      BY <1>1, <2>1, AmountMoves
    <2>4. /\ Part(withdrawal[w], S) \in {0, a}
          /\ \/ Part(withdrawal'[w], S) = a /\ wallet'.balance = wallet.balance - a
             \/ Part(withdrawal'[w], S) = 0 /\ wallet'.balance = wallet.balance
      BY <2>1, <2>2 DEF Part
    <2> HIDE DEF S
    <2> QED
      BY <1>2, <1>3, <1>4, <1>5, <2>1, <2>3, <2>4
  <1>8. ASSUME NEW r \in Requests, NEW w \in Requests, Disbursed(r, w) PROVE OwnerNeverLoses'
    <2>1. AmountOf(WithStatus(S))'
              = AmountOf(WithStatus(S)) + Part(withdrawal'[w], S) - Part(withdrawal[w], S)
      BY <1>1, <1>8, DisbursedMoves, AmountMoves
    <2>2. Part(withdrawal'[w], S) = withdrawal[w].amount /\ Part(withdrawal[w], S) = withdrawal[w].amount
      BY <1>8, DisbursedMoves DEF Part
    <2>3. wallet' = wallet /\ withdrawal[w].amount \in Nat
      BY <1>8, DisbursedMoves DEF Typed, WithdrawalRow
    <2> HIDE DEF S
    <2> QED
      BY <1>2, <1>3, <1>4, <1>5, <2>1, <2>2, <2>3
  <1>9. CASE wallet' = wallet /\ withdrawal' = withdrawal
    BY <1>9 DEF OwnerNeverLoses, Available, Counted, AmountOf, WithStatus
  <1> QED
    BY <1>6, <1>7, <1>8, <1>9, OthersWriteNothing

\* Nothing is lost at the beginning.
LEMMA InitAmounts == Init => \A W \in SUBSET Requests : AmountOf(W) = 0
  <1> SUFFICES ASSUME Init, NEW W \in SUBSET Requests PROVE AmountOf(W) = 0
    OBVIOUS
  <1> DEFINE amount == [w \in Requests |-> withdrawal[w].amount]
  <1>1. \A w \in W : amount[w] = 0
    BY DEF Init, NoWithdrawal
  <1>2. IsFiniteSet(W)
    BY WithdrawalAssumption, FS_Subset
  <1> HIDE DEF amount
  <1>3. SumFunctionOnSet(amount, W) = 0
    BY <1>1, <1>2, SumZero
  <1> QED
    BY <1>3 DEF AmountOf, amount

\* Whatever overlaps, is cancelled, approved, rejected or fails: what is neither
\* counted nor paid is available to the owner.
THEOREM OwnerKeepsMoney == Spec => []OwnerNeverLoses
  <1>1. Init => OwnerNeverLoses
    <2> SUFFICES ASSUME Init PROVE OwnerNeverLoses
      OBVIOUS
    <2>1. Counted \in SUBSET Requests
      BY DEF Counted, WithStatus
    <2>2. AmountOf(Counted) = 0
      BY <2>1, InitAmounts
    <2>3. Available(wallet) = Opening /\ Opening \in Nat
      BY WithdrawalAssumption DEF Init, Opened, Available
    <2> QED
      BY <2>2, <2>3 DEF OwnerNeverLoses
  <1>2. Spec => [](Typed /\ Decided /\ OwnerNeverLoses)
    BY <1>1, TypedInit, TypedStep, DecidedInit, DecidedStep, OwnerStep, PTL DEF Spec
  <1> QED
    BY <1>2, PTL

\* A call about a withdrawal finds it as it checked it, or was overtaken.
Warned ==
    \A r \in Requests :
        /\ pc[r] \in Deciding => withdrawal[arg[r].target].status = "PENDING" \/ r \in overtaken
        /\ pc[r] = "failed" => withdrawal[arg[r].target].status = "APPROVED" \/ r \in overtaken

\* A call that has just checked its withdrawal is warned, and so are the others as long
\* as no withdrawal they are about is written.
LEMMA WarnedKept ==
  ASSUME Typed, Warned, NEW r \in Requests, overtaken' = overtaken,
         \A q \in Requests : q # r => pc'[q] = pc[q] /\ arg'[q] = arg[q],
         \A q \in Requests :
            q # r /\ pc[q] \in Deciding \cup {"failed"} =>
               withdrawal'[arg[q].target].status = withdrawal[arg[q].target].status
               \/ q \in overtaken,
         pc'[r] \in Deciding => withdrawal'[arg'[r].target].status = "PENDING",
         pc'[r] = "failed" => withdrawal'[arg'[r].target].status = "APPROVED"
  PROVE  Warned'
  BY DEF Warned, Deciding

LEMMA WarnedStep == Typed /\ Decided /\ Warned /\ [Next]_vars => Warned'
  <1> SUFFICES ASSUME Typed, Decided, Warned, [Next]_vars PROVE Warned'
    OBVIOUS
  <1>1. ASSUME NEW r \in Requests, NEW a \in Amounts, Withdraw(r, a) \/ CreateWithdrawal(r, a)
        PROVE  Warned'
    <2>1. /\ pc'[r] \in {"withdraw", "lock"} /\ \A q \in Requests : q # r => pc'[q] = pc[q]
      BY <1>1, ArriveGives DEF Withdraw, CreateWithdrawal, Label
    <2>2. /\ withdrawal' = withdrawal /\ overtaken' = overtaken
          /\ \A q \in Requests : q # r => arg'[q] = arg[q]
      BY <1>1 DEF Withdraw, CreateWithdrawal, Typed
    <2> QED
      BY <2>1, <2>2, WarnedKept DEF Deciding
  <1>2. ASSUME NEW r \in Requests, LockRead(r) \/ LockConflict(r) PROVE Warned'
    <2>1. /\ pc'[r] \in {"lock", "cas"}
          /\ \A q \in Requests : q # r => pc'[q] = pc[q] /\ arg'[q] = arg[q]
          /\ withdrawal' = withdrawal /\ overtaken' = overtaken
      BY <1>2 DEF LockRead, LockConflict, Goto, Typed
    <2> QED
      BY <2>1, WarnedKept DEF Deciding
  <1>3. ASSUME NEW r \in Requests, NEW w \in Requests, NEW label \in Label, Act(r, w, label)
        PROVE  Warned'
    <2>1. /\ label \in Deciding /\ pc'[r] = label
          /\ \A q \in Requests : q # r => pc'[q] = pc[q]
      BY <1>3, ArriveGives DEF Act, Deciding
    <2>2. /\ withdrawal' = withdrawal /\ withdrawal[w].status = "PENDING"
          /\ overtaken' = overtaken
          /\ arg'[r].target = w /\ \A q \in Requests : q # r => arg'[q] = arg[q]
      BY <1>3 DEF Act, StillPending, Typed, ArgType
    <2> QED
      BY <2>1, <2>2, WarnedKept DEF Deciding
  <1>4. ASSUME NEW r \in Requests, NEW w \in Requests, DisbursementFailed(r, w) PROVE Warned'
    <2>1. /\ pc'[r] = "failed" /\ \A q \in Requests : q # r => pc'[q] = pc[q]
      BY <1>4, ArriveGives DEF DisbursementFailed, Label
    <2>2. /\ withdrawal' = withdrawal /\ withdrawal[w].status = "APPROVED"
          /\ overtaken' = overtaken
          /\ arg'[r].target = w /\ \A q \in Requests : q # r => arg'[q] = arg[q]
      BY <1>4 DEF DisbursementFailed, Reportable, Typed, ArgType
    <2> QED
      BY <2>1, <2>2, WarnedKept DEF Deciding
  <1>5. ASSUME NEW r \in Requests, NEW w \in Requests, Disbursed(r, w) PROVE Warned'
    <2>1. pc'[r] = "done" /\ \A q \in Requests : q # r => pc'[q] = pc[q]
      BY <1>5, ArriveGives DEF Disbursed, Label
    <2>2. /\ withdrawal[w].status = "APPROVED" /\ overtaken' = overtaken /\ arg' = arg
          /\ \A v \in Requests : v # w => withdrawal'[v] = withdrawal[v]
          /\ \A q \in Requests : pc[q] = "failed" => arg[q].target # w
      BY <1>5, StatusGives DEF Disbursed, Reportable, Status
    <2>3. \A q \in Requests : pc[q] \in Deciding /\ arg[q].target = w => q \in overtaken
      BY <2>2 DEF Warned
    <2>4. \A q \in Requests : pc[q] \in Deciding \cup {"failed"} => arg[q].target \in Requests
      BY DEF Typed
    <2> QED
      BY <2>1, <2>2, <2>3, <2>4, WarnedKept DEF Deciding
  <1>6. ASSUME NEW r \in Requests, WithdrawCommit(r) \/ CreateCommit(r) PROVE Warned'
    <2>1. /\ Finish(r) /\ overtaken' = overtaken /\ pc[r] \in {"withdraw", "cas"}
          /\ withdrawal[r].status = "NONE"
          /\ \A v \in Requests : v # r => withdrawal'[v] = withdrawal[v]
      BY <1>6, CommitMoves DEF WithdrawCommit, CreateCommit, Decided
    <2>2. \A q \in Requests :
             pc[q] \in Deciding \cup {"failed"} => arg[q].target \in Requests /\ arg[q].target # r
      BY <2>1 DEF Typed, Decided, Recorded
    <2> QED
      BY <2>1, <2>2, FinishGives, WarnedKept DEF Deciding
  <1>7. ASSUME NEW r \in Requests,
               CancelCommit(r) \/ ApproveCommit(r) \/ RejectCommit(r) \/ FailedCommit(r)
        PROVE  Warned'
    <2>0. PICK w : w = arg[r].target
      OBVIOUS
    <2>1. /\ Finish(r) /\ Overtake(r)
          /\ \A v \in Requests : v # w => withdrawal'[v] = withdrawal[v]
      BY <1>7, <2>0, DecisionMoves DEF CancelCommit, ApproveCommit, RejectCommit, FailedCommit
    <2>2. /\ overtaken \subseteq overtaken'
          /\ \A q \in Requests \ {r} : InFlight(q) /\ arg[q].target = w => q \in overtaken'
      BY <2>0, <2>1 DEF Overtake
    <2>3. pc'[r] = "done" /\ \A q \in Requests : q # r => pc'[q] = pc[q] /\ arg'[q] = arg[q]
      BY <2>1, FinishGives
    <2> SUFFICES ASSUME NEW q \in Requests
                 PROVE  /\ pc'[q] \in Deciding =>
                              withdrawal'[arg'[q].target].status = "PENDING" \/ q \in overtaken'
                        /\ pc'[q] = "failed" =>
                              withdrawal'[arg'[q].target].status = "APPROVED" \/ q \in overtaken'
      BY DEF Warned
    <2>4. CASE q = r
      BY <2>3, <2>4 DEF Deciding
    <2>5. CASE q # r /\ arg[q].target = w
      BY <2>2, <2>3, <2>5 DEF InFlight, Deciding
    <2>6. CASE q # r /\ arg[q].target # w
      <3>1. pc[q] \in Deciding \cup {"failed"} => arg[q].target \in Requests
        BY DEF Typed
      <3> QED
        BY <2>1, <2>2, <2>3, <2>6, <3>1 DEF Warned
    <2> QED
      BY <2>4, <2>5, <2>6
  <1>8. ASSUME NEW r \in Requests, Abort(r) PROVE Warned'
    <2>1. Finish(r) /\ withdrawal' = withdrawal /\ overtaken' = overtaken
      BY <1>8 DEF Abort
    <2> QED
      BY <2>1, FinishGives, WarnedKept DEF Deciding
  <1>9. CASE Tick \/ UNCHANGED vars
    BY <1>9 DEF Tick, vars, Warned
  <1> QED
    BY <1>1, <1>2, <1>3, <1>4, <1>5, <1>6, <1>7, <1>8, <1>9 DEF Next, Step

LEMMA GainsStep ==
  Typed /\ Exact /\ Decided /\ Warned /\ GainsOnlyByOverlap /\ [Next]_vars => GainsOnlyByOverlap'
  <1> SUFFICES ASSUME Typed, Exact, Decided, Warned, GainsOnlyByOverlap, [Next]_vars
               PROVE  GainsOnlyByOverlap'
    OBVIOUS
  <1> DEFINE S == {"PENDING", "APPROVED", "COMPLETED"}
  <1>1. Typed' /\ Exact' /\ Recorded
    BY TypedStep, ExactStep DEF Decided
  <1>2. wallet.balance - wallet.locked <= Opening - AmountOf(WithStatus(S)) + twice
    BY DEF GainsOnlyByOverlap, Available, Counted
  <1>3. AmountOf(WithStatus(S)) \in Nat
    BY AmountType DEF WithStatus
  <1>4. /\ Opening \in Nat /\ wallet.balance \in Int /\ wallet.locked \in Int
        /\ wallet'.balance \in Int /\ wallet'.locked \in Int /\ twice \in Nat /\ twice' \in Nat
    BY <1>1, WithdrawalAssumption DEF Typed, Row, Exact
  <1>5. ASSUME wallet'.balance - wallet'.locked <= Opening - AmountOf(WithStatus(S))' + twice'
        PROVE  GainsOnlyByOverlap'
    BY <1>5 DEF GainsOnlyByOverlap, Available, Counted
  <1>6. ASSUME NEW r \in Requests, WithdrawCommit(r) \/ CreateCommit(r) PROVE GainsOnlyByOverlap'
    <2>1. AmountOf(WithStatus(S))'
              = AmountOf(WithStatus(S)) + Part(withdrawal'[r], S) - Part(withdrawal[r], S)
      BY <1>1, <1>6, CommitMoves, AmountMoves
    <2>2. Part(withdrawal'[r], S) = arg[r].amount /\ Part(withdrawal[r], S) = 0 /\ arg[r].amount \in Nat
      BY <1>1, <1>6, CommitMoves DEF Part
    <2>3. wallet'.balance = wallet.balance /\ wallet'.locked = wallet.locked + arg[r].amount
      BY <1>1, <1>6, CommitMoves
    <2>4. twice' = twice
      BY <1>6 DEF WithdrawCommit, CreateCommit
    <2> HIDE DEF S
    <2> QED
      BY <1>2, <1>3, <1>4, <1>5, <2>1, <2>2, <2>3, <2>4
  <1>7. ASSUME NEW r \in Requests,
               CancelCommit(r) \/ ApproveCommit(r) \/ RejectCommit(r) \/ FailedCommit(r)
        PROVE  GainsOnlyByOverlap'
    <2> DEFINE w == arg[r].target  a == withdrawal[w].amount
    <2>1. /\ w \in Requests /\ a \in Nat
          /\ withdrawal'[w].amount = a
          /\ \A v \in Requests : v # w => withdrawal'[v] = withdrawal[v]
          /\ wallet'.locked = wallet.locked - a
          /\ \/ withdrawal'[w].status = "APPROVED" /\ wallet'.balance = wallet.balance - a
             \/ withdrawal'[w].status \in {"REJECTED", "FAILED"} /\ wallet'.balance = wallet.balance
      BY <1>7, DecisionMoves
    <2>2. /\ a = withdrawal[w].amount
          /\ twice' = IF r \in overtaken THEN twice + a ELSE twice
          /\ r \notin overtaken => withdrawal[w].status \in {"PENDING", "APPROVED"}
      BY <1>7 DEF CancelCommit, ApproveCommit, RejectCommit, FailedCommit, Overtake, Warned, Deciding
    <2> HIDE DEF w, a
    <2>3. AmountOf(WithStatus(S))'
              = AmountOf(WithStatus(S)) + Part(withdrawal'[w], S) - Part(withdrawal[w], S)
      BY <1>1, <2>1, AmountMoves
    <2>4. /\ Part(withdrawal[w], S) \in {0, a}
          /\ r \notin overtaken => Part(withdrawal[w], S) = a
          /\ \/ Part(withdrawal'[w], S) = a /\ wallet'.balance = wallet.balance - a
             \/ Part(withdrawal'[w], S) = 0 /\ wallet'.balance = wallet.balance
      BY <2>1, <2>2 DEF Part
    <2> HIDE DEF S
    <2> QED
      BY <1>2, <1>3, <1>4, <1>5, <2>1, <2>2, <2>3, <2>4
  <1>8. ASSUME NEW r \in Requests, NEW w \in Requests, Disbursed(r, w) PROVE GainsOnlyByOverlap'
    <2>1. AmountOf(WithStatus(S))'
              = AmountOf(WithStatus(S)) + Part(withdrawal'[w], S) - Part(withdrawal[w], S)
      BY <1>1, <1>8, DisbursedMoves, AmountMoves
    <2>2. Part(withdrawal'[w], S) = withdrawal[w].amount /\ Part(withdrawal[w], S) = withdrawal[w].amount
      BY <1>8, DisbursedMoves DEF Part
    <2>3. wallet' = wallet /\ withdrawal[w].amount \in Nat /\ twice' = twice
      BY <1>8, DisbursedMoves DEF Typed, WithdrawalRow, Disbursed
    <2> HIDE DEF S
    <2> QED
      BY <1>2, <1>3, <1>4, <1>5, <2>1, <2>2, <2>3
  <1>9. CASE wallet' = wallet /\ withdrawal' = withdrawal
    <2>1. CASE twice' = twice
      BY <1>9, <2>1 DEF GainsOnlyByOverlap, Available, Counted, AmountOf, WithStatus
    <2>2. CASE \E r \in Requests :
                  CancelCommit(r) \/ ApproveCommit(r) \/ RejectCommit(r) \/ FailedCommit(r)
      BY <1>7, <2>2
    <2> QED
      BY <2>1, <2>2, OvertakeMoves
  <1> QED
    BY <1>6, <1>7, <1>8, <1>9, OthersWriteNothing

\* Whatever overlaps: the owner has no more than the table says, but for what calls gave
\* that another had overtaken.
THEOREM OwnerGainsByOverlap == Spec => []GainsOnlyByOverlap
  <1>1. Init => Exact /\ Warned /\ GainsOnlyByOverlap
    <2> SUFFICES ASSUME Init PROVE Exact /\ Warned /\ GainsOnlyByOverlap
      OBVIOUS
    <2>1. Counted \in SUBSET Requests
      BY DEF Counted, WithStatus
    <2>2. AmountOf(Counted) = 0
      BY <2>1, InitAmounts
    <2>3. Available(wallet) = Opening /\ Opening \in Nat /\ twice = 0
      BY WithdrawalAssumption DEF Init, Opened, Available
    <2>4. Exact
      BY WithdrawalAssumption DEF Init, Exact, RowExact, ArgExact, NoWithdrawal, Blank, Opened
    <2>5. Warned
      BY DEF Init, Warned, Deciding
    <2> QED
      BY <2>2, <2>3, <2>4, <2>5 DEF GainsOnlyByOverlap
  <1>2. Spec => [](Typed /\ Exact /\ Decided /\ Warned /\ GainsOnlyByOverlap)
    BY <1>1, TypedInit, TypedStep, ExactStep, DecidedInit, DecidedStep, WarnedStep, GainsStep, PTL
       DEF Spec
  <1> QED
    BY <1>2, PTL

LEMMA AgreesStep ==
  ASSUME Serialised, Typed, Decided, WalletAgrees, [Next]_vars
  PROVE  WalletAgrees'
  <1> DEFINE P == {"PENDING"}  F == {"FAILED"}  G == {"APPROVED", "COMPLETED", "FAILED"}
  <1>1. Typed' /\ Recorded /\ InTime
    BY TypedStep DEF Decided
  <1>2. /\ wallet.locked = AmountOf(WithStatus(P)) - AmountOf(WithStatus(F))
        /\ wallet.balance = Opening - AmountOf(WithStatus(G))
    BY DEF WalletAgrees
  <1>3. /\ AmountOf(WithStatus(P)) \in Nat /\ AmountOf(WithStatus(F)) \in Nat
        /\ AmountOf(WithStatus(G)) \in Nat /\ Opening \in Nat
    BY AmountType, WithdrawalAssumption DEF WithStatus
  <1>4. ASSUME NEW w \in Requests, \A v \in Requests : v # w => withdrawal'[v] = withdrawal[v],
               wallet'.locked = wallet.locked + Part(withdrawal'[w], P) - Part(withdrawal[w], P)
                                              - Part(withdrawal'[w], F) + Part(withdrawal[w], F),
               wallet'.balance = wallet.balance - Part(withdrawal'[w], G) + Part(withdrawal[w], G)
        PROVE  WalletAgrees'
    <2>1. /\ AmountOf(WithStatus(P))'
                 = AmountOf(WithStatus(P)) + Part(withdrawal'[w], P) - Part(withdrawal[w], P)
          /\ AmountOf(WithStatus(F))'
                 = AmountOf(WithStatus(F)) + Part(withdrawal'[w], F) - Part(withdrawal[w], F)
          /\ AmountOf(WithStatus(G))'
                 = AmountOf(WithStatus(G)) + Part(withdrawal'[w], G) - Part(withdrawal[w], G)
      BY <1>1, <1>4, AmountMoves
    <2>2. \A S : Part(withdrawal'[w], S) \in Nat /\ Part(withdrawal[w], S) \in Nat
      BY <1>1 DEF Part, Typed, WithdrawalRow
    <2>3. /\ Part(withdrawal'[w], P) \in Nat /\ Part(withdrawal[w], P) \in Nat
          /\ Part(withdrawal'[w], F) \in Nat /\ Part(withdrawal[w], F) \in Nat
          /\ Part(withdrawal'[w], G) \in Nat /\ Part(withdrawal[w], G) \in Nat
      BY <2>2
    <2>4. /\ wallet'.locked = AmountOf(WithStatus(P))' - AmountOf(WithStatus(F))'
          /\ wallet'.balance = Opening - AmountOf(WithStatus(G))'
      <3> HIDE DEF P, F, G
      <3> QED
        BY <1>2, <1>3, <1>4, <2>1, <2>3
    <2> QED
      BY <2>4 DEF WalletAgrees
  <1>5. wallet.balance \in Int /\ wallet.locked \in Int
    BY DEF Typed, Row
  <1>6. ASSUME NEW r \in Requests, WithdrawCommit(r) \/ CreateCommit(r) PROVE WalletAgrees'
    <2>1. /\ \A w \in Requests : w # r => withdrawal'[w] = withdrawal[w]
          /\ wallet'.balance = wallet.balance /\ wallet'.locked = wallet.locked + arg[r].amount
          /\ arg[r].amount \in Nat
      BY <1>1, <1>6, CommitMoves
    <2>2. /\ Part(withdrawal'[r], P) = arg[r].amount /\ Part(withdrawal[r], P) = 0
          /\ Part(withdrawal'[r], F) = 0 /\ Part(withdrawal[r], F) = 0
          /\ Part(withdrawal'[r], G) = 0 /\ Part(withdrawal[r], G) = 0
      BY <1>1, <1>6, CommitMoves DEF Part
    <2> HIDE DEF P, F, G
    <2> QED
      BY <1>4, <1>5, <2>1, <2>2
  <1>7. ASSUME NEW r \in Requests,
               CancelCommit(r) \/ ApproveCommit(r) \/ RejectCommit(r) \/ FailedCommit(r)
        PROVE  WalletAgrees'
    <2> DEFINE w == arg[r].target  a == withdrawal[w].amount
    <2>1. /\ w \in Requests /\ a \in Nat
          /\ withdrawal'[w].amount = a
          /\ \A v \in Requests : v # w => withdrawal'[v] = withdrawal[v]
          /\ wallet'.locked = wallet.locked - a
          /\ \/ /\ pc[r] = "approve" /\ withdrawal'[w].status = "APPROVED"
                /\ wallet'.balance = wallet.balance - a
             \/ /\ pc[r] \in {"cancel", "reject"} /\ withdrawal'[w].status = "REJECTED"
                /\ wallet'.balance = wallet.balance
             \/ /\ pc[r] = "failed" /\ withdrawal'[w].status = "FAILED"
                /\ wallet'.balance = wallet.balance
      BY <1>7, DecisionMoves
    <2>2. /\ a = withdrawal[w].amount
          /\ pc[r] # "failed" => withdrawal[w].status = "PENDING"
          /\ pc[r] = "failed" => withdrawal[w].status = "APPROVED"
      BY <1>1, <2>1, Serialised DEF InTime, Deciding
    <2> HIDE DEF w, a
    <2>3. /\ Part(withdrawal'[w], P) = 0 /\ Part(withdrawal[w], F) = 0
          /\ \/ /\ Part(withdrawal[w], P) = a /\ Part(withdrawal'[w], F) = 0
                /\ Part(withdrawal[w], G) = 0
                /\ \/ Part(withdrawal'[w], G) = a /\ wallet'.balance = wallet.balance - a
                   \/ Part(withdrawal'[w], G) = 0 /\ wallet'.balance = wallet.balance
             \/ /\ Part(withdrawal[w], P) = 0 /\ Part(withdrawal'[w], F) = a
                /\ Part(withdrawal[w], G) = a /\ Part(withdrawal'[w], G) = a
                /\ wallet'.balance = wallet.balance
      BY <2>1, <2>2 DEF Part
    <2> HIDE DEF P, F, G
    <2> QED
      BY <1>4, <1>5, <2>1, <2>3
  <1>8. ASSUME NEW r \in Requests, NEW w \in Requests, Disbursed(r, w) PROVE WalletAgrees'
    <2>1. /\ Part(withdrawal'[w], P) = 0 /\ Part(withdrawal[w], P) = 0
          /\ Part(withdrawal'[w], F) = 0 /\ Part(withdrawal[w], F) = 0
          /\ Part(withdrawal'[w], G) = withdrawal[w].amount
          /\ Part(withdrawal[w], G) = withdrawal[w].amount
      BY <1>8, DisbursedMoves DEF Part
    <2>2. /\ wallet' = wallet /\ withdrawal[w].amount \in Nat
          /\ \A v \in Requests : v # w => withdrawal'[v] = withdrawal[v]
      BY <1>8, DisbursedMoves DEF Typed, WithdrawalRow
    <2> HIDE DEF P, F, G
    <2> QED
      BY <1>4, <1>5, <2>1, <2>2
  <1>9. CASE wallet' = wallet /\ withdrawal' = withdrawal
    BY <1>9 DEF WalletAgrees, AmountOf, WithStatus
  <1> QED
    BY <1>6, <1>7, <1>8, <1>9, OthersWriteNothing

\* If calls do not overlap, the wallet says what the withdrawals table says, of
\* disbursements that succeed and of those that fail.
THEOREM WalletAlwaysAgrees ==
  ASSUME Serialised
  PROVE  Spec => []WalletAgrees
  <1>1. Init => WalletAgrees
    <2> SUFFICES ASSUME Init PROVE WalletAgrees
      OBVIOUS
    <2>1. /\ AmountOf(WithStatus({"PENDING"})) = 0 /\ AmountOf(WithStatus({"FAILED"})) = 0
          /\ AmountOf(WithStatus({"APPROVED", "COMPLETED", "FAILED"})) = 0
      BY InitAmounts DEF WithStatus
    <2>2. wallet.locked = 0 /\ wallet.balance = Opening /\ Opening \in Nat
      BY WithdrawalAssumption DEF Init, Opened
    <2> QED
      BY <2>1, <2>2 DEF WalletAgrees
  <1>2. Typed /\ Decided /\ WalletAgrees /\ [Next]_vars => WalletAgrees'
    BY AgreesStep
  <1>3. Spec => [](Typed /\ Decided /\ WalletAgrees)
    BY <1>1, <1>2, TypedInit, TypedStep, DecidedInit, DecidedStep, PTL DEF Spec
  <1> QED
    BY <1>3, PTL

----------------------------------------------------------------------------
(* The limits of POST withdrawals.                                         *)

LEMMA LimitsAreNumbers ==
  /\ Day \in Nat \ {0} /\ Month \in Nat \ {0} /\ MaxDailyCount \in Nat \ {0}
  /\ DailyLimit \in Nat \ {0} /\ MonthlyLimit \in Nat \ {0}
  /\ MaxTime \in Nat /\ Cooling \in Nat
  BY WithdrawalAssumption

\* When the period of a given length that now is in began.
Start(now, length) == now - (now % length)

LEMMA Division ==
  ASSUME NEW x \in Nat, NEW L \in Nat \ {0}
  PROVE  /\ x = (L * (x \div L)) + (x % L)
         /\ x \div L \in Int /\ x % L \in Nat /\ x % L < L
  OBVIOUS

LEMMA SameMultiple ==
  ASSUME NEW p \in Int, NEW q \in Int, NEW L \in Nat \ {0}, L * p < L * q + L, L * q < L * p + L
  PROVE  p = q
  OBVIOUS

LEMMA StartIs ==
  ASSUME NEW x \in Nat, NEW L \in Nat \ {0}
  PROVE  Start(x, L) \in Int /\ Start(x, L) <= x /\ x < Start(x, L) + L
  <1> DEFINE m == x % L
  <1>1. m \in Nat /\ m < L
    BY Division
  <1>2. Start(x, L) = x - m
    BY DEF Start
  <1> HIDE DEF m
  <1> QED
    BY <1>1, <1>2

\* Who is in a period is in the same period.
LEMMA SamePeriod ==
  ASSUME NEW x \in Nat, NEW y \in Nat, NEW L \in Nat \ {0},
         Start(x, L) <= y, y < Start(x, L) + L
  PROVE  Start(x, L) = Start(y, L)
  <1> DEFINE p == x \div L  q == y \div L  m == x % L  n == y % L
  <1>1. /\ x = L * p + m /\ y = L * q + n
        /\ p \in Int /\ q \in Int /\ m \in Nat /\ n \in Nat /\ m < L /\ n < L
    BY Division
  <1>2. Start(x, L) = x - m /\ Start(y, L) = y - n
    BY DEF Start
  <1> HIDE DEF p, q, m, n
  <1> DEFINE P == L * p  Q == L * q
  <1>3. P \in Int /\ Q \in Int /\ x = P + m /\ y = Q + n
    BY <1>1
  <1> HIDE DEF P, Q
  <1>4. P < Q + L /\ Q < P + L /\ Start(x, L) = P /\ Start(y, L) = Q
    BY <1>1, <1>2, <1>3
  <1>5. p = q
    BY <1>1, <1>4, SameMultiple DEF P, Q
  <1> QED
    BY <1>4, <1>5 DEF P, Q

\* The withdrawals of POST withdrawals that are counted in the period of now.
Within(now, length) ==
    {w \in Requests : /\ withdrawal[w].keyed
                      /\ withdrawal[w].status \in {"PENDING", "APPROVED", "COMPLETED"}
                      /\ withdrawal[w].at >= Start(now, length)
                      /\ withdrawal[w].at < Start(now, length) + length}

\* LimitsHold, period by period and pair by pair.
PeriodsHold ==
    \A now \in 0..MaxTime :
        /\ Cardinality(Within(now, Day)) <= MaxDailyCount
        /\ AmountOf(Within(now, Day)) <= DailyLimit
        /\ AmountOf(Within(now, Month)) <= MonthlyLimit

Apart ==
    \A v, w \in Requests :
        withdrawal[v].keyed /\ withdrawal[w].keyed =>
            v = w \/ withdrawal[v].at - withdrawal[w].at >= Cooling
                  \/ withdrawal[w].at - withdrawal[v].at >= Cooling

LEMMA LimitsAre == LimitsHold <=> PeriodsHold /\ Apart
  <1>1. \A now, length :
           {w \in Limited \cap Since(length, now) :
                withdrawal[w].at < now - (now % length) + length} = Within(now, length)
    BY DEF Limited, Since, Counted, WithStatus, Within, Start
  <1>2. LimitsHold <=>
          /\ \A now \in 0..MaxTime :
                /\ Cardinality(Within(now, Day)) <= MaxDailyCount
                /\ AmountOf(Within(now, Day)) <= DailyLimit
                /\ AmountOf(Within(now, Month)) <= MonthlyLimit
          /\ \A v, w \in Limited :
                v = w \/ withdrawal[v].at - withdrawal[w].at >= Cooling
                      \/ withdrawal[w].at - withdrawal[v].at >= Cooling
    BY <1>1 DEF LimitsHold
  <1> QED
    BY <1>2 DEF PeriodsHold, Apart, Limited

\* No withdrawal is dated ahead, and only one that was made has a key.
Dated ==
    /\ clock \in 0..MaxTime
    /\ \A w \in Requests :
          withdrawal[w].at <= clock /\ (withdrawal[w].keyed => withdrawal[w].status # "NONE")

\* A call that passed validateWithdrawalLimits finds room for its amount in every
\* period that is not over when it commits.
Room(r) ==
    pc[r] \in {"lock", "cas"} =>
        /\ \A now \in 0..MaxTime :
              now >= clock =>
                  /\ Cardinality(Within(now, Day)) < MaxDailyCount
                  /\ AmountOf(Within(now, Day)) + arg[r].amount <= DailyLimit
                  /\ AmountOf(Within(now, Month)) + arg[r].amount <= MonthlyLimit
        /\ \A w \in Requests : withdrawal[w].keyed => clock - withdrawal[w].at >= Cooling

RoomForAll == \A r \in Requests : Room(r)

LimitsInv == Typed /\ Decided /\ Dated /\ RoomForAll /\ PeriodsHold /\ Apart

\* Fewer withdrawals add up to no more.
LEMMA AmountBelow ==
  ASSUME Typed, NEW V \in SUBSET Requests, NEW W \in SUBSET V
  PROVE  /\ AmountOf(W) <= AmountOf(V)
         /\ Cardinality(W) <= Cardinality(V) /\ Cardinality(W) \in Nat /\ Cardinality(V) \in Nat
  <1> DEFINE amount == [w \in Requests |-> withdrawal[w].amount]
  <1>1. \A w \in V : amount[w] \in Nat
    BY DEF Typed, WithdrawalRow
  <1>2. IsFiniteSet(V) /\ IsFiniteSet(W)
    BY WithdrawalAssumption, FS_Subset
  <1>3. Cardinality(W) <= Cardinality(V) /\ Cardinality(W) \in Nat /\ Cardinality(V) \in Nat
    BY <1>2, FS_Subset, FS_CardinalityType
  <1> HIDE DEF amount
  <1>4. SumFunctionOnSet(amount, W) <= SumFunctionOnSet(amount, V)
    BY <1>1, <1>2, SumOfPart
  <1> QED
    BY <1>3, <1>4 DEF AmountOf, amount

\* What is in a period that is not over was made since the period the clock is in
\* began.
LEMMA WithinIsSince ==
  ASSUME Typed, Dated, NEW now \in 0..MaxTime, now >= clock, NEW L \in Nat \ {0}
  PROVE  Within(now, L) \subseteq Since(L, clock)
  <1>1. clock \in Nat /\ now \in Nat
    BY LimitsAreNumbers DEF Dated
  <1>2. Start(now, L) \in Int /\ Start(now, L) <= now /\ now < Start(now, L) + L
    BY <1>1, StartIs
  <1>3. \A w \in Requests : withdrawal[w].at \in Nat /\ withdrawal[w].at <= clock
    BY DEF Typed, WithdrawalRow, Dated
  <1>4. CASE Start(now, L) <= clock
    <2>1. Start(now, L) = Start(clock, L)
      BY <1>1, <1>2, <1>4, SamePeriod
    <2> QED
      BY <2>1 DEF Within, Since, Counted, WithStatus, Start
  <1>5. CASE Start(now, L) > clock
    BY <1>1, <1>2, <1>3, <1>5 DEF Within
  <1> QED
    BY <1>1, <1>2, <1>4, <1>5

LEMMA RoomFound ==
  ASSUME Typed, Dated, NEW r \in Requests, NEW a \in Nat, WithinLimits(a), NEW now \in 0..MaxTime, now >= clock
  PROVE  /\ Cardinality(Within(now, Day)) < MaxDailyCount
         /\ AmountOf(Within(now, Day)) + a <= DailyLimit
         /\ AmountOf(Within(now, Month)) + a <= MonthlyLimit
  <1>1. /\ Within(now, Day) \subseteq Since(Day, clock)
        /\ Within(now, Month) \subseteq Since(Month, clock)
    BY WithinIsSince, LimitsAreNumbers
  <1>2. /\ Since(Day, clock) \in SUBSET Requests /\ Since(Month, clock) \in SUBSET Requests
        /\ Within(now, Day) \in SUBSET Requests /\ Within(now, Month) \in SUBSET Requests
    BY DEF Since, Counted, WithStatus, Within
  <1>3. /\ AmountOf(Within(now, Day)) <= AmountOf(Since(Day, clock))
        /\ AmountOf(Within(now, Month)) <= AmountOf(Since(Month, clock))
        /\ Cardinality(Within(now, Day)) <= Cardinality(Since(Day, clock))
        /\ Cardinality(Within(now, Day)) \in Nat /\ Cardinality(Since(Day, clock)) \in Nat
    BY <1>1, <1>2, AmountBelow
  <1>4. /\ AmountOf(Within(now, Day)) \in Nat /\ AmountOf(Since(Day, clock)) \in Nat
        /\ AmountOf(Within(now, Month)) \in Nat /\ AmountOf(Since(Month, clock)) \in Nat
    BY <1>2, AmountType
  <1>5. /\ Cardinality(Since(Day, clock)) < MaxDailyCount
        /\ AmountOf(Since(Day, clock)) + a <= DailyLimit
        /\ AmountOf(Since(Month, clock)) + a <= MonthlyLimit
    BY DEF WithinLimits
  <1> QED
    BY <1>3, <1>4, <1>5, LimitsAreNumbers

\* No call is in flight: nobody waits for room.
LEMMA NobodyWaits ==
  ASSUME \A r \in Requests : pc[r] \notin {"lock", "cas"}
  PROVE  RoomForAll
  BY DEF RoomForAll, Room

\* Withdrawals that leave a period, or change in nothing the limits look at, leave the
\* limits kept.
LEMMA LimitsShrink ==
  ASSUME Typed, Typed', PeriodsHold, Apart,
         \A w \in Requests :
            /\ withdrawal'[w].amount = withdrawal[w].amount
            /\ withdrawal'[w].keyed => withdrawal[w].keyed
            /\ withdrawal'[w].at = withdrawal[w].at
            /\ withdrawal'[w].status \in {"PENDING", "APPROVED", "COMPLETED"} =>
                   withdrawal[w].status \in {"PENDING", "APPROVED", "COMPLETED"}
  PROVE  PeriodsHold' /\ Apart'
  <1>1. Apart'
    BY DEF Apart
  <1>2. ASSUME NEW now \in 0..MaxTime, NEW L \in {Day, Month}
        PROVE  /\ AmountOf(Within(now, L))' <= AmountOf(Within(now, L))
               /\ Cardinality(Within(now, L))' <= Cardinality(Within(now, L))
               /\ AmountOf(Within(now, L)) \in Nat /\ AmountOf(Within(now, L))' \in Nat
               /\ Cardinality(Within(now, L)) \in Nat /\ Cardinality(Within(now, L))' \in Nat
    <2> DEFINE V == Within(now, L)
               W == {w \in Requests : /\ withdrawal'[w].keyed
                                      /\ withdrawal'[w].status \in {"PENDING", "APPROVED", "COMPLETED"}
                                      /\ withdrawal'[w].at >= Start(now, L)
                                      /\ withdrawal'[w].at < Start(now, L) + L}
               f == [w \in Requests |-> withdrawal[w].amount]
               g == [w \in Requests |-> withdrawal'[w].amount]
    <2>1. V \in SUBSET Requests /\ W \in SUBSET V
      BY DEF Within
    <2>2. Cardinality(W) <= Cardinality(V) /\ Cardinality(W) \in Nat /\ Cardinality(V) \in Nat
      BY <2>1, WithdrawalAssumption, FS_Subset, FS_CardinalityType
    <2>3. f = g
      OBVIOUS
    <2>4. \A w \in V : f[w] \in Nat
      BY <2>1 DEF Typed, WithdrawalRow
    <2>5. IsFiniteSet(V) /\ IsFiniteSet(W)
      BY <2>1, WithdrawalAssumption, FS_Subset
    <2>6. /\ Cardinality(Within(now, L))' = Cardinality(W)
          /\ AmountOf(Within(now, L))' = SumFunctionOnSet(g, W)
          /\ AmountOf(Within(now, L)) = SumFunctionOnSet(f, V)
      BY DEF Within, AmountOf
    <2> HIDE DEF V, W, f, g
    <2>7. \A w \in W : f[w] \in Nat
      BY <2>1, <2>4
    <2>8. SumFunctionOnSet(f, W) <= SumFunctionOnSet(f, V)
      BY <2>1, <2>4, <2>5, SumOfPart
    <2>9. SumFunctionOnSet(f, W) \in Nat /\ SumFunctionOnSet(f, V) \in Nat
      BY <2>4, <2>5, <2>7, SumNat
    <2> QED
      BY <2>2, <2>3, <2>6, <2>8, <2>9 DEF V
  <1>3. PeriodsHold'
    <2>1. ASSUME NEW now \in 0..MaxTime
          PROVE  /\ Cardinality(Within(now, Day))' <= MaxDailyCount
                 /\ AmountOf(Within(now, Day))' <= DailyLimit
                 /\ AmountOf(Within(now, Month))' <= MonthlyLimit
      BY <1>2, LimitsAreNumbers DEF PeriodsHold
    <2> QED
      BY <2>1 DEF PeriodsHold
  <1> QED
    BY <1>1, <1>3

\* What a decision or a report of the provider leaves, if calls do not overlap.
LEMMA DecisionLeaves ==
  ASSUME Serialised, Typed, Decided, NEW r \in Requests, NEW w \in Requests,
         \/ w = arg[r].target /\ (CancelCommit(r) \/ ApproveCommit(r) \/ RejectCommit(r) \/ FailedCommit(r))
         \/ Disbursed(r, w)
  PROVE  /\ \A v \in Requests :
               /\ withdrawal'[v].amount = withdrawal[v].amount
               /\ withdrawal'[v].keyed = withdrawal[v].keyed
               /\ withdrawal'[v].at = withdrawal[v].at
               /\ withdrawal'[v].status \in {"PENDING", "APPROVED", "COMPLETED"} =>
                      withdrawal[v].status \in {"PENDING", "APPROVED", "COMPLETED"}
               /\ withdrawal[v].status # "NONE" => withdrawal'[v].status # "NONE"
         /\ clock' = clock
         /\ \A q \in Requests : pc'[q] \in {"idle", "done"}
  <1>1. CASE CancelCommit(r) \/ ApproveCommit(r) \/ RejectCommit(r) \/ FailedCommit(r)
    <2>1. PICK t \in Requests : t = arg[r].target
      BY <1>1 DEF CancelCommit, ApproveCommit, RejectCommit, FailedCommit, Typed, Deciding
    <2>2. PICK s \in Status : /\ withdrawal' = [withdrawal EXCEPT ![t].status = s]
                              /\ s # "NONE"
                              /\ s \in {"PENDING", "APPROVED", "COMPLETED"} => pc[r] = "approve"
      BY <1>1, <2>1 DEF CancelCommit, ApproveCommit, RejectCommit, FailedCommit, SetStatus, Status
    <2>3. pc[r] \in Deciding \cup {"failed"} /\ Finish(r) /\ clock' = clock
      BY <1>1 DEF CancelCommit, ApproveCommit, RejectCommit, FailedCommit, Deciding
    <2>4. pc[r] = "approve" => withdrawal[t].status = "PENDING"
      BY <2>1, Serialised DEF Decided, InTime, Deciding
    <2>5. \A q \in Requests : q # r => ~ InFlight(q)
      BY <2>3, Serialised DEF Decided, Alone, InFlight, Deciding
    <2>6. \A q \in Requests : pc'[q] \in {"idle", "done"}
      BY <2>3, <2>5, FinishGives DEF InFlight
    <2>7. ASSUME NEW v \in Requests
          PROVE  /\ withdrawal'[v].amount = withdrawal[v].amount
                 /\ withdrawal'[v].keyed = withdrawal[v].keyed
                 /\ withdrawal'[v].at = withdrawal[v].at
                 /\ withdrawal'[v].status = IF v = t THEN s ELSE withdrawal[v].status
      BY <2>2 DEF Typed, WithdrawalRow
    <2> QED
      BY <2>2, <2>3, <2>4, <2>6, <2>7
  <1>2. CASE Disbursed(r, w)
    <2>1. /\ pc'[r] = "done" /\ \A q \in Requests : q # r => pc'[q] = pc[q] /\ ~ InFlight(q)
      BY <1>2, ArriveGives, Serialised DEF Disbursed, Label
    <2>2. /\ withdrawal' = [withdrawal EXCEPT ![w].status = "COMPLETED"] /\ clock' = clock
          /\ withdrawal[w].status = "APPROVED"
      BY <1>2 DEF Disbursed, Reportable
    <2>3. ASSUME NEW v \in Requests
          PROVE  /\ withdrawal'[v].amount = withdrawal[v].amount
                 /\ withdrawal'[v].keyed = withdrawal[v].keyed
                 /\ withdrawal'[v].at = withdrawal[v].at
                 /\ withdrawal'[v].status = IF v = w THEN "COMPLETED" ELSE withdrawal[v].status
      BY <2>2 DEF Typed, WithdrawalRow
    <2> QED
      BY <2>1, <2>2, <2>3 DEF InFlight
  <1> QED
    BY <1>1, <1>2

\* A withdrawal is inserted.  It counts in the periods the clock is in if it has a key;
\* the other periods stay as they were.
LEMMA InsertedWithin ==
  ASSUME Typed, Typed', Dated, NEW r \in Requests, NEW a \in Nat, NEW keyed \in BOOLEAN,
         withdrawal[r].status = "NONE", Insert(r, a, keyed),
         NEW now \in 0..MaxTime, NEW L \in {Day, Month}
  PROVE  \/ /\ AmountOf(Within(now, L))' = AmountOf(Within(now, L))
            /\ Cardinality(Within(now, L))' = Cardinality(Within(now, L))
         \/ /\ keyed
            /\ AmountOf(Within(now, L))' = AmountOf(Within(clock, L)) + a
            /\ Cardinality(Within(now, L))' <= Cardinality(Within(clock, L)) + 1
            /\ Cardinality(Within(clock, L)) \in Nat /\ Cardinality(Within(now, L))' \in Nat
  <1>1. clock \in Nat /\ now \in Nat /\ L \in Nat \ {0} /\ clock \in 0..MaxTime
    BY LimitsAreNumbers DEF Dated
  <1>2. /\ withdrawal'[r] = [status |-> "PENDING", amount |-> a, at |-> clock, keyed |-> keyed]
        /\ \A w \in Requests \ {r} : withdrawal'[w] = withdrawal[w]
    BY DEF Typed, Insert
  <1> DEFINE V == Within(now, L)
             W == {w \in Requests : /\ withdrawal'[w].keyed
                                    /\ withdrawal'[w].status \in {"PENDING", "APPROVED", "COMPLETED"}
                                    /\ withdrawal'[w].at >= Start(now, L)
                                    /\ withdrawal'[w].at < Start(now, L) + L}
             f == [w \in Requests |-> withdrawal[w].amount]
             g == [w \in Requests |-> withdrawal'[w].amount]
             in == keyed /\ Start(now, L) <= clock /\ clock < Start(now, L) + L
  <1>3. Start(now, L) \in Int
    BY <1>1, StartIs
  <1>4. r \notin V /\ (r \in W <=> in) /\ \A w \in Requests \ {r} : w \in V <=> w \in W
    <2>1. r \notin V
      BY DEF Within
    <2>2. r \in W <=> in
      BY <1>1, <1>2, <1>3
    <2>3. ASSUME NEW w \in Requests \ {r} PROVE w \in V <=> w \in W
      BY <1>2 DEF Within
    <2> QED
      BY <2>1, <2>2, <2>3
  <1>5. /\ V \in SUBSET Requests /\ W \in SUBSET Requests /\ W \subseteq V \cup {r}
        /\ ~ in => W = V
    <2> V \in SUBSET Requests /\ W \in SUBSET Requests
      BY DEF Within
    <2> HIDE DEF V, W, in
    <2> QED
      BY <1>4
  <1>6. Ints(f, Requests) /\ Ints(g, Requests) /\ \A w \in Requests \ {r} : f[w] = g[w]
    BY <1>2 DEF Ints, Typed, WithdrawalRow
  <1>7. g[r] = a
    BY <1>2
  <1>8. IsFiniteSet(Requests)
    BY WithdrawalAssumption
  <1>9. /\ Cardinality(Within(now, L))' = Cardinality(W)
        /\ AmountOf(Within(now, L))' = SumFunctionOnSet(g, W)
        /\ AmountOf(Within(now, L)) = SumFunctionOnSet(f, V)
        /\ Cardinality(Within(now, L)) = Cardinality(V)
    BY DEF Within, AmountOf
  <1>10. in => V = Within(clock, L)
    <2>1. in => Start(now, L) = Start(clock, L)
      BY <1>1, SamePeriod
    <2> QED
      BY <2>1 DEF Within
  <1>11. in => keyed
    OBVIOUS
  <1> HIDE DEF V, W, f, g, in
  <1>12. SumFunctionOnSet(g, W)
             = SumFunctionOnSet(f, V) + (IF r \in W THEN g[r] ELSE 0) - (IF r \in V THEN f[r] ELSE 0)
    <2>1. \A w \in Requests \ {r} : f[w] = g[w] /\ (w \in V <=> w \in W)
      BY <1>4, <1>6
    <2> QED
      BY <1>5, <1>6, <1>8, <2>1, SumMoves
  <1>13. SumFunctionOnSet(f, V) \in Int
    <2>1. IsFiniteSet(V) /\ Ints(f, V)
      BY <1>5, <1>6, <1>8, FS_Subset DEF Ints
    <2> QED
      BY <2>1, SumType
  <1>14. CASE ~ in
    BY <1>4, <1>5, <1>9, <1>12, <1>13, <1>14
  <1>15. CASE in
    <2>1. IsFiniteSet(V) /\ IsFiniteSet(V \cup {r}) /\ Cardinality(V \cup {r}) = Cardinality(V) + 1
      BY <1>4, <1>5, <1>8, FS_Subset, FS_AddElement
    <2>2. /\ Cardinality(W) <= Cardinality(V \cup {r})
          /\ Cardinality(V) \in Nat /\ Cardinality(W) \in Nat
      BY <1>5, <2>1, FS_Subset, FS_CardinalityType
    <2>3. SumFunctionOnSet(g, W) = SumFunctionOnSet(f, V) + a
      BY <1>4, <1>7, <1>12, <1>13, <1>15
    <2>4. AmountOf(Within(now, L)) = AmountOf(Within(clock, L))
      BY <1>10, <1>15 DEF V
    <2> QED
      BY <1>9, <1>10, <1>11, <1>15, <2>1, <2>2, <2>3, <2>4
  <1> QED
    BY <1>14, <1>15

\* Serialised calls keep the limits.
LEMMA LimitsStep ==
  ASSUME Serialised, LimitsInv, Typed', Decided', [Next]_vars
  PROVE  LimitsInv'
  <1>1. Typed /\ Decided /\ Dated /\ RoomForAll /\ PeriodsHold /\ Apart
    BY DEF LimitsInv
  <1>2. SUFFICES Dated' /\ RoomForAll' /\ PeriodsHold' /\ Apart'
    BY DEF LimitsInv
  <1>3. clock \in Nat /\ clock \in 0..MaxTime /\ \A w \in Requests : withdrawal[w].at \in Nat
    BY <1>1, LimitsAreNumbers DEF Dated, Typed, WithdrawalRow
  <1>4. ASSUME NEW r \in Requests, NEW w \in Requests,
               \/ w = arg[r].target /\ (CancelCommit(r) \/ ApproveCommit(r) \/ RejectCommit(r) \/ FailedCommit(r))
               \/ Disbursed(r, w)
        PROVE  Dated' /\ RoomForAll' /\ PeriodsHold' /\ Apart'
    <2>1. /\ \A v \in Requests :
                /\ withdrawal'[v].amount = withdrawal[v].amount
                /\ withdrawal'[v].keyed = withdrawal[v].keyed
                /\ withdrawal'[v].at = withdrawal[v].at
                /\ withdrawal'[v].status \in {"PENDING", "APPROVED", "COMPLETED"} =>
                       withdrawal[v].status \in {"PENDING", "APPROVED", "COMPLETED"}
                /\ withdrawal[v].status # "NONE" => withdrawal'[v].status # "NONE"
          /\ clock' = clock
          /\ \A q \in Requests : pc'[q] \in {"idle", "done"}
      BY <1>1, <1>4, Serialised, DecisionLeaves
    <2>2. PeriodsHold' /\ Apart'
      BY <1>1, <2>1, LimitsShrink
    <2>3. Dated'
      BY <1>1, <2>1 DEF Dated
    <2>4. RoomForAll'
      BY <2>1 DEF RoomForAll, Room
    <2> QED
      BY <2>2, <2>3, <2>4
  <1>5. ASSUME NEW r \in Requests, WithdrawCommit(r) \/ CreateCommit(r)
        PROVE  Dated' /\ RoomForAll' /\ PeriodsHold' /\ Apart'
    <2> DEFINE a == arg[r].amount
    <2>1. PICK keyed \in BOOLEAN : /\ Insert(r, a, keyed) /\ Finish(r) /\ clock' = clock
                                   /\ pc[r] \in {"withdraw", "cas"}
                                   /\ keyed => pc[r] = "cas"
      BY <1>5 DEF WithdrawCommit, CreateCommit
    <2>2. a \in Nat /\ withdrawal[r].status = "NONE" /\ ~ withdrawal[r].keyed
      BY <1>1, <2>1 DEF Typed, ArgType, WithdrawalRow, Decided, Recorded, Dated
    <2>3. /\ withdrawal'[r] = [status |-> "PENDING", amount |-> a, at |-> clock, keyed |-> keyed]
          /\ \A w \in Requests \ {r} : withdrawal'[w] = withdrawal[w]
      BY <1>1, <2>1 DEF Typed, Insert
    <2>4. Dated'
      <3>1. ASSUME NEW w \in Requests
            PROVE  /\ withdrawal'[w].at <= clock
                   /\ withdrawal'[w].keyed => withdrawal'[w].status # "NONE"
        BY <1>1, <1>3, <2>3 DEF Dated
      <3> QED
        BY <1>3, <2>1, <3>1 DEF Dated
    <2>5. RoomForAll'
      <3>1. \A q \in Requests : q # r => ~ InFlight(q)
        BY <1>1, <2>1, Serialised DEF Decided, Alone, InFlight
      <3>2. \A q \in Requests : pc'[q] \in {"idle", "done"}
        BY <1>1, <2>1, <3>1, FinishGives DEF InFlight
      <3> QED
        BY <3>2 DEF RoomForAll, Room
    <2>6. keyed =>
             /\ \A now \in 0..MaxTime :
                   now >= clock =>
                       /\ Cardinality(Within(now, Day)) < MaxDailyCount
                       /\ AmountOf(Within(now, Day)) + a <= DailyLimit
                       /\ AmountOf(Within(now, Month)) + a <= MonthlyLimit
             /\ \A w \in Requests : withdrawal[w].keyed => clock - withdrawal[w].at >= Cooling
      BY <1>1, <2>1 DEF RoomForAll, Room
    <2>7. Apart'
      <3> SUFFICES ASSUME NEW v \in Requests, NEW w \in Requests,
                          withdrawal'[v].keyed, withdrawal'[w].keyed, v # w
                   PROVE  \/ withdrawal'[v].at - withdrawal'[w].at >= Cooling
                          \/ withdrawal'[w].at - withdrawal'[v].at >= Cooling
        BY DEF Apart
      <3>1. CASE v = r
        BY <2>3, <2>6, <3>1
      <3>2. CASE w = r
        BY <2>3, <2>6, <3>2
      <3>3. CASE v # r /\ w # r
        BY <1>1, <2>3, <3>3 DEF Apart
      <3> QED
        BY <3>1, <3>2, <3>3
    <2>8. PeriodsHold'
      <3> SUFFICES ASSUME NEW now \in 0..MaxTime
                   PROVE  /\ Cardinality(Within(now, Day))' <= MaxDailyCount
                          /\ AmountOf(Within(now, Day))' <= DailyLimit
                          /\ AmountOf(Within(now, Month))' <= MonthlyLimit
        BY DEF PeriodsHold
      <3> HIDE DEF a
      <3>1. \A L \in {Day, Month} :
               \/ /\ AmountOf(Within(now, L))' = AmountOf(Within(now, L))
                  /\ Cardinality(Within(now, L))' = Cardinality(Within(now, L))
               \/ /\ keyed
                  /\ AmountOf(Within(now, L))' = AmountOf(Within(clock, L)) + a
                  /\ Cardinality(Within(now, L))' <= Cardinality(Within(clock, L)) + 1
                  /\ Cardinality(Within(clock, L)) \in Nat /\ Cardinality(Within(now, L))' \in Nat
        BY <1>1, <2>1, <2>2, InsertedWithin
      <3>2. /\ Cardinality(Within(now, Day)) <= MaxDailyCount
            /\ AmountOf(Within(now, Day)) <= DailyLimit
            /\ AmountOf(Within(now, Month)) <= MonthlyLimit
        BY <1>1 DEF PeriodsHold
      <3>3. clock >= clock
        BY <1>3
      <3>4. keyed => /\ Cardinality(Within(clock, Day)) < MaxDailyCount
                     /\ AmountOf(Within(clock, Day)) + a <= DailyLimit
                     /\ AmountOf(Within(clock, Month)) + a <= MonthlyLimit
        BY <1>3, <2>6, <3>3
      <3>5. Cardinality(Within(now, Day))' <= MaxDailyCount /\ AmountOf(Within(now, Day))' <= DailyLimit
        BY <3>1, <3>2, <3>4, LimitsAreNumbers
      <3>6. AmountOf(Within(now, Month))' <= MonthlyLimit
        BY <3>1, <3>2, <3>4, LimitsAreNumbers
      <3> QED
        BY <3>5, <3>6
    <2> QED
      BY <2>4, <2>5, <2>7, <2>8
  <1>6. ASSUME withdrawal' = withdrawal, clock' = clock
        PROVE  Dated' /\ PeriodsHold' /\ Apart'
    BY <1>1, <1>6 DEF Dated, PeriodsHold, Apart, Within, AmountOf
  <1>7. ASSUME NEW r \in Requests, NEW a \in Amounts, CreateWithdrawal(r, a)
        PROVE  Dated' /\ RoomForAll' /\ PeriodsHold' /\ Apart'
    <2>1. /\ withdrawal' = withdrawal /\ clock' = clock /\ WithinLimits(a)
          /\ arg' = [arg EXCEPT ![r].amount = a]
      BY <1>7 DEF CreateWithdrawal
    <2>2. /\ pc'[r] = "lock" /\ \A q \in Requests : q # r => pc'[q] = pc[q]
          /\ \A q \in Requests : ~ InFlight(q)
      BY <1>1, <1>7, ArriveGives, Serialised DEF CreateWithdrawal, Label
    <2>3. a \in Nat /\ arg'[r].amount = a
      BY <1>1, <2>1, WithdrawalAssumption DEF Typed, ArgType
    <2>4. \A now \in 0..MaxTime :
              now >= clock =>
                  /\ Cardinality(Within(now, Day)) < MaxDailyCount
                  /\ AmountOf(Within(now, Day)) + a <= DailyLimit
                  /\ AmountOf(Within(now, Month)) + a <= MonthlyLimit
      BY <1>1, <2>1, <2>3, RoomFound
    <2>5. \A w \in Requests : withdrawal[w].keyed => clock - withdrawal[w].at >= Cooling
      BY <1>1, <2>1 DEF WithinLimits, WithStatus, Dated
    <2>6. \A now, L : Within(now, L)' = Within(now, L)
      BY <2>1 DEF Within
    <2>7. \A W : AmountOf(W)' = AmountOf(W)
      BY <2>1 DEF AmountOf
    <2>8. Room(r)'
      BY <2>1, <2>3, <2>4, <2>5 DEF Room, Within, AmountOf
    <2>9. \A q \in Requests : q # r => Room(q)'
      BY <2>2 DEF Room, InFlight
    <2> QED
      BY <1>6, <2>1, <2>8, <2>9 DEF RoomForAll
  <1>8. ASSUME NEW r \in Requests, withdrawal' = withdrawal, clock' = clock,
               \A q \in Requests : q # r => pc'[q] = pc[q] /\ arg'[q] = arg[q],
               pc'[r] \in {"lock", "cas"} => pc[r] \in {"lock", "cas"} /\ arg'[r].amount = arg[r].amount
        PROVE  Dated' /\ RoomForAll' /\ PeriodsHold' /\ Apart'
    <2>1. ASSUME NEW q \in Requests, Room(q), pc'[q] \in {"lock", "cas"} => pc[q] \in {"lock", "cas"},
                 pc'[q] \in {"lock", "cas"} => arg'[q].amount = arg[q].amount
          PROVE  Room(q)'
      BY <1>8, <2>1 DEF Room, Within, AmountOf
    <2>2. \A q \in Requests : Room(q)'
      BY <1>1, <1>8, <2>1 DEF RoomForAll
    <2> QED
      BY <1>6, <1>8, <2>2 DEF RoomForAll
  <1>9. ASSUME NEW r \in Requests, NEW a \in Amounts, Withdraw(r, a)
        PROVE  Dated' /\ RoomForAll' /\ PeriodsHold' /\ Apart'
    <2>1. pc'[r] = "withdraw" /\ \A q \in Requests : q # r => pc'[q] = pc[q]
      BY <1>1, <1>9, ArriveGives DEF Withdraw, Label
    <2>2. withdrawal' = withdrawal /\ clock' = clock /\ \A q \in Requests : q # r => arg'[q] = arg[q]
      BY <1>1, <1>9 DEF Withdraw, Typed
    <2> QED
      BY <1>8, <2>1, <2>2
  <1>10. ASSUME NEW r \in Requests, LockRead(r) \/ LockConflict(r)
         PROVE  Dated' /\ RoomForAll' /\ PeriodsHold' /\ Apart'
    <2>1. /\ pc[r] \in {"lock", "cas"} /\ withdrawal' = withdrawal /\ clock' = clock
          /\ \A q \in Requests : q # r => pc'[q] = pc[q] /\ arg'[q] = arg[q]
      BY <1>1, <1>10 DEF LockRead, LockConflict, Goto, Typed
    <2>2. arg'[r].amount = arg[r].amount
      BY <1>1, <1>10 DEF LockRead, LockConflict, Typed, ArgType
    <2> QED
      BY <1>8, <2>1, <2>2
  <1>11. ASSUME NEW r \in Requests, NEW w \in Requests,
                (\E label \in Label : Act(r, w, label)) \/ DisbursementFailed(r, w)
         PROVE  Dated' /\ RoomForAll' /\ PeriodsHold' /\ Apart'
    <2>1. pc'[r] \notin {"lock", "cas"} /\ \A q \in Requests : q # r => pc'[q] = pc[q]
      BY <1>1, <1>11, ArriveGives DEF Act, DisbursementFailed, Label
    <2>2. withdrawal' = withdrawal /\ clock' = clock /\ \A q \in Requests : q # r => arg'[q] = arg[q]
      BY <1>1, <1>11 DEF Act, DisbursementFailed, Typed
    <2> QED
      BY <1>8, <2>1, <2>2
  <1>12. ASSUME NEW r \in Requests, Abort(r)
         PROVE  Dated' /\ RoomForAll' /\ PeriodsHold' /\ Apart'
    <2>1. Finish(r) /\ withdrawal' = withdrawal /\ clock' = clock
      BY <1>12 DEF Abort
    <2> QED
      BY <1>1, <1>8, <2>1, FinishGives
  <1>13. CASE Tick
    <2>1. /\ withdrawal' = withdrawal /\ pc' = pc /\ arg' = arg
          /\ clock' = clock + 1 /\ clock' \in 0..MaxTime /\ clock' \in Nat
      BY <1>3, <1>13, LimitsAreNumbers DEF Tick
    <2>2. PeriodsHold' /\ Apart'
      BY <1>1, <2>1 DEF PeriodsHold, Apart, Within, AmountOf
    <2>3. Dated'
      BY <1>1, <1>3, <2>1 DEF Dated
    <2>4. ASSUME NEW r \in Requests PROVE Room(r)'
      <3> SUFFICES ASSUME pc[r] \in {"lock", "cas"}
                   PROVE  /\ \A now \in 0..MaxTime :
                                now >= clock' =>
                                    /\ Cardinality(Within(now, Day)) < MaxDailyCount
                                    /\ AmountOf(Within(now, Day)) + arg[r].amount <= DailyLimit
                                    /\ AmountOf(Within(now, Month)) + arg[r].amount <= MonthlyLimit
                          /\ \A w \in Requests :
                                withdrawal[w].keyed => clock' - withdrawal[w].at >= Cooling
        BY <2>1 DEF Room, Within, AmountOf
      <3>1. Room(r)
        BY <1>1 DEF RoomForAll
      <3>2. \A now \in 0..MaxTime : now >= clock' => now >= clock
        BY <1>3, <2>1, LimitsAreNumbers
      <3>3. \A w \in Requests : clock - withdrawal[w].at >= Cooling => clock' - withdrawal[w].at >= Cooling
        BY <1>3, <2>1, LimitsAreNumbers
      <3> QED
        BY <3>1, <3>2, <3>3 DEF Room
    <2> QED
      BY <2>2, <2>3, <2>4 DEF RoomForAll
  <1>14. CASE UNCHANGED vars
    BY <1>1, <1>14 DEF vars, Dated, RoomForAll, Room, PeriodsHold, Apart, Within, AmountOf
  <1>15. ASSUME NEW r \in Requests,
                CancelCommit(r) \/ ApproveCommit(r) \/ RejectCommit(r) \/ FailedCommit(r)
         PROVE  Dated' /\ RoomForAll' /\ PeriodsHold' /\ Apart'
    <2>1. arg[r].target \in Requests
      BY <1>1, <1>15 DEF CancelCommit, ApproveCommit, RejectCommit, FailedCommit, Typed, Deciding
    <2> QED
      BY <1>4, <1>15, <2>1
  <1>16. ASSUME NEW r \in Requests, NEW w \in Requests, Disbursed(r, w)
         PROVE  Dated' /\ RoomForAll' /\ PeriodsHold' /\ Apart'
    BY <1>4, <1>16
  <1> QED
    BY <1>5, <1>7, <1>9, <1>10, <1>11, <1>12, <1>13, <1>14, <1>15, <1>16 DEF Next, Step

\* If calls do not overlap, no day and no month holds more of the withdrawals made by
\* POST withdrawals, or more money of them, than the limits allow, whatever the limits,
\* the lengths of the periods and the moments of the calls; and two of them are a
\* cooling period apart.
THEOREM LimitsAlwaysHold ==
  ASSUME Serialised
  PROVE  Spec => []LimitsHold
  <1>1. Init => LimitsInv
    <2> SUFFICES ASSUME Init PROVE LimitsInv
      OBVIOUS
    <2>1. Typed /\ Decided
      BY TypedInit, DecidedInit
    <2>2. \A w \in Requests : withdrawal[w] = NoWithdrawal
      BY DEF Init
    <2>3. Dated /\ RoomForAll /\ Apart
      BY <2>2, LimitsAreNumbers DEF Init, Dated, RoomForAll, Room, Apart, NoWithdrawal
    <2>4. \A now, L : Within(now, L) = {}
      BY <2>2 DEF Within, NoWithdrawal
    <2>5. AmountOf({}) = 0 /\ Cardinality({}) = 0
      BY InitAmounts, FS_EmptySet
    <2>6. PeriodsHold
      BY <2>4, <2>5, LimitsAreNumbers DEF PeriodsHold
    <2> QED
      BY <2>1, <2>3, <2>6 DEF LimitsInv
  <1>2. LimitsInv /\ [Next]_vars => LimitsInv'
    <2>1. LimitsInv => Typed /\ Decided
      BY DEF LimitsInv
    <2> QED
      BY <2>1, Serialised, TypedStep, DecidedStep, LimitsStep
  <1>3. LimitsInv => LimitsHold
    BY LimitsAre DEF LimitsInv
  <1> QED
    BY <1>1, <1>2, <1>3, PTL DEF Spec
=============================================================================
