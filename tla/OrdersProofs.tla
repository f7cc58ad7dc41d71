---------------------------- MODULE OrdersProofs ----------------------------
(***************************************************************************)
(* Theorems about Orders, for any users, orders, handlers, terms and       *)
(* numbers of calls, whether or not calls overlap or are cut short unless  *)
(* a theorem says so.                                                      *)
(***************************************************************************)
EXTENDS Orders, Lemmas

OrderRow == [status : OrderStatus, counterparty : MaybeUser, amount : Nat, fee : Nat]

TermsRow == [amount : Nat, fee : Nat]

CallType == [at : Label, order : Orders \cup {Null}, row : OrderRow, user : MaybeUser,
             terms : TermsRow]

\* A call that has arrived is about an order.
CallsNamed == \A h \in Handlers : call[h].at # "idle" => call[h].order \in Orders

Typed == TypeOK /\ CallsNamed

HistoryTyped == revised \in [Orders -> Nat] /\ left \in [Orders -> Int]

LEMMA IdleTyped == Idle \in CallType
  BY DEF Idle, CallType, OrderRow, TermsRow, NoOrder, OrderStatus, MaybeUser, Label

LEMMA TypedInit == Init => Typed
  <1> SUFFICES ASSUME Init PROVE Typed
    OBVIOUS
  <1>1. wallet \in [Users -> Row]
    BY OrdersAssumption DEF OrdersAssumption, Init, Opened, Row
  <1>2. order \in [Orders -> OrderRow]
    BY DEF Init, NoOrder, OrderRow, OrderStatus, MaybeUser
  <1>3. /\ hold \in [Orders -> [status : {"NONE", "ACTIVE", "HELD", "RELEASED"},
                                buyer : MaybeUser, seller : MaybeUser, amount : Nat]]
        /\ dispute \in [Orders -> BOOLEAN]
        /\ fees \in Nat
    BY DEF Init, NoHold, MaybeUser
  <1>4. call \in [Handlers -> CallType]
    BY IdleTyped DEF Init
  <1>5. calls \in 0..MaxCalls
    BY OrdersAssumption DEF OrdersAssumption, Init
  <1>6. CallsNamed
    BY DEF Init, CallsNamed, Idle
  <1>7. revised \in [Orders -> Nat] /\ left \in [Orders -> Int]
    BY DEF Init
  <1> QED
    BY <1>1, <1>2, <1>3, <1>4, <1>5, <1>6, <1>7 DEF Typed, TypeOK, CallType, OrderRow, TermsRow

\* A call that begins reads an order that is there, and nothing else changes.
LEMMA BeginKeeps ==
  ASSUME Typed, NEW h \in Handlers, NEW o \in Orders, NEW at \in Label \ {"idle"},
         NEW user \in MaybeUser, NEW terms \in TermsRow, Begin(h, o, at, user, terms)
  PROVE  /\ Typed'
         /\ \A g \in Handlers : g # h => call'[g] = call[g]
         /\ call'[h].at = at
         /\ call'[h].order = o
  <1>1. call' = [call EXCEPT ![h] = [at |-> at, order |-> o, row |-> order[o],
                                     user |-> user, terms |-> terms]]
    BY DEF Begin
  <1>2. [at |-> at, order |-> o, row |-> order[o], user |-> user, terms |-> terms] \in CallType
    BY DEF Typed, TypeOK, CallType, OrderRow
  <1>3. call \in [Handlers -> CallType]
    BY DEF Typed, TypeOK, CallType, OrderRow, TermsRow
  <1>4. /\ call' \in [Handlers -> CallType]
        /\ \A g \in Handlers : g # h => call'[g] = call[g]
        /\ call'[h].at = at
        /\ call'[h].order = o
    BY <1>1, <1>2, <1>3
  <1>5. CallsNamed'
    BY <1>4 DEF Typed, CallsNamed
  <1>6. calls' \in 0..MaxCalls
    BY OrdersAssumption DEF OrdersAssumption, Begin, Typed, TypeOK
  <1>7. UNCHANGED <<wallet, order, hold, dispute, fees, revised, left>>
    BY DEF Begin, history
  <1>8. TypeOK'
    BY <1>4, <1>6, <1>7 DEF Typed, TypeOK, CallType, OrderRow, TermsRow
  <1> QED
    BY <1>4, <1>5, <1>8 DEF Typed

\* A call that makes a write keeps its order and what it read of it until it ends.
LEMMA ProceedKeeps ==
  ASSUME Typed, NEW h \in Handlers, NEW at \in Label \ {"idle"}, NEW next \in Label,
         Proceed(h, at, next)
  PROVE  /\ call' \in [Handlers -> CallType]
         /\ calls' = calls
         /\ CallsNamed'
         /\ \A g \in Handlers : g # h => call'[g] = call[g]
         /\ call[h].at = at
         /\ call[h].order \in Orders
         /\ call[h].row \in OrderRow
         /\ call[h].user \in MaybeUser
         /\ call[h].terms \in TermsRow
         /\ call'[h].at = next
         /\ next # "idle" => call'[h].order = call[h].order
  <1>1. call \in [Handlers -> CallType]
    BY DEF Typed, TypeOK, CallType, OrderRow, TermsRow
  <1>2. /\ call[h].at = at
        /\ call[h].order \in Orders
        /\ calls' = calls
        /\ call' = [call EXCEPT ![h] = IF next = "idle" THEN Idle
                                       ELSE [call[h] EXCEPT !.at = next]]
    BY DEF Proceed, Typed, CallsNamed
  <1>3. /\ call[h].row \in OrderRow
        /\ call[h].user \in MaybeUser
        /\ call[h].terms \in TermsRow
    BY <1>1 DEF CallType
  <1>4. CASE next = "idle"
    <2>1. call' = [call EXCEPT ![h] = Idle]
      BY <1>2, <1>4
    <2>2. /\ call' \in [Handlers -> CallType]
          /\ \A g \in Handlers : g # h => call'[g] = call[g]
          /\ call'[h].at = "idle"
      BY <1>1, <2>1, IdleTyped DEF Idle
    <2> QED
      BY <1>2, <1>3, <1>4, <2>2 DEF Typed, CallsNamed
  <1>5. CASE next # "idle"
    <2>1. call' = [call EXCEPT ![h] = [call[h] EXCEPT !.at = next]]
      BY <1>2, <1>5
    <2>2. [call[h] EXCEPT !.at = next] \in CallType
      BY <1>1 DEF CallType
    <2>3. /\ call' \in [Handlers -> CallType]
          /\ \A g \in Handlers : g # h => call'[g] = call[g]
          /\ call'[h] = [call[h] EXCEPT !.at = next]
      BY <1>1, <2>1, <2>2
    <2>4. call'[h].at = next /\ call'[h].order = call[h].order
      BY <1>1, <2>3 DEF CallType
    <2> QED
      BY <1>2, <1>3, <2>3, <2>4 DEF Typed, CallsNamed
  <1> QED
    BY <1>4, <1>5

\* What a call that comes in has checked: the step it starts at says what.
Checked(o, at) ==
    /\ at = "update" => order[o].status \in {"WAITING_COUNTERPARTY", "PENDING_ACCEPT"}
    /\ at = "accept" => order[o].status = "WAITING_COUNTERPARTY"
    /\ at = "agree" => order[o].status = "PENDING_ACCEPT"
    /\ at = "lock" => order[o].status = "ACCEPTED"
    /\ at = "escrow" => order[o].status \in {"PENDING_ACCEPT", "ACCEPTED"}
    /\ at \in {"transfer", "release"} => order[o].status = "PAID"
    /\ at = "release" => hold[o].status # "NONE"
    /\ at = "setCompleted" => order[o].status = "PAID" /\ "deliveries" \in Routes

\* What it was asked for.
Asked(at, user, terms) ==
    /\ at = "accept" => user \in Users
    /\ at = "update" => terms \in Terms

FirstSteps == {"update", "accept", "agree", "cancel", "lock", "escrow", "transfer", "release",
               "disputeRow", "setDisputed", "dispute", "setCompleted"}

LEMMA ArrivalBegins ==
  ASSUME NEW h \in Handlers, NEW o \in Orders, Arrival(h, o)
  PROVE  \E at \in FirstSteps, user \in MaybeUser, terms \in TermsRow :
            /\ Begin(h, o, at, user, terms)
            /\ Checked(o, at) /\ Asked(at, user, terms)
  <1>1. Null \in MaybeUser /\ Idle.terms \in TermsRow /\ Terms \subseteq TermsRow
    <2>1. Terms \subseteq TermsRow
      BY OrdersAssumption DEF OrdersAssumption, TermsRow
    <2> QED
      BY <2>1 DEF MaybeUser, Idle, TermsRow
  <1>2. ASSUME NEW at \in FirstSteps \ {"update", "accept"}, Start(h, o, at), Checked(o, at)
        PROVE  \E a \in FirstSteps, user \in MaybeUser, terms \in TermsRow :
                  Begin(h, o, a, user, terms) /\ Checked(o, a) /\ Asked(a, user, terms)
    BY <1>1, <1>2 DEF Start, Asked
  <1>3. CASE \E t \in Terms : UpdateOrder(h, o, t)
    <2>1. PICK t \in Terms : UpdateOrder(h, o, t)
      BY <1>3
    <2>2. "update" \in FirstSteps /\ Checked(o, "update") /\ Asked("update", Null, t)
      BY <2>1 DEF UpdateOrder, Editable, FirstSteps, Checked, Asked
    <2> QED
      BY <1>1, <2>1, <2>2 DEF UpdateOrder
  <1>4. CASE \E user \in Users : AcceptOrder(h, o, user)
    <2>1. PICK user \in Users : AcceptOrder(h, o, user)
      BY <1>4
    <2>2. "accept" \in FirstSteps /\ Checked(o, "accept") /\ Asked("accept", user, Idle.terms)
          /\ user \in MaybeUser
      BY <2>1 DEF AcceptOrder, InviteOpen, FirstSteps, Checked, Asked, MaybeUser
    <2> QED
      BY <1>1, <2>1, <2>2 DEF AcceptOrder
  <1>5. CASE Accept(h, o)
    BY <1>2, <1>5 DEF Accept, FirstSteps, Checked
  <1>6. CASE Reject(h, o) \/ Cancel(h, o)
    BY <1>2, <1>6 DEF Reject, Cancel, FirstSteps, Checked
  <1>7. CASE Pay(h, o)
    BY <1>2, <1>7 DEF Pay, FirstSteps, Checked
  <1>8. CASE PayOrder(h, o)
    BY <1>2, <1>8 DEF PayOrder, FirstSteps, Checked
  <1>9. CASE ConfirmReceipt(h, o)
    BY <1>2, <1>9 DEF ConfirmReceipt, FirstSteps, Checked
  <1>10. CASE ConfirmDelivery(h, o)
    BY <1>2, <1>10 DEF ConfirmDelivery, FirstSteps, Checked
  <1>11. CASE Dispute(h, o)
    BY <1>2, <1>11 DEF Dispute, FirstSteps, Checked
  <1>12. CASE OpenDispute(h, o)
    BY <1>2, <1>12 DEF OpenDispute, FirstSteps, Checked
  <1>13. CASE CreateDispute(h, o)
    BY <1>2, <1>13 DEF CreateDispute, FirstSteps, Checked
  <1>14. CASE ConfirmDelivered(h, o)
    BY <1>2, <1>14 DEF ConfirmDelivered, FirstSteps, Checked
  <1> QED
    BY <1>3, <1>4, <1>5, <1>6, <1>7, <1>8, <1>9, <1>10, <1>11, <1>12, <1>13, <1>14 DEF Arrival

\* The sums a call works with are whole numbers, and a hold or a row it writes has
\* the form of one.
LEMMA SumsTyped ==
  ASSUME NEW o \in Orders, NEW row \in OrderRow
  PROVE  /\ TotalToPay(o, row) \in Nat
         /\ SellerAmount(o, row) \in Int
         /\ BuyerOf(o, row) \in MaybeUser
         /\ SellerOf(o, row) \in MaybeUser
  <1>1. row.amount \in Nat /\ row.fee \in Nat /\ row.fee \div 2 \in Nat
        /\ row.counterparty \in MaybeUser
    BY DEF OrderRow
  <1>2. Initiator[o] \in MaybeUser
    BY OrdersAssumption DEF OrdersAssumption, MaybeUser
  <1>3. FeePayer[o] \in {"BUYER", "SELLER", "SPLIT", "FIFTY_FIFTY"}
    BY OrdersAssumption DEF OrdersAssumption
  <1>4. TotalToPay(o, row) \in Nat
    <2>1. CASE FeePayer[o] = "BUYER"
      BY <1>1, <2>1 DEF TotalToPay
    <2>2. CASE FeePayer[o] = "SPLIT"
      BY <1>1, <2>2 DEF TotalToPay
    <2>3. CASE FeePayer[o] \in {"SELLER", "FIFTY_FIFTY"}
      BY <1>1, <2>3 DEF TotalToPay
    <2> QED
      BY <1>3, <2>1, <2>2, <2>3
  <1>5. SellerAmount(o, row) \in Int
    <2>1. CASE FeePayer[o] = "SELLER"
      BY <1>1, <2>1 DEF SellerAmount
    <2>2. CASE FeePayer[o] = "SPLIT"
      BY <1>1, <2>2 DEF SellerAmount
    <2>3. CASE FeePayer[o] \in {"BUYER", "FIFTY_FIFTY"}
      BY <1>1, <2>3 DEF SellerAmount
    <2> QED
      BY <1>3, <2>1, <2>2, <2>3
  <1>6. BuyerOf(o, row) \in MaybeUser /\ SellerOf(o, row) \in MaybeUser
    BY <1>1, <1>2 DEF BuyerOf, SellerOf
  <1> QED
    BY <1>4, <1>5, <1>6

HoldRow == [status : {"NONE", "ACTIVE", "HELD", "RELEASED"}, buyer : MaybeUser,
            seller : MaybeUser, amount : Nat]

LEMMA RowReplaced ==
  ASSUME NEW w \in [Users -> Row], NEW x, NEW r, x \in Users => r \in Row
  PROVE  [w EXCEPT ![x] = r] \in [Users -> Row]
  OBVIOUS

\* The writes that nothing reads: revisions, and what confirmReceipt leaves.
LEMMA HistoryMoves ==
  ASSUME [Next]_vars
  PROVE  \/ UNCHANGED history
         \/ \E h \in Handlers : ResolveHold(h) /\ revised' = revised
         \/ /\ \E h \in Handlers : UpdateCommit(h) \/ AcceptCommit(h)
            /\ left' = left
  <1>1. ASSUME NEW h \in Handlers, Write(h),
               ~ResolveHold(h), ~UpdateCommit(h), ~AcceptCommit(h)
        PROVE  UNCHANGED history
    BY <1>1 DEF Write, SetStatus, PayLock, PayHold, PayEscrow, TransferRead, TransferDebit,
                TransferCredit, ReleaseRead, ReleaseCommit, DisputeRow, CreateDisputeCommit
  <1>2. ASSUME NEW h \in Handlers, ResolveHold(h) PROVE revised' = revised
    BY <1>2 DEF ResolveHold
  <1>3. ASSUME NEW h \in Handlers, UpdateCommit(h) \/ AcceptCommit(h) PROVE left' = left
    BY <1>3 DEF UpdateCommit, AcceptCommit
  <1>4. ASSUME NEW h \in Handlers, NEW o \in Orders, Arrival(h, o) PROVE UNCHANGED history
    BY <1>4, ArrivalBegins DEF Begin
  <1> QED
    BY <1>1, <1>2, <1>3, <1>4 DEF Next, Abort, Create, Administration, ForceCancel, Resolve, vars

LEMMA HistoryStep == Typed /\ [Next]_vars => HistoryTyped'
  <1> SUFFICES ASSUME Typed, [Next]_vars PROVE HistoryTyped'
    OBVIOUS
  <1>0. /\ order \in [Orders -> OrderRow] /\ hold \in [Orders -> HoldRow]
        /\ call \in [Handlers -> CallType]
        /\ revised \in [Orders -> Nat] /\ left \in [Orders -> Int]
    BY DEF Typed, TypeOK, CallType, OrderRow, TermsRow, HoldRow
  <1>1. CASE UNCHANGED history
    BY <1>0, <1>1 DEF history, HistoryTyped
  <1>2. CASE \E h \in Handlers : ResolveHold(h) /\ revised' = revised
    <2>1. PICK h \in Handlers : ResolveHold(h) /\ revised' = revised
      BY <1>2
    <2> DEFINE o == call[h].order
               gets == SellerAmount(o, call[h].row)
    <2>2. o \in Orders /\ call[h].row \in OrderRow
      <3>1. call[h].at # "idle"
        BY <2>1 DEF ResolveHold, Proceed
      <3> QED
        BY <1>0, <3>1 DEF Typed, CallsNamed, CallType
    <2>3. gets \in Int
      BY <2>2, SumsTyped
    <2>4. left' = left \/ left' = [left EXCEPT ![o] = hold[o].amount - gets]
      BY <2>1 DEF ResolveHold
    <2> HIDE DEF gets, o
    <2>5. hold[o].amount - gets \in Int
      BY <1>0, <2>2, <2>3 DEF HoldRow
    <2> QED
      BY <1>0, <2>1, <2>4, <2>5 DEF HistoryTyped
  <1>3. CASE /\ \E h \in Handlers : UpdateCommit(h) \/ AcceptCommit(h)
             /\ left' = left
    <2>1. revised' = revised \/ \E o : revised' = [revised EXCEPT ![o] = @ + 1]
      BY <1>3 DEF UpdateCommit, AcceptCommit, Revise
    <2> QED
      BY <1>0, <1>3, <2>1 DEF HistoryTyped
  <1> QED
    BY <1>1, <1>2, <1>3, HistoryMoves

\* What edits and acceptances do to the row of their order.
LEMMA Rewrites ==
  ASSUME NEW h \in Handlers
  PROVE  /\ UpdateCommit(h) =>
               \/ order' = order
               \/ order' = [order EXCEPT ![call[h].order] =
                              [order[call[h].order] EXCEPT !.amount = call[h].terms.amount,
                                                           !.fee = call[h].terms.fee]]
         /\ AcceptCommit(h) =>
               order' = [order EXCEPT ![call[h].order] =
                            [order[call[h].order] EXCEPT !.status = "PENDING_ACCEPT",
                                                         !.counterparty = call[h].user]]
  BY DEF UpdateCommit, AcceptCommit, Revise

\* Field by field: no status but PENDING_ACCEPT is written.
LEMMA Rewritten ==
  ASSUME order \in [Orders -> OrderRow], call \in [Handlers -> CallType],
         NEW h \in Handlers, UpdateCommit(h) \/ AcceptCommit(h)
  PROVE  /\ order' \in [Orders -> OrderRow]
         /\ \A q \in Orders : order'[q].status \in {order[q].status, "PENDING_ACCEPT"}
         /\ \A q \in Orders : UpdateCommit(h) => /\ order'[q].status = order[q].status
                                                /\ order'[q].counterparty = order[q].counterparty
         /\ call[h].order \in Orders /\ AcceptCommit(h) =>
                order'[call[h].order].counterparty = call[h].user
  <1> DEFINE o == call[h].order
             amount == call[h].terms.amount
             fee == call[h].terms.fee
             user == call[h].user
  <1>1. amount \in Nat /\ fee \in Nat /\ user \in MaybeUser
    BY DEF CallType, TermsRow
  <1>2. UpdateCommit(h) => \/ order' = order
                           \/ order' = [order EXCEPT ![o] =
                                          [order[o] EXCEPT !.amount = amount, !.fee = fee]]
    BY Rewrites
  <1>3. AcceptCommit(h) =>
           order' = [order EXCEPT ![o] =
                        [order[o] EXCEPT !.status = "PENDING_ACCEPT", !.counterparty = user]]
    BY Rewrites
  <1>4. o \in Orders => /\ [order[o] EXCEPT !.amount = amount, !.fee = fee] \in OrderRow
                        /\ [order[o] EXCEPT !.status = "PENDING_ACCEPT", !.counterparty = user]
                              \in OrderRow
    BY <1>1 DEF OrderRow, OrderStatus
  <1>5. o \in Orders =>
           LET a == [order[o] EXCEPT !.amount = amount, !.fee = fee]
               b == [order[o] EXCEPT !.status = "PENDING_ACCEPT", !.counterparty = user] IN
           /\ a.status = order[o].status /\ a.counterparty = order[o].counterparty
           /\ b.status = "PENDING_ACCEPT" /\ b.counterparty = user
    BY DEF OrderRow
  <1> HIDE DEF o, amount, fee, user
  <1>6. CASE UpdateCommit(h) /\ order' = order
    <2>1. AcceptCommit(h) => call[h].at = "accept" /\ call[h].at = "update"
      BY <1>6 DEF UpdateCommit, AcceptCommit, Proceed
    <2> QED
      BY <1>6, <2>1
  <1>7. CASE UpdateCommit(h) /\ order' # order
    <2>1. AcceptCommit(h) => call[h].at = "accept" /\ call[h].at = "update"
      BY <1>7 DEF UpdateCommit, AcceptCommit, Proceed
    <2>2. ~AcceptCommit(h)
      BY <2>1
    <2>3. order' = [order EXCEPT ![o] = [order[o] EXCEPT !.amount = amount, !.fee = fee]]
      BY <1>2, <1>7
    <2> QED
      BY <1>4, <1>5, <2>2, <2>3
  <1>8. CASE AcceptCommit(h) /\ ~UpdateCommit(h)
    <2>1. order' = [order EXCEPT ![o] =
                       [order[o] EXCEPT !.status = "PENDING_ACCEPT", !.counterparty = user]]
      BY <1>3, <1>8
    <2> QED
      BY <1>4, <1>5, <1>8, <2>1 DEF o, user
  <1> QED
    BY <1>6, <1>7, <1>8

\* Every step keeps the types.
LEMMA TypedStep == Typed /\ [Next]_vars => Typed'
  <1> SUFFICES ASSUME Typed, [Next]_vars PROVE Typed'
    OBVIOUS
  <1>0. /\ wallet \in [Users -> Row] /\ order \in [Orders -> OrderRow]
        /\ hold \in [Orders -> HoldRow] /\ dispute \in [Orders -> BOOLEAN] /\ fees \in Nat
        /\ call \in [Handlers -> CallType] /\ calls \in 0..MaxCalls
    BY DEF Typed, TypeOK, CallType, OrderRow, TermsRow, HoldRow
  <1>1. ASSUME wallet' \in [Users -> Row], order' \in [Orders -> OrderRow],
               hold' \in [Orders -> HoldRow], dispute' \in [Orders -> BOOLEAN], fees' \in Nat,
               call' \in [Handlers -> CallType], calls' \in 0..MaxCalls, CallsNamed'
        PROVE  Typed'
    BY <1>1, HistoryStep DEF Typed, TypeOK, HistoryTyped, CallType, OrderRow, TermsRow, HoldRow
  <1>2. ASSUME NEW h \in Handlers, NEW at \in Label \ {"idle"}, NEW status \in OrderStatus,
               SetStatus(h, at, status)
        PROVE  Typed'
    <2>1. "idle" \in Label /\ Proceed(h, at, "idle")
      BY <1>2 DEF SetStatus, Label
    <2>2. order' \in [Orders -> OrderRow]
      BY <1>0, <1>2 DEF SetStatus, OrderRow
    <2> QED
      BY <1>0, <1>1, <1>2, <2>1, <2>2, ProceedKeeps DEF SetStatus
  <1>3. ASSUME NEW h \in Handlers, UpdateCommit(h) PROVE Typed'
    <2>1. {"update", "idle"} \subseteq Label /\ Proceed(h, "update", "idle")
      BY <1>3 DEF UpdateCommit, Label
    <2>3. order' \in [Orders -> OrderRow]
      BY <1>0, <1>3, Rewritten
    <2> QED
      BY <1>0, <1>1, <1>3, <2>1, <2>3, ProceedKeeps DEF UpdateCommit
  <1>4. ASSUME NEW h \in Handlers, AcceptCommit(h) PROVE Typed'
    <2>1. {"accept", "idle"} \subseteq Label /\ Proceed(h, "accept", "idle")
      BY <1>4 DEF AcceptCommit, Label
    <2>3. order' \in [Orders -> OrderRow]
      BY <1>0, <1>4, Rewritten
    <2> QED
      BY <1>0, <1>1, <1>4, <2>1, <2>3, ProceedKeeps DEF AcceptCommit
  <1>5. ASSUME NEW h \in Handlers, PayLock(h) PROVE Typed'
    <2>1. {"lock", "insertHold"} \subseteq Label /\ Proceed(h, "lock", "insertHold")
      BY <1>5 DEF PayLock, Label
    <2>2. TotalToPay(call[h].order, call[h].row) \in Nat
      BY <2>1, ProceedKeeps, SumsTyped
    <2> DEFINE b == BuyerOf(call[h].order, call[h].row)
               a == TotalToPay(call[h].order, call[h].row)
    <2>4. wallet' = [wallet EXCEPT ![b] = LockBalance(wallet[b], a)]
      BY <1>5 DEF PayLock
    <2>5. b \in Users => LockBalance(wallet[b], a) \in Row
      <3> HIDE DEF b
      <3>1. a \in Int
        BY <2>2
      <3> HIDE DEF a
      <3> QED
        BY <1>0, <3>1, RowMoves
    <2>3. wallet' \in [Users -> Row]
      BY <1>0, <2>4, <2>5, RowReplaced
    <2> QED
      BY <1>0, <1>1, <1>5, <2>1, <2>3, ProceedKeeps DEF PayLock
  <1>6. ASSUME NEW h \in Handlers, PayHold(h) PROVE Typed'
    <2>1. {"insertHold", "setPaid"} \subseteq Label /\ Proceed(h, "insertHold", "setPaid")
      BY <1>6 DEF PayHold, Label
    <2>2. HoldOf(call[h].order, call[h].row, "HELD", TotalToPay(call[h].order, call[h].row))
             \in HoldRow
      BY <2>1, ProceedKeeps, SumsTyped DEF HoldOf, HoldRow
    <2>3. hold' \in [Orders -> HoldRow]
      BY <1>0, <1>6, <2>2 DEF PayHold
    <2> QED
      BY <1>0, <1>1, <1>6, <2>1, <2>3, ProceedKeeps DEF PayHold
  <1>7. ASSUME NEW h \in Handlers, PayEscrow(h) PROVE Typed'
    <2> DEFINE o == call[h].order
               row == call[h].row
    <2>1. {"escrow", "setPaid"} \subseteq Label /\ Proceed(h, "escrow", "setPaid")
      BY <1>7 DEF PayEscrow, Label
    <2>2. row \in OrderRow /\ o \in Orders
      BY <2>1, ProceedKeeps
    <2>3. HoldOf(o, row, "ACTIVE", row.amount) \in HoldRow /\ row.amount \in Int
      BY <2>2, SumsTyped DEF HoldOf, HoldRow, OrderRow
    <2> DEFINE b == BuyerOf(o, row)
    <2>4. wallet' \in [Users -> Row]
      <3>1. \/ wallet' = wallet
            \/ wallet' = [wallet EXCEPT ![b] = LockBalance(wallet[b], row.amount)]
        BY <1>7 DEF PayEscrow
      <3>2. b \in Users => LockBalance(wallet[b], row.amount) \in Row
        <4> HIDE DEF b, row
        <4> QED
          BY <1>0, <2>3, RowMoves
      <3> QED
        BY <1>0, <3>1, <3>2, RowReplaced
    <2>5. hold' \in [Orders -> HoldRow]
      BY <1>0, <1>7, <2>3 DEF PayEscrow
    <2>6. order' \in [Orders -> OrderRow]
      BY <1>0, <1>7 DEF PayEscrow, OrderRow, OrderStatus
    <2> HIDE DEF o, row
    <2> QED
      BY <1>0, <1>1, <1>7, <2>1, <2>4, <2>5, <2>6, ProceedKeeps DEF PayEscrow
  <1>8. ASSUME NEW h \in Handlers, TransferRead(h) PROVE Typed'
    BY <1>0, <1>1, <1>8, ProceedKeeps DEF TransferRead, Label
  <1>9. ASSUME NEW h \in Handlers, TransferDebit(h) PROVE Typed'
    <2>1. {"debit", "credit"} \subseteq Label /\ Proceed(h, "debit", "credit")
      BY <1>9 DEF TransferDebit, Label
    <2>2. SellerAmount(call[h].order, call[h].row) \in Int
      BY <2>1, ProceedKeeps, SumsTyped
    <2>3. wallet' \in [Users -> Row]
      BY <1>0, <1>9, <2>2, RowMoves DEF TransferDebit
    <2> QED
      BY <1>0, <1>1, <1>9, <2>1, <2>3, ProceedKeeps DEF TransferDebit
  <1>10. ASSUME NEW h \in Handlers, TransferCredit(h) PROVE Typed'
    <2>1. {"credit", "resolveHold"} \subseteq Label /\ Proceed(h, "credit", "resolveHold")
      BY <1>10 DEF TransferCredit, Label
    <2>2. SellerAmount(call[h].order, call[h].row) \in Int
      BY <2>1, ProceedKeeps, SumsTyped
    <2>3. wallet' \in [Users -> Row]
      BY <1>0, <1>10, <2>2, RowMoves DEF TransferCredit
    <2> QED
      BY <1>0, <1>1, <1>10, <2>1, <2>3, ProceedKeeps DEF TransferCredit
  <1>11. ASSUME NEW h \in Handlers, ResolveHold(h) PROVE Typed'
    <2>1. {"resolveHold", "setCompleted"} \subseteq Label
          /\ Proceed(h, "resolveHold", "setCompleted")
      BY <1>11 DEF ResolveHold, Label
    <2>2. hold' \in [Orders -> HoldRow]
      BY <1>0, <1>11 DEF ResolveHold, HoldRow
    <2> QED
      BY <1>0, <1>1, <1>11, <2>1, <2>2, ProceedKeeps DEF ResolveHold
  <1>12. ASSUME NEW h \in Handlers, ReleaseRead(h) PROVE Typed'
    BY <1>0, <1>1, <1>12, ProceedKeeps DEF ReleaseRead, Label
  <1>13. ASSUME NEW h \in Handlers, ReleaseCommit(h) PROVE Typed'
    <2> DEFINE o == call[h].order
               b == hold[o].buyer
               s == hold[o].seller
               fee == call[h].row.fee
               share == hold[o].amount - fee
               debited == [wallet EXCEPT ![b] = TransferOut(wallet[b], share)]
               paid == [debited EXCEPT ![s] = TransferIn(debited[s], share)]
    <2>1. {"releaseCommit", "setCompleted"} \subseteq Label
          /\ Proceed(h, "releaseCommit", "setCompleted")
      BY <1>13 DEF ReleaseCommit, Label
    <2>2. o \in Orders /\ fee \in Nat
      BY <2>1, ProceedKeeps DEF OrderRow
    <2>3. hold[o].amount \in Nat
      BY <1>0, <2>2 DEF HoldRow
    <2>4. share \in Int /\ fee \in Int
      BY <2>2, <2>3
    <2>5. wallet' = [paid EXCEPT ![b] = TakeLocked(paid[b], fee)]
      BY <1>13 DEF ReleaseCommit
    <2> HIDE DEF o, b, s, fee, share
    <2>11. debited \in [Users -> Row]
      BY <1>0, <2>4, RowMoves
    <2> HIDE DEF debited
    <2>6. paid \in [Users -> Row]
      BY <2>4, <2>11, RowMoves
    <2> HIDE DEF paid
    <2>7. wallet' \in [Users -> Row]
      BY <2>4, <2>5, <2>6, RowMoves
    <2>8. hold' \in [Orders -> HoldRow]
      BY <1>0, <1>13 DEF ReleaseCommit, HoldRow
    <2>9. order' \in [Orders -> OrderRow]
      BY <1>0, <1>13 DEF ReleaseCommit, OrderRow, OrderStatus
    <2>10. fees' \in Nat
      BY <1>0, <1>13, <2>2 DEF ReleaseCommit, fee
    <2> QED
      BY <1>0, <1>1, <1>13, <2>1, <2>7, <2>8, <2>9, <2>10, ProceedKeeps DEF ReleaseCommit
  <1>14. ASSUME NEW h \in Handlers, DisputeRow(h) PROVE Typed'
    <2>1. {"disputeRow", "setDisputed"} \subseteq Label
          /\ Proceed(h, "disputeRow", "setDisputed")
      BY <1>14 DEF DisputeRow, Label
    <2>2. dispute' \in [Orders -> BOOLEAN]
      BY <1>0, <1>14 DEF DisputeRow
    <2> QED
      BY <1>0, <1>1, <1>14, <2>1, <2>2, ProceedKeeps DEF DisputeRow
  <1>15. ASSUME NEW h \in Handlers, CreateDisputeCommit(h) PROVE Typed'
    <2>1. {"dispute", "idle"} \subseteq Label /\ Proceed(h, "dispute", "idle")
      BY <1>15 DEF CreateDisputeCommit, Label
    <2>2. dispute' \in [Orders -> BOOLEAN]
      BY <1>0, <1>15 DEF CreateDisputeCommit
    <2>3. order' \in [Orders -> OrderRow]
      BY <1>0, <1>15 DEF CreateDisputeCommit, OrderRow, OrderStatus
    <2> QED
      BY <1>0, <1>1, <1>15, <2>1, <2>2, <2>3, ProceedKeeps DEF CreateDisputeCommit
  <1>16. ASSUME NEW h \in Handlers, Write(h) PROVE Typed'
    <2>1. {"agree", "cancel", "setPaid", "setCompleted", "setDisputed"} \subseteq Label \ {"idle"}
          /\ {"ACCEPTED", "CANCELLED", "PAID", "COMPLETED", "DISPUTED"} \subseteq OrderStatus
      BY DEF Label, OrderStatus
    <2> QED
      BY <1>2, <1>3, <1>4, <1>5, <1>6, <1>7, <1>8, <1>9, <1>10, <1>11, <1>12, <1>13, <1>14,
         <1>15, <1>16, <2>1 DEF Write
  <1>17. ASSUME NEW h \in Handlers, NEW o \in Orders, Arrival(h, o) PROVE Typed'
    <2>1. PICK at \in FirstSteps, user \in MaybeUser, terms \in TermsRow :
             Begin(h, o, at, user, terms)
      BY <1>17, ArrivalBegins
    <2>2. at \in Label \ {"idle"}
      BY DEF FirstSteps, Label
    <2> QED
      BY <2>1, <2>2, BeginKeeps
  <1>18. ASSUME NEW h \in Handlers, Abort(h) PROVE Typed'
    <2>1. call' = [call EXCEPT ![h] = Idle]
      BY <1>18 DEF Abort
    <2>2. call' \in [Handlers -> CallType]
      BY <1>0, <2>1, IdleTyped
    <2>3. CallsNamed'
      BY <1>0, <2>1 DEF Typed, CallsNamed, Idle
    <2> QED
      BY <1>0, <1>1, <1>18, <2>2, <2>3 DEF Abort
  <1>19. ASSUME NEW o \in Orders, NEW c \in MaybeUser, NEW t \in Terms, Create(o, c, t)
         PROVE  Typed'
    <2>1. t.amount \in Nat /\ t.fee \in Nat
      BY OrdersAssumption DEF OrdersAssumption
    <2>2. order' \in [Orders -> OrderRow]
      BY <1>0, <1>19, <2>1 DEF Create, OrderRow, OrderStatus
    <2> QED
      BY <1>0, <1>1, <1>19, <2>2 DEF Create, Typed, CallsNamed
  <1>20. ASSUME NEW o \in Orders, Administration(o) PROVE Typed'
    <2>1. order' \in [Orders -> OrderRow]
      BY <1>0, <1>20 DEF Administration, ForceCancel, Resolve, OrderRow, OrderStatus
    <2> QED
      BY <1>0, <1>1, <1>20, <2>1 DEF Administration, ForceCancel, Resolve, Typed, CallsNamed
  <1>21. CASE UNCHANGED vars
    BY <1>0, <1>1, <1>21 DEF vars, Typed, CallsNamed
  <1> QED
    BY <1>16, <1>17, <1>18, <1>19, <1>20, <1>21 DEF Next

\* Every variable keeps its type.
THEOREM TypeCorrect == Spec => []TypeOK
  <1>1. Spec => []Typed
    BY TypedInit, TypedStep, PTL DEF Spec
  <1>2. Typed => TypeOK
    BY DEF Typed
  <1> QED
    BY <1>1, <1>2, PTL

----------------------------------------------------------------------------
(* Paid means held, and a hold is written once.                            *)

\* A row of escrow_holds stays, with what it says, and RELEASED is its last status.
LEMMA HoldStays ==
  ASSUME Typed, [Next]_vars, NEW o \in Orders, hold[o].status # "NONE"
  PROVE  /\ hold'[o] = [hold[o] EXCEPT !.status = hold'[o].status]
         /\ hold'[o].status # "NONE"
         /\ hold[o].status = "RELEASED" => hold'[o].status = "RELEASED"
  <1>0. hold \in [Orders -> HoldRow]
    BY DEF Typed, TypeOK, HoldRow
  <1>1. CASE hold'[o] = hold[o]
    BY <1>0, <1>1 DEF HoldRow
  <1>2. CASE hold' = [hold EXCEPT ![o].status = "RELEASED"]
    BY <1>0, <1>2 DEF HoldRow
  <1>3. ASSUME NEW h \in Handlers, PayHold(h) PROVE hold'[o] = hold[o]
    <2>1. hold[call[h].order].status = "NONE"
      BY <1>3 DEF PayHold, Proceed, Allowed, HoldFree
    <2>2. call[h].order # o
      BY <2>1
    <2> QED
      BY <1>0, <1>3, <2>2 DEF PayHold
  <1>4. ASSUME NEW h \in Handlers, PayEscrow(h) PROVE hold'[o] = hold[o]
    <2>1. CASE hold[call[h].order].status # "NONE"
      BY <1>4, <2>1 DEF PayEscrow, HoldFree
    <2>2. CASE hold[call[h].order].status = "NONE"
      <3>1. call[h].order # o
        BY <2>2
      <3> QED
        BY <1>0, <1>4, <2>2, <3>1 DEF PayEscrow, HoldFree
    <2> QED
      BY <2>1, <2>2
  <1>5. ASSUME NEW h \in Handlers, ResolveHold(h) \/ ReleaseCommit(h)
        PROVE  hold'[o] = hold[o] \/ hold' = [hold EXCEPT ![o].status = "RELEASED"]
    BY <1>0, <1>5 DEF ResolveHold, ReleaseCommit
  <1>6. ASSUME NEW h \in Handlers, Write(h),
               ~PayHold(h), ~PayEscrow(h), ~ResolveHold(h), ~ReleaseCommit(h)
        PROVE  hold' = hold
    BY <1>6 DEF Write, UpdateCommit, AcceptCommit, SetStatus, PayLock, TransferRead,
                TransferDebit, TransferCredit, ReleaseRead, DisputeRow, CreateDisputeCommit
  <1>7. ASSUME NEW h \in Handlers, NEW q \in Orders, Arrival(h, q) PROVE hold' = hold
    BY <1>7, ArrivalBegins DEF Begin
  <1>8. \/ hold' = hold
        \/ \E h \in Handlers : PayHold(h) \/ PayEscrow(h) \/ ResolveHold(h) \/ ReleaseCommit(h)
    BY <1>6, <1>7 DEF Next, Abort, Create, Administration, ForceCancel, Resolve, vars
  <1> QED
    BY <1>1, <1>2, <1>3, <1>4, <1>5, <1>8

\* Once someone has paid, nothing replaces the hold's parties or its amount, by
\* whichever route the order is paid again and however the calls overlap.
THEOREM HoldStaysAsWritten == Spec => HoldWrittenOnce
  <1>1. Spec => []Typed
    BY TypedInit, TypedStep, PTL DEF Spec
  <1>2. Typed /\ [Next]_vars =>
           [\A o \in Orders : hold[o].status # "NONE" =>
                hold'[o] = [hold[o] EXCEPT !.status = hold'[o].status]]_vars
    BY HoldStays
  <1> QED
    BY <1>1, <1>2, PTL DEF Spec, HoldWrittenOnce

\* Steps at which a call has found, or written, the hold of its order.
HasHold == {"setPaid", "transfer", "debit", "credit", "resolveHold", "release",
            "releaseCommit", "setCompleted"}

CallsHold ==
    \A h \in Handlers : call[h].at \in HasHold => hold[call[h].order].status # "NONE"

Holds == PaidMeansHeld /\ CallsHold

LEMMA HoldsInit == Init => Holds
  BY DEF Init, Holds, PaidMeansHeld, CallsHold, NoOrder, HasHold, Idle

\* A step keeps Holds if who says PAID said so before or has a hold now, and so for
\* the calls.
LEMMA HoldsKept ==
  ASSUME Typed, Holds, [Next]_vars,
         \A o \in Orders : order'[o].status = "PAID" =>
            order[o].status = "PAID" \/ hold'[o].status # "NONE",
         \A h \in Handlers : call'[h].at \in HasHold =>
            \/ call[h].at \in HasHold /\ call'[h].order = call[h].order
            \/ hold'[call'[h].order].status # "NONE"
  PROVE  Holds'
  <1>1. PaidMeansHeld'
    BY HoldStays DEF Holds, PaidMeansHeld
  <1>2. CallsHold'
    <2> SUFFICES ASSUME NEW h \in Handlers, call'[h].at \in HasHold
                 PROVE  hold'[call'[h].order].status # "NONE"
      BY DEF CallsHold
    <2>1. CASE call[h].at \in HasHold /\ call'[h].order = call[h].order
      <3>1. call[h].order \in Orders
        BY <2>1 DEF Typed, CallsNamed, HasHold
      <3>2. hold[call[h].order].status # "NONE"
        BY <2>1 DEF Holds, CallsHold
      <3> QED
        BY <2>1, <3>1, <3>2, HoldStays
    <2> QED
      BY <2>1
  <1> QED
    BY <1>1, <1>2 DEF Holds

LEMMA HoldsStep == Typed /\ Holds /\ [Next]_vars => Holds'
  <1> SUFFICES ASSUME Typed, Holds, [Next]_vars PROVE Holds'
    OBVIOUS
  <1>0. /\ order \in [Orders -> OrderRow] /\ hold \in [Orders -> HoldRow]
        /\ call \in [Handlers -> CallType]
    BY DEF Typed, TypeOK, CallType, OrderRow, TermsRow, HoldRow
  <1>1. ASSUME NEW h \in Handlers, NEW at \in Label \ {"idle"}, NEW next \in Label,
               Proceed(h, at, next), next \in HasHold => at \in HasHold,
               \A o \in Orders : order'[o].status = "PAID" =>
                   order[o].status = "PAID" \/ hold'[o].status # "NONE"
        PROVE  Holds'
    <2>1. \A g \in Handlers : call'[g].at \in HasHold =>
             call[g].at \in HasHold /\ call'[g].order = call[g].order
      BY <1>1, ProceedKeeps DEF HasHold
    <2> QED
      BY <1>1, <2>1, HoldsKept
  <1>2. ASSUME NEW h \in Handlers, NEW at \in Label \ ({"idle", "setPaid"}),
               NEW status \in OrderStatus \ {"PAID"}, SetStatus(h, at, status)
        PROVE  Holds'
    <2>1. \A o \in Orders : order'[o].status = "PAID" => order[o].status = "PAID"
      BY <1>0, <1>2 DEF SetStatus, OrderRow
    <2> QED
      BY <1>1, <1>2, <2>1 DEF SetStatus, HasHold, Label
  <1>3. ASSUME NEW h \in Handlers, SetStatus(h, "setPaid", "PAID") PROVE Holds'
    <2>1. {"setPaid", "idle"} \subseteq Label /\ Proceed(h, "setPaid", "idle")
      BY <1>3 DEF SetStatus, Label
    <2>2. /\ call[h].order \in Orders
          /\ hold[call[h].order].status # "NONE"
      BY <2>1, ProceedKeeps DEF Holds, CallsHold, HasHold
    <2>3. \A o \in Orders : order'[o].status = "PAID" =>
             order[o].status = "PAID" \/ hold'[o].status # "NONE"
      BY <1>0, <1>3, <2>2 DEF SetStatus, OrderRow
    <2> QED
      BY <1>1, <2>1, <2>3 DEF HasHold
  <1>4. ASSUME NEW h \in Handlers, PayHold(h) PROVE Holds'
    <2>1. {"insertHold", "setPaid"} \subseteq Label /\ Proceed(h, "insertHold", "setPaid")
      BY <1>4 DEF PayHold, Label
    <2>2. /\ call[h].order \in Orders
          /\ call'[h].order = call[h].order
          /\ \A g \in Handlers : g # h => call'[g] = call[g]
      BY <2>1, ProceedKeeps
    <2>3. hold'[call[h].order].status = "HELD"
      BY <1>0, <1>4, <2>2 DEF PayHold, HoldOf
    <2> QED
      BY <1>4, <2>2, <2>3, HoldsKept DEF PayHold
  <1>5. ASSUME NEW h \in Handlers, PayEscrow(h) PROVE Holds'
    <2> DEFINE o == call[h].order
    <2>1. {"escrow", "setPaid"} \subseteq Label /\ Proceed(h, "escrow", "setPaid")
      BY <1>5 DEF PayEscrow, Label
    <2>2. /\ o \in Orders
          /\ call'[h].order = o
          /\ \A g \in Handlers : g # h => call'[g] = call[g]
      BY <2>1, ProceedKeeps
    <2>3. hold'[o].status # "NONE"
      BY <1>0, <1>5, <2>2 DEF PayEscrow, HoldFree, HoldOf
    <2>4. \A q \in Orders \ {o} : order'[q] = order[q]
      BY <1>0, <1>5 DEF PayEscrow
    <2> HIDE DEF o
    <2> QED
      BY <2>2, <2>3, <2>4, HoldsKept
  <1>6. ASSUME NEW h \in Handlers, ReleaseCommit(h) PROVE Holds'
    <2>1. {"releaseCommit", "setCompleted"} \subseteq Label
          /\ Proceed(h, "releaseCommit", "setCompleted")
      BY <1>6 DEF ReleaseCommit, Label
    <2>2. \A o \in Orders : order'[o].status = "PAID" => order[o].status = "PAID"
      BY <1>0, <1>6 DEF ReleaseCommit, OrderRow
    <2> QED
      BY <1>1, <2>1, <2>2 DEF HasHold
  <1>7. ASSUME NEW h \in Handlers, UpdateCommit(h) \/ AcceptCommit(h) \/ CreateDisputeCommit(h)
        PROVE  Holds'
    <2>1. PICK at \in {"update", "accept", "dispute"} : Proceed(h, at, "idle")
      BY <1>7 DEF UpdateCommit, AcceptCommit, CreateDisputeCommit
    <2>3. \A o \in Orders : order'[o].status \in {order[o].status, "PENDING_ACCEPT", "DISPUTED"}
      <3>1. CASE UpdateCommit(h) \/ AcceptCommit(h)
        BY <1>0, <3>1, Rewritten
      <3>2. CASE CreateDisputeCommit(h)
        BY <1>0, <3>2 DEF CreateDisputeCommit, OrderRow
      <3> QED
        BY <1>7, <3>1, <3>2
    <2>2. \A o \in Orders : order'[o].status = "PAID" => order[o].status = "PAID"
      BY <2>3
    <2> QED
      BY <1>1, <2>1, <2>2 DEF HasHold, Label
  <1>8. ASSUME NEW h \in Handlers,
               \/ PayLock(h) \/ TransferRead(h) \/ TransferDebit(h) \/ TransferCredit(h)
               \/ ResolveHold(h) \/ ReleaseRead(h) \/ DisputeRow(h)
        PROVE  Holds'
    <2>1. order' = order
      BY <1>8 DEF PayLock, TransferRead, TransferDebit, TransferCredit, ResolveHold,
                  ReleaseRead, DisputeRow
    <2>2. CASE PayLock(h)
      BY <1>1, <2>1, <2>2 DEF PayLock, HasHold, Label
    <2>3. CASE DisputeRow(h)
      BY <1>1, <2>1, <2>3 DEF DisputeRow, HasHold, Label
    <2>4. CASE TransferRead(h)
      BY <1>1, <2>1, <2>4 DEF TransferRead, HasHold, Label
    <2>5. CASE TransferDebit(h)
      BY <1>1, <2>1, <2>5 DEF TransferDebit, HasHold, Label
    <2>6. CASE TransferCredit(h)
      BY <1>1, <2>1, <2>6 DEF TransferCredit, HasHold, Label
    <2>7. CASE ResolveHold(h)
      BY <1>1, <2>1, <2>7 DEF ResolveHold, HasHold, Label
    <2>8. CASE ReleaseRead(h)
      BY <1>1, <2>1, <2>8 DEF ReleaseRead, HasHold, Label
    <2> QED
      BY <1>8, <2>2, <2>3, <2>4, <2>5, <2>6, <2>7, <2>8
  <1>9. ASSUME NEW h \in Handlers, Write(h) PROVE Holds'
    <2>1. /\ {"agree", "cancel", "setCompleted", "setDisputed"} \subseteq Label \ {"idle", "setPaid"}
          /\ {"ACCEPTED", "CANCELLED", "COMPLETED", "DISPUTED"} \subseteq OrderStatus \ {"PAID"}
      BY DEF Label, OrderStatus
    <2> QED
      BY <1>2, <1>3, <1>4, <1>5, <1>6, <1>7, <1>8, <1>9, <2>1 DEF Write
  <1>10. ASSUME NEW h \in Handlers, NEW o \in Orders, Arrival(h, o) PROVE Holds'
    <2>1. PICK at \in FirstSteps, user \in MaybeUser, terms \in TermsRow :
             Begin(h, o, at, user, terms) /\ Checked(o, at)
      BY <1>10, ArrivalBegins
    <2>2. /\ \A g \in Handlers : g # h => call'[g] = call[g]
          /\ call'[h].at = at /\ call'[h].order = o
      BY <2>1, BeginKeeps DEF FirstSteps, Label
    <2>3. order' = order /\ hold' = hold
      BY <2>1 DEF Begin
    <2>4. at \in HasHold => hold[o].status # "NONE"
      BY <2>1 DEF FirstSteps, HasHold, Checked, Holds, PaidMeansHeld
    <2> QED
      BY <2>2, <2>3, <2>4, HoldsKept
  <1>11. ASSUME NEW h \in Handlers, Abort(h) PROVE Holds'
    <2>1. call' = [call EXCEPT ![h] = Idle] /\ order' = order
      BY <1>11 DEF Abort
    <2>2. \A g \in Handlers : call'[g].at \in HasHold => call'[g] = call[g]
      BY <1>0, <2>1 DEF Idle, HasHold
    <2> QED
      BY <2>1, <2>2, HoldsKept
  <1>12. ASSUME NEW o \in Orders, NEW c \in MaybeUser, NEW t \in Terms, Create(o, c, t)
         PROVE  Holds'
    <2>1. \A q \in Orders : order'[q].status = "PAID" => order[q].status = "PAID"
      BY <1>0, <1>12 DEF Create, OrderRow
    <2> QED
      BY <1>12, <2>1, HoldsKept DEF Create
  <1>13. ASSUME NEW o \in Orders, Administration(o) PROVE Holds'
    <2>1. \A q \in Orders : order'[q].status = "PAID" => order[q].status = "PAID"
      BY <1>0, <1>13 DEF Administration, ForceCancel, Resolve, OrderRow
    <2>2. call' = call
      BY <1>13 DEF Administration, ForceCancel, Resolve
    <2> QED
      BY <2>1, <2>2, HoldsKept
  <1>14. CASE UNCHANGED vars
    BY <1>14, HoldsKept DEF vars
  <1> QED
    BY <1>9, <1>10, <1>11, <1>12, <1>13, <1>14 DEF Next

\* An order that says PAID has a hold, however the calls of all controllers overlap
\* and wherever they are cut short.
THEOREM PaidIsHeld == Spec => []PaidMeansHeld
  <1>1. Spec => [](Typed /\ Holds)
    BY TypedInit, TypedStep, HoldsInit, HoldsStep, PTL DEF Spec
  <1>2. Holds => PaidMeansHeld
    BY DEF Holds
  <1> QED
    BY <1>1, <1>2, PTL

----------------------------------------------------------------------------
(* Completed means released.                                               *)

CallsReleased ==
    \A h \in Handlers : call[h].at = "setCompleted" => hold[call[h].order].status = "RELEASED"

CompletedReleased ==
    \A o \in Orders : order[o].status = "COMPLETED" => hold[o].status = "RELEASED" \/ dispute[o]

AllReleased == CallsReleased /\ CompletedReleased

\* A dispute's row stays.
LEMMA DisputeStays ==
  ASSUME Typed, [Next]_vars, NEW o \in Orders, dispute[o]
  PROVE  dispute'[o]
  <1>1. dispute \in [Orders -> BOOLEAN]
    BY DEF Typed, TypeOK
  <1>2. dispute' = dispute \/ \E q : dispute' = [dispute EXCEPT ![q] = TRUE]
    <2>1. ASSUME NEW h \in Handlers, Write(h)
          PROVE  dispute' = dispute \/ \E q : dispute' = [dispute EXCEPT ![q] = TRUE]
      BY <2>1 DEF Write, UpdateCommit, AcceptCommit, SetStatus, PayLock, PayHold, PayEscrow,
           TransferRead, TransferDebit, TransferCredit, ResolveHold, ReleaseRead, ReleaseCommit,
           DisputeRow, CreateDisputeCommit
    <2>2. ASSUME NEW h \in Handlers, NEW q \in Orders, Arrival(h, q) PROVE dispute' = dispute
      BY <2>2, ArrivalBegins DEF Begin
    <2> QED
      BY <2>1, <2>2 DEF Next, Abort, Create, Administration, ForceCancel, Resolve, vars
  <1> QED
    BY <1>1, <1>2

LEMMA ReleasedInit == Init => AllReleased
  BY DEF Init, AllReleased, CallsReleased, CompletedReleased, NoOrder, Idle

LEMMA ReleasedKept ==
  ASSUME Typed, AllReleased, [Next]_vars,
         \A o \in Orders : order'[o].status = "COMPLETED" =>
            order[o].status = "COMPLETED" \/ hold'[o].status = "RELEASED" \/ dispute[o],
         \A h \in Handlers : call'[h].at = "setCompleted" =>
            \/ call[h].at = "setCompleted" /\ call'[h].order = call[h].order
            \/ hold'[call'[h].order].status = "RELEASED"
  PROVE  AllReleased'
  <1>1. CompletedReleased'
    BY HoldStays, DisputeStays DEF AllReleased, CompletedReleased
  <1>2. CallsReleased'
    <2> SUFFICES ASSUME NEW h \in Handlers, call'[h].at = "setCompleted"
                 PROVE  hold'[call'[h].order].status = "RELEASED"
      BY DEF CallsReleased
    <2>1. CASE call[h].at = "setCompleted" /\ call'[h].order = call[h].order
      <3>1. call[h].order \in Orders
        BY <2>1 DEF Typed, CallsNamed
      <3>2. hold[call[h].order].status = "RELEASED"
        BY <2>1 DEF AllReleased, CallsReleased
      <3> QED
        BY <2>1, <3>1, <3>2, HoldStays
    <2> QED
      BY <2>1
  <1> QED
    BY <1>1, <1>2 DEF AllReleased

LEMMA ReleasedStep ==
  ASSUME "deliveries" \notin Routes
  PROVE  Typed /\ Holds /\ AllReleased /\ [Next]_vars => AllReleased'
  <1> SUFFICES ASSUME Typed, Holds, AllReleased, [Next]_vars PROVE AllReleased'
    OBVIOUS
  <1>0. /\ order \in [Orders -> OrderRow] /\ hold \in [Orders -> HoldRow]
        /\ call \in [Handlers -> CallType]
    BY DEF Typed, TypeOK, CallType, OrderRow, TermsRow, HoldRow
  <1>1. ASSUME NEW h \in Handlers, NEW at \in Label \ {"idle"},
               NEW next \in Label \ {"setCompleted"}, Proceed(h, at, next),
               \A o \in Orders : order'[o].status = "COMPLETED" =>
                   order[o].status = "COMPLETED" \/ hold'[o].status = "RELEASED"
        PROVE  AllReleased'
    <2>1. \A g \in Handlers : call'[g].at = "setCompleted" => call'[g] = call[g]
      BY <1>1, ProceedKeeps
    <2> QED
      BY <1>1, <2>1, ReleasedKept
  <1>2. ASSUME NEW h \in Handlers, NEW at \in Label \ {"idle"},
               NEW status \in OrderStatus \ {"COMPLETED"}, SetStatus(h, at, status)
        PROVE  AllReleased'
    <2>1. \A o \in Orders : order'[o].status = "COMPLETED" => order[o].status = "COMPLETED"
      BY <1>0, <1>2 DEF SetStatus, OrderRow
    <2> QED
      BY <1>1, <1>2, <2>1 DEF SetStatus, Label
  <1>3. ASSUME NEW h \in Handlers, SetStatus(h, "setCompleted", "COMPLETED") PROVE AllReleased'
    <2>1. {"setCompleted", "idle"} \subseteq Label /\ Proceed(h, "setCompleted", "idle")
      BY <1>3 DEF SetStatus, Label
    <2>2. /\ call[h].order \in Orders
          /\ hold[call[h].order].status = "RELEASED"
      BY <2>1, ProceedKeeps DEF AllReleased, CallsReleased
    <2>3. \A o \in Orders : order'[o].status = "COMPLETED" =>
             order[o].status = "COMPLETED" \/ hold'[o].status = "RELEASED"
      BY <1>0, <1>3, <2>2 DEF SetStatus, OrderRow
    <2> QED
      BY <1>1, <2>1, <2>3
  <1>4. ASSUME NEW h \in Handlers, ResolveHold(h) \/ ReleaseCommit(h) PROVE AllReleased'
    <2> DEFINE o == call[h].order
    <2>1. PICK at \in {"resolveHold", "releaseCommit"} : Proceed(h, at, "setCompleted")
      BY <1>4 DEF ResolveHold, ReleaseCommit
    <2>2. /\ o \in Orders
          /\ call[h].at = at
          /\ call'[h].order = o
          /\ \A g \in Handlers : g # h => call'[g] = call[g]
      BY <2>1, ProceedKeeps DEF Label
    <2>3. hold[o].status # "NONE"
      BY <2>2 DEF Holds, CallsHold, HasHold
    <2>4. hold'[o].status = "RELEASED"
      <3>1. hold' = [hold EXCEPT ![o].status = "RELEASED"]
        BY <1>4, <2>3 DEF ResolveHold, ReleaseCommit
      <3> HIDE DEF o
      <3> QED
        BY <1>0, <2>2, <3>1 DEF HoldRow
    <2>5. \A q \in Orders \ {o} : order'[q] = order[q]
      BY <1>0, <1>4 DEF ResolveHold, ReleaseCommit
    <2> HIDE DEF o
    <2> QED
      BY <2>2, <2>4, <2>5, ReleasedKept
  <1>5. ASSUME NEW h \in Handlers, PayEscrow(h) PROVE AllReleased'
    <2>1. \A o \in Orders : order'[o].status = "COMPLETED" => order[o].status = "COMPLETED"
      BY <1>0, <1>5 DEF PayEscrow, OrderRow
    <2> QED
      BY <1>1, <1>5, <2>1 DEF PayEscrow, Label
  <1>6. ASSUME NEW h \in Handlers, UpdateCommit(h) \/ AcceptCommit(h) \/ CreateDisputeCommit(h)
        PROVE  AllReleased'
    <2>1. PICK at \in {"update", "accept", "dispute"} : Proceed(h, at, "idle")
      BY <1>6 DEF UpdateCommit, AcceptCommit, CreateDisputeCommit
    <2>3. \A o \in Orders : order'[o].status \in {order[o].status, "PENDING_ACCEPT", "DISPUTED"}
      <3>1. CASE UpdateCommit(h) \/ AcceptCommit(h)
        BY <1>0, <3>1, Rewritten
      <3>2. CASE CreateDisputeCommit(h)
        BY <1>0, <3>2 DEF CreateDisputeCommit, OrderRow
      <3> QED
        BY <1>6, <3>1, <3>2
    <2>2. \A o \in Orders : order'[o].status = "COMPLETED" => order[o].status = "COMPLETED"
      BY <2>3
    <2> QED
      BY <1>1, <2>1, <2>2 DEF Label
  <1>7. ASSUME NEW h \in Handlers,
               \/ PayLock(h) \/ PayHold(h) \/ TransferRead(h) \/ TransferDebit(h)
               \/ TransferCredit(h) \/ ReleaseRead(h) \/ DisputeRow(h)
        PROVE  AllReleased'
    <2>1. order' = order
      BY <1>7 DEF PayLock, PayHold, TransferRead, TransferDebit, TransferCredit, ReleaseRead,
                  DisputeRow
    <2>2. CASE PayLock(h)
      BY <1>1, <2>1, <2>2 DEF PayLock, Label
    <2>3. CASE DisputeRow(h)
      BY <1>1, <2>1, <2>3 DEF DisputeRow, Label
    <2>4. CASE TransferRead(h)
      BY <1>1, <2>1, <2>4 DEF TransferRead, Label
    <2>5. CASE TransferDebit(h)
      BY <1>1, <2>1, <2>5 DEF TransferDebit, Label
    <2>6. CASE TransferCredit(h)
      BY <1>1, <2>1, <2>6 DEF TransferCredit, Label
    <2>7. CASE PayHold(h)
      BY <1>1, <2>1, <2>7 DEF PayHold, Label
    <2>8. CASE ReleaseRead(h)
      BY <1>1, <2>1, <2>8 DEF ReleaseRead, Label
    <2> QED
      BY <1>7, <2>2, <2>3, <2>4, <2>5, <2>6, <2>7, <2>8
  <1>8. ASSUME NEW h \in Handlers, Write(h) PROVE AllReleased'
    <2>1. /\ {"agree", "cancel", "setPaid", "setDisputed"} \subseteq Label \ {"idle"}
          /\ {"ACCEPTED", "CANCELLED", "PAID", "DISPUTED"} \subseteq OrderStatus \ {"COMPLETED"}
      BY DEF Label, OrderStatus
    <2> QED
      BY <1>2, <1>3, <1>4, <1>5, <1>6, <1>7, <1>8, <2>1 DEF Write
  <1>9. ASSUME NEW h \in Handlers, NEW o \in Orders, Arrival(h, o) PROVE AllReleased'
    <2>1. PICK at \in FirstSteps, user \in MaybeUser, terms \in TermsRow :
             Begin(h, o, at, user, terms) /\ Checked(o, at)
      BY <1>9, ArrivalBegins
    <2>2. /\ \A g \in Handlers : g # h => call'[g] = call[g]
          /\ call'[h].at # "setCompleted"
      BY <2>1, BeginKeeps DEF FirstSteps, Label, Checked
    <2>3. order' = order
      BY <2>1 DEF Begin
    <2> QED
      BY <2>2, <2>3, ReleasedKept
  <1>10. ASSUME NEW h \in Handlers, Abort(h) PROVE AllReleased'
    <2>1. call' = [call EXCEPT ![h] = Idle] /\ order' = order
      BY <1>10 DEF Abort
    <2>2. \A g \in Handlers : call'[g].at = "setCompleted" => call'[g] = call[g]
      BY <1>0, <2>1 DEF Idle
    <2> QED
      BY <2>1, <2>2, ReleasedKept
  <1>11. ASSUME NEW o \in Orders, NEW c \in MaybeUser, NEW t \in Terms, Create(o, c, t)
         PROVE  AllReleased'
    <2>1. \A q \in Orders : order'[q].status = "COMPLETED" => order[q].status = "COMPLETED"
      BY <1>0, <1>11 DEF Create, OrderRow
    <2> QED
      BY <1>11, <2>1, ReleasedKept DEF Create
  <1>12. ASSUME NEW o \in Orders, Administration(o) PROVE AllReleased'
    <2>1. \A q \in Orders : order'[q].status = "COMPLETED" =>
             order[q].status = "COMPLETED" \/ dispute[q]
      BY <1>0, <1>12 DEF Administration, ForceCancel, Resolve, OrderRow
    <2>2. call' = call
      BY <1>12 DEF Administration, ForceCancel, Resolve
    <2> QED
      BY <2>1, <2>2, ReleasedKept
  <1>13. CASE UNCHANGED vars
    BY <1>13, ReleasedKept DEF vars
  <1> QED
    BY <1>8, <1>9, <1>10, <1>11, <1>12, <1>13 DEF Next

\* As long as no delivery is confirmed by its own controller: an order is completed
\* only with its hold released or after a dispute, however the calls of the other
\* controllers and the administrators overlap and wherever they are cut short.
THEOREM CompletedIsReleased ==
  ASSUME "deliveries" \notin Routes
  PROVE  Spec => []CompletedMeansReleased
  <1>1. Spec => [](Typed /\ Holds /\ AllReleased)
    BY TypedInit, TypedStep, HoldsInit, HoldsStep, ReleasedInit, ReleasedStep, PTL DEF Spec
  <1>2. AllReleased => CompletedMeansReleased
    BY DEF AllReleased, CompletedReleased, CompletedMeansReleased, Released
  <1> QED
    BY <1>1, <1>2, PTL

----------------------------------------------------------------------------
(* What a write does, by the step its call is at.                          *)

\* No two calls about one order.
AloneOnOrder ==
    \A g, h \in Handlers :
        call[g].at # "idle" /\ call[h].at # "idle" /\ call[g].order = call[h].order => g = h

\* A write is about the order of its call, and ends the call or leaves it past the
\* steps that need a waiting order.
LEMMA WriteIsOwn ==
  ASSUME Typed, NEW h \in Handlers, Write(h)
  PROVE  /\ call[h].at # "idle" /\ call[h].order \in Orders
         /\ \A g \in Handlers : g # h => call'[g] = call[g]
         /\ \/ call'[h].at = "idle"
            \/ /\ call'[h].order = call[h].order
               /\ call'[h].at \notin {"update", "accept"}
         /\ \A o \in Orders : o # call[h].order => order'[o] = order[o]
         /\ order'[call[h].order].status \in {"NONE", "WAITING_COUNTERPARTY"} =>
               /\ order[call[h].order].status = order'[call[h].order].status
               /\ order'[call[h].order].counterparty = order[call[h].order].counterparty
         /\ ~UpdateCommit(h) /\ ~AcceptCommit(h) =>
               /\ order'[call[h].order].counterparty = order[call[h].order].counterparty
               /\ order'[call[h].order].amount = order[call[h].order].amount
               /\ order'[call[h].order].fee = order[call[h].order].fee
  <1>0. order \in [Orders -> OrderRow]
    BY DEF Typed, TypeOK, OrderRow
  <1> DEFINE o == call[h].order
             After(next) ==
                /\ call[h].at # "idle" /\ o \in Orders
                /\ \A g \in Handlers : g # h => call'[g] = call[g]
                /\ call'[h].at = next
                /\ next # "idle" => call'[h].order = o
  <1>1. ASSUME NEW at \in Label \ {"idle"}, NEW next \in Label, Proceed(h, at, next)
        PROVE  After(next)
    BY <1>1, ProceedKeeps
  <1> USE DEF Label
  <1>2. ASSUME NEW at \in Label \ {"idle"},
               NEW status \in {"ACCEPTED", "CANCELLED", "PAID", "COMPLETED", "DISPUTED"},
               SetStatus(h, at, status)
        PROVE  /\ After("idle")
               /\ order' = [order EXCEPT ![o].status = status]
    BY <1>1, <1>2 DEF SetStatus
  <1>3. CASE \E at \in {"agree", "cancel", "setPaid", "setCompleted", "setDisputed"},
                status \in {"ACCEPTED", "CANCELLED", "PAID", "COMPLETED", "DISPUTED"} :
                SetStatus(h, at, status)
    <2>1. PICK status \in {"ACCEPTED", "CANCELLED", "PAID", "COMPLETED", "DISPUTED"} :
             After("idle") /\ order' = [order EXCEPT ![o].status = status]
      BY <1>2, <1>3
    <2> QED
      BY <1>0, <2>1 DEF OrderRow
  <1>4. CASE UpdateCommit(h)
    <2>1. After("idle")
      BY <1>1, <1>4 DEF UpdateCommit
    <2> QED
      BY <1>0, <1>4, <2>1 DEF UpdateCommit, Revise, OrderRow
  <1>5. CASE AcceptCommit(h)
    <2>1. After("idle")
      BY <1>1, <1>5 DEF AcceptCommit
    <2> QED
      BY <1>0, <1>5, <2>1 DEF AcceptCommit, Revise, OrderRow
  <1>6. CASE CreateDisputeCommit(h)
    <2>1. After("idle")
      BY <1>1, <1>6 DEF CreateDisputeCommit
    <2> QED
      BY <1>0, <1>6, <2>1 DEF CreateDisputeCommit, OrderRow
  <1>7. CASE PayEscrow(h)
    <2>1. After("setPaid")
      BY <1>1, <1>7 DEF PayEscrow
    <2>2. order' = order \/ order' = [order EXCEPT ![o].status = "PAID"]
      BY <1>7 DEF PayEscrow
    <2> QED
      BY <1>0, <2>1, <2>2 DEF OrderRow
  <1>8. CASE ReleaseCommit(h)
    <2>1. After("setCompleted")
      BY <1>1, <1>8 DEF ReleaseCommit
    <2>2. order' = [order EXCEPT ![o].status = "COMPLETED"]
      BY <1>8 DEF ReleaseCommit
    <2> QED
      BY <1>0, <2>1, <2>2 DEF OrderRow
  <1>9. ASSUME NEW at \in Label \ {"idle"}, NEW next \in Label \ {"update", "accept"},
               Proceed(h, at, next), order' = order, order \in [Orders -> OrderRow]
        PROVE  /\ After(next)
               /\ call'[h].at \notin {"update", "accept"}
    BY <1>1, <1>9
  <1>10. CASE \/ PayLock(h) \/ PayHold(h) \/ TransferRead(h) \/ TransferDebit(h)
              \/ TransferCredit(h) \/ ResolveHold(h) \/ ReleaseRead(h) \/ DisputeRow(h)
    <2>1. order' = order
      BY <1>10 DEF PayLock, PayHold, TransferRead, TransferDebit, TransferCredit, ResolveHold,
                   ReleaseRead, DisputeRow
    <2>2. PICK at \in Label \ {"idle"}, next \in Label \ {"update", "accept"} :
             Proceed(h, at, next)
      BY <1>10 DEF PayLock, PayHold, TransferRead, TransferDebit, TransferCredit, ResolveHold,
                   ReleaseRead, DisputeRow
    <2>3. /\ After(next)
          /\ call'[h].at \notin {"update", "accept"}
      BY <1>0, <1>9, <2>1, <2>2
    <2> QED
      BY <1>0, <2>1, <2>3 DEF OrderRow
  <1> QED
    BY <1>3, <1>4, <1>5, <1>6, <1>7, <1>8, <1>10 DEF Write

NextOf(at) ==
    CASE at = "lock"          -> "insertHold"
      [] at \in {"insertHold", "escrow"} -> "setPaid"
      [] at = "transfer"      -> "debit"
      [] at = "debit"         -> "credit"
      [] at = "credit"        -> "resolveHold"
      [] at = "release"       -> "releaseCommit"
      [] at \in {"resolveHold", "releaseCommit"} -> "setCompleted"
      [] at = "disputeRow"    -> "setDisputed"
      [] OTHER                -> "idle"

\* The order and the hold that a write of the call c leaves of row and k.
OrderAfter(c, row, k) ==
    CASE c.at = "update" /\ c.row.status = "WAITING_COUNTERPARTY"
                         -> [row EXCEPT !.amount = c.terms.amount, !.fee = c.terms.fee]
      [] c.at = "accept" -> [row EXCEPT !.status = "PENDING_ACCEPT", !.counterparty = c.user]
      [] c.at = "agree"  -> [row EXCEPT !.status = "ACCEPTED"]
      [] c.at = "cancel" -> [row EXCEPT !.status = "CANCELLED"]
      [] c.at = "setPaid" \/ (c.at = "escrow" /\ k.status = "NONE")
                         -> [row EXCEPT !.status = "PAID"]
      [] c.at \in {"setCompleted", "releaseCommit"} -> [row EXCEPT !.status = "COMPLETED"]
      [] c.at \in {"setDisputed", "dispute"}        -> [row EXCEPT !.status = "DISPUTED"]
      [] OTHER           -> row

HoldAfter(c, k) ==
    CASE c.at = "insertHold" -> HoldOf(c.order, c.row, "HELD", TotalToPay(c.order, c.row))
      [] c.at = "escrow" /\ k.status = "NONE" -> HoldOf(c.order, c.row, "ACTIVE", c.row.amount)
      [] c.at = "releaseCommit" \/ (c.at = "resolveHold" /\ k.status # "NONE")
                             -> [k EXCEPT !.status = "RELEASED"]
      [] OTHER               -> k

ByWrite(h) ==
    LET c == call[h]  o == c.order IN
    /\ c.at # "idle"
    /\ call' = [call EXCEPT ![h] = IF NextOf(c.at) = "idle" THEN Idle
                                   ELSE [c EXCEPT !.at = NextOf(c.at)]]
    /\ order' = [order EXCEPT ![o] = OrderAfter(c, @, hold[o])]
    /\ hold' = [hold EXCEPT ![o] = HoldAfter(c, @)]
    /\ c.at = "insertHold" => hold[o].status = "NONE"

LEMMA WriteDoes ==
  ASSUME Typed, NEW h \in Handlers, Write(h)
  PROVE  ByWrite(h)
  <1>0. /\ order \in [Orders -> OrderRow] /\ hold \in [Orders -> HoldRow]
        /\ call \in [Handlers -> CallType]
    BY DEF Typed, TypeOK, CallType, OrderRow, TermsRow, HoldRow
  <1> DEFINE c == call[h]
             o == c.order
             Plain == order' = order /\ hold' = hold
  <1>1. ASSUME NEW at \in Label \ {"idle"}, NEW next \in Label, Proceed(h, at, next),
               next = NextOf(at), order' = [order EXCEPT ![o] = OrderAfter(c, @, hold[o])],
               hold' = [hold EXCEPT ![o] = HoldAfter(c, @)],
               c.at = "insertHold" => hold[o].status = "NONE"
        PROVE  ByWrite(h)
    BY <1>1 DEF ByWrite, Proceed
  <1>2. ASSUME NEW at \in Label, Proceed(h, at, NextOf(at)), order' = order,
               at \in {"lock", "transfer", "debit", "credit", "release", "disputeRow"},
               hold' = hold
        PROVE  ByWrite(h)
    <2>1. c.at = at
      BY <1>2 DEF Proceed
    <2>2. OrderAfter(c, order[o], hold[o]) = order[o] /\ HoldAfter(c, hold[o]) = hold[o]
      BY <1>2, <2>1 DEF OrderAfter, HoldAfter
    <2>3. /\ order' = [order EXCEPT ![o] = OrderAfter(c, order[o], hold[o])]
          /\ hold' = [hold EXCEPT ![o] = HoldAfter(c, hold[o])]
      <3> HIDE DEF o, c
      <3> QED
        BY <1>0, <1>2, <2>2
    <2>4. NextOf(at) \in Label /\ at # "idle" /\ at # "insertHold"
      BY <1>2 DEF NextOf, Label
    <2> QED
      BY <1>1, <1>2, <2>1, <2>3, <2>4
  <1>3. CASE PayLock(h) \/ TransferRead(h) \/ TransferDebit(h) \/ TransferCredit(h)
             \/ ReleaseRead(h) \/ DisputeRow(h)
    <2>1. PICK at \in {"lock", "transfer", "debit", "credit", "release", "disputeRow"} :
             Proceed(h, at, NextOf(at))
      BY <1>3 DEF PayLock, TransferRead, TransferDebit, TransferCredit, ReleaseRead,
                  DisputeRow, NextOf
    <2>2. order' = order /\ hold' = hold /\ at \in Label
      BY <1>3 DEF PayLock, TransferRead, TransferDebit, TransferCredit, ReleaseRead,
                  DisputeRow, Label
    <2> QED
      BY <1>2, <2>1, <2>2
  <1>4. ASSUME NEW at \in {"update", "accept", "agree", "cancel", "setPaid", "setCompleted",
                           "setDisputed", "dispute"},
               Proceed(h, at, "idle"), hold' = hold,
               order' = [order EXCEPT ![o] = OrderAfter(c, order[o], hold[o])]
        PROVE  ByWrite(h)
    <2>1. c.at = at
      BY <1>4 DEF Proceed
    <2>2. HoldAfter(c, hold[o]) = hold[o]
      BY <1>4, <2>1 DEF HoldAfter
    <2>3. hold' = [hold EXCEPT ![o] = HoldAfter(c, hold[o])]
      <3> HIDE DEF o, c
      <3> QED
        BY <1>0, <1>4, <2>2
    <2>4. NextOf(at) = "idle" /\ "idle" \in Label /\ at \in Label \ {"idle"}
      BY <1>4 DEF NextOf, Label
    <2> QED
      BY <1>1, <1>4, <2>1, <2>3, <2>4
  <1>5. CASE UpdateCommit(h)
    <2>1. c.at = "update" /\ Proceed(h, "update", "idle")
      BY <1>5 DEF UpdateCommit, Proceed
    <2>2. /\ hold' = hold
          /\ order' = [order EXCEPT ![o] =
               IF c.row.status = "WAITING_COUNTERPARTY"
               THEN [@ EXCEPT !.amount = c.terms.amount, !.fee = c.terms.fee] ELSE @]
      BY <1>0, <1>5 DEF UpdateCommit, Revise, OrderRow
    <2>3. OrderAfter(c, order[o], hold[o]) =
               IF c.row.status = "WAITING_COUNTERPARTY"
               THEN [order[o] EXCEPT !.amount = c.terms.amount, !.fee = c.terms.fee]
               ELSE order[o]
      BY <2>1 DEF OrderAfter
    <2> QED
      BY <1>4, <2>1, <2>2, <2>3
  <1>6. CASE AcceptCommit(h)
    <2>1. c.at = "accept" /\ Proceed(h, "accept", "idle")
      BY <1>6 DEF AcceptCommit, Proceed
    <2>2. order' = [order EXCEPT ![o] = [@ EXCEPT !.status = "PENDING_ACCEPT", !.counterparty = c.user]]
          /\ hold' = hold
      BY <1>0, <1>6 DEF AcceptCommit, Revise, OrderRow
    <2> QED
      BY <1>4, <2>1, <2>2 DEF OrderAfter
  <1>7. ASSUME NEW at \in {"agree", "cancel", "setPaid", "setCompleted", "setDisputed"}, NEW status,
               SetStatus(h, at, status),
               [order[o] EXCEPT !.status = status] = OrderAfter([c EXCEPT !.at = at], order[o], hold[o])
        PROVE  ByWrite(h)
    <2>1. c.at = at /\ Proceed(h, at, "idle") /\ hold' = hold
      BY <1>7 DEF SetStatus, Proceed
    <2>2. order' = [order EXCEPT ![o] = [order[o] EXCEPT !.status = status]]
      BY <1>7 DEF SetStatus
    <2>3. OrderAfter([c EXCEPT !.at = at], order[o], hold[o]) = OrderAfter(c, order[o], hold[o])
      <3>1. [c EXCEPT !.at = at] = c
        BY <1>0, <2>1 DEF CallType
      <3> HIDE DEF c
      <3> QED
        BY <3>1
    <2> HIDE DEF o, c
    <2> QED
      BY <1>4, <1>7, <2>1, <2>2, <2>3
  <1>8. CASE \/ SetStatus(h, "agree", "ACCEPTED") \/ SetStatus(h, "cancel", "CANCELLED")
             \/ SetStatus(h, "setPaid", "PAID") \/ SetStatus(h, "setCompleted", "COMPLETED")
             \/ SetStatus(h, "setDisputed", "DISPUTED")
    <2>1. ASSUME NEW at \in {"agree", "cancel", "setPaid", "setCompleted", "setDisputed"}
          PROVE  [c EXCEPT !.at = at].at = at
      BY <1>0 DEF CallType
    <2> HIDE DEF o, c
    <2> QED
      BY <1>7, <1>8, <2>1 DEF OrderAfter
  <1>9. CASE CreateDisputeCommit(h)
    <2>1. c.at = "dispute" /\ Proceed(h, "dispute", "idle") /\ hold' = hold
      BY <1>9 DEF CreateDisputeCommit, Proceed
    <2>2. order' = [order EXCEPT ![o] = [@ EXCEPT !.status = "DISPUTED"]]
      BY <1>0, <1>9 DEF CreateDisputeCommit
    <2> QED
      BY <1>4, <2>1, <2>2 DEF OrderAfter
  <1>10. CASE PayHold(h)
    <2>1. c.at = "insertHold" /\ Proceed(h, "insertHold", "setPaid") /\ hold[o].status = "NONE"
      BY <1>10 DEF PayHold, Proceed, Allowed, HoldFree
    <2>2. /\ order' = order
          /\ hold' = [hold EXCEPT ![o] = HoldOf(o, c.row, "HELD", TotalToPay(o, c.row))]
      BY <1>10 DEF PayHold
    <2>3. OrderAfter(c, order[o], hold[o]) = order[o]
          /\ HoldAfter(c, hold[o]) = HoldOf(o, c.row, "HELD", TotalToPay(o, c.row))
      BY <2>1 DEF OrderAfter, HoldAfter
    <2>4. /\ order' = [order EXCEPT ![o] = OrderAfter(c, order[o], hold[o])]
          /\ hold' = [hold EXCEPT ![o] = HoldAfter(c, hold[o])]
      <3> HIDE DEF o, c
      <3> QED
        BY <1>0, <2>2, <2>3
    <2>5. NextOf("insertHold") = "setPaid" /\ {"insertHold", "setPaid"} \subseteq Label
      BY DEF NextOf, Label
    <2> HIDE DEF o, c
    <2> QED
      BY <1>1, <2>1, <2>4, <2>5
  <1>11. CASE PayEscrow(h)
    <2>1. c.at = "escrow" /\ Proceed(h, "escrow", "setPaid")
      BY <1>11 DEF PayEscrow, Proceed
    <2>2. CASE hold[o].status # "NONE"
      <3>1. order' = order /\ hold' = hold
        BY <1>11, <2>2 DEF PayEscrow, HoldFree
      <3>2. OrderAfter(c, order[o], hold[o]) = order[o] /\ HoldAfter(c, hold[o]) = hold[o]
        BY <2>1, <2>2 DEF OrderAfter, HoldAfter
      <3>4. /\ order' = [order EXCEPT ![o] = OrderAfter(c, order[o], hold[o])]
            /\ hold' = [hold EXCEPT ![o] = HoldAfter(c, hold[o])]
        <4> HIDE DEF o, c
        <4> QED
          BY <1>0, <3>1, <3>2
      <3>5. NextOf("escrow") = "setPaid" /\ {"escrow", "setPaid"} \subseteq Label
        BY DEF NextOf, Label
      <3> HIDE DEF o, c
      <3> QED
        BY <1>1, <2>1, <3>4, <3>5
    <2>3. CASE hold[o].status = "NONE"
      <3>1. /\ order' = [order EXCEPT ![o] = [@ EXCEPT !.status = "PAID"]]
            /\ hold' = [hold EXCEPT ![o] = HoldOf(o, c.row, "ACTIVE", c.row.amount)]
        BY <1>0, <1>11, <2>3 DEF PayEscrow, HoldFree
      <3>2. /\ OrderAfter(c, order[o], hold[o]) = [order[o] EXCEPT !.status = "PAID"]
            /\ HoldAfter(c, hold[o]) = HoldOf(o, c.row, "ACTIVE", c.row.amount)
        BY <2>1, <2>3 DEF OrderAfter, HoldAfter
      <3>5. NextOf("escrow") = "setPaid" /\ {"escrow", "setPaid"} \subseteq Label
        BY DEF NextOf, Label
      <3> HIDE DEF o, c
      <3> QED
        BY <1>1, <2>1, <3>1, <3>2, <3>5
    <2> QED
      BY <2>2, <2>3
  <1>12. CASE ResolveHold(h)
    <2>1. c.at = "resolveHold" /\ Proceed(h, "resolveHold", "setCompleted") /\ order' = order
      BY <1>12 DEF ResolveHold, Proceed
    <2>2. hold' = IF hold[o].status = "NONE" THEN hold
                  ELSE [hold EXCEPT ![o] = [@ EXCEPT !.status = "RELEASED"]]
      BY <1>0, <1>12 DEF ResolveHold
    <2>3. /\ OrderAfter(c, order[o], hold[o]) = order[o]
          /\ HoldAfter(c, hold[o]) = IF hold[o].status = "NONE" THEN hold[o]
                                     ELSE [hold[o] EXCEPT !.status = "RELEASED"]
      BY <2>1 DEF OrderAfter, HoldAfter
    <2>4. /\ order' = [order EXCEPT ![o] = OrderAfter(c, order[o], hold[o])]
          /\ hold' = [hold EXCEPT ![o] = HoldAfter(c, hold[o])]
      <3> HIDE DEF o, c
      <3> QED
        BY <1>0, <2>1, <2>2, <2>3
    <2>5. NextOf("resolveHold") = "setCompleted" /\ {"resolveHold", "setCompleted"} \subseteq Label
      BY DEF NextOf, Label
    <2> HIDE DEF o, c
    <2> QED
      BY <1>1, <2>1, <2>4, <2>5
  <1>13. CASE ReleaseCommit(h)
    <2>1. c.at = "releaseCommit" /\ Proceed(h, "releaseCommit", "setCompleted")
      BY <1>13 DEF ReleaseCommit, Proceed
    <2>2. /\ order' = [order EXCEPT ![o] = [@ EXCEPT !.status = "COMPLETED"]]
          /\ hold' = [hold EXCEPT ![o] = [@ EXCEPT !.status = "RELEASED"]]
      BY <1>0, <1>13 DEF ReleaseCommit
    <2>3. /\ OrderAfter(c, order[o], hold[o]) = [order[o] EXCEPT !.status = "COMPLETED"]
          /\ HoldAfter(c, hold[o]) = [hold[o] EXCEPT !.status = "RELEASED"]
      BY <2>1 DEF OrderAfter, HoldAfter
    <2>5. NextOf("releaseCommit") = "setCompleted" /\ {"releaseCommit", "setCompleted"} \subseteq Label
      BY DEF NextOf, Label
    <2> HIDE DEF o, c
    <2> QED
      BY <1>1, <2>1, <2>2, <2>3, <2>5
  <1> QED
    BY <1>3, <1>5, <1>6, <1>8, <1>9, <1>10, <1>11, <1>12, <1>13 DEF Write

----------------------------------------------------------------------------
(* Parties and prices.                                                     *)

\* An order has a price above its fee and, once agreed upon, a counterparty; a
\* hold has both its parties.
OrderFair(row) ==
    /\ row.status # "NONE" => row.fee < row.amount
    /\ row.status \in {"PENDING_ACCEPT", "ACCEPTED", "PAID"} => row.counterparty \in Users

HoldFair(k) == k.status # "NONE" => k.buyer \in Users /\ k.seller \in Users

\* Steps of calls that only an order with a counterparty gets to.
HasParties == {"agree", "lock", "insertHold", "escrow", "setPaid", "transfer", "debit", "credit"}

\* A call about an order that has become row.
CallFair(c, row) ==
    c.at # "idle" =>
        /\ row.status # "NONE"
        /\ c.row.fee < c.row.amount
        /\ c.at = "update" => c.terms.fee < c.terms.amount
        /\ c.at = "accept" => c.user \in Users
        /\ c.at \in HasParties => c.row.counterparty \in Users /\ row.counterparty \in Users

Fair ==
    /\ \A o \in Orders : /\ OrderFair(order[o]) /\ HoldFair(hold[o])
                         /\ dispute[o] => order[o].status # "NONE"
    /\ \A h \in Handlers : CallFair(call[h], order[call[h].order])

LEMMA FairInit == Init => Fair
  BY DEF Init, Fair, OrderFair, HoldFair, CallFair, NoOrder, NoHold, Idle

\* What no step takes away from an order.
Grown(row, new) ==
    row.status # "NONE" =>
        /\ new.status # "NONE"
        /\ row.counterparty \in Users => new.counterparty \in Users

LEMMA CallStaysFair ==
  ASSUME NEW c, NEW row, NEW new, CallFair(c, row), Grown(row, new)
  PROVE  CallFair(c, new)
  BY DEF CallFair, Grown

LEMMA PartiesKnown ==
  ASSUME NEW o \in Orders, NEW row, row.counterparty \in Users
  PROVE  BuyerOf(o, row) \in Users /\ SellerOf(o, row) \in Users
  BY OrdersAssumption DEF OrdersAssumption, BuyerOf, SellerOf

LEMMA FairAfter ==
  ASSUME NEW c \in CallType, NEW row \in OrderRow, NEW k \in HoldRow, c.order \in Orders,
         c.at # "idle", OrderFair(row), HoldFair(k), CallFair(c, row),
         c.at = "releaseCommit" => k.status # "NONE"
  PROVE  /\ OrderFair(OrderAfter(c, row, k))
         /\ HoldFair(HoldAfter(c, k))
         /\ Grown(row, OrderAfter(c, row, k))
         /\ CallFair(c, OrderAfter(c, row, k))
         /\ NextOf(c.at) # "idle" =>
                CallFair([c EXCEPT !.at = NextOf(c.at)], OrderAfter(c, row, k))
  <1>1. OrderFair(OrderAfter(c, row, k)) /\ Grown(row, OrderAfter(c, row, k))
    BY DEF OrderAfter, OrderFair, Grown, CallFair, OrderRow, CallType, HasParties, Label
  <1>2. HoldFair(HoldAfter(c, k))
    <2>1. CASE c.at \in {"insertHold", "escrow"}
      <3>1. BuyerOf(c.order, c.row) \in Users /\ SellerOf(c.order, c.row) \in Users
        BY <2>1, PartiesKnown DEF CallFair, HasParties
      <3> QED
        BY <2>1, <3>1 DEF HoldAfter, HoldFair, HoldOf
    <2>2. CASE c.at \notin {"insertHold", "escrow"}
      BY <2>2 DEF HoldAfter, HoldFair, HoldRow
    <2> QED
      BY <2>1, <2>2
  <1>3. CallFair(c, OrderAfter(c, row, k))
    BY <1>1, CallStaysFair
  <1>4. ASSUME NextOf(c.at) # "idle"
        PROVE  CallFair([c EXCEPT !.at = NextOf(c.at)], OrderAfter(c, row, k))
    <2> DEFINE new == OrderAfter(c, row, k)
    <2>1. /\ NextOf(c.at) \notin {"update", "accept"}
          /\ NextOf(c.at) \in HasParties => c.at \in HasParties
      BY <1>4 DEF NextOf, HasParties
    <2> HIDE DEF new
    <2> QED
      BY <1>3, <2>1 DEF CallFair, CallType
  <1> QED
    BY <1>1, <1>2, <1>3, <1>4

\* A step that keeps what each order and hold has to be and writes no call that
\* is not fair.
LEMMA FairKept ==
  ASSUME Typed, Fair, 
         \A o \in Orders : /\ OrderFair(order'[o]) /\ HoldFair(hold'[o])
                           /\ Grown(order[o], order'[o])
                           /\ dispute'[o] => dispute[o] \/ order'[o].status # "NONE",
         \A h \in Handlers : \/ call'[h] = call[h]
                             \/ CallFair(call'[h], order'[call'[h].order])
  PROVE  Fair'
  <1>1. ASSUME NEW h \in Handlers, call'[h] = call[h]
        PROVE  CallFair(call'[h], order'[call'[h].order])
    <2>1. CASE call[h].at = "idle"
      BY <1>1, <2>1 DEF CallFair
    <2>2. CASE call[h].at # "idle"
      <3>1. call[h].order \in Orders
        BY <2>2 DEF Typed, CallsNamed
      <3> QED
        BY <1>1, <3>1, CallStaysFair DEF Fair
    <2> QED
      BY <2>1, <2>2
  <1>2. \A h \in Handlers : CallFair(call'[h], order'[call'[h].order])
    BY <1>1
  <1>3. \A o \in Orders : dispute'[o] => order'[o].status # "NONE"
    BY DEF Fair, Grown
  <1> QED
    BY <1>2, <1>3 DEF Fair

LEMMA FairStep == Typed /\ Holds /\ Fair /\ [Next]_vars => Fair'
  <1> SUFFICES ASSUME Typed, Holds, Fair, [Next]_vars PROVE Fair'
    OBVIOUS
  <1>0. /\ order \in [Orders -> OrderRow] /\ hold \in [Orders -> HoldRow]
        /\ call \in [Handlers -> CallType]
    BY DEF Typed, TypeOK, CallType, OrderRow, TermsRow, HoldRow
  <1>a. \A q \in Orders : OrderFair(order[q]) /\ HoldFair(hold[q]) /\ Grown(order[q], order[q])
    BY DEF Fair, Grown
  <1>1. ASSUME NEW h \in Handlers, Write(h) PROVE Fair'
    <2> DEFINE c == call[h]
               o == c.order
               next == NextOf(c.at)
               row == OrderAfter(c, order[o], hold[o])
               k == HoldAfter(c, hold[o])
    <2>1. /\ c.at # "idle"
          /\ call' = [call EXCEPT ![h] = IF next = "idle" THEN Idle ELSE [c EXCEPT !.at = next]]
          /\ order' = [order EXCEPT ![o] = row]
          /\ hold' = [hold EXCEPT ![o] = k]
      BY <1>1, WriteDoes DEF ByWrite
    <2>2. o \in Orders
      BY <2>1 DEF Typed, CallsNamed
    <2>3. /\ OrderFair(row) /\ HoldFair(k) /\ Grown(order[o], row)
          /\ next # "idle" => CallFair([c EXCEPT !.at = next], row)
      <3>1. c.at = "releaseCommit" => hold[o].status # "NONE"
        BY DEF Holds, CallsHold, HasHold
      <3> QED
        BY <1>0, <2>1, <2>2, <3>1, FairAfter DEF Fair
    <2>4. CallFair(Idle, order'[Idle.order]) /\ [c EXCEPT !.at = next].order = o
      BY <1>0 DEF CallFair, Idle, CallType
    <2> HIDE DEF next, row, k
    <2>8. \A q \in Orders : dispute'[q] => dispute[q] \/ (q = o /\ order[o].status # "NONE")
      <3>1. dispute' = dispute \/ dispute' = [dispute EXCEPT ![o] = TRUE]
        BY <1>1 DEF Write, UpdateCommit, AcceptCommit, SetStatus, PayLock, PayHold, PayEscrow,
             TransferRead, TransferDebit, TransferCredit, ResolveHold, ReleaseRead, ReleaseCommit,
             DisputeRow, CreateDisputeCommit
      <3>2. order[o].status # "NONE"
        BY <2>1 DEF Fair, CallFair
      <3> HIDE DEF o
      <3> QED
        BY <3>1, <3>2 DEF Typed, TypeOK
    <2>5. \A q \in Orders : /\ OrderFair(order'[q]) /\ HoldFair(hold'[q])
                            /\ Grown(order[q], order'[q])
      <3> HIDE DEF o
      <3> QED
        BY <1>0, <1>a, <2>1, <2>2, <2>3
    <2>6. order'[o] = row
      <3> HIDE DEF o
      <3> QED
        BY <1>0, <2>1, <2>2
    <2>7. \A g \in Handlers : \/ call'[g] = call[g]
                              \/ CallFair(call'[g], order'[call'[g].order])
      <3> HIDE DEF c, o
      <3> QED
        BY <1>0, <2>1, <2>3, <2>4, <2>6
    <2> QED
      BY <2>3, <2>5, <2>6, <2>7, <2>8, FairKept DEF Grown
  <1>2. ASSUME NEW h \in Handlers, NEW o \in Orders, Arrival(h, o) PROVE Fair'
    <2>1. PICK at \in FirstSteps, user \in MaybeUser, terms \in TermsRow :
             /\ Begin(h, o, at, user, terms)
             /\ Checked(o, at) /\ Asked(at, user, terms)
      BY <1>2, ArrivalBegins
    <2> DEFINE c == [at |-> at, order |-> o, row |-> order[o], user |-> user, terms |-> terms]
    <2>2. /\ order' = order /\ hold' = hold /\ dispute' = dispute /\ order[o].status # "NONE"
          /\ call' = [call EXCEPT ![h] = c]
      BY <2>1 DEF Begin
    <2>3. at = "update" => terms.fee < terms.amount
      BY <2>1, OrdersAssumption DEF Asked, OrdersAssumption
    <2>4. at \in HasParties =>
             order[o].status \in {"PENDING_ACCEPT", "ACCEPTED", "PAID"}
      BY <2>1 DEF Checked, HasParties, FirstSteps
    <2>5. CallFair(c, order[o])
      BY <1>a, <2>1, <2>2, <2>3, <2>4 DEF CallFair, OrderFair, Asked
    <2>6. c.order = o
      OBVIOUS
    <2> HIDE DEF c
    <2>7. \A g \in Handlers : \/ call'[g] = call[g]
                              \/ CallFair(call'[g], order'[call'[g].order])
      BY <1>0, <2>2, <2>5, <2>6
    <2> QED
      BY <1>a, <2>2, <2>7, FairKept
  <1>3. ASSUME NEW h \in Handlers, Abort(h) PROVE Fair'
    <2>1. call' = [call EXCEPT ![h] = Idle] /\ order' = order /\ hold' = hold /\ dispute' = dispute
      BY <1>3 DEF Abort
    <2>2. CallFair(Idle, order'[Idle.order])
      BY DEF CallFair, Idle
    <2>3. \A g \in Handlers : \/ call'[g] = call[g]
                              \/ CallFair(call'[g], order'[call'[g].order])
      BY <1>0, <2>1, <2>2
    <2> QED
      BY <1>a, <2>1, <2>3, FairKept
  <1>4. ASSUME NEW o \in Orders, NEW p \in MaybeUser, NEW t \in Terms, Create(o, p, t)
        PROVE  Fair'
    <2>1. t.fee < t.amount
      BY OrdersAssumption DEF OrdersAssumption
    <2>2. /\ OrderFair(order'[o]) /\ order'[o].status # "NONE"
          /\ order[o].status = "NONE"
          /\ call' = call /\ hold' = hold /\ dispute' = dispute
      BY <1>0, <1>4, <2>1 DEF Create, OrderFair, MaybeUser
    <2>3. \A q \in Orders \ {o} : order'[q] = order[q]
      BY <1>0, <1>4 DEF Create
    <2> QED
      BY <1>a, <2>2, <2>3, FairKept DEF Grown
  <1>5. ASSUME NEW o \in Orders, Administration(o) PROVE Fair'
    <2>1. PICK status \in {"COMPLETED", "REFUNDED", "CANCELLED"} :
             order' = [order EXCEPT ![o].status = status]
      BY <1>5 DEF Administration, ForceCancel, Resolve
    <2>2. call' = call /\ hold' = hold /\ dispute' = dispute /\ order[o].status # "NONE"
      BY <1>5 DEF Administration, ForceCancel, Resolve, Fair
    <2>3. OrderFair(order'[o]) /\ Grown(order[o], order'[o])
      BY <1>0, <1>a, <2>1, <2>2 DEF OrderFair, Grown, OrderRow
    <2>4. \A q \in Orders \ {o} : order'[q] = order[q]
      BY <1>0, <2>1
    <2> QED
      BY <1>a, <2>2, <2>3, <2>4, FairKept
  <1>6. CASE UNCHANGED vars
    BY <1>6, <1>a, FairKept DEF vars
  <1> QED
    BY <1>1, <1>2, <1>3, <1>4, <1>5, <1>6 DEF Next

----------------------------------------------------------------------------
(* Money.                                                                  *)

\* What the writes do to wallets and fees, by the step the call is at.
MoneyAt(h) ==
    LET c == call[h]  o == c.order  k == hold[o]  share == k.amount - c.row.fee IN
    CASE c.at = "lock" ->
            /\ wallet' = [wallet EXCEPT ![BuyerOf(o, c.row)] = LockBalance(@, TotalToPay(o, c.row))]
            /\ fees' = fees
      [] c.at = "escrow" /\ k.status = "NONE" ->
            /\ wallet' = [wallet EXCEPT ![BuyerOf(o, c.row)] = LockBalance(@, c.row.amount)]
            /\ fees' = fees
      [] c.at = "debit" ->
            /\ wallet' = [wallet EXCEPT ![BuyerOf(o, c.row)] = TransferOut(@, SellerAmount(o, c.row))]
            /\ fees' = fees
      [] c.at = "credit" ->
            /\ wallet' = [wallet EXCEPT ![SellerOf(o, c.row)] = TransferIn(@, SellerAmount(o, c.row))]
            /\ fees' = fees
      [] c.at = "releaseCommit" ->
            /\ \E out, paid \in [Users -> Row] :
                  /\ out = [wallet EXCEPT ![k.buyer] = TransferOut(wallet[k.buyer], share)]
                  /\ paid = [out EXCEPT ![k.seller] = TransferIn(out[k.seller], share)]
                  /\ wallet' = [paid EXCEPT ![k.buyer] = TakeLocked(paid[k.buyer], c.row.fee)]
            /\ fees' = fees + c.row.fee
      [] OTHER -> wallet' = wallet /\ fees' = fees

LEMMA MoneyWritten ==
  ASSUME Typed, Holds, Fair, NEW h \in Handlers, Write(h)
  PROVE  MoneyAt(h)
  <1>0. wallet \in [Users -> Row] /\ hold \in [Orders -> HoldRow] /\ call \in [Handlers -> CallType]
    BY DEF Typed, TypeOK, CallType, OrderRow, TermsRow, HoldRow
  <1>1. CASE PayLock(h)
    BY <1>1 DEF PayLock, Proceed, MoneyAt
  <1>2. CASE PayEscrow(h)
    BY <1>2 DEF PayEscrow, Proceed, MoneyAt, HoldFree
  <1>3. CASE TransferDebit(h)
    BY <1>3 DEF TransferDebit, Proceed, MoneyAt
  <1>4. CASE TransferCredit(h)
    BY <1>4 DEF TransferCredit, Proceed, MoneyAt
  <1>5. CASE ReleaseCommit(h)
    <2> DEFINE c == call[h]
               k == hold[c.order]
               b == k.buyer
               s == k.seller
               share == k.amount - c.row.fee
               out == [wallet EXCEPT ![b] = TransferOut(wallet[b], share)]
               paid == [out EXCEPT ![s] = TransferIn(out[s], share)]
    <2>1. c.at = "releaseCommit"
      BY <1>5 DEF ReleaseCommit, Proceed
    <2>2. /\ wallet' = [paid EXCEPT ![b] = TakeLocked(paid[b], c.row.fee)]
          /\ fees' = fees + c.row.fee
      BY <1>5 DEF ReleaseCommit
    <2>3. b \in Users /\ s \in Users /\ share \in Int
      <3>1. c.order \in Orders /\ k.status # "NONE"
        BY <2>1 DEF Typed, CallsNamed, Holds, CallsHold, HasHold
      <3> QED
        BY <1>0, <3>1 DEF Fair, HoldFair, HoldRow, CallType, OrderRow
    <2> HIDE DEF b, s, share
    <2>4. out \in [Users -> Row]
      BY <1>0, <2>3, RowMoves
    <2>5. paid \in [Users -> Row]
      <3> HIDE DEF out
      <3> QED
        BY <2>3, <2>4, RowMoves
    <2>6. \E ot, pd \in [Users -> Row] :
             /\ ot = [wallet EXCEPT ![b] = TransferOut(wallet[b], share)]
             /\ pd = [ot EXCEPT ![s] = TransferIn(ot[s], share)]
             /\ wallet' = [pd EXCEPT ![b] = TakeLocked(pd[b], c.row.fee)]
      BY <2>2, <2>4, <2>5
    <2> QED
      BY <2>1, <2>2, <2>6 DEF MoneyAt, b, s, share
  <1>6. CASE /\ wallet' = wallet /\ fees' = fees
             /\ call[h].at \notin {"lock", "escrow", "debit", "credit", "releaseCommit"}
    BY <1>6 DEF MoneyAt
  <1>7. CASE \/ UpdateCommit(h) \/ AcceptCommit(h)
             \/ SetStatus(h, "agree", "ACCEPTED") \/ SetStatus(h, "cancel", "CANCELLED")
             \/ PayHold(h) \/ SetStatus(h, "setPaid", "PAID")
             \/ TransferRead(h) \/ ResolveHold(h)
             \/ ReleaseRead(h) \/ SetStatus(h, "setCompleted", "COMPLETED")
             \/ DisputeRow(h) \/ CreateDisputeCommit(h) \/ SetStatus(h, "setDisputed", "DISPUTED")
    BY <1>6, <1>7 DEF UpdateCommit, AcceptCommit, SetStatus, PayHold, TransferRead, ResolveHold,
                      ReleaseRead, DisputeRow, CreateDisputeCommit, Proceed
  <1> QED
    BY <1>1, <1>2, <1>3, <1>4, <1>5, <1>7 DEF Write

\* What changing one row of a table of wallets does to what they hold.
LEMMA RowMoved ==
  ASSUME NEW W \in [Users -> Row], NEW V \in [Users -> Row], NEW u \in Users,
         \A v \in Users \ {u} : V[v] = W[v]
  PROVE  Held(V) = Held(W) + V[u].balance - W[u].balance
  BY OneRowDiffers, OrdersAssumption DEF OrdersAssumption

\* A price above its fee leaves the seller something.
LEMMA SellerGets ==
  ASSUME NEW o \in Orders, NEW row \in OrderRow, row.fee < row.amount
  PROVE  SellerAmount(o, row) \in Nat
  <1>1. row.amount \in Nat /\ row.fee \in Nat /\ row.fee \div 2 \in Nat /\ row.fee \div 2 <= row.fee
    BY DEF OrderRow
  <1> QED
    BY <1>1 DEF SellerAmount

LEMMA TransitOf ==
  ASSUME NEW c \in CallType, NEW row, CallFair(c, row), c.at # "idle" => c.order \in Orders
  PROVE  InTransit(c) \in Nat
  BY SellerGets DEF InTransit, CallFair, CallType

LEMMA TransitTyped ==
  ASSUME Typed, Fair
  PROVE  \A h \in Handlers : InTransit(call[h]) \in Nat
  <1>1. call \in [Handlers -> CallType]
    BY DEF Typed, TypeOK, CallType, OrderRow, TermsRow
  <1> QED
    BY <1>1, TransitOf DEF Typed, CallsNamed, Fair

Carried == SumFunction([h \in Handlers |-> InTransit(call[h])])

\* A step of one call changes what the calls carry by what it puts down or takes up.
LEMMA CarriedBy ==
  ASSUME Typed, Fair, Typed', Fair', NEW h \in Handlers,
         \A g \in Handlers : g # h => call'[g] = call[g]
  PROVE  /\ Carried \in Nat
         /\ Carried' = Carried + InTransit(call'[h]) - InTransit(call[h])
  <1> DEFINE f == [g \in Handlers |-> InTransit(call[g])]
             F == [g \in Handlers |-> InTransit(call'[g])]
  <1>1. \A g \in Handlers : f[g] \in Nat /\ f[g] = InTransit(call[g])
    BY TransitTyped
  <1>2. call' \in [Handlers -> CallType]
    BY DEF Typed, TypeOK, CallType, OrderRow, TermsRow
  <1>3. \A g \in Handlers : F[g] \in Nat /\ F[g] = InTransit(call'[g])
    BY <1>2, TransitOf DEF Typed, CallsNamed, Fair
  <1>4. \A g \in Handlers \ {h} : F[g] = f[g]
    BY <1>1, <1>3
  <1>5. IsFiniteSet(Handlers) /\ DOMAIN f = Handlers /\ DOMAIN F = Handlers
    BY OrdersAssumption DEF OrdersAssumption
  <1>6. Carried = SumFunctionOnSet(f, Handlers)
    BY <1>5 DEF Carried, SumFunction
  <1>7. Carried' = SumFunctionOnSet(F, Handlers)
    BY <1>5 DEF Carried, SumFunction, InTransit
  <1> HIDE DEF f, F
  <1>8. Ints(f, Handlers)
    BY <1>1 DEF Ints
  <1>9. SumFunctionOnSet(F, Handlers) = SumFunctionOnSet(f, Handlers) + F[h] - f[h]
    BY <1>3, <1>4, <1>5, <1>8, SumChanges
  <1>10. SumFunctionOnSet(f, Handlers) \in Nat
    BY <1>1, <1>5, SumNat
  <1> QED
    BY <1>1, <1>3, <1>6, <1>7, <1>9, <1>10

LEMMA BooksTyped ==
  ASSUME Typed, Fair
  PROVE  Held(wallet) \in Int /\ Carried \in Nat /\ fees \in Nat
  <1>1. Held(wallet) \in Int
    BY HeldType, OrdersAssumption DEF OrdersAssumption, Typed, TypeOK
  <1>2. Carried \in Nat
    BY TransitTyped, SumNat, OrdersAssumption DEF Carried, SumFunction, OrdersAssumption
  <1> QED
    BY <1>1, <1>2 DEF Typed, TypeOK

\* A write moves money between wallets, calls and fees, and makes and loses none.
LEMMA WriteMoney ==
  ASSUME Typed, Holds, Fair, Typed', Fair', NEW h \in Handlers, Write(h)
  PROVE  Money' = Money
  <1> DEFINE c == call[h]
             o == c.order
             row == c.row
             next == NextOf(c.at)
             gets == SellerAmount(o, row)
             b == BuyerOf(o, row)
             s == SellerOf(o, row)
  <1>0. /\ wallet \in [Users -> Row] /\ hold \in [Orders -> HoldRow] /\ c \in CallType
        /\ o \in Orders /\ c.at # "idle"
    BY WriteIsOwn DEF Typed, TypeOK, CallType, OrderRow, TermsRow, HoldRow
  <1>1. /\ Held(wallet) \in Int /\ Carried \in Nat /\ fees \in Nat
        /\ Carried' = Carried + InTransit(call'[h]) - InTransit(c)
    BY BooksTyped, CarriedBy, WriteIsOwn
  <1>2. Money = Held(wallet) + Carried + fees /\ Money' = Held(wallet)' + Carried' + fees'
    BY DEF Money, Carried
  <1>3. MoneyAt(h)
    BY MoneyWritten
  <1>4. /\ call'[h] = IF next = "idle" THEN Idle ELSE [c EXCEPT !.at = next]
    <2>1. call \in [Handlers -> CallType]
      BY DEF Typed, TypeOK, CallType, OrderRow, TermsRow
    <2> QED
      BY <2>1, WriteDoes DEF ByWrite
  <1>5. InTransit(c) = (IF c.at = "credit" THEN gets ELSE 0)
    BY DEF InTransit
  <1>6. InTransit(call'[h]) = (IF c.at = "debit" THEN gets ELSE 0)
    <2>1. (next = "credit") <=> (c.at = "debit")
      BY DEF NextOf
    <2>2. next # "idle" => /\ call'[h].at = next /\ call'[h].order = o /\ call'[h].row = row
      BY <1>0, <1>4 DEF CallType
    <2>3. next = "idle" => call'[h].at = "idle"
      BY <1>4 DEF Idle
    <2> HIDE DEF next
    <2> QED
      BY <2>1, <2>2, <2>3 DEF InTransit
  <1>7. row \in OrderRow /\ TotalToPay(o, row) \in Nat /\ gets \in Int /\ row.amount \in Int
        /\ row.fee \in Nat
    BY <1>0, SumsTyped DEF CallType, OrderRow
  <1>8. c.at \in HasParties => b \in Users /\ s \in Users
    BY <1>0, PartiesKnown DEF Fair, CallFair
  <1>9. ASSUME NEW a \in Int, c.at \in {"lock", "escrow"}, fees' = fees,
               wallet' = [wallet EXCEPT ![b] = LockBalance(wallet[b], a)]
        PROVE  Money' = Money
    <2>1. b \in Users /\ wallet[b] \in Row
      BY <1>0, <1>8, <1>9 DEF HasParties
    <2>2. /\ LockBalance(wallet[b], a) \in Row
          /\ LockBalance(wallet[b], a).balance = wallet[b].balance
      BY <2>1, <1>9, RowMoves, Columns
    <2>3. Held(wallet') = Held(wallet)
      <3> HIDE DEF b, c
      <3>1. wallet[b].balance \in Int
        BY <2>1 DEF Row
      <3>29. /\ wallet' \in [Users -> Row] /\ wallet'[b] = LockBalance(wallet[b], a)
              /\ \A v \in Users \ {b} : wallet'[v] = wallet[v]
        BY <1>0, <1>9, <2>1, <2>2
      <3>2. Held(wallet') = Held(wallet) + LockBalance(wallet[b], a).balance - wallet[b].balance
        BY <1>0, <2>1, <2>2, <3>29, RowMoved
      <3> QED
        BY <1>1, <2>2, <3>1, <3>2
    <2> QED
      BY <1>1, <1>2, <1>5, <1>6, <1>9, <2>3
  <1>10. CASE c.at = "lock"
    <2>1. wallet' = [wallet EXCEPT ![b] = LockBalance(wallet[b], TotalToPay(o, row))] /\ fees' = fees
      BY <1>3, <1>10 DEF MoneyAt
    <2> DEFINE a == TotalToPay(o, row)
    <2>2. a \in Int
      BY <1>7
    <2> HIDE DEF a, b, c
    <2> QED
      BY <1>9, <1>10, <2>1, <2>2 DEF a
  <1>11. CASE c.at = "escrow" /\ hold[o].status = "NONE"
    <2>1. wallet' = [wallet EXCEPT ![b] = LockBalance(wallet[b], row.amount)] /\ fees' = fees
      BY <1>3, <1>11 DEF MoneyAt
    <2> QED
      BY <1>7, <1>9, <1>11, <2>1
  <1>12. CASE c.at = "debit"
    <2>1. wallet' = [wallet EXCEPT ![b] = TransferOut(wallet[b], gets)] /\ fees' = fees
      BY <1>3, <1>12 DEF MoneyAt
    <2>2. b \in Users /\ wallet[b] \in Row
      BY <1>0, <1>8, <1>12 DEF HasParties
    <2> HIDE DEF b, gets, c
    <2>3. /\ TransferOut(wallet[b], gets) \in Row
          /\ TransferOut(wallet[b], gets).balance = wallet[b].balance - gets
      BY <1>7, <2>2, RowMoves, Columns
    <2>49. /\ wallet' \in [Users -> Row] /\ wallet'[b] = TransferOut(wallet[b], gets)
            /\ \A v \in Users \ {b} : wallet'[v] = wallet[v]
      BY <1>0, <2>1, <2>2, <2>3
    <2>4. Held(wallet') = Held(wallet) + TransferOut(wallet[b], gets).balance - wallet[b].balance
      BY <1>0, <2>1, <2>2, <2>49, RowMoved
    <2>5. wallet[b].balance \in Int
      BY <2>2 DEF Row
    <2>6. Held(wallet') = Held(wallet) - gets
      BY <1>1, <1>7, <2>3, <2>4, <2>5
    <2> QED
      BY <1>1, <1>2, <1>5, <1>6, <1>7, <1>12, <2>1, <2>6
  <1>13. CASE c.at = "credit"
    <2>1. wallet' = [wallet EXCEPT ![s] = TransferIn(wallet[s], gets)] /\ fees' = fees
      BY <1>3, <1>13 DEF MoneyAt
    <2>2. s \in Users /\ wallet[s] \in Row
      BY <1>0, <1>8, <1>13 DEF HasParties
    <2> HIDE DEF s, gets, c
    <2>3. /\ TransferIn(wallet[s], gets) \in Row
          /\ TransferIn(wallet[s], gets).balance = wallet[s].balance + gets
      BY <1>7, <2>2, RowMoves, Columns
    <2>49. /\ wallet' \in [Users -> Row] /\ wallet'[s] = TransferIn(wallet[s], gets)
            /\ \A v \in Users \ {s} : wallet'[v] = wallet[v]
      BY <1>0, <2>1, <2>2, <2>3
    <2>4. Held(wallet') = Held(wallet) + TransferIn(wallet[s], gets).balance - wallet[s].balance
      BY <1>0, <2>1, <2>2, <2>49, RowMoved
    <2>5. wallet[s].balance \in Int
      BY <2>2 DEF Row
    <2>6. Held(wallet') = Held(wallet) + gets
      BY <1>1, <1>7, <2>3, <2>4, <2>5
    <2> QED
      BY <1>1, <1>2, <1>5, <1>6, <1>7, <1>13, <2>1, <2>6
  <1>14. CASE c.at = "releaseCommit"
    <2> DEFINE k == hold[o]
               share == k.amount - row.fee
               B == k.buyer
               S == k.seller
               fee == row.fee
    <2>1. /\ \E out, paid \in [Users -> Row] :
                /\ out = [wallet EXCEPT ![B] = TransferOut(wallet[B], share)]
                /\ paid = [out EXCEPT ![S] = TransferIn(out[S], share)]
                /\ wallet' = [paid EXCEPT ![B] = TakeLocked(paid[B], fee)]
          /\ fees' = fees + fee
      BY <1>3, <1>14 DEF MoneyAt
    <2>2. B \in Users /\ S \in Users /\ share \in Int /\ fee \in Int
      <3>1. k.status # "NONE"
        BY <1>0, <1>14 DEF Holds, CallsHold, HasHold
      <3> QED
        BY <1>0, <1>7, <3>1 DEF Fair, HoldFair, HoldRow
    <2> HIDE DEF B, S, share, fee, c
    <2>3. PICK out \in [Users -> Row], paid \in [Users -> Row] :
                /\ out = [wallet EXCEPT ![B] = TransferOut(wallet[B], share)]
                /\ paid = [out EXCEPT ![S] = TransferIn(out[S], share)]
                /\ wallet' = [paid EXCEPT ![B] = TakeLocked(paid[B], fee)]
      BY <2>1
    <2>4. Held(out) = Held(wallet) - share
      <3>1. wallet[B] \in Row /\ wallet[B].balance \in Int
        BY <1>0, <2>2 DEF Row
      <3>2. /\ TransferOut(wallet[B], share) \in Row
            /\ TransferOut(wallet[B], share).balance = wallet[B].balance - share
        BY <2>2, <3>1, RowMoves, Columns
      <3>39. /\ out \in [Users -> Row] /\ out[B] = TransferOut(wallet[B], share)
              /\ \A v \in Users \ {B} : out[v] = wallet[v]
        BY <1>0, <2>2, <2>3, <3>2
      <3>3. Held(out) = Held(wallet) + TransferOut(wallet[B], share).balance - wallet[B].balance
        BY <1>0, <2>2, <3>39, RowMoved
      <3> QED
        BY <1>1, <2>2, <3>1, <3>2, <3>3
    <2>5. Held(paid) = Held(wallet)
      <3>1. out[S] \in Row /\ out[S].balance \in Int
        BY <2>2 DEF Row
      <3>2. /\ TransferIn(out[S], share) \in Row
            /\ TransferIn(out[S], share).balance = out[S].balance + share
        BY <2>2, <3>1, RowMoves, Columns
      <3>39. /\ paid \in [Users -> Row] /\ paid[S] = TransferIn(out[S], share)
              /\ \A v \in Users \ {S} : paid[v] = out[v]
        BY <2>2, <2>3, <3>2
      <3>3. Held(paid) = Held(out) + TransferIn(out[S], share).balance - out[S].balance
        BY <1>0, <2>2, <3>39, RowMoved
      <3> QED
        BY <1>1, <2>2, <2>4, <3>1, <3>2, <3>3
    <2>6. Held(wallet') = Held(wallet) - fee
      <3>1. paid[B] \in Row /\ paid[B].balance \in Int
        BY <2>2 DEF Row
      <3>2. /\ TakeLocked(paid[B], fee) \in Row
            /\ TakeLocked(paid[B], fee).balance = paid[B].balance - fee
        BY <2>2, <3>1, RowMoves, Columns
      <3>39. /\ wallet' \in [Users -> Row] /\ wallet'[B] = TakeLocked(paid[B], fee)
              /\ \A v \in Users \ {B} : wallet'[v] = paid[v]
        BY <2>2, <2>3, <3>2
      <3>3. Held(wallet') = Held(paid) + TakeLocked(paid[B], fee).balance - paid[B].balance
        BY <1>0, <2>2, <3>39, RowMoved
      <3> QED
        BY <1>1, <2>2, <2>5, <3>1, <3>2, <3>3
    <2> QED
      BY <1>1, <1>2, <1>5, <1>6, <1>14, <2>1, <2>2, <2>6
  <1>15. CASE /\ c.at \notin {"lock", "debit", "credit", "releaseCommit"}
              /\ ~(c.at = "escrow" /\ hold[o].status = "NONE")
    <2>1. wallet' = wallet /\ fees' = fees
      BY <1>3, <1>15 DEF MoneyAt
    <2> QED
      BY <1>1, <1>2, <1>5, <1>6, <1>15, <2>1
  <1> QED
    BY <1>10, <1>11, <1>12, <1>13, <1>14, <1>15

\* A call cut short loses what it carries; nothing else takes or makes money.
LEMMA OtherMoney ==
  ASSUME Typed, Holds, Fair, Typed', Fair', [Next]_vars, \A h \in Handlers : ~Write(h)
  PROVE  /\ \/ Money' = Money
            \/ \E h \in Handlers : Abort(h) /\ call[h].at = "credit"
         /\ Money' <= Money
         /\ Money \in Int /\ Money' \in Int
  <1>0. call \in [Handlers -> CallType]
    BY DEF Typed, TypeOK, CallType, OrderRow, TermsRow
  <1>1. Held(wallet) \in Int /\ Carried \in Nat /\ fees \in Nat
    BY BooksTyped
  <1>2. Money = Held(wallet) + Carried + fees /\ Money' = Held(wallet)' + Carried' + fees'
    BY DEF Money, Carried
  <1>3. ASSUME UNCHANGED <<wallet, fees, call>>
        PROVE  Money' = Money
    BY <1>3 DEF Money
  <1>4. ASSUME NEW h \in Handlers, Abort(h)
        PROVE  /\ Money' = Money \/ call[h].at = "credit"
               /\ Money' <= Money /\ Money' \in Int
    <2>1. wallet' = wallet /\ fees' = fees /\ call' = [call EXCEPT ![h] = Idle]
      BY <1>4 DEF Abort
    <2>2. InTransit(call'[h]) = 0
      BY <1>0, <2>1 DEF InTransit, Idle
    <2>3. Carried' = Carried + InTransit(call'[h]) - InTransit(call[h])
      BY <1>0, <2>1, CarriedBy
    <2>4. InTransit(call[h]) \in Nat
      BY TransitTyped
    <2>5. InTransit(call[h]) = 0 \/ call[h].at = "credit"
      BY DEF InTransit
    <2> QED
      BY <1>1, <1>2, <2>1, <2>2, <2>3, <2>4, <2>5
  <1>5. ASSUME NEW h \in Handlers, NEW o \in Orders, Arrival(h, o)
        PROVE  Money' = Money
    <2>1. PICK at \in FirstSteps, user \in MaybeUser, terms \in TermsRow :
             Begin(h, o, at, user, terms)
      BY <1>5, ArrivalBegins
    <2>2. /\ wallet' = wallet /\ fees' = fees /\ call[h] = Idle
          /\ call' = [call EXCEPT ![h] = [at |-> at, order |-> o, row |-> order[o],
                                          user |-> user, terms |-> terms]]
      BY <2>1 DEF Begin
    <2>3. InTransit(call'[h]) = 0 /\ InTransit(call[h]) = 0
      BY <1>0, <2>2 DEF InTransit, Idle, FirstSteps
    <2>4. Carried' = Carried + InTransit(call'[h]) - InTransit(call[h])
      BY <1>0, <2>2, CarriedBy
    <2> QED
      BY <1>1, <1>2, <2>2, <2>3, <2>4
  <1>6. Money \in Int
    BY <1>1, <1>2
  <1>7. ASSUME NEW o \in Orders, Administration(o) PROVE Money' = Money
    BY <1>3, <1>7 DEF Administration, ForceCancel, Resolve
  <1>8. ASSUME NEW o \in Orders, NEW p \in MaybeUser, NEW t \in Terms, Create(o, p, t)
        PROVE  Money' = Money
    BY <1>3, <1>8 DEF Create
  <1>9. CASE UNCHANGED vars
    BY <1>3, <1>6, <1>9 DEF vars
  <1> QED
    BY <1>4, <1>5, <1>6, <1>7, <1>8, <1>9 DEF Next

LEMMA MoneyInit == Init => Money = Capital /\ Capital \in Int
  <1> SUFFICES ASSUME Init PROVE Money = Capital /\ Capital \in Int
    OBVIOUS
  <1>1. /\ IsFiniteSet(Users) /\ IsFiniteSet(Handlers)
        /\ Opening \in [Users -> Nat]
    BY OrdersAssumption DEF OrdersAssumption
  <1>2. Held(wallet) = Capital
    <2>1. [u \in DOMAIN wallet |-> wallet[u].balance] = Opening
      BY <1>1 DEF Init, Opened
    <2> QED
      BY <2>1 DEF Held, Capital
  <1>3. SumFunction([h \in Handlers |-> InTransit(call[h])]) = 0
    <2>1. \A h \in Handlers : [g \in Handlers |-> InTransit(call[g])][h] = 0
      BY DEF Init, InTransit, Idle
    <2> QED
      BY <1>1, <2>1, SumZero DEF SumFunction
  <1>4. Capital \in Int
    <2>1. Ints(Opening, Users) /\ DOMAIN Opening = Users
      BY <1>1 DEF Ints
    <2> QED
      BY <1>1, <2>1, SumType DEF Capital, SumFunction
  <1> QED
    BY <1>2, <1>3, <1>4 DEF Money, Init

\* Whatever overlaps and wherever a call is cut short, the wallets, the fees and what
\* the calls carry never add up to more than there was at the start.
THEOREM NoMoneyIsMade == Spec => []NoMoneyMade
  <1>1. Init => NoMoneyMade
    BY MoneyInit DEF NoMoneyMade
  <1>2. Typed /\ Holds /\ Fair /\ Typed' /\ Fair' /\ NoMoneyMade /\ [Next]_vars => NoMoneyMade'
    <2> SUFFICES ASSUME Typed, Holds, Fair, Typed', Fair', NoMoneyMade, [Next]_vars
                 PROVE  NoMoneyMade'
      OBVIOUS
    <2>1. Capital \in Int /\ Capital' = Capital
      <3>1. Ints(Opening, Users) /\ DOMAIN Opening = Users /\ IsFiniteSet(Users)
        BY OrdersAssumption DEF Ints, OrdersAssumption
      <3> QED
        BY <3>1, SumType DEF Capital, SumFunction
    <2>2. Money' <= Money /\ Money' \in Int /\ Money \in Int
      <3>1. Money \in Int
        BY BooksTyped DEF Money, Carried
      <3> QED
        BY <3>1, WriteMoney, OtherMoney
    <2> QED
      BY <2>1, <2>2 DEF NoMoneyMade
  <1>3. Spec => [](Typed /\ Holds /\ Fair)
    BY TypedInit, TypedStep, HoldsInit, HoldsStep, FairInit, FairStep, PTL DEF Spec
  <1> QED
    BY <1>1, <1>2, <1>3, PTL DEF Spec

----------------------------------------------------------------------------
(* What was agreed upon.                                                   *)

LEMMA AloneStep ==
  ASSUME Serialised
  PROVE  Typed /\ AloneOnOrder /\ [Next]_vars => AloneOnOrder'
  <1> SUFFICES ASSUME Typed, AloneOnOrder, [Next]_vars PROVE AloneOnOrder'
    OBVIOUS
  <1>0. call \in [Handlers -> CallType]
    BY DEF Typed, TypeOK, CallType, OrderRow, TermsRow
  <1>1. ASSUME NEW h \in Handlers, Write(h) PROVE AloneOnOrder'
    <2>1. /\ call[h].at # "idle"
          /\ \A g \in Handlers : g # h => call'[g] = call[g]
          /\ call'[h].at = "idle" \/ call'[h].order = call[h].order
      BY <1>1, WriteIsOwn
    <2> QED
      BY <2>1 DEF AloneOnOrder
  <1>2. ASSUME NEW h \in Handlers, NEW o \in Orders, Arrival(h, o) PROVE AloneOnOrder'
    <2>1. PICK at \in FirstSteps, user \in MaybeUser, terms \in TermsRow :
             Begin(h, o, at, user, terms)
      BY <1>2, ArrivalBegins
    <2>2. /\ \A g \in Handlers : g # h => call'[g] = call[g]
          /\ call'[h].at = at /\ call'[h].order = o
      BY <2>1, BeginKeeps DEF FirstSteps, Label
    <2>3. \A g \in Handlers : call[g].order # o
      BY <2>1 DEF Begin
    <2> QED
      BY <2>2, <2>3 DEF AloneOnOrder
  <1>3. ASSUME NEW h \in Handlers, Abort(h) PROVE AloneOnOrder'
    <2>1. call' = [call EXCEPT ![h] = Idle]
      BY <1>3 DEF Abort
    <2>2. \A g \in Handlers : call'[g].at # "idle" => call'[g] = call[g]
      BY <1>0, <2>1 DEF Idle
    <2> QED
      BY <2>2 DEF AloneOnOrder
  <1>4. CASE call' = call
    BY <1>4 DEF AloneOnOrder
  <1> QED
    BY <1>1, <1>2, <1>3, <1>4 DEF Next, Create, Administration, ForceCancel, Resolve, vars

\* Calls that have read an order before anybody had joined it and may still revise it.
Stragglers(o) ==
    {h \in Handlers : /\ call[h].at \in {"update", "accept"} /\ call[h].order = o
                      /\ call[h].row.counterparty = Null}

\* Nobody has joined an order that waits for its counterparty, ...
WaitingIsOpen ==
    \A o \in Orders :
        order[o].status \in {"NONE", "WAITING_COUNTERPARTY"} => order[o].counterparty = Null

\* ... nor had when a call read it that revises it.
ReadsOpen ==
    \A h \in Handlers :
        call[h].at \in {"update", "accept"} /\ call[h].row.status = "WAITING_COUNTERPARTY" =>
            call[h].row.counterparty = Null

AcceptsWaiting ==
    \A h \in Handlers : call[h].at = "accept" => call[h].row.status = "WAITING_COUNTERPARTY"

\* Every revision since somebody joined has used up one straggler.
RevisionsBound ==
    \A o \in Orders :
        IF order[o].counterparty = Null THEN revised[o] = 0
        ELSE revised[o] + Cardinality(Stragglers(o)) < Overlap

Joined ==
    /\ Serialised => AloneOnOrder
    /\ WaitingIsOpen /\ ReadsOpen /\ AcceptsWaiting /\ RevisionsBound

LEMMA OverlapType == Overlap \in Nat \ {0}
  <1>1. IsFiniteSet(Handlers) /\ Handlers # {}
    BY OrdersAssumption DEF OrdersAssumption
  <1> QED
    BY <1>1, FS_CardinalityType, FS_EmptySet DEF Overlap

LEMMA FewerStragglers ==
  ASSUME NEW S \in SUBSET Handlers, NEW T \in SUBSET S
  PROVE  /\ Cardinality(S) \in Nat /\ Cardinality(T) \in Nat
         /\ Cardinality(T) <= Cardinality(S)
         /\ \A h \in S : h \notin T => Cardinality(T) < Cardinality(S)
  <1>1. IsFiniteSet(S) /\ IsFiniteSet(T)
    BY FS_Subset, OrdersAssumption DEF OrdersAssumption
  <1>2. ASSUME NEW h \in S, h \notin T PROVE Cardinality(T) < Cardinality(S)
    <2>1. T # S
      BY <1>2
    <2>2. Cardinality(T) # Cardinality(S) /\ Cardinality(T) <= Cardinality(S)
      BY <1>1, <2>1, FS_Subset
    <2> QED
      BY <1>1, <2>2, FS_CardinalityType
  <1> QED
    BY <1>1, <1>2, FS_Subset, FS_CardinalityType

\* No more than the calls served besides the one that joins, and none of them if calls
\* on one order take turns.
LEMMA FewStragglers ==
  ASSUME NEW h \in Handlers, NEW T \in SUBSET (Handlers \ {h}), Serialised => T = {}
  PROVE  Cardinality(T) < Overlap
  <1>1. CASE Serialised
    BY <1>1, FS_EmptySet DEF Overlap
  <1>2. CASE ~Serialised
    <2>1. Handlers \in SUBSET Handlers /\ T \in SUBSET Handlers /\ h \notin T
      OBVIOUS
    <2> QED
      BY <1>2, <2>1, FewerStragglers DEF Overlap
  <1> QED
    BY <1>1, <1>2 DEF OrdersAssumption

LEMMA JoinedInit == Init => Joined
  <1> SUFFICES ASSUME Init PROVE Joined
    OBVIOUS
  <1> QED
    BY DEF Init, Joined, AloneOnOrder, WaitingIsOpen, ReadsOpen, AcceptsWaiting, RevisionsBound,
           NoOrder, Idle

\* The bound of one order holds on if it is not revised and no straggler is new.
BoundOf(o) ==
    IF order[o].counterparty = Null THEN revised[o] = 0
    ELSE revised[o] + Cardinality(Stragglers(o)) < Overlap

LEMMA BoundKept ==
  ASSUME Typed, NEW o \in Orders, BoundOf(o), revised'[o] = revised[o],
         order'[o].counterparty = order[o].counterparty,
         order[o].counterparty # Null => Stragglers(o)' \subseteq Stragglers(o)
  PROVE  BoundOf(o)'
  <1>1. CASE order[o].counterparty = Null
    BY <1>1 DEF BoundOf
  <1>2. CASE order[o].counterparty # Null
    <2>1. /\ Stragglers(o) \in SUBSET Handlers
          /\ Stragglers(o)' \in SUBSET Stragglers(o)
      BY <1>2 DEF Stragglers
    <2>2. /\ Cardinality(Stragglers(o)) \in Nat /\ Cardinality(Stragglers(o)') \in Nat
          /\ Cardinality(Stragglers(o)') <= Cardinality(Stragglers(o))
      BY <2>1, FewerStragglers
    <2>3. revised[o] \in Nat /\ Overlap \in Nat /\ Overlap' = Overlap
      BY OverlapType DEF Typed, TypeOK, Overlap
    <2>4. revised[o] + Cardinality(Stragglers(o)) < Overlap
      BY <1>2 DEF BoundOf
    <2>5. revised'[o] + Cardinality(Stragglers(o)') < Overlap'
      BY <2>2, <2>3, <2>4
    <2> QED
      BY <1>2, <2>5 DEF BoundOf, Stragglers
  <1> QED
    BY <1>1, <1>2

\* A call revises an order: it was a straggler, and is none any more.
LEMMA BoundSpent ==
  ASSUME Typed, Joined, NEW h \in Handlers, NEW o \in Orders, h \in Stragglers(o), Typed',
         \A g \in Handlers : g # h => call'[g] = call[g], call'[h].at = "idle",
         order'[o].counterparty \in {order[o].counterparty} \cup Users,
         revised'[o] \in {revised[o], revised[o] + 1},
         order[o].counterparty = Null => revised'[o] = revised[o]
  PROVE  BoundOf(o)'
  <1>1. BoundOf(o)
    BY DEF Joined, RevisionsBound, BoundOf
  <1>2. Stragglers(o)' \subseteq Stragglers(o) \ {h}
    BY DEF Stragglers
  <1>3. revised[o] \in Nat /\ Overlap \in Nat \ {0} /\ Overlap' = Overlap
    BY OverlapType DEF Typed, TypeOK, Overlap
  <1>4. CASE order[o].counterparty = Null
    <2>1. revised'[o] = 0
      BY <1>1, <1>4 DEF BoundOf
    <2>2. Serialised => Stragglers(o)' = {}
      BY <1>2 DEF Joined, AloneOnOrder, Stragglers
    <2>3. Stragglers(o)' \in SUBSET (Handlers \ {h})
      BY <1>2 DEF Stragglers
    <2>4. Cardinality(Stragglers(o)') < Overlap
      BY <2>2, <2>3, FewStragglers
    <2>5. Cardinality(Stragglers(o)') \in Nat
      BY <2>3, FewerStragglers
    <2>6. revised'[o] + Cardinality(Stragglers(o)') < Overlap'
      BY <1>3, <2>1, <2>4, <2>5
    <2> QED
      BY <2>1, <2>6 DEF BoundOf, Stragglers
  <1>5. CASE order[o].counterparty # Null
    <2>1. revised[o] + Cardinality(Stragglers(o)) < Overlap
      BY <1>1, <1>5 DEF BoundOf
    <2>2. /\ Stragglers(o) \in SUBSET Handlers /\ Stragglers(o)' \in SUBSET Stragglers(o)
          /\ h \notin Stragglers(o)'
      BY <1>2 DEF Stragglers
    <2>3. /\ Cardinality(Stragglers(o)) \in Nat /\ Cardinality(Stragglers(o)') \in Nat
          /\ Cardinality(Stragglers(o)') < Cardinality(Stragglers(o))
      BY <2>2, FewerStragglers
    <2>4. revised'[o] + Cardinality(Stragglers(o)') < Overlap'
      BY <1>3, <2>1, <2>3
    <2>5. order'[o].counterparty # Null
      BY <1>5, OrdersAssumption DEF OrdersAssumption
    <2> QED
      BY <2>4, <2>5 DEF BoundOf, Stragglers
  <1> QED
    BY <1>4, <1>5

LEMMA JoinedStep == Typed /\ Typed' /\ Fair /\ Joined /\ [Next]_vars => Joined'
  <1> SUFFICES ASSUME Typed, Typed', Fair, Joined, [Next]_vars PROVE Joined'
    OBVIOUS
  <1>0. /\ order \in [Orders -> OrderRow] /\ call \in [Handlers -> CallType]
        /\ revised \in [Orders -> Nat]
        /\ \A h \in Handlers : call[h].at # "idle" => call[h].order \in Orders
    BY DEF Typed, TypeOK, CallType, OrderRow, TermsRow, CallsNamed
  <1>a. /\ WaitingIsOpen /\ ReadsOpen /\ AcceptsWaiting
        /\ \A o \in Orders : BoundOf(o)
    BY DEF Joined, RevisionsBound, BoundOf
  <1>b. Serialised => AloneOnOrder'
    BY AloneStep DEF Joined
  <1>c. ASSUME WaitingIsOpen', ReadsOpen', AcceptsWaiting', \A o \in Orders : BoundOf(o)'
        PROVE  Joined'
    BY <1>b, <1>c DEF Joined, RevisionsBound, BoundOf
  <1>d. ASSUME \A g \in Handlers : call'[g] = call[g] \/ call'[g].at \notin {"update", "accept"}
        PROVE  /\ ReadsOpen' /\ AcceptsWaiting'
               /\ \A o \in Orders : Stragglers(o)' \subseteq Stragglers(o)
    BY <1>a, <1>d DEF ReadsOpen, AcceptsWaiting, Stragglers
  <1>1. ASSUME NEW h \in Handlers, Write(h) PROVE Joined'
    <2> DEFINE o == call[h].order
    <2>1. /\ call[h].at # "idle" /\ o \in Orders
          /\ \A g \in Handlers : g # h => call'[g] = call[g]
          /\ \/ call'[h].at = "idle"
             \/ /\ call'[h].order = o
                /\ call'[h].at \notin {"update", "accept"}
          /\ \A q \in Orders : q # o => order'[q] = order[q]
          /\ order'[o].status \in {"NONE", "WAITING_COUNTERPARTY"} =>
                /\ order[o].status = order'[o].status
                /\ order'[o].counterparty = order[o].counterparty
          /\ ~UpdateCommit(h) /\ ~AcceptCommit(h) =>
                order'[o].counterparty = order[o].counterparty
      BY <1>1, WriteIsOwn
    <2>2. /\ ReadsOpen' /\ AcceptsWaiting'
          /\ \A q \in Orders : Stragglers(q)' \subseteq Stragglers(q)
      BY <1>d, <2>1
    <2>3. WaitingIsOpen'
      <3> HIDE DEF o
      <3> QED
        BY <1>a, <2>1 DEF WaitingIsOpen
    <2>4. CASE revised' = revised /\ \A q \in Orders : order'[q].counterparty = order[q].counterparty
      <3>1. \A q \in Orders : BoundOf(q)'
        BY <1>a, <2>2, <2>4, BoundKept
      <3> QED
        BY <1>c, <2>2, <2>3, <3>1
    <2>5. CASE h \in Stragglers(o) /\ (UpdateCommit(h) \/ AcceptCommit(h))
      <3>1. UpdateCommit(h) => order'[o].counterparty = order[o].counterparty
        BY <1>0, <2>1, Rewritten
      <3>2. AcceptCommit(h) => order'[o].counterparty \in Users
        <4>1. AcceptCommit(h) => call[h].user \in Users
          BY DEF AcceptCommit, Proceed, Fair, CallFair
        <4> QED
          BY <1>0, <2>1, <4>1, Rewritten
      <3>3. \/ revised' = revised
            \/ order[o].counterparty # Null /\ revised' = [revised EXCEPT ![o] = revised[o] + 1]
        BY <2>5 DEF UpdateCommit, AcceptCommit, Revise
      <3>7. call'[h].at = "idle"
        <4>1. call' = [call EXCEPT ![h] = Idle]
          BY <2>5 DEF UpdateCommit, AcceptCommit, Proceed
        <4> QED
          BY <1>0, <4>1 DEF Idle
      <3> HIDE DEF o
      <3>4. /\ order'[o].counterparty \in {order[o].counterparty} \cup Users
            /\ revised'[o] \in {revised[o], revised[o] + 1}
            /\ order[o].counterparty = Null => revised'[o] = revised[o]
            /\ \A q \in Orders \ {o} : revised'[q] = revised[q]
        BY <1>0, <2>1, <2>5, <3>1, <3>2, <3>3
      <3>5. ASSUME NEW q \in Orders, q = o PROVE BoundOf(q)'
        <4>1. /\ h \in Stragglers(q) /\ order'[q].counterparty \in {order[q].counterparty} \cup Users
              /\ revised'[q] \in {revised[q], revised[q] + 1}
              /\ order[q].counterparty = Null => revised'[q] = revised[q]
          BY <2>5, <3>4, <3>5
        <4>2. \A g \in Handlers : g # h => call'[g] = call[g]
          BY <2>1
        <4> QED
          BY <3>7, <4>1, <4>2, BoundSpent
      <3>6. ASSUME NEW q \in Orders, q # o PROVE BoundOf(q)'
        BY <1>a, <2>1, <2>2, <3>4, <3>6, BoundKept
      <3> QED
        BY <1>c, <2>2, <2>3, <3>5, <3>6
    <2>6. CASE (UpdateCommit(h) \/ AcceptCommit(h)) /\ h \notin Stragglers(o)
      <3>1. /\ call[h].at \in {"update", "accept"}
            /\ AcceptCommit(h) => call[h].at = "accept"
        BY <2>6 DEF UpdateCommit, AcceptCommit, Proceed
      <3>2. call[h].row.status # "WAITING_COUNTERPARTY"
        BY <1>a, <2>6, <3>1 DEF ReadsOpen, Stragglers
      <3>3. UpdateCommit(h)
        BY <1>a, <2>6, <3>1, <3>2 DEF AcceptsWaiting
      <3>4. order' = order /\ revised' = revised
        BY <3>2, <3>3 DEF UpdateCommit
      <3> HIDE DEF o
      <3> QED
        BY <2>4, <3>4
    <2>7. CASE ~UpdateCommit(h) /\ ~AcceptCommit(h)
      <3>1. revised' = revised
        BY <1>1, <2>7 DEF Write, SetStatus, PayLock, PayHold, PayEscrow, TransferRead,
             TransferDebit, TransferCredit, ResolveHold, ReleaseRead, ReleaseCommit, DisputeRow,
             CreateDisputeCommit, history
      <3>2. \A q \in Orders : order'[q].counterparty = order[q].counterparty
        BY <2>1, <2>7
      <3> QED
        BY <2>4, <3>1, <3>2
    <2> QED
      BY <2>5, <2>6, <2>7
  <1>2. ASSUME NEW h \in Handlers, NEW o \in Orders, Arrival(h, o) PROVE Joined'
    <2>1. PICK at \in FirstSteps, user \in MaybeUser, terms \in TermsRow :
             Begin(h, o, at, user, terms) /\ Checked(o, at)
      BY <1>2, ArrivalBegins
    <2> DEFINE c == [at |-> at, order |-> o, row |-> order[o], user |-> user, terms |-> terms]
    <2>2. order' = order /\ revised' = revised /\ call' = [call EXCEPT ![h] = c]
      BY <2>1 DEF Begin, history
    <2>3. c.at = at /\ c.order = o /\ c.row = order[o]
      OBVIOUS
    <2> HIDE DEF c
    <2>4. call'[h] = c /\ \A g \in Handlers \ {h} : call'[g] = call[g]
      BY <1>0, <2>2
    <2>5. AcceptsWaiting' /\ ReadsOpen'
      BY <1>a, <2>1, <2>3, <2>4 DEF AcceptsWaiting, ReadsOpen, WaitingIsOpen, Checked
    <2>6. \A q \in Orders : order[q].counterparty # Null => Stragglers(q)' \subseteq Stragglers(q)
      BY <2>3, <2>4 DEF Stragglers
    <2>7. \A q \in Orders : BoundOf(q)'
      BY <1>a, <2>2, <2>6, BoundKept
    <2>8. WaitingIsOpen'
      BY <1>a, <2>2 DEF WaitingIsOpen
    <2> QED
      BY <1>c, <2>5, <2>7, <2>8
  <1>3. ASSUME NEW h \in Handlers, Abort(h) PROVE Joined'
    <2>1. order' = order /\ revised' = revised /\ call' = [call EXCEPT ![h] = Idle]
      BY <1>3 DEF Abort, history
    <2>2. \A g \in Handlers : call'[g] = call[g] \/ call'[g].at \notin {"update", "accept"}
      BY <1>0, <2>1 DEF Idle
    <2>3. \A q \in Orders : BoundOf(q)'
      BY <1>a, <1>d, <2>1, <2>2, BoundKept
    <2>4. WaitingIsOpen'
      BY <1>a, <2>1 DEF WaitingIsOpen
    <2> QED
      BY <1>c, <1>d, <2>2, <2>3, <2>4
  <1>4. ASSUME NEW o \in Orders, NEW p \in MaybeUser, NEW t \in Terms, Create(o, p, t)
        PROVE  Joined'
    <2>1. /\ call' = call /\ revised' = revised /\ order[o].status = "NONE"
          /\ order'[o].status = "WAITING_COUNTERPARTY" => order'[o].counterparty = Null
          /\ order'[o].status # "NONE"
          /\ \A q \in Orders \ {o} : order'[q] = order[q]
      BY <1>0, <1>4 DEF Create, history
    <2>2. Stragglers(o)' = {}
      BY <2>1 DEF Stragglers, Fair, CallFair
    <2>3. revised[o] = 0
      BY <1>a, <2>1 DEF WaitingIsOpen, BoundOf
    <2>4. BoundOf(o)'
      <3>1. Cardinality(Stragglers(o)') = 0 /\ Overlap' \in Nat \ {0}
        BY <2>2, FS_EmptySet, OverlapType DEF Overlap
      <3> QED
        BY <2>1, <2>3, <3>1 DEF BoundOf, Stragglers
    <2>5. /\ ReadsOpen' /\ AcceptsWaiting'
          /\ \A q \in Orders : Stragglers(q)' \subseteq Stragglers(q)
      BY <1>d, <2>1
    <2>6. \A q \in Orders \ {o} : BoundOf(q)'
      BY <1>a, <2>1, <2>5, BoundKept
    <2>7. WaitingIsOpen'
      BY <1>a, <2>1 DEF WaitingIsOpen
    <2> QED
      BY <1>c, <2>4, <2>5, <2>6, <2>7
  <1>5. ASSUME NEW o \in Orders, Administration(o) PROVE Joined'
    <2>1. PICK status \in {"COMPLETED", "REFUNDED", "CANCELLED"} :
             order' = [order EXCEPT ![o].status = status]
      BY <1>5 DEF Administration, ForceCancel, Resolve
    <2>2. call' = call /\ revised' = revised
      BY <1>5 DEF Administration, ForceCancel, Resolve, history
    <2>3. \A q \in Orders : /\ order'[q].counterparty = order[q].counterparty
                            /\ order'[q].status \in {order[q].status, status}
      BY <1>0, <2>1 DEF OrderRow
    <2>4. /\ ReadsOpen' /\ AcceptsWaiting'
          /\ \A q \in Orders : Stragglers(q)' \subseteq Stragglers(q)
      BY <1>d, <2>2
    <2>5. \A q \in Orders : BoundOf(q)'
      BY <1>a, <2>2, <2>3, <2>4, BoundKept
    <2>6. WaitingIsOpen'
      BY <1>a, <2>3 DEF WaitingIsOpen
    <2> QED
      BY <1>c, <2>4, <2>5, <2>6
  <1>6. CASE UNCHANGED vars
    <2>1. order' = order /\ call' = call /\ revised' = revised
      BY <1>6 DEF vars, history
    <2>2. /\ ReadsOpen' /\ AcceptsWaiting'
          /\ \A q \in Orders : Stragglers(q)' \subseteq Stragglers(q)
      BY <1>d, <2>1
    <2>3. \A q \in Orders : BoundOf(q)'
      BY <1>a, <2>1, <2>2, BoundKept
    <2>4. WaitingIsOpen'
      BY <1>a, <2>1 DEF WaitingIsOpen
    <2> QED
      BY <1>c, <2>2, <2>3, <2>4
  <1> QED
    BY <1>1, <1>2, <1>3, <1>4, <1>5, <1>6 DEF Next

\* However calls overlap, are cut short or are joined by administrators: once somebody
\* has joined an order, counterparty, amount and fee are revised fewer times than
\* calls are served at a time, and never if calls on one order take turns.
THEOREM AgreementStays == Spec => []AgreementHolds
  <1> DEFINE Inv == Typed /\ Holds /\ Fair /\ Joined
  <1>1. Init => Inv
    BY TypedInit, HoldsInit, FairInit, JoinedInit
  <1>2. Inv /\ [Next]_vars => Inv'
    BY TypedStep, HoldsStep, FairStep, JoinedStep
  <1>3. Inv => AgreementHolds
    <2> SUFFICES ASSUME Inv, NEW o \in Orders PROVE revised[o] < Overlap
      BY DEF AgreementHolds
    <2>1. revised[o] \in Nat /\ Overlap \in Nat \ {0}
      BY OverlapType DEF Typed, TypeOK
    <2>2. Cardinality(Stragglers(o)) \in Nat
      <3>1. Stragglers(o) \in SUBSET Handlers
        BY DEF Stragglers
      <3> QED
        BY <3>1, FewerStragglers
    <2>3. IF order[o].counterparty = Null THEN revised[o] = 0
          ELSE revised[o] + Cardinality(Stragglers(o)) < Overlap
      BY DEF Joined, RevisionsBound
    <2> QED
      BY <2>1, <2>2, <2>3
  <1> HIDE DEF Inv
  <1>4. Spec => []Inv
    BY <1>1, <1>2, PTL DEF Spec
  <1> QED
    BY <1>3, <1>4, PTL

----------------------------------------------------------------------------
(* The course of an order whose calls do not overlap.                      *)

NotYetPaid == {"NONE", "WAITING_COUNTERPARTY", "PENDING_ACCEPT", "ACCEPTED"}

BeforeHold == {"update", "accept", "agree", "lock", "insertHold", "escrow"}

WithHold == {"setPaid", "transfer", "debit", "credit", "resolveHold", "release",
             "releaseCommit"}

\* What a call c has read of its order is still what the order says, row, and its
\* hold, k, is in the place the call counts on.
CallOnCourse(c, row, k) ==
    c.at # "idle" =>
        /\ c.row.amount = row.amount /\ c.row.fee = row.fee
        /\ c.row.counterparty = row.counterparty
        /\ c.at \in BeforeHold => k.status = "NONE"
        /\ c.at \in WithHold => k.status \in Open

\* A hold is for the order's parties and for one of the prices the two services ask.
HoldFits(o, row, k) ==
    k.status # "NONE" =>
        /\ k.buyer = BuyerOf(o, row) /\ k.seller = SellerOf(o, row)
        /\ k.amount \in {row.amount, TotalToPay(o, row)}

\* What is left of a hold is at most the order's fee, and nothing before it is released.
LeftFits(row, k, l) ==
    /\ l \in 0..row.fee
    /\ k.status # "RELEASED" => l = 0

\* What a write of the call c makes of what is left, l, of its order's hold, k.
LeftAfter(c, k, l) ==
    IF c.at = "resolveHold" /\ k.status # "NONE"
    THEN k.amount - SellerAmount(c.order, c.row) ELSE l

\* Status and hold agree, except between two writes of a call, which is at the step at.
Settled(row, k, at) ==
    /\ row.status \in NotYetPaid /\ k.status # "NONE" => at = "setPaid"
    /\ row.status = "PAID" /\ k.status \notin Open => at = "setCompleted"

OrderSettled(o) ==
    \/ Settled(order[o], hold[o], "idle")
    \/ \E h \in Handlers : call[h].order = o /\ Settled(order[o], hold[o], call[h].at)

Course ==
    /\ AloneOnOrder
    /\ \A o \in Orders : /\ HoldFits(o, order[o], hold[o]) /\ OrderSettled(o)
                         /\ LeftFits(order[o], hold[o], left[o])
    /\ \A h \in Handlers : CallOnCourse(call[h], order[call[h].order], hold[call[h].order])

LEMMA CourseInit == Init => Course
  BY DEF Init, Course, AloneOnOrder, HoldFits, LeftFits, OrderSettled, Settled, CallOnCourse, NoOrder,
         NoHold, Idle, Open

LEMMA PartiesSame ==
  ASSUME NEW o, NEW row, NEW new, row.counterparty = new.counterparty
  PROVE  BuyerOf(o, row) = BuyerOf(o, new) /\ SellerOf(o, row) = SellerOf(o, new)
  BY DEF BuyerOf, SellerOf

LEMMA PricesSame ==
  ASSUME NEW o, NEW row, NEW new, row.amount = new.amount, row.fee = new.fee
  PROVE  TotalToPay(o, row) = TotalToPay(o, new) /\ SellerAmount(o, row) = SellerAmount(o, new)
  BY DEF TotalToPay, SellerAmount

\* Whatever a hold was written for: what the seller does not get of it is at most the fee.
LEMMA RestIsFee ==
  ASSUME NEW o \in Orders, NEW row \in OrderRow,
         NEW amount \in {row.amount, TotalToPay(o, row)}
  PROVE  amount - SellerAmount(o, row) \in 0..row.fee
  <1>1. row.amount \in Nat /\ row.fee \in Nat /\ row.fee \div 2 \in Nat
        /\ 2 * (row.fee \div 2) <= row.fee
    BY DEF OrderRow
  <1>2. FeePayer[o] \in {"BUYER", "SELLER", "SPLIT", "FIFTY_FIFTY"}
    BY OrdersAssumption DEF OrdersAssumption
  <1>3. CASE FeePayer[o] = "BUYER"
    BY <1>1, <1>3 DEF TotalToPay, SellerAmount
  <1>4. CASE FeePayer[o] = "SELLER"
    BY <1>1, <1>4 DEF TotalToPay, SellerAmount
  <1>5. CASE FeePayer[o] = "SPLIT"
    BY <1>1, <1>5 DEF TotalToPay, SellerAmount
  <1>6. CASE FeePayer[o] = "FIFTY_FIFTY"
    BY <1>1, <1>6 DEF TotalToPay, SellerAmount
  <1> QED
    BY <1>2, <1>3, <1>4, <1>5, <1>6

LEMMA CourseAfter ==
  ASSUME NEW c \in CallType, NEW row \in OrderRow, NEW k \in HoldRow, c.order \in Orders,
         c.at # "idle", CallOnCourse(c, row, k), HoldFits(c.order, row, k),
         Settled(row, k, c.at)
  PROVE  /\ HoldFits(c.order, OrderAfter(c, row, k), HoldAfter(c, k))
         /\ Settled(OrderAfter(c, row, k), HoldAfter(c, k), NextOf(c.at))
         /\ CallOnCourse([c EXCEPT !.at = NextOf(c.at)], OrderAfter(c, row, k), HoldAfter(c, k))
  <1> DEFINE o == c.order
             new == OrderAfter(c, row, k)
             held == HoldAfter(c, k)
             next == NextOf(c.at)
  <1>1. /\ c.row \in OrderRow /\ c.at \in Label
        /\ c.row.amount = row.amount /\ c.row.fee = row.fee
        /\ c.row.counterparty = row.counterparty
    BY DEF CallOnCourse, CallType
  <1>2. /\ c.at # "update" => new.amount = row.amount /\ new.fee = row.fee
        /\ c.at # "accept" => new.counterparty = row.counterparty
    BY DEF OrderAfter, OrderRow
  <1>3. CASE c.at \in {"insertHold", "escrow"}
    <2>1. k.status = "NONE"
      BY <1>3 DEF CallOnCourse, BeforeHold
    <2>2. /\ held.status \in {"HELD", "ACTIVE"}
          /\ held.buyer = BuyerOf(o, c.row) /\ held.seller = SellerOf(o, c.row)
          /\ held.amount = IF c.at = "insertHold" THEN TotalToPay(o, c.row) ELSE c.row.amount
      BY <1>3, <2>1 DEF HoldAfter, HoldOf
    <2>3. BuyerOf(o, c.row) = BuyerOf(o, new) /\ SellerOf(o, c.row) = SellerOf(o, new)
      BY <1>1, <1>2, <1>3, PartiesSame
    <2>9. new.amount = c.row.amount /\ TotalToPay(o, c.row) = TotalToPay(o, new)
      BY <1>1, <1>2, <1>3, PricesSame
    <2>4. HoldFits(o, new, held)
      BY <1>3, <2>2, <2>3, <2>9 DEF HoldFits
    <2>5. next = "setPaid"
      BY <1>3 DEF NextOf
    <2>6. c.at = "escrow" => new.status = "PAID"
      BY <2>1 DEF OrderAfter, OrderRow
    <2>7. Settled(new, held, next)
      BY <2>2, <2>5 DEF Settled, Open
    <2>8. CallOnCourse([c EXCEPT !.at = next], new, held)
      BY <1>1, <1>2, <1>3, <2>2, <2>5 DEF CallOnCourse, BeforeHold, WithHold, CallType, Open
    <2> QED
      BY <2>4, <2>7, <2>8
  <1>4. CASE c.at \in {"resolveHold", "releaseCommit"}
    <2>1. k.status \in Open
      BY <1>4 DEF CallOnCourse, WithHold
    <2>2. held = [k EXCEPT !.status = "RELEASED"]
      BY <1>4, <2>1 DEF HoldAfter, Open
    <2>3. /\ held.status = "RELEASED" /\ held.buyer = k.buyer /\ held.seller = k.seller
          /\ held.amount = k.amount
      BY <2>2 DEF HoldRow
    <2>4. k.status # "NONE"
      BY <2>1 DEF Open
    <2>5. BuyerOf(o, row) = BuyerOf(o, new) /\ SellerOf(o, row) = SellerOf(o, new)
      BY <1>1, <1>2, <1>4, PartiesSame
    <2>11. new.amount = row.amount /\ TotalToPay(o, row) = TotalToPay(o, new)
      BY <1>2, <1>4, PricesSame
    <2>6. HoldFits(o, new, held)
      BY <1>4, <2>3, <2>4, <2>5, <2>11 DEF HoldFits
    <2>7. next = "setCompleted"
      BY <1>4 DEF NextOf
    <2>8. new.status \notin NotYetPaid
      <3>1. CASE c.at = "releaseCommit"
        BY <3>1 DEF OrderAfter, OrderRow, NotYetPaid
      <3>2. CASE c.at = "resolveHold"
        <4>1. new = row
          BY <3>2 DEF OrderAfter
        <4> QED
          BY <2>4, <3>2, <4>1 DEF Settled
      <3> QED
        BY <1>4, <3>1, <3>2
    <2>9. Settled(new, held, next)
      BY <2>7, <2>8 DEF Settled
    <2>10. CallOnCourse([c EXCEPT !.at = next], new, held)
      BY <1>1, <1>2, <1>4, <2>7 DEF CallOnCourse, BeforeHold, WithHold, CallType
    <2> QED
      BY <2>6, <2>9, <2>10
  <1>5. CASE c.at \notin {"insertHold", "escrow", "resolveHold", "releaseCommit"}
    <2>1. held = k
      BY <1>5 DEF HoldAfter
    <2>2. c.at \in {"update", "accept", "agree", "lock"} => k.status = "NONE"
      BY DEF CallOnCourse, BeforeHold
    <2>3. HoldFits(o, new, held)
      <3>2. CASE k.status = "NONE"
        BY <2>1, <3>2 DEF HoldFits
      <3>3. CASE k.status # "NONE"
        <4>1. BuyerOf(o, row) = BuyerOf(o, new) /\ SellerOf(o, row) = SellerOf(o, new)
          BY <1>2, <2>2, <3>3, PartiesSame
        <4>2. new.amount = row.amount /\ TotalToPay(o, row) = TotalToPay(o, new)
          BY <1>2, <2>2, <3>3, PricesSame
        <4> QED
          BY <2>1, <3>3, <4>1, <4>2 DEF HoldFits
      <3> QED
        BY <3>2, <3>3
    <2>4. Settled(new, held, next)
      <3>1. CASE c.at \in {"cancel", "setCompleted", "setDisputed", "dispute"}
        <4>1. new.status \notin NotYetPaid \cup {"PAID"}
          BY <3>1 DEF OrderAfter, OrderRow, NotYetPaid
        <4> QED
          BY <4>1 DEF Settled
      <3>2. CASE c.at \in {"update", "accept", "agree"}
        <4>1. new.status # "PAID" \/ new.status = row.status
          BY <3>2 DEF OrderAfter, OrderRow
        <4> QED
          BY <2>1, <2>2, <3>2, <4>1 DEF Settled
      <3>3. CASE c.at = "setPaid"
        <4>1. new.status = "PAID" /\ k.status \in Open
          BY <3>3 DEF OrderAfter, OrderRow, CallOnCourse, WithHold
        <4> QED
          BY <2>1, <4>1 DEF Settled, NotYetPaid
      <3>4. CASE c.at \in {"lock", "transfer", "debit", "credit", "release", "disputeRow"}
        <4>1. new = row
          BY <3>4 DEF OrderAfter
        <4> QED
          BY <2>1, <3>4, <4>1 DEF Settled
      <3> QED
        BY <1>1, <1>5, <3>1, <3>2, <3>3, <3>4 DEF Label
    <2>5. CallOnCourse([c EXCEPT !.at = next], new, held)
      <3>1. CASE next = "idle"
        BY <3>1 DEF CallOnCourse, CallType
      <3>2. CASE next # "idle"
        <4>1. c.at \in {"lock", "transfer", "debit", "credit", "release", "disputeRow"}
          BY <1>1, <1>5, <3>2 DEF NextOf, Label
        <4>2. new = row
          BY <4>1 DEF OrderAfter
        <4>3. /\ next # "update"
              /\ next \in BeforeHold => c.at \in BeforeHold
              /\ next \in WithHold => c.at \in WithHold
          BY <4>1 DEF NextOf, BeforeHold, WithHold
        <4> HIDE DEF next, new, held
        <4> QED
          BY <2>1, <3>2, <4>2, <4>3 DEF CallOnCourse, CallType
      <3> QED
        BY <3>1, <3>2
    <2> QED
      BY <2>3, <2>4, <2>5
  <1> QED
    BY <1>3, <1>4, <1>5

\* What is left stays within the fee.
LEMMA LeftAfterFits ==
  ASSUME NEW c \in CallType, NEW row \in OrderRow, NEW k \in HoldRow, NEW l \in Int,
         c.order \in Orders, c.at # "idle", CallOnCourse(c, row, k),
         HoldFits(c.order, row, k), LeftFits(row, k, l)
  PROVE  LeftFits(OrderAfter(c, row, k), HoldAfter(c, k), LeftAfter(c, k, l))
  <1> DEFINE o == c.order
             new == OrderAfter(c, row, k)
             held == HoldAfter(c, k)
  <1>1. /\ c.row \in OrderRow
        /\ c.row.amount = row.amount /\ c.row.fee = row.fee
    BY DEF CallOnCourse, CallType
  <1>2. c.at # "update" => new.fee = row.fee
    BY DEF OrderAfter, OrderRow
  <1>3. CASE c.at = "resolveHold"
    <2>1. k.status \in Open
      BY <1>3 DEF CallOnCourse, WithHold
    <2>2. k.status # "NONE" /\ held.status = "RELEASED"
      BY <1>3, <2>1 DEF HoldAfter, Open, HoldRow
    <2>3. TotalToPay(o, c.row) = TotalToPay(o, row)
      BY <1>1, PricesSame
    <2>4. k.amount \in {c.row.amount, TotalToPay(o, c.row)}
      BY <1>1, <2>2, <2>3 DEF HoldFits
    <2>5. k.amount - SellerAmount(o, c.row) \in 0..c.row.fee
      BY <1>1, <2>4, RestIsFee
    <2> QED
      BY <1>1, <1>2, <1>3, <2>2, <2>5 DEF LeftFits, LeftAfter
  <1>4. CASE c.at = "update"
    <2>1. k.status = "NONE"
      BY <1>4 DEF CallOnCourse, BeforeHold
    <2>2. l = 0 /\ new.fee \in Nat
      <3>1. c.terms.fee \in Nat /\ row.fee \in Nat
        BY DEF CallType, TermsRow, OrderRow
      <3> QED
        BY <1>4, <2>1, <3>1 DEF LeftFits, OrderAfter, OrderRow
    <2> QED
      BY <1>4, <2>2 DEF LeftFits, LeftAfter
  <1>5. CASE c.at \notin {"resolveHold", "update"}
    <2>1. k.status = "RELEASED" \/ l = 0
      BY DEF LeftFits
    <2>2. k.status = "RELEASED" => held.status = "RELEASED" \/ l = 0
      <3>1. c.at \in {"insertHold", "escrow"} => k.status = "NONE"
        BY DEF CallOnCourse, BeforeHold
      <3> QED
        BY <3>1 DEF HoldAfter, HoldRow
    <2> QED
      BY <1>2, <1>5, <2>1, <2>2 DEF LeftFits, LeftAfter
  <1> QED
    BY <1>3, <1>4, <1>5

LEMMA LeftWritten ==
  ASSUME Typed, NEW h \in Handlers, Write(h)
  PROVE  left' = [left EXCEPT ![call[h].order] = LeftAfter(call[h], hold[call[h].order], @)]
  <1>0. left \in [Orders -> Int]
    BY DEF Typed, TypeOK
  <1> DEFINE o == call[h].order
             l == LeftAfter(call[h], hold[o], left[o])
  <1>1. ASSUME left' = left, l = left[o] PROVE left' = [left EXCEPT ![o] = l]
    <2> HIDE DEF o, l
    <2> QED
      BY <1>0, <1>1
  <1>2. CASE ResolveHold(h)
    <2>1. CASE hold[o].status = "NONE"
      BY <1>1, <1>2, <2>1 DEF ResolveHold, LeftAfter
    <2>2. CASE hold[o].status # "NONE"
      BY <1>2, <2>2 DEF ResolveHold, Proceed, LeftAfter
    <2> QED
      BY <2>1, <2>2
  <1>3. CASE left' = left /\ call[h].at # "resolveHold"
    BY <1>1, <1>3 DEF LeftAfter
  <1>4. CASE \/ UpdateCommit(h) \/ AcceptCommit(h)
             \/ SetStatus(h, "agree", "ACCEPTED") \/ SetStatus(h, "cancel", "CANCELLED")
             \/ PayLock(h) \/ PayHold(h) \/ PayEscrow(h) \/ SetStatus(h, "setPaid", "PAID")
    BY <1>3, <1>4 DEF UpdateCommit, AcceptCommit, SetStatus, PayLock, PayHold, PayEscrow, Proceed,
         history
  <1>5. CASE \/ TransferRead(h) \/ TransferDebit(h) \/ TransferCredit(h)
             \/ ReleaseRead(h) \/ ReleaseCommit(h) \/ SetStatus(h, "setCompleted", "COMPLETED")
             \/ DisputeRow(h) \/ CreateDisputeCommit(h) \/ SetStatus(h, "setDisputed", "DISPUTED")
    BY <1>3, <1>5 DEF TransferRead, TransferDebit, TransferCredit, ReleaseRead, ReleaseCommit,
         SetStatus, DisputeRow, CreateDisputeCommit, Proceed, history
  <1> QED
    BY <1>2, <1>4, <1>5 DEF Write

\* The call that is on an order is the one whose step it waits for.
LEMMA SettledNow ==
  ASSUME Course, NEW h \in Handlers, call[h].at # "idle", call[h].order \in Orders
  PROVE  Settled(order[call[h].order], hold[call[h].order], call[h].at)
  <1> DEFINE o == call[h].order
  <1>1. CASE Settled(order[o], hold[o], "idle")
    BY <1>1 DEF Settled
  <1>2. CASE ~Settled(order[o], hold[o], "idle")
    <2>1. PICK g \in Handlers : call[g].order = o /\ Settled(order[o], hold[o], call[g].at)
      BY <1>2 DEF Course, OrderSettled
    <2>2. call[g].at # "idle"
      BY <1>2, <2>1
    <2> QED
      BY <2>1, <2>2 DEF Course, AloneOnOrder
  <1> QED
    BY <1>1, <1>2

\* Where no call is on an order, its status and its hold agree.
LEMMA SettledAlone ==
  ASSUME Course, NEW o \in Orders, \A h \in Handlers : call[h].at # "idle" => call[h].order # o
  PROVE  Settled(order[o], hold[o], "idle")
  BY DEF Course, OrderSettled

LEMMA CourseStep ==
  ASSUME Serialised, Reliable
  PROVE  Typed /\ Fair /\ Course /\ [Next]_vars => Course'
  <1> SUFFICES ASSUME Typed, Fair, Course, [Next]_vars PROVE Course'
    OBVIOUS
  <1>0. /\ order \in [Orders -> OrderRow] /\ hold \in [Orders -> HoldRow]
        /\ call \in [Handlers -> CallType] /\ left \in [Orders -> Int]
    BY DEF Typed, TypeOK, CallType, OrderRow, TermsRow, HoldRow
  <1>a. /\ \A o \in Orders : /\ HoldFits(o, order[o], hold[o]) /\ OrderSettled(o)
                             /\ LeftFits(order[o], hold[o], left[o])
        /\ \A g \in Handlers : CallOnCourse(call[g], order[call[g].order], hold[call[g].order])
        /\ \A g \in Handlers : call[g].at # "idle" => call[g].order \in Orders
    BY DEF Course, Typed, CallsNamed
  <1>b. AloneOnOrder'
    BY AloneStep DEF Course
  <1>1. ASSUME NEW h \in Handlers, Write(h) PROVE Course'
    <2> DEFINE c == call[h]
               o == c.order
               next == NextOf(c.at)
               row == OrderAfter(c, order[o], hold[o])
               k == HoldAfter(c, hold[o])
               after == [c EXCEPT !.at = next]
    <2>1. /\ c.at # "idle" /\ o \in Orders
          /\ call' = [call EXCEPT ![h] = IF next = "idle" THEN Idle ELSE after]
          /\ order' = [order EXCEPT ![o] = row]
          /\ hold' = [hold EXCEPT ![o] = k]
      BY <1>1, <1>a, WriteDoes DEF ByWrite
    <2>2. /\ HoldFits(o, row, k)
          /\ Settled(row, k, next)
          /\ CallOnCourse(after, row, k)
          /\ LeftFits(row, k, LeftAfter(c, hold[o], left[o]))
      <3>1. Settled(order[o], hold[o], c.at) /\ CallOnCourse(c, order[o], hold[o])
            /\ HoldFits(o, order[o], hold[o]) /\ LeftFits(order[o], hold[o], left[o])
        BY <1>a, <2>1, SettledNow
      <3>2. c \in CallType /\ order[o] \in OrderRow /\ hold[o] \in HoldRow /\ left[o] \in Int
        BY <1>0, <2>1
      <3> HIDE DEF c
      <3> QED
        BY <2>1, <3>1, <3>2, CourseAfter, LeftAfterFits
    <2>12. left' = [left EXCEPT ![o] = LeftAfter(c, hold[o], left[o])]
      BY <1>1, LeftWritten
    <2>3. \A g \in Handlers \ {h} : call[g].at # "idle" => call[g].order # o
      BY <2>1 DEF Course, AloneOnOrder
    <2>4. after.order = o /\ after.at = next
      BY <1>0 DEF CallType
    <2> HIDE DEF next, row, k, after
    <2> HIDE DEF o
    <2>5. /\ order'[o] = row /\ hold'[o] = k
          /\ \A q \in Orders \ {o} : order'[q] = order[q] /\ hold'[q] = hold[q]
      BY <1>0, <2>1
    <2>6. /\ \A g \in Handlers \ {h} : call'[g] = call[g]
          /\ call'[h] = IF next = "idle" THEN Idle ELSE after
      <3> HIDE DEF c
      <3> QED
        BY <1>0, <2>1
    <2>7. \A q \in Orders : HoldFits(q, order'[q], hold'[q]) /\ LeftFits(order'[q], hold'[q], left'[q])
      <3>1. /\ left'[o] = LeftAfter(c, hold[o], left[o])
            /\ \A q \in Orders \ {o} : left'[q] = left[q]
        BY <1>0, <2>1, <2>12
      <3> QED
        BY <1>a, <2>2, <2>5, <3>1
    <2>8. ASSUME NEW g \in Handlers
          PROVE  CallOnCourse(call'[g], order'[call'[g].order], hold'[call'[g].order])
      <3>1. CASE g = h
        <4>1. CASE next = "idle"
          BY <2>6, <3>1, <4>1 DEF CallOnCourse, Idle
        <4>2. CASE next # "idle"
          BY <2>2, <2>4, <2>5, <2>6, <3>1, <4>2
        <4> QED
          BY <4>1, <4>2
      <3>2. CASE g # h
        <4>1. CASE call[g].at = "idle"
          BY <2>6, <3>2, <4>1 DEF CallOnCourse
        <4>2. CASE call[g].at # "idle"
          BY <1>a, <2>3, <2>5, <2>6, <3>2, <4>2
        <4> QED
          BY <4>1, <4>2
      <3> QED
        BY <3>1, <3>2
    <2>9. ASSUME NEW q \in Orders PROVE OrderSettled(q)'
      <3>1. CASE q = o
        <4>1. CASE next = "idle"
          BY <2>2, <2>5, <3>1, <4>1 DEF OrderSettled
        <4>2. CASE next # "idle"
          BY <2>2, <2>4, <2>5, <2>6, <3>1, <4>2 DEF OrderSettled
        <4> QED
          BY <4>1, <4>2
      <3>2. CASE q # o
        <4>1. CASE Settled(order[q], hold[q], "idle")
          BY <2>5, <3>2, <4>1 DEF OrderSettled
        <4>2. CASE ~Settled(order[q], hold[q], "idle")
          <5>1. PICK g \in Handlers : call[g].order = q /\ Settled(order[q], hold[q], call[g].at)
            BY <1>a, <4>2 DEF OrderSettled
          <5>2. g # h
            BY <3>2, <5>1 DEF o
          <5> QED
            BY <2>5, <2>6, <3>2, <5>1, <5>2 DEF OrderSettled
        <4> QED
          BY <4>1, <4>2
      <3> QED
        BY <3>1, <3>2
    <2> QED
      BY <1>b, <2>7, <2>8, <2>9 DEF Course
  <1>2. ASSUME NEW h \in Handlers, NEW o \in Orders, Arrival(h, o) PROVE Course'
    <2>1. PICK at \in FirstSteps, user \in MaybeUser, terms \in TermsRow :
             /\ Begin(h, o, at, user, terms)
             /\ Checked(o, at) /\ Asked(at, user, terms)
      BY <1>2, ArrivalBegins
    <2> DEFINE c == [at |-> at, order |-> o, row |-> order[o], user |-> user, terms |-> terms]
    <2>2. /\ order' = order /\ hold' = hold /\ left' = left /\ call[h] = Idle
          /\ call' = [call EXCEPT ![h] = c]
          /\ \A g \in Handlers : call[g].order # o
      BY <2>1 DEF Begin, history
    <2>3. Settled(order[o], hold[o], "idle")
      BY <2>2, SettledAlone
    <2>4. CallOnCourse(c, order[o], hold[o])
      <3>1. at \in BeforeHold => hold[o].status = "NONE"
        BY <2>1, <2>3 DEF Checked, BeforeHold, FirstSteps, Settled, NotYetPaid
      <3>2. at \in WithHold => hold[o].status \in Open
        BY <2>1, <2>3 DEF Checked, WithHold, FirstSteps, Settled
      <3> QED
        BY <3>1, <3>2 DEF CallOnCourse
    <2>5. c.order = o
      OBVIOUS
    <2> HIDE DEF c
    <2>6. call'[h] = c /\ \A g \in Handlers \ {h} : call'[g] = call[g]
      BY <1>0, <2>2
    <2>7. ASSUME NEW q \in Orders PROVE OrderSettled(q)'
      <3>1. CASE Settled(order[q], hold[q], "idle")
        BY <2>2, <3>1 DEF OrderSettled
      <3>2. CASE ~Settled(order[q], hold[q], "idle")
        <4>1. PICK g \in Handlers : call[g].order = q /\ Settled(order[q], hold[q], call[g].at)
          BY <1>a, <3>2 DEF OrderSettled
        <4>2. g # h
          BY <2>2, <3>2, <4>1 DEF Idle
        <4> QED
          BY <2>2, <2>6, <4>1, <4>2 DEF OrderSettled
      <3> QED
        BY <3>1, <3>2
    <2>8. \A g \in Handlers : CallOnCourse(call'[g], order'[call'[g].order], hold'[call'[g].order])
      BY <1>a, <2>2, <2>4, <2>5, <2>6
    <2> QED
      BY <1>a, <1>b, <2>2, <2>7, <2>8 DEF Course
  <1>3. ASSUME NEW h \in Handlers, Abort(h) PROVE Course'
    <2>1. /\ call' = [call EXCEPT ![h] = Idle] /\ order' = order /\ hold' = hold
          /\ left' = left /\ ~Allowed(h)
      BY <1>3 DEF Abort, history
    <2>2. /\ call'[h] = Idle
          /\ \A g \in Handlers \ {h} : call'[g] = call[g]
      BY <1>0, <2>1
    <2>3. call[h].at \notin {"setPaid", "setCompleted"}
      BY <2>1 DEF Allowed
    <2>4. ASSUME NEW q \in Orders PROVE OrderSettled(q)'
      <3>1. CASE Settled(order[q], hold[q], "idle")
        BY <2>1, <3>1 DEF OrderSettled
      <3>2. CASE ~Settled(order[q], hold[q], "idle")
        <4>1. PICK g \in Handlers : call[g].order = q /\ Settled(order[q], hold[q], call[g].at)
          BY <1>a, <3>2 DEF OrderSettled
        <4>2. g # h
          BY <2>3, <3>2, <4>1 DEF Settled
        <4> QED
          BY <2>1, <2>2, <4>1, <4>2 DEF OrderSettled
      <3> QED
        BY <3>1, <3>2
    <2>5. ASSUME NEW g \in Handlers
          PROVE  CallOnCourse(call'[g], order'[call'[g].order], hold'[call'[g].order])
      <3>1. CASE g = h
        BY <2>2, <3>1 DEF CallOnCourse, Idle
      <3>2. CASE g # h
        BY <1>a, <2>1, <2>2, <3>2
      <3> QED
        BY <3>1, <3>2
    <2> QED
      BY <1>a, <1>b, <2>1, <2>4, <2>5 DEF Course
  <1>4. ASSUME NEW o \in Orders, NEW p \in MaybeUser, NEW t \in Terms, Create(o, p, t)
        PROVE  Course'
    <2>1. /\ order[o].status = "NONE" /\ call' = call /\ hold' = hold /\ left' = left
          /\ order'[o].fee \in Nat
          /\ order'[o].status \in {"WAITING_COUNTERPARTY", "PENDING_ACCEPT"}
          /\ \A q \in Orders \ {o} : order'[q] = order[q]
      BY <1>0, <1>4, OrdersAssumption DEF Create, history, OrdersAssumption
    <2>2. \A h \in Handlers : call[h].at # "idle" => call[h].order # o
      BY <2>1 DEF Fair, CallFair
    <2>3. hold[o].status = "NONE"
      BY <2>1, <2>2, SettledAlone DEF Settled, NotYetPaid
    <2>4. HoldFits(o, order'[o], hold[o]) /\ Settled(order'[o], hold[o], "idle")
      BY <2>1, <2>3 DEF HoldFits, Settled
    <2>8. LeftFits(order'[o], hold[o], left[o])
      <3>1. LeftFits(order[o], hold[o], left[o])
        BY <1>a
      <3> QED
        BY <2>1, <2>3, <3>1 DEF LeftFits
    <2>5. ASSUME NEW q \in Orders PROVE OrderSettled(q)'
      BY <1>a, <2>1, <2>4 DEF OrderSettled
    <2>6. ASSUME NEW g \in Handlers
          PROVE  CallOnCourse(call'[g], order'[call'[g].order], hold'[call'[g].order])
      <3>1. CASE call[g].at = "idle"
        BY <2>1, <3>1 DEF CallOnCourse
      <3>2. CASE call[g].at # "idle"
        BY <1>a, <2>1, <2>2, <3>2
      <3> QED
        BY <3>1, <3>2
    <2>7. \A q \in Orders : HoldFits(q, order'[q], hold'[q]) /\ LeftFits(order'[q], hold'[q], left'[q])
      BY <1>a, <2>1, <2>4, <2>8
    <2> QED
      BY <1>b, <2>5, <2>6, <2>7 DEF Course
  <1>5. ASSUME NEW o \in Orders, Administration(o) PROVE Course'
    <2>1. PICK status \in {"COMPLETED", "REFUNDED", "CANCELLED"} :
             order' = [order EXCEPT ![o].status = status]
      BY <1>5 DEF Administration, ForceCancel, Resolve
    <2>2. call' = call /\ hold' = hold /\ left' = left
      BY <1>5 DEF Administration, ForceCancel, Resolve, history
    <2>3. /\ \A q \in Orders \ {o} : order'[q] = order[q]
          /\ order'[o].status \in {"COMPLETED", "REFUNDED", "CANCELLED"}
          /\ order'[o].amount = order[o].amount /\ order'[o].fee = order[o].fee
          /\ order'[o].counterparty = order[o].counterparty
      BY <1>0, <2>1 DEF OrderRow
    <2>4. Settled(order'[o], hold[o], "idle")
      BY <2>3 DEF Settled, NotYetPaid
    <2>5. HoldFits(o, order'[o], hold[o])
      <3>1. BuyerOf(o, order'[o]) = BuyerOf(o, order[o])
            /\ SellerOf(o, order'[o]) = SellerOf(o, order[o])
        BY <2>3, PartiesSame
      <3>2. TotalToPay(o, order[o]) = TotalToPay(o, order'[o])
        BY <2>3, PricesSame
      <3> QED
        BY <1>a, <2>3, <3>1, <3>2 DEF HoldFits
    <2>6. ASSUME NEW q \in Orders PROVE OrderSettled(q)'
      BY <1>a, <2>2, <2>3, <2>4 DEF OrderSettled
    <2>7. ASSUME NEW g \in Handlers
          PROVE  CallOnCourse(call'[g], order'[call'[g].order], hold'[call'[g].order])
      <3>1. CASE call[g].at = "idle"
        BY <2>2, <3>1 DEF CallOnCourse
      <3>2. CASE call[g].at # "idle"
        BY <1>a, <2>2, <2>3, <3>2 DEF CallOnCourse
      <3> QED
        BY <3>1, <3>2
    <2>8. \A q \in Orders : HoldFits(q, order'[q], hold'[q]) /\ LeftFits(order'[q], hold'[q], left'[q])
      BY <1>a, <2>2, <2>3, <2>5 DEF LeftFits
    <2> QED
      BY <1>b, <2>6, <2>7, <2>8 DEF Course
  <1>6. CASE UNCHANGED vars
    BY <1>6, <1>b DEF vars, history, Course, OrderSettled
  <1> QED
    BY <1>1, <1>2, <1>3, <1>4, <1>5, <1>6 DEF Next

----------------------------------------------------------------------------
(* The books balance.                                                      *)

\* What a hold of which l is left adds to what must be locked in the wallet of u, ...
Weight(k, l, u) == IF k.buyer # u THEN 0 ELSE IF k.status \in Open THEN k.amount ELSE l

Weights(H, L, u) == [o \in Orders |-> Weight(H[o], L[o], u)]

\* ... and what a call between two writes adds: it has locked what no hold says yet,
\* or taken what a hold still says.
Due(c, u) ==
    IF BuyerOf(c.order, c.row) # u THEN 0
    ELSE CASE c.at = "insertHold" -> TotalToPay(c.order, c.row)
           [] c.at \in {"credit", "resolveHold"} -> -SellerAmount(c.order, c.row)
           [] OTHER -> 0

Dues(C, u) == [h \in Handlers |-> Due(C[h], u)]

LocksMatch ==
    \A u \in Users :
        wallet[u].locked = SumFunctionOnSet(Weights(hold, left, u), Orders)
                             + SumFunctionOnSet(Dues(call, u), Handlers)

\* What is kept locked for a user is the sum of the weights.
LEMMA KeptSum ==
  ASSUME Typed, NEW u \in Users
  PROVE  KeptLocked(u) = SumFunctionOnSet(Weights(hold, left, u), Orders)
  <1> DEFINE kept == [o \in Orders |-> IF hold[o].status \in Open THEN hold[o].amount ELSE left[o]]
             mine == {o \in Orders : hold[o].buyer = u}
             part == [o \in Orders |-> IF o \in mine THEN kept[o] ELSE 0]
  <1>1. hold \in [Orders -> HoldRow] /\ left \in [Orders -> Int] /\ IsFiniteSet(Orders)
    BY OrdersAssumption DEF OrdersAssumption, Typed, TypeOK, HoldRow
  <1>2. Ints(kept, Orders)
    BY <1>1 DEF Ints, HoldRow
  <1>3. \A o \in Orders : part[o] = Weights(hold, left, u)[o]
    BY DEF Weights, Weight
  <1>4. mine \in SUBSET Orders
    OBVIOUS
  <1>5. SumFunctionOnSet(kept, mine) = SumFunctionOnSet(part, Orders)
    <2> HIDE DEF kept, mine
    <2> QED
      BY <1>1, <1>2, <1>4, SumWhere
  <1>6. SumFunctionOnSet(part, Orders) = SumFunctionOnSet(Weights(hold, left, u), Orders)
    <2> HIDE DEF part
    <2> QED
      BY <1>1, <1>3, SumSame
  <1> QED
    BY <1>5, <1>6 DEF KeptLocked

LEMMA DueTyped ==
  ASSUME NEW c \in CallType, c.at # "idle" => c.order \in Orders, NEW u
  PROVE  Due(c, u) \in Int
  <1>1. CASE c.at = "idle"
    BY <1>1 DEF Due
  <1>2. CASE c.at # "idle"
    BY <1>2, SumsTyped DEF Due, CallType
  <1> QED
    BY <1>1, <1>2

\* One call makes a step about one order: every wallet's lock moves by what that
\* moves the hold's weight and the call's due.
LEMMA LocksFollow ==
  ASSUME Typed, Typed', LocksMatch, NEW h \in Handlers, NEW o \in Orders,
         \A p \in Orders \ {o} : hold'[p] = hold[p] /\ left'[p] = left[p],
         \A g \in Handlers \ {h} : call'[g] = call[g],
         \A u \in Users :
            wallet'[u].locked = wallet[u].locked + Weight(hold'[o], left'[o], u) - Weight(hold[o], left[o], u)
                                  + Due(call'[h], u) - Due(call[h], u)
  PROVE  LocksMatch'
  <1>1. /\ hold \in [Orders -> HoldRow] /\ hold' \in [Orders -> HoldRow]
        /\ call \in [Handlers -> CallType] /\ call' \in [Handlers -> CallType]
        /\ \A g \in Handlers : call[g].at # "idle" => call[g].order \in Orders
        /\ \A g \in Handlers : call'[g].at # "idle" => call'[g].order \in Orders
        /\ IsFiniteSet(Orders) /\ IsFiniteSet(Handlers)
        /\ left \in [Orders -> Int] /\ left' \in [Orders -> Int]
    BY OrdersAssumption DEF OrdersAssumption, Typed, TypeOK, HoldRow, CallType, OrderRow,
         TermsRow, CallsNamed
  <1>2. ASSUME NEW u \in Users
        PROVE  wallet'[u].locked = SumFunctionOnSet(Weights(hold', left', u), Orders)
                                     + SumFunctionOnSet(Dues(call', u), Handlers)
    <2>1. wallet[u].locked = SumFunctionOnSet(Weights(hold, left, u), Orders)
                               + SumFunctionOnSet(Dues(call, u), Handlers)
      BY DEF LocksMatch
    <2>2. /\ Ints(Weights(hold, left, u), Orders)
          /\ Weights(hold', left', u)[o] = Weight(hold'[o], left'[o], u) /\ Weights(hold, left, u)[o] = Weight(hold[o], left[o], u)
          /\ Weight(hold'[o], left'[o], u) \in Int /\ Weight(hold[o], left[o], u) \in Int
          /\ \A p \in Orders \ {o} : Weights(hold', left', u)[p] = Weights(hold, left, u)[p]
      BY <1>1 DEF Ints, HoldRow, Weights, Weight
    <2>3. SumFunctionOnSet(Weights(hold', left', u), Orders)
             = SumFunctionOnSet(Weights(hold, left, u), Orders) + Weight(hold'[o], left'[o], u) - Weight(hold[o], left[o], u)
      BY <1>1, <2>2, SumChanges
    <2>4. \A g \in Handlers : Due(call[g], u) \in Int /\ Due(call'[g], u) \in Int
      BY <1>1, DueTyped
    <2>5. /\ Ints(Dues(call, u), Handlers)
          /\ Dues(call', u)[h] = Due(call'[h], u) /\ Dues(call, u)[h] = Due(call[h], u)
          /\ \A g \in Handlers \ {h} : Dues(call', u)[g] = Dues(call, u)[g]
      BY <2>4 DEF Ints, Dues
    <2>6. SumFunctionOnSet(Dues(call', u), Handlers)
             = SumFunctionOnSet(Dues(call, u), Handlers) + Due(call'[h], u) - Due(call[h], u)
      BY <1>1, <2>4, <2>5, SumChanges
    <2>7. /\ SumFunctionOnSet(Weights(hold, left, u), Orders) \in Int
          /\ SumFunctionOnSet(Dues(call, u), Handlers) \in Int
      BY <1>1, <2>2, <2>5, SumType
    <2>8. wallet'[u].locked = wallet[u].locked + Weight(hold'[o], left'[o], u) - Weight(hold[o], left[o], u)
                                + Due(call'[h], u) - Due(call[h], u)
      OBVIOUS
    <2> QED
      BY <2>1, <2>2, <2>3, <2>4, <2>6, <2>7, <2>8
  <1> QED
    BY <1>2 DEF LocksMatch

LEMMA LocksInit == Init => LocksMatch
  <1> SUFFICES ASSUME Init, NEW u \in Users
               PROVE  wallet[u].locked = SumFunctionOnSet(Weights(hold, left, u), Orders)
                                           + SumFunctionOnSet(Dues(call, u), Handlers)
    BY DEF LocksMatch
  <1>1. \A o \in Orders : Weights(hold, left, u)[o] = 0
    BY DEF Init, NoHold, Weights, Weight, Open
  <1>2. \A h \in Handlers : Dues(call, u)[h] = 0
    BY DEF Init, Idle, Dues, Due
  <1>3. IsFiniteSet(Orders) /\ IsFiniteSet(Handlers)
    BY OrdersAssumption DEF OrdersAssumption
  <1>4. SumFunctionOnSet(Weights(hold, left, u), Orders) = 0
        /\ SumFunctionOnSet(Dues(call, u), Handlers) = 0
    BY <1>1, <1>2, <1>3, SumZero
  <1> QED
    BY <1>4 DEF Init, Opened

\* What a write does to a lock is what it does to the hold's weight and the call's due.
LEMMA WriteLocks ==
  ASSUME Typed, Holds, Fair, Course, NEW h \in Handlers, Write(h), NEW u \in Users
  PROVE  wallet'[u].locked = wallet[u].locked
            + Weight(hold'[call[h].order], left'[call[h].order], u)
            - Weight(hold[call[h].order], left[call[h].order], u)
            + Due(call'[h], u) - Due(call[h], u)
  <1> DEFINE c == call[h]
             o == c.order
             row == c.row
             k == hold[o]
             new == hold'[o]
             l == left[o]
             m == left'[o]
             d == call'[h]
             next == NextOf(c.at)
             gets == SellerAmount(o, row)
             pays == TotalToPay(o, row)
             b == BuyerOf(o, row)
             s == SellerOf(o, row)
  <1> SUFFICES wallet'[u].locked
                 = wallet[u].locked + Weight(new, m, u) - Weight(k, l, u) + Due(d, u) - Due(c, u)
    OBVIOUS
  <1>0. /\ wallet \in [Users -> Row] /\ hold \in [Orders -> HoldRow] /\ c \in CallType
        /\ o \in Orders /\ c.at # "idle" /\ call \in [Handlers -> CallType]
        /\ left \in [Orders -> Int]
    BY WriteIsOwn DEF Typed, TypeOK, CallType, OrderRow, TermsRow, HoldRow
  <1>1. MoneyAt(h)
    BY MoneyWritten
  <1>2. /\ d = IF next = "idle" THEN Idle ELSE [c EXCEPT !.at = next]
        /\ new = HoldAfter(c, k)
        /\ m = LeftAfter(c, k, l)
    BY <1>0, WriteDoes, LeftWritten DEF ByWrite
  <1>3. /\ row \in OrderRow /\ pays \in Int /\ gets \in Int /\ row.amount \in Int /\ row.fee \in Int
        /\ k \in HoldRow /\ k.amount \in Int /\ l \in Int /\ wallet[u] \in Row /\ wallet[u].locked \in Int
    BY <1>0, SumsTyped DEF CallType, OrderRow, HoldRow, Row
  <1>4. c.at \in HasParties => b \in Users /\ s \in Users
    BY <1>0, PartiesKnown DEF Fair, CallFair
  <1>5. /\ CallOnCourse(c, order[o], k) /\ HoldFits(o, order[o], k) /\ LeftFits(order[o], k, l)
    BY <1>0 DEF Course
  <1>6. Due(c, u) = IF b # u THEN 0 ELSE IF c.at = "insertHold" THEN pays
                    ELSE IF c.at \in {"credit", "resolveHold"} THEN -gets ELSE 0
    BY DEF Due
  <1>7. Due(d, u) = IF b # u THEN 0 ELSE IF c.at = "lock" THEN pays
                    ELSE IF c.at \in {"debit", "credit"} THEN -gets ELSE 0
    <2>1. /\ (next = "insertHold") <=> (c.at = "lock")
          /\ (next \in {"credit", "resolveHold"}) <=> (c.at \in {"debit", "credit"})
      BY DEF NextOf
    <2>2. next # "idle" => /\ d.at = next /\ d.order = o /\ d.row = row
      BY <1>0, <1>2 DEF CallType
    <2>3. next = "idle" => d.at = "idle"
      BY <1>2 DEF Idle
    <2> HIDE DEF next, d, c
    <2>4. CASE next = "idle"
      BY <2>1, <2>3, <2>4 DEF Due
    <2>5. CASE next # "idle"
      BY <2>1, <2>2, <2>5 DEF Due
    <2> QED
      BY <2>4, <2>5
  <1>8. CASE c.at \in {"lock", "debit", "credit"}
    <2>1. new = k /\ m = l
      BY <1>2, <1>8 DEF HoldAfter, LeftAfter
    <2>2. b \in Users /\ s \in Users /\ wallet[b] \in Row /\ wallet[s] \in Row
      BY <1>0, <1>4, <1>8 DEF HasParties
    <2>3. CASE c.at = "lock"
      <3>1. wallet' = [wallet EXCEPT ![b] = LockBalance(wallet[b], pays)]
        BY <1>1, <2>3 DEF MoneyAt
      <3>2. LockBalance(wallet[b], pays).locked = wallet[b].locked + pays
        <4> HIDE DEF b, pays
        <4> QED
          BY <1>3, <2>2, Columns
      <3> HIDE DEF b, pays, gets, c
      <3>3. wallet'[u].locked = wallet[u].locked + IF u = b THEN pays ELSE 0
        BY <1>0, <1>3, <2>2, <3>1, <3>2
      <3> HIDE DEF new, k, l, m, d, b
      <3>4. Weight(k, l, u) \in Int
        BY <1>3 DEF Weight
      <3> QED
        BY <1>3, <1>6, <1>7, <2>1, <2>3, <3>3, <3>4
    <2>4. CASE c.at = "debit"
      <3>1. wallet' = [wallet EXCEPT ![b] = TransferOut(wallet[b], gets)]
        BY <1>1, <2>4 DEF MoneyAt
      <3>2. TransferOut(wallet[b], gets).locked = wallet[b].locked - gets
        <4> HIDE DEF b, gets
        <4> QED
          BY <1>3, <2>2, Columns
      <3> HIDE DEF b, pays, gets, c
      <3>3. wallet'[u].locked = wallet[u].locked - IF u = b THEN gets ELSE 0
        BY <1>0, <1>3, <2>2, <3>1, <3>2
      <3> HIDE DEF new, k, l, m, d, b
      <3>4. Weight(k, l, u) \in Int
        BY <1>3 DEF Weight
      <3> QED
        BY <1>3, <1>6, <1>7, <2>1, <2>4, <3>3, <3>4
    <2>5. CASE c.at = "credit"
      <3>1. wallet' = [wallet EXCEPT ![s] = TransferIn(wallet[s], gets)]
        BY <1>1, <2>5 DEF MoneyAt
      <3>2. TransferIn(wallet[s], gets).locked = wallet[s].locked
        <4> HIDE DEF s, gets
        <4> QED
          BY <1>3, <2>2, Columns
      <3> HIDE DEF b, s, pays, gets, c
      <3>3. wallet'[u].locked = wallet[u].locked
        BY <1>0, <1>3, <2>2, <3>1, <3>2
      <3> HIDE DEF new, k, l, m, d, b
      <3>4. Weight(k, l, u) \in Int
        BY <1>3 DEF Weight
      <3> QED
        BY <1>3, <1>6, <1>7, <2>1, <2>5, <3>3, <3>4
    <2> QED
      BY <1>8, <2>3, <2>4, <2>5
  <1>9. CASE c.at = "insertHold"
    <2>1. wallet' = wallet
      BY <1>1, <1>9 DEF MoneyAt
    <2>2. k.status = "NONE"
      BY <1>5, <1>9 DEF CallOnCourse, BeforeHold
    <2>3. new.status = "HELD" /\ new.buyer = b /\ new.amount = pays
      BY <1>2, <1>9 DEF HoldAfter, HoldOf
    <2>4. Weight(k, l, u) = 0 /\ Weight(new, m, u) = IF u = b THEN pays ELSE 0
      BY <1>5, <2>2, <2>3 DEF Weight, Open, LeftFits
    <2> HIDE DEF b, pays, gets, c, d, new, k, l, m
    <2> QED
      BY <1>3, <1>6, <1>7, <1>9, <2>1, <2>4
  <1>10. CASE c.at = "escrow"
    <2>1. k.status = "NONE"
      BY <1>5, <1>10 DEF CallOnCourse, BeforeHold
    <2>2. wallet' = [wallet EXCEPT ![b] = LockBalance(wallet[b], row.amount)]
      BY <1>1, <1>10, <2>1 DEF MoneyAt
    <2>3. b \in Users /\ wallet[b] \in Row
      BY <1>0, <1>4, <1>10 DEF HasParties
    <2>4. LockBalance(wallet[b], row.amount).locked = wallet[b].locked + row.amount
      <3> HIDE DEF b, row
      <3> QED
        BY <1>3, <2>3, Columns
    <2>5. new.status = "ACTIVE" /\ new.buyer = b /\ new.amount = row.amount
      BY <1>2, <1>10, <2>1 DEF HoldAfter, HoldOf
    <2>6. Weight(k, l, u) = 0 /\ Weight(new, m, u) = IF u = b THEN row.amount ELSE 0
      BY <1>5, <2>1, <2>5 DEF Weight, Open, LeftFits
    <2> HIDE DEF b, row, pays, gets, c, d, new, k, l, m
    <2>7. wallet'[u].locked = wallet[u].locked + IF u = b THEN row.amount ELSE 0
      BY <1>0, <1>3, <2>2, <2>3, <2>4
    <2> QED
      BY <1>3, <1>6, <1>7, <1>10, <2>6, <2>7
  <1>11. CASE c.at = "resolveHold"
    <2>1. wallet' = wallet
      BY <1>1, <1>11 DEF MoneyAt
    <2>2. /\ k.status \in Open /\ row.counterparty = order[o].counterparty
      BY <1>5, <1>11 DEF CallOnCourse, WithHold
    <2>3. k.status # "NONE" /\ k.buyer = b
      <3>1. BuyerOf(o, order[o]) = b
        BY <2>2, PartiesSame
      <3> QED
        BY <1>5, <2>2, <3>1 DEF HoldFits, Open
    <2>4. m = k.amount - gets
      BY <1>2, <1>11, <2>3 DEF LeftAfter
    <2>5. new.status = "RELEASED" /\ new.buyer = b
      BY <1>2, <1>3, <1>11, <2>3 DEF HoldAfter, HoldRow
    <2>6. /\ Weight(new, m, u) = IF u = b THEN k.amount - gets ELSE 0
          /\ Weight(k, l, u) = IF u = b THEN k.amount ELSE 0
      BY <2>2, <2>3, <2>4, <2>5 DEF Weight, Open
    <2>7. k.amount \in Int
      BY <1>3
    <2> DEFINE amount == k.amount
    <2> HIDE DEF b, pays, gets, c, d, new, k, l, m
    <2> QED
      BY <1>3, <1>6, <1>7, <1>11, <2>1, <2>6, <2>7
  <1>12. CASE c.at = "releaseCommit"
    <2> DEFINE share == k.amount - row.fee
               B == k.buyer
               S == k.seller
               fee == row.fee
    <2>1. \E out, paid \in [Users -> Row] :
             /\ out = [wallet EXCEPT ![B] = TransferOut(wallet[B], share)]
             /\ paid = [out EXCEPT ![S] = TransferIn(out[S], share)]
             /\ wallet' = [paid EXCEPT ![B] = TakeLocked(paid[B], fee)]
      BY <1>1, <1>12 DEF MoneyAt
    <2>2. k.status \in Open
      BY <1>5, <1>12 DEF CallOnCourse, WithHold
    <2>3. B \in Users /\ S \in Users /\ share \in Int /\ fee \in Int
      BY <1>0, <1>3, <2>2 DEF Fair, HoldFair, Open
    <2>4. new.status = "RELEASED" /\ new.buyer = k.buyer /\ m = 0
      BY <1>2, <1>3, <1>5, <1>12, <2>2 DEF HoldAfter, HoldRow, LeftAfter, LeftFits, Open
    <2>5. Weight(new, m, u) = 0 /\ Weight(k, l, u) = IF u = B THEN share + fee ELSE 0
      BY <1>3, <2>2, <2>4 DEF Weight, Open
    <2> HIDE DEF b, pays, gets, c, d, new, k, l, m, B, S, share, fee
    <2>6. PICK out \in [Users -> Row], paid \in [Users -> Row] :
             /\ out = [wallet EXCEPT ![B] = TransferOut(wallet[B], share)]
             /\ paid = [out EXCEPT ![S] = TransferIn(out[S], share)]
             /\ wallet' = [paid EXCEPT ![B] = TakeLocked(paid[B], fee)]
      BY <2>1
    <2>7. out[u].locked = wallet[u].locked - IF u = B THEN share ELSE 0
      <3>1. TransferOut(wallet[B], share).locked = wallet[B].locked - share
        BY <1>0, <2>3, Columns
      <3> QED
        BY <1>0, <1>3, <2>3, <2>6, <3>1
    <2>8. paid[u].locked = out[u].locked
      <3>1. TransferIn(out[S], share).locked = out[S].locked
        BY <2>3, Columns
      <3> QED
        BY <2>3, <2>6, <3>1
    <2>9. wallet'[u].locked = paid[u].locked - IF u = B THEN fee ELSE 0
      <3>1. TakeLocked(paid[B], fee).locked = paid[B].locked - fee
        BY <2>3, Columns
      <3>2. paid[u].locked \in Int
        BY DEF Row
      <3> QED
        BY <2>3, <2>6, <3>1, <3>2
    <2> QED
      BY <1>3, <1>6, <1>7, <1>12, <2>3, <2>5, <2>7, <2>8, <2>9
  <1>13. CASE c.at \notin {"lock", "insertHold", "escrow", "debit", "credit", "resolveHold",
                           "releaseCommit"}
    <2>1. wallet' = wallet
      BY <1>1, <1>13 DEF MoneyAt
    <2>2. new = k /\ m = l
      BY <1>2, <1>13 DEF HoldAfter, LeftAfter
    <2>3. Weight(k, l, u) \in Int
      BY <1>3 DEF Weight
    <2> HIDE DEF b, pays, gets, c, d, new, k, l, m
    <2> QED
      BY <1>3, <1>6, <1>7, <1>13, <2>1, <2>2, <2>3
  <1> QED
    BY <1>8, <1>9, <1>10, <1>11, <1>12, <1>13

LEMMA LocksStep ==
  ASSUME Serialised, Reliable
  PROVE  Typed /\ Typed' /\ Holds /\ Fair /\ Course /\ LocksMatch /\ [Next]_vars => LocksMatch'
  <1> SUFFICES ASSUME Typed, Typed', Holds, Fair, Course, LocksMatch, [Next]_vars
               PROVE  LocksMatch'
    OBVIOUS
  <1>0. /\ call \in [Handlers -> CallType] /\ hold \in [Orders -> HoldRow]
        /\ wallet \in [Users -> Row] /\ left \in [Orders -> Int]
    BY DEF Typed, TypeOK, CallType, OrderRow, TermsRow, HoldRow
  <1>1. ASSUME NEW h \in Handlers, Write(h) PROVE LocksMatch'
    <2> DEFINE o == call[h].order
    <2>1. o \in Orders /\ \A g \in Handlers \ {h} : call'[g] = call[g]
      BY <1>1, WriteIsOwn
    <2>2. \A p \in Orders \ {o} : hold'[p] = hold[p] /\ left'[p] = left[p]
      BY <1>0, <1>1, <2>1, WriteDoes, LeftWritten DEF ByWrite
    <2>3. \A u \in Users :
             wallet'[u].locked = wallet[u].locked + Weight(hold'[o], left'[o], u) - Weight(hold[o], left[o], u)
                                   + Due(call'[h], u) - Due(call[h], u)
      BY <1>1, WriteLocks
    <2> HIDE DEF o
    <2> QED
      BY <2>1, <2>2, <2>3, LocksFollow
  <1>2. ASSUME NEW h \in Handlers, call[h].at \notin {"insertHold", "credit", "resolveHold"},
               call'[h].at \notin {"insertHold", "credit", "resolveHold"},
               \A g \in Handlers \ {h} : call'[g] = call[g], wallet' = wallet, hold' = hold,
               left' = left
        PROVE  LocksMatch'
    <2>1. \A u \in Users : Due(call[h], u) = 0 /\ Due(call'[h], u) = 0
      BY <1>2 DEF Due
    <2>2. ASSUME NEW u \in Users PROVE Dues(call', u) = Dues(call, u)
      BY <1>2, <2>1 DEF Dues
    <2> QED
      BY <1>2, <2>2 DEF LocksMatch
  <1>3. ASSUME NEW h \in Handlers, NEW o \in Orders, Arrival(h, o) PROVE LocksMatch'
    <2>1. PICK at \in FirstSteps, user \in MaybeUser, terms \in TermsRow :
             Begin(h, o, at, user, terms)
      BY <1>3, ArrivalBegins
    <2>2. /\ \A g \in Handlers : g # h => call'[g] = call[g]
          /\ call'[h].at = at
      BY <2>1, BeginKeeps DEF FirstSteps, Label
    <2>3. wallet' = wallet /\ hold' = hold /\ left' = left /\ call[h].at = "idle"
      BY <2>1 DEF Begin, Idle, history
    <2> QED
      BY <1>2, <2>2, <2>3 DEF FirstSteps
  <1>4. ASSUME NEW h \in Handlers, Abort(h) PROVE LocksMatch'
    <2>1. /\ wallet' = wallet /\ hold' = hold /\ left' = left
          /\ call' = [call EXCEPT ![h] = Idle] /\ ~Allowed(h)
      BY <1>4 DEF Abort, history
    <2>2. call[h].at \notin {"credit", "resolveHold"}
      BY <2>1 DEF Allowed
    <2>3. call[h].at # "insertHold"
      <3>1. call[h].at = "insertHold" => hold[call[h].order].status = "NONE"
        BY DEF Course, CallOnCourse, BeforeHold
      <3> QED
        BY <2>1, <3>1 DEF Allowed, HoldFree
    <2>4. call'[h].at = "idle" /\ \A g \in Handlers \ {h} : call'[g] = call[g]
      BY <1>0, <2>1 DEF Idle
    <2> QED
      BY <1>2, <2>1, <2>2, <2>3, <2>4
  <1>5. CASE wallet' = wallet /\ hold' = hold /\ left' = left /\ call' = call
    BY <1>5 DEF LocksMatch
  <1> QED
    BY <1>1, <1>3, <1>4, <1>5 DEF Next, Create, Administration, ForceCancel, Resolve, vars, history

\* If calls about one order do not overlap and make all their writes: no money is lost,
\* whatever fees are charged, and between calls what is locked is what the open holds
\* add up to, and of each order completed through confirmReceipt at most its fee;
\* whatever deliveries, administrators and disputes do to the orders meanwhile.
THEOREM BooksAlwaysBalance ==
  ASSUME Serialised, Reliable
  PROVE  Spec => []BooksBalance
  <1> DEFINE Inv == Typed /\ Holds /\ Fair /\ Course
             Kept == LocksMatch /\ Money = Capital /\ Capital \in Int
  <1>1. Init => Inv
    BY TypedInit, HoldsInit, FairInit, CourseInit
  <1>2. Inv /\ [Next]_vars => Inv'
    BY TypedStep, HoldsStep, FairStep, CourseStep
  <1>3. Init => Kept
    BY LocksInit, MoneyInit
  <1>4. Inv /\ Inv' /\ Kept /\ [Next]_vars => Kept'
    <2> SUFFICES ASSUME Inv, Inv', Kept, [Next]_vars PROVE Kept'
      OBVIOUS
    <2>1. LocksMatch'
      BY LocksStep
    <2>2. \A h \in Handlers : ~(Abort(h) /\ call[h].at = "credit")
      BY DEF Abort, Allowed
    <2>3. Money' = Money
      BY <2>2, WriteMoney, OtherMoney
    <2>4. Capital' = Capital
      BY DEF Capital
    <2> QED
      BY <2>1, <2>3, <2>4
  <1>5. Inv /\ Kept => BooksBalance
    <2> SUFFICES ASSUME Inv, Kept, Quiet, NEW u \in Users
                 PROVE  wallet[u].locked = KeptLocked(u)
      BY DEF BooksBalance, Course, LeftFits
    <2>1. \A h \in Handlers : Dues(call, u)[h] = 0
      BY DEF Quiet, Idle, Dues, Due
    <2>2. SumFunctionOnSet(Dues(call, u), Handlers) = 0
      BY <2>1, SumZero, OrdersAssumption DEF OrdersAssumption
    <2>3. wallet[u].locked = SumFunctionOnSet(Weights(hold, left, u), Orders) + 0
      BY <2>2 DEF LocksMatch
    <2>4. wallet[u].locked \in Int
      BY DEF Typed, TypeOK, Row
    <2>5. SumFunctionOnSet(Weights(hold, left, u), Orders) \in Int
      <3>1. Ints(Weights(hold, left, u), Orders) /\ IsFiniteSet(Orders)
        BY OrdersAssumption DEF OrdersAssumption, Ints, Weights, Weight, Typed, TypeOK
      <3> QED
        BY <3>1, SumType
    <2> QED
      BY <2>3, <2>5, KeptSum
  <1> HIDE DEF Inv, Kept
  <1>6. Spec => [](Inv /\ Kept)
    BY <1>1, <1>2, <1>3, <1>4, PTL DEF Spec
  <1> QED
    BY <1>5, <1>6, PTL
=============================================================================
