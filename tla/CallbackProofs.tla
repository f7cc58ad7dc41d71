--------------------------- MODULE CallbackProofs ---------------------------
(***************************************************************************)
(* Theorems about Callbacks, for any payments, reports, handlers and       *)
(* processes, with Redis and without it, and whichever of its commands     *)
(* fail.                                                                   *)
(***************************************************************************)
EXTENDS Callbacks, FiniteSetTheorems, TLAPS

CallType ==
    [at : Label, payment : Payments \cup {Null}, process : Processes \cup {Null}, report : Nat]

\* A call that has arrived names a payment, one of its reports, and the process
\* that serves it.
CallsNamed ==
    \A h \in Handlers : call[h].at # "idle" =>
        /\ call[h].payment \in Payments
        /\ call[h].process \in Processes
        /\ call[h].report \in DOMAIN Reports[call[h].payment]

Typed == TypeOK /\ CallsNamed

LEMMA TypedInit == Init => Typed
  BY CallbacksAssumption
     DEF CallbacksAssumption, Init, Typed, TypeOK, CallsNamed, Idle, Label

\* A handler that goes on keeps what its call names, and the others are left alone.
LEMMA GotoKeeps ==
  ASSUME Typed, NEW h \in Handlers, NEW from \in Label \ {"idle"}, NEW to \in Label,
         Goto(h, from, to)
  PROVE  /\ call' \in [Handlers -> CallType]
         /\ CallsNamed'
         /\ \A g \in Handlers : g # h => call'[g] = call[g]
         /\ call[h].at = from
         /\ call'[h].at = to
         /\ to # "idle" => /\ call'[h].payment = call[h].payment
                           /\ call'[h].process = call[h].process
                           /\ call'[h].report = call[h].report
         /\ call[h].payment \in Payments
         /\ call[h].process \in Processes
         /\ call[h].report \in Nat
         /\ KeyIn(Redis, h) \in Stores \X Payments
         /\ MapKey(h) \in Stores \X Payments
  <1> USE DEF Typed, TypeOK, CallsNamed
  <1>1. call[h].payment \in Payments /\ call[h].process \in Processes /\ call[h].report \in Nat
    BY DEF Goto
  <1>2. KeyIn(Redis, h) \in Stores \X Payments /\ MapKey(h) \in Stores \X Payments
    BY <1>1 DEF Stores, KeyIn, MapKey
  <1>3. CASE to = "idle"
    BY <1>1, <1>2, <1>3 DEF Goto, Idle, CallType, Label
  <1>4. CASE to # "idle"
    <2>1. call' = [call EXCEPT ![h] = [call[h] EXCEPT !.at = to]]
      BY <1>4 DEF Goto
    <2>2. /\ call' \in [Handlers -> CallType]
          /\ \A g \in Handlers : g # h => call'[g] = call[g]
          /\ call'[h] = [call[h] EXCEPT !.at = to]
      BY <2>1 DEF CallType
    <2>3. /\ call'[h].at = to
          /\ call'[h].payment = call[h].payment
          /\ call'[h].process = call[h].process
          /\ call'[h].report = call[h].report
      BY <2>2
    <2>4. CallsNamed'
      BY <1>1, <2>2, <2>3 DEF Goto
    <2> QED
      BY <1>1, <1>2, <2>2, <2>3, <2>4 DEF Goto
  <1> QED
    BY <1>3, <1>4

\* What a Redis command left behind is a key of the payment.
LEMMA UnansweredType ==
  ASSUME NEW h \in Handlers, NEW set \in Unanswered(h), KeyIn(Redis, h) \in Stores \X Payments
  PROVE  set \subseteq {KeyIn(Redis, h)} /\ set \subseteq Stores \X Payments
  BY DEF Unanswered

\* The count of misses stays a count.
LEMMA SeekType ==
  ASSUME Typed, NEW h \in Handlers, NEW s, SeekIn(s, h), call[h].payment \in Payments
  PROVE  missed' \in [Payments -> Nat]
  BY DEF SeekIn, Typed, TypeOK

\* Every step keeps the types.
LEMMA TypedStep == Typed /\ [Next]_vars => Typed'
  <1> SUFFICES ASSUME Typed, [Next]_vars PROVE Typed'
    OBVIOUS
  <1> USE DEF Typed, TypeOK, CallType
  <1>1. ASSUME NEW h \in Handlers, Claim(h) PROVE Typed'
    <2>1. /\ KeyIn(Redis, h) \in Stores \X Payments /\ MapKey(h) \in Stores \X Payments
          /\ call[h].payment \in Payments
          /\ call' \in [Handlers -> CallType] /\ CallsNamed'
      BY <1>1, GotoKeeps DEF Claim, Label
    <2>2. keys' \subseteq Stores \X Payments /\ missed' \in [Payments -> Nat]
      BY <1>1, <2>1, UnansweredType, SeekType DEF Claim
    <2> QED
      BY <1>1, <2>1, <2>2 DEF Claim, Goto
  <1>2. ASSUME NEW h \in Handlers, Duplicate(h) PROVE Typed'
    <2>1. /\ KeyIn(Redis, h) \in Stores \X Payments
          /\ call' \in [Handlers -> CallType] /\ CallsNamed'
      BY <1>2, GotoKeeps DEF Duplicate, Label
    <2>2. keys' \subseteq Stores \X Payments
      BY <1>2, <2>1, UnansweredType DEF Duplicate
    <2> QED
      BY <1>2, <2>1, <2>2 DEF Duplicate, Goto
  <1>3. ASSUME NEW h \in Handlers, Handle(h) PROVE Typed'
    <2> DEFINE p == call[h].payment
    <2>1. p \in Payments /\ call' \in [Handlers -> CallType] /\ CallsNamed'
      BY <1>3, GotoKeeps DEF Handle, Label
    <2>2. StatusAfter(p, Reported(h)) \in {"OPEN", "PAID", "CANCELLED", "COMPLETED", "FAILED"}
      BY <2>1 DEF StatusAfter
    <2>3. moved' \in [Payments -> Nat]
      BY <1>3, <2>1 DEF Handle
    <2>4. status' \in [Payments -> {"OPEN", "PAID", "CANCELLED", "COMPLETED", "FAILED"}]
      BY <1>3, <2>2 DEF Handle
    <2> HIDE DEF p
    <2> QED
      BY <1>3, <2>1, <2>3, <2>4 DEF Handle, Goto
  <1>4. ASSUME NEW h \in Handlers, HandleFails(h) PROVE Typed'
    BY <1>4, GotoKeeps DEF HandleFails, Label, Goto
  <1>5. ASSUME NEW h \in Handlers, Release(h) \/ HandleRefuses(h) PROVE Typed'
    <2>1. call[h].payment \in Payments /\ call' \in [Handlers -> CallType] /\ CallsNamed'
      BY <1>5, GotoKeeps DEF Release, HandleRefuses, Label
    <2> QED
      BY <1>5, <2>1 DEF Release, HandleRefuses, Goto
  <1>6. ASSUME NEW h \in Handlers, Mark(h) PROVE Typed'
    <2>1. /\ KeyIn(Redis, h) \in Stores \X Payments /\ MapKey(h) \in Stores \X Payments
          /\ call' \in [Handlers -> CallType] /\ CallsNamed'
      BY <1>6, GotoKeeps DEF Mark, Label
    <2>2. keys' \subseteq Stores \X Payments
      BY <1>6, <2>1, UnansweredType DEF Mark
    <2> QED
      BY <1>6, <2>1, <2>2 DEF Mark, Goto
  <1>7. ASSUME NEW h \in Handlers, Answer(h) PROVE Typed'
    <2>1. /\ call[h].payment \in Payments /\ call[h].report \in Nat
          /\ call' \in [Handlers -> CallType] /\ CallsNamed'
      BY <1>7, GotoKeeps DEF Answer, Label
    <2>2. acked' \in [Payments -> Nat]
      BY <1>7, <2>1 DEF Answer
    <2> QED
      BY <1>7, <2>1, <2>2 DEF Answer, Goto
  <1>8. ASSUME NEW h \in Handlers, LoseAnswer(h) PROVE Typed'
    BY <1>8, GotoKeeps DEF LoseAnswer, Label, Goto
  <1>9. ASSUME NEW h \in Handlers, NEW p \in Payments, NEW q \in Processes,
               NEW n \in DOMAIN Reports[p], Send(h, p, n, q)
        PROVE Typed'
    <2>1. n \in Nat
      BY CallbacksAssumption DEF CallbacksAssumption
    <2>2. call' = [call EXCEPT ![h] = [at |-> "claim", payment |-> p, process |-> q, report |-> n]]
      BY <1>9 DEF Send
    <2>3. call' \in [Handlers -> CallType] /\ CallsNamed'
      BY <2>1, <2>2 DEF CallsNamed, Label
    <2>4. calls' \in 0..MaxCalls
      BY <1>9, CallbacksAssumption DEF CallbacksAssumption, Send
    <2> QED
      BY <1>9, <2>3, <2>4 DEF Send
  <1>10. ASSUME NEW q \in Processes, Restart(q) PROVE Typed'
    <2>1. \A h \in Handlers : call'[h] = Idle \/ call'[h] = call[h]
      BY <1>10 DEF Restart
    <2>2. call' \in [Handlers -> CallType]
      BY <1>10 DEF Restart, Idle, Label
    <2>3. CallsNamed'
      BY <1>10, <2>1 DEF CallsNamed, Idle
    <2>4. mishap' \subseteq Payments
      BY <1>10 DEF Restart, CallsNamed, Working
    <2>5. /\ keys' \subseteq Stores \X Payments
          /\ missed' \in [Payments -> Nat]
          /\ losses' \in 0..MaxLosses
      BY <1>10, CallbacksAssumption DEF CallbacksAssumption, Restart, Lose
    <2> QED
      BY <1>10, <2>2, <2>3, <2>4, <2>5 DEF Restart, Lose
  <1>11. ASSUME NEW k \in keys, Expire(k) PROVE Typed'
    <2>1. /\ keys' \subseteq Stores \X Payments
          /\ missed' \in [Payments -> Nat]
          /\ losses' \in 0..MaxLosses
      BY <1>11, CallbacksAssumption DEF CallbacksAssumption, Expire, Lose
    <2> QED
      BY <1>11, <2>1 DEF Expire, Lose, CallsNamed
  <1>12. CASE UNCHANGED vars
    BY <1>12 DEF vars, CallsNamed
  <1> QED
    BY <1>1, <1>2, <1>3, <1>4, <1>5, <1>6, <1>7, <1>8, <1>9, <1>10, <1>11, <1>12 DEF Next, Step

\* Every variable keeps its type: no callback, in whatever order callbacks come,
\* fail and are repeated, writes a status a row does not have.
THEOREM TypeCorrect == Spec => []TypeOK
  <1>1. Spec => []Typed
    BY TypedInit, TypedStep, PTL DEF Spec
  <1>2. Typed => TypeOK
    BY DEF Typed
  <1> QED
    BY <1>1, <1>2, PTL

----------------------------------------------------------------------------
(* Every time a payment is taken is paid for by a key or by a miss.        *)

\* The callbacks that are past the payment's key and not done.
Work(p) == {h \in Handlers : Working(h) /\ call[h].payment = p}

\* How often the payment was taken into account.
Uses(p) == IF moved[p] = 0 /\ status[p] # "OPEN" THEN 1 ELSE moved[p]

Kept(p) == IF HasKey(p) THEN 1 ELSE 0

\* The key admits one callback, a miss another: a failure gives its place back.
Accounted == \A p \in Payments : Uses(p) + Cardinality(Work(p)) <= Kept(p) + missed[p]

At(l) == IF l \in {"handle", "release"} THEN 1 ELSE 0

LEMMA WorkCounted == \A p : IsFiniteSet(Work(p)) /\ Cardinality(Work(p)) \in Nat
  BY CallbacksAssumption, FS_Subset, FS_CardinalityType DEF CallbacksAssumption, Work

LEMMA UsesCounted == ASSUME Typed PROVE \A p \in Payments : Uses(p) \in Nat /\ missed[p] \in Nat
  BY DEF Typed, TypeOK, Uses

LEMMA AccountedInit == Init => Accounted
  <1> SUFFICES ASSUME Init, NEW p \in Payments
               PROVE  Uses(p) + Cardinality(Work(p)) <= Kept(p) + missed[p]
    BY DEF Accounted
  <1>1. Work(p) = {}
    BY DEF Init, Work, Working, Idle
  <1>2. Uses(p) = 0 /\ missed[p] = 0 /\ Kept(p) \in {0, 1}
    BY DEF Init, Uses, Kept
  <1> QED
    BY <1>1, <1>2, FS_EmptySet

\* A callback that goes on enters its own payment's work, or leaves it, or neither.
LEMMA WorkMoves ==
  ASSUME Typed, NEW h \in Handlers, NEW from \in Label \ {"idle"}, NEW to \in Label,
         Goto(h, from, to), NEW p \in Payments
  PROVE  Cardinality(Work(p)') =
            IF call[h].payment = p THEN Cardinality(Work(p)) + At(to) - At(from)
                                   ELSE Cardinality(Work(p))
  <1>1. /\ call[h].at = from /\ call'[h].at = to
        /\ to # "idle" => call'[h].payment = call[h].payment
        /\ \A g \in Handlers : g # h => call'[g] = call[g]
    BY GotoKeeps
  <1>2. IsFiniteSet(Work(p)) /\ Cardinality(Work(p)) \in Nat
    BY WorkCounted
  <1>3. CASE call[h].payment # p \/ At(from) = At(to)
    <2>1. Work(p)' = Work(p)
      BY <1>1, <1>3 DEF Work, Working, At
    <2> QED
      BY <1>2, <1>3, <2>1 DEF At
  <1>4. CASE call[h].payment = p /\ At(from) = 0 /\ At(to) = 1
    <2>1. Work(p)' = Work(p) \cup {h} /\ h \notin Work(p)
      BY <1>1, <1>4 DEF Work, Working, At
    <2>2. Cardinality(Work(p) \cup {h}) = Cardinality(Work(p)) + 1
      BY <1>2, <2>1, FS_AddElement
    <2> QED
      BY <1>2, <1>4, <2>1, <2>2
  <1>5. CASE call[h].payment = p /\ At(from) = 1 /\ At(to) = 0
    <2>1. Work(p)' = Work(p) \ {h} /\ h \in Work(p)
      BY <1>1, <1>5 DEF Work, Working, At
    <2>2. Cardinality(Work(p) \ {h}) = Cardinality(Work(p)) - 1
      BY <1>2, <2>1, FS_RemoveElement
    <2> QED
      BY <1>2, <1>5, <2>1, <2>2
  <1> QED
    BY <1>3, <1>4, <1>5 DEF At

\* What a step of one callback must show: for its own payment what it uses is paid for,
\* and the others' keys stay.
LEMMA AccountedMoves ==
  ASSUME Typed, Typed', Accounted, NEW h \in Handlers,
         NEW from \in Label \ {"idle"}, NEW to \in Label, Goto(h, from, to),
         NEW own \in Payments, own = call[h].payment,
         Uses(own)' + At(to) + Kept(own) + missed[own]
            <= Uses(own) + At(from) + Kept(own)' + missed'[own],
         \A x \in Payments \ {own} :
            Uses(x)' = Uses(x) /\ Kept(x)' = Kept(x) /\ missed'[x] = missed[x]
  PROVE  Accounted'
  <1> SUFFICES ASSUME NEW p \in Payments
               PROVE  Uses(p)' + Cardinality(Work(p)') <= Kept(p)' + missed'[p]
    BY DEF Accounted
  <1>1. Uses(p) + Cardinality(Work(p)) <= Kept(p) + missed[p]
    BY DEF Accounted
  <1>2. /\ Uses(p) \in Nat /\ missed[p] \in Nat /\ Uses(p)' \in Nat /\ missed'[p] \in Nat
        /\ Cardinality(Work(p)) \in Nat
        /\ Kept(p) \in Nat /\ Kept(p)' \in Nat /\ At(from) \in Nat /\ At(to) \in Nat
    BY UsesCounted, WorkCounted DEF Kept, At, Typed, TypeOK, Uses
  <1>3. CASE own = p
    <2>1. Cardinality(Work(p)') = Cardinality(Work(p)) + At(to) - At(from)
      BY <1>3, WorkMoves
    <2> QED
      BY <1>1, <1>2, <1>3, <2>1
  <1>4. CASE own # p
    <2>1. Cardinality(Work(p)') = Cardinality(Work(p))
      BY <1>4, WorkMoves
    <2> QED
      BY <1>1, <1>2, <1>4, <2>1
  <1> QED
    BY <1>3, <1>4

\* Setting or deleting a payment's key changes whether that payment has one.
LEMMA OthersKeys ==
  ASSUME NEW p, NEW some, \A k \in some : k[2] = p,
         keys' = keys \cup some \/ keys' = keys \ some, NEW x, x # p
  PROVE  Kept(x)' = Kept(x)
  <1>1. \A s : <<s, x>> \notin some
    OBVIOUS
  <1>2. \A s : <<s, x>> \in keys' <=> <<s, x>> \in keys
    BY <1>1
  <1> QED
    BY <1>2 DEF Kept, HasKey

\* More keys never leave a payment without one.
LEMMA KeysGrow == ASSUME NEW p, keys \subseteq keys' PROVE Kept(p) <= Kept(p)'
  BY DEF Kept, HasKey

\* A callback that gets past a store pays with the key it sets, or with a miss.
LEMMA SeekPays ==
  ASSUME Typed, NEW h \in Handlers, call[h].payment \in Payments, NEW s \in Stores,
         KeyIn(s, h) \notin keys, SeekIn(s, h), KeyIn(s, h) \in keys', keys \subseteq keys',
         NEW own, own = call[h].payment
  PROVE  /\ 1 + Kept(own) + missed[own] <= Kept(own)' + missed'[own]
         /\ \A x \in Payments \ {own} : missed'[x] = missed[x]
  <1>1. missed[own] \in Nat /\ Kept(own)' = 1
    BY DEF Typed, TypeOK, KeyIn, Kept, HasKey
  <1>2. CASE \E t \in Stores \ {s} : KeyIn(t, h) \in keys
    <2>1. missed'[own] = missed[own] + 1 /\ \A x \in Payments \ {own} : missed'[x] = missed[x]
      BY <1>2 DEF SeekIn, Typed, TypeOK
    <2> QED
      BY <1>1, <2>1 DEF Kept
  <1>3. CASE ~ \E t \in Stores \ {s} : KeyIn(t, h) \in keys
    <2>1. missed' = missed
      BY <1>3 DEF SeekIn, Typed, TypeOK
    <2>2. Kept(own) = 0
      BY <1>3 DEF Kept, HasKey, KeyIn
    <2> QED
      BY <1>1, <2>1, <2>2
  <1> QED
    BY <1>2, <1>3

\* Handling a report uses its payment once more at most, and no other.
LEMMA HandleUses ==
  ASSUME Typed, NEW h \in Handlers, Handle(h), NEW own \in Payments, own = call[h].payment
  PROVE  /\ Uses(own)' <= Uses(own) + 1
         /\ \A x \in Payments \ {own} : Uses(x)' = Uses(x)
         /\ \A x \in Payments : Taken(x) => Taken(x)'
  <1> DEFINE s == Reported(h)
  <1>1. /\ moved[own] \in Nat
        /\ moved'[own] = IF Credited(own, s) \/ GivenBack(own, s) THEN moved[own] + 1 ELSE moved[own]
        /\ status'[own] = StatusAfter(own, s)
        /\ \A x \in Payments \ {own} : moved'[x] = moved[x] /\ status'[x] = status[x]
    BY DEF Handle, Typed, TypeOK
  <1> HIDE DEF s
  <1>2. Uses(own)' <= Uses(own) + 1
    BY <1>1 DEF Uses
  <1>3. \A x \in Payments \ {own} : Uses(x)' = Uses(x)
    BY <1>1 DEF Uses
  <1>4. Taken(own) => Taken(own)'
    BY <1>1 DEF Taken, StatusAfter
  <1> QED
    BY <1>1, <1>2, <1>3, <1>4 DEF Taken

LEMMA AccountedStep == Typed /\ Accounted /\ [Next]_vars => Accounted'
  <1> SUFFICES ASSUME Typed, Accounted, [Next]_vars PROVE Accounted'
    OBVIOUS
  <1>0. Typed'
    BY TypedStep
  <1> USE DEF Label
  <1>1. ASSUME NEW h \in Handlers, Claim(h) PROVE Accounted'
    <2>0. PICK own : own = call[h].payment
      OBVIOUS
    <2>1. own \in Payments /\ call[h].process \in Processes /\ Goto(h, "claim", "handle")
      BY <1>1, <2>0, GotoKeeps DEF Claim
    <2>2. PICK s \in Stores, added \in SUBSET {KeyIn(Redis, h), MapKey(h)} :
             /\ KeyIn(s, h) \notin keys /\ KeyIn(s, h) \in added
             /\ keys' = keys \cup added /\ SeekIn(s, h)
      <3>1. CASE /\ KeyIn(Redis, h) \notin keys
                 /\ keys' = keys \cup {KeyIn(Redis, h)}
                 /\ SeekIn(Redis, h)
        BY <3>1 DEF Stores
      <3>2. CASE /\ MapKey(h) \notin keys
                 /\ \E set \in Unanswered(h) : keys' = keys \cup set \cup {MapKey(h)}
                 /\ SeekIn(call[h].process, h)
        <4>1. PICK set \in Unanswered(h) : keys' = keys \cup (set \cup {MapKey(h)})
          BY <3>2
        <4>2. set \cup {MapKey(h)} \in SUBSET {KeyIn(Redis, h), MapKey(h)}
          BY DEF Unanswered
        <4>3. call[h].process \in Stores /\ MapKey(h) = KeyIn(call[h].process, h)
          BY <2>1 DEF Stores, MapKey
        <4> QED
          BY <3>2, <4>1, <4>2, <4>3
      <3> QED
        BY <1>1, <3>1, <3>2 DEF Claim
    <2>3. /\ 1 + Kept(own) + missed[own] <= Kept(own)' + missed'[own]
          /\ \A x \in Payments \ {own} : missed'[x] = missed[x]
      BY <2>0, <2>1, <2>2, SeekPays
    <2>4. \A x \in Payments \ {own} : Kept(x)' = Kept(x)
      <3>1. \A k \in added : k[2] = own
        BY <2>0, <2>2 DEF KeyIn, MapKey
      <3> QED
        BY <2>2, <3>1, OthersKeys
    <2>5. \A x \in Payments : Uses(x)' = Uses(x) /\ Uses(x) \in Nat
      BY <1>1, UsesCounted DEF Claim, Uses
    <2>6. Kept(own) \in Nat /\ Kept(own)' \in Nat /\ missed[own] \in Nat /\ missed'[own] \in Nat
      BY <1>0, <2>1 DEF Kept, Typed, TypeOK
    <2> QED
      BY <1>0, <2>0, <2>1, <2>3, <2>4, <2>5, <2>6, AccountedMoves DEF At
  <1>2. ASSUME NEW h \in Handlers, NEW from \in Label \ {"idle"}, NEW to \in Label,
               Goto(h, from, to), At(to) <= At(from),
               NEW added, \A k \in added : k[2] = call[h].payment, keys' = keys \cup added,
               UNCHANGED <<moved, status, missed>>
        PROVE  Accounted'
    <2>0. PICK own : own = call[h].payment
      OBVIOUS
    <2>1. own \in Payments
      BY <1>2, <2>0, GotoKeeps
    <2>2. \A x \in Payments \ {own} : Kept(x)' = Kept(x)
      <3>1. \A k \in added : k[2] = own
        BY <1>2, <2>0
      <3> QED
        BY <1>2, <3>1, OthersKeys
    <2>3. Kept(own) <= Kept(own)'
      BY <1>2, KeysGrow
    <2>4. \A x \in Payments : Uses(x)' = Uses(x) /\ Uses(x) \in Nat /\ missed[x] \in Nat
      BY <1>2, UsesCounted DEF Uses
    <2>5. /\ Kept(own) \in Nat /\ Kept(own)' \in Nat /\ At(from) \in Nat /\ At(to) \in Nat
      BY DEF Kept, At
    <2>6. Uses(own)' + At(to) + Kept(own) + missed[own]
             <= Uses(own) + At(from) + Kept(own)' + missed'[own]
      BY <1>2, <2>1, <2>3, <2>4, <2>5
    <2> QED
      BY <1>0, <1>2, <2>0, <2>1, <2>2, <2>4, <2>6, AccountedMoves
  <1>3. ASSUME NEW h \in Handlers, Duplicate(h) PROVE Accounted'
    <2>1. PICK added \in SUBSET {KeyIn(Redis, h)} : keys' = keys \cup added
      BY <1>3 DEF Duplicate, Unanswered
    <2> QED
      BY <1>2, <1>3, <2>1 DEF Duplicate, KeyIn, At
  <1>4. ASSUME NEW h \in Handlers, Mark(h) PROVE Accounted'
    <2>1. PICK added \in SUBSET {KeyIn(Redis, h), MapKey(h)} : keys' = keys \cup added
      <3>1. CASE \E set \in Unanswered(h) : keys' = keys \cup set \cup {MapKey(h)}
        <4>1. PICK set \in Unanswered(h) : keys' = keys \cup (set \cup {MapKey(h)})
          BY <3>1
        <4>2. set \cup {MapKey(h)} \in SUBSET {KeyIn(Redis, h), MapKey(h)}
          BY DEF Unanswered
        <4> QED
          BY <4>1, <4>2
      <3>2. CASE keys' = IF useRedis THEN keys \cup {KeyIn(Redis, h)} ELSE keys
        <4>1. keys' = keys \cup (IF useRedis THEN {KeyIn(Redis, h)} ELSE {})
          BY <3>2
        <4> QED
          BY <4>1
      <3> QED
        BY <1>4, <3>1, <3>2 DEF Mark
    <2> QED
      BY <1>2, <1>4, <2>1 DEF Mark, KeyIn, MapKey, At
  <1>5. ASSUME NEW h \in Handlers, HandleFails(h) \/ HandleRefuses(h) PROVE Accounted'
    <2>0. keys' = keys
      BY <1>5 DEF HandleFails, HandleRefuses
    <2>1. PICK none \in SUBSET {} : keys' = keys \cup none
      BY <2>0
    <2>2. \A k \in none : k[2] = call[h].payment
      OBVIOUS
    <2>3. PICK to \in {"release", "idle"} : Goto(h, "handle", to)
      BY <1>5 DEF HandleFails, HandleRefuses
    <2>4. At(to) <= At("handle")
      BY DEF At
    <2> QED
      BY <1>2, <1>5, <2>1, <2>2, <2>3, <2>4 DEF HandleFails, HandleRefuses
  <1>6. ASSUME NEW h \in Handlers, Answer(h) \/ LoseAnswer(h) PROVE Accounted'
    <2>1. PICK none \in SUBSET {} : keys' = keys \cup none
      BY <1>6 DEF Answer, LoseAnswer
    <2>2. \A k \in none : k[2] = call[h].payment
      OBVIOUS
    <2>3. Goto(h, "answer", "idle") /\ At("idle") <= At("answer")
      BY <1>6 DEF Answer, LoseAnswer, At
    <2> QED
      BY <1>2, <1>6, <2>1, <2>2, <2>3 DEF Answer, LoseAnswer
  <1>7. ASSUME NEW h \in Handlers, Handle(h) PROVE Accounted'
    <2>0. PICK own : own = call[h].payment
      OBVIOUS
    <2>1. own \in Payments /\ Goto(h, "handle", "mark")
      BY <1>7, <2>0, GotoKeeps DEF Handle
    <2>2. Uses(own)' <= Uses(own) + 1 /\ \A x \in Payments \ {own} : Uses(x)' = Uses(x)
      BY <1>7, <2>0, <2>1, HandleUses
    <2>3. \A x : Kept(x)' = Kept(x) /\ missed'[x] = missed[x]
      BY <1>7 DEF Handle, Kept, HasKey
    <2>4. Uses(own) \in Nat /\ Uses(own)' \in Nat /\ missed[own] \in Nat /\ Kept(own) \in Nat
      BY <1>0, <2>1, UsesCounted DEF Kept, Typed, TypeOK, Uses
    <2>5. Uses(own)' + At("mark") + Kept(own) + missed[own]
             <= Uses(own) + At("handle") + Kept(own)' + missed'[own]
      BY <2>2, <2>3, <2>4 DEF At
    <2> QED
      BY <1>0, <2>0, <2>1, <2>2, <2>3, <2>5, AccountedMoves
  <1>8. ASSUME NEW h \in Handlers, Release(h) PROVE Accounted'
    <2>0. PICK own : own = call[h].payment
      OBVIOUS
    <2>1. own \in Payments /\ Goto(h, "release", "idle")
      BY <1>8, <2>0, GotoKeeps DEF Release
    <2>2. PICK taken \in SUBSET {KeyIn(Redis, h), MapKey(h)} : keys' = keys \ taken
      BY <1>8 DEF Release
    <2>3. \A x \in Payments \ {own} : Kept(x)' = Kept(x)
      <3>1. \A k \in taken : k[2] = own
        BY <2>0, <2>2 DEF KeyIn, MapKey
      <3> QED
        BY <2>2, <3>1, OthersKeys
    <2>4. \A x \in Payments : Uses(x)' = Uses(x) /\ Uses(x) \in Nat /\ missed[x] \in Nat
      BY <1>8, UsesCounted DEF Uses, Release
    <2>5. Kept(own) <= 1 + Kept(own)' /\ Kept(own) \in Nat /\ Kept(own)' \in Nat
      BY DEF Kept
    <2>6. Uses(own)' + At("idle") + Kept(own) + missed[own]
             <= Uses(own) + At("release") + Kept(own)' + missed'[own]
      BY <1>8, <2>1, <2>4, <2>5 DEF At, Release
    <2> QED
      BY <1>0, <1>8, <2>0, <2>1, <2>3, <2>4, <2>6, AccountedMoves DEF Release
  <1>9. ASSUME NEW h \in Handlers, NEW p \in Payments, NEW q \in Processes,
               NEW n \in DOMAIN Reports[p], Send(h, p, n, q)
        PROVE  Accounted'
    <2>1. /\ call[h] = Idle /\ call'[h].at = "claim"
          /\ \A g \in Handlers \ {h} : call'[g] = call[g]
      BY <1>9 DEF Send, Typed, TypeOK
    <2>2. \A x : Work(x)' = Work(x)
      BY <2>1 DEF Work, Working, Idle
    <2> QED
      BY <1>9, <2>2 DEF Send, Accounted, Uses, Kept, HasKey
  <1>10. ASSUME NEW lost, Lose(lost), \A h \in Handlers : call'[h] \in {Idle, call[h]}
         PROVE  Accounted'
    <2> SUFFICES ASSUME NEW p \in Payments
                 PROVE  Uses(p)' + Cardinality(Work(p)') <= Kept(p)' + missed'[p]
      BY DEF Accounted
    <2>1. Work(p)' \subseteq Work(p)
      BY <1>10 DEF Work, Working, Idle
    <2>2. /\ Cardinality(Work(p)') <= Cardinality(Work(p))
          /\ Cardinality(Work(p)) \in Nat /\ Cardinality(Work(p)') \in Nat
      BY <2>1, WorkCounted, FS_Subset, FS_CardinalityType
    <2>3. Uses(p)' = Uses(p) /\ Uses(p) \in Nat /\ missed[p] \in Nat
      BY <1>10, UsesCounted DEF Lose, Uses
    <2>4. missed'[p] = IF HasKey(p) /\ ~HasKey(p)' THEN missed[p] + 1 ELSE missed[p]
      BY <1>10 DEF Lose
    <2>5. Kept(p) + missed[p] <= Kept(p)' + missed'[p] /\ Kept(p) \in Nat /\ Kept(p)' \in Nat
      BY <2>3, <2>4 DEF Kept
    <2>6. Uses(p) + Cardinality(Work(p)) <= Kept(p) + missed[p]
      BY DEF Accounted
    <2>7. missed'[p] \in Nat
      BY <2>3, <2>4
    <2> QED
      BY <2>2, <2>3, <2>5, <2>6, <2>7
  <1>11. CASE UNCHANGED vars
    BY <1>11 DEF vars, Accounted, Uses, Kept, HasKey, Work, Working
  <1>12. ASSUME NEW q \in Processes, Restart(q) PROVE Accounted'
    BY <1>10, <1>12 DEF Restart
  <1>13. ASSUME NEW k \in keys, Expire(k) PROVE Accounted'
    BY <1>10, <1>13 DEF Expire
  <1> QED
    BY <1>1, <1>3, <1>4, <1>5, <1>6, <1>7, <1>8, <1>9, <1>11, <1>12, <1>13 DEF Next, Step

\* A payment moves money once, and once more at most for each time its key was missed,
\* whatever is repeated, overtaken, lost or cut short, and whichever commands Redis fails.
THEOREM PaymentMovedOnce == Spec => []MovedOncePerMiss
  <1>1. Spec => [](Typed /\ Accounted)
    BY TypedInit, TypedStep, AccountedInit, AccountedStep, PTL DEF Spec
  <1>2. Typed /\ Accounted => MovedOncePerMiss
    <2> SUFFICES ASSUME Typed, Accounted, NEW p \in Payments PROVE moved[p] <= 1 + missed[p]
      BY DEF MovedOncePerMiss
    <2>1. Uses(p) + Cardinality(Work(p)) <= Kept(p) + missed[p]
      BY DEF Accounted
    <2>2. moved[p] \in Nat /\ missed[p] \in Nat /\ Cardinality(Work(p)) \in Nat
      BY WorkCounted DEF Typed, TypeOK
    <2>3. Uses(p) \in Nat /\ moved[p] <= Uses(p) /\ Kept(p) \in {0, 1}
      BY <2>2 DEF Uses, Kept
    <2> QED
      BY <2>1, <2>2, <2>3
  <1> QED
    BY <1>1, <1>2, PTL

\* What a payment made of its order or withdrawal stays, unless its key was missed.
THEOREM OutcomeStays == Spec => OutcomeFixed
  <1>1. Spec => [](Typed /\ Accounted)
    BY TypedInit, TypedStep, AccountedInit, AccountedStep, PTL DEF Spec
  <1>2. Typed /\ Accounted /\ [Next]_vars =>
           [\A p \in Payments :
               status[p] # "OPEN" /\ missed[p] = 0 => status'[p] = status[p]]_vars
    <2> SUFFICES ASSUME Typed, Accounted, [Next]_vars,
                        NEW p \in Payments, status[p] # "OPEN", missed[p] = 0
                 PROVE  status'[p] = status[p]
      OBVIOUS
    <2>1. ASSUME NEW h \in Handlers, Handle(h) PROVE status'[p] = status[p]
      <3>1. CASE call[h].payment = p
        <4>1. Work(p) # {}
          BY <2>1, <3>1 DEF Work, Working, Handle, Goto
        <4>2. Cardinality(Work(p)) # 0 /\ Cardinality(Work(p)) \in Nat
          BY <4>1, WorkCounted, FS_EmptySet
        <4>3. Uses(p) + Cardinality(Work(p)) <= Kept(p) + 0
          BY DEF Accounted
        <4>4. Uses(p) \in Nat /\ Uses(p) # 0 /\ Kept(p) \in {0, 1}
          BY DEF Uses, Kept, Typed, TypeOK
        <4> QED
          BY <4>2, <4>3, <4>4
      <3>2. CASE call[h].payment # p
        BY <2>1, <3>2 DEF Handle, Typed, TypeOK
      <3> QED
        BY <3>1, <3>2
    <2>2. (\E h \in Handlers : Handle(h)) \/ status' = status
      BY DEF Next, Step, Claim, Duplicate, HandleFails, HandleRefuses, Release, Mark, Answer,
             LoseAnswer, Send, Restart, Expire, Lose, vars
    <2> QED
      BY <2>1, <2>2
  <1> QED
    BY <1>1, <1>2, PTL DEF Spec, OutcomeFixed

----------------------------------------------------------------------------
(* A key left behind loses nothing, but for three mishaps.                 *)

\* Handling a report that is about to write something takes the payment into account.
LEMMA HandleTakes ==
  ASSUME Typed, NEW h \in Handlers, Handle(h), NEW p, p = call[h].payment, Decisive(p)
  PROVE  Taken(p)'
  <1> DEFINE s == Reported(h)
  <1>1. p \in Payments /\ call[h].report \in DOMAIN Reports[p]
    BY DEF Handle, Goto, Typed, CallsNamed
  <1>2. /\ moved[p] \in Nat
        /\ moved'[p] = IF Credited(p, s) \/ GivenBack(p, s) THEN moved[p] + 1 ELSE moved[p]
        /\ status'[p] = StatusAfter(p, s)
    BY <1>1 DEF Handle, Typed, TypeOK
  <1>3. Kind[p] \in {"topup", "order", "withdrawal"}
    BY <1>1, CallbacksAssumption DEF CallbacksAssumption
  <1>4. s \in CASE Kind[p] = "topup" -> {"PAID", "SETTLED"}
                [] Kind[p] = "order" -> {"PAID", "SETTLED", "EXPIRED", "FAILED"}
                [] OTHER             -> {"COMPLETED", "FAILED"}
    BY <1>1 DEF Decisive, Reported
  <1> HIDE DEF s
  <1>5. CASE Kind[p] = "topup"
    BY <1>2, <1>4, <1>5 DEF Credited, Paid, Taken
  <1>6. CASE Kind[p] = "order"
    BY <1>2, <1>4, <1>6 DEF StatusAfter, Paid, Taken
  <1>7. CASE Kind[p] = "withdrawal"
    BY <1>2, <1>4, <1>7 DEF StatusAfter, GivenBack, Taken
  <1> QED
    BY <1>3, <1>5, <1>6, <1>7

\* Whether the callback is past the key and not done, where its process can delete it.
WorksOn(h, k) ==
    /\ Working(h)
    /\ call[h].payment = k[2]
    /\ k[1] \in {Redis, call[h].process}

\* Nothing is lost by refusing a payment's repetitions.
Spared(p) == Taken(p) \/ ~Decisive(p) \/ p \in mishap

\* A callback that is about to mark the key has written what its report says.
MarkedTaken == \A h \in Handlers : call[h].at = "mark" => Spared(call[h].payment)

Honest == KeyMeansTaken /\ MarkedTaken

LEMMA HonestIs == KeyMeansTaken <=> \A k \in keys : Spared(k[2]) \/ \E h \in Handlers : WorksOn(h, k)
  BY DEF KeyMeansTaken, Spared, WorksOn

\* What is taken into account stays so, and mishaps are not forgotten.
LEMMA SparedStays ==
  ASSUME Typed, [Next]_vars PROVE \A p \in Payments : Spared(p) => Spared(p)'
  <1> SUFFICES ASSUME NEW p \in Payments, Spared(p) PROVE Spared(p)'
    OBVIOUS
  <1>1. ASSUME NEW h \in Handlers, Handle(h) PROVE (Taken(p) => Taken(p)') /\ mishap' = mishap
    <2>1. call[h].payment \in Payments
      BY <1>1 DEF Handle, Goto, Typed, CallsNamed
    <2> QED
      BY <1>1, <2>1, HandleUses DEF Handle
  <1>2. CASE UNCHANGED <<moved, status>> /\ mishap \subseteq mishap'
    BY <1>2 DEF Spared, Taken
  <1>3. \/ \E h \in Handlers : Handle(h)
        \/ UNCHANGED <<moved, status>> /\ mishap \subseteq mishap'
    BY DEF Next, Step, Claim, Duplicate, HandleFails, HandleRefuses, Release, Mark, Answer,
           LoseAnswer, Send, Restart, Expire, Lose, vars
  <1> QED
    BY <1>1, <1>2, <1>3 DEF Spared

\* A step of one callback keeps the keys honest if it does so of the keys that it adds and
\* of those it worked on.
LEMMA HonestMoves ==
  ASSUME Typed, Typed', Honest, [Next]_vars, NEW h \in Handlers,
         \A g \in Handlers \ {h} : call'[g] = call[g],
         \A k \in keys' \ keys : Spared(k[2])' \/ \E g \in Handlers : WorksOn(g, k)',
         \A k \in keys' : WorksOn(h, k) => WorksOn(h, k)' \/ Spared(k[2])',
         NEW own, call'[h].payment = own, call'[h].at = "mark" => Spared(own)'
  PROVE  Honest'
  <1>1. MarkedTaken'
    <2> SUFFICES ASSUME NEW g \in Handlers, call'[g].at = "mark", NEW p, p = call'[g].payment
                 PROVE  Spared(p)'
      BY DEF MarkedTaken, Spared, Taken, Decisive
    <2>1. CASE g = h
      BY <2>1
    <2>2. CASE g # h
      <3>1. p \in Payments /\ Spared(p)
        BY <2>2 DEF Typed, CallsNamed, Honest, MarkedTaken
      <3> QED
        BY <3>1, SparedStays
    <2> QED
      BY <2>1, <2>2
  <1>2. ASSUME NEW k \in keys' PROVE Spared(k[2])' \/ \E g \in Handlers : WorksOn(g, k)'
    <2>1. k[2] \in Payments
      BY DEF Typed, TypeOK
    <2>2. CASE k \in keys /\ Spared(k[2])
      BY <2>1, <2>2, SparedStays
    <2>3. CASE k \in keys /\ ~Spared(k[2])
      <3>1. PICK g \in Handlers : WorksOn(g, k)
        BY <2>3, HonestIs DEF Honest
      <3>2. CASE g = h
        BY <3>1, <3>2
      <3>3. CASE g # h
        BY <3>1, <3>3 DEF WorksOn, Working
      <3> QED
        BY <3>2, <3>3
    <2> QED
      BY <2>2, <2>3
  <1>3. KeyMeansTaken'
    BY <1>2 DEF KeyMeansTaken, Spared, WorksOn
  <1> QED
    BY <1>1, <1>3 DEF Honest

LEMMA HonestStep == Typed /\ Honest /\ [Next]_vars => Honest'
  <1> SUFFICES ASSUME Typed, Honest, [Next]_vars PROVE Honest'
    OBVIOUS
  <1>0. Typed' /\ \A p \in Payments : Spared(p) => Spared(p)'
    BY TypedStep, SparedStays
  <1> USE DEF Label
  <1>1. ASSUME NEW h \in Handlers, Claim(h) PROVE Honest'
    <2>1. /\ call[h].at = "claim" /\ call'[h].at = "handle"
          /\ call'[h].payment = call[h].payment /\ call'[h].process = call[h].process
          /\ \A g \in Handlers \ {h} : call'[g] = call[g]
      BY <1>1, GotoKeeps DEF Claim
    <2>2. \A k \in keys' \ keys : k \in {KeyIn(Redis, h), MapKey(h)}
      BY <1>1 DEF Claim, Unanswered
    <2>3. \A k \in keys' \ keys : WorksOn(h, k)'
      BY <2>1, <2>2 DEF WorksOn, Working, KeyIn, MapKey
    <2>4. \A k : ~WorksOn(h, k)
      BY <2>1 DEF WorksOn, Working
    <2> QED
      BY <1>0, <2>1, <2>3, <2>4, HonestMoves
  <1>2. ASSUME NEW h \in Handlers, Duplicate(h) PROVE Honest'
    <2>1. /\ call[h].at = "claim" /\ call'[h].at = "answer"
          /\ \A g \in Handlers \ {h} : call'[g] = call[g]
          /\ call[h].payment \in Payments
      BY <1>2, GotoKeeps DEF Duplicate
    <2>2. ASSUME NEW k \in keys' \ keys
          PROVE  Spared(k[2])' \/ \E g \in Handlers : WorksOn(g, k)'
      <3>1. k = KeyIn(Redis, h) /\ MapKey(h) \in keys
        BY <1>2, <2>2 DEF Duplicate, Unanswered
      <3>2. MapKey(h)[2] = k[2] /\ k[1] = Redis /\ k[2] \in Payments
        BY <2>1, <3>1 DEF MapKey, KeyIn
      <3>3. Spared(k[2]) \/ \E g \in Handlers : WorksOn(g, MapKey(h))
        BY <3>1, <3>2, HonestIs DEF Honest
      <3>4. ASSUME NEW g \in Handlers, WorksOn(g, MapKey(h)) PROVE WorksOn(g, k)'
        <4>1. g # h
          BY <2>1, <3>4 DEF WorksOn, Working
        <4> QED
          BY <2>1, <3>2, <3>4, <4>1 DEF WorksOn, Working
      <3> QED
        BY <1>0, <3>2, <3>3, <3>4
    <2>3. \A k : ~WorksOn(h, k)
      BY <2>1 DEF WorksOn, Working
    <2> QED
      BY <1>0, <2>1, <2>2, <2>3, HonestMoves
  <1>3. ASSUME NEW h \in Handlers, Handle(h) PROVE Honest'
    <2>1. /\ call'[h].at = "mark" /\ call'[h].payment = call[h].payment
          /\ \A g \in Handlers \ {h} : call'[g] = call[g]
      BY <1>3, GotoKeeps DEF Handle
    <2>0. PICK p : p = call[h].payment
      OBVIOUS
    <2>2. Spared(p)'
      <3>1. Decisive(p) => Taken(p)'
        BY <1>3, <2>0, HandleTakes
      <3> QED
        BY <3>1 DEF Spared, Decisive
    <2>3. keys' = keys
      BY <1>3 DEF Handle
    <2>4. \A k : WorksOn(h, k) => k[2] = p
      BY <2>0 DEF WorksOn
    <2> QED
      BY <1>0, <2>0, <2>1, <2>2, <2>3, <2>4, HonestMoves
  <1>4. ASSUME NEW h \in Handlers, HandleFails(h) PROVE Honest'
    <2>1. /\ call[h].at = "handle" /\ call'[h].at = "release"
          /\ call'[h].payment = call[h].payment /\ call'[h].process = call[h].process
          /\ \A g \in Handlers \ {h} : call'[g] = call[g]
      BY <1>4, GotoKeeps DEF HandleFails
    <2>2. keys' = keys /\ \A k : WorksOn(h, k) => WorksOn(h, k)'
      BY <1>4, <2>1 DEF HandleFails, WorksOn, Working
    <2> QED
      BY <1>0, <2>1, <2>2, HonestMoves
  <1>5. ASSUME NEW h \in Handlers, HandleRefuses(h) PROVE Honest'
    <2>1. call'[h].at = "idle" /\ \A g \in Handlers \ {h} : call'[g] = call[g]
      BY <1>5, GotoKeeps DEF HandleRefuses
    <2>2. keys' = keys /\ call[h].payment \in mishap'
      BY <1>5 DEF HandleRefuses
    <2>3. \A k : WorksOn(h, k) => Spared(k[2])'
      BY <2>2 DEF WorksOn, Spared
    <2> QED
      BY <1>0, <2>1, <2>2, <2>3, HonestMoves
  <1>6. ASSUME NEW h \in Handlers, Release(h) PROVE Honest'
    <2>1. call'[h].at = "idle" /\ \A g \in Handlers \ {h} : call'[g] = call[g]
      BY <1>6, GotoKeeps DEF Release
    <2>2. /\ keys' \subseteq keys /\ MapKey(h) \notin keys'
          /\ KeyIn(Redis, h) \notin keys' \/ call[h].payment \in mishap'
      BY <1>6 DEF Release
    <2>3. ASSUME NEW k \in keys', WorksOn(h, k) PROVE Spared(k[2])'
      <3>1. k \in {KeyIn(Redis, h), MapKey(h)}
        BY <1>0, <2>3 DEF WorksOn, KeyIn, MapKey, Typed, TypeOK
      <3> QED
        BY <2>2, <2>3, <3>1 DEF WorksOn, Spared
    <2> QED
      BY <1>0, <2>1, <2>2, <2>3, HonestMoves
  <1>7. ASSUME NEW h \in Handlers, Mark(h) PROVE Honest'
    <2>1. /\ call[h].at = "mark" /\ call'[h].at = "answer" /\ call[h].payment \in Payments
          /\ \A g \in Handlers \ {h} : call'[g] = call[g]
      BY <1>7, GotoKeeps DEF Mark
    <2>3. \A k \in keys' \ keys : k \in {KeyIn(Redis, h), MapKey(h)}
      BY <1>7 DEF Mark, Unanswered
    <2>4. PICK p : p = call[h].payment
      OBVIOUS
    <2>5. \A k \in keys' \ keys : k[2] = p
      BY <2>3, <2>4 DEF KeyIn, MapKey
    <2>6. p = call[h].payment /\ Spared(p)'
      BY <1>0, <2>1, <2>4 DEF Honest, MarkedTaken
    <2>7. \A k : ~WorksOn(h, k)
      BY <2>1 DEF WorksOn, Working
    <2> QED
      BY <1>0, <2>1, <2>5, <2>6, <2>7, HonestMoves
  <1>8. ASSUME NEW h \in Handlers,
               \/ Answer(h) \/ LoseAnswer(h)
               \/ \E p \in Payments, q \in Processes : \E n \in DOMAIN Reports[p] : Send(h, p, n, q)
        PROVE  Honest'
    <2>1. /\ call[h].at \in {"answer", "idle"} /\ call'[h].at \in {"idle", "claim"}
          /\ \A g \in Handlers \ {h} : call'[g] = call[g]
          /\ keys' = keys
      <3>1. CASE Answer(h) \/ LoseAnswer(h)
        BY <3>1, GotoKeeps DEF Answer, LoseAnswer
      <3>2. CASE \E p \in Payments, q \in Processes : \E n \in DOMAIN Reports[p] : Send(h, p, n, q)
        BY <3>2 DEF Send, Idle, Typed, TypeOK
      <3> QED
        BY <1>8, <3>1, <3>2
    <2>2. \A k : ~WorksOn(h, k)
      BY <2>1 DEF WorksOn, Working
    <2> QED
      BY <1>0, <2>1, <2>2, HonestMoves
  <1>9. ASSUME NEW q \in Processes, Restart(q) PROVE Honest'
    <2>1. \A h \in Handlers : call'[h] = IF call[h].process = q THEN Idle ELSE call[h]
      BY <1>9 DEF Restart
    <2>2. keys' = {k \in keys : k[1] # q}
      BY <1>9 DEF Restart, Lose
    <2>3. ASSUME NEW k \in keys' PROVE Spared(k[2])' \/ \E h \in Handlers : WorksOn(h, k)'
      <3>1. k \in keys /\ k[1] # q /\ k[2] \in Payments
        BY <2>2 DEF Typed, TypeOK
      <3>2. CASE Spared(k[2])
        BY <1>0, <3>1, <3>2
      <3>3. ASSUME NEW h \in Handlers, WorksOn(h, k), call[h].process = q PROVE Spared(k[2])'
        BY <1>9, <3>3 DEF Restart, WorksOn, Spared
      <3>4. ASSUME NEW h \in Handlers, WorksOn(h, k), call[h].process # q PROVE WorksOn(h, k)'
        BY <2>1, <3>4 DEF WorksOn, Working
      <3> QED
        BY <3>1, <3>2, <3>3, <3>4, HonestIs DEF Honest
    <2>4. KeyMeansTaken'
      BY <2>3 DEF KeyMeansTaken, Spared, WorksOn
    <2>5. MarkedTaken'
      <3> SUFFICES ASSUME NEW h \in Handlers, call'[h].at = "mark", NEW p, p = call'[h].payment
                   PROVE  Spared(p)'
        BY DEF MarkedTaken, Spared, Taken, Decisive
      <3>1. call'[h] = call[h] /\ p \in Payments
        BY <2>1 DEF Idle, Typed, CallsNamed
      <3>2. Spared(p)
        BY <3>1 DEF Honest, MarkedTaken
      <3> QED
        BY <1>0, <3>1, <3>2
    <2> QED
      BY <2>4, <2>5 DEF Honest
  <1>10. CASE (\E k \in keys : Expire(k)) \/ UNCHANGED vars
    <2>1. keys' \subseteq keys /\ UNCHANGED <<call, moved, status, mishap>>
      BY <1>10 DEF Expire, Lose, vars
    <2> QED
      BY <2>1 DEF Honest, KeyMeansTaken, MarkedTaken, Spared, Taken, Working, Decisive
  <1> QED
    BY <1>1, <1>2, <1>3, <1>4, <1>5, <1>6, <1>7, <1>8, <1>9, <1>10 DEF Next, Step

\* A key nobody is working on belongs to a payment that was taken into account, so what is
\* refused as a duplicate was done: but for an invalid payload after the key was set, a
\* deletion Redis did not carry out, or a process that died before the writes.
THEOREM KeysAreHonest == Spec => []KeyMeansTaken
  <1>1. Init => Honest
    BY DEF Init, Honest, KeyMeansTaken, MarkedTaken, Idle
  <1>2. Spec => [](Typed /\ Honest)
    BY <1>1, TypedInit, TypedStep, HonestStep, PTL DEF Spec
  <1>3. Honest => KeyMeansTaken
    BY DEF Honest
  <1> QED
    BY <1>2, <1>3, PTL
=============================================================================
