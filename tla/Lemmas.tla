------------------------------- MODULE Lemmas -------------------------------
(***************************************************************************)
(* Lemmas the services' proofs share: the balance movements, and the sums  *)
(* over finite sets that say where the money is.                           *)
(*                                                                         *)
(* SumFunctionOnSet is a fold, defined by recursion over the set.  What it *)
(* adds up to is shown by well-founded induction on the subsets of a       *)
(* finite set, in a form that speaks of a set of subsets and not of a      *)
(* predicate.                                                              *)
(***************************************************************************)
EXTENDS Wallet, FiniteSetTheorems, TLAPS

----------------------------------------------------------------------------
(* Balance movements *)

\* What each balance movement of WalletService does to the three columns.
LEMMA RowMoves ==
    ASSUME NEW w \in Row, NEW a \in Int
    PROVE  /\ LockBalance(w, a) \in Row
           /\ LockBalance(w, a).version = w.version + 1
           /\ Available(LockBalance(w, a)) = Available(w) - a
           /\ UnlockBalance(w, a) \in Row
           /\ UnlockBalance(w, a).version = w.version + 1
           /\ Available(UnlockBalance(w, a)) = Available(w) + a
           /\ TransferOut(w, a) \in Row
           /\ TransferOut(w, a).version = w.version + 1
           /\ Available(TransferOut(w, a)) = Available(w)
           /\ TransferIn(w, a) \in Row
           /\ TransferIn(w, a).version = w.version + 1
           /\ Available(TransferIn(w, a)) = Available(w) + a
           /\ TakeLocked(w, a) \in Row
           /\ TakeLocked(w, a).version = w.version
           /\ Available(TakeLocked(w, a)) = Available(w)
           /\ DropLock(w, a) \in Row
           /\ DropLock(w, a).version = w.version
           /\ Available(DropLock(w, a)) = Available(w) + a
  <1>1. /\ LockBalance(w, a) \in Row
        /\ LockBalance(w, a).version = w.version + 1
        /\ Available(LockBalance(w, a)) = Available(w) - a
    BY DEF Row, LockBalance, Add, Available
  <1>2. /\ UnlockBalance(w, a) \in Row
        /\ UnlockBalance(w, a).version = w.version + 1
        /\ Available(UnlockBalance(w, a)) = Available(w) + a
    BY DEF Row, UnlockBalance, Add, Available
  <1>3. /\ TransferOut(w, a) \in Row
        /\ TransferOut(w, a).version = w.version + 1
        /\ Available(TransferOut(w, a)) = Available(w)
    BY DEF Row, TransferOut, Add, Available
  <1>4. /\ TransferIn(w, a) \in Row
        /\ TransferIn(w, a).version = w.version + 1
        /\ Available(TransferIn(w, a)) = Available(w) + a
    BY DEF Row, TransferIn, Add, Available
  <1>5. /\ TakeLocked(w, a) \in Row
        /\ TakeLocked(w, a).version = w.version
        /\ Available(TakeLocked(w, a)) = Available(w)
    BY DEF Row, TakeLocked, Add, Available
  <1>6. /\ DropLock(w, a) \in Row
        /\ DropLock(w, a).version = w.version
        /\ Available(DropLock(w, a)) = Available(w) + a
    BY DEF Row, DropLock, Add, Available
  <1> QED BY <1>1, <1>2, <1>3, <1>4, <1>5, <1>6

\* The same, column by column.
LEMMA Columns ==
    ASSUME NEW w \in Row, NEW a \in Int
    PROVE  /\ LockBalance(w, a).balance = w.balance
           /\ LockBalance(w, a).locked = w.locked + a
           /\ UnlockBalance(w, a).balance = w.balance
           /\ UnlockBalance(w, a).locked = w.locked - a
           /\ TransferOut(w, a).balance = w.balance - a
           /\ TransferOut(w, a).locked = w.locked - a
           /\ TransferIn(w, a).balance = w.balance + a
           /\ TransferIn(w, a).locked = w.locked
           /\ TakeLocked(w, a).balance = w.balance - a
           /\ TakeLocked(w, a).locked = w.locked - a
           /\ DropLock(w, a).balance = w.balance
           /\ DropLock(w, a).locked = w.locked - a
  BY DEF Row, Add, LockBalance, UnlockBalance, TransferOut, TransferIn, TakeLocked, DropLock

----------------------------------------------------------------------------
(* How SumFunctionOnSet adds up *)

\* The subsets that lack something.
Smaller(A) == (SUBSET A) \ {A}

\* A family of subsets of a finite set has a smallest one.
LEMMA Least ==
  ASSUME NEW S, IsFiniteSet(S), NEW T \in SUBSET (SUBSET S), T # {}
  PROVE  \E A \in T : \A B \in Smaller(A) : B \notin T
  <1>1. IsWellFoundedOn(StrictSubsetOrdering(S), SUBSET S)
    BY FS_StrictSubsetOrderingWellFounded, FS_FiniteSubsetsOfFinite
  <1>2. PICK A \in T : \A B \in T : ~ (<<B, A>> \in StrictSubsetOrdering(S))
    BY <1>1, WFMin
  <1>3. \A B \in T : ~ (B \subseteq A /\ B # A)
    BY <1>2 DEF StrictSubsetOrdering
  <1> QED
    BY <1>2, <1>3 DEF Smaller

\* The element a fold takes first, and the rest.
TakenFirst(s) == CHOOSE x \in s : TRUE
TakenLater(s) == s \ {TakenFirst(s)}

LEMMA FirstIsIn == ASSUME NEW s, s # {} PROVE TakenFirst(s) \in s /\ TakenLater(s) \in Smaller(s)
  <1>1. TakenFirst(s) \in s
    BY DEF TakenFirst
  <1> QED
    BY <1>1 DEF TakenLater, Smaller

FoldStep(g, f, s) == IF s = {} THEN 0 ELSE f[TakenFirst(s)] + g[TakenLater(s)]

\* g adds up f over the subsets of S.
Adds(g, f, S) == g = [s \in SUBSET S |-> FoldStep(g, f, s)]

Adding(f, S) == CHOOSE g : Adds(g, f, S)

LEMMA SumIs ==
  ASSUME NEW f, NEW S
  PROVE  SumFunctionOnSet(f, S) = Adding(f, S)[S]
  BY DEF SumFunctionOnSet, FoldFunctionOnSet, MapThenFoldSet, Adding, Adds, TakenFirst, TakenLater, FoldStep

LEMMA AddsAt ==
  ASSUME NEW f, NEW g, NEW S, Adds(g, f, S), NEW s \in SUBSET S
  PROVE  g[s] = FoldStep(g, f, s)
  <1> DEFINE step(t) == FoldStep(g, f, t)
  <1>1. g = [t \in SUBSET S |-> step(t)]
    BY DEF Adds
  <1> HIDE DEF step
  <1>2. g[s] = step(s)
    BY <1>1
  <1> QED BY <1>2 DEF step

LEMMA OneWayToAdd ==
  ASSUME NEW f, NEW S, IsFiniteSet(S), NEW A \in SUBSET S,
         NEW g, Adds(g, f, S), NEW h, Adds(h, f, A)
  PROVE  \A s \in SUBSET A : g[s] = h[s]
  <1> DEFINE Bad == {s \in SUBSET A : g[s] # h[s]}
  <1>1. SUFFICES ASSUME Bad # {} PROVE FALSE
    OBVIOUS
  <1>2. Bad \in SUBSET (SUBSET S)
    OBVIOUS
  <1>3. PICK s \in Bad : \A t \in Smaller(s) : t \notin Bad
    <2> HIDE DEF Bad
    <2> QED BY <1>1, <1>2, Least
  <1>4. s \in SUBSET A /\ s \in SUBSET S /\ g[s] # h[s]
    OBVIOUS
  <1>5. g[s] = FoldStep(g, f, s) /\ h[s] = FoldStep(h, f, s)
    BY <1>4, AddsAt
  <1>6. s # {} => g[TakenLater(s)] = h[TakenLater(s)]
    BY <1>3, FirstIsIn DEF Smaller
  <1> HIDE DEF Bad
  <1> QED
    BY <1>4, <1>5, <1>6 DEF FoldStep

LEMMA AddingAdds ==
  ASSUME NEW f, NEW S, IsFiniteSet(S)
  PROVE  Adds(Adding(f, S), f, S)
  <1> DEFINE Bad == {A \in SUBSET S : ~ \E g : Adds(g, f, A)}
  <1>1. SUFFICES Bad = {}
    <2> S \in SUBSET S
      OBVIOUS
    <2>1. \E g : Adds(g, f, S)
      BY <1>1
    <2> QED
      BY <2>1 DEF Adding
  <1>2. SUFFICES ASSUME Bad # {} PROVE FALSE
    OBVIOUS
  <1>3. PICK A \in Bad : \A B \in Smaller(A) : B \notin Bad
    <2>1. Bad \in SUBSET (SUBSET S)
      OBVIOUS
    <2> HIDE DEF Bad
    <2> QED BY <1>2, <2>1, Least
  <1>4. A \in SUBSET S /\ ~ \E g : Adds(g, f, A)
    OBVIOUS
  <1>5. \A B \in Smaller(A) : Adds(Adding(f, B), f, B)
    <2> TAKE B \in Smaller(A)
    <2>1. \E g : Adds(g, f, B)
      BY <1>3, <1>4 DEF Smaller
    <2> QED
      BY <2>1 DEF Adding
  <1> HIDE DEF Bad
  <1> DEFINE val(t) == Adding(f, t)[t]
             h == [s \in SUBSET A |-> IF s = {} THEN 0 ELSE f[TakenFirst(s)] + val(TakenLater(s))]
  <1>6. \A t \in Smaller(A) : h[t] = val(t)
    <2> TAKE t \in Smaller(A)
    <2>1. t \in SUBSET A /\ IsFiniteSet(t)
      BY <1>4, FS_Subset DEF Smaller
    <2>2. h[t] = IF t = {} THEN 0 ELSE f[TakenFirst(t)] + val(TakenLater(t))
      <3> HIDE DEF val
      <3> QED BY <2>1
    <2>3. val(t) = FoldStep(Adding(f, t), f, t)
      BY <1>5, AddsAt
    <2>4. t # {} => Adding(f, t)[TakenLater(t)] = val(TakenLater(t))
      <3> SUFFICES ASSUME t # {} PROVE Adding(f, t)[TakenLater(t)] = val(TakenLater(t))
        OBVIOUS
      <3>1. TakenLater(t) \in Smaller(A) /\ TakenLater(t) \in SUBSET t /\ TakenLater(t) \in SUBSET TakenLater(t)
        BY FirstIsIn DEF Smaller
      <3> QED
        BY <1>5, <2>1, <3>1, OneWayToAdd
    <2> QED
      BY <2>2, <2>3, <2>4 DEF FoldStep
  <1>7. \A s \in SUBSET A : s # {} => h[TakenLater(s)] = val(TakenLater(s))
    <2> TAKE s \in SUBSET A
    <2> HAVE s # {}
    <2>1. TakenLater(s) \in Smaller(A)
      BY FirstIsIn DEF Smaller
    <2> HIDE DEF h, val
    <2> QED
      BY <2>1, <1>6
  <1>8. \A s \in SUBSET A : (IF s = {} THEN 0 ELSE f[TakenFirst(s)] + val(TakenLater(s))) = FoldStep(h, f, s)
    <2> HIDE DEF h, val
    <2> QED
      BY <1>7 DEF FoldStep
  <1>9. Adds(h, f, A)
    <2> DEFINE one(s) == IF s = {} THEN 0 ELSE f[TakenFirst(s)] + val(TakenLater(s))
               two(s) == FoldStep(h, f, s)
    <2>1. \A s \in SUBSET A : one(s) = two(s)
      BY <1>8
    <2>2. h = [s \in SUBSET A |-> one(s)]
      OBVIOUS
    <2> HIDE DEF one, two, h
    <2>3. h = [s \in SUBSET A |-> two(s)]
      BY <2>1, <2>2
    <2> QED
      BY <2>3 DEF two, Adds
  <1> QED
    BY <1>4, <1>9

LEMMA SumParts ==
  ASSUME NEW f, NEW S, IsFiniteSet(S)
  PROVE  SumFunctionOnSet(f, S) = IF S = {} THEN 0 ELSE f[TakenFirst(S)] + SumFunctionOnSet(f, TakenLater(S))
  <1>1. SumFunctionOnSet(f, S) = FoldStep(Adding(f, S), f, S)
    BY SumIs, AddingAdds, AddsAt
  <1>2. ASSUME S # {} PROVE Adding(f, S)[TakenLater(S)] = SumFunctionOnSet(f, TakenLater(S))
    <2>1. TakenLater(S) \in SUBSET S /\ IsFiniteSet(TakenLater(S)) /\ TakenLater(S) \in SUBSET TakenLater(S)
      BY <1>2, FirstIsIn, FS_Subset DEF Smaller
    <2>2. SumFunctionOnSet(f, TakenLater(S)) = Adding(f, TakenLater(S))[TakenLater(S)]
      BY SumIs
    <2> QED
      BY <2>1, <2>2, AddingAdds, OneWayToAdd
  <1> QED
    BY <1>1, <1>2 DEF FoldStep

----------------------------------------------------------------------------
(* What sums are, whatever the order in which a fold takes the elements *)

\* f maps the elements of S to integers.
Ints(f, S) == \A x \in S : f[x] \in Int

\* A family of subsets that has the empty one, and with each all that have one
\* element more, has the whole set.
LEMMA GrowsToAll ==
  ASSUME NEW S, IsFiniteSet(S), NEW T \in SUBSET (SUBSET S), {} \in T,
         \A A \in T : \A x \in S \ A : A \cup {x} \in T
  PROVE  S \in T
  <1> DEFINE Bad == (SUBSET S) \ T
  <1> SUFFICES ASSUME Bad # {} PROVE FALSE
    OBVIOUS
  <1>1. PICK A \in Bad : \A B \in Smaller(A) : B \notin Bad
    <2>1. Bad \in SUBSET (SUBSET S)
      OBVIOUS
    <2> HIDE DEF Bad
    <2> QED BY <2>1, Least
  <1>2. PICK x \in A : TRUE
    BY <1>1
  <1>3. A \ {x} \in T
    BY <1>1, <1>2 DEF Smaller
  <1>4. (A \ {x}) \cup {x} = A
    BY <1>2
  <1> QED
    BY <1>1, <1>2, <1>3, <1>4

LEMMA SumEmpty == ASSUME NEW f PROVE SumFunctionOnSet(f, {}) = 0
  BY SumParts, FS_EmptySet

LEMMA SumType ==
  ASSUME NEW f, NEW S, IsFiniteSet(S), Ints(f, S)
  PROVE  SumFunctionOnSet(f, S) \in Int
  <1> DEFINE Bad == {A \in SUBSET S : SumFunctionOnSet(f, A) \notin Int}
  <1> SUFFICES ASSUME Bad # {} PROVE FALSE
    OBVIOUS
  <1>1. PICK A \in Bad : \A B \in Smaller(A) : B \notin Bad
    <2>1. Bad \in SUBSET (SUBSET S)
      OBVIOUS
    <2> HIDE DEF Bad
    <2> QED BY <2>1, Least
  <1>2. A \in SUBSET S /\ IsFiniteSet(A)
    BY FS_Subset
  <1>3. ASSUME A # {} PROVE SumFunctionOnSet(f, TakenLater(A)) \in Int /\ f[TakenFirst(A)] \in Int
    BY <1>1, <1>2, <1>3, FirstIsIn DEF Smaller, Ints
  <1> QED
    BY <1>1, <1>2, <1>3, SumParts

LEMMA SumSame ==
  ASSUME NEW f, NEW g, NEW S, IsFiniteSet(S), \A x \in S : f[x] = g[x]
  PROVE  SumFunctionOnSet(f, S) = SumFunctionOnSet(g, S)
  <1> DEFINE Bad == {A \in SUBSET S : SumFunctionOnSet(f, A) # SumFunctionOnSet(g, A)}
  <1> SUFFICES ASSUME Bad # {} PROVE FALSE
    OBVIOUS
  <1>1. PICK A \in Bad : \A B \in Smaller(A) : B \notin Bad
    <2>1. Bad \in SUBSET (SUBSET S)
      OBVIOUS
    <2> HIDE DEF Bad
    <2> QED BY <2>1, Least
  <1>2. A \in SUBSET S /\ IsFiniteSet(A)
    BY FS_Subset
  <1>3. ASSUME A # {}
        PROVE  /\ SumFunctionOnSet(f, TakenLater(A)) = SumFunctionOnSet(g, TakenLater(A))
               /\ f[TakenFirst(A)] = g[TakenFirst(A)]
    BY <1>1, <1>2, <1>3, FirstIsIn DEF Smaller
  <1> QED
    BY <1>1, <1>2, <1>3, SumParts

LEMMA SumPick ==
  ASSUME NEW f, NEW S, IsFiniteSet(S), Ints(f, S), NEW x \in S
  PROVE  SumFunctionOnSet(f, S) = f[x] + SumFunctionOnSet(f, S \ {x})
  <1> DEFINE Sum(A) == SumFunctionOnSet(f, A)
             Bad == {A \in SUBSET S : \E y \in A : Sum(A) # f[y] + Sum(A \ {y})}
  <1> SUFFICES ASSUME Bad # {} PROVE FALSE
    OBVIOUS
  <1>1. PICK A \in Bad : \A B \in Smaller(A) : B \notin Bad
    <2>1. Bad \in SUBSET (SUBSET S)
      OBVIOUS
    <2> HIDE DEF Bad
    <2> QED BY <2>1, Least
  <1>2. PICK y \in A : Sum(A) # f[y] + Sum(A \ {y})
    OBVIOUS
  <1> DEFINE z == TakenFirst(A)
  <1>3. A \in SUBSET S /\ IsFiniteSet(A) /\ z \in A /\ TakenLater(A) = A \ {z}
    BY <1>2, FS_Subset, FirstIsIn DEF TakenLater
  <1>4. Sum(A) = f[z] + Sum(A \ {z})
    BY <1>2, <1>3, SumParts
  <1>5. \A B \in SUBSET A : Sum(B) \in Int
    BY <1>3, FS_Subset, SumType DEF Ints
  <1>6. \A B \in Smaller(A) : \A w \in B : Sum(B) = f[w] + Sum(B \ {w})
    BY <1>1, <1>3 DEF Smaller
  <1>7. y # z
    BY <1>2, <1>4
  <1>8. Sum(A \ {z}) = f[y] + Sum((A \ {z}) \ {y})
    BY <1>2, <1>3, <1>6, <1>7 DEF Smaller
  <1>9. Sum(A \ {y}) = f[z] + Sum((A \ {z}) \ {y})
    <2>1. Sum(A \ {y}) = f[z] + Sum((A \ {y}) \ {z})
      BY <1>2, <1>3, <1>6, <1>7 DEF Smaller
    <2>2. (A \ {z}) \ {y} = (A \ {y}) \ {z}
      OBVIOUS
    <2> QED
      BY <2>1, <2>2
  <1>10. f[y] \in Int /\ f[z] \in Int /\ Sum((A \ {z}) \ {y}) \in Int
    BY <1>2, <1>3, <1>5 DEF Ints
  <1> HIDE DEF Sum, Bad, z
  <1> QED
    BY <1>2, <1>4, <1>8, <1>9, <1>10

\* A function that differs at one place has a sum that differs by as much.
LEMMA SumChanges ==
  ASSUME NEW f, NEW g, NEW S, IsFiniteSet(S), Ints(f, S), NEW x \in S, g[x] \in Int,
         \A y \in S \ {x} : g[y] = f[y]
  PROVE  SumFunctionOnSet(g, S) = SumFunctionOnSet(f, S) + g[x] - f[x]
  <1>1. IsFiniteSet(S \ {x})
    BY FS_Subset
  <1>2. SumFunctionOnSet(g, S \ {x}) = SumFunctionOnSet(f, S \ {x})
    BY <1>1, SumSame
  <1>3. Ints(g, S) /\ Ints(f, S \ {x})
    BY DEF Ints
  <1>4. SumFunctionOnSet(f, S \ {x}) \in Int
    BY <1>1, <1>3, SumType
  <1> QED
    BY <1>2, <1>3, <1>4, SumPick DEF Ints

\* One element more.
LEMMA SumAdds ==
  ASSUME NEW f, NEW S, IsFiniteSet(S), Ints(f, S), NEW x, x \notin S, f[x] \in Int
  PROVE  SumFunctionOnSet(f, S \cup {x}) = SumFunctionOnSet(f, S) + f[x]
  <1>1. IsFiniteSet(S \cup {x}) /\ Ints(f, S \cup {x}) /\ (S \cup {x}) \ {x} = S
    BY FS_AddElement DEF Ints
  <1>2. SumFunctionOnSet(f, S) \in Int
    BY SumType
  <1> QED
    BY <1>1, <1>2, SumPick

\* Nothing but zeros.
LEMMA SumZero ==
  ASSUME NEW f, NEW S, IsFiniteSet(S), \A x \in S : f[x] = 0
  PROVE  SumFunctionOnSet(f, S) = 0
  <1> DEFINE T == {A \in SUBSET S : SumFunctionOnSet(f, A) = 0}
  <1>1. {} \in T
    BY SumEmpty
  <1>2. ASSUME NEW A \in T, NEW x \in S \ A PROVE A \cup {x} \in T
    <2>1. IsFiniteSet(A) /\ Ints(f, A) /\ f[x] \in Int
      BY FS_Subset DEF Ints
    <2> QED
      BY <2>1, SumAdds
  <1>3. T \in SUBSET (SUBSET S)
    OBVIOUS
  <1>4. S \in T
    <2> HIDE DEF T
    <2> QED BY <1>1, <1>2, <1>3, GrowsToAll
  <1> QED
    BY <1>4

\* Two sums, place by place.
LEMMA SumBelow ==
  ASSUME NEW f, NEW g, NEW S, IsFiniteSet(S), Ints(f, S), Ints(g, S), \A x \in S : f[x] <= g[x]
  PROVE  SumFunctionOnSet(f, S) <= SumFunctionOnSet(g, S)
  <1> DEFINE T == {A \in SUBSET S : SumFunctionOnSet(f, A) <= SumFunctionOnSet(g, A)}
  <1>1. {} \in T
    BY SumEmpty
  <1>2. ASSUME NEW A \in T, NEW x \in S \ A PROVE A \cup {x} \in T
    <2>1. /\ IsFiniteSet(A) /\ Ints(f, A) /\ Ints(g, A)
          /\ f[x] \in Int /\ g[x] \in Int /\ f[x] <= g[x]
      BY FS_Subset DEF Ints
    <2>2. SumFunctionOnSet(f, A) \in Int /\ SumFunctionOnSet(g, A) \in Int
      BY <2>1, SumType
    <2>3. /\ SumFunctionOnSet(f, A \cup {x}) = SumFunctionOnSet(f, A) + f[x]
          /\ SumFunctionOnSet(g, A \cup {x}) = SumFunctionOnSet(g, A) + g[x]
      BY <2>1, SumAdds
    <2> QED
      BY <2>1, <2>2, <2>3
  <1>3. T \in SUBSET (SUBSET S)
    OBVIOUS
  <1>4. S \in T
    <2> HIDE DEF T
    <2> QED BY <1>1, <1>2, <1>3, GrowsToAll
  <1> QED
    BY <1>4

\* Natural numbers add up to one.
LEMMA SumNat ==
  ASSUME NEW f, NEW S, IsFiniteSet(S), \A x \in S : f[x] \in Nat
  PROVE  SumFunctionOnSet(f, S) \in Nat
  <1> DEFINE zero == [x \in S |-> 0]
  <1>1. Ints(f, S) /\ Ints(zero, S) /\ \A x \in S : zero[x] <= f[x]
    BY DEF Ints
  <1>2. SumFunctionOnSet(zero, S) = 0
    BY SumZero
  <1> HIDE DEF zero
  <1>3. SumFunctionOnSet(zero, S) <= SumFunctionOnSet(f, S) /\ SumFunctionOnSet(f, S) \in Int
    BY <1>1, SumBelow, SumType
  <1> QED
    BY <1>2, <1>3

\* The sum of two functions.
LEMMA SumOfTwo ==
  ASSUME NEW f, NEW g, NEW h, NEW S, IsFiniteSet(S), Ints(f, S), Ints(g, S),
         \A x \in S : h[x] = f[x] + g[x]
  PROVE  SumFunctionOnSet(h, S) = SumFunctionOnSet(f, S) + SumFunctionOnSet(g, S)
  <1> DEFINE Sum(k, A) == SumFunctionOnSet(k, A)
             T == {A \in SUBSET S : Sum(h, A) = Sum(f, A) + Sum(g, A)}
  <1>1. {} \in T
    BY SumEmpty
  <1>2. ASSUME NEW A \in T, NEW x \in S \ A PROVE A \cup {x} \in T
    <2>1. /\ IsFiniteSet(A) /\ Ints(f, A) /\ Ints(g, A) /\ Ints(h, A)
          /\ f[x] \in Int /\ g[x] \in Int /\ h[x] = f[x] + g[x] /\ h[x] \in Int
      BY FS_Subset DEF Ints
    <2>2. Sum(f, A) \in Int /\ Sum(g, A) \in Int
      BY <2>1, SumType
    <2>3. /\ Sum(f, A \cup {x}) = Sum(f, A) + f[x]
          /\ Sum(g, A \cup {x}) = Sum(g, A) + g[x]
          /\ Sum(h, A \cup {x}) = Sum(h, A) + h[x]
      BY <2>1, SumAdds
    <2>4. Sum(h, A) = Sum(f, A) + Sum(g, A)
      OBVIOUS
    <2> HIDE DEF Sum
    <2> QED
      BY <2>1, <2>2, <2>3, <2>4
  <1>3. T \in SUBSET (SUBSET S)
    OBVIOUS
  <1>4. S \in T
    <2> HIDE DEF T
    <2> QED BY <1>1, <1>2, <1>3, GrowsToAll
  <1> QED
    BY <1>4

\* A sum over some of the elements, as a sum over all of them.
LEMMA SumWhere ==
  ASSUME NEW f, NEW S, IsFiniteSet(S), Ints(f, S), NEW U \in SUBSET S
  PROVE  SumFunctionOnSet(f, U) = SumFunctionOnSet([x \in S |-> IF x \in U THEN f[x] ELSE 0], S)
  <1> DEFINE g == [x \in S |-> IF x \in U THEN f[x] ELSE 0]
             T == {A \in SUBSET S : SumFunctionOnSet(f, A \cap U) = SumFunctionOnSet(g, A)}
  <1>1. {} \in T
    BY SumEmpty, {} \cap U = {}
  <1>2. ASSUME NEW A \in T, NEW x \in S \ A PROVE A \cup {x} \in T
    <2>1. /\ IsFiniteSet(A) /\ IsFiniteSet(A \cap U) /\ Ints(g, A) /\ Ints(f, A \cap U)
          /\ f[x] \in Int /\ g[x] \in Int
      BY FS_Subset DEF Ints
    <2>2. SumFunctionOnSet(g, A \cup {x}) = SumFunctionOnSet(g, A) + g[x]
      <3> HIDE DEF g
      <3> QED BY <2>1, SumAdds
    <2>3. SumFunctionOnSet(g, A) \in Int
      <3> HIDE DEF g
      <3> QED BY <2>1, SumType
    <2>4. SumFunctionOnSet(f, A \cap U) = SumFunctionOnSet(g, A)
      OBVIOUS
    <2>5. CASE x \in U
      <3>1. (A \cup {x}) \cap U = (A \cap U) \cup {x} /\ g[x] = f[x]
        BY <2>5
      <3>2. SumFunctionOnSet(f, (A \cap U) \cup {x}) = SumFunctionOnSet(f, A \cap U) + f[x]
        BY <2>1, SumAdds
      <3> HIDE DEF g
      <3>3. SumFunctionOnSet(f, (A \cup {x}) \cap U) = SumFunctionOnSet(g, A \cup {x})
        BY <2>2, <2>4, <3>1, <3>2
      <3> QED
        BY <3>3
    <2>6. CASE x \notin U
      <3>1. (A \cup {x}) \cap U = A \cap U /\ g[x] = 0
        BY <2>6
      <3> HIDE DEF g
      <3>2. SumFunctionOnSet(f, (A \cup {x}) \cap U) = SumFunctionOnSet(f, A \cap U)
        BY <3>1
      <3>3. SumFunctionOnSet(g, A \cup {x}) = SumFunctionOnSet(g, A)
        BY <2>2, <2>3, <3>1
      <3> QED
        BY <2>4, <3>2, <3>3
    <2> QED
      BY <2>5, <2>6
  <1>3. T \in SUBSET (SUBSET S)
    OBVIOUS
  <1>4. S \in T
    <2> HIDE DEF T
    <2> QED BY <1>1, <1>2, <1>3, GrowsToAll
  <1>5. S \cap U = U
    OBVIOUS
  <1> QED
    BY <1>4, <1>5

\* The sum of what is chosen, when one element changes, is chosen or is dropped.
LEMMA SumMoves ==
  ASSUME NEW S, IsFiniteSet(S), NEW f, Ints(f, S), NEW g, Ints(g, S),
         NEW U \in SUBSET S, NEW V \in SUBSET S, NEW x \in S,
         \A y \in S \ {x} : f[y] = g[y] /\ (y \in U <=> y \in V)
  PROVE  SumFunctionOnSet(g, V)
             = SumFunctionOnSet(f, U) + (IF x \in V THEN g[x] ELSE 0) - (IF x \in U THEN f[x] ELSE 0)
  <1> DEFINE F == [y \in S |-> IF y \in U THEN f[y] ELSE 0]
             G == [y \in S |-> IF y \in V THEN g[y] ELSE 0]
  <1>1. SumFunctionOnSet(f, U) = SumFunctionOnSet(F, S)
    BY SumWhere
  <1>2. SumFunctionOnSet(g, V) = SumFunctionOnSet(G, S)
    BY SumWhere
  <1>3. /\ Ints(F, S) /\ G[x] \in Int /\ \A y \in S \ {x} : G[y] = F[y]
        /\ F[x] = (IF x \in U THEN f[x] ELSE 0) /\ G[x] = (IF x \in V THEN g[x] ELSE 0)
    BY DEF Ints
  <1> HIDE DEF F, G
  <1>4. SumFunctionOnSet(G, S) = SumFunctionOnSet(F, S) + G[x] - F[x]
    BY <1>3, SumChanges
  <1> QED
    BY <1>1, <1>2, <1>3, <1>4

\* Some of the elements add up to no more than all of them.
LEMMA SumOfPart ==
  ASSUME NEW f, NEW S, IsFiniteSet(S), \A x \in S : f[x] \in Nat, NEW U \in SUBSET S
  PROVE  SumFunctionOnSet(f, U) <= SumFunctionOnSet(f, S)
  <1> DEFINE g == [x \in S |-> IF x \in U THEN f[x] ELSE 0]
  <1>1. Ints(f, S) /\ Ints(g, S) /\ \A x \in S : g[x] <= f[x]
    BY DEF Ints
  <1>2. SumFunctionOnSet(f, U) = SumFunctionOnSet(g, S)
    BY <1>1, SumWhere
  <1> HIDE DEF g
  <1> QED
    BY <1>1, <1>2, SumBelow

----------------------------------------------------------------------------
(* Sums over a table of wallets *)

LEMMA HeldType ==
  ASSUME NEW U, IsFiniteSet(U), NEW W \in [U -> Row]
  PROVE  Held(W) \in Int /\ LockedIn(W) \in Int
  <1>1. Ints([u \in U |-> W[u].balance], U) /\ Ints([u \in U |-> W[u].locked], U)
    BY DEF Ints, Row
  <1>2. /\ Held(W) = SumFunctionOnSet([u \in U |-> W[u].balance], U)
        /\ LockedIn(W) = SumFunctionOnSet([u \in U |-> W[u].locked], U)
    BY DEF Held, LockedIn, SumFunction
  <1> QED
    BY <1>1, <1>2, SumType

\* Tables that differ in one row: their sums differ by what the rows do.
LEMMA OneRowDiffers ==
  ASSUME NEW U, IsFiniteSet(U), NEW W \in [U -> Row], NEW V \in [U -> Row], NEW u \in U,
         \A v \in U \ {u} : V[v] = W[v]
  PROVE  /\ Held(V) = Held(W) + V[u].balance - W[u].balance
         /\ LockedIn(V) = LockedIn(W) + V[u].locked - W[u].locked
  <1> DEFINE bal(X) == [v \in U |-> X[v].balance]
             loc(X) == [v \in U |-> X[v].locked]
  <1>1. V[u] \in Row
    OBVIOUS
  <1>2. \A X \in [U -> Row] : /\ Held(X) = SumFunctionOnSet(bal(X), U)
                              /\ LockedIn(X) = SumFunctionOnSet(loc(X), U)
    BY DEF Held, LockedIn, SumFunction
  <1>3. \A X \in [U -> Row] : Ints(bal(X), U) /\ Ints(loc(X), U)
    BY DEF Ints, Row
  <1>4. \A X \in [U -> Row] : \A v \in U : bal(X)[v] = X[v].balance /\ loc(X)[v] = X[v].locked
    OBVIOUS
  <1>5. V[u].balance \in Int /\ V[u].locked \in Int
    BY <1>1 DEF Row
  <1> HIDE DEF bal, loc
  <1>6. Held(V) = Held(W) + V[u].balance - W[u].balance
    <2>1. /\ bal(V)[u] = V[u].balance /\ bal(W)[u] = W[u].balance
          /\ \A v \in U \ {u} : bal(V)[v] = bal(W)[v]
      BY <1>1, <1>4
    <2>2. SumFunctionOnSet(bal(V), U) = SumFunctionOnSet(bal(W), U) + bal(V)[u] - bal(W)[u]
      BY <1>1, <1>3, <1>5, <2>1, SumChanges
    <2> QED
      BY <1>1, <1>2, <2>1, <2>2
  <1>7. LockedIn(V) = LockedIn(W) + V[u].locked - W[u].locked
    <2>1. /\ loc(V)[u] = V[u].locked /\ loc(W)[u] = W[u].locked
          /\ \A v \in U \ {u} : loc(V)[v] = loc(W)[v]
      BY <1>1, <1>4
    <2>2. SumFunctionOnSet(loc(V), U) = SumFunctionOnSet(loc(W), U) + loc(V)[u] - loc(W)[u]
      BY <1>1, <1>3, <1>5, <2>1, SumChanges
    <2> QED
      BY <1>1, <1>2, <2>1, <2>2
  <1> QED
    BY <1>1, <1>6, <1>7
=============================================================================
