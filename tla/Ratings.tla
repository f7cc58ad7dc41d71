------------------------------ MODULE Ratings ------------------------------
(***************************************************************************)
(* The ratings one member has received, one from the other party of each   *)
(* completed order, and the reputation computed from them                  *)
(* (core/rating/rating.controller.ts).  The second way to rate, POST       *)
(* transactions/:id/rate (TransactionService.rate), computes nothing.      *)
(* The hour within which a rating may be deleted outlasts the calls here.  *)
(***************************************************************************)
EXTENDS Calls, Functions

CONSTANTS
    Orders,   \* completed orders of the member
    Scores    \* scores they may give

ASSUME RatingsAssumption ==
    /\ IsFiniteSet(Orders) /\ Null \notin Orders
    /\ Scores \subseteq 1..5

VARIABLES
    scores,       \* score of each order's rating, 0 without one
    reputation,   \* users.reputation_score, in hundredths, and total_transactions
    silent        \* orders rated by the second way since the reputation was last
                  \* computed (nothing reads it)

ratingVars == <<scores, reputation, silent>>

----------------------------------------------------------------------------
Rated == {o \in Orders : scores[o] # 0}

\* The average, to two decimals, and the number of these ratings.
Summary(S) ==
    LET n == Cardinality(S)  total == SumFunctionOnSet(scores, S) IN
    [average |-> IF n = 0 THEN 0 ELSE (200 * total + n) \div (2 * n), count |-> n]

RatingsInit ==
    /\ scores = [o \in Orders |-> 0]
    /\ reputation = [average |-> 0, count |-> 0]
    /\ silent = {}

\* POST ratings looks for an earlier rating ...
CreateRating(h, o, s) ==
    /\ scores[o] = 0
    /\ Begin(h, "insert", <<o, s>>, Null)
    /\ UNCHANGED ratingVars

RateOnly(h) ==
    LET o == call[h].on[1]  s == call[h].on[2] IN
    /\ End(h, "insert")
    /\ scores' = IF scores[o] = 0 THEN [scores EXCEPT ![o] = s] ELSE scores
    /\ UNCHANGED <<reputation, silent>>

\* ... and inserts the new one; order_id and from_user_id are unique.
InsertRating(h) ==
    LET o == call[h].on[1]  s == call[h].on[2] IN
    /\ call[h].at = "insert"
    /\ IF scores[o] = 0
       THEN Proceed(h, "insert", "average", Null) /\ scores' = [scores EXCEPT ![o] = s]
       ELSE End(h, "insert") /\ UNCHANGED scores
    /\ UNCHANGED <<reputation, silent>>

\* DELETE ratings/:id
DeleteRating(h, o) ==
    /\ scores[o] # 0
    /\ Begin(h, "remove", <<o, scores[o]>>, Null)
    /\ UNCHANGED ratingVars

\* A row that is gone, or is another one by now, cannot be deleted.
RemoveRating(h) ==
    LET o == call[h].on[1] IN
    /\ call[h].at = "remove"
    /\ IF scores[o] = call[h].on[2]
       THEN Proceed(h, "remove", "average", Null) /\ scores' = [scores EXCEPT ![o] = 0]
       ELSE End(h, "remove") /\ UNCHANGED scores
    /\ silent' = silent \ {o}
    /\ UNCHANGED reputation

\* updateUserReputation: the ratings are summed up ...
Average(h) ==
    /\ Proceed(h, "average", "storeReputation", Summary(Rated))
    /\ UNCHANGED ratingVars

\* ... and the result is stored.
StoreReputation(h) ==
    /\ End(h, "storeReputation")
    /\ reputation' = call[h].seen
    /\ silent' = {}
    /\ UNCHANGED scores

\* POST transactions/:id/rate
Rate(h, o, s) ==
    /\ scores[o] = 0
    /\ Begin(h, "rate", <<o, s>>, Null)
    /\ UNCHANGED ratingVars

InsertSilently(h) ==
    LET o == call[h].on[1]  s == call[h].on[2] IN
    /\ End(h, "rate")
    /\ scores' = IF scores[o] = 0 THEN [scores EXCEPT ![o] = s] ELSE scores
    /\ silent' = IF scores[o] = 0 THEN silent \cup {o} ELSE silent
    /\ UNCHANGED reputation

RatingCall(h) ==
    \/ \E o \in Orders, s \in Scores : CreateRating(h, o, s) \/ Rate(h, o, s)
    \/ \E o \in Orders : DeleteRating(h, o)
    \/ InsertRating(h) \/ RemoveRating(h) \/ Average(h) \/ StoreReputation(h)
    \/ InsertSilently(h)

----------------------------------------------------------------------------
(* Properties *)

\* If calls neither overlap nor are cut short, then between calls the reputation is
\* that of the ratings there are, but for those given by the second way since it
\* was last computed.
ReputationRight ==
    serial /\ reliable /\ Quiet => reputation = Summary(Rated \ silent)
=============================================================================
