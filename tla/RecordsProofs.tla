--------------------------- MODULE RecordsProofs ---------------------------
(***************************************************************************)
(* Theorems about the calls of Records, for any handlers, members, files   *)
(* and numbers of calls.                                                   *)
(***************************************************************************)
EXTENDS Records, Lemmas

\* call is a record for each handler, whatever on and seen hold.
Shaped ==
    /\ call = [h \in Handlers |-> call[h]]
    /\ \A h \in Handlers :
          /\ call[h] = [at |-> call[h].at, on |-> call[h].on, seen |-> call[h].seen]
          /\ call[h].at = "idle" => call[h] = Idle

\* If calls are kept from overlapping, one is served at a time.
Alone ==
    serial => \A g, h \in Handlers : call[g].at # "idle" /\ call[h].at # "idle" => g = h

Served == Shaped /\ Alone /\ serial \in BOOLEAN

\* What every step of handler h does to the calls: it is at one of the steps L, or
\* done, and it begins alone if calls do not overlap.
Moves(h, L) ==
    /\ Shaped'
    /\ serial' = serial /\ reliable' = reliable
    /\ \A g \in Handlers : g # h => call'[g] = call[g]
    /\ call'[h].at \in L \cup {"idle"}
    /\ call[h].at = "idle" /\ serial => \A g \in Handlers : call[g].at = "idle"

LEMMA BeginGives ==
  ASSUME Shaped, NEW h \in Handlers, NEW at, NEW on, NEW seen, at # "idle",
         Begin(h, at, on, seen)
  PROVE  /\ Moves(h, {at})
         /\ call[h].at = "idle"
         /\ call'[h] = [at |-> at, on |-> on, seen |-> seen]
  <1> DEFINE new == [at |-> at, on |-> on, seen |-> seen]
  <1>1. call' = [call EXCEPT ![h] = new] /\ serial' = serial /\ reliable' = reliable
    BY DEF Begin
  <1>2. call[h].at = "idle" /\ (serial => \A g \in Handlers : call[g].at = "idle")
    BY DEF Begin, Quiet, Idle
  <1>3. /\ call' = [g \in Handlers |-> call'[g]]
        /\ \A g \in Handlers : g # h => call'[g] = call[g]
        /\ call'[h] = new
    BY <1>1 DEF Shaped
  <1>4. Shaped'
    <2>1. /\ call'[h] = [at |-> call'[h].at, on |-> call'[h].on, seen |-> call'[h].seen]
          /\ call'[h].at = at
      BY <1>3
    <2> HIDE DEF new
    <2> QED
      BY <1>3, <2>1 DEF Shaped
  <1> QED
    BY <1>1, <1>2, <1>3, <1>4 DEF Moves

LEMMA ProceedGives ==
  ASSUME Shaped, NEW h \in Handlers, NEW at, NEW next, NEW seen,
         at # "idle", next # "idle", Proceed(h, at, next, seen)
  PROVE  /\ Moves(h, {next})
         /\ call[h].at = at
         /\ call'[h] = [at |-> next, on |-> call[h].on, seen |-> seen]
  <1> DEFINE new == [at |-> next, on |-> call[h].on, seen |-> seen]
  <1>1. /\ call' = [call EXCEPT ![h] = new]
        /\ serial' = serial /\ reliable' = reliable
        /\ call[h].at = at
    BY DEF Proceed
  <1>2. /\ call' = [g \in Handlers |-> call'[g]]
        /\ \A g \in Handlers : g # h => call'[g] = call[g]
        /\ call'[h] = new
    BY <1>1 DEF Shaped
  <1>3. Shaped'
    <2>1. /\ call'[h] = [at |-> call'[h].at, on |-> call'[h].on, seen |-> call'[h].seen]
          /\ call'[h].at = next
      BY <1>2
    <2> HIDE DEF new
    <2> QED
      BY <1>2, <2>1 DEF Shaped
  <1> QED
    BY <1>1, <1>2, <1>3 DEF Moves

LEMMA IdleGives ==
  ASSUME Shaped, NEW h \in Handlers, call[h].at # "idle", call' = [call EXCEPT ![h] = Idle],
         UNCHANGED <<serial, reliable>>
  PROVE  Moves(h, {}) /\ call'[h] = Idle
  <1>1. /\ call' = [g \in Handlers |-> call'[g]]
        /\ \A g \in Handlers : g # h => call'[g] = call[g]
        /\ call'[h] = Idle
    BY DEF Shaped
  <1>2. Shaped'
    BY <1>1 DEF Shaped, Idle
  <1>3. call'[h].at = "idle"
    BY <1>1 DEF Idle
  <1> QED
    BY <1>1, <1>2, <1>3 DEF Moves

LEMMA EndGives ==
  ASSUME Shaped, NEW h \in Handlers, NEW at, at # "idle", End(h, at)
  PROVE  Moves(h, {}) /\ call[h].at = at /\ call'[h] = Idle
  BY IdleGives DEF End

LEMMA CutGives ==
  ASSUME Shaped, NEW h \in Handlers, Cut(h)
  PROVE  Moves(h, {}) /\ ~reliable /\ call[h].at # "idle" /\ call'[h] = Idle
  <1>1. call[h].at # "idle"
    BY DEF Cut, Shaped
  <1> QED
    BY <1>1, IdleGives DEF Cut

----------------------------------------------------------------------------
(* Which steps the calls of each area may be at.                           *)

LEMMA ReferralMoves ==
  ASSUME Shaped, NEW h \in Handlers, ReferralCall(h)
  PROVE  Moves(h, Label.referrals)
  <1>1. /\ Moves(h, {}) => Moves(h, Label.referrals)
        /\ \A at \in Label.referrals : Moves(h, {at}) => Moves(h, Label.referrals)
    BY DEF Moves
  <1> USE <1>1 DEF Label
  <1>2. ASSUME NEW u \in Users, GetMyReferralCode(h, u) PROVE Moves(h, Label.referrals)
    BY <1>2, BeginGives DEF GetMyReferralCode
  <1>3. ASSUME NEW u \in Users, ClaimReward(h, u) PROVE Moves(h, Label.referrals)
    BY <1>3, BeginGives DEF ClaimReward
  <1>4. ASSUME NEW owner \in Users, NEW u \in Users, ApplyReferralCode(h, owner, u) PROVE Moves(h, Label.referrals)
    BY <1>4, BeginGives DEF ApplyReferralCode
  <1>5. CASE CreateCode(h)
    BY <1>5, EndGives DEF CreateCode
  <1>6. CASE FindUsage(h)
    BY <1>6, ProceedGives, EndGives DEF FindUsage
  <1>7. CASE CreateUsage(h)
    BY <1>7, EndGives DEF CreateUsage
  <1>8. CASE CreditReward(h)
    BY <1>8, EndGives DEF CreditReward
  <1> HIDE <1>1 DEF Label
  <1> QED
    BY <1>2, <1>3, <1>4, <1>5, <1>6, <1>7, <1>8 DEF ReferralCall

LEMMA BankMoves ==
  ASSUME Shaped, NEW h \in Handlers, BankCall(h)
  PROVE  Moves(h, Label.bank)
  <1>1. /\ Moves(h, {}) => Moves(h, Label.bank)
        /\ \A at \in Label.bank : Moves(h, {at}) => Moves(h, Label.bank)
    BY DEF Moves
  <1> USE <1>1 DEF Label
  <1>2. ASSUME NEW n \in Names, AddBankAccount(h, n) PROVE Moves(h, Label.bank)
    BY <1>2, BeginGives DEF AddBankAccount
  <1>3. ASSUME NEW n \in Names, WithdrawToNewAccount(h, n) PROVE Moves(h, Label.bank)
    BY <1>3, BeginGives DEF WithdrawToNewAccount
  <1>4. ASSUME NEW i, SetAsDefault(h, i) PROVE Moves(h, Label.bank)
    BY <1>4, BeginGives DEF SetAsDefault
  <1>5. ASSUME NEW i, DeleteBankAccount(h, i) PROVE Moves(h, Label.bank)
    BY <1>5, BeginGives DEF DeleteBankAccount
  <1>6. CASE CountAccounts(h)
    BY <1>6, ProceedGives DEF CountAccounts
  <1>7. CASE CreateAccount(h)
    BY <1>7, EndGives DEF CreateAccount
  <1>8. CASE CreateUnlisted(h)
    BY <1>8, EndGives DEF CreateUnlisted
  <1>9. CASE UnsetDefaults(h)
    BY <1>9, ProceedGives DEF UnsetDefaults
  <1>10. CASE SetDefault(h)
    BY <1>10, EndGives DEF SetDefault
  <1>11. CASE SoftDelete(h)
    BY <1>11, EndGives DEF SoftDelete
  <1> HIDE <1>1 DEF Label
  <1> QED
    BY <1>2, <1>3, <1>4, <1>5, <1>6, <1>7, <1>8, <1>9, <1>10, <1>11 DEF BankCall

LEMMA IdentityMoves ==
  ASSUME Shaped, NEW h \in Handlers, IdentityCall(h)
  PROVE  Moves(h, Label.identity)
  <1>1. /\ Moves(h, {}) => Moves(h, Label.identity)
        /\ \A at \in Label.identity : Moves(h, {at}) => Moves(h, Label.identity)
    BY DEF Moves
  <1> USE <1>1 DEF Label
  <1>2. CASE SubmitKyc(h)
    BY <1>2, BeginGives DEF SubmitKyc
  <1>3. CASE UploadKYCDocument(h)
    BY <1>3, BeginGives DEF UploadKYCDocument
  <1>4. CASE ApproveKYC(h)
    BY <1>4, BeginGives DEF ApproveKYC
  <1>5. CASE RejectKYC(h)
    BY <1>5, BeginGives DEF RejectKYC
  <1>6. CASE CreateSubmission(h)
    BY <1>6, EndGives DEF CreateSubmission
  <1>7. CASE CreateUpload(h)
    BY <1>7, ProceedGives DEF CreateUpload
  <1>8. CASE SetPending(h)
    BY <1>8, EndGives DEF SetPending
  <1>9. CASE SetVerified(h)
    BY <1>9, EndGives DEF SetVerified
  <1>10. CASE SetRejected(h)
    BY <1>10, ProceedGives DEF SetRejected
  <1>11. CASE SetReason(h)
    BY <1>11, EndGives DEF SetReason
  <1> HIDE <1>1 DEF Label
  <1> QED
    BY <1>2, <1>3, <1>4, <1>5, <1>6, <1>7, <1>8, <1>9, <1>10, <1>11 DEF IdentityCall

LEMMA FactorMoves ==
  ASSUME Shaped, NEW h \in Handlers, FactorCall(h)
  PROVE  Moves(h, Label.factor)
  <1>1. /\ Moves(h, {}) => Moves(h, Label.factor)
        /\ \A at \in Label.factor : Moves(h, {at}) => Moves(h, Label.factor)
    BY DEF Moves
  <1> USE <1>1 DEF Label
  <1>2. CASE SetupMfa(h)
    BY <1>2, BeginGives DEF SetupMfa
  <1>3. ASSUME NEW code, EnableMfa(h, code) PROVE Moves(h, Label.factor)
    BY <1>3, BeginGives DEF EnableMfa, VerifyMfa
  <1>4. ASSUME NEW code, DisableMfa(h, code) PROVE Moves(h, Label.factor)
    BY <1>4, BeginGives DEF DisableMfa, VerifyMfa
  <1>5. CASE StoreSetup(h)
    BY <1>5, EndGives DEF StoreSetup
  <1>6. CASE SetEnabled(h)
    BY <1>6, EndGives DEF SetEnabled
  <1>7. CASE ClearFactor(h)
    BY <1>7, EndGives DEF ClearFactor
  <1> HIDE <1>1 DEF Label
  <1> QED
    BY <1>2, <1>3, <1>4, <1>5, <1>6, <1>7 DEF FactorCall

LEMMA RatingMoves ==
  ASSUME Shaped, NEW h \in Handlers, RatingCall(h)
  PROVE  Moves(h, Label.ratings)
  <1>1. /\ Moves(h, {}) => Moves(h, Label.ratings)
        /\ \A at \in Label.ratings : Moves(h, {at}) => Moves(h, Label.ratings)
    BY DEF Moves
  <1> USE <1>1 DEF Label
  <1>2. ASSUME NEW o \in Orders, NEW s \in Scores, CreateRating(h, o, s) PROVE Moves(h, Label.ratings)
    BY <1>2, BeginGives DEF CreateRating
  <1>3. ASSUME NEW o \in Orders, NEW s \in Scores, Rate(h, o, s) PROVE Moves(h, Label.ratings)
    BY <1>3, BeginGives DEF Rate
  <1>4. ASSUME NEW o \in Orders, DeleteRating(h, o) PROVE Moves(h, Label.ratings)
    BY <1>4, BeginGives DEF DeleteRating
  <1>5. CASE InsertRating(h)
    BY <1>5, ProceedGives, EndGives DEF InsertRating
  <1>6. CASE RemoveRating(h)
    BY <1>6, ProceedGives, EndGives DEF RemoveRating
  <1>7. CASE Average(h)
    BY <1>7, ProceedGives DEF Average
  <1>8. CASE StoreReputation(h)
    BY <1>8, EndGives DEF StoreReputation
  <1>9. CASE InsertSilently(h)
    BY <1>9, EndGives DEF InsertSilently
  <1> HIDE <1>1 DEF Label
  <1> QED
    BY <1>2, <1>3, <1>4, <1>5, <1>6, <1>7, <1>8, <1>9 DEF RatingCall

LEMMA FulfilmentMoves ==
  ASSUME Shaped, NEW h \in Handlers, FulfilmentCall(h)
  PROVE  Moves(h, Label.fulfilment)
  <1>1. /\ Moves(h, {}) => Moves(h, Label.fulfilment)
        /\ \A at \in Label.fulfilment : Moves(h, {at}) => Moves(h, Label.fulfilment)
    BY DEF Moves
  <1> USE <1>1 DEF Label
  <1>2. ASSUME NEW f \in Files, SubmitDeliveryProof(h, f) PROVE Moves(h, Label.fulfilment)
    BY <1>2, BeginGives DEF SubmitDeliveryProof
  <1>3. ASSUME NEW outcome, Resolve(h, outcome) PROVE Moves(h, Label.fulfilment)
    BY <1>3, BeginGives DEF Resolve
  <1>4. CASE DeliverByLink(h)
    BY <1>4, BeginGives DEF DeliverByLink
  <1>5. CASE ConfirmDelivered(h)
    BY <1>5, BeginGives DEF ConfirmDelivered
  <1>6. CASE CancelOrder(h)
    BY <1>6, BeginGives DEF CancelOrder
  <1>7. CASE OpenDispute(h)
    BY <1>7, BeginGives DEF OpenDispute
  <1>8. CASE DisputeTransaction(h)
    BY <1>8, BeginGives DEF DisputeTransaction
  <1>9. CASE DisputeOrder(h)
    BY <1>9, BeginGives DEF DisputeOrder
  <1>10. CASE Respond(h)
    BY <1>10, BeginGives DEF Respond
  <1>11. CASE SubmitEvidence(h)
    BY <1>11, BeginGives DEF SubmitEvidence
  <1>12. CASE AssignArbitrator(h)
    BY <1>12, BeginGives DEF AssignArbitrator
  <1>13. CASE StoreFile(h)
    BY <1>13, ProceedGives DEF StoreFile
  <1>14. CASE ListFile(h)
    BY <1>14, EndGives DEF ListFile
  <1>15. CASE ListRefused(h)
    BY <1>15, EndGives DEF ListRefused
  <1>16. CASE InsertLink(h)
    BY <1>16, EndGives DEF InsertLink
  <1>17. CASE SetOrderStatus(h)
    BY <1>17, EndGives DEF SetOrderStatus
  <1>18. CASE InsertDispute(h)
    BY <1>18, EndGives DEF InsertDispute
  <1>19. CASE InsertFirst(h)
    BY <1>19, ProceedGives DEF InsertFirst
  <1>20. CASE InsertRefused(h)
    BY <1>20, IdleGives DEF InsertRefused
  <1>21. CASE SetResponded(h)
    BY <1>21, EndGives DEF SetResponded
  <1>22. CASE InsertEvidence(h)
    BY <1>22, EndGives DEF InsertEvidence
  <1>23. CASE SetArbitration(h)
    BY <1>23, EndGives DEF SetArbitration
  <1>24. CASE Decide(h)
    BY <1>24, EndGives DEF Decide
  <1>25. CASE PayAccepted(h)
    BY <1>25, BeginGives DEF PayAccepted
  <1> HIDE <1>1 DEF Label
  <1> QED
    BY <1>2, <1>3, <1>4, <1>5, <1>6, <1>7, <1>8, <1>9, <1>10, <1>11, <1>12, <1>13, <1>14,
       <1>15, <1>16, <1>17, <1>18, <1>19, <1>20, <1>21, <1>22, <1>23, <1>24, <1>25 DEF FulfilmentCall

LEMMA ServedInit == Init => Served
  BY DEF Init, CallsInit, Served, Shaped, Alone, Idle

LEMMA ServedKept ==
  ASSUME Served, NEW h \in Handlers, NEW L, Moves(h, L)
  PROVE  Served'
  BY DEF Served, Alone, Moves

\* Every step is of one handler.
LEMMA EveryMove ==
  ASSUME Shaped, NEW h \in Handlers, Serve(h)
  PROVE  \E L : Moves(h, L)
  BY ReferralMoves, BankMoves, IdentityMoves, FactorMoves, RatingMoves, FulfilmentMoves, CutGives DEF Serve

LEMMA ServedStep == Served /\ [Next]_vars => Served'
  <1>1. ASSUME Served, UNCHANGED vars PROVE Served'
    BY <1>1 DEF vars, callVars, Served, Shaped, Alone
  <1>2. ASSUME Served, NEW h \in Handlers, Serve(h) PROVE Served'
    BY <1>2, EveryMove, ServedKept DEF Served
  <1> QED
    BY <1>1, <1>2 DEF Next

\* A step of one area's calls leaves no call at a step of another area.
LEMMA ElsewhereKept ==
  ASSUME NEW h \in Handlers, NEW L, NEW S, Moves(h, L), S \cap L = {}, "idle" \notin S
  PROVE  \A g \in Handlers : call'[g].at \in S => call'[g] = call[g]
  BY DEF Moves

----------------------------------------------------------------------------
(* Rewards.                                                                *)

\* Calls that have found the reward unclaimed.
Claims(u) == {h \in Handlers : call[h].at = "credit" /\ call[h].on = u}

\* A claimed reward is claimed no more often than by those that had found it unclaimed.
Rewards ==
    /\ rewards \in [Users -> {"PENDING", "CLAIMED"}]
    /\ credits \in [Users -> Nat]
    /\ \A u \in Users :
          /\ rewards[u] = "CLAIMED" <=> credits[u] > 0
          /\ rewards[u] = "CLAIMED" => credits[u] + Cardinality(Claims(u)) <= Passes

LEMMA RewardsInit == Init => Rewards
  BY DEF Init, ReferralsInit, Rewards

LEMMA ClaimsFinite ==
  ASSUME NEW u
  PROVE  /\ IsFiniteSet(Claims(u))
         /\ Cardinality(Claims(u)) \in Nat
         /\ Cardinality(Claims(u)) <= Cardinality(Handlers)
         /\ Cardinality(Handlers) \in Nat
  <1>1. Claims(u) \subseteq Handlers /\ IsFiniteSet(Handlers)
    BY CallsAssumption DEF CallsAssumption, Claims
  <1> QED
    BY <1>1, FS_Subset, FS_CardinalityType

\* Who finds the reward unclaimed does so within the bound.
LEMMA ClaimsBounded ==
  ASSUME Served, NEW u, NEW h \in Claims(u)
  PROVE  Cardinality(Claims(u)) <= Passes /\ Passes \in Nat
  <1>1. CASE ~serial
    BY <1>1, ClaimsFinite DEF Passes
  <1>2. CASE serial
    <2>1. Claims(u) = {h}
      BY <1>2 DEF Served, Alone, Claims
    <2> QED
      BY <1>2, <2>1, FS_Singleton DEF Passes
  <1> QED
    BY <1>1, <1>2

\* A step that pays no reward keeps Rewards, unless a reward that was claimed is
\* found unclaimed.
LEMMA RewardsKept ==
  ASSUME Served, Rewards, UNCHANGED <<rewards, credits, serial>>,
         \A u \in Users : rewards[u] = "CLAIMED" => Claims(u)' \subseteq Claims(u)
  PROVE  Rewards'
  <1> SUFFICES ASSUME NEW u \in Users, rewards[u] = "CLAIMED"
               PROVE  credits[u] + Cardinality(Claims(u)') <= Passes
    BY DEF Rewards, Passes
  <1>1. Cardinality(Claims(u)') <= Cardinality(Claims(u)) /\ Cardinality(Claims(u)') \in Nat
    BY ClaimsFinite, FS_Subset, FS_CardinalityType
  <1>2. credits[u] + Cardinality(Claims(u)) <= Passes /\ credits[u] \in Nat /\ Passes \in Nat
    BY ClaimsFinite DEF Rewards, Passes
  <1> QED
    BY <1>1, <1>2, ClaimsFinite

LEMMA RewardsStep == Served /\ Rewards /\ [Next]_vars => Rewards'
  <1> SUFFICES ASSUME Served, Rewards, [Next]_vars PROVE Rewards'
    OBVIOUS
  <1>1. ASSUME NEW h \in Handlers, NEW L, Moves(h, L), "credit" \notin L,
               UNCHANGED <<rewards, credits>>
        PROVE  Rewards'
    <2>1. \A u \in Users : Claims(u)' \subseteq Claims(u)
      BY <1>1, ElsewhereKept DEF Claims, Moves
    <2> QED
      BY <1>1, <2>1, RewardsKept DEF Moves
  <1>2. ASSUME NEW h \in Handlers, NEW u \in Users, ClaimReward(h, u) PROVE Rewards'
    <2>0. Moves(h, {"credit"}) /\ call'[h] = [at |-> "credit", on |-> u, seen |-> Null]
      BY <1>2, BeginGives DEF Served, ClaimReward
    <2>1. /\ Moves(h, {"credit"})
          /\ call'[h].on = u
          /\ rewards[u] = "PENDING"
      BY <1>2, <2>0 DEF ClaimReward
    <2>2. \A v \in Users : v # u => Claims(v)' \subseteq Claims(v)
      BY <2>1 DEF Claims, Moves
    <2>3. UNCHANGED <<rewards, credits, serial>>
      BY <1>2, <2>1 DEF ClaimReward, referralVars, Moves
    <2> QED
      BY <2>1, <2>2, <2>3, RewardsKept
  <1>3. ASSUME NEW h \in Handlers, CreditReward(h) PROVE Rewards'
    <2>0. PICK u : u = call[h].on
      OBVIOUS
    <2>1. /\ Moves(h, {})
          /\ call[h].at = "credit"
          /\ call'[h].at = "idle"
      BY <1>3, EndGives DEF Served, CreditReward, Idle
    <2>2. /\ rewards' = [rewards EXCEPT ![u] = "CLAIMED"]
          /\ credits' = [credits EXCEPT ![u] = credits[u] + 1]
      BY <1>3, <2>0 DEF CreditReward
    <2>3. Claims(u)' = Claims(u) \ {h} /\ h \in Claims(u)
      BY <2>0, <2>1 DEF Claims, Moves
    <2>4. \A v : v # u => Claims(v)' \subseteq Claims(v)
      BY <2>1 DEF Claims, Moves
    <2>5. Cardinality(Claims(u)') = Cardinality(Claims(u)) - 1
      BY <2>3, ClaimsFinite, FS_RemoveElement
    <2>6. Cardinality(Claims(u)) <= Passes /\ Passes \in Nat
      BY <2>3, ClaimsBounded
    <2>7. Passes' = Passes
      BY <2>1 DEF Passes, Moves
    <2>8. /\ rewards \in [Users -> {"PENDING", "CLAIMED"}]
          /\ credits \in [Users -> Nat]
      BY DEF Rewards
    <2>9. /\ rewards' \in [Users -> {"PENDING", "CLAIMED"}]
          /\ credits' \in [Users -> Nat]
      <3>1. u \in Users => credits[u] + 1 \in Nat
        BY <2>8
      <3> QED
        BY <2>2, <2>8, <3>1
    <2>10. ASSUME NEW v \in Users
           PROVE  /\ rewards'[v] = "CLAIMED" <=> credits'[v] > 0
                  /\ rewards'[v] = "CLAIMED" =>
                         credits'[v] + Cardinality(Claims(v)') <= Passes'
      <3>1. CASE v = u
        <4>1. rewards'[v] = "CLAIMED" /\ credits'[v] = credits[v] + 1 /\ credits[v] \in Nat
          BY <2>2, <2>8, <3>1
        <4>2. rewards[v] = "CLAIMED" =>
                 credits[v] + Cardinality(Claims(v)) <= Passes
          BY DEF Rewards
        <4>3. rewards[v] # "CLAIMED" => credits[v] = 0
          BY <4>1 DEF Rewards
        <4> QED
          BY <2>5, <2>6, <2>7, <3>1, <4>1, <4>2, <4>3, ClaimsFinite
      <3>2. CASE v # u
        <4>1. rewards'[v] = rewards[v] /\ credits'[v] = credits[v] /\ credits[v] \in Nat
          BY <2>2, <2>8, <3>2
        <4>2. Cardinality(Claims(v)') <= Cardinality(Claims(v)) /\ Cardinality(Claims(v)') \in Nat
          BY <2>4, <3>2, ClaimsFinite, FS_Subset, FS_CardinalityType
        <4> QED
          BY <2>6, <2>7, <4>1, <4>2, ClaimsFinite DEF Rewards
      <3> QED
        BY <3>1, <3>2
    <2> QED
      BY <2>9, <2>10 DEF Rewards
  <1>4. ASSUME NEW h \in Handlers, ReferralCall(h) PROVE Rewards'
    <2>1. ASSUME NEW u \in Users, GetMyReferralCode(h, u) PROVE Rewards'
      BY <1>1, <2>1, BeginGives DEF Served, GetMyReferralCode, referralVars
    <2>2. ASSUME NEW owner \in Users, NEW u \in Users, ApplyReferralCode(h, owner, u)
          PROVE  Rewards'
      <3>1. Begin(h, "findUsage", <<owner, u>>, Null) /\ UNCHANGED <<rewards, credits>>
        BY <2>2 DEF ApplyReferralCode, referralVars
      <3>2. Moves(h, {"findUsage"})
        BY <3>1, BeginGives DEF Served
      <3> QED
        BY <1>1, <3>1, <3>2
    <2>3. CASE CreateCode(h)
      BY <1>1, <2>3, EndGives DEF Served, CreateCode
    <2>4. CASE FindUsage(h)
      <3>1. /\ End(h, "findUsage") \/ Proceed(h, "findUsage", "createUsage", Null)
            /\ UNCHANGED <<rewards, credits>>
        BY <2>4 DEF FindUsage, referralVars
      <3>2. Moves(h, {}) \/ Moves(h, {"createUsage"})
        BY <3>1, EndGives, ProceedGives DEF Served
      <3> QED
        BY <1>1, <3>1, <3>2
    <2>5. CASE CreateUsage(h)
      BY <1>1, <2>5, EndGives DEF Served, CreateUsage
    <2> QED
      BY <1>2, <1>3, <1>4, <2>1, <2>2, <2>3, <2>4, <2>5 DEF ReferralCall
  <1>5. ASSUME NEW h \in Handlers, Serve(h) PROVE Rewards'
    <2>1. "credit" \notin Label.bank \cup Label.identity \cup Label.factor \cup Label.ratings \cup Label.fulfilment
      BY DEF Label
    <2>2. ASSUME UNCHANGED referralVars,
                 BankCall(h) \/ IdentityCall(h) \/ FactorCall(h) \/ RatingCall(h) \/ FulfilmentCall(h) \/ Cut(h)
          PROVE  Rewards'
      <3>1. PICK L : Moves(h, L) /\ "credit" \notin L
        BY <2>1, <2>2, BankMoves, IdentityMoves, FactorMoves, RatingMoves, FulfilmentMoves, CutGives DEF Served
      <3> QED
        BY <1>1, <2>2, <3>1 DEF referralVars
    <2> QED
      BY <1>4, <1>5, <2>2 DEF Serve
  <1>6. CASE UNCHANGED vars
    BY <1>6 DEF vars, callVars, referralVars, Rewards, Claims, Passes
  <1> QED
    BY <1>5, <1>6 DEF Next

\* A reward is credited no more often than there are handlers to claim it at the same
\* time, once if calls do not overlap, and it is marked exactly if it was credited.
THEOREM RewardCreditedOnce == Spec => []RewardPaidOnce
  <1>1. Spec => [](Served /\ Rewards)
    BY ServedInit, ServedStep, RewardsInit, RewardsStep, PTL DEF Spec
  <1>2. Served /\ Rewards => RewardPaidOnce
    <2> SUFFICES ASSUME Served, Rewards, NEW u \in Users PROVE credits[u] <= Passes
      BY DEF RewardPaidOnce, Rewards
    <2>1. credits[u] \in Nat /\ Passes \in Nat /\ Cardinality(Claims(u)) \in Nat
      BY ClaimsFinite DEF Rewards, Passes
    <2>2. CASE rewards[u] = "CLAIMED"
      BY <2>1, <2>2 DEF Rewards
    <2>3. CASE rewards[u] # "CLAIMED"
      BY <2>1, <2>3 DEF Rewards
    <2> QED
      BY <2>2, <2>3
  <1> QED
    BY <1>1, <1>2, PTL

----------------------------------------------------------------------------
(* Verification.                                                           *)

\* As long as calls do not overlap, who is about to submit finds nothing submitted.
NothingSubmitted ==
    serial => \A h \in Handlers : call[h].at = "submit" => submissions = <<>>

LEMMA SubmittedInit == Init => NothingSubmitted
  BY DEF Init, CallsInit, NothingSubmitted, Idle

LEMMA SubmittedStep == Served /\ NothingSubmitted /\ [Next]_vars => NothingSubmitted'
  <1> SUFFICES ASSUME Served, NothingSubmitted, [Next]_vars PROVE NothingSubmitted'
    OBVIOUS
  <1>1. ASSUME NEW h \in Handlers, NEW L, Moves(h, L), "submit" \notin L PROVE NothingSubmitted'
    <2> SUFFICES ASSUME serial, NEW g \in Handlers, call'[g].at = "submit"
                 PROVE  submissions' = <<>>
      BY <1>1 DEF NothingSubmitted, Moves
    <2>1. g # h /\ call[g].at = "submit"
      BY <1>1 DEF Moves
    <2>2. call[h].at = "idle"
      BY <2>1 DEF Served, Alone
    <2> QED
      BY <1>1, <2>1, <2>2 DEF Moves
  <1>2. ASSUME NEW h \in Handlers, SubmitKyc(h) PROVE NothingSubmitted'
    <2>1. Moves(h, {"submit"}) /\ submissions = <<>> /\ submissions' = submissions
      BY <1>2, BeginGives DEF Served, SubmitKyc, identityVars
    <2> QED
      BY <2>1 DEF NothingSubmitted
  <1>3. ASSUME NEW h \in Handlers, IdentityCall(h) PROVE NothingSubmitted'
    <2>a. /\ Moves(h, {}) => NothingSubmitted'
          /\ \A at : at # "submit" /\ Moves(h, {at}) => NothingSubmitted'
      BY <1>1
    <2>b. Shaped
      BY DEF Served
    <2>1. CASE UploadKYCDocument(h)
      BY <2>a, <2>b, <2>1, BeginGives DEF UploadKYCDocument
    <2>2. CASE ApproveKYC(h)
      BY <2>a, <2>b, <2>2, BeginGives DEF ApproveKYC
    <2>3. CASE RejectKYC(h)
      BY <2>a, <2>b, <2>3, BeginGives DEF RejectKYC
    <2>4. CASE CreateSubmission(h)
      BY <2>a, <2>b, <2>4, EndGives DEF CreateSubmission
    <2>5. CASE CreateUpload(h)
      <3>1. Moves(h, {"setPending"})
        BY <2>b, <2>5, ProceedGives DEF CreateUpload
      <3> QED
        BY <2>a, <3>1
    <2>6. CASE SetPending(h)
      BY <2>a, <2>b, <2>6, EndGives DEF SetPending
    <2>7. CASE SetVerified(h)
      BY <2>a, <2>b, <2>7, EndGives DEF SetVerified
    <2>8. CASE SetRejected(h)
      <3>1. Moves(h, {"setReason"})
        BY <2>b, <2>8, ProceedGives DEF SetRejected
      <3> QED
        BY <2>a, <3>1
    <2>9. CASE SetReason(h)
      BY <2>a, <2>b, <2>9, EndGives DEF SetReason
    <2> QED
      BY <1>2, <1>3, <2>1, <2>2, <2>3, <2>4, <2>5, <2>6, <2>7, <2>8, <2>9 DEF IdentityCall
  <1>4. ASSUME NEW h \in Handlers, Serve(h) PROVE NothingSubmitted'
    <2>1. "submit" \notin Label.referrals \cup Label.bank \cup Label.factor \cup Label.ratings \cup Label.fulfilment
      BY DEF Label
    <2>2. ASSUME ReferralCall(h) \/ BankCall(h) \/ FactorCall(h) \/ RatingCall(h) \/ FulfilmentCall(h) \/ Cut(h)
          PROVE  NothingSubmitted'
      <3>1. PICK L : Moves(h, L) /\ "submit" \notin L
        BY <2>1, <2>2, ReferralMoves, BankMoves, FactorMoves, RatingMoves, FulfilmentMoves, CutGives DEF Served
      <3> QED
        BY <1>1, <3>1
    <2> QED
      BY <1>3, <1>4, <2>2 DEF Serve
  <1>5. CASE UNCHANGED vars
    BY <1>5 DEF vars, callVars, identityVars, NothingSubmitted
  <1> QED
    BY <1>4, <1>5 DEF Next

\* As long as calls do not overlap, a decision on a member who has sent a document is
\* not undone by another submission; users/kyc is the only way back to PENDING.
THEOREM DecisionIsKept == Spec => DecisionStands
  <1> DEFINE Kept ==
        serial /\ submissions # <<>> /\ kycStatus \in {"VERIFIED", "REJECTED"}
          /\ kycStatus' = "PENDING"
        => \E h \in Handlers : call[h].at = "setPending"
  <1>1. Spec => [](Served /\ NothingSubmitted)
    BY ServedInit, ServedStep, SubmittedInit, SubmittedStep, PTL DEF Spec
  <1>2. Served /\ NothingSubmitted /\ [Next]_vars => [Kept]_<<callVars, identityVars>>
    <2> SUFFICES ASSUME Served, NothingSubmitted, [Next]_vars, serial, submissions # <<>>,
                        kycStatus \in {"VERIFIED", "REJECTED"}, kycStatus' = "PENDING"
                 PROVE  \E h \in Handlers : call[h].at = "setPending"
      OBVIOUS
    <2>1. kycStatus' # kycStatus
      OBVIOUS
    <2>2. PICK h \in Handlers : IdentityCall(h)
      BY <2>1 DEF Next, Serve, vars, identityVars
    <2>3. ~CreateSubmission(h)
      BY DEF CreateSubmission, End, NothingSubmitted
    <2>4. SetPending(h)
      BY <2>1, <2>2, <2>3 DEF IdentityCall, SubmitKyc, UploadKYCDocument, ApproveKYC, RejectKYC,
         CreateUpload, SetVerified, SetRejected, SetReason, identityVars
    <2> QED
      BY <2>4 DEF SetPending, End
  <1> QED
    BY <1>1, <1>2, PTL DEF Spec, DecisionStands

----------------------------------------------------------------------------
(* Proofs of delivery.                                                     *)

\* What a call has read and stored of the proof, at each of its steps.
ProofSeen ==
    \A h \in Handlers :
        /\ call[h].at \in {"store", "list"} =>
               /\ call[h].seen \ {Link} \subseteq stored
               /\ serial => call[h].seen = proof
        /\ call[h].at = "list" => call[h].on \in stored

Delivered == ProofKept /\ ProofSeen

LEMMA DeliveredInit == Init => Delivered
  BY DEF Init, CallsInit, FulfilmentInit, Delivered, ProofKept, ProofSeen, Idle

\* A step that only adds files keeps Delivered, unless a call begins to store one.
LEMMA DeliveredKept ==
  ASSUME Delivered, NEW h \in Handlers, NEW L, Moves(h, L), L \cap {"store", "list"} = {},
         stored \subseteq stored', UNCHANGED <<proof, sent>>
  PROVE  Delivered'
  <1>1. \A g \in Handlers : call'[g].at \in {"store", "list"} => call'[g] = call[g]
    BY ElsewhereKept
  <1>2. ProofSeen'
    BY <1>1 DEF Delivered, ProofSeen, Moves
  <1>3. ProofKept'
    BY DEF Delivered, ProofKept, Moves
  <1> QED
    BY <1>2, <1>3 DEF Delivered

LEMMA DeliveredStep == Served /\ Delivered /\ [Next]_vars => Delivered'
  <1> SUFFICES ASSUME Served, Delivered, [Next]_vars PROVE Delivered'
    OBVIOUS
  <1>1. ASSUME NEW h \in Handlers, NEW f \in Files, SubmitDeliveryProof(h, f) PROVE Delivered'
    <2>1. Moves(h, {"store"}) /\ call'[h] = [at |-> "store", on |-> f, seen |-> proof]
      BY <1>1, BeginGives DEF Served, SubmitDeliveryProof
    <2>2. UNCHANGED <<stored, proof, sent>>
      BY <1>1 DEF SubmitDeliveryProof, fulfilmentVars
    <2>3. call'[h].seen = proof /\ call'[h].at = "store"
      BY <2>1
    <2>4. ProofSeen'
      BY <2>1, <2>2, <2>3 DEF Delivered, ProofSeen, ProofKept, Moves
    <2>5. ProofKept'
      BY <2>1, <2>2 DEF Delivered, ProofKept, Moves
    <2> QED
      BY <2>4, <2>5 DEF Delivered
  <1>2. ASSUME NEW h \in Handlers, StoreFile(h) PROVE Delivered'
    <2>1. /\ Moves(h, {"list"}) /\ call[h].at = "store"
          /\ call'[h] = [at |-> "list", on |-> call[h].on, seen |-> call[h].seen]
      BY <1>2, ProceedGives DEF Served, StoreFile
    <2>2. stored' = stored \cup {call[h].on} /\ UNCHANGED <<proof, sent>>
      BY <1>2 DEF StoreFile
    <2>3. call'[h].seen = call[h].seen /\ call'[h].at = "list" /\ call'[h].on \in stored'
      BY <2>1, <2>2
    <2>4. ProofSeen'
      BY <2>1, <2>2, <2>3 DEF Delivered, ProofSeen, Moves
    <2>5. ProofKept'
      BY <2>1, <2>2 DEF Delivered, ProofKept, Moves
    <2> QED
      BY <2>4, <2>5 DEF Delivered
  <1>3. ASSUME NEW h \in Handlers, ListFile(h) PROVE Delivered'
    <2>1. Moves(h, {}) /\ call[h].at = "list" /\ call'[h] = Idle
      BY <1>3, EndGives DEF Served, ListFile
    <2>2. /\ proof' = call[h].seen \cup {call[h].on}
          /\ sent' = sent \cup {call[h].on}
          /\ stored' = stored
      BY <1>3 DEF ListFile
    <2>3. /\ call[h].seen \ {Link} \subseteq stored
          /\ call[h].on \in stored
          /\ serial => call[h].seen = proof
      BY <2>1 DEF Delivered, ProofSeen
    <2>4. ProofKept'
      BY <2>1, <2>2, <2>3 DEF Delivered, ProofKept, Moves
    <2>5. \A g \in Handlers : call'[g].at \in {"store", "list"} => call'[g] = call[g] /\ g # h
      BY <2>1 DEF Moves
    <2>6. \A g \in Handlers : call'[g].at \in {"store", "list"} => ~serial
      BY <2>1, <2>5 DEF Served, Alone
    <2>7. ProofSeen'
      BY <2>1, <2>2, <2>5, <2>6 DEF Delivered, ProofSeen, Moves
    <2> QED
      BY <2>4, <2>7 DEF Delivered
  <1>4. ASSUME NEW h \in Handlers, InsertLink(h) PROVE Delivered'
    <2>1. Moves(h, {}) /\ call[h].at = "link"
      BY <1>4, EndGives DEF Served, InsertLink
    <2>2. CASE UNCHANGED <<proof, sent>>
      BY <1>4, <2>1, <2>2, DeliveredKept DEF InsertLink
    <2>3. CASE proof = {} /\ proof' = {Link} /\ sent' = sent \cup {Link}
      <3>1. stored' = stored
        BY <1>4 DEF InsertLink
      <3>2. ProofKept'
        BY <2>1, <2>3, <3>1 DEF Delivered, ProofKept, Moves
      <3>3. \A g \in Handlers : call'[g].at \in {"store", "list"} =>
               call'[g] = call[g] /\ ~serial
        BY <2>1 DEF Moves, Served, Alone
      <3>4. ProofSeen'
        BY <2>1, <3>1, <3>3 DEF Delivered, ProofSeen, Moves
      <3> QED
        BY <3>2, <3>4 DEF Delivered
    <2> QED
      BY <1>4, <2>2, <2>3 DEF InsertLink
  <1>5. ASSUME NEW h \in Handlers, FulfilmentCall(h),
               ~(\E f \in Files : SubmitDeliveryProof(h, f)),
               ~StoreFile(h), ~ListFile(h), ~InsertLink(h)
        PROVE  Delivered'
    <2>1. UNCHANGED <<stored, proof, sent>>
      BY <1>5 DEF FulfilmentCall, Resolve, PayAccepted, DeliverByLink, ConfirmDelivered, CancelOrder,
         OpenDispute, DisputeTransaction, DisputeOrder, Respond, SubmitEvidence,
         AssignArbitrator, ListRefused, SetOrderStatus, InsertDispute, InsertFirst,
         InsertRefused, SetResponded, InsertEvidence, SetArbitration, Decide, fulfilmentVars,
         deliveryVars
    <2>2. \E L : Moves(h, L) /\ L \cap {"store", "list"} = {}
      <3> DEFINE Elsewhere == \E L : Moves(h, L) /\ L \cap {"store", "list"} = {}
      <3>a. /\ Moves(h, {}) => Elsewhere
            /\ \A at : at \notin {"store", "list"} /\ Moves(h, {at}) => Elsewhere
        OBVIOUS
      <3>b. Shaped
        BY DEF Served
      <3> HIDE DEF Elsewhere
      <3> SUFFICES Elsewhere
        BY DEF Elsewhere
      <3> USE <3>a, <3>b
      <3>1. CASE \E outcome \in {"COMPLETED", "REFUNDED", "CANCELLED"} : Resolve(h, outcome)
        BY <3>1, BeginGives DEF Resolve
      <3>2. CASE DeliverByLink(h)
        BY <3>2, BeginGives DEF DeliverByLink
      <3>3. CASE ConfirmDelivered(h)
        BY <3>3, BeginGives DEF ConfirmDelivered
      <3>4. CASE CancelOrder(h)
        BY <3>4, BeginGives DEF CancelOrder
      <3>5. CASE OpenDispute(h)
        BY <3>5, BeginGives DEF OpenDispute
      <3>6. CASE DisputeTransaction(h)
        BY <3>6, BeginGives DEF DisputeTransaction
      <3>7. CASE DisputeOrder(h)
        BY <3>7, BeginGives DEF DisputeOrder
      <3>8. CASE Respond(h)
        BY <3>8, BeginGives DEF Respond
      <3>9. CASE SubmitEvidence(h)
        BY <3>9, BeginGives DEF SubmitEvidence
      <3>10. CASE AssignArbitrator(h)
        BY <3>10, BeginGives DEF AssignArbitrator
      <3>11. CASE ListRefused(h)
        BY <3>11, EndGives DEF ListRefused
      <3>12. CASE SetOrderStatus(h)
        BY <3>12, EndGives DEF SetOrderStatus
      <3>13. CASE InsertDispute(h)
        BY <3>13, EndGives DEF InsertDispute
      <3>14. CASE InsertFirst(h)
        BY <3>14, ProceedGives DEF InsertFirst
      <3>15. CASE InsertRefused(h)
        BY <3>15, IdleGives DEF InsertRefused
      <3>16. CASE SetResponded(h)
        BY <3>16, EndGives DEF SetResponded
      <3>17. CASE InsertEvidence(h)
        BY <3>17, EndGives DEF InsertEvidence
      <3>18. CASE SetArbitration(h)
        BY <3>18, EndGives DEF SetArbitration
      <3>19. CASE Decide(h)
        BY <3>19, EndGives DEF Decide
      <3>20. CASE PayAccepted(h)
        BY <3>20, BeginGives DEF PayAccepted
      <3> QED
        BY <1>5, <3>1, <3>2, <3>3, <3>4, <3>5, <3>6, <3>7, <3>8, <3>9, <3>10, <3>11, <3>12,
           <3>13, <3>14, <3>15, <3>16, <3>17, <3>18, <3>19, <3>20 DEF FulfilmentCall
    <2> QED
      BY <2>1, <2>2, DeliveredKept
  <1>6. ASSUME NEW h \in Handlers, Serve(h) PROVE Delivered'
    <2>1. (Label.referrals \cup Label.bank \cup Label.identity \cup Label.factor \cup Label.ratings)
             \cap {"store", "list"} = {}
      BY DEF Label
    <2>2. ASSUME UNCHANGED fulfilmentVars,
                 ReferralCall(h) \/ BankCall(h) \/ IdentityCall(h) \/ FactorCall(h) \/ RatingCall(h) \/ Cut(h)
          PROVE  Delivered'
      <3>1. PICK L : Moves(h, L) /\ L \cap {"store", "list"} = {}
        BY <2>1, <2>2, ReferralMoves, BankMoves, IdentityMoves, FactorMoves, RatingMoves, CutGives DEF Served
      <3> QED
        BY <2>2, <3>1, DeliveredKept DEF fulfilmentVars
    <2> QED
      BY <1>1, <1>2, <1>3, <1>4, <1>5, <1>6, <2>2 DEF Serve
  <1>7. CASE UNCHANGED vars
    BY <1>7 DEF vars, callVars, fulfilmentVars, Delivered, ProofKept, ProofSeen
  <1> QED
    BY <1>6, <1>7 DEF Next

\* The row of a delivery lists no file that is not there, and if calls do not overlap,
\* it keeps every file and link that was sent, also when calls are cut short.
THEOREM ProofIsKept == Spec => []ProofKept
  <1>1. Spec => [](Served /\ Delivered)
    BY ServedInit, ServedStep, DeliveredInit, DeliveredStep, PTL DEF Spec
  <1>2. Delivered => ProofKept
    BY DEF Delivered
  <1> QED
    BY <1>1, <1>2, PTL

----------------------------------------------------------------------------
(* The dispute and its order.                                              *)

\* A decision is one of three outcomes, and is about a dispute, and so are the calls
\* that decide or assign one; who opens a dispute says so of the order next.
Outcomes ==
    /\ decision \in {"NONE", "COMPLETED", "REFUNDED", "CANCELLED"}
    /\ dispute = "NONE" => decision = "NONE"
    /\ \A h \in Handlers :
          /\ call[h].at \in {"resolve", "assign"} => dispute # "NONE"
          /\ call[h].at = "resolve" => call[h].on \in {"COMPLETED", "REFUNDED", "CANCELLED"}
          /\ call[h].at = "openFirst" => call[h].on = "DISPUTED"

\* As long as calls do not overlap, who responds finds the dispute open, and undecided.
Heard ==
    serial => /\ dispute \in {"OPEN", "RESPONDED"} => decision = "NONE"
              /\ \A h \in Handlers : call[h].at = "respond" => dispute = "OPEN"

\* What the order's status should be.
Followed ==
    dispute # "NONE" =>
        orderStatus \in {"CANCELLED", IF decision = "NONE" THEN "DISPUTED" ELSE decision}

\* If moreover none is cut short, the order follows its dispute, or is about to; and
\* whoever is about to set the status of an order in dispute cancels it, or has opened
\* the dispute.
Follows ==
    serial /\ reliable =>
        /\ \/ Followed
           \/ decision = "NONE" /\ \E h \in Handlers :
                    call[h].at = "setStatus" /\ call[h].on = "DISPUTED"
        /\ \A h \in Handlers : call[h].at = "setStatus" /\ dispute # "NONE" =>
              \/ call[h].on = "CANCELLED"
              \/ call[h].on = "DISPUTED" /\ decision = "NONE"

Disputed == Outcomes /\ Heard /\ Follows

\* The steps that rely on what their call has read.
Relying == {"respond", "assign", "resolve", "openFirst", "setStatus"}

LEMMA DisputedInit == Init => Disputed
  BY DEF Init, CallsInit, FulfilmentInit, Disputed, Outcomes, Heard, Follows, Followed, Idle

\* If calls do not overlap, nobody else is served while a handler makes a step.
LEMMA OthersIdle ==
  ASSUME Served, NEW h \in Handlers, NEW L, Moves(h, L), serial
  PROVE  \A g \in Handlers : g # h => call[g].at = "idle" /\ call'[g].at = "idle"
  BY DEF Served, Alone, Moves

\* A step that leaves order and dispute alone keeps Disputed, unless it is a step from
\* or to one of those that rely on them.
LEMMA DisputedKept ==
  ASSUME Served, Disputed, NEW h \in Handlers, NEW L, Moves(h, L),
         L \cap Relying = {},
         call[h].at # "setStatus" \/ ~reliable,
         UNCHANGED <<orderStatus, dispute, decision>>
  PROVE  Disputed'
  <1>1. \A g \in Handlers :
           call'[g].at \in {"respond", "assign", "resolve", "openFirst", "setStatus"} =>
               call'[g] = call[g]
    BY ElsewhereKept DEF Relying
  <1>2. serial' = serial /\ reliable' = reliable
    BY DEF Moves
  <1>3. Outcomes'
    BY <1>1 DEF Disputed, Outcomes
  <1>4. Heard'
    BY <1>1, <1>2 DEF Disputed, Heard
  <1>5. \A g \in Handlers : call[g].at = "setStatus" /\ reliable => call'[g] = call[g]
    BY DEF Moves
  <1>6. Follows'
    BY <1>1, <1>2, <1>5 DEF Disputed, Follows, Followed
  <1> QED
    BY <1>3, <1>4, <1>6 DEF Disputed

\* The steps from which the calls of each area go on.
LEMMA StepsOf ==
  ASSUME NEW h \in Handlers
  PROVE  /\ ReferralCall(h) => call[h].at \in Label.referrals \cup {"idle"}
         /\ BankCall(h) => call[h].at \in Label.bank \cup {"idle"}
         /\ IdentityCall(h) => call[h].at \in Label.identity \cup {"idle"}
         /\ FactorCall(h) => call[h].at \in Label.factor \cup {"idle"}
         /\ RatingCall(h) => call[h].at \in Label.ratings \cup {"idle"}
         /\ FulfilmentCall(h) => call[h].at \in Label.fulfilment \cup {"idle"}
  <1>1. ASSUME NEW at, NEW on, NEW seen, Begin(h, at, on, seen) PROVE call[h].at = "idle"
    BY <1>1 DEF Begin, Idle
  <1>2. ASSUME NEW at, End(h, at) PROVE call[h].at = at
    BY <1>2 DEF End
  <1>3. ASSUME NEW at, NEW next, NEW seen, Proceed(h, at, next, seen) PROVE call[h].at = at
    BY <1>3 DEF Proceed
  <1>4. ReferralCall(h) => call[h].at \in Label.referrals \cup {"idle"}
    BY <1>1, <1>2, <1>3 DEF Label, ReferralCall, GetMyReferralCode, ClaimReward,
       ApplyReferralCode, CreateCode, FindUsage, CreateUsage, CreditReward
  <1>5. BankCall(h) => call[h].at \in Label.bank \cup {"idle"}
    BY <1>1, <1>2, <1>3 DEF Label, BankCall, AddBankAccount, WithdrawToNewAccount, SetAsDefault,
       DeleteBankAccount, CountAccounts, CreateAccount, CreateUnlisted, UnsetDefaults, SetDefault,
       SoftDelete
  <1>6. IdentityCall(h) => call[h].at \in Label.identity \cup {"idle"}
    BY <1>1, <1>2, <1>3 DEF Label, IdentityCall, SubmitKyc, UploadKYCDocument, ApproveKYC,
       RejectKYC, CreateSubmission, CreateUpload, SetPending, SetVerified, SetRejected, SetReason
  <1>7. FactorCall(h) => call[h].at \in Label.factor \cup {"idle"}
    BY <1>1, <1>2, <1>3 DEF Label, FactorCall, SetupMfa, EnableMfa, DisableMfa, VerifyMfa,
       StoreSetup, SetEnabled, ClearFactor
  <1>8. RatingCall(h) => call[h].at \in Label.ratings \cup {"idle"}
    BY <1>1, <1>2, <1>3 DEF Label, RatingCall, CreateRating, Rate, DeleteRating, InsertRating,
       RemoveRating, Average, StoreReputation, InsertSilently
  <1>9. FulfilmentCall(h) => call[h].at \in Label.fulfilment \cup {"idle"}
    BY <1>1, <1>2, <1>3 DEF Label, FulfilmentCall, SubmitDeliveryProof, Resolve, PayAccepted, DeliverByLink,
       ConfirmDelivered, CancelOrder, OpenDispute, DisputeTransaction, DisputeOrder, Respond,
       SubmitEvidence, AssignArbitrator, StoreFile, ListFile, ListRefused, InsertLink,
       SetOrderStatus, InsertDispute, InsertFirst, InsertRefused, SetResponded, InsertEvidence,
       SetArbitration, Decide
  <1> QED
    BY <1>4, <1>5, <1>6, <1>7, <1>8, <1>9

LEMMA DisputedStep == Served /\ Disputed /\ [Next]_vars => Disputed'
  <1> SUFFICES ASSUME Served, Disputed, [Next]_vars PROVE Disputed'
    OBVIOUS
  <1>1. ASSUME NEW h \in Handlers, FulfilmentCall(h) PROVE Disputed'
    <2>1. Shaped
      BY DEF Served
    <2>2. CASE \E f \in Files : SubmitDeliveryProof(h, f)
      <3>1. /\ Moves(h, {"store"}) /\ call[h].at # "setStatus"
            /\ UNCHANGED <<orderStatus, dispute, decision>>
        BY <2>1, <2>2, BeginGives DEF SubmitDeliveryProof, fulfilmentVars
      <3> QED
        BY <3>1, DisputedKept DEF Relying
    <2>3. CASE DeliverByLink(h)
      <3>1. /\ Moves(h, {"link"}) /\ call[h].at # "setStatus"
            /\ UNCHANGED <<orderStatus, dispute, decision>>
        BY <2>1, <2>3, BeginGives DEF DeliverByLink, fulfilmentVars
      <3> QED
        BY <3>1, DisputedKept DEF Relying
    <2>4. CASE OpenDispute(h)
      <3>1. /\ Moves(h, {"open"}) /\ call[h].at # "setStatus"
            /\ UNCHANGED <<orderStatus, dispute, decision>>
        BY <2>1, <2>4, BeginGives DEF OpenDispute, fulfilmentVars
      <3> QED
        BY <3>1, DisputedKept DEF Relying
    <2>5. CASE DisputeTransaction(h)
      <3>1. /\ Moves(h, {"openFirst"}) /\ call[h].at = "idle"
            /\ call'[h] = [at |-> "openFirst", on |-> "DISPUTED", seen |-> Null]
        BY <2>1, <2>5, BeginGives DEF DisputeTransaction
      <3>2. serial' = serial /\ reliable' = reliable
            /\ \A g \in Handlers : g # h => call'[g] = call[g]
        BY <3>1 DEF Moves
      <3>3. serial => \A g \in Handlers : g # h => call[g].at = "idle" /\ call'[g].at = "idle"
        BY <3>1, OthersIdle
      <3>4. /\ orderStatus = "PAID"
            /\ UNCHANGED <<orderStatus, dispute, decision>>
            /\ call'[h].at = "openFirst" /\ call'[h].on = "DISPUTED"
        BY <2>5, <3>1 DEF DisputeTransaction, fulfilmentVars
      <3>5. Outcomes'
        BY <3>2, <3>4 DEF Disputed, Outcomes
      <3>6. Heard'
        BY <3>2, <3>3, <3>4 DEF Disputed, Heard
      <3>7. Follows'
        BY <3>1, <3>2, <3>3, <3>4 DEF Disputed, Outcomes, Follows, Followed
      <3> QED
        BY <3>5, <3>6, <3>7 DEF Disputed
    <2>6. CASE AssignArbitrator(h)
      <3>1. /\ Moves(h, {"assign"}) /\ call[h].at = "idle"
            /\ call'[h] = [at |-> "assign", on |-> Null, seen |-> Null]
        BY <2>1, <2>6, BeginGives DEF AssignArbitrator
      <3>2. serial' = serial /\ reliable' = reliable
            /\ \A g \in Handlers : g # h => call'[g] = call[g]
        BY <3>1 DEF Moves
      <3>3. serial => \A g \in Handlers : g # h => call[g].at = "idle" /\ call'[g].at = "idle"
        BY <3>1, OthersIdle
      <3>4. /\ dispute # "NONE"
            /\ UNCHANGED <<orderStatus, dispute, decision>>
            /\ call'[h].at = "assign" /\ call'[h].on = Null
        BY <2>6, <3>1 DEF AssignArbitrator, fulfilmentVars
      <3>5. Outcomes'
        BY <3>2, <3>4 DEF Disputed, Outcomes
      <3>6. Heard'
        BY <3>2, <3>3, <3>4 DEF Disputed, Heard
      <3>7. Follows'
        BY <3>1, <3>2, <3>3, <3>4 DEF Disputed, Outcomes, Follows, Followed
      <3> QED
        BY <3>5, <3>6, <3>7 DEF Disputed
    <2>7. CASE StoreFile(h)
      <3>1. /\ Moves(h, {"list"}) /\ call[h].at # "setStatus"
            /\ UNCHANGED <<orderStatus, dispute, decision>>
        <4>1. Proceed(h, "store", "list", call[h].seen)
          BY <2>7 DEF StoreFile
        <4>2. Moves(h, {"list"}) /\ call[h].at = "store"
          BY <2>1, <4>1, ProceedGives
        <4> QED
          BY <2>7, <4>2 DEF StoreFile, disputeVars
      <3> QED
        BY <3>1, DisputedKept DEF Relying
    <2>8. CASE ListFile(h)
      <3>1. /\ Moves(h, {}) /\ call[h].at # "setStatus"
            /\ UNCHANGED <<orderStatus, dispute, decision>>
        BY <2>1, <2>8, EndGives DEF ListFile, disputeVars
      <3> QED
        BY <3>1, DisputedKept DEF Relying
    <2>9. CASE ListRefused(h)
      <3>1. /\ Moves(h, {}) /\ call[h].at # "setStatus"
            /\ UNCHANGED <<orderStatus, dispute, decision>>
        BY <2>1, <2>9, EndGives DEF ListRefused, fulfilmentVars
      <3> QED
        BY <3>1, DisputedKept DEF Relying
    <2>10. CASE InsertLink(h)
      <3>1. /\ Moves(h, {}) /\ call[h].at # "setStatus"
            /\ UNCHANGED <<orderStatus, dispute, decision>>
        BY <2>1, <2>10, EndGives DEF InsertLink, disputeVars
      <3> QED
        BY <3>1, DisputedKept DEF Relying
    <2>11. CASE InsertRefused(h)
      <3>1. /\ Moves(h, {}) /\ call[h].at # "setStatus"
            /\ UNCHANGED <<orderStatus, dispute, decision>>
        BY <2>1, <2>11, IdleGives DEF InsertRefused, fulfilmentVars
      <3> QED
        BY <3>1, DisputedKept DEF Relying
    <2>12. CASE ConfirmDelivered(h)
      <3>1. /\ Moves(h, {"setStatus"}) /\ call[h].at = "idle"
            /\ call'[h] = [at |-> "setStatus", on |-> "COMPLETED", seen |-> Null]
        BY <2>1, <2>12, BeginGives DEF ConfirmDelivered
      <3>2. serial' = serial /\ reliable' = reliable
            /\ \A g \in Handlers : g # h => call'[g] = call[g]
        BY <3>1 DEF Moves
      <3>3. serial => \A g \in Handlers : g # h => call[g].at = "idle" /\ call'[g].at = "idle"
        BY <3>1, OthersIdle
      <3>4. /\ orderStatus = "PAID"
            /\ UNCHANGED <<orderStatus, dispute, decision>>
            /\ call'[h].at = "setStatus" /\ call'[h].on = "COMPLETED"
        BY <2>12, <3>1 DEF ConfirmDelivered, fulfilmentVars
      <3>5. Outcomes'
        BY <3>2, <3>4 DEF Disputed, Outcomes
      <3>6. Heard'
        BY <3>2, <3>3, <3>4 DEF Disputed, Heard
      <3>7. Follows'
        BY <3>1, <3>2, <3>3, <3>4 DEF Disputed, Outcomes, Follows, Followed
      <3> QED
        BY <3>5, <3>6, <3>7 DEF Disputed
    <2>13. CASE CancelOrder(h)
      <3>1. /\ Moves(h, {"setStatus"}) /\ call[h].at = "idle"
            /\ call'[h] = [at |-> "setStatus", on |-> "CANCELLED", seen |-> Null]
        BY <2>1, <2>13, BeginGives DEF CancelOrder
      <3>2. serial' = serial /\ reliable' = reliable
            /\ \A g \in Handlers : g # h => call'[g] = call[g]
        BY <3>1 DEF Moves
      <3>3. serial => \A g \in Handlers : g # h => call[g].at = "idle" /\ call'[g].at = "idle"
        BY <3>1, OthersIdle
      <3>4. /\ orderStatus # "PAID"
            /\ UNCHANGED <<orderStatus, dispute, decision>>
            /\ call'[h].at = "setStatus" /\ call'[h].on = "CANCELLED"
        BY <2>13, <3>1 DEF CancelOrder, fulfilmentVars
      <3>5. Outcomes'
        BY <3>2, <3>4 DEF Disputed, Outcomes
      <3>6. Heard'
        BY <3>2, <3>3, <3>4 DEF Disputed, Heard
      <3>7. Follows'
        BY <3>1, <3>2, <3>3, <3>4 DEF Disputed, Outcomes, Follows, Followed
      <3> QED
        BY <3>5, <3>6, <3>7 DEF Disputed
    <2>14. CASE DisputeOrder(h)
      <3>1. /\ Moves(h, {"setStatus"}) /\ call[h].at = "idle"
            /\ call'[h] = [at |-> "setStatus", on |-> "DISPUTED", seen |-> Null]
        BY <2>1, <2>14, BeginGives DEF DisputeOrder
      <3>2. serial' = serial /\ reliable' = reliable
            /\ \A g \in Handlers : g # h => call'[g] = call[g]
        BY <3>1 DEF Moves
      <3>3. serial => \A g \in Handlers : g # h => call[g].at = "idle" /\ call'[g].at = "idle"
        BY <3>1, OthersIdle
      <3>4. /\ orderStatus = "PAID"
            /\ UNCHANGED <<orderStatus, dispute, decision>>
            /\ call'[h].at = "setStatus" /\ call'[h].on = "DISPUTED"
        BY <2>14, <3>1 DEF DisputeOrder, fulfilmentVars
      <3>5. Outcomes'
        BY <3>2, <3>4 DEF Disputed, Outcomes
      <3>6. Heard'
        BY <3>2, <3>3, <3>4 DEF Disputed, Heard
      <3>7. Follows'
        BY <3>1, <3>2, <3>3, <3>4 DEF Disputed, Outcomes, Follows, Followed
      <3> QED
        BY <3>5, <3>6, <3>7 DEF Disputed
    <2>15. CASE Respond(h)
      <3>1. /\ Moves(h, {"respond"}) /\ call[h].at = "idle"
            /\ call'[h] = [at |-> "respond", on |-> Null, seen |-> Null]
        BY <2>1, <2>15, BeginGives DEF Respond
      <3>2. serial' = serial /\ reliable' = reliable
            /\ \A g \in Handlers : g # h => call'[g] = call[g]
        BY <3>1 DEF Moves
      <3>3. serial => \A g \in Handlers : g # h => call[g].at = "idle" /\ call'[g].at = "idle"
        BY <3>1, OthersIdle
      <3>4. /\ dispute = "OPEN"
            /\ UNCHANGED <<orderStatus, dispute, decision>>
            /\ call'[h].at = "respond" /\ call'[h].on = Null
        BY <2>15, <3>1 DEF Respond, fulfilmentVars
      <3>5. Outcomes'
        BY <3>2, <3>4 DEF Disputed, Outcomes
      <3>6. Heard'
        BY <3>2, <3>3, <3>4 DEF Disputed, Heard
      <3>7. Follows'
        BY <3>1, <3>2, <3>3, <3>4 DEF Disputed, Outcomes, Follows, Followed
      <3> QED
        BY <3>5, <3>6, <3>7 DEF Disputed
    <2>16. CASE SubmitEvidence(h)
      <3>1. /\ Moves(h, {"evidence"}) /\ call[h].at # "setStatus"
            /\ UNCHANGED <<orderStatus, dispute, decision>>
        BY <2>1, <2>16, BeginGives DEF SubmitEvidence, fulfilmentVars
      <3> QED
        BY <3>1, DisputedKept DEF Relying
    <2>17. CASE \E outcome \in {"COMPLETED", "REFUNDED", "CANCELLED"} : Resolve(h, outcome)
      <3>0. PICK outcome \in {"COMPLETED", "REFUNDED", "CANCELLED"} : Resolve(h, outcome)
        BY <2>17
      <3>1. /\ Moves(h, {"resolve"}) /\ call[h].at = "idle"
            /\ call'[h] = [at |-> "resolve", on |-> outcome, seen |-> Null]
        BY <2>1, <3>0, BeginGives DEF Resolve
      <3>2. serial' = serial /\ reliable' = reliable
            /\ \A g \in Handlers : g # h => call'[g] = call[g]
        BY <3>1 DEF Moves
      <3>3. serial => \A g \in Handlers : g # h => call[g].at = "idle" /\ call'[g].at = "idle"
        BY <3>1, OthersIdle
      <3>4. /\ dispute # "NONE"
            /\ UNCHANGED <<orderStatus, dispute, decision>>
            /\ call'[h].at = "resolve" /\ call'[h].on = outcome
        BY <3>0, <3>1 DEF Resolve, fulfilmentVars
      <3>5. Outcomes'
        BY <3>2, <3>4 DEF Disputed, Outcomes
      <3>6. Heard'
        BY <3>2, <3>3, <3>4 DEF Disputed, Heard
      <3>7. Follows'
        BY <3>1, <3>2, <3>3, <3>4 DEF Disputed, Outcomes, Follows, Followed
      <3> QED
        BY <3>5, <3>6, <3>7 DEF Disputed
    <2>18. CASE SetOrderStatus(h)
      <3>1. Moves(h, {}) /\ call[h].at = "setStatus" /\ call'[h] = Idle
        BY <2>1, <2>18, EndGives DEF SetOrderStatus
      <3>2. serial' = serial /\ reliable' = reliable
            /\ \A g \in Handlers : g # h => call'[g] = call[g]
        BY <3>1 DEF Moves
      <3>3. serial => \A g \in Handlers : g # h => call[g].at = "idle" /\ call'[g].at = "idle"
        BY <3>1, OthersIdle
      <3>4. /\ call'[h].at = "idle"
            /\ orderStatus' = call[h].on /\ UNCHANGED <<dispute, decision>>
        BY <2>18, <3>1 DEF SetOrderStatus, Idle, disputeVars
      <3>5. Outcomes'
        BY <3>1, <3>2, <3>4 DEF Disputed, Outcomes
      <3>6. Heard'
        BY <3>1, <3>2, <3>3, <3>4 DEF Disputed, Outcomes, Heard
      <3>7. Follows'
        BY <3>1, <3>2, <3>3, <3>4 DEF Disputed, Outcomes, Follows, Followed
      <3> QED
        BY <3>5, <3>6, <3>7 DEF Disputed
    <2>19. CASE InsertDispute(h)
      <3>1. Moves(h, {}) /\ call[h].at = "open" /\ call'[h] = Idle
        BY <2>1, <2>19, EndGives DEF InsertDispute
      <3>2. serial' = serial /\ reliable' = reliable
            /\ \A g \in Handlers : g # h => call'[g] = call[g]
        BY <3>1 DEF Moves
      <3>3. serial => \A g \in Handlers : g # h => call[g].at = "idle" /\ call'[g].at = "idle"
        BY <3>1, OthersIdle
      <3>4. /\ call'[h].at = "idle"
            /\ dispute = "NONE" /\ dispute' = "OPEN" /\ orderStatus' = "DISPUTED"
            /\ UNCHANGED decision
        BY <2>19, <3>1 DEF InsertDispute, Idle, disputeVars
      <3>5. Outcomes'
        BY <3>1, <3>2, <3>4 DEF Disputed, Outcomes
      <3>6. Heard'
        BY <3>1, <3>2, <3>3, <3>4 DEF Disputed, Outcomes, Heard
      <3>7. Follows'
        BY <3>1, <3>2, <3>3, <3>4 DEF Disputed, Outcomes, Follows, Followed
      <3> QED
        BY <3>5, <3>6, <3>7 DEF Disputed
    <2>20. CASE InsertFirst(h)
      <3>1. /\ Moves(h, {"setStatus"}) /\ call[h].at = "openFirst"
            /\ call'[h] = [at |-> "setStatus", on |-> call[h].on, seen |-> Null]
        BY <2>1, <2>20, ProceedGives DEF InsertFirst
      <3>2. serial' = serial /\ reliable' = reliable
            /\ \A g \in Handlers : g # h => call'[g] = call[g]
        BY <3>1 DEF Moves
      <3>3. serial => \A g \in Handlers : g # h => call[g].at = "idle" /\ call'[g].at = "idle"
        BY <3>1, OthersIdle
      <3>4. /\ call'[h].at = "setStatus" /\ call'[h].on = call[h].on
            /\ dispute = "NONE" /\ dispute' = "OPEN"
            /\ UNCHANGED <<orderStatus, decision>>
        BY <2>20, <3>1 DEF InsertFirst, Idle, disputeVars
      <3>5. Outcomes'
        BY <3>1, <3>2, <3>4 DEF Disputed, Outcomes
      <3>6. Heard'
        BY <3>1, <3>2, <3>3, <3>4 DEF Disputed, Outcomes, Heard
      <3>7. Follows'
        BY <3>1, <3>2, <3>3, <3>4 DEF Disputed, Outcomes, Follows, Followed
      <3> QED
        BY <3>5, <3>6, <3>7 DEF Disputed
    <2>21. CASE SetResponded(h)
      <3>1. Moves(h, {}) /\ call[h].at = "respond" /\ call'[h] = Idle
        BY <2>1, <2>21, EndGives DEF SetResponded
      <3>2. serial' = serial /\ reliable' = reliable
            /\ \A g \in Handlers : g # h => call'[g] = call[g]
        BY <3>1 DEF Moves
      <3>3. serial => \A g \in Handlers : g # h => call[g].at = "idle" /\ call'[g].at = "idle"
        BY <3>1, OthersIdle
      <3>4. /\ call'[h].at = "idle"
            /\ dispute' = "RESPONDED" /\ UNCHANGED <<orderStatus, decision>>
        BY <2>21, <3>1 DEF SetResponded, Idle, disputeVars
      <3>5. Outcomes'
        BY <3>1, <3>2, <3>4 DEF Disputed, Outcomes
      <3>6. Heard'
        BY <3>1, <3>2, <3>3, <3>4 DEF Disputed, Outcomes, Heard
      <3>8. serial => dispute = "OPEN"
        BY <3>1 DEF Disputed, Heard
      <3>7. Follows'
        BY <3>1, <3>2, <3>3, <3>4, <3>8 DEF Disputed, Outcomes, Follows, Followed
      <3> QED
        BY <3>5, <3>6, <3>7 DEF Disputed
    <2>22. CASE InsertEvidence(h)
      <3>1. /\ Moves(h, {}) /\ call[h].at # "setStatus"
            /\ UNCHANGED <<orderStatus, dispute, decision>>
        BY <2>1, <2>22, EndGives DEF InsertEvidence
      <3> QED
        BY <3>1, DisputedKept DEF Relying
    <2>23. CASE SetArbitration(h)
      <3>1. Moves(h, {}) /\ call[h].at = "assign" /\ call'[h] = Idle
        BY <2>1, <2>23, EndGives DEF SetArbitration
      <3>2. serial' = serial /\ reliable' = reliable
            /\ \A g \in Handlers : g # h => call'[g] = call[g]
        BY <3>1 DEF Moves
      <3>3. serial => \A g \in Handlers : g # h => call[g].at = "idle" /\ call'[g].at = "idle"
        BY <3>1, OthersIdle
      <3>4. /\ call'[h].at = "idle"
            /\ dispute' = "UNDER_ARBITRATION" /\ UNCHANGED <<orderStatus, decision>>
        BY <2>23, <3>1 DEF SetArbitration, Idle, disputeVars
      <3>5. Outcomes'
        BY <3>1, <3>2, <3>4 DEF Disputed, Outcomes
      <3>6. Heard'
        BY <3>1, <3>2, <3>3, <3>4 DEF Disputed, Outcomes, Heard
      <3>7. Follows'
        BY <3>1, <3>2, <3>3, <3>4 DEF Disputed, Outcomes, Follows, Followed
      <3> QED
        BY <3>5, <3>6, <3>7 DEF Disputed
    <2>24. CASE Decide(h)
      <3>1. Moves(h, {}) /\ call[h].at = "resolve" /\ call'[h] = Idle
        BY <2>1, <2>24, EndGives DEF Decide
      <3>2. serial' = serial /\ reliable' = reliable
            /\ \A g \in Handlers : g # h => call'[g] = call[g]
        BY <3>1 DEF Moves
      <3>3. serial => \A g \in Handlers : g # h => call[g].at = "idle" /\ call'[g].at = "idle"
        BY <3>1, OthersIdle
      <3>4. /\ call'[h].at = "idle"
            /\ dispute' = "DECIDED" /\ decision' = call[h].on /\ orderStatus' = call[h].on
        BY <2>24, <3>1 DEF Decide, Idle, disputeVars
      <3>5. Outcomes'
        BY <3>1, <3>2, <3>4 DEF Disputed, Outcomes
      <3>6. Heard'
        BY <3>1, <3>2, <3>3, <3>4 DEF Disputed, Outcomes, Heard
      <3>7. Follows'
        BY <3>1, <3>2, <3>3, <3>4 DEF Disputed, Outcomes, Follows, Followed
      <3> QED
        BY <3>5, <3>6, <3>7 DEF Disputed
    <2>25. CASE PayAccepted(h)
      <3>1. /\ Moves(h, {"setStatus"}) /\ call[h].at = "idle"
            /\ call'[h] = [at |-> "setStatus", on |-> "PAID", seen |-> Null]
        BY <2>1, <2>25, BeginGives DEF PayAccepted
      <3>2. serial' = serial /\ reliable' = reliable
            /\ \A g \in Handlers : g # h => call'[g] = call[g]
        BY <3>1 DEF Moves
      <3>3. serial => \A g \in Handlers : g # h => call[g].at = "idle" /\ call'[g].at = "idle"
        BY <3>1, OthersIdle
      <3>4. /\ orderStatus = "ACCEPTED"
            /\ UNCHANGED <<orderStatus, dispute, decision>>
            /\ call'[h].at = "setStatus" /\ call'[h].on = "PAID"
        BY <2>25, <3>1 DEF PayAccepted, fulfilmentVars
      <3>5. Outcomes'
        BY <3>2, <3>4 DEF Disputed, Outcomes
      <3>6. Heard'
        BY <3>2, <3>3, <3>4 DEF Disputed, Heard
      <3>7. Follows'
        BY <3>1, <3>2, <3>3, <3>4 DEF Disputed, Outcomes, Follows, Followed
      <3> QED
        BY <3>5, <3>6, <3>7 DEF Disputed
    <2> QED
      BY <1>1, <2>2, <2>3, <2>4, <2>5, <2>6, <2>7, <2>8, <2>9, <2>10, <2>11, <2>12, <2>13,
         <2>14, <2>15, <2>16, <2>17, <2>18, <2>19, <2>20, <2>21, <2>22, <2>23, <2>24,
         <2>25 DEF FulfilmentCall
  <1>2. ASSUME NEW h \in Handlers, Serve(h) PROVE Disputed'
    <2>1. ASSUME UNCHANGED fulfilmentVars,
                 ReferralCall(h) \/ BankCall(h) \/ IdentityCall(h) \/ FactorCall(h) \/ RatingCall(h) \/ Cut(h)
          PROVE  Disputed'
      <3>1. (Label.referrals \cup Label.bank \cup Label.identity \cup Label.factor \cup Label.ratings)
               \cap Relying = {}
        BY DEF Label, Relying
      <3>2. PICK L : Moves(h, L) /\ L \cap Relying = {}
        BY <2>1, <3>1, ReferralMoves, BankMoves, IdentityMoves, FactorMoves, RatingMoves, CutGives DEF Served
      <3>3. call[h].at # "setStatus" \/ ~reliable
        BY <2>1, <3>1, CutGives, StepsOf DEF Served, Relying
      <3> QED
        BY <2>1, <3>2, <3>3, DisputedKept DEF fulfilmentVars
    <2> QED
      BY <1>1, <1>2, <2>1 DEF Serve
  <1>3. CASE UNCHANGED vars
    BY <1>3 DEF vars, callVars, fulfilmentVars, Disputed, Outcomes, Heard, Follows, Followed
  <1> QED
    BY <1>2, <1>3 DEF Next

\* The calls that have passed the check for evidence.
Givers == {h \in Handlers : call[h].at = "evidence"}

\* Until a decided dispute is reopened, it stays decided, and evidence comes to it only
\* from calls that were there when it was decided: all but the call that decided it.
Evidenced ==
    /\ late \in Nat
    /\ ~reopened =>
          /\ decision = "NONE" => late = 0
          /\ decision # "NONE" => dispute = "DECIDED" /\ late + Cardinality(Givers) < Passes

LEMMA GiversFinite ==
  /\ IsFiniteSet(Givers) /\ Cardinality(Givers) \in Nat
  /\ Cardinality(Handlers) \in Nat \ {0} /\ Passes \in Nat \ {0}
  <1>1. Givers \subseteq Handlers /\ IsFiniteSet(Handlers) /\ Handlers # {}
    BY CallsAssumption DEF CallsAssumption, Givers
  <1> QED
    BY <1>1, FS_Subset, FS_CardinalityType, FS_EmptySet DEF Passes

LEMMA EvidencedInit == Init => Evidenced
  BY DEF Init, FulfilmentInit, Evidenced

\* Giving no evidence and leaving the dispute alone keeps Evidenced.
LEMMA EvidencedKept ==
  ASSUME Evidenced, NEW h \in Handlers, NEW L, Moves(h, L), "evidence" \notin L,
         UNCHANGED <<dispute, decision, late, reopened>>
  PROVE  Evidenced'
  <1>1. Givers' \subseteq Givers /\ Passes' = Passes
    BY DEF Givers, Moves, Passes
  <1>2. Cardinality(Givers') <= Cardinality(Givers) /\ Cardinality(Givers') \in Nat
    BY <1>1, GiversFinite, FS_Subset, FS_CardinalityType
  <1> QED
    BY <1>1, <1>2, GiversFinite DEF Evidenced

LEMMA EvidencedStep == Served /\ Disputed /\ Evidenced /\ [Next]_vars => Evidenced'
  <1> SUFFICES ASSUME Served, Disputed, Evidenced, [Next]_vars PROVE Evidenced'
    OBVIOUS
  <1>0. Shaped /\ Outcomes
    BY DEF Served, Disputed
  <1>1. ASSUME NEW h \in Handlers, SubmitEvidence(h) PROVE Evidenced'
    <2>1. /\ Moves(h, {"evidence"}) /\ dispute # "DECIDED"
          /\ UNCHANGED <<dispute, decision, late, reopened>>
      BY <1>0, <1>1, BeginGives DEF SubmitEvidence, fulfilmentVars
    <2> QED
      BY <2>1 DEF Evidenced
  <1>2. ASSUME NEW h \in Handlers, InsertEvidence(h) PROVE Evidenced'
    <2>1. /\ Moves(h, {}) /\ call[h].at = "evidence" /\ call'[h] = Idle
          /\ UNCHANGED <<dispute, decision, reopened>>
          /\ late' = IF decision # "NONE" THEN late + 1 ELSE late
      BY <1>0, <1>2, EndGives DEF InsertEvidence
    <2>2. Givers' = Givers \ {h} /\ h \in Givers /\ Passes' = Passes
      BY <2>1 DEF Givers, Moves, Passes, Idle
    <2>3. Cardinality(Givers') = Cardinality(Givers) - 1
      BY <2>2, GiversFinite, FS_RemoveElement
    <2> QED
      BY <2>1, <2>2, <2>3, GiversFinite DEF Evidenced
  <1>3. ASSUME NEW h \in Handlers, SetResponded(h) \/ SetArbitration(h) PROVE Evidenced'
    <2>1. /\ reopened' = (reopened \/ decision # "NONE")
          /\ UNCHANGED <<decision, late>>
      BY <1>3 DEF SetResponded, SetArbitration
    <2> QED
      BY <2>1 DEF Evidenced
  <1>4. ASSUME NEW h \in Handlers, Decide(h) PROVE Evidenced'
    <2>1. /\ Moves(h, {}) /\ call[h].at = "resolve" /\ call'[h] = Idle
          /\ UNCHANGED <<late, reopened>>
          /\ dispute' = "DECIDED" /\ decision' = call[h].on
      BY <1>0, <1>4, EndGives DEF Decide
    <2>2. decision' # "NONE"
      BY <1>0, <2>1 DEF Outcomes
    <2>3. /\ Givers' = Givers /\ Passes' = Passes
          /\ Givers \subseteq Handlers \ {h}
          /\ serial => Givers = {}
      BY <2>1 DEF Givers, Moves, Passes, Idle, Served, Alone
    <2>4. Cardinality(Givers) < Passes
      <3>1. CASE serial
        BY <2>3, <3>1, FS_EmptySet DEF Passes
      <3>2. CASE ~serial
        <4>1. IsFiniteSet(Handlers)
          BY CallsAssumption DEF CallsAssumption
        <4>2. IsFiniteSet(Handlers \ {h}) /\ Cardinality(Handlers \ {h}) = Cardinality(Handlers) - 1
          BY <4>1, FS_RemoveElement
        <4>3. Cardinality(Givers) <= Cardinality(Handlers) - 1
          BY <2>3, <4>2, FS_Subset
        <4> QED
          BY <3>2, <4>3, GiversFinite DEF Passes
      <3> QED
        BY <3>1, <3>2
    <2> QED
      BY <2>1, <2>2, <2>3, <2>4, GiversFinite DEF Evidenced
  <1>5. ASSUME NEW h \in Handlers, InsertDispute(h) \/ InsertFirst(h) PROVE Evidenced'
    <2>1. /\ dispute = "NONE" /\ UNCHANGED <<decision, late, reopened>>
      BY <1>5 DEF InsertDispute, InsertFirst
    <2> QED
      BY <1>0, <2>1 DEF Evidenced, Outcomes
  <1>6. ASSUME NEW h \in Handlers, FulfilmentCall(h), ~SubmitEvidence(h), ~InsertEvidence(h),
               ~SetResponded(h), ~SetArbitration(h), ~Decide(h), ~InsertDispute(h), ~InsertFirst(h)
        PROVE  Evidenced'
    <2> DEFINE Aside == \E L : Moves(h, L) /\ "evidence" \notin L
    <2>1. UNCHANGED <<dispute, decision, late, reopened>>
      BY <1>6 DEF FulfilmentCall, SubmitDeliveryProof, Resolve, PayAccepted, DeliverByLink,
         ConfirmDelivered, CancelOrder, OpenDispute, DisputeTransaction, DisputeOrder, Respond,
         AssignArbitrator, StoreFile, ListFile, ListRefused, InsertLink, SetOrderStatus,
         InsertRefused, fulfilmentVars, disputeVars
    <2>a. /\ Moves(h, {}) => Aside
          /\ \A at : at # "evidence" /\ Moves(h, {at}) => Aside
      OBVIOUS
    <2> HIDE DEF Aside
    <2>2. Aside
      <3> USE <1>0, <2>a
      <3>1. CASE \E f \in Files : SubmitDeliveryProof(h, f)
        BY <3>1, BeginGives DEF SubmitDeliveryProof
      <3>2. CASE \E outcome \in {"COMPLETED", "REFUNDED", "CANCELLED"} : Resolve(h, outcome)
        BY <3>2, BeginGives DEF Resolve
      <3>3. CASE PayAccepted(h)
        BY <3>3, BeginGives DEF PayAccepted
      <3>4. CASE DeliverByLink(h)
        BY <3>4, BeginGives DEF DeliverByLink
      <3>5. CASE ConfirmDelivered(h)
        BY <3>5, BeginGives DEF ConfirmDelivered
      <3>6. CASE CancelOrder(h)
        BY <3>6, BeginGives DEF CancelOrder
      <3>7. CASE OpenDispute(h)
        BY <3>7, BeginGives DEF OpenDispute
      <3>8. CASE DisputeTransaction(h)
        BY <3>8, BeginGives DEF DisputeTransaction
      <3>9. CASE DisputeOrder(h)
        BY <3>9, BeginGives DEF DisputeOrder
      <3>10. CASE Respond(h)
        BY <3>10, BeginGives DEF Respond
      <3>11. CASE AssignArbitrator(h)
        BY <3>11, BeginGives DEF AssignArbitrator
      <3>12. CASE StoreFile(h)
        <4>1. Proceed(h, "store", "list", call[h].seen)
          BY <3>12 DEF StoreFile
        <4>2. Moves(h, {"list"})
          BY <4>1, ProceedGives
        <4> QED
          BY <4>2
      <3>13. CASE ListFile(h)
        BY <3>13, EndGives DEF ListFile
      <3>14. CASE ListRefused(h)
        BY <3>14, EndGives DEF ListRefused
      <3>15. CASE InsertLink(h)
        BY <3>15, EndGives DEF InsertLink
      <3>16. CASE SetOrderStatus(h)
        BY <3>16, EndGives DEF SetOrderStatus
      <3>17. CASE InsertRefused(h)
        BY <3>17, IdleGives DEF InsertRefused
      <3> QED
        BY <1>6, <3>1, <3>2, <3>3, <3>4, <3>5, <3>6, <3>7, <3>8, <3>9, <3>10, <3>11, <3>12,
           <3>13, <3>14, <3>15, <3>16, <3>17 DEF FulfilmentCall
    <2> QED
      BY <2>1, <2>2, EvidencedKept DEF Aside
  <1>7. ASSUME NEW h \in Handlers, Serve(h) PROVE Evidenced'
    <2>1. ASSUME UNCHANGED fulfilmentVars,
                 ReferralCall(h) \/ BankCall(h) \/ IdentityCall(h) \/ FactorCall(h) \/ RatingCall(h) \/ Cut(h)
          PROVE  Evidenced'
      <3>1. "evidence" \notin Label.referrals \cup Label.bank \cup Label.identity
                                \cup Label.factor \cup Label.ratings
        BY DEF Label
      <3>2. PICK L : Moves(h, L) /\ "evidence" \notin L
        BY <1>0, <2>1, <3>1, ReferralMoves, BankMoves, IdentityMoves, FactorMoves, RatingMoves, CutGives
      <3> QED
        BY <2>1, <3>2, EvidencedKept DEF fulfilmentVars
    <2>2. FulfilmentCall(h) => Evidenced'
      BY <1>1, <1>2, <1>3, <1>4, <1>5, <1>6
    <2> QED
      BY <1>7, <2>1, <2>2 DEF Serve
  <1>8. CASE UNCHANGED vars
    BY <1>8 DEF vars, callVars, fulfilmentVars, Evidenced, Givers, Passes
  <1> QED
    BY <1>7, <1>8 DEF Next

\* If calls neither overlap nor are cut short, the order follows its dispute; and
\* wherever calls overlap or are cut short, evidence comes after the decision only by
\* calls that had passed their check before it, unless the dispute was reopened.
THEOREM DisputeGoesItsWay == Spec => []DisputeInOrder
  <1>1. Spec => [](Served /\ Disputed /\ Evidenced)
    BY ServedInit, ServedStep, DisputedInit, DisputedStep, EvidencedInit, EvidencedStep,
       PTL DEF Spec
  <1>2. Disputed => OrderFollowsDispute
    BY DEF Disputed, Heard, Follows, Followed, OrderFollowsDispute, Quiet, Idle
  <1>3. Evidenced => FewLatePieces
    BY GiversFinite DEF Evidenced, FewLatePieces
  <1> QED
    BY <1>1, <1>2, <1>3, PTL DEF DisputeInOrder
----------------------------------------------------------------------------
(* The second factor.                                                      *)

\* If calls do not overlap, who is about to enable the factor has shown a code of
\* the secret that is stored.
CodeShown ==
    serial => \A h \in Handlers : call[h].at = "enable" => secret # 0 /\ call[h].on = secret

Shown == FactorConfirmed /\ CodeShown

LEMMA ShownInit == Init => Shown
  BY DEF Init, CallsInit, SecondFactorInit, Shown, FactorConfirmed, CodeShown, Idle

LEMMA ShownStep == Served /\ Shown /\ [Next]_vars => Shown'
  <1> SUFFICES ASSUME Served, Shown, [Next]_vars PROVE Shown'
    OBVIOUS
  <1>1. ASSUME NEW h \in Handlers, NEW L, Moves(h, L), "enable" \notin L, FactorConfirmed'
        PROVE  Shown'
    <2>1. serial' => \A g \in Handlers : call'[g].at # "enable"
      BY <1>1, OthersIdle DEF Moves
    <2> QED
      BY <1>1, <2>1 DEF Shown, CodeShown
  <1>2. ASSUME NEW h \in Handlers, FactorCall(h) PROVE Shown'
    <2>1. Shaped
      BY DEF Served
    <2>2. CASE SetupMfa(h)
      <3>1. Moves(h, {"setup"}) /\ UNCHANGED factorVars
        BY <2>1, <2>2, BeginGives DEF SetupMfa
      <3>2. FactorConfirmed'
        BY <3>1 DEF Moves, Shown, FactorConfirmed, factorVars
      <3> QED
        BY <1>1, <3>1, <3>2
    <2>3. ASSUME NEW code, EnableMfa(h, code) PROVE Shown'
      <3>1. /\ Moves(h, {"enable"}) /\ UNCHANGED factorVars
            /\ secret # 0 /\ call'[h].on = secret
        <4>1. /\ Begin(h, "enable", code, Null) /\ UNCHANGED factorVars
              /\ secret # 0 /\ code = secret
          BY <2>3 DEF EnableMfa, VerifyMfa
        <4>2. Moves(h, {"enable"}) /\ call'[h] = [at |-> "enable", on |-> code, seen |-> Null]
          BY <2>1, <4>1, BeginGives
        <4> QED
          BY <4>1, <4>2
      <3>2. serial => \A g \in Handlers : g # h => call'[g].at # "enable"
        BY <3>1, OthersIdle
      <3> QED
        BY <3>1, <3>2 DEF Moves, Shown, FactorConfirmed, CodeShown, factorVars
    <2>4. ASSUME NEW code, DisableMfa(h, code) PROVE Shown'
      <3>1. Moves(h, {"disable"}) /\ UNCHANGED factorVars
        BY <2>1, <2>4, BeginGives DEF DisableMfa, VerifyMfa
      <3>2. FactorConfirmed'
        BY <3>1 DEF Moves, Shown, FactorConfirmed, factorVars
      <3> QED
        BY <1>1, <3>1, <3>2
    <2>5. CASE StoreSetup(h)
      <3>1. Moves(h, {}) /\ mfaEnabled' = FALSE
        BY <2>1, <2>5, EndGives DEF StoreSetup
      <3> QED
        BY <1>1, <3>1 DEF FactorConfirmed
    <2>6. CASE SetEnabled(h)
      <3>1. Moves(h, {}) /\ call[h].at = "enable" /\ confirmed' = call[h].on /\ secret' = secret
        BY <2>1, <2>6, EndGives DEF SetEnabled, End
      <3>2. FactorConfirmed'
        BY <3>1 DEF Moves, Shown, CodeShown, FactorConfirmed
      <3> QED
        BY <1>1, <3>1, <3>2
    <2>7. CASE ClearFactor(h)
      <3>1. Moves(h, {}) /\ mfaEnabled' = FALSE
        BY <2>1, <2>7, EndGives DEF ClearFactor
      <3> QED
        BY <1>1, <3>1 DEF FactorConfirmed
    <2> QED
      BY <1>2, <2>2, <2>3, <2>4, <2>5, <2>6, <2>7 DEF FactorCall
  <1>3. ASSUME NEW h \in Handlers, Serve(h) PROVE Shown'
    <2>1. ASSUME UNCHANGED factorVars,
                 ReferralCall(h) \/ BankCall(h) \/ IdentityCall(h) \/ RatingCall(h)
                    \/ FulfilmentCall(h) \/ Cut(h)
          PROVE  Shown'
      <3>1. "enable" \notin Label.referrals \cup Label.bank \cup Label.identity \cup Label.ratings
                               \cup Label.fulfilment
        BY DEF Label
      <3>2. PICK L : Moves(h, L) /\ "enable" \notin L
        BY <2>1, <3>1, ReferralMoves, BankMoves, IdentityMoves, RatingMoves, FulfilmentMoves,
           CutGives DEF Served
      <3>3. FactorConfirmed'
        BY <2>1, <3>2 DEF Moves, Shown, FactorConfirmed, factorVars
      <3> QED
        BY <1>1, <3>2, <3>3
    <2> QED
      BY <1>2, <1>3, <2>1 DEF Serve
  <1>4. CASE UNCHANGED vars
    BY <1>4 DEF vars, callVars, factorVars, Shown, FactorConfirmed, CodeShown
  <1> QED
    BY <1>3, <1>4 DEF Next

\* If calls do not overlap, a login asks for a code only of a secret its member has
\* confirmed, for any number of setups and also when calls are cut short.
THEOREM FactorIsConfirmed == Spec => []FactorConfirmed
  <1>1. Spec => [](Served /\ Shown)
    BY ServedInit, ServedStep, ShownInit, ShownStep, PTL DEF Spec
  <1> QED
    BY <1>1, PTL DEF Shown
----------------------------------------------------------------------------
(* Limits that are checked before they are counted against.                *)

\* Calls that have passed a check: those of C.
Past(C) == {h \in Handlers : call[h] \in C}

\* n is below the limit, or exceeds it by no more than leaves the calls of C room.
Within(n, limit, C) == n < limit \/ n + Cardinality(Past(C)) <= limit - 1 + Passes

LEMMA PastFinite ==
  ASSUME NEW C
  PROVE  /\ IsFiniteSet(Past(C)) /\ Cardinality(Past(C)) \in Nat
         /\ Cardinality(Past(C)) <= Cardinality(Handlers)
         /\ Cardinality(Handlers) \in Nat /\ Passes \in Nat
  <1>1. Past(C) \subseteq Handlers /\ IsFiniteSet(Handlers)
    BY CallsAssumption DEF CallsAssumption, Past
  <1> QED
    BY <1>1, FS_Subset, FS_CardinalityType DEF Passes

LEMMA PastBounded ==
  ASSUME Served, NEW C, Idle \notin C, NEW h \in Past(C)
  PROVE  Cardinality(Past(C)) <= Passes
  <1>1. CASE ~serial
    BY <1>1, PastFinite DEF Passes
  <1>2. CASE serial
    <2>1. \A g \in Past(C) : g \in Handlers /\ call[g].at # "idle"
      BY DEF Past, Served, Shaped
    <2>2. Past(C) = {h}
      BY <1>2, <2>1 DEF Served, Alone
    <2> QED
      BY <1>2, <2>2, FS_Singleton DEF Passes
  <1> QED
    BY <1>1, <1>2

\* A step that counts nothing and passes no check keeps within the limit.
LEMMA WithinKept ==
  ASSUME NEW C, NEW h \in Handlers, NEW L, Moves(h, L), call'[h] \in C => call[h] \in C,
         NEW n \in Nat, NEW m \in Nat, NEW limit \in Nat, m <= n, Within(n, limit, C)
  PROVE  m < limit \/ m + Cardinality(Past(C)') <= limit - 1 + Passes'
  <1>1. Past(C)' \subseteq Past(C)
    BY DEF Past, Moves
  <1>2. IsFiniteSet(Past(C)') /\ Cardinality(Past(C)') \in Nat
        /\ Cardinality(Past(C)') <= Cardinality(Past(C))
    BY <1>1, PastFinite, FS_Subset, FS_CardinalityType
  <1>3. Passes' = Passes
    BY DEF Moves, Passes
  <1> QED
    BY <1>2, <1>3, PastFinite DEF Within

\* A call that has passed the check counts once, and is through.
LEMMA WithinCounts ==
  ASSUME Served, NEW C, Idle \notin C, NEW h \in Handlers, Moves(h, {}), call'[h] = Idle,
         call[h] \in C,
         NEW n \in Nat, NEW m \in Nat, NEW limit \in Nat, m <= n + 1, Within(n, limit, C)
  PROVE  m < limit \/ m + Cardinality(Past(C)') <= limit - 1 + Passes'
  <1>1. Past(C)' = Past(C) \ {h} /\ h \in Past(C)
    BY DEF Past, Moves
  <1>2. Cardinality(Past(C)') = Cardinality(Past(C)) - 1
    BY <1>1, PastFinite, FS_RemoveElement
  <1>3. Passes' = Passes
    BY DEF Moves, Passes
  <1>4. Cardinality(Past(C)) <= Passes
    BY <1>1, PastBounded
  <1> QED
    BY <1>2, <1>3, <1>4, PastFinite DEF Within

LEMMA WithinGives ==
  ASSUME NEW C, NEW n \in Nat, NEW limit \in Nat \ {0}, Within(n, limit, C)
  PROVE  n <= limit - 1 + Passes
  BY PastFinite DEF Within

----------------------------------------------------------------------------
(* Referral codes.                                                         *)

\* Calls that have found the code of u below its limit, and those that have found
\* that u has used none.
Applying(u) == [at : {"findUsage", "createUsage"}, on : {u} \X Users, seen : {Null}]

Using(u) == [at : {"createUsage"}, on : Users \X {u}, seen : {Null}]

OfCode(u) == {use \in usages : use[1] = u}

OfMember(u) == {use \in usages : use[2] = u}

Used ==
    /\ usageCount \in [Users -> Nat]
    /\ IsFiniteSet(usages)
    /\ \A h \in Handlers : call[h].at \in {"findUsage", "createUsage"} =>
          call[h].on \in Users \X Users /\ call[h].seen = Null
    /\ \A u \in Users :
          /\ usageCount[u] = Cardinality(OfCode(u))
          /\ Within(usageCount[u], MaxUsages, Applying(u))
          /\ Within(Cardinality(OfMember(u)), 1, Using(u))

LEMMA UsesFinite ==
  ASSUME Used, NEW u
  PROVE  /\ IsFiniteSet(OfCode(u)) /\ Cardinality(OfCode(u)) \in Nat
         /\ IsFiniteSet(OfMember(u)) /\ Cardinality(OfMember(u)) \in Nat
  BY FS_Subset, FS_CardinalityType DEF Used, OfCode, OfMember

LEMMA UsedInit == Init => Used
  <1> SUFFICES ASSUME Init PROVE Used
    OBVIOUS
  <1>1. usages = {} /\ usageCount = [u \in Users |-> 0] /\ \A h \in Handlers : call[h] = Idle
    BY DEF Init, CallsInit, ReferralsInit
  <1>2. \A u \in Users : OfCode(u) = {} /\ OfMember(u) = {}
    BY <1>1 DEF OfCode, OfMember
  <1>3. MaxUsages \in Nat \ {0}
    BY ReferralsAssumption DEF ReferralsAssumption
  <1> QED
    BY <1>1, <1>2, <1>3, FS_EmptySet DEF Used, Within, Idle

\* A step that records no use keeps Used, if the checks it passes hold.
LEMMA UsedKept ==
  ASSUME Served, Used, UNCHANGED <<usages, usageCount>>,
         NEW h \in Handlers, NEW L, Moves(h, L),
         call'[h].at \in {"findUsage", "createUsage"} =>
             call'[h].on \in Users \X Users /\ call'[h].seen = Null,
         \A u \in Users : call'[h] \in Applying(u) =>
             call[h] \in Applying(u) \/ usageCount[u] < MaxUsages,
         \A u \in Users : call'[h] \in Using(u) => OfMember(u) = {}
  PROVE  Used'
  <1>1. \A u : OfCode(u)' = OfCode(u) /\ OfMember(u)' = OfMember(u)
    BY DEF OfCode, OfMember
  <1>2. MaxUsages \in Nat \ {0}
    BY ReferralsAssumption DEF ReferralsAssumption
  <1>3. ASSUME NEW u \in Users
        PROVE  /\ usageCount[u] < MaxUsages
                  \/ usageCount[u] + Cardinality(Past(Applying(u))') <= MaxUsages - 1 + Passes'
               /\ Cardinality(OfMember(u)) < 1
                  \/ Cardinality(OfMember(u)) + Cardinality(Past(Using(u))') <= 1 - 1 + Passes'
    <2>1. usageCount[u] \in Nat /\ Within(usageCount[u], MaxUsages, Applying(u))
          /\ Within(Cardinality(OfMember(u)), 1, Using(u)) /\ Cardinality(OfMember(u)) \in Nat
      BY UsesFinite DEF Used
    <2>2. usageCount[u] < MaxUsages
          \/ usageCount[u] + Cardinality(Past(Applying(u))') <= MaxUsages - 1 + Passes'
      <3> PICK n \in Nat : n = usageCount[u]
        BY <2>1
      <3> PICK C : C = Applying(u)
        OBVIOUS
      <3>1. n < MaxUsages \/ (call'[h] \in C => call[h] \in C)
        OBVIOUS
      <3> QED
        BY <1>2, <2>1, <3>1, WithinKept
    <2>3. Cardinality(OfMember(u)) < 1
          \/ Cardinality(OfMember(u)) + Cardinality(Past(Using(u))') <= 1 - 1 + Passes'
      <3> PICK n \in Nat : n = Cardinality(OfMember(u))
        BY <2>1
      <3> PICK C : C = Using(u)
        OBVIOUS
      <3>1. n < 1 \/ call'[h] \notin C
        <4>1. OfMember(u) = {} => n = 0
          BY FS_EmptySet
        <4> QED
          BY <4>1
      <3> QED
        BY <2>1, <3>1, WithinKept
    <2> QED
      BY <2>2, <2>3
  <1>4. \A g \in Handlers : call'[g].at \in {"findUsage", "createUsage"} =>
           call'[g].on \in Users \X Users /\ call'[g].seen = Null
    BY DEF Used, Moves
  <1> QED
    BY <1>1, <1>3, <1>4 DEF Used, Within

\* A use that is not there yet, and is counted.
LEMMA UseRecorded ==
  ASSUME Served, Used, NEW h \in Handlers, CreateUsage(h)
  PROVE  Used'
  <1> PICK owner \in Users, member \in Users :
           /\ call[h] = [at |-> "createUsage", on |-> <<owner, member>>, seen |-> Null]
           /\ call[h].on[1] = owner /\ call[h].on = <<owner, member>>
    <2>1. call[h].at = "createUsage"
          /\ call[h] = [at |-> call[h].at, on |-> call[h].on, seen |-> call[h].seen]
      BY EndGives DEF CreateUsage, Served, Shaped
    <2>2. call[h].on \in Users \X Users /\ call[h].seen = Null
      BY <2>1 DEF Used
    <2>3. PICK owner \in Users, member \in Users : call[h].on = <<owner, member>>
      BY <2>2
    <2> QED
      BY <2>1, <2>2, <2>3
  <1> DEFINE use == <<owner, member>>
  <1>1. Moves(h, {}) /\ call'[h] = Idle
    BY EndGives DEF CreateUsage, Served
  <1>2. /\ usages' = usages \cup {use}
        /\ usageCount' = [usageCount EXCEPT ![owner] =
                              IF use \in usages THEN usageCount[owner] ELSE usageCount[owner] + 1]
    BY DEF CreateUsage
  <1>3. IsFiniteSet(usages')
    BY <1>2, FS_AddElement DEF Used
  <1>4. usageCount \in [Users -> Nat] /\ usageCount' \in [Users -> Nat]
        /\ (use \in usages => usageCount' = usageCount)
        /\ (use \notin usages => usageCount'[owner] = usageCount[owner] + 1)
        /\ \A u \in Users : u # owner => usageCount'[u] = usageCount[u]
    BY <1>2 DEF Used
  <1>5. \A u : /\ OfCode(u)' = IF u = owner THEN OfCode(u) \cup {use} ELSE OfCode(u)
               /\ OfMember(u)' = IF u = member THEN OfMember(u) \cup {use} ELSE OfMember(u)
               /\ use \in OfCode(owner) <=> use \in usages
    BY <1>2 DEF OfCode, OfMember
  <1> HIDE DEF use
  <1>6. ASSUME NEW u \in Users
        PROVE  /\ usageCount'[u] = Cardinality(OfCode(u)')
               /\ usageCount'[u] \in Nat /\ usageCount[u] \in Nat
               /\ usageCount'[u] <= usageCount[u] + IF u = owner THEN 1 ELSE 0
    <2>1. /\ usageCount[u] = Cardinality(OfCode(u)) /\ IsFiniteSet(OfCode(u))
          /\ usageCount'[u] \in Nat /\ usageCount[u] \in Nat
      BY <1>4, UsesFinite DEF Used
    <2>2. CASE u # owner
      BY <1>4, <1>5, <2>1, <2>2
    <2>3. CASE u = owner /\ use \in usages
      <3>1. OfCode(u)' = OfCode(u)
        BY <1>5, <2>3
      <3> QED
        BY <1>4, <2>1, <2>3, <3>1
    <2>4. CASE u = owner /\ use \notin usages
      <3>1. Cardinality(OfCode(u) \cup {use}) = Cardinality(OfCode(u)) + 1
        BY <1>5, <2>1, <2>4, FS_AddElement
      <3>2. OfCode(u)' = OfCode(u) \cup {use}
        BY <1>5, <2>4
      <3>3. usageCount'[u] = usageCount[u] + 1
        BY <1>4, <2>4
      <3>4. Cardinality(OfCode(u)') = Cardinality(OfCode(u)) + 1
        BY <3>1, <3>2
      <3> QED
        BY <2>1, <2>4, <3>3, <3>4
    <2> QED
      BY <2>2, <2>3, <2>4
  <1>7. ASSUME NEW u \in Users
        PROVE  /\ Cardinality(OfMember(u)') \in Nat /\ Cardinality(OfMember(u)) \in Nat
               /\ Cardinality(OfMember(u)') <= Cardinality(OfMember(u)) + IF u = member THEN 1 ELSE 0
    <2>1. IsFiniteSet(OfMember(u)) /\ Cardinality(OfMember(u)) \in Nat
      BY UsesFinite
    <2>2. Cardinality(OfMember(u) \cup {use}) \in Nat
          /\ Cardinality(OfMember(u) \cup {use}) <= Cardinality(OfMember(u)) + 1
      <3>1. use \in OfMember(u) => OfMember(u) \cup {use} = OfMember(u)
        OBVIOUS
      <3>2. use \notin OfMember(u) => Cardinality(OfMember(u) \cup {use}) = Cardinality(OfMember(u)) + 1
        BY <2>1, FS_AddElement
      <3> QED
        BY <2>1, <3>1, <3>2
    <2> QED
      BY <1>5, <2>1, <2>2
  <1>8. MaxUsages \in Nat
    BY ReferralsAssumption DEF ReferralsAssumption
  <1>9. ASSUME NEW u \in Users
        PROVE  usageCount'[u] < MaxUsages
               \/ usageCount'[u] + Cardinality(Past(Applying(u))') <= MaxUsages - 1 + Passes'
    <2> PICK n \in Nat, m \in Nat : n = usageCount[u] /\ m = usageCount'[u]
      BY <1>6
    <2> PICK C : C = Applying(u)
      OBVIOUS
    <2>1. Within(n, MaxUsages, C) /\ m <= n + IF u = owner THEN 1 ELSE 0
      BY <1>6 DEF Used
    <2>2. Idle \notin C /\ (u = owner => call[h] \in C)
      BY DEF Applying, Idle
    <2>3. CASE u = owner
      BY <1>1, <1>8, <2>1, <2>2, <2>3, WithinCounts
    <2>4. CASE u # owner
      BY <1>1, <1>8, <2>1, <2>2, <2>4, WithinKept
    <2> QED
      BY <2>3, <2>4
  <1>10. ASSUME NEW u \in Users
         PROVE  Cardinality(OfMember(u)') < 1
                \/ Cardinality(OfMember(u)') + Cardinality(Past(Using(u))') <= 1 - 1 + Passes'
    <2> PICK n \in Nat, m \in Nat : n = Cardinality(OfMember(u)) /\ m = Cardinality(OfMember(u)')
      BY <1>7
    <2> PICK C : C = Using(u)
      OBVIOUS
    <2>1. Within(n, 1, C) /\ m <= n + IF u = member THEN 1 ELSE 0
      BY <1>7 DEF Used
    <2>2. Idle \notin C /\ (u = member => call[h] \in C)
      BY DEF Using, Idle
    <2>3. CASE u = member
      BY <1>1, <2>1, <2>2, <2>3, WithinCounts
    <2>4. CASE u # member
      BY <1>1, <2>1, <2>2, <2>4, WithinKept
    <2> QED
      BY <2>3, <2>4
  <1>11. \A g \in Handlers : call'[g].at \in {"findUsage", "createUsage"} =>
            call'[g].on \in Users \X Users /\ call'[g].seen = Null
    BY <1>1 DEF Used, Moves, Idle
  <1> QED
    BY <1>3, <1>4, <1>6, <1>9, <1>10, <1>11 DEF Used, Within

LEMMA UsedStep == Served /\ Used /\ [Next]_vars => Used'
  <1> SUFFICES ASSUME Served, Used, [Next]_vars PROVE Used'
    OBVIOUS
  <1>1. ASSUME NEW h \in Handlers, NEW L, Moves(h, L), "findUsage" \notin L, "createUsage" \notin L,
               UNCHANGED <<usages, usageCount>>
        PROVE  Used'
    <2>1. call'[h].at \notin {"findUsage", "createUsage"}
      BY <1>1 DEF Moves
    <2>2. \A u \in Users : call'[h] \notin Applying(u) /\ call'[h] \notin Using(u)
      BY <2>1 DEF Applying, Using
    <2> QED
      BY <1>1, <2>1, <2>2, UsedKept
  <1>2. ASSUME NEW h \in Handlers, NEW owner \in Users, NEW u \in Users,
               ApplyReferralCode(h, owner, u)
        PROVE  Used'
    <2>1. /\ Begin(h, "findUsage", <<owner, u>>, Null) /\ usageCount[owner] < MaxUsages
          /\ UNCHANGED <<usages, usageCount>>
      BY <1>2 DEF ApplyReferralCode, referralVars
    <2>2. /\ Moves(h, {"findUsage"})
          /\ call'[h] = [at |-> "findUsage", on |-> <<owner, u>>, seen |-> Null]
      BY <2>1, BeginGives DEF Served
    <2>3. \A v \in Users : /\ call'[h] \in Applying(v) => v = owner
                           /\ call'[h] \notin Using(v)
      BY <2>2 DEF Applying, Using
    <2>4. call'[h].on \in Users \X Users /\ call'[h].seen = Null
      BY <2>2
    <2> QED
      BY <2>1, <2>2, <2>3, <2>4, UsedKept
  <1>3. ASSUME NEW h \in Handlers, FindUsage(h) PROVE Used'
    <2>1. UNCHANGED <<usages, usageCount>>
      BY <1>3 DEF FindUsage, referralVars
    <2>2. CASE End(h, "findUsage")
      <3>1. Moves(h, {})
        BY <2>2, EndGives DEF Served
      <3> QED
        BY <1>1, <2>1, <3>1
    <2>3. CASE Proceed(h, "findUsage", "createUsage", Null)
                /\ ~ \E use \in usages : use[2] = call[h].on[2]
      <3>1. /\ Moves(h, {"createUsage"}) /\ call[h].at = "findUsage"
            /\ call'[h] = [at |-> "createUsage", on |-> call[h].on, seen |-> Null]
        BY <2>3, ProceedGives DEF Served
      <3>2. call[h].on \in Users \X Users /\ call[h].seen = Null
            /\ call[h] = [at |-> "findUsage", on |-> call[h].on, seen |-> call[h].seen]
        BY <3>1 DEF Used, Served, Shaped
      <3>3. \A u \in Users : call'[h] \in Applying(u) => call[h] \in Applying(u)
        BY <3>1, <3>2 DEF Applying
      <3>4. \A u \in Users : call'[h] \in Using(u) => OfMember(u) = {}
        BY <2>3, <3>1, <3>2 DEF Using, OfMember
      <3>5. call'[h].on \in Users \X Users /\ call'[h].seen = Null
        BY <3>1, <3>2
      <3> QED
        BY <2>1, <3>1, <3>3, <3>4, <3>5, UsedKept
    <2> QED
      BY <1>3, <2>2, <2>3 DEF FindUsage
  <1>4. ASSUME NEW h \in Handlers, ReferralCall(h) PROVE Used'
    <2>1. ASSUME NEW u \in Users, GetMyReferralCode(h, u) PROVE Used'
      <3>1. Begin(h, "createCode", u, Null) /\ UNCHANGED <<usages, usageCount>>
        BY <2>1 DEF GetMyReferralCode, referralVars
      <3>2. Moves(h, {"createCode"})
        BY <3>1, BeginGives DEF Served
      <3> QED
        BY <1>1, <3>1, <3>2
    <2>2. ASSUME NEW u \in Users, ClaimReward(h, u) PROVE Used'
      <3>1. Begin(h, "credit", u, Null) /\ UNCHANGED <<usages, usageCount>>
        BY <2>2 DEF ClaimReward, referralVars
      <3>2. Moves(h, {"credit"})
        BY <3>1, BeginGives DEF Served
      <3> QED
        BY <1>1, <3>1, <3>2
    <2>3. CASE CreateCode(h)
      BY <1>1, <2>3, EndGives DEF Served, CreateCode
    <2>4. CASE CreditReward(h)
      BY <1>1, <2>4, EndGives DEF Served, CreditReward
    <2> QED
      BY <1>2, <1>3, <1>4, <2>1, <2>2, <2>3, <2>4, UseRecorded DEF ReferralCall
  <1>5. ASSUME NEW h \in Handlers, Serve(h) PROVE Used'
    <2>1. {"findUsage", "createUsage"} \cap
             (Label.bank \cup Label.identity \cup Label.factor \cup Label.ratings \cup Label.fulfilment) = {}
      BY DEF Label
    <2>2. ASSUME UNCHANGED referralVars,
                 BankCall(h) \/ IdentityCall(h) \/ FactorCall(h) \/ RatingCall(h) \/ FulfilmentCall(h) \/ Cut(h)
          PROVE  Used'
      <3>1. PICK L : Moves(h, L) /\ "findUsage" \notin L /\ "createUsage" \notin L
        BY <2>1, <2>2, BankMoves, IdentityMoves, FactorMoves, RatingMoves, FulfilmentMoves, CutGives DEF Served
      <3> QED
        BY <1>1, <2>2, <3>1 DEF referralVars
    <2> QED
      BY <1>4, <1>5, <2>2 DEF Serve
  <1>6. CASE UNCHANGED vars
    BY <1>6 DEF vars, callVars, referralVars, Used, Within, Past, Passes, OfCode, OfMember
  <1> QED
    BY <1>5, <1>6 DEF Next

\* A code is used no more often than it may be, and counts its uses, and a member uses
\* one code only, up to the calls that had passed the check when the limit was reached:
\* exactly so if calls do not overlap.
THEOREM UsageIsBounded == Spec => []UsageBounded
  <1>1. Spec => [](Served /\ Used)
    BY ServedInit, ServedStep, UsedInit, UsedStep, PTL DEF Spec
  <1>2. Served /\ Used => UsageBounded
    <2> SUFFICES ASSUME Served, Used, NEW u \in Users
                 PROVE  /\ usageCount[u] = Cardinality(OfCode(u))
                        /\ usageCount[u] <= MaxUsages - 1 + Passes
                        /\ Cardinality(OfMember(u)) <= Passes
      BY DEF UsageBounded, OfCode, OfMember
    <2>1. MaxUsages \in Nat \ {0} /\ usageCount[u] \in Nat /\ Cardinality(OfMember(u)) \in Nat
          /\ Passes \in Nat
      BY ReferralsAssumption, UsesFinite, PastFinite DEF ReferralsAssumption, Used
    <2>2. Within(usageCount[u], MaxUsages, Applying(u)) /\ Within(Cardinality(OfMember(u)), 1, Using(u))
      BY DEF Used
    <2> QED
      BY <2>1, <2>2, PastFinite DEF Used, Within
  <1> QED
    BY <1>1, <1>2, PTL

----------------------------------------------------------------------------
(* Bank accounts.                                                          *)

\* Calls that have found room in the list, and those that will make a default.
Listing == [at : {"count"}, on : Names, seen : {Null}] \cup [at : {"create"}, on : Names, seen : BOOLEAN]

Defaulting == [at : {"create"}, on : Names, seen : {TRUE}] \cup [at : {"set"}, on : Nat, seen : {Null}]

Listed == {i \in LiveAccounts : accounts[i].listed}

\* No two accounts have one name.
NoDoubles == \A i, j \in LiveAccounts : accounts[i].name = accounts[j].name => i = j

\* What the calls of bank accounts are about; one that will add an account knows that
\* no other has its name, if calls do not overlap.
AddsKnown ==
    \A h \in Handlers :
        /\ call[h].at \in {"count", "create", "createUnlisted"} =>
              /\ call[h].on \in Names
              /\ serial => \A i \in LiveAccounts : accounts[i].name # call[h].on
        /\ call[h].at = "count" => call[h].seen = Null
        /\ call[h].at = "create" => call[h].seen \in BOOLEAN
        /\ call[h].at \in {"unset", "set"} => call[h].on \in Nat
        /\ call[h].at = "set" => call[h].seen = Null

Banked ==
    /\ accounts \in Seq(AccountRow)
    /\ AddsKnown
    /\ serial => NoDoubles
    /\ Within(Cardinality(Defaults), 1, Defaulting)
    /\ Within(Cardinality(Listed), MaxAccounts, Listing)

Counted ==
    /\ IsFiniteSet(DOMAIN accounts) /\ DOMAIN accounts \subseteq Nat
    /\ IsFiniteSet(LiveAccounts) /\ Cardinality(LiveAccounts) \in Nat
    /\ IsFiniteSet(Defaults) /\ Cardinality(Defaults) \in Nat
    /\ IsFiniteSet(Listed) /\ Cardinality(Listed) \in Nat
    /\ Cardinality(Listed) <= Cardinality(LiveAccounts)

LEMMA AccountsFinite == accounts \in Seq(AccountRow) => Counted
  <1> SUFFICES ASSUME accounts \in Seq(AccountRow) PROVE Counted
    OBVIOUS
  <1>1. Len(accounts) \in Nat /\ DOMAIN accounts = 1..Len(accounts)
    OBVIOUS
  <1>2. IsFiniteSet(DOMAIN accounts) /\ DOMAIN accounts \subseteq Nat
    BY <1>1, FS_Interval
  <1>3. /\ LiveAccounts \subseteq DOMAIN accounts
        /\ Defaults \subseteq LiveAccounts /\ Listed \subseteq LiveAccounts
    BY DEF LiveAccounts, Defaults, Listed
  <1>4. IsFiniteSet(LiveAccounts)
    BY <1>2, <1>3, FS_Subset
  <1> QED
    BY <1>2, <1>3, <1>4, FS_Subset, FS_CardinalityType DEF Counted

LEMMA AccountsStayFinite == accounts' \in Seq(AccountRow) => Counted'
  <1>1. [](accounts \in Seq(AccountRow) => Counted)
    BY AccountsFinite, PTL
  <1>2. (accounts \in Seq(AccountRow) => Counted)'
    BY <1>1, PTL
  <1> QED
    BY <1>2

LEMMA BankedInit == Init => Banked
  <1> SUFFICES ASSUME Init PROVE Banked
    OBVIOUS
  <1>1. accounts = <<>> /\ \A h \in Handlers : call[h].at = "idle"
    BY DEF Init, CallsInit, BankAccountsInit, Idle
  <1>2. LiveAccounts = {} /\ Defaults = {} /\ Listed = {}
    BY <1>1 DEF LiveAccounts, Defaults, Listed
  <1>3. MaxAccounts \in Nat \ {0}
    BY BankAccountsAssumption DEF BankAccountsAssumption
  <1> QED
    BY <1>1, <1>2, <1>3, FS_EmptySet DEF Banked, AddsKnown, NoDoubles, Within

\* A step that leaves no more default or listed accounts than there were, and passes
\* a check only below its limit.
LEMMA BankedKept ==
  ASSUME Served, Banked, NEW h \in Handlers, NEW L, Moves(h, L),
         accounts' \in Seq(AccountRow), AddsKnown', serial => NoDoubles',
         Cardinality(Defaults') <= Cardinality(Defaults),
         call'[h] \in Defaulting => call[h] \in Defaulting \/ Defaults' = {},
         Cardinality(Listed') <= Cardinality(Listed),
         call'[h] \in Listing => call[h] \in Listing \/ Cardinality(Listed') < MaxAccounts
  PROVE  Banked'
  <1>1. MaxAccounts \in Nat
    BY BankAccountsAssumption DEF BankAccountsAssumption
  <1>2. /\ Cardinality(Defaults) \in Nat /\ Cardinality(Defaults') \in Nat
        /\ Cardinality(Listed) \in Nat /\ Cardinality(Listed') \in Nat
    BY AccountsFinite, AccountsStayFinite DEF Banked, Counted
  <1>3. PICK d \in Nat, e \in Nat, l \in Nat, m \in Nat :
            /\ d = Cardinality(Defaults) /\ e = Cardinality(Defaults')
            /\ l = Cardinality(Listed) /\ m = Cardinality(Listed')
    BY <1>2
  <1>4. e < 1 \/ e + Cardinality(Past(Defaulting)') <= 1 - 1 + Passes'
    <2> PICK C : C = Defaulting
      OBVIOUS
    <2>1. Defaults' = {} => e < 1
      BY <1>3, FS_EmptySet
    <2>2. Within(d, 1, C) /\ e <= d
      BY <1>3 DEF Banked
    <2> QED
      BY <2>1, <2>2, WithinKept
  <1>5. m < MaxAccounts \/ m + Cardinality(Past(Listing)') <= MaxAccounts - 1 + Passes'
    <2> PICK C : C = Listing
      OBVIOUS
    <2>1. Within(l, MaxAccounts, C) /\ m <= l
      BY <1>3 DEF Banked
    <2> QED
      BY <1>1, <1>3, <2>1, WithinKept
  <1>6. serial' = serial
    BY DEF Moves
  <1> QED
    BY <1>3, <1>4, <1>5, <1>6 DEF Banked, Within

\* A new row at the end.
LEMMA RowAdded ==
  ASSUME Served, Banked, NEW h \in Handlers, Moves(h, {}), call'[h] = Idle,
         call[h].at \in {"create", "createUnlisted"},
         NEW d \in BOOLEAN, NEW l \in BOOLEAN, d => call[h] \in Defaulting, l => call[h] \in Listing,
         accounts' = Append(accounts, NewAccount(call[h].on, d, l))
  PROVE  Banked'
  <1> PICK n : n = Len(accounts) + 1
    OBVIOUS
  <1>1. call[h].on \in Names /\ (serial => \A i \in LiveAccounts : accounts[i].name # call[h].on)
    BY DEF Banked, AddsKnown
  <1> PICK row \in AccountRow : /\ row = NewAccount(call[h].on, d, l)
                                /\ row.name = call[h].on /\ row.live
                                /\ row.isDefault = d /\ row.listed = l
    <2> DEFINE new == [name |-> call[h].on, live |-> TRUE, isDefault |-> d, listed |-> l]
    <2>1. /\ new \in AccountRow /\ new.name = call[h].on /\ new.live
          /\ new.isDefault = d /\ new.listed = l
      BY <1>1 DEF AccountRow
    <2>2. new = NewAccount(call[h].on, d, l)
      BY DEF NewAccount
    <2> QED
      BY <2>1, <2>2
  <1>2. /\ accounts' \in Seq(AccountRow)
        /\ DOMAIN accounts' = DOMAIN accounts \cup {n} /\ n \notin DOMAIN accounts
        /\ accounts'[n] = row /\ \A i \in DOMAIN accounts : accounts'[i] = accounts[i]
    BY DEF Banked
  <1>3. /\ LiveAccounts' = LiveAccounts \cup {n} /\ n \notin LiveAccounts
        /\ Defaults' = IF d THEN Defaults \cup {n} ELSE Defaults
        /\ Listed' = IF l THEN Listed \cup {n} ELSE Listed
    BY <1>2 DEF LiveAccounts, Defaults, Listed
  <1>4. /\ IsFiniteSet(Defaults) /\ IsFiniteSet(Listed)
        /\ n \notin Defaults /\ n \notin Listed
        /\ Cardinality(Defaults) \in Nat /\ Cardinality(Listed) \in Nat
    BY <1>3, AccountsFinite DEF Banked, Defaults, Listed, Counted
  <1>5. /\ Cardinality(Defaults') = Cardinality(Defaults) + (IF d THEN 1 ELSE 0)
        /\ Cardinality(Listed') = Cardinality(Listed) + (IF l THEN 1 ELSE 0)
    <2>1. Cardinality(Defaults \cup {n}) = Cardinality(Defaults) + 1
          /\ Cardinality(Listed \cup {n}) = Cardinality(Listed) + 1
      BY <1>4, FS_AddElement
    <2> QED
      BY <1>3, <1>4, <2>1
  <1>6. serial => \A g \in Handlers : g # h => call[g].at = "idle"
    BY DEF Served, Alone
  <1>7. AddsKnown'
    <2> SUFFICES ASSUME NEW g \in Handlers, g # h, call[g].at # "idle"
                 PROVE  ~ serial
      BY DEF Banked, AddsKnown, Moves, Idle
    <2> QED
      BY <1>6
  <1>8. serial => NoDoubles'
    BY <1>1, <1>2, <1>3 DEF Banked, NoDoubles, LiveAccounts
  <1>9. PICK x \in Nat, y \in Nat, u \in Nat, v \in Nat :
            /\ x = Cardinality(Defaults) /\ y = Cardinality(Defaults')
            /\ u = Cardinality(Listed) /\ v = Cardinality(Listed')
    BY <1>4, <1>5
  <1>10. MaxAccounts \in Nat /\ Idle \notin Defaulting /\ Idle \notin Listing
    BY BankAccountsAssumption DEF BankAccountsAssumption, Defaulting, Listing, Idle
  <1>11. y < 1 \/ y + Cardinality(Past(Defaulting)') <= 1 - 1 + Passes'
    <2> PICK C : C = Defaulting
      OBVIOUS
    <2>1. Within(x, 1, C) /\ y <= x + (IF d THEN 1 ELSE 0)
      BY <1>5, <1>9 DEF Banked
    <2>2. CASE d
      BY <1>10, <2>1, <2>2, WithinCounts
    <2>3. CASE ~ d
      BY <1>10, <2>1, <2>3, WithinKept
    <2> QED
      BY <2>2, <2>3
  <1>12. v < MaxAccounts \/ v + Cardinality(Past(Listing)') <= MaxAccounts - 1 + Passes'
    <2> PICK C : C = Listing
      OBVIOUS
    <2>1. Within(u, MaxAccounts, C) /\ v <= u + (IF l THEN 1 ELSE 0)
      BY <1>5, <1>9 DEF Banked
    <2>2. CASE l
      BY <1>10, <2>1, <2>2, WithinCounts
    <2>3. CASE ~ l
      BY <1>10, <2>1, <2>3, WithinKept
    <2> QED
      BY <2>2, <2>3
  <1>13. serial' = serial
    BY DEF Moves
  <1> QED
    BY <1>2, <1>7, <1>8, <1>9, <1>11, <1>12, <1>13 DEF Banked, Within

\* A change of the rows that are there.
LEMMA RowsChanged ==
  ASSUME Banked, DOMAIN accounts' = DOMAIN accounts, accounts' = [i \in DOMAIN accounts |-> accounts'[i]],
         \A i \in DOMAIN accounts :
            /\ accounts'[i] \in AccountRow /\ accounts'[i].name = accounts[i].name
            /\ accounts'[i].listed = accounts[i].listed
            /\ accounts'[i].live => accounts[i].live
  PROVE  /\ accounts' \in Seq(AccountRow)
         /\ LiveAccounts' \subseteq LiveAccounts /\ Listed' \subseteq Listed
         /\ Cardinality(Listed') <= Cardinality(Listed)
         /\ serial => NoDoubles'
  <1>1. Len(accounts) \in Nat /\ DOMAIN accounts = 1..Len(accounts)
    BY DEF Banked
  <1>2. accounts' \in Seq(AccountRow)
    BY <1>1
  <1>3. LiveAccounts' \subseteq LiveAccounts /\ Listed' \subseteq Listed
    BY DEF LiveAccounts, Listed
  <1>4. Cardinality(Listed') <= Cardinality(Listed)
    BY <1>3, AccountsFinite, FS_Subset DEF Banked, Counted
  <1>5. serial => NoDoubles'
    BY <1>3 DEF Banked, NoDoubles, LiveAccounts
  <1> QED
    BY <1>2, <1>3, <1>4, <1>5

\* Calls that belong to Defaulting.
LEMMA DefaultingIs ==
  /\ \A n \in Nat : [at |-> "set", on |-> n, seen |-> Null] \in Defaulting
  /\ \A n \in Names : [at |-> "create", on |-> n, seen |-> TRUE] \in Defaulting
  /\ \A c \in Defaulting : c.at = "set" \/ c.seen = TRUE
  BY DEF Defaulting

\* At most one element more.
LEMMA OneMore ==
  ASSUME NEW S, IsFiniteSet(S), NEW x, NEW T, T \subseteq S \cup {x}
  PROVE  /\ Cardinality(S) \in Nat /\ Cardinality(T) \in Nat
         /\ Cardinality(T) <= Cardinality(S) + 1
  <1>1. /\ Cardinality(S) \in Nat /\ IsFiniteSet(S \cup {x}) /\ Cardinality(S \cup {x}) \in Nat
        /\ Cardinality(S \cup {x}) = Cardinality(S) \/ Cardinality(S \cup {x}) = Cardinality(S) + 1
    BY FS_AddElement, FS_CardinalityType
  <1>2. Cardinality(T) \in Nat /\ Cardinality(T) <= Cardinality(S \cup {x})
    BY <1>1, FS_Subset, FS_CardinalityType
  <1> QED
    BY <1>1, <1>2

\* A call of bank accounts that leaves them alone.
LEMMA AccountsLeft ==
  ASSUME Served, Banked, NEW h \in Handlers, NEW L, Moves(h, L), UNCHANGED accounts, AddsKnown',
         call'[h] \in Defaulting => call[h] \in Defaulting \/ Defaults = {},
         call'[h] \in Listing => call[h] \in Listing \/ Cardinality(Listed) < MaxAccounts
  PROVE  Banked'
  <1>1. LiveAccounts' = LiveAccounts
    BY DEF LiveAccounts
  <1>2. Defaults' = Defaults /\ Listed' = Listed /\ (serial => NoDoubles')
    BY <1>1 DEF Defaults, Listed, Banked, NoDoubles
  <1>3. /\ Cardinality(Defaults') <= Cardinality(Defaults)
        /\ Cardinality(Listed') <= Cardinality(Listed)
    BY <1>2, AccountsFinite DEF Banked, Counted
  <1>4. accounts' \in Seq(AccountRow)
    BY DEF Banked
  <1> QED
    BY <1>2, <1>3, <1>4, BankedKept

LEMMA BankedStep == Served /\ Banked /\ [Next]_vars => Banked'
  <1> SUFFICES ASSUME Served, Banked, [Next]_vars PROVE Banked'
    OBVIOUS
  <1> DEFINE Steps == {"count", "create", "createUnlisted", "unset", "set"}
  <1>1. ASSUME NEW h \in Handlers, NEW L, Moves(h, L), UNCHANGED accounts,
               \A s \in Steps : s \notin L
        PROVE  Banked'
    <2>1. call'[h].at \notin Steps
      BY <1>1 DEF Moves
    <2>2. call'[h] \notin Defaulting /\ call'[h] \notin Listing
      BY <2>1 DEF Defaulting, Listing
    <2>3. AddsKnown'
      <3>1. LiveAccounts' = LiveAccounts
        BY <1>1 DEF LiveAccounts
      <3> QED
        BY <1>1, <2>1, <3>1 DEF Banked, AddsKnown, Moves
    <2> QED
      BY <1>1, <2>2, <2>3, AccountsLeft
  <1>2. ASSUME NEW h \in Handlers, NEW n \in Names, AddBankAccount(h, n) PROVE Banked'
    <2>1. /\ Begin(h, "count", n, Null) /\ UNCHANGED accounts
          /\ Cardinality(LiveAccounts) < MaxAccounts /\ \A i \in LiveAccounts : accounts[i].name # n
      BY <1>2 DEF AddBankAccount
    <2>2. Moves(h, {"count"}) /\ call'[h] = [at |-> "count", on |-> n, seen |-> Null]
      BY <2>1, BeginGives DEF Served
    <2>3. LiveAccounts' = LiveAccounts
      BY <2>1 DEF LiveAccounts
    <2>4. AddsKnown'
      BY <2>1, <2>2, <2>3 DEF Banked, AddsKnown, Moves
    <2>5. call'[h] \notin Defaulting
      BY <2>2 DEF Defaulting
    <2>6. Cardinality(Listed) < MaxAccounts
      BY <2>1, AccountsFinite, BankAccountsAssumption DEF Banked, Counted, BankAccountsAssumption
    <2> QED
      BY <2>1, <2>2, <2>4, <2>5, <2>6, AccountsLeft
  <1>3. ASSUME NEW h \in Handlers, NEW n \in Names, WithdrawToNewAccount(h, n) PROVE Banked'
    <2>1. /\ Begin(h, "createUnlisted", n, Null) /\ UNCHANGED accounts
          /\ \A i \in LiveAccounts : accounts[i].name # n
      BY <1>3 DEF WithdrawToNewAccount
    <2>2. Moves(h, {"createUnlisted"}) /\ call'[h] = [at |-> "createUnlisted", on |-> n, seen |-> Null]
      BY <2>1, BeginGives DEF Served
    <2>3. LiveAccounts' = LiveAccounts
      BY <2>1 DEF LiveAccounts
    <2>4. AddsKnown'
      BY <2>1, <2>2, <2>3 DEF Banked, AddsKnown, Moves
    <2>5. call'[h] \notin Defaulting /\ call'[h] \notin Listing
      BY <2>2 DEF Defaulting, Listing
    <2> QED
      BY <2>1, <2>2, <2>4, <2>5, AccountsLeft
  <1>4. ASSUME NEW h \in Handlers, NEW i \in DOMAIN accounts, SetAsDefault(h, i) PROVE Banked'
    <2>1. Begin(h, "unset", i, Null) /\ UNCHANGED accounts /\ i \in Nat
      BY <1>4, AccountsFinite DEF SetAsDefault, Banked, Counted
    <2>2. Moves(h, {"unset"}) /\ call'[h] = [at |-> "unset", on |-> i, seen |-> Null]
      BY <2>1, BeginGives DEF Served
    <2>3. LiveAccounts' = LiveAccounts
      BY <2>1 DEF LiveAccounts
    <2>4. AddsKnown'
      BY <2>1, <2>2, <2>3 DEF Banked, AddsKnown, Moves
    <2>5. call'[h] \notin Defaulting /\ call'[h] \notin Listing
      BY <2>2 DEF Defaulting, Listing
    <2> QED
      BY <2>1, <2>2, <2>4, <2>5, AccountsLeft
  <1>5. ASSUME NEW h \in Handlers, NEW i \in DOMAIN accounts, DeleteBankAccount(h, i) PROVE Banked'
    <2>1. Begin(h, "delete", i, Null) /\ UNCHANGED accounts
      BY <1>5 DEF DeleteBankAccount
    <2>2. Moves(h, {"delete"})
      BY <2>1, BeginGives DEF Served
    <2> QED
      BY <1>1, <2>1, <2>2
  <1>6. ASSUME NEW h \in Handlers, CountAccounts(h) PROVE Banked'
    <2>1. UNCHANGED accounts /\ Proceed(h, "count", "create", LiveAccounts = {})
      BY <1>6 DEF CountAccounts
    <2>2. PICK s \in BOOLEAN : s = (LiveAccounts = {})
      OBVIOUS
    <2>3. /\ Moves(h, {"create"}) /\ call[h].at = "count"
          /\ call'[h] = [at |-> "create", on |-> call[h].on, seen |-> s]
      BY <2>1, <2>2, ProceedGives DEF Served
    <2>4. /\ call[h].on \in Names /\ call[h].seen = Null
          /\ call[h] = [at |-> "count", on |-> call[h].on, seen |-> call[h].seen]
          /\ serial => \A i \in LiveAccounts : accounts[i].name # call[h].on
      BY <2>3 DEF Banked, AddsKnown, Served, Shaped
    <2>5. LiveAccounts' = LiveAccounts
      BY <2>1 DEF LiveAccounts
    <2>6. AddsKnown'
      BY <2>1, <2>3, <2>4, <2>5 DEF Banked, AddsKnown, Moves
    <2>7. call[h] \in Listing
      BY <2>4 DEF Listing
    <2>8. call'[h] \in Defaulting => Defaults = {}
      <3>1. call'[h] \in Defaulting => s = TRUE
        BY <2>3, DefaultingIs
      <3>2. s = TRUE => Defaults = {}
        BY <2>2 DEF Defaults
      <3> QED
        BY <3>1, <3>2
    <2> QED
      BY <2>1, <2>3, <2>6, <2>7, <2>8, AccountsLeft
  <1>7. ASSUME NEW h \in Handlers, CreateAccount(h) PROVE Banked'
    <2>1. Moves(h, {}) /\ call'[h] = Idle /\ call[h].at = "create"
      BY <1>7, EndGives DEF CreateAccount, Served
    <2>2. call[h].on \in Names /\ call[h].seen \in BOOLEAN
      BY <2>1 DEF Banked, AddsKnown
    <2>3. PICK n \in Names, d \in BOOLEAN : n = call[h].on /\ d = call[h].seen
      BY <2>2
    <2>4. call[h] = [at |-> "create", on |-> n, seen |-> d]
      BY <2>1, <2>3 DEF Served, Shaped
    <2>5. call[h] \in Listing
      BY <2>4 DEF Listing
    <2>6. d => call[h] \in Defaulting
      <3>1. CASE d
        <4>1. d = TRUE
          BY <3>1
        <4> QED
          BY <2>4, <4>1 DEF Defaulting
      <3> QED
        BY <3>1
    <2>7. accounts' = Append(accounts, NewAccount(call[h].on, d, TRUE))
      BY <1>7, <2>3 DEF CreateAccount
    <2> QED
      BY <2>1, <2>5, <2>6, <2>7, RowAdded
  <1>8. ASSUME NEW h \in Handlers, CreateUnlisted(h) PROVE Banked'
    <2>1. Moves(h, {}) /\ call'[h] = Idle /\ call[h].at = "createUnlisted"
      BY <1>8, EndGives DEF CreateUnlisted, Served
    <2>2. accounts' = Append(accounts, NewAccount(call[h].on, FALSE, FALSE))
      BY <1>8 DEF CreateUnlisted
    <2> QED
      BY <2>1, <2>2, RowAdded
  <1>9. ASSUME NEW h \in Handlers, UnsetDefaults(h) PROVE Banked'
    <2>1. /\ Moves(h, {"set"}) /\ call[h].at = "unset"
          /\ call'[h] = [at |-> "set", on |-> call[h].on, seen |-> Null]
      <3>1. Proceed(h, "unset", "set", Null)
        BY <1>9 DEF UnsetDefaults
      <3> QED
        BY <3>1, ProceedGives DEF Served
    <2> DEFINE row(i) == [accounts[i] EXCEPT !.isDefault = @ /\ i \notin LiveAccounts]
    <2>2. accounts' = [i \in DOMAIN accounts |-> row(i)]
      BY <1>9 DEF UnsetDefaults
    <2>3. \A i \in DOMAIN accounts :
             /\ row(i) \in AccountRow /\ row(i).name = accounts[i].name
             /\ row(i).listed = accounts[i].listed /\ row(i).live = accounts[i].live
             /\ i \in LiveAccounts => ~ row(i).isDefault
      <3> TAKE i \in DOMAIN accounts
      <3>1. accounts[i] \in AccountRow
        BY DEF Banked
      <3>2. (i \in LiveAccounts) \in BOOLEAN
        OBVIOUS
      <3> QED
        BY <3>1, <3>2 DEF AccountRow
    <2> HIDE DEF row
    <2>4. /\ DOMAIN accounts' = DOMAIN accounts /\ accounts' = [i \in DOMAIN accounts |-> accounts'[i]]
          /\ \A i \in DOMAIN accounts :
                /\ accounts'[i] \in AccountRow /\ accounts'[i].name = accounts[i].name
                /\ accounts'[i].listed = accounts[i].listed /\ accounts'[i].live = accounts[i].live
                /\ i \in LiveAccounts => ~ accounts'[i].isDefault
      BY <2>2, <2>3
    <2>5. /\ accounts' \in Seq(AccountRow)
          /\ LiveAccounts' \subseteq LiveAccounts /\ Listed' \subseteq Listed
          /\ Cardinality(Listed') <= Cardinality(Listed)
          /\ serial => NoDoubles'
      BY <2>4, RowsChanged
    <2>6. Defaults' = {}
      BY <2>4, <2>5 DEF Defaults, LiveAccounts
    <2>7. Cardinality(Defaults') <= Cardinality(Defaults)
      BY <2>6, AccountsFinite, FS_EmptySet DEF Banked, Counted
    <2>8. AddsKnown'
      <3>1. \A i \in LiveAccounts' : i \in LiveAccounts /\ accounts'[i].name = accounts[i].name
        BY <2>4, <2>5 DEF LiveAccounts
      <3>2. call[h].on \in Nat
        BY <2>1 DEF Banked, AddsKnown
      <3> QED
        BY <2>1, <3>1, <3>2 DEF Banked, AddsKnown, Moves
    <2>9. call'[h] \notin Listing
      BY <2>1 DEF Listing
    <2> QED
      BY <2>1, <2>5, <2>6, <2>7, <2>8, <2>9, BankedKept
  <1>10. ASSUME NEW h \in Handlers, SetDefault(h) PROVE Banked'
    <2>1. Moves(h, {}) /\ call'[h] = Idle /\ call[h].at = "set"
      BY <1>10, EndGives DEF SetDefault, Served
    <2> PICK x : x = call[h].on
      OBVIOUS
    <2>2. call[h] \in Defaulting
      <3>1. call[h].on \in Nat /\ call[h].seen = Null
        BY <2>1 DEF Banked, AddsKnown
      <3>2. PICK n \in Nat : n = call[h].on
        BY <3>1
      <3>3. call[h] = [at |-> "set", on |-> n, seen |-> Null]
        BY <2>1, <3>1, <3>2 DEF Served, Shaped
      <3> QED
        BY <3>3, DefaultingIs
    <2>3. accounts' = [accounts EXCEPT ![x].isDefault = @ \/ x \in LiveAccounts]
      BY <1>10 DEF SetDefault
    <2>4. /\ DOMAIN accounts' = DOMAIN accounts /\ accounts' = [i \in DOMAIN accounts |-> accounts'[i]]
          /\ \A i \in DOMAIN accounts :
                /\ accounts'[i] \in AccountRow /\ accounts'[i].name = accounts[i].name
                /\ accounts'[i].listed = accounts[i].listed /\ accounts'[i].live = accounts[i].live
                /\ i # x => accounts'[i] = accounts[i]
      <3>1. \A i \in DOMAIN accounts : accounts[i] \in AccountRow
        BY DEF Banked
      <3>2. DOMAIN accounts' = DOMAIN accounts /\ accounts' = [i \in DOMAIN accounts |-> accounts'[i]]
            /\ \A i \in DOMAIN accounts : i # x => accounts'[i] = accounts[i]
        BY <2>3, <3>1 DEF Banked
      <3>3. ASSUME x \in DOMAIN accounts
            PROVE  /\ accounts'[x] \in AccountRow /\ accounts'[x].name = accounts[x].name
                   /\ accounts'[x].listed = accounts[x].listed /\ accounts'[x].live = accounts[x].live
        <4>1. accounts'[x] = [accounts[x] EXCEPT !.isDefault = @ \/ x \in LiveAccounts]
          BY <2>3, <3>3 DEF Banked
        <4>2. accounts[x] \in AccountRow
          BY <3>1, <3>3
        <4>3. (x \in LiveAccounts) \in BOOLEAN
          OBVIOUS
        <4> QED
          BY <4>1, <4>2, <4>3 DEF AccountRow
      <3> QED
        BY <3>1, <3>2, <3>3
    <2>5. /\ accounts' \in Seq(AccountRow)
          /\ LiveAccounts' \subseteq LiveAccounts /\ Listed' \subseteq Listed
          /\ Cardinality(Listed') <= Cardinality(Listed)
          /\ serial => NoDoubles'
      BY <2>4, RowsChanged
    <2>6. Defaults' \subseteq Defaults \cup {x}
      BY <2>4 DEF Defaults, LiveAccounts
    <2>7. AddsKnown'
      <3>1. \A i \in LiveAccounts' : i \in LiveAccounts /\ accounts'[i].name = accounts[i].name
        BY <2>4, <2>5 DEF LiveAccounts
      <3> QED
        BY <2>1, <3>1 DEF Banked, AddsKnown, Moves, Idle
    <2>8. /\ Cardinality(Defaults') \in Nat /\ Cardinality(Defaults) \in Nat
          /\ Cardinality(Defaults') <= Cardinality(Defaults) + 1
      <3>1. IsFiniteSet(Defaults) /\ Cardinality(Defaults) \in Nat /\ Cardinality(Defaults') \in Nat
        BY <2>5, AccountsFinite, AccountsStayFinite DEF Banked, Counted
      <3> QED
        BY <2>6, <3>1, OneMore
    <2>9. /\ Cardinality(Listed') \in Nat /\ Cardinality(Listed) \in Nat
          /\ MaxAccounts \in Nat /\ Idle \notin Defaulting
      BY <2>5, AccountsFinite, AccountsStayFinite, BankAccountsAssumption
         DEF Banked, Counted, BankAccountsAssumption, Defaulting, Idle
    <2>10. PICK d \in Nat, e \in Nat, l \in Nat, m \in Nat :
              /\ d = Cardinality(Defaults) /\ e = Cardinality(Defaults')
              /\ l = Cardinality(Listed) /\ m = Cardinality(Listed')
      BY <2>8, <2>9
    <2>11. e < 1 \/ e + Cardinality(Past(Defaulting)') <= 1 - 1 + Passes'
      <3> PICK C : C = Defaulting
        OBVIOUS
      <3>1. Within(d, 1, C) /\ e <= d + 1
        BY <2>8, <2>10 DEF Banked
      <3> QED
        BY <2>1, <2>2, <2>9, <3>1, WithinCounts
    <2>12. m < MaxAccounts \/ m + Cardinality(Past(Listing)') <= MaxAccounts - 1 + Passes'
      <3> PICK C : C = Listing
        OBVIOUS
      <3>1. Within(l, MaxAccounts, C) /\ m <= l
        BY <2>5, <2>10 DEF Banked
      <3>2. call'[h] \notin C
        BY <2>1 DEF Listing, Idle
      <3> QED
        BY <2>1, <2>9, <3>1, <3>2, WithinKept
    <2>13. serial' = serial
      BY <2>1 DEF Moves
    <2> QED
      BY <2>5, <2>7, <2>10, <2>11, <2>12, <2>13 DEF Banked, Within
  <1>11. ASSUME NEW h \in Handlers, SoftDelete(h) PROVE Banked'
    <2>1. Moves(h, {}) /\ call'[h] = Idle
      BY <1>11, EndGives DEF SoftDelete, Served
    <2> PICK x : x = call[h].on
      OBVIOUS
    <2>2. accounts' = [accounts EXCEPT ![x].live = FALSE]
      BY <1>11 DEF SoftDelete
    <2>3. /\ DOMAIN accounts' = DOMAIN accounts /\ accounts' = [i \in DOMAIN accounts |-> accounts'[i]]
          /\ \A i \in DOMAIN accounts :
                /\ accounts'[i] \in AccountRow /\ accounts'[i].name = accounts[i].name
                /\ accounts'[i].listed = accounts[i].listed
                /\ accounts'[i].live => accounts[i].live
                /\ accounts'[i].isDefault = accounts[i].isDefault
      <3>1. \A i \in DOMAIN accounts : accounts[i] \in AccountRow
        BY DEF Banked
      <3>2. DOMAIN accounts' = DOMAIN accounts /\ accounts' = [i \in DOMAIN accounts |-> accounts'[i]]
            /\ \A i \in DOMAIN accounts : i # x => accounts'[i] = accounts[i]
        BY <2>2, <3>1 DEF Banked
      <3>3. ASSUME x \in DOMAIN accounts
            PROVE  /\ accounts'[x] \in AccountRow /\ accounts'[x].name = accounts[x].name
                   /\ accounts'[x].listed = accounts[x].listed
                   /\ accounts'[x].live => accounts[x].live
                   /\ accounts'[x].isDefault = accounts[x].isDefault
        <4>1. accounts'[x] = [accounts[x] EXCEPT !.live = FALSE]
          BY <2>2, <3>3 DEF Banked
        <4>2. accounts[x] \in AccountRow
          BY <3>1, <3>3
        <4> QED
          BY <4>1, <4>2 DEF AccountRow
      <3> QED
        BY <3>1, <3>2, <3>3
    <2>4. /\ accounts' \in Seq(AccountRow)
          /\ LiveAccounts' \subseteq LiveAccounts /\ Listed' \subseteq Listed
          /\ Cardinality(Listed') <= Cardinality(Listed)
          /\ serial => NoDoubles'
      BY <2>3, RowsChanged
    <2>5. Defaults' \subseteq Defaults
      BY <2>3, <2>4 DEF Defaults, LiveAccounts
    <2>6. Cardinality(Defaults') <= Cardinality(Defaults)
      BY <2>5, AccountsFinite, FS_Subset DEF Banked, Counted
    <2>7. AddsKnown'
      <3>1. \A i \in LiveAccounts' : i \in LiveAccounts /\ accounts'[i].name = accounts[i].name
        BY <2>3, <2>4 DEF LiveAccounts
      <3> QED
        BY <2>1, <3>1 DEF Banked, AddsKnown, Moves, Idle
    <2>8. call'[h] \notin Defaulting /\ call'[h] \notin Listing
      BY <2>1 DEF Defaulting, Listing, Idle
    <2> QED
      BY <2>1, <2>4, <2>6, <2>7, <2>8, BankedKept
  <1>12. ASSUME NEW h \in Handlers, BankCall(h) PROVE Banked'
    BY <1>2, <1>3, <1>4, <1>5, <1>6, <1>7, <1>8, <1>9, <1>10, <1>11, <1>12 DEF BankCall
  <1>13. ASSUME NEW h \in Handlers, Serve(h) PROVE Banked'
    <2>1. \A s \in Steps : s \notin Label.referrals \cup Label.identity \cup Label.factor
                                       \cup Label.ratings \cup Label.fulfilment
      BY DEF Label
    <2>2. ASSUME UNCHANGED accounts,
                 ReferralCall(h) \/ IdentityCall(h) \/ FactorCall(h) \/ RatingCall(h) \/ FulfilmentCall(h) \/ Cut(h)
          PROVE  Banked'
      <3>1. PICK L : Moves(h, L) /\ \A s \in Steps : s \notin L
        BY <2>1, <2>2, ReferralMoves, IdentityMoves, FactorMoves, RatingMoves, FulfilmentMoves, CutGives DEF Served
      <3> QED
        BY <1>1, <2>2, <3>1
    <2> QED
      BY <1>12, <1>13, <2>2 DEF Serve
  <1>14. CASE UNCHANGED vars
    <2>1. LiveAccounts' = LiveAccounts
      BY <1>14 DEF vars, LiveAccounts
    <2> QED
      BY <1>14, <2>1 DEF vars, callVars, Banked, AddsKnown, NoDoubles, Within, Past, Passes, Defaults, Listed
  <1> QED
    BY <1>13, <1>14 DEF Next

\* Whatever calls are cut short, a member has no two default accounts and none twice if
\* calls do not overlap, and the list keeps to its limit; calls that overlap make as many
\* defaults, and exceed the limit by as many, as had passed the check.
THEOREM AccountsAreInOrder == Spec => []AccountsInOrder
  <1>1. Spec => [](Served /\ Banked)
    BY ServedInit, ServedStep, BankedInit, BankedStep, PTL DEF Spec
  <1>2. Served /\ Banked => AccountsInOrder
    <2> SUFFICES ASSUME Served, Banked PROVE AccountsInOrder
      OBVIOUS
    <2>1. MaxAccounts \in Nat \ {0} /\ Cardinality(Defaults) \in Nat /\ Cardinality(Listed) \in Nat
      BY BankAccountsAssumption, AccountsFinite DEF BankAccountsAssumption, Banked, Counted
    <2>2. Within(Cardinality(Defaults), 1, Defaulting) /\ Within(Cardinality(Listed), MaxAccounts, Listing)
      BY DEF Banked
    <2>3. Cardinality(Defaults) <= Passes /\ Cardinality(Listed) <= MaxAccounts - 1 + Passes
      BY <2>1, <2>2, PastFinite DEF Within
    <2> QED
      BY <2>3 DEF Banked, AccountsInOrder, NoDoubles, Listed
  <1> QED
    BY <1>1, <1>2, PTL

----------------------------------------------------------------------------
(* The reputation of a member.                                             *)

\* If calls neither overlap nor are cut short, the reputation is stale only while a
\* call is about to store a new one, what it stores is that of the ratings there are,
\* and a rating that is being deleted is still the one that was found.
Reputed ==
    /\ scores = [o \in Orders |-> scores[o]]
    /\ serial /\ reliable =>
          /\ (\A h \in Handlers : call[h].at \notin {"average", "storeReputation"})
                => reputation = Summary(Rated \ silent)
          /\ \A h \in Handlers :
                /\ call[h].at = "storeReputation" => call[h].seen = Summary(Rated)
                /\ call[h].at = "remove" => scores[call[h].on[1]] = call[h].on[2]

\* A summary changes only with the ratings it is about.
LEMMA SummaryKept ==
  ASSUME NEW S \in SUBSET Orders, \A o \in S : scores'[o] = scores[o]
  PROVE  Summary(S)' = Summary(S)
  <1>1. IsFiniteSet(S)
    BY RatingsAssumption, FS_Subset DEF RatingsAssumption
  <1>2. SumFunctionOnSet(scores', S) = SumFunctionOnSet(scores, S)
    BY <1>1, SumSame
  <1> QED
    BY <1>2 DEF Summary

LEMMA ReputedInit == Init => Reputed
  <1> SUFFICES ASSUME Init PROVE Reputed
    OBVIOUS
  <1>1. /\ scores = [o \in Orders |-> 0] /\ silent = {} /\ reputation = [average |-> 0, count |-> 0]
        /\ \A h \in Handlers : call[h].at = "idle"
    BY DEF Init, CallsInit, RatingsInit, Idle
  <1>2. Rated \ silent = {}
    BY <1>1 DEF Rated
  <1>3. Summary({}) = [average |-> 0, count |-> 0]
    BY FS_EmptySet DEF Summary
  <1> QED
    BY <1>1, <1>2, <1>3 DEF Reputed

\* A step that leaves the ratings alone and comes to no step of theirs that relies on
\* what the call has seen.
LEMMA ReputedKept ==
  ASSUME Served, Reputed, UNCHANGED ratingVars, NEW h \in Handlers, NEW L, Moves(h, L),
         reliable => call[h].at \notin {"average", "storeReputation"},
         call'[h].at \notin {"average", "storeReputation"},
         call'[h].at = "remove" => scores[call'[h].on[1]] = call'[h].on[2]
  PROVE  Reputed'
  <1>1. scores' = scores /\ silent' = silent /\ reputation' = reputation /\ Rated' = Rated
        /\ serial' = serial /\ reliable' = reliable
    BY DEF ratingVars, Rated, Moves
  <1>2. Summary(Rated \ silent)' = Summary(Rated \ silent)
    BY <1>1 DEF Summary
  <1>3. scores' = [o \in Orders |-> scores'[o]]
    BY <1>1 DEF Reputed
  <1>4. ASSUME serial, reliable
        PROVE  /\ reputation' = Summary(Rated \ silent)'
               /\ \A g \in Handlers :
                     /\ call'[g].at # "storeReputation"
                     /\ call'[g].at = "remove" => scores'[call'[g].on[1]] = call'[g].on[2]
    <2>1. \A g \in Handlers : g # h => call[g].at = "idle" /\ call'[g].at = "idle"
      BY <1>4, OthersIdle
    <2>2. reputation = Summary(Rated \ silent)
      BY <1>4, <2>1 DEF Reputed
    <2> QED
      BY <1>1, <1>2, <2>1, <2>2
  <1> QED
    BY <1>1, <1>3, <1>4 DEF Reputed

LEMMA RatingCallKeeps ==
  ASSUME Served, Reputed, NEW h \in Handlers, RatingCall(h)
  PROVE  Reputed'
  <1>1. Shaped /\ scores = [o \in Orders |-> scores[o]]
    BY DEF Served, Reputed
  <1>2. ASSUME NEW o \in Orders, NEW s \in Scores, CreateRating(h, o, s) PROVE Reputed'
    <2>1. Begin(h, "insert", <<o, s>>, Null) /\ UNCHANGED ratingVars
      BY <1>2 DEF CreateRating
    <2>2. Moves(h, {"insert"}) /\ call[h].at = "idle"
          /\ call'[h] = [at |-> "insert", on |-> <<o, s>>, seen |-> Null]
      BY <1>1, <2>1, BeginGives
    <2>3. call'[h].at = "insert"
      BY <2>2
    <2> QED
      BY <2>1, <2>2, <2>3, ReputedKept
  <1>3. ASSUME NEW o \in Orders, NEW s \in Scores, Rate(h, o, s) PROVE Reputed'
    <2>1. Begin(h, "rate", <<o, s>>, Null) /\ UNCHANGED ratingVars
      BY <1>3 DEF Rate
    <2>2. Moves(h, {"rate"}) /\ call[h].at = "idle"
          /\ call'[h] = [at |-> "rate", on |-> <<o, s>>, seen |-> Null]
      BY <1>1, <2>1, BeginGives
    <2>3. call'[h].at = "rate"
      BY <2>2
    <2> QED
      BY <2>1, <2>2, <2>3, ReputedKept
  <1>4. ASSUME NEW o \in Orders, DeleteRating(h, o) PROVE Reputed'
    <2>1. Begin(h, "remove", <<o, scores[o]>>, Null) /\ UNCHANGED ratingVars
      BY <1>4 DEF DeleteRating
    <2>2. Moves(h, {"remove"}) /\ call[h].at = "idle"
          /\ call'[h] = [at |-> "remove", on |-> <<o, scores[o]>>, seen |-> Null]
      BY <1>1, <2>1, BeginGives
    <2>3. call'[h].at = "remove" /\ scores[call'[h].on[1]] = call'[h].on[2]
      BY <2>2
    <2> QED
      BY <2>1, <2>2, <2>3, ReputedKept
  <1>5. CASE InsertRating(h)
    <2> PICK o, s : o = call[h].on[1] /\ s = call[h].on[2]
      OBVIOUS
    <2>1. CASE scores[o] = 0
      <3>1. Proceed(h, "insert", "average", Null) /\ scores' = [scores EXCEPT ![o] = s]
        BY <1>5, <2>1 DEF InsertRating
      <3>2. Moves(h, {"average"})
            /\ call'[h] = [at |-> "average", on |-> call[h].on, seen |-> Null]
        BY <1>1, <3>1, ProceedGives
      <3>3. scores' = [p \in Orders |-> scores'[p]]
        BY <1>1, <3>1
      <3>4. serial' => \A g \in Handlers : g # h => call'[g].at = "idle"
        BY <3>2, OthersIdle DEF Moves
      <3>5. call'[h].at = "average"
        BY <3>2
      <3> QED
        BY <3>3, <3>4, <3>5 DEF Reputed
    <2>2. CASE scores[o] # 0
      <3>1. End(h, "insert") /\ UNCHANGED ratingVars
        BY <1>5, <2>2 DEF InsertRating, ratingVars
      <3>2. Moves(h, {}) /\ call[h].at = "insert" /\ call'[h].at = "idle"
        BY <1>1, <3>1, EndGives DEF Idle
      <3> QED
        BY <3>1, <3>2, ReputedKept
    <2> QED
      BY <2>1, <2>2
  <1>6. CASE RemoveRating(h)
    <2> PICK o, s : o = call[h].on[1] /\ s = call[h].on[2]
      OBVIOUS
    <2>1. CASE scores[o] = s
      <3>1. Proceed(h, "remove", "average", Null) /\ scores' = [scores EXCEPT ![o] = 0]
        BY <1>6, <2>1 DEF RemoveRating
      <3>2. Moves(h, {"average"})
            /\ call'[h] = [at |-> "average", on |-> call[h].on, seen |-> Null]
        BY <1>1, <3>1, ProceedGives
      <3>3. scores' = [p \in Orders |-> scores'[p]]
        BY <1>1, <3>1
      <3>4. serial' => \A g \in Handlers : g # h => call'[g].at = "idle"
        BY <3>2, OthersIdle DEF Moves
      <3>5. call'[h].at = "average"
        BY <3>2
      <3> QED
        BY <3>3, <3>4, <3>5 DEF Reputed
    <2>2. CASE scores[o] # s
      <3>1. End(h, "remove") /\ scores' = scores
        BY <1>6, <2>2 DEF RemoveRating
      <3>2. Moves(h, {}) /\ call[h].at = "remove"
        BY <1>1, <3>1, EndGives
      <3>3. ~(serial /\ reliable)
        BY <2>2, <3>2 DEF Reputed
      <3> QED
        BY <1>1, <3>1, <3>2, <3>3 DEF Reputed, Moves
    <2> QED
      BY <2>1, <2>2
  <1>7. CASE Average(h)
    <2>1. Proceed(h, "average", "storeReputation", Summary(Rated)) /\ UNCHANGED ratingVars
      BY <1>7 DEF Average
    <2>2. Moves(h, {"storeReputation"})
          /\ call'[h] = [at |-> "storeReputation", on |-> call[h].on, seen |-> Summary(Rated)]
      BY <1>1, <2>1, ProceedGives
    <2>3. call'[h].at = "storeReputation" /\ call'[h].seen = Summary(Rated)
      BY <2>2
    <2>4. Summary(Rated)' = Summary(Rated) /\ scores' = scores
      BY <2>1 DEF ratingVars, Summary, Rated
    <2>5. serial' => \A g \in Handlers : g # h => call'[g].at = "idle"
      BY <2>2, OthersIdle DEF Moves
    <2> QED
      BY <1>1, <2>3, <2>4, <2>5 DEF Reputed
  <1>8. CASE StoreReputation(h)
    <2>1. End(h, "storeReputation") /\ reputation' = call[h].seen /\ silent' = {} /\ scores' = scores
      BY <1>8 DEF StoreReputation
    <2>2. Moves(h, {}) /\ call[h].at = "storeReputation" /\ call'[h].at = "idle"
      BY <1>1, <2>1, EndGives DEF Idle
    <2>3. Rated' = Rated /\ Rated' \ silent' = Rated
      BY <2>1 DEF Rated
    <2>4. Summary(Rated \ silent)' = Summary(Rated)
      BY <2>1, <2>3 DEF Summary
    <2>5. serial' => \A g \in Handlers : g # h => call'[g].at = "idle"
      BY <2>2, OthersIdle DEF Moves
    <2>6. serial' = serial /\ reliable' = reliable
      BY <2>2 DEF Moves
    <2>7. serial /\ reliable => call[h].seen = Summary(Rated)
      BY <2>2 DEF Reputed
    <2> QED
      BY <1>1, <2>1, <2>2, <2>4, <2>5, <2>6, <2>7 DEF Reputed
  <1>9. CASE InsertSilently(h)
    <2> PICK o, s : o = call[h].on[1] /\ s = call[h].on[2]
      OBVIOUS
    <2>1. End(h, "rate")
      BY <1>9 DEF InsertSilently
    <2>2. Moves(h, {}) /\ call[h].at = "rate" /\ call'[h].at = "idle"
      BY <1>1, <2>1, EndGives DEF Idle
    <2>3. CASE scores[o] # 0
      <3>1. UNCHANGED ratingVars
        BY <1>9, <2>3 DEF InsertSilently, ratingVars
      <3> QED
        BY <2>2, <3>1, ReputedKept
    <2>4. CASE scores[o] = 0
      <3>1. /\ scores' = [scores EXCEPT ![o] = s] /\ silent' = silent \cup {o}
            /\ reputation' = reputation
        BY <1>9, <2>4 DEF InsertSilently
      <3>2. /\ scores' = [p \in Orders |-> scores'[p]]
            /\ \A p \in Orders : p # o => scores'[p] = scores[p]
        BY <1>1, <3>1
      <3> PICK S \in SUBSET Orders : S = Rated \ silent
        BY DEF Rated
      <3>3. (Rated \ silent)' = S
        BY <2>4, <3>1, <3>2 DEF Rated
      <3>4. Summary(S)' = Summary(S)
        <4>1. \A p \in S : scores'[p] = scores[p]
          BY <2>4, <3>2 DEF Rated
        <4> QED
          BY <4>1, SummaryKept
      <3>5. Summary(Rated \ silent)' = Summary(Rated \ silent)
        BY <3>3, <3>4 DEF Summary
      <3>6. serial => \A g \in Handlers : g # h => call[g].at = "idle" /\ call'[g].at = "idle"
        BY <2>2, OthersIdle
      <3>7. serial' = serial /\ reliable' = reliable
        BY <2>2 DEF Moves
      <3>8. serial /\ reliable => reputation' = Summary(Rated \ silent)'
        BY <2>2, <3>1, <3>5, <3>6 DEF Reputed
      <3> QED
        BY <2>2, <3>2, <3>6, <3>7, <3>8 DEF Reputed
    <2> QED
      BY <2>3, <2>4
  <1> QED
    BY <1>2, <1>3, <1>4, <1>5, <1>6, <1>7, <1>8, <1>9 DEF RatingCall

LEMMA ReputedStep == Served /\ Reputed /\ [Next]_vars => Reputed'
  <1> SUFFICES ASSUME Served, Reputed, [Next]_vars PROVE Reputed'
    OBVIOUS
  <1>1. ASSUME NEW h \in Handlers, UNCHANGED ratingVars,
               ReferralCall(h) \/ BankCall(h) \/ IdentityCall(h) \/ FactorCall(h)
                  \/ FulfilmentCall(h) \/ Cut(h)
        PROVE  Reputed'
    <2>1. \A at \in {"average", "storeReputation", "remove"} :
             at \notin Label.referrals \cup Label.bank \cup Label.identity \cup Label.factor
                           \cup Label.fulfilment \cup {"idle"}
      BY DEF Label
    <2>2. PICK L : /\ Moves(h, L)
                   /\ \A at \in {"average", "storeReputation", "remove"} : at \notin L \cup {"idle"}
      BY <1>1, <2>1, ReferralMoves, BankMoves, IdentityMoves, FactorMoves, FulfilmentMoves,
         CutGives DEF Served
    <2>3. call'[h].at \notin {"average", "storeReputation", "remove"}
      BY <2>2 DEF Moves
    <2>4. reliable => call[h].at \notin {"average", "storeReputation"}
      BY <1>1, <2>1, StepsOf DEF Cut
    <2> QED
      BY <1>1, <2>2, <2>3, <2>4, ReputedKept
  <1>2. ASSUME NEW h \in Handlers, Serve(h) PROVE Reputed'
    BY <1>1, <1>2, RatingCallKeeps DEF Serve
  <1>3. CASE UNCHANGED vars
    <2>1. /\ scores' = scores /\ silent' = silent /\ reputation' = reputation /\ call' = call
          /\ serial' = serial /\ reliable' = reliable
      BY <1>3 DEF vars, callVars, ratingVars
    <2>2. Rated' = Rated /\ \A S : Summary(S)' = Summary(S)
      BY <2>1 DEF Rated, Summary
    <2>3. Summary(Rated \ silent)' = Summary(Rated \ silent) /\ Summary(Rated)' = Summary(Rated)
      BY <2>1, <2>2 DEF Summary
    <2> QED
      BY <2>1, <2>3 DEF Reputed
  <1> QED
    BY <1>2, <1>3 DEF Next

\* If calls neither overlap nor are cut short, the reputation between calls is that of
\* the ratings there are, but for those given by the second way since it was last
\* computed, for any orders, scores and number of calls.
THEOREM ReputationIsRight == Spec => []ReputationRight
  <1>1. Spec => [](Served /\ Reputed)
    BY ServedInit, ServedStep, ReputedInit, ReputedStep, PTL DEF Spec
  <1>2. Reputed => ReputationRight
    BY DEF Reputed, ReputationRight, Quiet, Idle
  <1> QED
    BY <1>1, <1>2, PTL
----------------------------------------------------------------------------
(* The exact types.  Handlers serve one area only, so what a call is about *)
(* is told by the step it is at.                                           *)

Reputation == [average : 0..500, count : 0..Cardinality(Orders)]

\* What a call carries to its next step, when these members have a code.
Apt(c, members) ==
    /\ c.at = "createCode" => c.on \in Users
    /\ c.at \in {"findUsage", "createUsage"} => c.on \in members \X Users /\ c.on[1] # c.on[2]
    /\ c.at = "enable" => c.on \in Nat
    /\ c.at \in {"insert", "rate"} => c.on \in Orders \X Scores
    /\ c.at = "storeReputation" => c.seen \in Reputation
    /\ c.at \in {"store", "list"} => c.on \in Files /\ c.seen \subseteq Files \cup {Link}
    /\ c.at = "setStatus" => c.on \in {"PAID", "DISPUTED", "COMPLETED", "CANCELLED"}

CallsApt ==
    /\ reliable \in BOOLEAN
    /\ area \in DOMAIN Label
    /\ calls \in 0..MaxCalls
    /\ \A h \in Handlers : call[h].at \in Label[area] \cup {"idle"} /\ Apt(call[h], codes)

ReferralTypes ==
    /\ codes \subseteq Users
    /\ usages \subseteq codes \X Users
    /\ \A use \in usages : use[1] # use[2]

IdentityTypes ==
    /\ kycStatus \in {"NONE", "PENDING", "VERIFIED", "REJECTED"}
    /\ submissions \in Seq(SubmissionRow)

FactorTypes ==
    /\ {setups, confirmed} \subseteq Nat
    /\ secret \in 0..setups
    /\ mfaEnabled \in BOOLEAN

RatingTypes ==
    /\ scores \in [Orders -> Scores \cup {0}]
    /\ reputation \in Reputation
    /\ silent \subseteq Rated

FulfilmentTypes ==
    /\ orderStatus \in {"ACCEPTED", "PAID", "DISPUTED", "COMPLETED", "REFUNDED", "CANCELLED"}
    /\ stored \subseteq Files
    /\ {proof, sent} \subseteq SUBSET (Files \cup {Link})
    /\ dispute \in {"NONE", "OPEN", "RESPONDED", "UNDER_ARBITRATION", "DECIDED"}
    /\ late \in Nat
    /\ reopened \in BOOLEAN

Exact ==
    /\ CallsApt
    /\ ReferralTypes
    /\ IdentityTypes
    /\ FactorTypes
    /\ RatingTypes
    /\ FulfilmentTypes

\* A call is counted when it begins, and only while there is one left.
LEMMA CallsCounted ==
  ASSUME NEW h \in Handlers, Serve(h), calls \in 0..MaxCalls
  PROVE  calls' \in 0..MaxCalls
  <1>1. MaxCalls \in Nat
    BY CallsAssumption DEF CallsAssumption
  <1>2. ASSUME NEW at, NEW on, NEW seen, Begin(h, at, on, seen) PROVE calls' \in 0..MaxCalls
    BY <1>1, <1>2 DEF Begin
  <1>3. ASSUME NEW at, End(h, at) PROVE calls' \in 0..MaxCalls
    BY <1>3 DEF End
  <1>4. ASSUME NEW at, NEW next, NEW seen, Proceed(h, at, next, seen) PROVE calls' \in 0..MaxCalls
    BY <1>4 DEF Proceed
  <1>5. CASE ReferralCall(h)
    BY <1>2, <1>3, <1>4, <1>5 DEF ReferralCall, GetMyReferralCode, ClaimReward,
       ApplyReferralCode, CreateCode, FindUsage, CreateUsage, CreditReward
  <1>6. CASE BankCall(h)
    BY <1>2, <1>3, <1>4, <1>6 DEF BankCall, AddBankAccount, WithdrawToNewAccount, SetAsDefault,
       DeleteBankAccount, CountAccounts, CreateAccount, CreateUnlisted, UnsetDefaults, SetDefault,
       SoftDelete
  <1>7. CASE IdentityCall(h)
    BY <1>2, <1>3, <1>4, <1>7 DEF IdentityCall, SubmitKyc, UploadKYCDocument, ApproveKYC,
       RejectKYC, CreateSubmission, CreateUpload, SetPending, SetVerified, SetRejected, SetReason
  <1>8. CASE FactorCall(h)
    BY <1>2, <1>3, <1>4, <1>8 DEF FactorCall, SetupMfa, EnableMfa, DisableMfa, VerifyMfa,
       StoreSetup, SetEnabled, ClearFactor
  <1>9. CASE RatingCall(h)
    BY <1>2, <1>3, <1>4, <1>9 DEF RatingCall, CreateRating, Rate, DeleteRating, InsertRating,
       RemoveRating, Average, StoreReputation, InsertSilently
  <1>10. CASE FulfilmentCall(h)
    BY <1>2, <1>3, <1>4, <1>10 DEF FulfilmentCall, SubmitDeliveryProof, Resolve, PayAccepted, DeliverByLink,
       ConfirmDelivered, CancelOrder, OpenDispute, DisputeTransaction, DisputeOrder, Respond,
       SubmitEvidence, AssignArbitrator, StoreFile, ListFile, ListRefused, InsertLink,
       SetOrderStatus, InsertDispute, InsertFirst, InsertRefused, SetResponded, InsertEvidence,
       SetArbitration, Decide
  <1>11. CASE Cut(h)
    BY <1>11 DEF Cut
  <1> QED
    BY <1>5, <1>6, <1>7, <1>8, <1>9, <1>10, <1>11 DEF Serve

\* What the step leaves of its call decides whether the calls stay apt.
LEMMA CallsStayApt ==
  ASSUME CallsApt, NEW h \in Handlers, NEW L, Moves(h, L), L \subseteq Label[area],
         UNCHANGED area, codes \subseteq codes', Apt(call'[h], codes'), calls' \in 0..MaxCalls
  PROVE  CallsApt'
  <1>1. ASSUME NEW c, Apt(c, codes) PROVE Apt(c, codes')
    BY <1>1 DEF Apt
  <1>2. ASSUME NEW g \in Handlers
        PROVE  call'[g].at \in Label[area] \cup {"idle"} /\ Apt(call'[g], codes')
    <2>1. CASE g = h
      BY <2>1 DEF Moves
    <2>2. CASE g # h
      <3> PICK c : c = call[g]
        OBVIOUS
      <3>1. c.at \in Label[area] \cup {"idle"} /\ Apt(c, codes) /\ call'[g] = c
        BY <2>2 DEF Moves, CallsApt
      <3> QED
        BY <1>1, <3>1
    <2> QED
      BY <2>1, <2>2
  <1> QED
    BY <1>2 DEF CallsApt, Label, Moves

\* A call that is done carries nothing.
LEMMA IdleIsApt == \A members : Apt(Idle, members)
  BY DEF Apt, Idle

----------------------------------------------------------------------------
(* The summary of ratings of one to five is one, too.                      *)

LEMMA ScoresAddUp ==
  ASSUME scores \in [Orders -> Scores \cup {0}], NEW S \in SUBSET Orders
  PROVE  /\ SumFunctionOnSet(scores, S) \in Nat /\ Cardinality(S) \in Nat
         /\ SumFunctionOnSet(scores, S) <= 5 * Cardinality(S)
  <1>1. IsFiniteSet(S) /\ \A x \in S : scores[x] \in 0..5
    <2>1. IsFiniteSet(S)
      BY RatingsAssumption, FS_Subset DEF RatingsAssumption
    <2>2. \A s \in Scores \cup {0} : s \in 0..5
      BY RatingsAssumption DEF RatingsAssumption
    <2> QED BY <2>1, <2>2
  <1> DEFINE T == {A \in SUBSET S : SumFunctionOnSet(scores, A) <= 5 * Cardinality(A)}
  <1>2. {} \in T
    BY SumEmpty, FS_EmptySet
  <1>3. ASSUME NEW A \in T, NEW x \in S \ A PROVE A \cup {x} \in T
    <2>1. IsFiniteSet(A) /\ Ints(scores, A) /\ scores[x] \in 0..5
      BY <1>1, FS_Subset DEF Ints
    <2>2. /\ Cardinality(A) \in Nat /\ Cardinality(A \cup {x}) = Cardinality(A) + 1
          /\ SumFunctionOnSet(scores, A) \in Int
          /\ SumFunctionOnSet(scores, A \cup {x}) = SumFunctionOnSet(scores, A) + scores[x]
      BY <2>1, FS_CardinalityType, FS_AddElement, SumType, SumAdds
    <2>3. SumFunctionOnSet(scores, A) <= 5 * Cardinality(A)
      OBVIOUS
    <2>4. SumFunctionOnSet(scores, A \cup {x}) <= 5 * Cardinality(A \cup {x})
      BY <2>1, <2>2, <2>3
    <2> QED
      BY <2>4
  <1> HIDE DEF T
  <1>4. T \in SUBSET (SUBSET S)
    BY DEF T
  <1>5. S \in T
    BY <1>1, <1>2, <1>3, <1>4, GrowsToAll
  <1>6. SumFunctionOnSet(scores, S) <= 5 * Cardinality(S)
    BY <1>5 DEF T
  <1>7. SumFunctionOnSet(scores, S) \in Nat /\ Cardinality(S) \in Nat
    BY <1>1, SumNat, FS_CardinalityType
  <1> QED
    BY <1>6, <1>7

LEMMA AverageInRange ==
  ASSUME NEW n \in Nat \ {0}, NEW total \in Nat, total <= 5 * n
  PROVE  (200 * total + n) \div (2 * n) \in 0..500
  <1> DEFINE x == 200 * total + n  d == 2 * n  q == x \div d  r == x % d
  <1>1. x \in Nat /\ d \in Nat \ {0} /\ x <= 500 * d + n /\ n < d
    OBVIOUS
  <1> HIDE DEF x, d
  <1>2. x = d * q + r /\ q \in Int /\ r \in Nat /\ r < d
    BY <1>1
  <1> HIDE DEF q, r
  <1>3. d * q < d * 501 /\ d * (-1) < d * q
    BY <1>1, <1>2
  <1>4. ASSUME NEW a \in Int, NEW b \in Int, d * a < d * b PROVE a < b
    BY <1>1, <1>4
  <1>5. q < 501 /\ -1 < q
    BY <1>2, <1>3, <1>4
  <1> QED
    BY <1>2, <1>5 DEF q, x, d

LEMMA SummaryIsReputation ==
  ASSUME scores \in [Orders -> Scores \cup {0}], NEW S \in SUBSET Orders
  PROVE  Summary(S) \in Reputation
  <1> PICK n \in Nat, total \in Nat :
         n = Cardinality(S) /\ total = SumFunctionOnSet(scores, S) /\ total <= 5 * n
    BY ScoresAddUp
  <1>1. n \in 0..Cardinality(Orders)
    BY RatingsAssumption, FS_Subset, FS_CardinalityType DEF RatingsAssumption
  <1>2. Summary(S) =
           [average |-> IF n = 0 THEN 0 ELSE (200 * total + n) \div (2 * n), count |-> n]
    BY DEF Summary
  <1>3. (IF n = 0 THEN 0 ELSE (200 * total + n) \div (2 * n)) \in 0..500
    BY AverageInRange
  <1> QED
    BY <1>1, <1>2, <1>3 DEF Reputation
----------------------------------------------------------------------------
(* Each area keeps its types, and leaves its calls apt.                    *)

LEMMA BeginCarries ==
  ASSUME Shaped, NEW h \in Handlers, NEW at, NEW on, NEW seen, at # "idle",
         Begin(h, at, on, seen)
  PROVE  call'[h].at = at /\ call'[h].on = on /\ call'[h].seen = seen
  <1>1. call'[h] = [at |-> at, on |-> on, seen |-> seen]
    BY DEF Begin, Shaped
  <1> QED
    BY <1>1

LEMMA ProceedCarries ==
  ASSUME Shaped, NEW h \in Handlers, NEW at, NEW next, NEW seen,
         at # "idle", next # "idle", Proceed(h, at, next, seen)
  PROVE  call[h].at = at /\ call'[h].at = next /\ call'[h].on = call[h].on /\ call'[h].seen = seen
  <1>1. call[h].at = at /\ call'[h] = [at |-> next, on |-> call[h].on, seen |-> seen]
    BY DEF Proceed, Shaped
  <1> QED
    BY <1>1

LEMMA ReferralsStayTyped ==
  ASSUME Served, CallsApt, ReferralTypes, NEW h \in Handlers, ReferralCall(h)
  PROVE  ReferralTypes' /\ codes \subseteq codes' /\ Apt(call'[h], codes')
  <1>1. Shaped
    BY DEF Served
  <1>2. Apt(call[h], codes)
    BY DEF CallsApt
  <1>3. ASSUME NEW u \in Users, GetMyReferralCode(h, u) \/ ClaimReward(h, u)
        PROVE  ReferralTypes' /\ codes \subseteq codes' /\ Apt(call'[h], codes')
    <2>1. /\ UNCHANGED referralVars
          /\ call'[h].at \in {"createCode", "credit"} /\ call'[h].on = u
      BY <1>1, <1>3, BeginCarries DEF GetMyReferralCode, ClaimReward
    <2> QED
      BY <2>1 DEF ReferralTypes, referralVars, Apt
  <1>4. ASSUME NEW owner \in Users, NEW u \in Users, ApplyReferralCode(h, owner, u)
        PROVE  ReferralTypes' /\ codes \subseteq codes' /\ Apt(call'[h], codes')
    <2>1. /\ UNCHANGED referralVars /\ owner \in codes \ {u}
          /\ call'[h].at = "findUsage" /\ call'[h].on = <<owner, u>>
      BY <1>1, <1>4, BeginCarries DEF ApplyReferralCode
    <2> QED
      BY <2>1 DEF ReferralTypes, referralVars, Apt
  <1>5. CASE CreateCode(h)
    <2>1. /\ call'[h] = Idle /\ call[h].at = "createCode"
          /\ codes' = codes \cup {call[h].on} /\ usages' = usages
      BY <1>1, <1>5, EndGives DEF CreateCode
    <2>2. call[h].on \in Users
      BY <1>2, <2>1 DEF Apt
    <2> QED
      BY <2>1, <2>2, IdleIsApt DEF ReferralTypes
  <1>6. CASE FindUsage(h)
    <2>1. UNCHANGED referralVars /\ call[h].at = "findUsage"
      BY <1>6 DEF FindUsage
    <2>2. CASE \E use \in usages : use[2] = call[h].on[2]
      BY <1>1, <1>6, <2>1, <2>2, EndGives, IdleIsApt DEF FindUsage, ReferralTypes, referralVars
    <2>3. CASE ~ \E use \in usages : use[2] = call[h].on[2]
      <3>1. call'[h].at = "createUsage" /\ call'[h].on = call[h].on
        BY <1>1, <1>6, <2>3, ProceedCarries DEF FindUsage
      <3>2. call[h].on \in codes \X Users /\ call[h].on[1] # call[h].on[2]
        BY <1>2, <2>1 DEF Apt
      <3>3. Apt(call'[h], codes)
        BY <3>1, <3>2 DEF Apt
      <3> QED
        BY <2>1, <3>3 DEF ReferralTypes, referralVars
    <2> QED
      BY <2>2, <2>3
  <1>7. CASE CreateUsage(h)
    <2>1. /\ call'[h] = Idle /\ call[h].at = "createUsage"
          /\ usages' = usages \cup {call[h].on} /\ codes' = codes
      BY <1>1, <1>7, EndGives DEF CreateUsage
    <2>2. call[h].on \in codes \X Users /\ call[h].on[1] # call[h].on[2]
      BY <1>2, <2>1 DEF Apt
    <2> QED
      BY <2>1, <2>2, IdleIsApt DEF ReferralTypes
  <1>8. CASE CreditReward(h)
    BY <1>1, <1>8, EndGives, IdleIsApt DEF CreditReward, ReferralTypes
  <1> QED
    BY <1>3, <1>4, <1>5, <1>6, <1>7, <1>8 DEF ReferralCall

LEMMA BankStaysApt ==
  ASSUME Served, NEW h \in Handlers, BankCall(h), NEW members
  PROVE  Apt(call'[h], members)
  <1>1. call'[h].at \in Label.bank \cup {"idle"}
    BY BankMoves DEF Served, Moves
  <1> QED
    BY <1>1 DEF Label, Apt

LEMMA IdentityStaysTyped ==
  ASSUME Served, IdentityTypes, NEW h \in Handlers, IdentityCall(h), NEW members
  PROVE  IdentityTypes' /\ Apt(call'[h], members)
  <1>1. call'[h].at \in Label.identity \cup {"idle"}
    BY IdentityMoves DEF Served, Moves
  <1>2. Apt(call'[h], members)
    BY <1>1 DEF Label, Apt
  <1>3. CASE SubmitKyc(h) \/ UploadKYCDocument(h) \/ ApproveKYC(h) \/ RejectKYC(h)
             \/ SetPending(h) \/ SetVerified(h) \/ SetRejected(h)
    BY <1>2, <1>3 DEF SubmitKyc, UploadKYCDocument, ApproveKYC, RejectKYC, SetPending, SetVerified,
                SetRejected, IdentityTypes, identityVars
  <1>4. CASE CreateSubmission(h) \/ CreateUpload(h)
    <2>1. submissions' = Append(submissions, [reason |-> FALSE]) /\ kycStatus' \in {kycStatus, "PENDING"}
      BY <1>4 DEF CreateSubmission, CreateUpload
    <2>2. [reason |-> FALSE] \in SubmissionRow
      BY DEF SubmissionRow
    <2>3. submissions' \in Seq(SubmissionRow)
      BY <2>1, <2>2 DEF IdentityTypes
    <2> QED
      BY <1>2, <2>1, <2>3 DEF IdentityTypes
  <1>5. CASE SetReason(h)
    <2>1. submissions' = [i \in DOMAIN submissions |-> [reason |-> TRUE]] /\ kycStatus' = kycStatus
      BY <1>5 DEF SetReason
    <2>2. PICK n \in Nat : DOMAIN submissions = 1..n
      BY DEF IdentityTypes
    <2>3. [reason |-> TRUE] \in SubmissionRow
      BY DEF SubmissionRow
    <2>4. submissions' \in [1..n -> SubmissionRow]
      BY <2>1, <2>2, <2>3
    <2> QED
      BY <1>2, <2>1, <2>4 DEF IdentityTypes
  <1> QED
    BY <1>2, <1>3, <1>4, <1>5 DEF IdentityCall

LEMMA FactorStaysTyped ==
  ASSUME Served, CallsApt, FactorTypes, NEW h \in Handlers, FactorCall(h), NEW members
  PROVE  FactorTypes' /\ Apt(call'[h], members)
  <1>1. Shaped /\ Apt(call[h], codes)
    BY DEF Served, CallsApt
  <1>2. CASE SetupMfa(h)
    <2>1. call'[h].at = "setup" /\ UNCHANGED factorVars
      BY <1>1, <1>2, BeginCarries DEF SetupMfa
    <2>2. Apt(call'[h], members)
      BY <2>1 DEF Apt
    <2> QED
      BY <2>1, <2>2 DEF FactorTypes, factorVars
  <1>3. ASSUME NEW code \in 1..setups, EnableMfa(h, code) \/ DisableMfa(h, code)
        PROVE  FactorTypes' /\ Apt(call'[h], members)
    <2>1. /\ UNCHANGED factorVars
          /\ call'[h].at \in {"enable", "disable"} /\ call'[h].on = code
      BY <1>1, <1>3, BeginCarries DEF EnableMfa, DisableMfa, VerifyMfa
    <2>2. code \in Nat
      BY DEF FactorTypes
    <2>3. Apt(call'[h], members)
      BY <2>1, <2>2 DEF Apt
    <2> QED
      BY <2>1, <2>3 DEF FactorTypes, factorVars
  <1>4. CASE StoreSetup(h) \/ SetEnabled(h) \/ ClearFactor(h)
    <2>1. call'[h] = Idle /\ (SetEnabled(h) => call[h].at = "enable")
      BY <1>1, <1>4, EndGives DEF StoreSetup, SetEnabled, ClearFactor
    <2>2. SetEnabled(h) => call[h].on \in Nat
      BY <1>1, <2>1 DEF Apt
    <2>3. setups \in Nat /\ confirmed \in Nat /\ secret \in 0..setups /\ mfaEnabled \in BOOLEAN
      BY DEF FactorTypes
    <2>4. /\ setups' \in {setups, setups + 1} /\ secret' \in {secret, 0, setups'}
      BY <1>4 DEF StoreSetup, SetEnabled, ClearFactor
    <2>5. setups' \in Nat /\ secret' \in 0..setups'
      BY <2>3, <2>4
    <2>6. confirmed' \in Nat
      BY <1>4, <2>2, <2>3 DEF StoreSetup, SetEnabled, ClearFactor
    <2>7. mfaEnabled' \in BOOLEAN
      BY <1>4 DEF StoreSetup, SetEnabled, ClearFactor
    <2> QED
      BY <2>1, <2>5, <2>6, <2>7, IdleIsApt DEF FactorTypes
  <1> QED
    BY <1>2, <1>3, <1>4 DEF FactorCall

LEMMA RatingsStayTyped ==
  ASSUME Served, CallsApt, RatingTypes, NEW h \in Handlers, RatingCall(h), NEW members
  PROVE  RatingTypes' /\ Apt(call'[h], members)
  <1>1. Shaped /\ Apt(call[h], codes)
    BY DEF Served, CallsApt
  <1>2. /\ scores \in [Orders -> Scores \cup {0}] /\ reputation \in Reputation
        /\ silent \subseteq Orders /\ \A o \in silent : scores[o] # 0
        /\ 0 \notin Scores
    BY RatingsAssumption DEF RatingTypes, Rated, RatingsAssumption
  <1>3. ASSUME NEW o \in Orders, NEW s \in Scores, CreateRating(h, o, s) \/ Rate(h, o, s)
        PROVE  RatingTypes' /\ Apt(call'[h], members)
    <2>1. /\ UNCHANGED ratingVars
          /\ call'[h].at \in {"insert", "rate"} /\ call'[h].on = <<o, s>>
      BY <1>1, <1>3, BeginCarries DEF CreateRating, Rate
    <2> QED
      BY <2>1 DEF RatingTypes, Rated, ratingVars, Apt
  <1>4. ASSUME NEW o \in Orders, DeleteRating(h, o)
        PROVE  RatingTypes' /\ Apt(call'[h], members)
    <2>1. UNCHANGED ratingVars /\ call'[h].at = "remove"
      BY <1>1, <1>4, BeginCarries DEF DeleteRating
    <2> QED
      BY <2>1 DEF RatingTypes, Rated, ratingVars, Apt
  <1>5. ASSUME call[h].at \in {"insert", "rate"}
        PROVE  /\ call[h].on[1] \in Orders /\ call[h].on[2] \in Scores
               /\ \E o \in Orders, s \in Scores : o = call[h].on[1] /\ s = call[h].on[2]
    BY <1>1, <1>5 DEF Apt
  <1>6. CASE InsertRating(h)
    <2>1. call[h].at = "insert"
      BY <1>6 DEF InsertRating
    <2> PICK o \in Orders, s \in Scores : o = call[h].on[1] /\ s = call[h].on[2]
      BY <1>5, <2>1
    <2>2. /\ reputation' = reputation /\ silent' = silent
          /\ scores' = IF scores[o] = 0 THEN [scores EXCEPT ![o] = s] ELSE scores
      BY <1>6 DEF InsertRating
    <2>3. call'[h].at \in {"average", "idle"}
      BY <1>1, <1>6, ProceedCarries, EndGives DEF InsertRating, Idle
    <2>4. /\ scores' \in [Orders -> Scores \cup {0}]
          /\ \A p \in silent : scores'[p] # 0
      BY <1>2, <2>2
    <2> QED
      BY <1>2, <2>2, <2>3, <2>4 DEF RatingTypes, Rated, Apt
  <1>7. CASE RemoveRating(h)
    <2> PICK o : o = call[h].on[1]
      OBVIOUS
    <2>1. /\ reputation' = reputation /\ silent' = silent \ {o}
          /\ scores' \in {scores, [scores EXCEPT ![o] = 0]}
      BY <1>7 DEF RemoveRating
    <2>2. call'[h].at \in {"average", "idle"}
      BY <1>1, <1>7, ProceedCarries, EndGives DEF RemoveRating, Idle
    <2>3. /\ scores' \in [Orders -> Scores \cup {0}]
          /\ \A p \in silent \ {o} : scores'[p] # 0
      BY <1>2, <2>1
    <2> QED
      BY <1>2, <2>1, <2>2, <2>3 DEF RatingTypes, Rated, Apt
  <1>8. CASE Average(h)
    <2>1. UNCHANGED ratingVars /\ call'[h].at = "storeReputation" /\ call'[h].seen = Summary(Rated)
      BY <1>1, <1>8, ProceedCarries DEF Average
    <2>2. Rated \in SUBSET Orders
      BY DEF Rated
    <2>3. Summary(Rated) \in Reputation
      BY <1>2, <2>2, SummaryIsReputation
    <2>4. RatingTypes'
      BY <2>1 DEF RatingTypes, Rated, ratingVars
    <2>5. Apt(call'[h], members)
      BY <2>1, <2>3 DEF Apt
    <2> QED
      BY <2>4, <2>5
  <1>9. CASE StoreReputation(h)
    <2>1. /\ call[h].at = "storeReputation" /\ call'[h] = Idle
          /\ reputation' = call[h].seen /\ silent' = {} /\ scores' = scores
      BY <1>1, <1>9, EndGives DEF StoreReputation
    <2>2. call[h].seen \in Reputation
      BY <1>1, <2>1 DEF Apt
    <2> QED
      BY <1>2, <2>1, <2>2, IdleIsApt DEF RatingTypes
  <1>10. CASE InsertSilently(h)
    <2>1. call[h].at = "rate" /\ call'[h] = Idle
      BY <1>1, <1>10, EndGives DEF InsertSilently
    <2> PICK o \in Orders, s \in Scores : o = call[h].on[1] /\ s = call[h].on[2]
      BY <1>5, <2>1
    <2>2. /\ reputation' = reputation
          /\ scores' = IF scores[o] = 0 THEN [scores EXCEPT ![o] = s] ELSE scores
          /\ silent' = IF scores[o] = 0 THEN silent \cup {o} ELSE silent
      BY <1>10 DEF InsertSilently
    <2>3. /\ scores' \in [Orders -> Scores \cup {0}]
          /\ silent' \subseteq Orders /\ \A p \in silent' : scores'[p] # 0
      BY <1>2, <2>2
    <2>4. RatingTypes'
      BY <1>2, <2>2, <2>3 DEF RatingTypes, Rated
    <2> QED
      BY <2>1, <2>4, IdleIsApt
  <1> QED
    BY <1>3, <1>4, <1>6, <1>7, <1>8, <1>9, <1>10 DEF RatingCall

LEMMA FulfilmentStaysTyped ==
  ASSUME Served, CallsApt, FulfilmentTypes, Outcomes, NEW h \in Handlers, FulfilmentCall(h),
         NEW members
  PROVE  FulfilmentTypes' /\ Apt(call'[h], members)
  <1>1. Shaped /\ Apt(call[h], codes)
    BY DEF Served, CallsApt
  <1>2. /\ stored \subseteq Files /\ proof \subseteq Files \cup {Link} /\ late \in Nat
        /\ reopened \in BOOLEAN
        /\ sent \subseteq Files \cup {Link}
    BY DEF FulfilmentTypes
  <1>3. ASSUME UNCHANGED fulfilmentVars PROVE FulfilmentTypes'
    BY <1>3 DEF FulfilmentTypes, fulfilmentVars
  <1>4. ASSUME NEW f \in Files \ stored, SubmitDeliveryProof(h, f)
        PROVE  FulfilmentTypes' /\ Apt(call'[h], members)
    <2>1. /\ UNCHANGED fulfilmentVars
          /\ call'[h].at = "store" /\ call'[h].on = f /\ call'[h].seen = proof
      BY <1>1, <1>4, BeginCarries DEF SubmitDeliveryProof
    <2>2. Apt(call'[h], members)
      BY <1>2, <2>1 DEF Apt
    <2> QED
      BY <1>3, <2>1, <2>2
  <1>5. ASSUME NEW outcome, Resolve(h, outcome)
        PROVE  FulfilmentTypes' /\ Apt(call'[h], members)
    <2>1. UNCHANGED fulfilmentVars /\ call'[h].at = "resolve"
      BY <1>1, <1>5, BeginCarries DEF Resolve
    <2> QED
      BY <1>3, <2>1 DEF Apt
  <1>6. CASE PayAccepted(h) \/ ConfirmDelivered(h) \/ CancelOrder(h) \/ DisputeOrder(h)
    <2>1. /\ UNCHANGED fulfilmentVars /\ call'[h].at = "setStatus"
          /\ call'[h].on \in {"PAID", "DISPUTED", "COMPLETED", "CANCELLED"}
      BY <1>1, <1>6, BeginCarries DEF PayAccepted, ConfirmDelivered, CancelOrder, DisputeOrder
    <2> QED
      BY <1>3, <2>1 DEF Apt
  <1>7. CASE DeliverByLink(h) \/ OpenDispute(h) \/ DisputeTransaction(h) \/ Respond(h)
                \/ SubmitEvidence(h) \/ AssignArbitrator(h)
    <2>1. /\ UNCHANGED fulfilmentVars
          /\ call'[h].at \in {"link", "open", "openFirst", "respond", "evidence", "assign"}
      BY <1>1, <1>7, BeginCarries DEF DeliverByLink, OpenDispute, DisputeTransaction, Respond,
         SubmitEvidence, AssignArbitrator
    <2> QED
      BY <1>3, <2>1 DEF Apt
  <1>8. CASE StoreFile(h)
    <2>1. /\ call[h].at = "store" /\ call'[h].at = "list"
          /\ call'[h].on = call[h].on /\ call'[h].seen = call[h].seen
          /\ stored' = stored \cup {call[h].on}
          /\ UNCHANGED <<orderStatus, proof, sent, dispute, late, reopened>>
      BY <1>1, <1>8, ProceedCarries DEF StoreFile, disputeVars
    <2>2. call[h].on \in Files /\ call[h].seen \subseteq Files \cup {Link}
      BY <1>1, <2>1 DEF Apt
    <2>3. FulfilmentTypes'
      BY <2>1, <2>2 DEF FulfilmentTypes
    <2>4. Apt(call'[h], members)
      BY <2>1, <2>2 DEF Apt
    <2> QED
      BY <2>3, <2>4
  <1>9. CASE ListFile(h)
    <2>1. /\ call[h].at = "list" /\ call'[h] = Idle
          /\ proof' = call[h].seen \cup {call[h].on} /\ sent' = sent \cup {call[h].on}
          /\ UNCHANGED <<orderStatus, stored, dispute, late, reopened>>
      BY <1>1, <1>9, EndGives DEF ListFile, disputeVars
    <2>2. call[h].on \in Files /\ call[h].seen \subseteq Files \cup {Link}
      BY <1>1, <2>1 DEF Apt
    <2>3. proof' \subseteq Files \cup {Link} /\ sent' \subseteq Files \cup {Link}
      BY <1>2, <2>1, <2>2
    <2>4. FulfilmentTypes'
      BY <2>1, <2>3 DEF FulfilmentTypes
    <2> QED
      BY <2>1, <2>4, IdleIsApt
  <1>10. CASE InsertLink(h)
    <2>1. /\ call'[h] = Idle /\ UNCHANGED <<orderStatus, stored, dispute, late, reopened>>
          /\ proof' \in {proof, {Link}} /\ sent' \in {sent, sent \cup {Link}}
      BY <1>1, <1>10, EndGives DEF InsertLink, disputeVars
    <2>2. proof' \subseteq Files \cup {Link} /\ sent' \subseteq Files \cup {Link}
      BY <1>2, <2>1
    <2>3. FulfilmentTypes'
      BY <2>1, <2>2 DEF FulfilmentTypes
    <2> QED
      BY <2>1, <2>3, IdleIsApt
  <1>11. CASE ListRefused(h) \/ InsertRefused(h)
    <2>1. call'[h] = Idle /\ UNCHANGED fulfilmentVars
      BY <1>1, <1>11, EndGives, IdleGives DEF ListRefused, InsertRefused, fulfilmentVars
    <2> QED
      BY <1>3, <2>1, IdleIsApt
  <1>12. CASE SetOrderStatus(h)
    <2>1. /\ call[h].at = "setStatus" /\ call'[h] = Idle /\ orderStatus' = call[h].on
          /\ UNCHANGED <<stored, proof, sent, dispute, late, reopened>>
      BY <1>1, <1>12, EndGives DEF SetOrderStatus, deliveryVars, disputeVars
    <2>2. call[h].on \in {"PAID", "DISPUTED", "COMPLETED", "CANCELLED"}
      BY <1>1, <2>1 DEF Apt
    <2>3. FulfilmentTypes'
      BY <2>1, <2>2 DEF FulfilmentTypes
    <2> QED
      BY <2>1, <2>3, IdleIsApt
  <1>13. CASE InsertFirst(h)
    <2>1. /\ call[h].at = "openFirst" /\ call'[h].at = "setStatus" /\ call'[h].on = call[h].on
          /\ dispute' = "OPEN" /\ UNCHANGED <<orderStatus, stored, proof, sent, late, reopened>>
      BY <1>1, <1>13, ProceedCarries DEF InsertFirst, deliveryVars
    <2>2. call[h].on = "DISPUTED"
      BY <2>1 DEF Outcomes
    <2>3. FulfilmentTypes'
      BY <2>1 DEF FulfilmentTypes
    <2>4. Apt(call'[h], members)
      BY <2>1, <2>2 DEF Apt
    <2> QED
      BY <2>3, <2>4
  <1>14. CASE InsertDispute(h) \/ SetResponded(h) \/ InsertEvidence(h) \/ SetArbitration(h)
    <2>1. /\ call'[h] = Idle /\ UNCHANGED <<stored, proof, sent>>
          /\ orderStatus' \in {orderStatus, "DISPUTED"}
          /\ dispute' \in {dispute, "OPEN", "RESPONDED", "UNDER_ARBITRATION"}
          /\ late' \in {late, late + 1} /\ reopened' \in BOOLEAN
      BY <1>1, <1>2, <1>14, EndGives DEF InsertDispute, SetResponded, InsertEvidence, SetArbitration,
         deliveryVars
    <2>2. late' \in Nat
      BY <1>2, <2>1
    <2>3. FulfilmentTypes'
      BY <2>1, <2>2 DEF FulfilmentTypes
    <2> QED
      BY <2>1, <2>3, IdleIsApt
  <1>15. CASE Decide(h)
    <2>1. /\ call[h].at = "resolve" /\ call'[h] = Idle /\ UNCHANGED <<stored, proof, sent, late, reopened>>
          /\ dispute' = "DECIDED" /\ orderStatus' = call[h].on
      BY <1>1, <1>15, EndGives DEF Decide, deliveryVars
    <2>2. call[h].on \in {"COMPLETED", "REFUNDED", "CANCELLED"}
      BY <2>1 DEF Outcomes
    <2>3. FulfilmentTypes'
      BY <2>1, <2>2 DEF FulfilmentTypes
    <2> QED
      BY <2>1, <2>3, IdleIsApt
  <1> QED
    BY <1>4, <1>5, <1>6, <1>7, <1>8, <1>9, <1>10, <1>11, <1>12, <1>13, <1>14, <1>15 DEF FulfilmentCall

----------------------------------------------------------------------------
LEMMA ExactInit == Init => Exact
  <1> SUFFICES ASSUME Init PROVE Exact
    OBVIOUS
  <1>1. CallsApt
    <2>1. /\ area \in {"referrals", "bank", "identity", "factor", "ratings", "fulfilment"}
          /\ \A h \in Handlers : call[h] = Idle
          /\ calls = 0 /\ MaxCalls \in Nat /\ reliable \in BOOLEAN
      BY CallsAssumption DEF Init, CallsInit, CallsAssumption
    <2>2. area \in DOMAIN Label
      BY <2>1 DEF Label
    <2>3. calls \in 0..MaxCalls
      BY <2>1
    <2> QED
      BY <2>1, <2>2, <2>3, IdleIsApt DEF CallsApt, Idle
  <1>2. ReferralTypes
    BY DEF Init, ReferralsInit, ReferralTypes
  <1>3. IdentityTypes
    <2>1. submissions = <<>> /\ kycStatus = "NONE"
      BY DEF Init, IdentityInit
    <2> QED
      BY <2>1 DEF IdentityTypes
  <1>4. FactorTypes
    <2>1. setups = 0 /\ secret = 0 /\ confirmed = 0
      BY DEF Init, SecondFactorInit
    <2>2. mfaEnabled \in BOOLEAN
      BY DEF Init, SecondFactorInit
    <2> QED
      BY <2>1, <2>2 DEF FactorTypes
  <1>5. RatingTypes
    <2>1. Cardinality(Orders) \in Nat
      BY RatingsAssumption, FS_CardinalityType DEF RatingsAssumption
    <2>2. 0 \in 0..500 /\ 0 \in 0..Cardinality(Orders)
      BY <2>1
    <2>3. reputation \in Reputation
      BY <2>2 DEF Init, RatingsInit, Reputation
    <2> QED
      BY <2>3 DEF Init, RatingsInit, RatingTypes, Rated
  <1>6. FulfilmentTypes
    BY DEF Init, FulfilmentInit, FulfilmentTypes
  <1> QED
    BY <1>1, <1>2, <1>3, <1>4, <1>5, <1>6 DEF Exact

LEMMA ExactStep == Served /\ Outcomes /\ Exact /\ [Next]_vars => Exact'
  <1> SUFFICES ASSUME Served, Outcomes, Exact, [Next]_vars PROVE Exact'
    OBVIOUS
  <1>1. /\ UNCHANGED referralVars => ReferralTypes'
        /\ UNCHANGED identityVars => IdentityTypes'
        /\ UNCHANGED factorVars => FactorTypes'
        /\ UNCHANGED ratingVars => RatingTypes'
        /\ UNCHANGED fulfilmentVars => FulfilmentTypes'
        /\ UNCHANGED referralVars => codes \subseteq codes' /\ codes' = codes
    BY DEF Exact, referralVars, identityVars, factorVars, ratingVars, fulfilmentVars,
           ReferralTypes, IdentityTypes, FactorTypes, RatingTypes, FulfilmentTypes, Rated
  <1>2. ASSUME NEW h \in Handlers, Serve(h), UNCHANGED area PROVE Exact'
    <2>1. /\ Shaped /\ CallsApt /\ ReferralTypes /\ IdentityTypes /\ FactorTypes /\ RatingTypes
          /\ FulfilmentTypes
      BY DEF Served, Exact
    <2>2. calls' \in 0..MaxCalls
      BY <1>2, <2>1, CallsCounted DEF CallsApt
    <2>3. ASSUME NEW L, Moves(h, L), L \subseteq Label[area], codes \subseteq codes',
                 Apt(call'[h], codes')
          PROVE  CallsApt'
      BY <1>2, <2>1, <2>2, <2>3, CallsStayApt
    <2>4. CASE area = "referrals" /\ ReferralCall(h)
                  /\ UNCHANGED <<accounts, identityVars, factorVars, ratingVars, fulfilmentVars>>
      <3>1. ReferralTypes' /\ codes \subseteq codes' /\ Apt(call'[h], codes')
        BY <2>1, <2>4, ReferralsStayTyped
      <3>2. Moves(h, Label.referrals)
        BY <2>1, <2>4, ReferralMoves
      <3> QED
        BY <1>1, <2>3, <2>4, <3>1, <3>2 DEF Exact
    <2>5. CASE area = "bank" /\ BankCall(h)
                  /\ UNCHANGED <<referralVars, identityVars, factorVars, ratingVars, fulfilmentVars>>
      <3>1. Apt(call'[h], codes')
        BY <1>1, <2>5, BankStaysApt
      <3>2. Moves(h, Label.bank)
        BY <2>1, <2>5, BankMoves
      <3> QED
        BY <1>1, <2>3, <2>5, <3>1, <3>2 DEF Exact
    <2>6. CASE area = "identity" /\ IdentityCall(h)
                  /\ UNCHANGED <<referralVars, accounts, factorVars, ratingVars, fulfilmentVars>>
      <3>1. IdentityTypes' /\ Apt(call'[h], codes')
        BY <2>1, <2>6, IdentityStaysTyped
      <3>2. Moves(h, Label.identity)
        BY <2>1, <2>6, IdentityMoves
      <3> QED
        BY <1>1, <2>3, <2>6, <3>1, <3>2 DEF Exact
    <2>7. CASE area = "factor" /\ FactorCall(h)
                  /\ UNCHANGED <<referralVars, accounts, identityVars, ratingVars, fulfilmentVars>>
      <3>1. FactorTypes' /\ Apt(call'[h], codes')
        BY <2>1, <2>7, FactorStaysTyped
      <3>2. Moves(h, Label.factor)
        BY <2>1, <2>7, FactorMoves
      <3> QED
        BY <1>1, <2>3, <2>7, <3>1, <3>2 DEF Exact
    <2>8. CASE area = "ratings" /\ RatingCall(h)
                  /\ UNCHANGED <<referralVars, accounts, identityVars, factorVars, fulfilmentVars>>
      <3>1. RatingTypes' /\ Apt(call'[h], codes')
        BY <2>1, <2>8, RatingsStayTyped
      <3>2. Moves(h, Label.ratings)
        BY <2>1, <2>8, RatingMoves
      <3> QED
        BY <1>1, <2>3, <2>8, <3>1, <3>2 DEF Exact
    <2>9. CASE area = "fulfilment" /\ FulfilmentCall(h)
                  /\ UNCHANGED <<referralVars, accounts, identityVars, factorVars, ratingVars>>
      <3>1. FulfilmentTypes' /\ Apt(call'[h], codes')
        BY <2>1, <2>9, FulfilmentStaysTyped
      <3>2. Moves(h, Label.fulfilment)
        BY <2>1, <2>9, FulfilmentMoves
      <3> QED
        BY <1>1, <2>3, <2>9, <3>1, <3>2 DEF Exact
    <2>10. CASE Cut(h) /\ UNCHANGED <<referralVars, accounts, identityVars, factorVars,
                                      ratingVars, fulfilmentVars>>
      <3>1. Moves(h, {}) /\ call'[h] = Idle
        BY <2>1, <2>10, CutGives
      <3>2. Apt(call'[h], codes')
        BY <3>1, IdleIsApt
      <3> QED
        BY <1>1, <2>3, <2>10, <3>1, <3>2 DEF Exact
    <2> QED
      BY <1>2, <2>4, <2>5, <2>6, <2>7, <2>8, <2>9, <2>10 DEF Serve
  <1>3. CASE UNCHANGED vars
    <2>1. CallsApt'
      BY <1>3 DEF vars, callVars, referralVars, Exact, CallsApt, Label, Apt, Reputation
    <2> QED
      BY <1>1, <1>3, <2>1 DEF vars, Exact
  <1> QED
    BY <1>2, <1>3 DEF Next

\* Every variable of Records keeps its type, whatever overlaps or is cut short: a call
\* is at a step of its area, a use is of somebody else's code, the factor's secret is of
\* a setup there was, and the average of a member's ratings is at most five.
THEOREM TypeCorrect == Spec => []TypeOK
  <1>1. Spec => [](Served /\ Outcomes /\ Exact)
    <2>1. Disputed => Outcomes
      BY DEF Disputed
    <2> QED
      BY <2>1, ServedInit, ServedStep, DisputedInit, DisputedStep, ExactInit, ExactStep, PTL DEF Spec
  <1>2. Spec => [](Rewards /\ Used /\ Banked)
    BY ServedInit, ServedStep, RewardsInit, RewardsStep, UsedInit, UsedStep, BankedInit, BankedStep,
       PTL DEF Spec
  <1>3. Served /\ Outcomes /\ Exact /\ Rewards /\ Used /\ Banked => TypeOK
    BY DEF Served, Outcomes, Exact, CallsApt, ReferralTypes, IdentityTypes, FactorTypes,
           RatingTypes, FulfilmentTypes, Rewards, Used, Banked, TypeOK, Reputation
  <1> QED
    BY <1>1, <1>2, <1>3, PTL
=============================================================================
