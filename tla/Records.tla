------------------------------ MODULE Records ------------------------------
(***************************************************************************)
(* What the server keeps beside money: Referrals, BankAccounts, Identity,  *)
(* SecondFactor, Ratings and Fulfilment.  Their rows have nothing in       *)
(* common, only the handlers that serve the calls: a behaviour is about    *)
(* one area, fixed from the start.                                         *)
(***************************************************************************)
EXTENDS Referrals, BankAccounts, Identity, SecondFactor, Ratings, Fulfilment

VARIABLE area

vars == <<area, callVars, referralVars, accounts, identityVars, factorVars, ratingVars, fulfilmentVars>>

Init ==
    /\ area \in {"referrals", "bank", "identity", "factor", "ratings", "fulfilment"}
    /\ CallsInit
    /\ ReferralsInit
    /\ BankAccountsInit
    /\ IdentityInit
    /\ SecondFactorInit
    /\ RatingsInit
    /\ FulfilmentInit

Serve(h) ==
    \/ /\ area = "referrals"
       /\ ReferralCall(h)
       /\ UNCHANGED <<accounts, identityVars, factorVars, ratingVars, fulfilmentVars>>
    \/ /\ area = "bank"
       /\ BankCall(h)
       /\ UNCHANGED <<referralVars, identityVars, factorVars, ratingVars, fulfilmentVars>>
    \/ /\ area = "identity"
       /\ IdentityCall(h)
       /\ UNCHANGED <<referralVars, accounts, factorVars, ratingVars, fulfilmentVars>>
    \/ /\ area = "factor"
       /\ FactorCall(h)
       /\ UNCHANGED <<referralVars, accounts, identityVars, ratingVars, fulfilmentVars>>
    \/ /\ area = "ratings"
       /\ RatingCall(h)
       /\ UNCHANGED <<referralVars, accounts, identityVars, factorVars, fulfilmentVars>>
    \/ /\ area = "fulfilment"
       /\ FulfilmentCall(h)
       /\ UNCHANGED <<referralVars, accounts, identityVars, factorVars, ratingVars>>
    \/ /\ Cut(h)
       /\ UNCHANGED <<referralVars, accounts, identityVars, factorVars, ratingVars, fulfilmentVars>>

Next == (\E h \in Handlers : Serve(h)) /\ UNCHANGED area

Spec == Init /\ [][Next]_vars

----------------------------------------------------------------------------
\* The steps a call of each area may be at.
Label ==
    [referrals |-> {"createCode", "findUsage", "createUsage", "credit"},
     bank |-> {"count", "create", "createUnlisted", "unset", "set", "delete"},
     identity |-> {"submit", "upload", "setPending", "approve", "reject", "setReason"},
     factor |-> {"setup", "enable", "disable"},
     ratings |-> {"insert", "remove", "average", "storeReputation", "rate"},
     fulfilment |-> {"store", "list", "link", "setStatus", "open", "openFirst", "respond",
                     "evidence", "assign", "resolve"}]

TypeOK ==
    /\ serial \in BOOLEAN
    /\ reliable \in BOOLEAN
    /\ calls \in 0..MaxCalls
    /\ \A h \in Handlers : call[h].at \in Label[area] \cup {"idle"}
    /\ codes \subseteq Users
    /\ usageCount \in [Users -> Nat]
    /\ usages \subseteq codes \X Users
    /\ \A use \in usages : use[1] # use[2]
    /\ rewards \in [Users -> {"PENDING", "CLAIMED"}]
    /\ credits \in [Users -> Nat]
    /\ accounts \in Seq(AccountRow)
    /\ kycStatus \in {"NONE", "PENDING", "VERIFIED", "REJECTED"}
    /\ submissions \in Seq(SubmissionRow)
    /\ {setups, confirmed} \subseteq Nat
    /\ secret \in 0..setups
    /\ mfaEnabled \in BOOLEAN
    /\ scores \in [Orders -> Scores \cup {0}]
    /\ reputation \in [average : 0..500, count : 0..Cardinality(Orders)]
    /\ silent \subseteq Rated
    /\ orderStatus \in {"ACCEPTED", "PAID", "DISPUTED", "COMPLETED", "REFUNDED", "CANCELLED"}
    /\ stored \subseteq Files
    /\ {proof, sent} \subseteq SUBSET (Files \cup {Link})
    /\ dispute \in {"NONE", "OPEN", "RESPONDED", "UNDER_ARBITRATION", "DECIDED"}
    /\ decision \in {"NONE", "COMPLETED", "REFUNDED", "CANCELLED"}
    /\ late \in Nat
    /\ reopened \in BOOLEAN
=============================================================================
