----------------------------- MODULE Referrals -----------------------------
(***************************************************************************)
(* Referral codes, their use and the rewards                               *)
(* (core/referral/referral.controller.ts).  A code is named after the      *)
(* member who shares it: there is one per member.  No code of the          *)
(* repository inserts a reward: each member has one from the start.        *)
(* Codes and rewards expire after months, beyond the calls here.           *)
(***************************************************************************)
EXTENDS Calls

CONSTANTS
    Users,      \* members
    MaxUsages   \* MAX_REFERRAL_USAGES

ASSUME ReferralsAssumption == MaxUsages \in Nat \ {0} /\ Null \notin Users

VARIABLES
    codes,        \* members with a row in referral_codes
    usageCount,   \* its usage_count
    usages,       \* referral_usages: <<whose code, who used it>>
    rewards,      \* status of each member's reward
    credits       \* how often it was added to the wallet

referralVars == <<codes, usageCount, usages, rewards, credits>>

----------------------------------------------------------------------------
ReferralsInit ==
    /\ codes = {}
    /\ usageCount = [u \in Users |-> 0]
    /\ usages = {}
    /\ rewards = [u \in Users |-> "PENDING"]
    /\ credits = [u \in Users |-> 0]

\* GET referral/my-code makes a code for a member who has none.
GetMyReferralCode(h, u) ==
    /\ u \notin codes
    /\ Begin(h, "createCode", u, Null)
    /\ UNCHANGED referralVars

\* user_id is unique: of two calls the second fails.
CreateCode(h) ==
    /\ End(h, "createCode")
    /\ codes' = codes \cup {call[h].on}
    /\ UNCHANGED <<usageCount, usages, rewards, credits>>

ApplyBeyondLimit(h, owner, u) ==
    /\ owner \in codes \ {u}
    /\ Begin(h, "findUsage", <<owner, u>>, Null)
    /\ UNCHANGED referralVars

\* POST referral/apply: the code is read, and must not be used up ...
ApplyReferralCode(h, owner, u) ==
    /\ owner \in codes \ {u}
    /\ usageCount[owner] < MaxUsages
    /\ Begin(h, "findUsage", <<owner, u>>, Null)
    /\ UNCHANGED referralVars

\* ... nor may the member have used one before ...
FindUsage(h) ==
    /\ call[h].at = "findUsage"
    /\ IF \E use \in usages : use[2] = call[h].on[2]
       THEN End(h, "findUsage")
       ELSE Proceed(h, "findUsage", "createUsage", Null)
    /\ UNCHANGED referralVars

\* ... and one transaction records the use and counts it, unless the member is
\* recorded with this code already (a unique index).
CreateUsage(h) ==
    LET use == call[h].on IN
    /\ End(h, "createUsage")
    /\ usages' = usages \cup {use}
    /\ usageCount' = [usageCount EXCEPT ![use[1]] = IF use \in usages THEN @ ELSE @ + 1]
    /\ UNCHANGED <<codes, rewards, credits>>

ClaimAgain(h, u) ==
    /\ Begin(h, "credit", u, Null)
    /\ UNCHANGED referralVars

\* POST referral/rewards/:id/claim
ClaimReward(h, u) ==
    /\ rewards[u] = "PENDING"
    /\ Begin(h, "credit", u, Null)
    /\ UNCHANGED referralVars

\* One transaction, which does not look at the status again.
CreditReward(h) ==
    /\ End(h, "credit")
    /\ rewards' = [rewards EXCEPT ![call[h].on] = "CLAIMED"]
    /\ credits' = [credits EXCEPT ![call[h].on] = @ + 1]
    /\ UNCHANGED <<codes, usageCount, usages>>

ReferralCall(h) ==
    \/ \E u \in Users : GetMyReferralCode(h, u) \/ ClaimReward(h, u)
    \/ \E owner, u \in Users : ApplyReferralCode(h, owner, u)
    \/ CreateCode(h) \/ FindUsage(h) \/ CreateUsage(h) \/ CreditReward(h)

----------------------------------------------------------------------------
(* Properties *)

\* A code is used no more often than it may be, and counts its uses; and a member
\* uses one code only.  Calls that overlap exceed either limit by no more than
\* those that had passed the check.
UsageBounded ==
    \A u \in Users :
        /\ usageCount[u] = Cardinality({use \in usages : use[1] = u})
        /\ usageCount[u] <= MaxUsages - 1 + Passes
        /\ Cardinality({use \in usages : use[2] = u}) <= Passes

\* A reward is paid once; with calls that overlap, once in each.  It is claimed
\* exactly if it was paid, even if a call was cut short.
RewardPaidOnce ==
    \A u \in Users :
        /\ credits[u] <= Passes
        /\ rewards[u] = "CLAIMED" <=> credits[u] > 0
=============================================================================
