---------------------------- MODULE SecondFactor ----------------------------
(***************************************************************************)
(* The second factor of one member: POST auth/2fa/enable, verify and       *)
(* disable (core/auth/auth.service.ts).  Setups are numbered, and so are   *)
(* the secrets they make; a code of the member's authenticator is named    *)
(* after the setup it was read from.  The backup codes a setup stores are  *)
(* left out: they have nine characters, and every call takes six.          *)
(***************************************************************************)
EXTENDS Calls

VARIABLES
    setups,      \* how many setups there were
    secret,      \* users.totp_secret_enc: the setup it is of, 0 if there is none
    mfaEnabled,  \* whether a login asks for a code
    confirmed    \* the setup of the last code that enabled it (nothing reads this)

factorVars == <<setups, secret, mfaEnabled, confirmed>>

----------------------------------------------------------------------------
SecondFactorInit ==
    /\ setups = 0
    /\ secret = 0
    /\ mfaEnabled = FALSE
    /\ confirmed = 0

\* At any time: a new secret, not yet enabled.
SetupMfa(h) ==
    /\ Begin(h, "setup", Null, Null)
    /\ UNCHANGED factorVars

SetupStaysEnabled(h) ==
    /\ End(h, "setup")
    /\ setups' = setups + 1
    /\ secret' = setups + 1
    /\ UNCHANGED <<mfaEnabled, confirmed>>

StoreSetup(h) ==
    /\ End(h, "setup")
    /\ setups' = setups + 1
    /\ secret' = setups + 1
    /\ mfaEnabled' = FALSE
    /\ UNCHANGED confirmed

\* A call goes on with a code of the secret that was read with the member.
VerifyMfa(h, code, at) ==
    /\ secret # 0
    /\ code = secret
    /\ Begin(h, at, code, Null)
    /\ UNCHANGED factorVars

EnableMfa(h, code) == VerifyMfa(h, code, "enable")

SetEnabled(h) ==
    /\ End(h, "enable")
    /\ mfaEnabled' = TRUE
    /\ confirmed' = call[h].on
    /\ UNCHANGED <<setups, secret>>

DisableMfa(h, code) == VerifyMfa(h, code, "disable")

ClearFactor(h) ==
    /\ End(h, "disable")
    /\ mfaEnabled' = FALSE
    /\ secret' = 0
    /\ UNCHANGED <<setups, confirmed>>

FactorCall(h) ==
    \/ SetupMfa(h)
    \/ \E code \in 1..setups : EnableMfa(h, code) \/ DisableMfa(h, code)
    \/ StoreSetup(h) \/ SetEnabled(h) \/ ClearFactor(h)

----------------------------------------------------------------------------
(* Properties *)

\* If calls do not overlap, and also when they are cut short: a login asks for a
\* code only of a secret that is there, and that its member has confirmed with a
\* code of the very same setup.  Calls that overlap may enable a secret nobody
\* confirmed, or none at all.
FactorConfirmed == serial /\ mfaEnabled => secret # 0 /\ confirmed = secret
=============================================================================
