------------------------------ MODULE Identity ------------------------------
(***************************************************************************)
(* The verification of one member's identity: the document sent to POST    *)
(* kyc/submit (core/kyc/kyc.controller.ts) or to POST users/kyc            *)
(* (UserService.uploadKYCDocument), and the decision of an administrator.  *)
(***************************************************************************)
EXTENDS Calls

VARIABLES
    kycStatus,    \* of the member
    submissions   \* rows of kyc_submissions, whose status stays PENDING

identityVars == <<kycStatus, submissions>>

\* Whether rejection_reason is set.
SubmissionRow == [reason : BOOLEAN]

----------------------------------------------------------------------------
IdentityInit ==
    /\ kycStatus = "NONE"
    /\ submissions = <<>>

SubmitAgain(h) ==
    /\ Begin(h, "submit", Null, Null)
    /\ UNCHANGED identityVars

\* POST kyc/submit is refused while a row is pending ...
SubmitKyc(h) ==
    /\ submissions = <<>>
    /\ Begin(h, "submit", Null, Null)
    /\ UNCHANGED identityVars

\* ... and writes the row and the status in one transaction.
CreateSubmission(h) ==
    /\ End(h, "submit")
    /\ submissions' = Append(submissions, [reason |-> FALSE])
    /\ kycStatus' = "PENDING"

\* POST users/kyc adds a row in any case, ...
UploadKYCDocument(h) ==
    /\ Begin(h, "upload", Null, Null)
    /\ UNCHANGED identityVars

CreateUpload(h) ==
    /\ Proceed(h, "upload", "setPending", Null)
    /\ submissions' = Append(submissions, [reason |-> FALSE])
    /\ UNCHANGED kycStatus

\* ... and then sets the status.
SetPending(h) ==
    /\ End(h, "setPending")
    /\ kycStatus' = "PENDING"
    /\ UNCHANGED submissions

\* POST admin/users/:id/kyc/approve and .../reject: the member is decided upon, not
\* the submission.
ApproveKYC(h) ==
    /\ Begin(h, "approve", Null, Null)
    /\ UNCHANGED identityVars

SetVerified(h) ==
    /\ End(h, "approve")
    /\ kycStatus' = "VERIFIED"
    /\ UNCHANGED submissions

RejectKYC(h) ==
    /\ Begin(h, "reject", Null, Null)
    /\ UNCHANGED identityVars

SetRejected(h) ==
    /\ Proceed(h, "reject", "setReason", Null)
    /\ kycStatus' = "REJECTED"
    /\ UNCHANGED submissions

SetReason(h) ==
    /\ End(h, "setReason")
    /\ submissions' = [i \in DOMAIN submissions |-> [reason |-> TRUE]]
    /\ UNCHANGED kycStatus

IdentityCall(h) ==
    \/ SubmitKyc(h) \/ UploadKYCDocument(h) \/ ApproveKYC(h) \/ RejectKYC(h)
    \/ CreateSubmission(h) \/ CreateUpload(h) \/ SetPending(h)
    \/ SetVerified(h) \/ SetRejected(h) \/ SetReason(h)

----------------------------------------------------------------------------
(* Properties *)

\* As long as calls do not overlap, a decision on a member who has sent a document
\* is undone by another decision or by POST users/kyc only: POST kyc/submit, which
\* refuses a member with a pending row, never does.
DecisionStands ==
    [][serial /\ submissions # <<>> /\ kycStatus \in {"VERIFIED", "REJECTED"}
         /\ kycStatus' = "PENDING"
       => \E h \in Handlers : call[h].at = "setPending"]_<<callVars, identityVars>>
=============================================================================
