----------------------------- MODULE Fulfilment -----------------------------
(***************************************************************************)
(* One order from its acceptance on: its payment, the seller's proof of    *)
(* delivery and the buyer's confirmation (core/delivery/                   *)
(* delivery.controller.ts), and the dispute, from its opening to its       *)
(* decision (core/dispute/dispute.service.ts, TransactionService.dispute   *)
(* and OrderService.openDispute).  Orders has the calls before, and the    *)
(* money.                                                                  *)
(*                                                                         *)
(* Nothing calls escalate, appeal and closeAppealWindow of DisputeService: *)
(* no dispute is ever ESCALATED, APPEALED or CLOSED.                       *)
(***************************************************************************)
EXTENDS Calls

CONSTANTS
    Files,   \* pictures the seller may send
    Link     \* an address the seller may name instead

ASSUME FulfilmentAssumption == Null \notin Files \cup {Link} /\ Link \notin Files

VARIABLES
    orderStatus,   \* orders.status
    stored,        \* files on disk
    proof,         \* file_urls of the row of delivery_proofs; {} without a row
    sent,          \* files whose call was answered (nothing reads it)
    dispute,       \* status of the row of disputes, "NONE" without a row
    decision,      \* its decision, as the order's status that follows from it
    late,          \* pieces of evidence added after a decision ...
    reopened       \* ... and whether a decided dispute got another status again
                   \* (nothing reads either)

deliveryVars == <<stored, proof, sent>>
disputeVars == <<dispute, decision, late, reopened>>
fulfilmentVars == <<orderStatus, stored, proof, sent, dispute, decision, late, reopened>>

----------------------------------------------------------------------------
FulfilmentInit ==
    /\ orderStatus \in {"ACCEPTED", "PAID"}
    /\ stored = {}
    /\ proof = {}
    /\ sent = {}
    /\ dispute = "NONE"
    /\ decision = "NONE"
    /\ late = 0
    /\ reopened = FALSE

\* POST transactions/:id/pay and POST orders/:id/pay: the status is the last write.
PayAccepted(h) ==
    /\ orderStatus = "ACCEPTED"
    /\ Begin(h, "setStatus", "PAID", Null)
    /\ UNCHANGED fulfilmentVars

\* POST delivery/submit reads the order and its proof, ...
SubmitDeliveryProof(h, f) ==
    /\ orderStatus \in {"ACCEPTED", "PAID"}
    /\ Begin(h, "store", f, proof)
    /\ UNCHANGED fulfilmentVars

\* ... stores the file, ...
StoreFile(h) ==
    /\ Proceed(h, "store", "list", call[h].seen)
    /\ stored' = stored \cup {call[h].on}
    /\ UNCHANGED <<orderStatus, proof, sent, disputeVars>>

NewestOnly(h) ==
    /\ End(h, "list")
    /\ proof' = {call[h].on}
    /\ sent' = sent \cup {call[h].on}
    /\ UNCHANGED <<orderStatus, stored, disputeVars>>

\* ... and writes back the list it read, one file longer.  The first row is
\* inserted, and inserted once: order_id is unique.
ListFile(h) ==
    LET first == call[h].seen = {} IN
    /\ call[h].at = "list"
    /\ first => proof = {}
    /\ End(h, "list")
    /\ proof' = call[h].seen \cup {call[h].on}
    /\ sent' = sent \cup {call[h].on}
    /\ UNCHANGED <<orderStatus, stored, disputeVars>>

\* The second of two first rows is refused.
ListRefused(h) ==
    /\ call[h].at = "list"
    /\ call[h].seen = {} /\ proof # {}
    /\ End(h, "list")
    /\ UNCHANGED fulfilmentVars

\* POST transactions/:id/deliver names a link in a row of its own, ...
DeliverByLink(h) ==
    /\ orderStatus = "PAID"
    /\ Begin(h, "link", Link, Null)
    /\ UNCHANGED fulfilmentVars

\* ... which is refused if there is one.
InsertLink(h) ==
    /\ End(h, "link")
    /\ IF proof = {}
       THEN proof' = {Link} /\ sent' = sent \cup {Link}
       ELSE UNCHANGED <<proof, sent>>
    /\ UNCHANGED <<orderStatus, stored, disputeVars>>

ConfirmAnyway(h) ==
    /\ orderStatus \notin {"COMPLETED", "CANCELLED"}
    /\ proof # {}
    /\ Begin(h, "setStatus", "COMPLETED", Null)
    /\ UNCHANGED fulfilmentVars

\* POST delivery/:orderId/confirm completes the order; neither its hold nor a
\* wallet is touched, though the comment there says the release is triggered.
ConfirmDelivered(h) ==
    /\ orderStatus = "PAID"
    /\ proof # {}
    /\ Begin(h, "setStatus", "COMPLETED", Null)
    /\ UNCHANGED fulfilmentVars

\* DELETE orders/:id and POST transactions/:id/cancel
CancelOrder(h) ==
    /\ orderStatus \notin {"PAID", "COMPLETED"}
    /\ Begin(h, "setStatus", "CANCELLED", Null)
    /\ UNCHANGED fulfilmentVars

\* The order's status is set, whatever it is by now.
SetOrderStatus(h) ==
    /\ End(h, "setStatus")
    /\ orderStatus' = call[h].on
    /\ UNCHANGED <<deliveryVars, disputeVars>>

\* POST disputes: one transaction inserts the row and sets the order's status.
OpenDispute(h) ==
    /\ orderStatus \notin {"COMPLETED", "CANCELLED"}
    /\ dispute = "NONE"
    /\ Begin(h, "open", Null, Null)
    /\ UNCHANGED fulfilmentVars

InsertDispute(h) ==
    /\ call[h].at = "open" /\ dispute = "NONE"
    /\ End(h, "open")
    /\ dispute' = "OPEN"
    /\ orderStatus' = "DISPUTED"
    /\ UNCHANGED <<deliveryVars, decision, late, reopened>>

\* POST transactions/:id/dispute: the same in two writes.
DisputeTransaction(h) ==
    /\ orderStatus = "PAID"
    /\ Begin(h, "openFirst", "DISPUTED", Null)
    /\ UNCHANGED fulfilmentVars

InsertFirst(h) ==
    /\ call[h].at = "openFirst" /\ dispute = "NONE"
    /\ Proceed(h, "openFirst", "setStatus", Null)
    /\ dispute' = "OPEN"
    /\ UNCHANGED <<orderStatus, deliveryVars, decision, late, reopened>>

\* An order has one row of disputes: another insert is refused.
InsertRefused(h) ==
    /\ call[h].at \in {"open", "openFirst"} /\ dispute # "NONE"
    /\ call' = [call EXCEPT ![h] = Idle]
    /\ UNCHANGED <<serial, reliable, calls, fulfilmentVars>>

\* POST orders/:id/dispute: the status, and no row.
DisputeOrder(h) ==
    /\ orderStatus = "PAID"
    /\ Begin(h, "setStatus", "DISPUTED", Null)
    /\ UNCHANGED fulfilmentVars

\* POST disputes/:id/respond
Respond(h) ==
    /\ dispute = "OPEN"
    /\ Begin(h, "respond", Null, Null)
    /\ UNCHANGED fulfilmentVars

SetResponded(h) ==
    /\ End(h, "respond")
    /\ dispute' = "RESPONDED"
    /\ reopened' = (reopened \/ decision # "NONE")
    /\ UNCHANGED <<orderStatus, deliveryVars, decision, late>>

\* POST disputes/:id/evidence
SubmitEvidence(h) ==
    /\ dispute \notin {"NONE", "DECIDED"}
    /\ Begin(h, "evidence", Null, Null)
    /\ UNCHANGED fulfilmentVars

InsertEvidence(h) ==
    /\ End(h, "evidence")
    /\ late' = IF decision # "NONE" THEN late + 1 ELSE late
    /\ UNCHANGED <<orderStatus, deliveryVars, dispute, decision, reopened>>

\* POST admin/disputes/:id/assign asks only that there is a dispute, decided or not.
AssignArbitrator(h) ==
    /\ dispute # "NONE"
    /\ Begin(h, "assign", Null, Null)
    /\ UNCHANGED fulfilmentVars

SetArbitration(h) ==
    /\ End(h, "assign")
    /\ dispute' = "UNDER_ARBITRATION"
    /\ reopened' = (reopened \/ decision # "NONE")
    /\ UNCHANGED <<orderStatus, deliveryVars, decision, late>>

\* PUT disputes/:id/resolve and POST admin/disputes/:id/resolve: one transaction
\* decides the dispute and sets the order's status.
Resolve(h, outcome) ==
    /\ dispute # "NONE"
    /\ Begin(h, "resolve", outcome, Null)
    /\ UNCHANGED fulfilmentVars

Decide(h) ==
    /\ End(h, "resolve")
    /\ dispute' = "DECIDED"
    /\ decision' = call[h].on
    /\ orderStatus' = call[h].on
    /\ UNCHANGED <<deliveryVars, late, reopened>>

FulfilmentCall(h) ==
    \/ \E f \in Files \ stored : SubmitDeliveryProof(h, f)
    \/ \E outcome \in {"COMPLETED", "REFUNDED", "CANCELLED"} : Resolve(h, outcome)
    \/ PayAccepted(h) \/ DeliverByLink(h) \/ ConfirmDelivered(h) \/ CancelOrder(h)
    \/ OpenDispute(h) \/ DisputeTransaction(h) \/ DisputeOrder(h)
    \/ Respond(h) \/ SubmitEvidence(h) \/ AssignArbitrator(h)
    \/ StoreFile(h) \/ ListFile(h) \/ ListRefused(h) \/ InsertLink(h)
    \/ SetOrderStatus(h)
    \/ InsertDispute(h) \/ InsertFirst(h) \/ InsertRefused(h)
    \/ SetResponded(h) \/ InsertEvidence(h) \/ SetArbitration(h) \/ Decide(h)

----------------------------------------------------------------------------
(* Properties *)

\* The seller's proof: a file the row lists is on disk, even if calls overlap or are
\* cut short; and if calls do not overlap, what a call that was answered has
\* added stays listed.
ProofKept ==
    /\ proof \ {Link} \subseteq stored
    /\ serial => sent \subseteq proof

\* If calls neither overlap nor are cut short, the order follows its dispute: while
\* that is open the order is not completed, and once it was decided the order has
\* the status decided on, unless it was cancelled since.
OrderFollowsDispute ==
    serial /\ reliable /\ Quiet /\ dispute # "NONE" =>
        orderStatus \in {"CANCELLED", IF decision = "NONE" THEN "DISPUTED" ELSE decision}

\* Evidence comes after a decision only by calls that had passed their check before it,
\* fewer than there are handlers, and not at all if calls do not overlap; unless the
\* dispute was reopened since, by another assignment or by a response that came after
\* the decision: then it takes evidence as before.
FewLatePieces == reopened \/ late < Passes

\* The order goes the way of its dispute, and evidence before the decision.
DisputeInOrder == OrderFollowsDispute /\ FewLatePieces
=============================================================================
