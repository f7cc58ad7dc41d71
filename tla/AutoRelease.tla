---------------------------- MODULE AutoRelease ----------------------------
(***************************************************************************)
(* The job that releases expired holds: AutoReleaseEscrowCron              *)
(* (jobs/cron/auto-release-escrow.cron.ts) calls processExpiredEscrows of  *)
(* EscrowService every five minutes, while the requests of Escrow come and *)
(* go.  The job reads the expired holds once, then calls releaseEscrow for *)
(* one after the other; each call reads its hold anew and may fail, which  *)
(* is logged and does not stop the loop.                                   *)
(***************************************************************************)
EXTENDS Escrow, Sequences

CONSTANT OrderFee   \* platformFeeMinor of each order

ASSUME AutoReleaseAssumption == OrderFee \in [Orders -> Nat]

VARIABLES
    expired,  \* orders whose hold's timeoutAt has passed
    job,      \* where the job is
    running,  \* isRunning
    batch,    \* expired holds the running job has still to release, in turn
    tried     \* history: the holds this run, or the last one, called releaseEscrow for

jobVars == <<job, running, batch, tried>>
allVars == <<vars, expired, jobVars>>

JobInit ==
    /\ Init
    /\ expired = {}
    /\ job = "idle"
    /\ running = FALSE
    /\ batch = <<>>
    /\ tried = {}

Goes(label, flag, holds) == job' = label /\ running' = flag /\ batch' = holds

ExpiredHolds == {o \in expired : hold[o].status = "ACTIVE"}

\* A query without ORDER BY may return its rows in any order.
InAnyOrder(S) == {s \in [1..Cardinality(S) -> S] : IsInjective(s)}

\* Time passes: createEscrow gave the hold a timeout, and it is over.
Expire(o) ==
    /\ hold[o].status # "NONE"
    /\ o \notin expired
    /\ expired' = expired \cup {o}
    /\ UNCHANGED <<vars, jobVars>>

\* The schedule fires; a run that has not ended keeps the next one from starting.
JobStart ==
    /\ job = "idle"
    /\ ~running
    /\ Goes("find", TRUE, <<>>)
    /\ tried' = {}
    /\ UNCHANGED <<vars, expired>>

\* The query for the holds that are ACTIVE and past their timeout.
JobFind ==
    /\ job = "find"
    /\ \E holds \in InAnyOrder(ExpiredHolds) : Goes("loop", running, holds)
    /\ UNCHANGED <<vars, expired, tried>>

\* The query fails: the error is caught and the flag comes down.
JobFail ==
    /\ job = "find"
    /\ Goes("idle", FALSE, <<>>)
    /\ UNCHANGED <<vars, expired, tried>>

\* What releaseEscrow checks, on the hold as it is now.
Releasable(o, actor, fee) ==
    /\ "RELEASED" \in EscrowStateMachine[hold[o].status]
    /\ ValidateActorPermission(o, actor, "RELEASE")
    /\ hold[o].seller # Null
    /\ CanUnlock(wallet[hold[o].buyer], hold[o].amount - fee)

\* The writes of releaseEscrow, in one step.  The key names the hold and the
\* time, so its journal is always a new one.
Release(o, fee) ==
    LET a == hold[o].amount  s == hold[o].seller IN
    /\ wallet' = PayOut(wallet, hold[o].buyer, s, a - fee, fee)
    /\ account' = [account EXCEPT ![s] = @ + a - fee]
    /\ escrowAcct' = escrowAcct - a
    /\ feeAcct' = feeAcct + fee
    /\ SetStatus(o, "RELEASED", "COMPLETED")
    /\ UNCHANGED <<dispute, journals, unposted, pc, arg>>

ReleaseOrStop(o) ==
    /\ job = "loop"
    /\ batch # <<>> /\ o = Head(batch)
    /\ IF Releasable(o, System, OrderFee[o])
       THEN Release(o, OrderFee[o]) /\ Goes("loop", running, Tail(batch))
       ELSE UNCHANGED vars /\ Goes("loop", running, <<>>)
    /\ tried' = tried \cup {o}
    /\ UNCHANGED expired

\* The next hold of the loop.  An error of releaseEscrow is logged, and the loop
\* goes on to the hold after it.
JobRelease(o) ==
    /\ job = "loop"
    /\ batch # <<>> /\ o = Head(batch)
    /\ IF Releasable(o, System, OrderFee[o]) THEN Release(o, OrderFee[o]) ELSE UNCHANGED vars
    /\ Goes("loop", running, Tail(batch))
    /\ tried' = tried \cup {o}
    /\ UNCHANGED expired

JobEnd ==
    /\ job = "loop"
    /\ batch = <<>>
    /\ Goes("idle", FALSE, <<>>)
    /\ UNCHANGED <<vars, expired, tried>>

JobStep == JobStart \/ JobFind \/ JobFail \/ (\E o \in Orders : JobRelease(o)) \/ JobEnd

\* The process dies during a run of the job and comes back: the requests in
\* flight are rolled back, the loop is lost, and the flag, which lives in memory,
\* is down again.
Restart ==
    /\ running
    /\ pc' = [r \in Requests |-> IF InFlight(r) THEN "failed" ELSE pc[r]]
    /\ arg' = [r \in Requests |-> Blank]
    /\ Goes("idle", FALSE, <<>>)
    /\ UNCHANGED <<wallet, hold, order, dispute, ledger, unposted, expired, tried>>

RequestStep == Next /\ UNCHANGED <<expired, jobVars>>

JobNext == JobStep \/ RequestStep \/ Restart \/ \E o \in Orders : Expire(o)

\* A crash that leaves holds of the batch untouched.
CutShort == Restart /\ batch # <<>>

\* The schedule keeps firing and a run that began goes on; the query does not fail
\* for ever, and some day no run is cut short any more.  Callers owe nothing.
JobSpec ==
    /\ JobInit
    /\ [][JobNext]_allVars
    /\ WF_allVars(JobStep)
    /\ SF_allVars(JobFind)
    /\ <>[][~CutShort]_allVars

----------------------------------------------------------------------------
(* Properties *)

JobTypeOK ==
    /\ TypeOK
    /\ expired \subseteq Orders
    /\ job \in {"idle", "find", "loop"}
    /\ running \in BOOLEAN
    /\ batch \in Seq(Orders)
    /\ tried \subseteq Orders

\* For an expired hold that stays ACTIVE the job calls releaseEscrow, in one run
\* after the other, whatever the query, the releases of the holds before it and
\* crashes meet: no failure leaves isRunning up or ends the loop before the hold's
\* turn, and no run lasts for ever.
ExpiredHoldsTried ==
    \A o \in Orders :
        (o \in expired /\ hold[o].status = "ACTIVE")
            ~> (o \in tried \/ hold[o].status # "ACTIVE")

\* An expired hold that has a seller does not stay ACTIVE: the job releases it,
\* unless someone settles or disputes it first.
ExpiredHoldsReleased ==
    \A o \in Orders :
        (o \in expired /\ hold[o].status = "ACTIVE" /\ hold[o].seller # Null)
            ~> hold[o].status # "ACTIVE"
=============================================================================
