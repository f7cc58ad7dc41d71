----------------------------- MODULE Callbacks -----------------------------
(***************************************************************************)
(* The payment providers' callbacks: WebhookController                     *)
(* (core/payment/webhook.controller.ts) and the keys it keeps with         *)
(* CacheService (infrastructure/cache/cache.service.ts).                   *)
(*                                                                         *)
(* A provider reports on a payment as often as its status changes, and     *)
(* sends a report again until it is answered with 200.  A callback sets    *)
(* the payment's key, or is a duplicate; it then writes to a wallet, an    *)
(* order or a withdrawal without looking at what is there, and deletes the *)
(* key only if that fails.  The key is the payment's, whatever the report  *)
(* says.                                                                   *)
(*                                                                         *)
(* Keys are kept in Redis if REDIS_ENABLED says so, which no file of the   *)
(* repository does, and in a Map of the process otherwise.  With Redis,    *)
(* every single command that fails falls back to the Map, or is only       *)
(* logged; Redis may have carried it out or not.  So one payment's key can *)
(* be in several stores, and in none of those a callback asks.             *)
(*                                                                         *)
(* What the providers do is not in the repository; their payments are      *)
(* modelled from what the controller expects of them.                      *)
(***************************************************************************)
EXTENDS Naturals, Sequences, FiniteSets

CONSTANTS
    Payments,     \* what a provider reports on: invoices, charges, disbursements
    Kind,         \* what each is for
    Reports,      \* the statuses reported of each, in this order
    Handlers,     \* callbacks served at the same time
    Processes,    \* processes of the backend; each has a Map of keys
    Redis,        \* the store they may share
    MaxCalls,     \* bound: callbacks served altogether
    MaxLosses,    \* bound: restarts of a process and keys that expire
    Null          \* no payment or process

Statuses == {"PENDING", "PAID", "SETTLED", "EXPIRED", "FAILED", "COMPLETED"}

Stores == Processes \cup {Redis}

ASSUME CallbacksAssumption ==
    /\ Kind \in [Payments -> {"topup", "order", "withdrawal"}]
    /\ Reports \in [Payments -> Seq(Statuses)]
    /\ IsFiniteSet(Handlers)
    /\ Redis \notin Processes
    /\ {MaxCalls, MaxLosses} \subseteq Nat
    /\ Null \notin Payments \cup Processes

VARIABLES
    useRedis, \* REDIS_ENABLED; chosen once
    keys,     \* idempotency keys: <<store, payment>>
    moved,    \* how often each payment was added to a balance or taken from a lock
    status,   \* of the order or withdrawal each payment is for
    acked,    \* how many reports of each payment were answered with 200
    call,     \* what each handler is doing
    calls,    \* how many callbacks there were
    losses,   \* how many restarts and expirations there were
    missed,   \* history: how often each payment's key was set, but not where it was sought
    mishap    \* history: payments with a callback that ended without deleting its key

vars == <<useRedis, keys, moved, status, acked, call, calls, losses, missed, mishap>>

Idle == [at |-> "idle", payment |-> Null, process |-> Null, report |-> 0]

Label == {"idle", "claim", "handle", "release", "mark", "answer"}

Init ==
    /\ useRedis \in BOOLEAN
    /\ keys = {}
    /\ moved = [p \in Payments |-> 0]
    /\ status = [p \in Payments |-> "OPEN"]
    /\ acked = [p \in Payments |-> 0]
    /\ call = [h \in Handlers |-> Idle]
    /\ calls = 0
    /\ losses = 0
    /\ missed = [p \in Payments |-> 0]
    /\ mishap = {}

\* webhookId, the provider's id of the payment, as it is kept in a store.
KeyIn(s, h) == <<s, call[h].payment>>

MapKey(h) == KeyIn(call[h].process, h)

\* What a Redis command that failed may have done to the key there: nothing, or
\* what it was sent for.
Unanswered(h) == IF useRedis THEN {{}, {KeyIn(Redis, h)}} ELSE {{}}

HasKey(p) == \E s \in Stores : <<s, p>> \in keys

\* A callback was told by a store that the payment's key is not set.
SeekIn(s, h) ==
    missed' = [missed EXCEPT ![call[h].payment] =
                  IF \E t \in Stores \ {s} : KeyIn(t, h) \in keys THEN @ + 1 ELSE @]

\* What the callback says of its payment.
Reported(h) == Reports[call[h].payment][call[h].report]

Goto(h, from, to) ==
    /\ call[h].at = from
    /\ call' = [call EXCEPT ![h] = IF to = "idle" THEN Idle ELSE [@ EXCEPT !.at = to]]
    /\ UNCHANGED <<useRedis, calls, losses>>

----------------------------------------------------------------------------
\* The provider sends its next report, or one it sent before: its answer is not
\* back yet, or was lost.  Any process may be given it.
Send(h, p, n, q) ==
    /\ call[h] = Idle
    /\ calls < MaxCalls
    /\ n \in 1..(acked[p] + 1) \cap DOMAIN Reports[p]
    /\ call' = [call EXCEPT ![h] = [at |-> "claim", payment |-> p, process |-> q, report |-> n]]
    /\ calls' = calls + 1
    /\ UNCHANGED <<useRedis, keys, moved, status, acked, losses, missed, mishap>>

SetRegardless(h) ==
    /\ Goto(h, "claim", "handle")
    /\ \E s \in IF useRedis THEN {Redis} ELSE {call[h].process} :
           keys' = keys \cup {KeyIn(s, h)} /\ SeekIn(s, h)
    /\ UNCHANGED <<moved, status, acked, mishap>>

\* setnx sets the key in Redis or, if there is no Redis or it does not answer, in
\* the Map, ...
Claim(h) ==
    /\ Goto(h, "claim", "handle")
    /\ \/ /\ useRedis
          /\ KeyIn(Redis, h) \notin keys
          /\ keys' = keys \cup {KeyIn(Redis, h)}
          /\ SeekIn(Redis, h)
       \/ /\ MapKey(h) \notin keys
          /\ \E set \in Unanswered(h) : keys' = keys \cup set \cup {MapKey(h)}
          /\ SeekIn(call[h].process, h)
    /\ UNCHANGED <<moved, status, acked, mishap>>

\* ... or finds it there: "Webhook already processed".
Duplicate(h) ==
    /\ Goto(h, "claim", "answer")
    /\ \/ /\ useRedis
          /\ KeyIn(Redis, h) \in keys
          /\ keys' = keys
       \/ /\ MapKey(h) \in keys
          /\ \E set \in Unanswered(h) : keys' = keys \cup set
    /\ UNCHANGED <<moved, status, acked, missed, mishap>>

Paid(s) == s \in {"PAID", "SETTLED"}

\* The writes of processTopUpPayment, processOrderPayment and
\* processXenditDisbursement; a status none of them knows writes nothing.
Credited(p, s) == Kind[p] = "topup" /\ Paid(s)

GivenBack(p, s) == Kind[p] = "withdrawal" /\ s = "FAILED"

StatusAfter(p, s) ==
    CASE Kind[p] = "order" /\ Paid(s)                    -> "PAID"
      [] Kind[p] = "order" /\ s \in {"EXPIRED", "FAILED"} -> "CANCELLED"
      [] Kind[p] = "withdrawal" /\ s = "COMPLETED"       -> "COMPLETED"
      [] GivenBack(p, s)                                 -> "FAILED"
      [] OTHER                                           -> status[p]

Handle(h) ==
    LET p == call[h].payment  s == Reported(h) IN
    /\ Goto(h, "handle", "mark")
    /\ moved' = [moved EXCEPT ![p] = IF Credited(p, s) \/ GivenBack(p, s) THEN @ + 1 ELSE @]
    /\ status' = [status EXCEPT ![p] = StatusAfter(p, s)]
    /\ UNCHANGED <<keys, acked, missed, mishap>>

WrittenThenFails(h) ==
    /\ Goto(h, "handle", "release")
    /\ moved' = [moved EXCEPT ![call[h].payment] = @ + 1]
    /\ UNCHANGED <<keys, status, acked, missed, mishap>>

\* The database refuses; nothing is written.
HandleFails(h) ==
    /\ Goto(h, "handle", "release")
    /\ UNCHANGED <<keys, moved, status, acked, missed, mishap>>

\* "Invalid payload": the handlers that look for missing fields do so after the
\* key is set and before the try, so the key stays.
HandleRefuses(h) ==
    /\ Goto(h, "handle", "idle")
    /\ Kind[call[h].payment] # "withdrawal"
    /\ mishap' = mishap \cup {call[h].payment}
    /\ UNCHANGED <<keys, moved, status, acked, missed>>

KeyForgotten(h) ==
    /\ Goto(h, "release", "idle")
    /\ UNCHANGED <<keys, moved, status, acked, missed, mishap>>

\* del: the key leaves Redis, unless the command fails, and the Map; the callback is
\* answered with an error, to be sent again.
Release(h) ==
    /\ Goto(h, "release", "idle")
    /\ \/ /\ keys' = keys \ {KeyIn(Redis, h), MapKey(h)}
          /\ mishap' = mishap
       \/ /\ useRedis
          /\ keys' = keys \ {MapKey(h)}
          /\ mishap' = mishap \cup {call[h].payment}
    /\ UNCHANGED <<moved, status, acked, missed>>

\* cacheService.set writes the key to Redis or, if that fails, to the Map; without
\* Redis, to the cache manager's own memory, where setnx does not look.
Mark(h) ==
    /\ Goto(h, "mark", "answer")
    /\ \/ keys' = IF useRedis THEN keys \cup {KeyIn(Redis, h)} ELSE keys
       \/ /\ useRedis
          /\ \E set \in Unanswered(h) : keys' = keys \cup set \cup {MapKey(h)}
    /\ UNCHANGED <<moved, status, acked, missed, mishap>>

Answer(h) ==
    LET p == call[h].payment IN
    /\ Goto(h, "answer", "idle")
    /\ acked' = [acked EXCEPT ![p] = IF call[h].report > @ THEN call[h].report ELSE @]
    /\ UNCHANGED <<keys, moved, status, missed, mishap>>

\* The provider has given up waiting for the answer.
LoseAnswer(h) ==
    /\ Goto(h, "answer", "idle")
    /\ UNCHANGED <<keys, moved, status, acked, missed, mishap>>

\* Between setting the key and the end of the writes.
Working(h) == call[h].at \in {"handle", "release"}

\* These keys are gone; a payment whose key is now nowhere can be taken again.
Lose(lost) ==
    /\ losses < MaxLosses
    /\ losses' = losses + 1
    /\ keys' = keys \ lost
    /\ missed' = [p \in Payments |-> IF HasKey(p) /\ ~HasKey(p)' THEN missed[p] + 1 ELSE missed[p]]
    /\ UNCHANGED <<useRedis, moved, status, acked, calls>>

\* A process dies with the callbacks it serves and with its Map.
Restart(q) ==
    /\ Lose({k \in keys : k[1] = q})
    /\ call' = [h \in Handlers |-> IF call[h].process = q THEN Idle ELSE call[h]]
    /\ mishap' = mishap \cup
          {call[h].payment : h \in {g \in Handlers : call[g].process = q /\ Working(g)}}

\* A key has been there for webhookTtlSeconds.
Expire(k) ==
    /\ Lose({k})
    /\ UNCHANGED <<call, mishap>>

Step(h) ==
    \/ Claim(h) \/ Duplicate(h)
    \/ Handle(h) \/ HandleFails(h) \/ HandleRefuses(h) \/ Release(h)
    \/ Mark(h) \/ Answer(h) \/ LoseAnswer(h)

Next ==
    \/ \E h \in Handlers : Step(h)
    \/ \E h \in Handlers, p \in Payments, q \in Processes :
           \E n \in DOMAIN Reports[p] : Send(h, p, n, q)
    \/ \E q \in Processes : Restart(q)
    \/ \E k \in keys : Expire(k)

Spec == Init /\ [][Next]_vars

----------------------------------------------------------------------------
(* Properties *)

TypeOK ==
    /\ useRedis \in BOOLEAN
    /\ keys \subseteq Stores \X Payments
    /\ moved \in [Payments -> Nat]
    /\ status \in [Payments -> {"OPEN", "PAID", "CANCELLED", "COMPLETED", "FAILED"}]
    /\ acked \in [Payments -> Nat]
    /\ call \in [Handlers -> [at : Label, payment : Payments \cup {Null},
                              process : Processes \cup {Null}, report : Nat]]
    /\ calls \in 0..MaxCalls
    /\ losses \in 0..MaxLosses
    /\ missed \in [Payments -> Nat]
    /\ mishap \subseteq Payments

\* A payment moves money once, and once more at most for each time its key was set
\* but not where a callback sought it: in another process's Map, in Redis while it
\* did not answer, gone with a process, or expired.  Repeated reports, failures and
\* calls cut short cost nothing else.
MovedOncePerMiss == \A p \in Payments : moved[p] <= 1 + missed[p]

\* What a payment made of its order or withdrawal is not undone by another of its
\* reports, late or repeated, as long as its key was never missed.
OutcomeFixed ==
    [][\A p \in Payments :
          status[p] # "OPEN" /\ missed[p] = 0 => status'[p] = status[p]]_vars

\* Whether the payment has been taken into account.
Taken(p) == moved[p] # 0 \/ status[p] # "OPEN"

\* Whether every report on the payment is about to write something.
Decisive(p) ==
    \A n \in DOMAIN Reports[p] :
        Reports[p][n] \in CASE Kind[p] = "topup" -> {"PAID", "SETTLED"}
                            [] Kind[p] = "order" -> {"PAID", "SETTLED", "EXPIRED", "FAILED"}
                            [] OTHER             -> {"COMPLETED", "FAILED"}

\* A key nobody is working on belongs to a payment that was taken into account, so
\* refusing its repetitions as duplicates loses nothing; but for a payment with an
\* invalid payload after the key was set, a deletion that Redis did not carry out,
\* or a process that died between the key and the writes.
KeyMeansTaken ==
    \A k \in keys :
        \/ Taken(k[2])
        \/ ~Decisive(k[2])
        \/ k[2] \in mishap
        \/ \E h \in Handlers :
              /\ Working(h)
              /\ call[h].payment = k[2]
              /\ k[1] \in {Redis, call[h].process}
=============================================================================
