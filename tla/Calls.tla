------------------------------- MODULE Calls -------------------------------
(***************************************************************************)
(* Calls served side by side.  A handler serves one at a time, in steps    *)
(* that are single queries or transactions (READ COMMITTED, no row is      *)
(* locked by a read): what a call has read may be old when it writes.      *)
(***************************************************************************)
EXTENDS Naturals, Sequences, FiniteSets

CONSTANTS
    Handlers,   \* calls served at the same time
    MaxCalls,   \* bound: calls served altogether
    Null

ASSUME CallsAssumption == MaxCalls \in Nat /\ IsFiniteSet(Handlers) /\ Handlers # {}

VARIABLES
    serial,     \* whether calls are kept from overlapping ...
    reliable,   \* ... and from being cut short: both fixed from the start
    call,       \* what each handler is doing
    calls       \* how many calls there were

callVars == <<serial, reliable, call, calls>>

----------------------------------------------------------------------------
\* at: the step that comes next; on: what the call is about; seen: what it read.
Idle == [at |-> "idle", on |-> Null, seen |-> Null]

CallsInit ==
    /\ serial \in BOOLEAN
    /\ reliable \in BOOLEAN
    /\ call = [h \in Handlers |-> Idle]
    /\ calls = 0

Quiet == \A h \in Handlers : call[h] = Idle

Begin(h, at, on, seen) ==
    /\ call[h] = Idle
    /\ calls < MaxCalls
    /\ serial => Quiet
    /\ call' = [call EXCEPT ![h] = [at |-> at, on |-> on, seen |-> seen]]
    /\ calls' = calls + 1
    /\ UNCHANGED <<serial, reliable>>

\* The call is at this step, and goes on to the next with what it has seen.
Proceed(h, at, next, seen) ==
    /\ call[h].at = at
    /\ call' = [call EXCEPT ![h] = [at |-> next, on |-> call[h].on, seen |-> seen]]
    /\ UNCHANGED <<serial, reliable, calls>>

End(h, at) ==
    /\ call[h].at = at
    /\ call' = [call EXCEPT ![h] = Idle]
    /\ UNCHANGED <<serial, reliable, calls>>

\* A query fails, or the process dies.
Cut(h) ==
    /\ ~reliable
    /\ call[h] # Idle
    /\ call' = [call EXCEPT ![h] = Idle]
    /\ UNCHANGED <<serial, reliable, calls>>

\* How often the same check may be passed before one of its calls has written.
Passes == IF serial THEN 1 ELSE Cardinality(Handlers)
=============================================================================
