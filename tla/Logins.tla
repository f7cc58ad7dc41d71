------------------------------- MODULE Logins -------------------------------
(***************************************************************************)
(* Who may log in to one account: the count of failed attempts and its     *)
(* lock (core/auth/brute-force.service.ts), as AuthService.login asks for  *)
(* them (core/auth/auth.service.ts).  Sessions has what a login leaves     *)
(* behind, SecondFactor what may stop it between the password and the end. *)
(*                                                                         *)
(* Redis keeps a count, read and written in two steps, and every replica   *)
(* one more in its memory: it goes by that one if it did not connect when  *)
(* it started, and for any command that fails.  A call may be let in by    *)
(* one store and counted at the other, or nowhere.  The clock counts in    *)
(* units of the attempt window, five minutes; no call takes longer than    *)
(* one, and none of its commands any time.  The hash's own expiry, when    *)
(* count and lock would be void anyway, is left out.                       *)
(***************************************************************************)
EXTENDS Replicas, Functions

CONSTANTS
    Redis,       \* the store all replicas share
    MaxFailed,   \* MAX_FAILED_ATTEMPTS
    Window,      \* ATTEMPT_WINDOW_MS
    Lockout,     \* LOCKOUT_DURATION_MS
    MaxTime      \* bound of the clock

ASSUME LoginsAssumption ==
    /\ ProcessOf \in [Handlers -> Processes]
    /\ Redis \notin Processes
    /\ IsFiniteSet(Processes) /\ IsFiniteSet(Handlers)
    /\ {MaxFailed, Window, Lockout, MaxTime} \subseteq Nat \ {0}
    /\ MaxFailed > 1    \* with 1, only Redis would lock at the first failure
    /\ Window < Lockout
    /\ MaxCalls \in Nat

VARIABLES
    connected,        \* the replicas that have a client of Redis
    failedAttempts,   \* the record of each store: the hash in Redis, the Maps
    failed,           \* wrong passwords by time, of the calls a store let in and
                      \* counted, since it was last cleared (nothing reads it)
    clock

loginVars == <<serial, connected, failedAttempts, failed, clock, call, calls>>

----------------------------------------------------------------------------
Time == 1..MaxTime

Stores == Processes \cup {Redis}

\* last and until are 0 while there is no attempt and no lock.
NoRecord == [count |-> 0, last |-> 0, until |-> 0]

\* began: when the call came; store: the one that let it in; seen: the record of
\* Redis it has read to count in.
NoLogin == [at |-> "idle", began |-> 0, store |-> Redis, seen |-> NoRecord]

NoFailures == [t \in Time |-> 0]

LoginsInit ==
    /\ serial \in BOOLEAN
    /\ connected \in SUBSET Processes
    /\ failedAttempts = [s \in Stores |-> NoRecord]
    /\ failed = [s \in Stores |-> NoFailures]
    /\ clock = 1
    /\ call = [h \in Handlers |-> NoLogin]
    /\ calls = 0

\* The stores a replica may end up with for a command: its own if it has no client,
\* or if Redis fails.
Reach(p) == IF p \in connected THEN {Redis, p} ELSE {p}

\* Where a deletion takes place: a command that fails may have been carried out.
Deleted(p) == SUBSET Reach(p) \ {{}}

Locked(s) == clock < failedAttempts[s].until

LockOver(s) == failedAttempts[s].until # 0 /\ ~Locked(s)

Without(S) == [s \in Stores |-> IF s \in S THEN NoRecord ELSE failedAttempts[s]]

GoOn(h, at) == call' = [call EXCEPT ![h] = IF at = "idle" THEN NoLogin ELSE [@ EXCEPT !.at = at]]

----------------------------------------------------------------------------
(* checkAccountLock *)

\* A call comes for an account that is not locked.  A lock whose time has come is
\* deleted: by a second command in Redis, at once in memory.
CheckAccountLock(h) ==
    /\ call[h] = NoLogin
    /\ calls < MaxCalls
    /\ serial => \A g \in Handlers : call[g] = NoLogin
    /\ \E s \in Reach(ProcessOf[h]) :
          LET at == IF s = Redis /\ LockOver(s) THEN "unlock" ELSE "compare" IN
          /\ ~Locked(s)
          /\ failedAttempts' = Without({p \in {s} \ {Redis} : LockOver(p)})
          /\ call' = [call EXCEPT ![h] = [NoLogin EXCEPT !.at = at, !.began = clock, !.store = s]]
    /\ calls' = calls + 1
    /\ UNCHANGED <<serial, connected, failed, clock>>

Unlock(h) ==
    /\ call[h].at = "unlock"
    /\ failedAttempts' = Without({Redis})
    /\ GoOn(h, "compare")
    /\ UNCHANGED <<serial, connected, failed, clock, calls>>

\* The deletion fails, if only in the answer, and the replica's memory is asked.
UnlockFails(h) ==
    LET p == ProcessOf[h] IN
    /\ call[h].at = "unlock"
    /\ \E taken \in SUBSET {Redis} :
          failedAttempts' = Without(taken \cup {s \in {p} : LockOver(s)})
    /\ call' = [call EXCEPT ![h] = IF Locked(p) THEN NoLogin
                                   ELSE [@ EXCEPT !.at = "compare", !.store = p]]
    /\ UNCHANGED <<serial, connected, failed, clock, calls>>

----------------------------------------------------------------------------
(* The password is wrong: recordFailedAttempt *)

Count(r, now) == (IF r.last # 0 /\ now - r.last > Window THEN 0 ELSE r.count) + 1

LockPastMaximum(r, now) ==
    [count |-> Count(r, now), last |-> now,
     until |-> IF Count(r, now) > MaxFailed THEN now + Lockout ELSE r.until]

LockAtMaximumOnly(r, now) ==
    [count |-> Count(r, now), last |-> now,
     until |-> IF Count(r, now) = MaxFailed THEN now + Lockout ELSE 0]

\* One failure more: counted from the start if the last is longer ago than the
\* window, when a past lock is forgotten too, and locked from the maximum on.
After(r, now) ==
    [count |-> Count(r, now), last |-> now,
     until |-> CASE Count(r, now) >= MaxFailed -> now + Lockout
                 [] Count(r, now) = 1          -> 0
                 [] OTHER                      -> r.until]

\* In Redis that is the record read before, and lockedUntil is only written if there
\* is a lock now.
Counted(h, s) ==
    IF s # Redis THEN After(failedAttempts[s], clock)
    ELSE LET r == After(call[h].seen, clock) IN
         [r EXCEPT !.until = IF r.count >= MaxFailed THEN @ ELSE failedAttempts[Redis].until]

\* The failure is counted at the stores S.
CountAt(h, S) ==
    /\ failedAttempts' = [s \in Stores |-> IF s \in S THEN Counted(h, s) ELSE failedAttempts[s]]
    /\ failed' = IF call[h].store \in S THEN [failed EXCEPT ![call[h].store][clock] = @ + 1]
                 ELSE failed
    /\ GoOn(h, "idle")

\* In memory that is one step ...
Wrong(h) ==
    /\ call[h].at = "compare"
    /\ CountAt(h, {ProcessOf[h]})
    /\ UNCHANGED <<serial, connected, clock, calls>>

\* ... in Redis the record is read ...
ReadAttempts(h) ==
    /\ call[h].at = "compare"
    /\ ProcessOf[h] \in connected
    /\ call' = [call EXCEPT ![h].at = "record", ![h].seen = failedAttempts[Redis]]
    /\ UNCHANGED <<serial, connected, failedAttempts, failed, clock, calls>>

\* ... and its fields are written.  A pipeline that fails may have been carried out;
\* the replica counts in memory if the client throws, and nowhere if it answers.
RecordFailedAttempt(h) ==
    /\ call[h].at = "record"
    /\ \E S \in SUBSET {Redis, ProcessOf[h]} : CountAt(h, S)
    /\ UNCHANGED <<serial, connected, clock, calls>>

----------------------------------------------------------------------------
(* The password is right: clearFailedAttempts *)

Clear(S) ==
    /\ failedAttempts' = Without(S)
    /\ failed' = [s \in Stores |-> IF s \in S THEN NoFailures ELSE failed[s]]

ClearFailedAttempts(h) ==
    /\ call[h].at = "compare"
    /\ \E S \in Deleted(ProcessOf[h]) : Clear(S)
    /\ GoOn(h, "idle")
    /\ UNCHANGED <<serial, connected, clock, calls>>

----------------------------------------------------------------------------
(* Time and faults *)

ClockTick ==
    /\ clock < MaxTime
    /\ \A h \in Handlers : call[h] = NoLogin \/ (call[h].at # "record" /\ call[h].began = clock)
    /\ clock' = clock + 1
    /\ UNCHANGED <<serial, connected, failedAttempts, failed, call, calls>>

\* A call is refused for the code of its second factor, or cut short.
AbortLogin(h) ==
    /\ call[h] # NoLogin
    /\ GoOn(h, "idle")
    /\ UNCHANGED <<serial, connected, failedAttempts, failed, clock, calls>>

\* A replica dies and comes back: what it counted for itself is gone, and it connects
\* to Redis or does not.
RestartReplica(p) ==
    /\ connected' \in {connected \cup {p}, connected \ {p}}
    /\ Clear({p})
    /\ call' = [h \in Handlers |-> IF ProcessOf[h] = p THEN NoLogin ELSE call[h]]
    /\ UNCHANGED <<serial, clock, calls>>

LoginStep(h) ==
    \/ CheckAccountLock(h) \/ Unlock(h) \/ UnlockFails(h)
    \/ Wrong(h) \/ ReadAttempts(h) \/ RecordFailedAttempt(h) \/ ClearFailedAttempts(h)

LoginsNext ==
    \/ \E h \in Handlers : LoginStep(h) \/ AbortLogin(h)
    \/ \E p \in Processes : RestartReplica(p)
    \/ ClockTick

LoginsSpec == LoginsInit /\ [][LoginsNext]_loginVars

----------------------------------------------------------------------------
(* Properties *)

RecordType == [count : Nat, last : Nat, until : Nat]

LoginsTypeOK ==
    /\ serial \in BOOLEAN
    /\ connected \in SUBSET Processes
    /\ failedAttempts \in [Stores -> RecordType]
    /\ failed \in [Stores -> [Time -> Nat]]
    /\ clock \in Time
    /\ call \in [Handlers ->
            [at : {"idle", "unlock", "compare", "record"},
             began : Nat, store : Stores, seen : RecordType]]
    /\ calls \in 0..MaxCalls

\* Wrong passwords within the window that ends now, of calls store s let in and counted.
Recent(s) == SumFunctionOnSet(failed[s], {t \in Time : t + Window >= clock})

\* The calls a store may have let in at the same time.
AtOnce(s) == IF serial THEN 1 ELSE Cardinality({h \in Handlers : ProcessOf[h] = s})

\* Within one window, and with no successful login between, each store lets
\* no more than MAX_FAILED_ATTEMPTS passwords be tried that it counts.  In a replica's
\* memory calls that overlap exceed that only by those let in before the lock; in
\* Redis, where the count is read and written in two steps, they are excepted.  Each
\* store has the bound for itself, whatever the others counted, and a call that one
\* lets in and another counts, or none, because a command failed in between, is not
\* in it: such calls nothing bounds.
AttemptsBounded ==
    \A s \in Stores : serial \/ s # Redis => Recent(s) <= MaxFailed - 1 + AtOnce(s)

\* A failure is counted in a replica's memory for a call that another store let in,
\* longer than the window after the last one there.
Restarted(s, h) ==
    /\ Wrong(h) \/ RecordFailedAttempt(h)
    /\ s = ProcessOf[h] /\ call[h].store # s
    /\ clock - failedAttempts[s].last > Window

\* A store's lock ends when its time has come, when a login that some store let in
\* succeeds, or with the replica that alone knew of it.  Two
\* things end it early: in Redis a call that saw an earlier lock run out, if calls
\* overlap, and in memory a failure counted there for a call that Redis let in.
LockRunsItsTime ==
    [][\A s \in Stores :
          Locked(s) /\ ~Locked(s)' =>
              \/ clock' # clock
              \/ \E h \in Handlers : ClearFailedAttempts(h) \/ Restarted(s, h)
              \/ s # Redis /\ RestartReplica(s)
              \/ /\ s = Redis /\ ~serial
                 /\ \E h \in Handlers : Unlock(h) \/ UnlockFails(h)]_loginVars
=============================================================================
