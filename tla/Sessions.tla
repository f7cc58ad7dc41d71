------------------------------ MODULE Sessions ------------------------------
(***************************************************************************)
(* The sessions of one user: login, refresh, logout, logout from all       *)
(* devices, the end of one session and the change of the password          *)
(* (core/auth/auth.service.ts).  What a session is, is kept twice: as a    *)
(* row of the sessions table (session.repository.ts) and as a refresh      *)
(* token in Redis, or in the memory of the process that has lost Redis     *)
(* (token-blacklist.service.ts).  A refresh asks both.                     *)
(*                                                                         *)
(* A token is a signature over the user and the second it was issued in:   *)
(* it is named after that second, and two logins within one second get the *)
(* same one.  Tokens and rows expire after seven days, beyond the clock    *)
(* here.  The list of revoked access tokens is left out: nothing reads it. *)
(***************************************************************************)
EXTENDS Replicas

CONSTANTS
    MaxSecond,   \* bound of the clock
    Null         \* a call without a token, or with no row yet

ASSUME SessionsAssumption ==
    /\ IsFiniteSet(Handlers)
    /\ ProcessOf \in [Handlers -> Processes]
    /\ MaxCalls \in Nat
    /\ MaxSecond \in Nat \ {0}
    /\ Null \notin Nat

VARIABLES
    reliable,  \* whether calls are kept from being cut short: fixed from the start
    session,   \* rows of the sessions table, in the order they were inserted
    refresh,   \* Redis: tokens under refresh:<token>
    members,   \* Redis: the set user_tokens:<user>
    memory,    \* tokens each replica keeps for itself
    online,    \* whether a replica still has its Redis client
    password,  \* the user's password, numbered
    second

mode == <<serial, reliable>>
cache == <<refresh, members, memory, online>>
vars == <<serial, reliable, session, refresh, members, memory, online,
          password, second, call, calls>>

----------------------------------------------------------------------------
Second == 1..MaxSecond

\* password: the one that was typed at the head of the session's chain;
\* pairs: how many pairs of tokens were issued for the row (nothing reads it).
SessionRow == [token : Second, live : BOOLEAN, password : Nat, pairs : Nat]

Label == {"idle", "find", "unlink", "delete", "revoke", "insert", "store", "index",
          "setPassword", "revokeRow", "revokeAll", "list", "drop"}

\* then: where the call goes once it has forgotten its token in the cache;
\* row: the row a refresh found; found: what SMEMBERS returned.
Idle == [at |-> "idle", then |-> "idle", token |-> Null, row |-> Null,
         password |-> 0, found |-> {}]

Live == {i \in DOMAIN session : session[i].live}

LiveTokens == {session[i].token : i \in Live}

Init ==
    /\ serial \in BOOLEAN
    /\ reliable \in BOOLEAN
    /\ session = <<>>
    /\ refresh = {}
    /\ members = {}
    /\ memory = [p \in Processes |-> {}]
    /\ online = [p \in Processes |-> TRUE]
    /\ password = 0
    /\ second = 1
    /\ call = [h \in Handlers |-> Idle]
    /\ calls = 0

Quiet == \A h \in Handlers : call[h] = Idle

Begin(h, c) ==
    /\ call[h] = Idle
    /\ calls < MaxCalls
    /\ serial => Quiet
    /\ call' = [call EXCEPT ![h] = c]
    /\ calls' = calls + 1
    /\ UNCHANGED <<mode, session, cache, password, second>>

\* The call is at this step and goes on to the next.
Proceed(h, at, c) ==
    /\ call[h].at = at
    /\ call' = [call EXCEPT ![h] = c]
    /\ UNCHANGED <<mode, second, calls>>

Goto(h, at) == IF at = "idle" THEN Idle ELSE [call[h] EXCEPT !.at = at]

Online(h) == online[ProcessOf[h]]

----------------------------------------------------------------------------
(* POST auth/login, and the end of POST auth/register: a row, then the cache *)

Login(h) ==
    Begin(h, [Idle EXCEPT !.at = "insert", !.token = second, !.password = password])

InsertRow(h) ==
    LET new == [token |-> call[h].token, live |-> TRUE, password |-> call[h].password,
                pairs |-> 0]
        counted == IF call[h].row = Null THEN session
                   ELSE [session EXCEPT ![call[h].row].pairs = @ + 1]
    IN
    /\ Proceed(h, "insert", Goto(h, "store"))
    /\ session' = Append(counted, new)
    /\ UNCHANGED <<cache, password>>

\* login and register log a row that cannot be inserted, and go on.
InsertFails(h) ==
    /\ ~reliable
    /\ call[h].row = Null
    /\ Proceed(h, "insert", Goto(h, "store"))
    /\ UNCHANGED <<session, cache, password>>

\* storeRefreshToken: the token, then the set that revokeAllUserTokens reads.
StoreToken(h) ==
    LET p == ProcessOf[h] IN
    IF Online(h)
    THEN /\ Proceed(h, "store", Goto(h, "index"))
         /\ refresh' = refresh \cup {call[h].token}
         /\ UNCHANGED <<session, members, memory, online, password>>
    ELSE /\ Proceed(h, "store", Idle)
         /\ memory' = [memory EXCEPT ![p] = @ \cup {call[h].token}]
         /\ UNCHANGED <<session, refresh, members, online, password>>

IndexForgotten(h) ==
    /\ Proceed(h, "index", Idle)
    /\ UNCHANGED <<session, cache, password>>

\* A client that was lost meanwhile makes the command fail, and the memory steps in.
IndexToken(h) ==
    LET p == ProcessOf[h] IN
    /\ Proceed(h, "index", Idle)
    /\ members' = IF Online(h) THEN members \cup {call[h].token} ELSE members
    /\ memory' = IF Online(h) THEN memory
                 ELSE [memory EXCEPT ![p] = @ \cup {call[h].token}]
    /\ UNCHANGED <<session, refresh, online, password>>

----------------------------------------------------------------------------
(* POST auth/refresh *)

\* validateRefreshToken.
Known(h, t) == t \in IF Online(h) THEN refresh ELSE memory[ProcessOf[h]]

Refresh(h, t) ==
    /\ Known(h, t)
    /\ Begin(h, [Idle EXCEPT !.at = "find", !.then = "revoke", !.token = t])

\* findByToken: one of the live rows of the token; without one the call throws.
FindRow(h, i) ==
    /\ i \in Live
    /\ session[i].token = call[h].token
    /\ Proceed(h, "find", [Goto(h, "unlink") EXCEPT !.row = i,
                                                    !.password = session[i].password])
    /\ UNCHANGED <<session, cache, password>>

\* revokeRefreshToken: out of the user's set, if the token is known ...
UnlinkToken(h) ==
    LET p == ProcessOf[h]  t == call[h].token IN
    /\ Proceed(h, "unlink", Goto(h, IF Online(h) THEN "delete" ELSE call[h].then))
    /\ members' = IF Online(h) /\ t \in refresh THEN members \ {t} ELSE members
    /\ memory' = IF Online(h) THEN memory ELSE [memory EXCEPT ![p] = @ \ {t}]
    /\ UNCHANGED <<session, refresh, online, password>>

\* ... and then the token itself.
DeleteToken(h) ==
    LET p == ProcessOf[h]  t == call[h].token IN
    /\ Proceed(h, "delete", Goto(h, call[h].then))
    /\ refresh' = IF Online(h) THEN refresh \ {t} ELSE refresh
    /\ memory' = IF Online(h) THEN memory ELSE [memory EXCEPT ![p] = @ \ {t}]
    /\ UNCHANGED <<session, members, online, password>>

Revoked(S) == [i \in DOMAIN session |-> [session[i] EXCEPT !.live = @ /\ i \notin S]]

RevokeNothing(h) ==
    LET c == IF call[h].row = Null THEN Idle
             ELSE [Goto(h, "insert") EXCEPT !.token = second]
    IN
    /\ Proceed(h, "revoke", c)
    /\ UNCHANGED <<session, cache, password>>

\* SessionRepository.revoke ends every live row of the token.  A refresh then
\* issues the next pair; a logout is over.
RevokeToken(h) ==
    LET c == IF call[h].row = Null THEN Idle
             ELSE [Goto(h, "insert") EXCEPT !.token = second]
    IN
    /\ Proceed(h, "revoke", c)
    /\ session' = Revoked({i \in Live : session[i].token = call[h].token})
    /\ UNCHANGED <<cache, password>>

----------------------------------------------------------------------------
(* POST auth/logout *)

\* Without a refresh token, in the body or as a cookie, there is nothing to end.
Logout(h, t) ==
    /\ t # Null
    /\ Begin(h, [Idle EXCEPT !.at = "unlink", !.then = "revoke", !.token = t])

----------------------------------------------------------------------------
(* DELETE auth/sessions/:id *)

EndSession(h, i) ==
    Begin(h, [Idle EXCEPT !.at = "revokeRow", !.token = session[i].token, !.row = i])

RevokeRow(h) ==
    /\ Proceed(h, "revokeRow", Goto(h, "unlink"))
    /\ session' = Revoked({call[h].row})
    /\ UNCHANGED <<cache, password>>

----------------------------------------------------------------------------
(* POST auth/logout-all, POST auth/change-password *)

LogoutAll(h) == Begin(h, [Idle EXCEPT !.at = "revokeAll"])

\* A reset would end in the same three writes, but the token it asks for is never sent.
ChangePassword(h) == Begin(h, [Idle EXCEPT !.at = "setPassword"])

SetPassword(h) ==
    /\ Proceed(h, "setPassword", Goto(h, "revokeAll"))
    /\ password' = password + 1
    /\ UNCHANGED <<session, cache>>

RevokeNewest(h) ==
    /\ Proceed(h, "revokeAll", Goto(h, "list"))
    /\ session' = Revoked({Len(session)})
    /\ UNCHANGED <<cache, password>>

RevokeRows(h) ==
    /\ Proceed(h, "revokeAll", Goto(h, "list"))
    /\ session' = Revoked(Live)
    /\ UNCHANGED <<cache, password>>

\* revokeAllUserTokens: what the set lists, or all that the memory has ...
ListTokens(h) ==
    LET p == ProcessOf[h]  some == Online(h) /\ members # {} IN
    /\ Proceed(h, "list", IF some THEN [Goto(h, "drop") EXCEPT !.found = members] ELSE Idle)
    /\ memory' = IF Online(h) THEN memory ELSE [memory EXCEPT ![p] = {}]
    /\ UNCHANGED <<session, refresh, members, online, password>>

\* ... is deleted, and the set with it.
DropTokens(h) ==
    LET p == ProcessOf[h] IN
    /\ Proceed(h, "drop", Idle)
    /\ IF Online(h)
       THEN refresh' = refresh \ call[h].found /\ members' = {} /\ UNCHANGED memory
       ELSE memory' = [memory EXCEPT ![p] = {}] /\ UNCHANGED <<refresh, members>>
    /\ UNCHANGED <<session, online, password>>

----------------------------------------------------------------------------
(* Time and faults *)

Tick ==
    /\ second < MaxSecond
    /\ second' = second + 1
    /\ UNCHANGED <<mode, session, cache, password, call, calls>>

\* The client's "error" event: this replica forgets Redis for good.
LoseRedis(p) ==
    /\ online[p]
    /\ online' = [online EXCEPT ![p] = FALSE]
    /\ UNCHANGED <<mode, session, refresh, members, memory, password, second, call, calls>>

\* A replica dies, with its calls and its memory, and comes back.
Restart(p) ==
    /\ ~reliable
    /\ online' = [online EXCEPT ![p] = TRUE]
    /\ memory' = [memory EXCEPT ![p] = {}]
    /\ call' = [h \in Handlers |-> IF ProcessOf[h] = p THEN Idle ELSE call[h]]
    /\ UNCHANGED <<mode, session, refresh, members, password, second, calls>>

\* A call finds no row, or is cut short by a failing query.
Abort(h) ==
    /\ call[h] # Idle
    /\ reliable => call[h].at = "find" /\ call[h].token \notin LiveTokens
    /\ call' = [call EXCEPT ![h] = Idle]
    /\ UNCHANGED <<mode, session, cache, password, second, calls>>

Arrival(h) ==
    \/ Login(h) \/ LogoutAll(h) \/ ChangePassword(h)
    \/ \E t \in 1..second : Refresh(h, t)
    \/ \E t \in {session[i].token : i \in DOMAIN session} \cup {Null} : Logout(h, t)
    \/ \E i \in DOMAIN session : EndSession(h, i)

Step(h) ==
    \/ InsertRow(h) \/ InsertFails(h) \/ StoreToken(h) \/ IndexToken(h)
    \/ \E i \in DOMAIN session : FindRow(h, i)
    \/ UnlinkToken(h) \/ DeleteToken(h) \/ RevokeToken(h) \/ RevokeRow(h)
    \/ SetPassword(h) \/ RevokeRows(h) \/ ListTokens(h) \/ DropTokens(h)

Next ==
    \/ \E h \in Handlers : Arrival(h) \/ Step(h) \/ Abort(h)
    \/ \E p \in Processes : LoseRedis(p) \/ Restart(p)
    \/ Tick

Spec == Init /\ [][Next]_vars

----------------------------------------------------------------------------
(* Properties *)

TypeOK ==
    /\ {serial, reliable} \subseteq BOOLEAN
    /\ session \in Seq(SessionRow)
    /\ {refresh, members} \subseteq SUBSET Second
    /\ memory \in [Processes -> SUBSET Second]
    /\ online \in [Processes -> BOOLEAN]
    /\ {password, calls} \subseteq 0..MaxCalls
    /\ second \in Second
    /\ call \in [Handlers -> [at : Label, then : Label, token : Second \cup {Null},
                              row : Nat \cup {Null}, password : Nat,
                              found : SUBSET Second]]
    /\ \A h \in Handlers :
          /\ call[h].at \in {"find", "unlink", "delete", "revoke", "insert", "store", "index"}
                => call[h].token \in Second
          /\ call[h].row # Null => call[h].row \in DOMAIN session

\* A session is exchanged for one pair of tokens only: what a replica that lost
\* Redis cannot forget is refused by the row, and what a call cut short has not
\* ended was not exchanged.  Calls that overlap may each get a pair, but no more
\* than there are calls at a time.
ExchangedOnce ==
    \A i \in DOMAIN session :
        session[i].pairs <= IF serial THEN 1 ELSE Cardinality(Handlers)

\* When calls do not overlap and none is cut short, no session that began with an
\* earlier password is left once the password was changed, at no replica, whether
\* or not it still has Redis.
OldPasswordGone ==
    serial /\ reliable /\ Quiet =>
        \A i \in Live : session[i].password = password

\* No other session began in the same second: ending one of two ends both.
Alone(i) == \A j \in DOMAIN session \ {i} : session[j].token # session[i].token

\* Under the same conditions, and with Redis, the two stores tell one story
\* between calls: the user's set lists the tokens there are, each has a live row,
\* and a live row whose token no other has can be refreshed.
StoresAgree ==
    serial /\ reliable /\ Quiet /\ (\A p \in Processes : online[p]) =>
        /\ members = refresh
        /\ refresh \subseteq LiveTokens
        /\ \A i \in Live : Alone(i) => session[i].token \in refresh
=============================================================================
